SPECIFICATION Spec
CONSTANTS
    Config <- MCConfig
    EvidenceId = {}
    NonFinite = NonFinite
    Unparseable = Unparseable
    NaN = 99999
    Infinite = 99998
    IntMax = 1000000
    ClosingDay <- MCClosingDay
    Contracts <- MCContracts
    Multiplier = 5
    NumDays = 3
    Starts = {0, 1}
    Books <- MCBooks
    DataQuality = 8
    Opinions <- MCOpinions
    Tested = {"SPY", "IWM", "VOL", "BAD", "OLD", "QQQ"}
    Quoted <- MCQuoted
    Asked <- MCAsked
    LastDay = 2
INVARIANTS
    SharesAreCarried
    DaysEndHedged
    OneValuationTime
CHECK_DEADLOCK FALSE
