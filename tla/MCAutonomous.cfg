SPECIFICATION LoopSpec
CONSTANTS
    Verdicts <- MCVerdicts
    NoLimit = NoLimit
    None = None
    Caps = {3, NoLimit}
    max_consecutive_errors = 2
    MaxElapsed = 2
    MaxCount = 4
INVARIANTS
    OrdersFollowDecisions
    EvidencePrecedesIntent
    BreakerCountsEveryError
    StopFileStopsOrders
    NoSiblingIsLeft
PROPERTY StopFileHaltsUnlessHeld
