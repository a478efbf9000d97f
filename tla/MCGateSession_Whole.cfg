SPECIFICATION Spec
CONSTANTS
    e1 = e1
    e2 = e2
    EvidenceId = {e1, e2}
    Unparseable = Unparseable
    NonFinite = NonFinite
    Config <- MCWhole
    Books <- MCBooks
    Closes <- MCCloses
    Qualities <- MCQualities
    Supplied <- MCSupplied
    Hedges <- MCHedges
    Assessments <- MCAssessments
    Times <- MCTimes
INVARIANTS
    LimitsHoldAfterRounding
    RebalanceIsFinal
PROPERTIES
    AdviserCannotSizeTrade
    AdviserCannotLiftDataBlock
    WaitingNeverUnblocks
