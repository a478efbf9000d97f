CHECK_DEADLOCK FALSE
SPECIFICATION FairEngineSpec
CONSTANTS
    e1 = e1
    e2 = e2
    e3 = e3
    spy = spy
    c1 = c1
    c2 = c2
    EvidenceId = {e1, e2, e3}
    Caller = {c1, c2}
    Symbol = {spy}
    Contracted = {spy}
    Unparseable = Unparseable
    NonFinite = NonFinite
    Garbled = Garbled
    NotFound = NotFound
    MaxRecent = 3
    Config <- MCConfig
    Feeds <- MCFeeds
    Lags = {3}
    Hedges <- MCHedges
    Assessments <- MCAssessments
    AdviserKind = "openai"
    fallback_to_heuristic <- MCFallback
    Stamp = 2
    max_evidence_items = 2
    HeuristicCitations = 8
    MaxClock = 2
    MaxDecisions = 2
    MaxBuilds = 1
INVARIANTS
    DecisionIsReproducible
    FallbackIsAudited
PROPERTIES
    ImplementsDecisionLog
    OnlyTheCoreHangs
