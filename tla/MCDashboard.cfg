CHECK_DEADLOCK FALSE
SPECIFICATION DashboardSpec
CONSTANTS
    e1 = e1
    spy = spy
    qqq = qqq
    c1 = c1
    c2 = c2
    EvidenceId = {e1}
    Caller = {c1, c2}
    Symbol = {spy, qqq}
    Contracted = {spy}
    Unparseable = Unparseable
    NonFinite = NonFinite
    Garbled = Garbled
    NotFound = NotFound
    MaxRecent = 3
    Config <- MCConfig
    Feeds <- MCFeeds
    Lags = {0}
    Hedges <- MCHedges
    Assessments <- MCAssessments
    AdviserKind = "openai"
    fallback_to_heuristic <- MCFallback
    Stamp = 2
    max_evidence_items = 1
    HeuristicCitations = 8
    MaxClock = 2
    MaxDecisions = 2
    MaxBuilds = 0
    cache_seconds = 0
    MAX_HEADER_BYTES = 5
    MAX_HEADERS = 2
    MAX_SYMBOL = 2
    SymbolPieces <- MCSymbolPieces
    Escape <- MCEscape
    Numeral <- MCNumeral
    Requests <- MCRequests
    Upper <- MCUpper
SYMMETRY MCSymmetry
INVARIANTS
    ShownIsReplayable
    FreshIsFresh
