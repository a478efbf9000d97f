\* A recommendation ends.
CHECK_DEADLOCK FALSE
SPECIFICATION ObservationSpec
CONSTANTS
    Unparseable = Unparseable
    Absent = Absent
    Null = Null
    Mistyped = Mistyped
    True = True
    False = False
    Zero = Zero
    NoData = NoData
    Reason <- MCReason
    Longer <- MCLonger
    MAX_SERIES = 2
    MAX_FEEDS = 2
    MAX_ITEMS = 20
    Realized <- MCRealized
    Ewma <- MCEwma
    Trend <- MCTrend
    FeatureKey <- MCFeatureKey
    short_window = 1
    long_window = 3
    VolumeHistory = 3
    ImpliedVolatility = 25
    Gamma = 40
    max_evidence_items = 5
    max_evidence_chars = 1
    MaxList = 3
    MaxShocks = 7
    MaxSummary = 1000
    Symbol = "SPY"
    Providers = {"alpaca", "synthetic"}
    Files <- MCFiles
    QuotePayloads <- MCQuotePayloads
    BarPayloads <- MCBarPayloads
    Connectors <- MCConnectors
    Observations <- MCObservations
    Documents <- MCDocuments
    Answers <- MCAnswers
    OutsideWords = {"crash", "sell", "rumour"}
    Walks <- MCWalks
    Buckets = {28, 29}
    EventPeriod = 29
INVARIANTS
    EverySourceIsHeard
    FeedsAreReadAsMeant
    UntrustedStaysMarked
    AssessmentKeepsToSchema
