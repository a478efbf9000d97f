SPECIFICATION HistorySpec
CONSTANTS
    d1 = d1
    d2 = d2
    d3 = d3
    d4 = d4
    spy = spy
    qqq = qqq
    Garbled = Garbled
    NotFound = NotFound
    NoAnswer = NoAnswer
    NoHash = NoHash
    MaxDamaged = 1
    MaxRecent = 3
    Symbol = {spy, qqq}
    Limits = {0, 2, 4}
    Decision <- MCDecision
INVARIANTS
    ReplayVerdictIsRight
    HistoryIsNewest
    AppendedIsImmutable
