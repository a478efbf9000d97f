SPECIFICATION Spec
CONSTANTS
    Float <- MCFloat
    WholeTexts <- MCWhole
    Upper <- MCUpper
    Lower <- MCLower
    U32Max = 2000
    Defaults <- MCDefaults
    FileText <- MCFileText
    NotJson <- MCNotJson
    Spelled <- MCSpelled
    WorkingDir <- MCWorkingDir
    MaxNesting = 128
    Invocations <- MCInvocations
    Uris <- MCUris
    Infinite <- MCInfinite
    Timestamps <- MCTimestamps
    MaxRounds = 2
INVARIANT
    StoreIsWhereConfigured
CHECK_DEADLOCK FALSE
