\* A session may end for good: the bounds are used up and nobody is left.
CHECK_DEADLOCK FALSE
SPECIFICATION Spec
CONSTANTS
    Garbled = Garbled
    NotFound = NotFound
    NoId = NoId
    Null = Null
    Mistyped = Mistyped
    NoBody = NoBody
    NoDecision = NoDecision
    MaxRecent = 2
    MaxDecisions = 2
    MaxCalls = 4
    MaxLines = 3
    MaxSpawns = 2
    Upper <- MCUpper
    Contracts <- MCContracts
    Calls <- MCCalls
    Lines <- MCLines
INVARIANTS
    AnswerIsForRequest
    AnswersInOrder
    ToldIsStored
PROPERTIES
    ClientIsAnswered
