\* Everything ends when the command has returned and its clock has stopped.
CHECK_DEADLOCK FALSE
SPECIFICATION FairSpec
CONSTANTS
    Scripts <- MCScripts
    Capacity = 2
    MayFork = TRUE
    timeout = 1
    MaxElapsed = 3
INVARIANTS
    OutputIsWhole
    NothingIsLeft
PROPERTIES
    OnlyHeirsHoldTheCall
