\* Everything ends when the bounds are used up.
CHECK_DEADLOCK FALSE
SPECIFICATION Spec
CONSTANTS
    c1 = c1
    c2 = c2
    Nobody = Nobody
    Caller = {c1, c2}
    Configs <- MCConfigs
    Compiles = {0, 1}
    MaxVersion = 2
    MaxCalls = 3
    MaxDeaths = 1
INVARIANTS
    HashNamesWhatRan
    BuildsLeaveWholeBinary
