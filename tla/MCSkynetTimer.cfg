SPECIFICATION FairSpec
CONSTANTS
    s1 = s1
    s2 = s2
    Session <- MCSession
    TIME_NEAR = 2
    TIME_LEVEL = 2
    MaxDiff = 2
INVARIANTS
    OnTime
PROPERTIES
    ImplementsQueue
    EveryTimeoutFires
