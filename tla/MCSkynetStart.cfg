SPECIFICATION FairSpec
CONSTANTS
    None = None
    Count = 2
    MaxEvents = 1
CHECK_DEADLOCK FALSE
INVARIANTS
    SleepExact
PROPERTIES
    WorkIsDone
    EveryoneStops
    LoopIsReported
