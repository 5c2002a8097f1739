SPECIFICATION FairSpec
CONSTANTS
    w1 = w1
    w2 = w2
    o1 = o1
    boot = boot
    c1 = c1
    c2 = c2
    None = None
    Worker <- MCWorker
    Outside <- MCOutside
    Ctx <- MCCtx2
    Boot = boot
    Weight <- MCWeight
    MaxOps = 3
CHECK_DEADLOCK FALSE
PROPERTIES
    EveryMessageHandled
    EventuallyReclaimed
