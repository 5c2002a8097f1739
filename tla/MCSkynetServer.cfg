SPECIFICATION Spec
CONSTANTS
    w1 = w1
    w2 = w2
    o1 = o1
    boot = boot
    c1 = c1
    c2 = c2
    None = None
    Worker <- MCWorker
    Outside <- MCOutside
    Ctx <- MCCtx
    Boot = boot
    Weight <- MCWeight
    MaxOps = 4
SYMMETRY MCSymmetry
CHECK_DEADLOCK FALSE
INVARIANTS
    RefCount
    OneOwner
    UnownedIsIdle
    ExclusiveDispatch
    InitBeforeDispatch
    NoUseAfterFree
    BatchFits
    ErrorsFromDead
    IdleMeansDone
PROPERTY NoPushAfterRelease
