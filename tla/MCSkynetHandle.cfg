SPECIFICATION Spec
CONSTANTS
    l1 = l1
    l2 = l2
    c1 = c1
    c2 = c2
    c3 = c3
    None = None
    Launcher <- MCOneLauncher
    Ctx <- MCCtx
    HANDLE_MASK = 3
    DEFAULT_SLOT_SIZE = 1
    Name <- MCName
SYMMETRY MCSymmetry
INVARIANTS
    Findable
    NamesSound
    AbortComplete
