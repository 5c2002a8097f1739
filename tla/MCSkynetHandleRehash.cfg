SPECIFICATION Spec
CONSTANTS
    l1 = l1
    l2 = l2
    c1 = c1
    c2 = c2
    c3 = c3
    None = None
    Launcher <- MCTwoLaunchers
    Ctx <- MCCtx
    HANDLE_MASK = 7
    DEFAULT_SLOT_SIZE = 2
    Name <- MCNoName
INVARIANT RehashAssert
