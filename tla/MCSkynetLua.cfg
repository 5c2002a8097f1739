SPECIFICATION Spec
CONSTANTS
    c1 = c1
    c2 = c2
    c3 = c3
    p1 = p1
    None = None
    Break = Break
    Co <- MCCo
    Peer <- MCPeer
    MaxReq = 2
    MaxSession = 3
    MaxOps = 9
SYMMETRY Symmetry
CHECK_DEADLOCK FALSE
INVARIANTS
    
    OneResponse
    WaitersKnown
    QueuesDone
    CallersWatched
