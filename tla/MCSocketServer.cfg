SPECIFICATION Spec
CONSTANTS
    w1 = w1
    w2 = w2
    Nobody = Nobody
    Sender <- MCSender
    Opener <- MCOpener
    MaxSocket = 2
    MaxId = 4
    MaxMsg = 2
    MaxOps = 3
CHECK_DEADLOCK FALSE
INVARIANTS
    WholeMessages
    OwnConnection
    SenderOrder
    EventsAreFresh
    WritesAreWatched
    AbortsAreExplained
PROPERTIES
    CloseFlushes
