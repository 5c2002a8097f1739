SPECIFICATION Spec
CONSTANTS
    m1 = m1
    m2 = m2
    None = None
    Msg <- MCMsg
    DEFAULT_QUEUE_SIZE = 2
    MQ_OVERLOAD = 1
    MaxLength = 6
INVARIANTS
    WarningExact
PROPERTIES
    ImplementsFifo
