CONSTANTS
    LowRange = 64
    U8 = 4
    None = None
    Handles = {h1}
    IdMod = 2
    ChanSize = 1
    Inbound <- OneMessage
    Garbage = Garbage
    MaxDatagrams = 1
    MaxSessions = 1
SPECIFICATION Spec
PROPERTIES
    RecvEndsWithConnection
CHECK_DEADLOCK FALSE
