CONSTANTS
    LowRange = 64
    U8 = 4
    None = None
    Handles = {h1, h2}
    IdMod = 2
    ChanSize = 1
    Inbound <- MCInbound
    Garbage = Garbage
    MaxDatagrams = 2
    MaxSessions = 3
SPECIFICATION Spec
INVARIANTS
    TypeOK
    OnlyOwnTraffic
    LiveIsRegistered
    NoStaleEntry
PROPERTIES
    LoopEnds
    RecvEndsWithClient
CHECK_DEADLOCK FALSE
