CONSTANTS
    LowRange = 64
    U8 = 4
    None = None
    Calls = {c1}
    Requests <- LongPayload
    MaxAddrLength = 5
    Limits = {11, 12}
    MaxPacketId = 2
SPECIFICATION Spec
INVARIANTS
    OkIsSent
CHECK_DEADLOCK FALSE
