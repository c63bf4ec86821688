CONSTANTS
    LowRange = 64
    U8 = 4
    None = None
    Calls = {c1, c2}
    Requests <- MCRequests
    MaxAddrLength = 5
    Limits = {11, 12}
    MaxPacketId = 2
SPECIFICATION Spec
SYMMETRY Symmetry
INVARIANTS
    OkIsComplete
    Integrity
    ErrIsNotDelivered
CHECK_DEADLOCK FALSE
