CONSTANTS
    SlotCount = 2
    MinSampleCount = 3
    MinRate <- FourFifths
    MinWindow = 30
    TxBps = 10
    Rtts = {2, 5}
    Mtus = {10, 20}
    LostBytes = {5, 20}
    MaxU64 = 30
    Headers <- MCHeaders
    BbrWindow <- MCBbrWindow
    MaxTime = 4
    MaxEvents = 6
SPECIFICATION Spec
INVARIANTS
    RingIsLastSeconds
    WindowIsBounded
PROPERTIES
    LossDoesNotSlowDown
CHECK_DEADLOCK FALSE
