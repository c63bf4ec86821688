CONSTANTS
    Callers = {c1, c2}
    MaxConns = 3
    None = None
SPECIFICATION Spec
INVARIANTS
    TypeOK
    ClosedIsFinal
    CallsAfterCloseFail
    CloseReleasesAll
    OneDialAtATime
    ReconnectsOnce
PROPERTIES
    EveryCallReturns
    ImplementsSlot
