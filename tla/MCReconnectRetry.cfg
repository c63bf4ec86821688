CONSTANTS
    Callers = {c1, c2}
    MaxConns = 2
    None = None
SPECIFICATION Spec
PROPERTIES
    RetryDropsOnlyDead
