SPECIFICATION GoFairSpec
CONSTANTS
    Callers = {c1, c2}
    Files = {f1, f2}
    None = None
    PipeCap = 2
    Workers = {w1, w2}
    TasksCap = 1
    Free = Free
INVARIANTS ResponsesIntact
PROPERTIES ImplementsRpc
CHECK_DEADLOCK FALSE
