SPECIFICATION Spec
CONSTANTS
    Workers = {w1, w2}
    Handlers <- AllHandlers
    MaxBalance = 2
INVARIANTS NobodyLockedOut
CHECK_DEADLOCK FALSE
