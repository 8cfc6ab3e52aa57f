SPECIFICATION FairSpec
CONSTANTS
    Workers = {w1, w2, w3}
    Handlers <- AllHandlers
    MaxBalance = 2
INVARIANTS TypeOK MutualExclusion NoLostUpdate LockReleased
PROPERTIES EveryCallReturns
CHECK_DEADLOCK FALSE
