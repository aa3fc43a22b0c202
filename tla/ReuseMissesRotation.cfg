CONSTANTS
    Requests = {r1, r2}
    PoolSize = 3
    TTL = 1
    DBFails = FALSE
    MaxId = 3
    MaxTime = 0
    Stride = 1
SPECIFICATION Spec
INVARIANT ReuseEndsChain
CHECK_DEADLOCK FALSE
