CONSTANTS
    Requests = {r1, r2}
    PoolSize = 3
    TTL = 1
    DBFails = TRUE
    MaxId = 3
    MaxTime = 2
    Stride = 2
SPECIFICATION Spec
SYMMETRY Symmetry
INVARIANTS TypeOK SessionsHaveOneToken RefusedForCause
PROPERTY RevokedNeverUsed
CHECK_DEADLOCK FALSE
