CONSTANTS
    Requests = {r1, r2}
    PoolSize = 2
    TTL = 1
    DBFails = FALSE
    MaxId = 2
    MaxTime = 0
    Stride = 1
SPECIFICATION FairSpec
PROPERTY LoserIsAnswered
CHECK_DEADLOCK FALSE
