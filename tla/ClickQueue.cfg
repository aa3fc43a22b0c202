CONSTANTS
    Clicks = {c1, c2}
    MaxId = 2
    MaxRetry = 1
    Concurrency = 2
    MaxRequeues = 1
    MaxCrashes = 1
SPECIFICATION FairSpec
INVARIANTS TypeOK ClicksAreCounted TasksEndWithCause
PROPERTY EveryClickSettles
CHECK_DEADLOCK FALSE
