CONSTANTS
    Slugs = {s1}
    Requests = {r1}
    Procs = {p1}
    Lifetimes = {1}
    MaxId = 2
    MaxTime = 4
    TTL = 2
    NegativeTTL = 1
    LoadTimeout = 1
    PutTimeout = 1
SPECIFICATION Spec
INVARIANTS TypeOK StaleEntriesEnd
CHECK_DEADLOCK FALSE
