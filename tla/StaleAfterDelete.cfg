CONSTANTS
    Slugs = {s1}
    Requests = {r1}
    Procs = {p1}
    Lifetimes = {}
    MaxId = 1
    MaxTime = 3
    TTL = 3
    NegativeTTL = 2
    LoadTimeout = 1
    PutTimeout = 1
SPECIFICATION RSpec
INVARIANT NextReadFresh
CHECK_DEADLOCK FALSE
