CONSTANTS
    Parts = {"slug", "tags", "sweep", "redirect", "refresh", "run"}
    None = None
    Keys = {k1}
    Limit = 2
    Window = 4
    Slack = 1
    MaxDelay = 1
    SkewBehind = 0
    SkewAhead = 1
    Second = 3
    RoundUp = 1
    MaxCalls = 1
    MaxTime = 6
    Creators = {c1, c2}
    Slugs = {1, 2, 3}
    Reserved = {2}
    Multiplier = 3
    Modulus = 4
    Attempts = 2
    MaxId = 3
    Visits = 1
    Accounts = {k1, k2}
    Registered = {k1}
    GateLimit = 2
    GateWindow = 1
    GuessLimit = 1
    GuessWindow = 2
    GateMaxTime = 1
    Savers = {1, 2}
    CategoryIds = {"g"}
    Wishes <- MCWishes
    OwnerOf <- MCOwnerOf
    Writers = {w1}
    PageSize = 1
    LastInstant = 1
    Replicas = {p1, p2}
    Links = {l1}
    Day = 3
    UniqueTTL = 2
    ClockSkew = 1
    MaxSweepRetry = 1
    MaxOutages = 1
    MaxErrors = 2
    Issuers = {p1, p2}
    Kids = {1, 2, 3}
    TTL = 2
    MaxMintTime = 4
    Programs = {"bookmarks", "shortener", "worker"}
    Calls = {1}
    Connections = 1
    MaxSignals = 1
SPECIFICATION ServicesFairSpec
PROPERTIES RequestsAnswered ExpiredLinkGoes StopIsFollowed
CHECK_DEADLOCK FALSE
