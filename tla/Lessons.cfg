CONSTANTS
    Parts = {"pipeline", "consumer", "hub", "fanout", "transfers", "webhooks", "alive", "limiters", "redblack", "bst", "hashmap", "queue", "input", "answer", "graph", "intervals", "pool", "closing", "chat", "loader"}
    None = None
    Items = 4
    Refused = {2}
    Partitions = {"p1", "p2"}
    LogOf <- MCLogOf
    CommitModes = {"after", "before"}
    MaxFaults = 2
    Conns = {"w1"}
    Broadcasters = {"b1", "b2", "b3"}
    SendBuffers = {0, 1}
    Policies = {"DropNewest", "DropOldest", "Disconnect"}
    NumSources = 4
    FanLimits = {0, 1, 2}
    Accounts = {1, 2}
    Opening = 2
    MoneyMoves <- MCMoneyMoves
    Styles = {"update", "for update", "ordered"}
    MaxAttempts = 2
    Events = {e1, e2}
    Deliveries = {1, 2, 3}
    SeenTTL = 2
    SweepEvery = 1
    MaxHookTime = 4
    ReadTimeout = 5
    WriteTimeout = 2
    PingInterval = 2
    MaxOvertakes = 2
    MaxAliveTime = 16
    LimCallers = {m1, m2}
    Limit = 2
    Window = 3
    EntryTTL = 3
    MaxLag = 1
    MaxLimTime = 4
    RBKeys = {1, 2, 3, 4, 5, 6, 7}
    RBValues = {1, 2}
    BstKeys = {1, 2, 3, 4, 5}
    HashKeys = {1, 2, 3, 4}
    HashFunctions <- MCHash
    HashValues = {1, 2}
    TableSizes = {4, 8}
    Players = {1, 2, 3, 4, 5}
    RankOf <- MCRank
    FirstRoom = 1
    InputValues = {0, 1, 2, 3}
    MaxInput = 5
    Dictionary <- MCDictionary
    SortThreshold = 2
    MaxInt = 7
    Nodes = 4
    WeightsOf <- MCWeightsOf
    MaxEdges = 4
    LastPoint = 3
    MaxIntervals = 3
    PoolJobs = 4
    BadJobs = {2, 3}
    PoolWorkers = {1, 2}
    SubmitJobs = {1, 2, 3}
    CloseWorkers = {5, 6}
    ChatMessages = 4
    Incoming = 2
    c1 = c1
    c2 = c2
    c3 = c3
    Callers = {c1, c2, c3}
    Group = {c1, c2}
    Keys = {1, 2, 3}
    Values = {v1}
    MaxBatch = 2
    NoResult = NoResult
    Failed = Failed
    Cancelled = Cancelled
    Timer = Timer
SPECIFICATION LessonsSpec
INVARIANTS TypeOK BatchesCarryAll ResultsAreComplete MessagesAreHandled ConnectionsAreKept MoneyIsKept DuplicatesHaveReason LocalLimitsHold StructuresHold OrdersHold PatternsAgree AnswersAreFound GraphsAreSolved
PROPERTIES SettledOnce StepsKeepOrder EveryPartEnds
CHECK_DEADLOCK FALSE
