CONSTANTS
    Programs = {"bookmarks", "shortener", "worker"}
    Calls = {1}
    Connections = 1
    MaxSignals = 2
SPECIFICATION RunSpec
PROPERTY FailedListenerEnds
CHECK_DEADLOCK FALSE
