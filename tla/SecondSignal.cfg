CONSTANTS
    Programs = {"bookmarks", "shortener"}
    Calls = {1}
    Connections = 1
    MaxSignals = 2
SPECIFICATION RunSpec
PROPERTY SecondSignalKills
CHECK_DEADLOCK FALSE
