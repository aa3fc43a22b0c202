CONSTANTS
    Keys = {k1}
    Limit = 2
    Window = 2
    Slack = 1
    MaxDelay = 1
    SkewBehind = 0
    SkewAhead = 0
    Second = 3
    RoundUp = 1
    MaxCalls = 4
    MaxTime = 4
SPECIFICATION Spec
INVARIANT ExactWindow
CHECK_DEADLOCK FALSE
