SPECIFICATION Spec
CONSTANTS
    QueueMax = 2
    StormThreshold = 2
    IdleS = 1
    HardCap = 3
    ProbeInterval = 2
    ReqTimeout = 1
    Chatter = {}
INVARIANT IteratesUntilClose
CHECK_DEADLOCK FALSE
