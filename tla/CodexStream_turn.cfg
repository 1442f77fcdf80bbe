SPECIFICATION FairSpec
CONSTANTS
    QueueMax = 2
    StormThreshold = 2
    IdleS = 1
    HardCap = 3
    ProbeInterval = 2
    ReqTimeout = 1
    Chatter = {"old", "usage"}
INVARIANTS TypeOK VerdictMatchesSidecar WaiterIsWoken SilenceIsNoTimeout AbandonedTurnIsTold
PROPERTY SilentTurnEnds
CHECK_DEADLOCK FALSE
