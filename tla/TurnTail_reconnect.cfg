SPECIFICATION FairSpec
CONSTANTS
    MaxEvents = 3
    MaxLen = 2
    WireCap = 2
    MaxReloads = 1
CHECK_DEADLOCK FALSE
INVARIANTS TypeOK NextEventIsNew VerdictIsReal
PROPERTIES SilentEofMeansDeleted SendEnds
