SPECIFICATION TgFairSpec
CONSTANTS
    Procs = {p1, p2}
    Handlers = {h1, h2}
    Stops = {k1}
    None = None
    MaxFaults = 1
INVARIANTS TgTypeOK OneStreamPerChat EndedHandlerSettledRow
PROPERTIES EveryHandlerEnds
CHECK_DEADLOCK FALSE
