SPECIFICATION TgSpec
CONSTANTS
    Procs = {p1, p2}
    Handlers = {h1, h2}
    Stops = {k1}
    None = None
    MaxFaults = 1
INVARIANTS PhysicalGuarantee
CHECK_DEADLOCK FALSE
