SPECIFICATION Spec
CONSTANTS
    c1 = c1  p1 = p1  p2 = p2  r1 = r1  r2 = r2
    Turns = {t1}
    Chats = {c1}
    ChatOf <- OneChat
    Procs = {p1, p2}
    Runners = {r1, r2}
    ProcOf <- TwoProcs
    Handlers = {h1}
    NoTurn = NoTurn
    NoProc = NoProc
    DeadProc = DeadProc
    EarlyRedelivery = TRUE
    MaxSlips = 0
    MaxCrashes = 0
    MaxOutages = 0
    MaxStops = 0
    MaxSweeps = 1
    MaxErrors = 1
SYMMETRY WorkerSymmetry
INVARIANTS CompletedWasPublished
PROPERTIES TableSpec
CHECK_DEADLOCK FALSE
