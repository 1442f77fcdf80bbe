SPECIFICATION EnqueuedSpec
CONSTANTS
    c1 = c1  p1 = p1  p2 = p2  r1 = r1  r2 = r2
    Turns = {t1}
    Chats = {c1}
    ChatOf <- OneChat
    Procs = {p1, p2}
    Runners = {r1, r2}
    ProcOf <- TwoProcs
    Handlers = {}
    NoTurn = NoTurn
    NoProc = NoProc
    DeadProc = DeadProc
    EarlyRedelivery = TRUE
    MaxSlips = 0
    MaxCrashes = 1
    MaxOutages = 0
    MaxStops = 1
    MaxSweeps = 0
    MaxErrors = 0
PROPERTIES EnqueuedTurnSettles
CHECK_DEADLOCK FALSE
