SPECIFICATION Spec
CONSTANTS
    c1 = c1  p1 = p1  p2 = p2  r1 = r1  r2 = r2
    Turns = {t1, t2}
    Chats = {c1}
    ChatOf <- OneChat
    Procs = {p1, p2}
    Runners = {r1, r2}
    ProcOf <- TwoProcs
    Handlers = {h1}
    NoTurn = NoTurn
    NoProc = NoProc
    DeadProc = DeadProc
    EarlyRedelivery = FALSE
    MaxSlips = 0
    MaxCrashes = 0
    MaxOutages = 0
    MaxStops = 0
    MaxSweeps = 0
    MaxErrors = 0
INVARIANTS LeaseMissingMeansDead
CHECK_DEADLOCK FALSE
