--------------------------- MODULE MCTurnRuntime ---------------------------
(* Instances of TurnRuntime for TLC.                                       *)
EXTENDS TurnRuntime, TLC

CONSTANTS c1, p1, p2, r1, r2

\* all turns in one chat: the case where they compete
OneChat == [t \in Turns |-> c1]

\* two worker processes with one runner each
TwoProcs == (r1 :> p1) @@ (r2 :> p2)

\* the two workers are interchangeable, each with its runner
WorkerSymmetry == {(r1 :> r2) @@ (r2 :> r1) @@ (p1 :> p2) @@ (p2 :> p1)}

\* RunTurn has put the turns on their way and the users are gone: nothing but
\* the workers, the broker, Redis and the listener is left to settle them,
\* with a crash or a shutdown still to come, the budget of the other spent
EnqueuedInit ==
    /\ status = [t \in Turns |-> "starting"] /\ msg = [t \in Turns |-> "sent"]
    /\ stale = {} /\ published = [t \in Turns |-> {}]
    /\ active = [c \in Chats |-> NoTurn] /\ lease = [t \in Turns |-> NoProc]
    /\ pc = [r \in Runners |-> "idle"] /\ job = [r \in Runners |-> NoTurn]
    /\ hb = [r \in Runners |-> "off"] /\ out = [r \in Runners |-> "none"]
    /\ stopping = {} /\ lapsed = {}
    /\ hpc = [h \in Handlers |-> "idle"] /\ hchat \in [Handlers -> Chats]
    /\ hturn = [h \in Handlers |-> NoTurn]
    /\ listening = TRUE /\ expired = {} /\ reaped = NoTurn
    /\ found = {} /\ swept = {} /\ sweeps = 0
    /\ slips = 0 /\ outages = 0 /\ errors = 0
    /\ \/ crashes = MaxCrashes /\ stops = 0
       \/ crashes = 0 /\ stops = MaxStops

EnqueuedSpec == EnqueuedInit /\ [][Next]_vars /\ Fairness
=============================================================================
