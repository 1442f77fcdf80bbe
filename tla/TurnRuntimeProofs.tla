------------------------- MODULE TurnRuntimeProofs -------------------------
(***************************************************************************)
(* Proofs about TurnRuntime, for any number of turns, chats, processes,    *)
(* runners and handlers and for any bounds on what may go wrong.           *)
(***************************************************************************)
EXTENDS TurnRuntime, TLAPS

USE DEF procVars

-----------------------------------------------------------------------------
(* Type correctness.                                                       *)

\* a runner at work has a turn, and beats only while it holds keys; a
\* handler that is about to write a row knows which
Bindings ==
    /\ \A r \in Runners : pc[r] # "idle" => job[r] \in Turns
    /\ \A r \in Runners : pc[r] = "idle" => job[r] = NoTurn
    /\ \A r \in Runners : hb[r] # "off" =>
          pc[r] \in {"open", "stream", "ended", "crashpub", "unlease"}
    /\ \A h \in Handlers : hpc[h] \notin {"idle", "create"} => hturn[h] \in Turns

TypeInv == TypeOK /\ Bindings

LEMMA InitType == Init => TypeInv
  BY RuntimeConstants DEF Init, TypeInv, TypeOK, Bindings, PC, HB, Out, HPC

\* the steps of execute_turn_inner keep the types
LEMMA RunnerType ==
    ASSUME TypeInv, NEW r \in Runners, RunnerStep(r)
    PROVE  TypeInv'
  <1> USE RuntimeConstants DEF TypeInv, TypeOK, Bindings, PC, HB, Out, HPC,
          ActiveStatus, TerminalStatus, rowVars, keyVars, webVars, lstVars, budget
  <1>1. CASE AcquireActive(r)
    BY <1>1 DEF AcquireActive, set_active, Error
  <1>2. CASE ProbeActive(r)
    BY <1>2 DEF ProbeActive, Error
  <1>3. CASE AcquireLease(r)
    BY <1>3 DEF AcquireLease, set_lease, Error
  <1>4. CASE StartCodex(r)
    BY <1>4 DEF StartCodex
  <1>5. CASE LoseOwnership(r)
    BY <1>5 DEF LoseOwnership
  <1>6. CASE Exception(r)
    BY <1>6 DEF Exception
  <1>7. ASSUME NEW kind \in {"done", "error"}, TerminalEvent(r, kind) PROVE TypeInv'
    BY <1>7 DEF TerminalEvent, publish_terminal
  <1>8. CASE ReleaseActive(r)
    BY <1>8 DEF ReleaseActive, free_chat, release_active, Error
  <1>9. CASE PublishCrash(r)
    BY <1>9 DEF PublishCrash, publish_terminal, Error
  <1>10. CASE ReleaseLease(r)
    BY <1>10 DEF ReleaseLease, release_lease, Error
  <1>11. CASE PublishSafety(r)
    BY <1>11 DEF PublishSafety, publish_terminal, Error
  <1>12. CASE Finalize(r)
    BY <1>12 DEF Finalize, finalize_once, StatusOf, IsActive, Error
  <1>13. CASE Ack(r)
    BY <1>13 DEF Ack
  <1> HIDE DEF TypeInv
  <1> QED
    BY <1>1, <1>2, <1>3, <1>4, <1>5, <1>6, <1>7, <1>8, <1>9, <1>10, <1>11,
       <1>12, <1>13 DEF RunnerStep

\* so do delivery, cancellation and the heartbeat task
LEMMA HeartbeatType ==
    ASSUME TypeInv, NEW r \in Runners,
           \/ HeartbeatStep(r) \/ HeartbeatDies(r) \/ Cancel(r) \/ CancelCleanup(r)
           \/ \E t \in Turns : Deliver(r, t)
    PROVE  TypeInv'
  <1> USE RuntimeConstants DEF TypeInv, TypeOK, Bindings, PC, HB, Out, HPC,
          ActiveStatus, TerminalStatus, rowVars, keyVars, webVars, lstVars, budget
  <1>1. CASE HeartbeatRow(r)
    BY <1>1 DEF HeartbeatRow, IsActive
  <1>2. CASE HeartbeatActive(r)
    BY <1>2 DEF HeartbeatActive, Error
  <1>3. CASE HeartbeatLease(r)
    BY <1>3 DEF HeartbeatLease, Error
  <1>4. CASE HeartbeatDies(r)
    BY <1>4 DEF HeartbeatDies, Error
  <1>5. CASE Cancel(r)
    BY <1>5 DEF Cancel, set_active, set_lease
  <1>7. CASE CancelCleanup(r)
    BY <1>7 DEF CancelCleanup, release_active, release_lease, publish_terminal
  <1>6. ASSUME NEW t \in Turns, Deliver(r, t) PROVE TypeInv'
    BY <1>6 DEF Deliver, Error
  <1> HIDE DEF TypeInv
  <1> QED
    BY <1>1, <1>2, <1>3, <1>4, <1>5, <1>6, <1>7 DEF HeartbeatStep

\* and processes, time and recovery
LEMMA WorldType ==
    ASSUME TypeInv,
           \/ \E p \in Procs : ProcessStep(p)
           \/ ListenerStep \/ SweepStep
           \/ \E c \in Chats : ExpireActive(c)
           \/ \E t \in Turns : ExpireLease(t) \/ HeartbeatAges(t)
    PROVE  TypeInv'
  <1> USE RuntimeConstants DEF TypeInv, TypeOK, Bindings, PC, HB, Out, HPC,
          ActiveStatus, TerminalStatus, rowVars, keyVars, runVars, webVars, lstVars, budget
  <1>1. ASSUME NEW p \in Procs, Crash(p) PROVE TypeInv'
    BY <1>1 DEF Crash, Vanish
  <1>2. ASSUME NEW p \in Procs, Shutdown(p) PROVE TypeInv'
    BY <1>2 DEF Shutdown
  <1>3. ASSUME NEW p \in Procs, Restart(p) PROVE TypeInv'
    BY <1>3 DEF Restart, Vanish
  <1>4. ASSUME NEW t \in Turns, LeaseExpired(t) PROVE TypeInv'
    BY <1>4 DEF LeaseExpired, finalize_once, IsActive, Error
  <1>5. CASE LeaseExpiredUnlock
    BY <1>5 DEF LeaseExpiredUnlock, free_chat, release_active, Error
  <1>6. CASE ListenerDown
    <2>1. listening' \in BOOLEAN
      BY <1>6, Zenon DEF ListenerDown
    <2> QED
      BY <1>6, <2>1 DEF ListenerDown
  <1>7. CASE ListenerUp
    BY <1>7 DEF ListenerUp
  <1>8. CASE SweepStep
    BY <1>8 DEF SweepStep, reconcile_stale_turns, SweepOrphan, SweepCommit, SweepFails,
       StaleTurns, free_chat, release_active, Error
  <1>9. ASSUME NEW c \in Chats, ExpireActive(c) PROVE TypeInv'
    BY <1>9 DEF ExpireActive, Slip
  <1>10. ASSUME NEW t \in Turns, ExpireLease(t) PROVE TypeInv'
    BY <1>10 DEF ExpireLease, Slip
  <1>11. ASSUME NEW t \in Turns, HeartbeatAges(t) PROVE TypeInv'
    BY <1>11 DEF HeartbeatAges, Slip
  <1> HIDE DEF TypeInv
  <1> QED
    BY <1>1, <1>2, <1>3, <1>4, <1>5, <1>6, <1>7, <1>8, <1>9, <1>10, <1>11
       DEF ProcessStep, ListenerStep

\* and web requests
LEMMA HandlerType ==
    ASSUME TypeInv, NEW h \in Handlers, HandlerStep(h)
    PROVE  TypeInv'
  <1> USE RuntimeConstants DEF TypeInv, TypeOK, Bindings, PC, HB, Out, HPC,
          ActiveStatus, TerminalStatus, rowVars, keyVars, runVars, lstVars, budget
  <1>1. CASE ReconcileStale(h)
    BY <1>1 DEF ReconcileStale, free_chat, release_active, Goto, Error
  <1>13. CASE CommitOrphan(h)
    BY <1>13 DEF CommitOrphan, finalize_once, Goto, IsActive
  <1>2. CASE ZombieCheck(h)
    BY <1>2 DEF ZombieCheck, Goto, Error
  <1>3. CASE ReapZombie(h)
    BY <1>3 DEF ReapZombie, finalize_once, Goto, IsActive
  <1>4. CASE UnlockZombie(h)
    BY <1>4 DEF UnlockZombie, free_chat, release_active, Goto, Error
  <1>5. CASE Interrupted(h)
    BY <1>5 DEF Interrupted, Goto
  <1>6. CASE StaleSidecar(h)
    BY <1>6 DEF StaleSidecar, finalize_once, Reply, IsActive
  <1>7. CASE CreateTurn(h)
    BY <1>7 DEF CreateTurn
  <1>8. CASE Enqueue(h)
    BY <1>8 DEF Enqueue, Reply
  <1>9. CASE EnqueueFails(h)
    BY <1>9 DEF EnqueueFails, finalize_once, Reply, IsActive, Error
  <1>10. CASE EndRequest(h)
    BY <1>10 DEF EndRequest, Reply, Error
  <1>11. ASSUME NEW c \in Chats, RunTurn(h, c) PROVE TypeInv'
    BY <1>11 DEF RunTurn, ActiveTurns
  <1>12. ASSUME NEW c \in Chats, ControlTurn(h, c) PROVE TypeInv'
    BY <1>12 DEF ControlTurn, ActiveTurns
  <1> HIDE DEF TypeInv
  <1> QED
    BY <1>1, <1>2, <1>3, <1>4, <1>5, <1>6, <1>7, <1>8, <1>9, <1>10, <1>11,
       <1>12, <1>13 DEF HandlerStep

\* every step keeps the type invariant
LEMMA NextType == TypeInv /\ [Next]_vars => TypeInv'
  <1> SUFFICES ASSUME TypeInv, [Next]_vars PROVE TypeInv'
    OBVIOUS
  <1>1. CASE UNCHANGED vars
    BY <1>1 DEF vars, rowVars, keyVars, runVars, webVars, lstVars, budget,
       TypeInv, TypeOK, Bindings
  <1>2. CASE Next
    BY <1>2, RunnerType, HeartbeatType, WorldType, HandlerType DEF Next
  <1> QED
    BY <1>1, <1>2

\* The model is well typed: every row, key, runner and request stays in the
\* domain that the code's enums and columns give it.
THEOREM TypeCorrect == Spec => []TypeOK
  <1>1. Init => TypeInv
    BY InitType
  <1>2. TypeInv /\ [Next]_vars => TypeInv'
    BY NextType
  <1>3. TypeInv => TypeOK
    BY DEF TypeInv
  <1> QED
    BY <1>1, <1>2, <1>3, PTL DEF Spec

\* the same argument for the whole inductive invariant
LEMMA TypeInvariance == Spec => []TypeInv
  <1> QED
    BY InitType, NextType, PTL DEF Spec

-----------------------------------------------------------------------------
(* The runtime implements the table.                                       *)

\* a step that leaves the column alone or is one of the table's
TableStep == UNCHANGED status \/ Table!Next

\* finalize_once is a step of the table
LEMMA FinalizeSettles ==
    ASSUME TypeOK, NEW t \in Turns, NEW s \in TerminalStatus, finalize_once(t, s)
    PROVE  TableStep
  BY DEF TypeOK, finalize_once, IsActive, TableStep, Table!Next, Table!Settle,
     Table!Active, Table!Terminal, Table!Status, ActiveStatus, TerminalStatus

\* every step of the runtime is one of the table
LEMMA NextRefines == TypeInv /\ [Next]_vars => [Table!Next]_status
  <1> SUFFICES ASSUME TypeInv, [Next]_vars PROVE TableStep
    BY DEF TableStep
  <1> USE DEF TypeInv
  <1>1. CASE UNCHANGED vars
    BY <1>1 DEF vars, rowVars, TableStep
  <1>2. ASSUME NEW r \in Runners, RunnerStep(r) PROVE TableStep
    <2>1. CASE StartCodex(r)
      <3>1. job[r] \in Turns
        BY <2>1 DEF StartCodex, Bindings
      <3> QED
        BY <2>1, <3>1 DEF StartCodex, TableStep, Table!Next, Table!MarkRunning
    <2>2. CASE Finalize(r)
      <3>1. job[r] \in Turns /\ StatusOf(out[r]) \in TerminalStatus
        BY <2>2 DEF Finalize, Bindings, StatusOf, TerminalStatus
      <3> QED
        BY <2>2, <3>1, FinalizeSettles DEF Finalize, TableStep
    <2>3. CASE UNCHANGED status
      BY <2>3 DEF TableStep
    <2> QED
      BY <1>2, <2>1, <2>2, <2>3 DEF RunnerStep, AcquireActive, ProbeActive, AcquireLease,
         LoseOwnership, Exception, TerminalEvent, ReleaseActive, PublishCrash,
         ReleaseLease, PublishSafety, Ack, rowVars
  <1>3. ASSUME NEW r \in Runners,
               \/ HeartbeatStep(r) \/ HeartbeatDies(r) \/ Cancel(r) \/ CancelCleanup(r)
               \/ \E t \in Turns : Deliver(r, t)
        PROVE  TableStep
    BY <1>3 DEF TableStep, HeartbeatStep, HeartbeatRow, HeartbeatActive, HeartbeatLease,
       HeartbeatDies, Cancel, CancelCleanup, Deliver, rowVars
  <1>4. ASSUME NEW h \in Handlers, HandlerStep(h) PROVE TableStep
    <2>1. ASSUME hpc[h] \notin {"idle", "create"}, finalize_once(hturn[h], "failed")
          PROVE  TableStep
      BY <2>1, FinalizeSettles DEF Bindings, TerminalStatus
    <2>2. CASE CreateTurn(h)
      <3>1. PICK t \in Turns :
               /\ ChatOf[t] = hchat[h] /\ status[t] = "absent"
               /\ status' = [status EXCEPT ![t] = "starting"]
        BY <2>2 DEF CreateTurn
      <3>2. \A u \in Turns : ChatOf[u] = ChatOf[t] => status[u] \notin Table!Active
        BY <2>2, <3>1 DEF CreateTurn, ActiveTurns, IsActive, ActiveStatus, Table!Active
      <3> QED
        BY <3>1, <3>2 DEF TableStep, Table!Next, Table!Create
    <2>3. CASE UNCHANGED status
      BY <2>3 DEF TableStep
    <2> QED
      BY <1>4, <2>1, <2>2, <2>3 DEF HandlerStep, ReconcileStale, CommitOrphan, ZombieCheck,
         ReapZombie, UnlockZombie, Interrupted, StaleSidecar, Enqueue, EnqueueFails, EndRequest,
         RunTurn, ControlTurn, rowVars
  <1>5. CASE ListenerStep
    <2>1. ASSUME NEW t \in Turns, LeaseExpired(t) PROVE TableStep
      BY <2>1, FinalizeSettles DEF LeaseExpired, TerminalStatus, TableStep
    <2>2. CASE UNCHANGED status
      BY <2>2 DEF TableStep
    <2> QED
      BY <1>5, <2>1, <2>2 DEF ListenerStep, LeaseExpiredUnlock, ListenerDown, ListenerUp,
         rowVars
  <1>6. CASE SweepStep
    <2>1. CASE SweepCommit
      BY <2>1 DEF SweepCommit, IsActive, TypeOK, TableStep, Table!Next, Table!Settle,
         Table!Active, Table!Terminal, Table!Status, ActiveStatus, TerminalStatus
    <2>2. CASE UNCHANGED status
      BY <2>2 DEF TableStep
    <2> QED
      BY <1>6, <2>1, <2>2 DEF SweepStep, reconcile_stale_turns, SweepOrphan, SweepFails,
         rowVars
  <1>7. CASE \/ \E p \in Procs : ProcessStep(p)
             \/ \E c \in Chats : ExpireActive(c)
             \/ \E t \in Turns : ExpireLease(t) \/ HeartbeatAges(t)
    BY <1>7 DEF TableStep, ProcessStep, Crash, Shutdown, Restart, ExpireActive,
       ExpireLease, HeartbeatAges, rowVars
  <1> QED
    BY <1>1, <1>2, <1>3, <1>4, <1>5, <1>6, <1>7 DEF Next

\* Six kinds of actors write turns.status (runner, RunTurn, control RPCs,
\* listener, sweep, failed enqueue); together they behave like the table:
\* creation under the unique index, forward moves only, terminal is final.
THEOREM RuntimeImplementsTable == Spec => TableSpec
  <1>1. Init => Table!Init
    BY DEF Init, Table!Init
  <1>2. TypeInv /\ [Next]_vars => [Table!Next]_status
    BY NextRefines
  <1> QED
    BY <1>1, <1>2, TypeInvariance, PTL DEF Spec, TableSpec, Table!Spec

-----------------------------------------------------------------------------
(* Nothing is executed, enqueued or reaped that was never inserted, and a  *)
(* lock is taken from a turn only after its row was finalised.             *)

Provenance ==
    /\ \A r \in Runners : pc[r] # "idle" => status[job[r]] # "absent"
    /\ \A t \in Turns : msg[t] = "sent" => status[t] # "absent"
    /\ \A h \in Handlers :
          hpc[h] \notin {"idle", "create"} => status[hturn[h]] # "absent"
    /\ \A h \in Handlers : hpc[h] = "unlock" => status[hturn[h]] \in TerminalStatus
    /\ reaped # NoTurn => status[reaped] \in TerminalStatus
    /\ \A t \in expired : status[t] # "absent"
    /\ \A t \in Turns : lease[t] # NoProc => status[t] # "absent"

(***************************************************************************)
(* The runner of a live turn holds the active key from its acquisition to  *)
(* the exit of hold_turn_locks and the lease from lease.acquire to         *)
(* lease.release, its heartbeat stays healthy in between, and no second    *)
(* runner of the turn is in either stretch.                                *)
(***************************************************************************)
HoldsActive == {"lease", "open", "stream", "ended", "skip"}
HoldsLease == {"open", "stream", "ended", "crashpub", "unlease"}

Live(r) == pc[r] # "idle" /\ Owned(job[r])

Ownership ==
    /\ stopping = {}
    /\ \A r \in Runners : Live(r) /\ pc[r] \in HoldsActive =>
          active[ChatOf[job[r]]] = job[r]
    /\ \A r \in Runners : Live(r) /\ pc[r] \in HoldsLease =>
          lease[job[r]] = ProcOf[r]
    /\ \A r \in Runners : Live(r) /\ pc[r] \in {"open", "stream", "ended"} =>
          hb[r] \in Beating
    /\ \A r, q \in Runners :
          Live(r) /\ pc[r] \in HoldsActive /\ pc[q] \in HoldsActive /\ job[r] = job[q]
              => r = q
    /\ \A r, q \in Runners :
          Live(r) /\ pc[r] \in HoldsLease /\ pc[q] \in HoldsLease /\ job[r] = job[q]
              => r = q

KeysInv == TypeInv /\ Provenance /\ (Clean => Ownership)

\* no step of the table forgets a row or changes a terminal one
LEMMA StatusMonotone ==
    ASSUME TypeInv, [Next]_vars, NEW t \in Turns
    PROVE  /\ status[t] # "absent" => status'[t] # "absent"
           /\ status[t] \in TerminalStatus => status'[t] = status[t]
           /\ status'[t] \in ActiveStatus /\ status[t] # "absent" => status[t] \in ActiveStatus
  <1>1. TypeOK /\ [Table!Next]_status
    BY NextRefines DEF TypeInv
  <1> USE DEF TerminalStatus, ActiveStatus
  <1>2. CASE \E u \in Turns : Table!Create(u)
    BY <1>1, <1>2 DEF Table!Create, TypeOK
  <1>3. CASE \E u \in Turns : Table!MarkRunning(u)
    BY <1>1, <1>3 DEF Table!MarkRunning, TypeOK
  <1>4. CASE Table!Settle
    BY <1>1, <1>4 DEF Table!Settle, Table!Active, Table!Terminal, TypeOK
  <1> QED
    BY <1>1, <1>2, <1>3, <1>4 DEF Table!Next

LEMMA RunnerProvenance ==
    ASSUME TypeInv, Provenance, [Next]_vars, NEW r \in Runners,
           \/ RunnerStep(r) \/ HeartbeatStep(r) \/ HeartbeatDies(r) \/ Cancel(r) \/ CancelCleanup(r)
           \/ \E t \in Turns : Deliver(r, t)
    PROVE  Provenance'
  <1>1. \A t \in Turns :
           /\ status[t] # "absent" => status'[t] # "absent"
           /\ status[t] \in TerminalStatus => status'[t] = status[t]
    BY StatusMonotone
  <1>2. job[r] \in Turns
        \/ (\E t \in Turns : Deliver(r, t))
    BY DEF RunnerStep, HeartbeatStep, HeartbeatDies, Cancel, CancelCleanup, TypeInv, Bindings,
       AcquireActive, ProbeActive, AcquireLease, StartCodex, LoseOwnership, Exception,
       TerminalEvent, ReleaseActive, PublishCrash, ReleaseLease, PublishSafety,
       Finalize, Ack, HeartbeatRow, HeartbeatActive, HeartbeatLease
  <1> USE DEF TypeInv, TypeOK, Bindings, Provenance, webVars, lstVars, keyVars
  <1>3. CASE AcquireLease(r)
    BY <1>1, <1>3 DEF AcquireLease, set_lease
  <1>4. CASE ReleaseLease(r)
    BY <1>1, <1>4 DEF ReleaseLease, release_lease
  <1>5. CASE Ack(r)
    BY <1>1, <1>5 DEF Ack
  <1>6. ASSUME NEW t \in Turns, Deliver(r, t) PROVE Provenance'
    BY <1>1, <1>6 DEF Deliver
  <1>7. CASE /\ UNCHANGED <<lease, msg, job, webVars, lstVars>>
             /\ \A q \in Runners : pc'[q] # "idle" => pc[q] # "idle"
    BY <1>1, <1>7, RuntimeConstants
  <1>8. CASE AcquireActive(r)
    BY <1>7, <1>8 DEF AcquireActive, set_active
  <1>9. CASE ProbeActive(r)
    BY <1>7, <1>9 DEF ProbeActive
  <1>10. CASE StartCodex(r)
    BY <1>7, <1>10 DEF StartCodex
  <1>11. CASE LoseOwnership(r) \/ Exception(r)
    BY <1>7, <1>11 DEF LoseOwnership, Exception
  <1>17. CASE Cancel(r)
    BY <1>1, <1>17 DEF Cancel, set_lease
  <1>18. CASE CancelCleanup(r)
    BY <1>1, <1>18 DEF CancelCleanup, release_lease
  <1>12. ASSUME NEW kind \in {"done", "error"}, TerminalEvent(r, kind) PROVE Provenance'
    BY <1>7, <1>12 DEF TerminalEvent
  <1>13. CASE ReleaseActive(r)
    BY <1>7, <1>13 DEF ReleaseActive
  <1>14. CASE PublishCrash(r) \/ PublishSafety(r)
    BY <1>7, <1>14 DEF PublishCrash, PublishSafety
  <1>15. CASE Finalize(r)
    BY <1>7, <1>15 DEF Finalize
  <1>16. CASE HeartbeatStep(r) \/ HeartbeatDies(r)
    BY <1>7, <1>16 DEF HeartbeatStep, HeartbeatRow, HeartbeatActive, HeartbeatLease,
       HeartbeatDies
  <1> HIDE DEF Provenance
  <1> QED
    BY <1>3, <1>4, <1>5, <1>6, <1>8, <1>9, <1>10, <1>11, <1>12, <1>13, <1>14,
       <1>15, <1>16, <1>17, <1>18 DEF RunnerStep

LEMMA WorldProvenance ==
    ASSUME TypeInv, Provenance, [Next]_vars,
           \/ \E p \in Procs : ProcessStep(p)
           \/ ListenerStep \/ SweepStep
           \/ \E c \in Chats : ExpireActive(c)
           \/ \E t \in Turns : ExpireLease(t) \/ HeartbeatAges(t)
    PROVE  Provenance'
  <1>1. \A t \in Turns :
           /\ status[t] # "absent" => status'[t] # "absent"
           /\ status[t] \in TerminalStatus => status'[t] = status[t]
    BY StatusMonotone
  <1> USE RuntimeConstants DEF TypeInv, TypeOK, Bindings, Provenance, webVars, lstVars,
          keyVars, runVars
  <1>2. ASSUME NEW p \in Procs, Crash(p) \/ Restart(p) PROVE Provenance'
    BY <1>1, <1>2 DEF Crash, Restart, Vanish
  <1>3. ASSUME NEW p \in Procs, Shutdown(p) PROVE Provenance'
    BY <1>1, <1>3 DEF Shutdown
  <1>4. ASSUME NEW t \in Turns, LeaseExpired(t) PROVE Provenance'
    BY <1>1, <1>4 DEF LeaseExpired, finalize_once, IsActive, ActiveStatus, TerminalStatus
  <1>5. CASE LeaseExpiredUnlock \/ ListenerDown \/ ListenerUp
    BY <1>1, <1>5 DEF LeaseExpiredUnlock, ListenerDown, ListenerUp
  <1>6. CASE SweepStep
    BY <1>1, <1>6 DEF SweepStep, reconcile_stale_turns, SweepOrphan, SweepCommit,
       SweepFails
  <1>7. ASSUME NEW c \in Chats, ExpireActive(c) PROVE Provenance'
    BY <1>1, <1>7 DEF ExpireActive
  <1>8. ASSUME NEW t \in Turns, ExpireLease(t) PROVE Provenance'
    BY <1>1, <1>8 DEF ExpireLease
  <1>9. ASSUME NEW t \in Turns, HeartbeatAges(t) PROVE Provenance'
    BY <1>1, <1>9 DEF HeartbeatAges
  <1> HIDE DEF Provenance
  <1> QED
    BY <1>2, <1>3, <1>4, <1>5, <1>6, <1>7, <1>8, <1>9 DEF ProcessStep, ListenerStep

LEMMA HandlerProvenance ==
    ASSUME TypeInv, Provenance, [Next]_vars, NEW h \in Handlers, HandlerStep(h)
    PROVE  Provenance'
  <1>1. \A t \in Turns :
           /\ status[t] # "absent" => status'[t] # "absent"
           /\ status[t] \in TerminalStatus => status'[t] = status[t]
    BY StatusMonotone
  <1> USE RuntimeConstants DEF TypeInv, TypeOK, Bindings, Provenance, lstVars,
          keyVars, runVars, ActiveStatus, TerminalStatus, IsActive
  <1>2. CASE ReconcileStale(h) \/ CommitOrphan(h) \/ ZombieCheck(h)
    BY <1>1, <1>2 DEF ReconcileStale, CommitOrphan, ZombieCheck, Goto
  <1>3. CASE ReapZombie(h)
    BY <1>1, <1>3 DEF ReapZombie, finalize_once, Goto
  <1>4. CASE UnlockZombie(h) \/ Interrupted(h)
    BY <1>1, <1>4 DEF UnlockZombie, Interrupted, Goto
  <1>5. CASE StaleSidecar(h) \/ EndRequest(h)
    BY <1>1, <1>5 DEF StaleSidecar, EndRequest, Reply
  <1>6. CASE CreateTurn(h)
    BY <1>1, <1>6 DEF CreateTurn
  <1>7. CASE Enqueue(h) \/ EnqueueFails(h)
    BY <1>1, <1>7 DEF Enqueue, EnqueueFails, Reply
  <1>8. ASSUME NEW c \in Chats, RunTurn(h, c) PROVE Provenance'
    BY <1>1, <1>8 DEF RunTurn, ActiveTurns
  <1>9. ASSUME NEW c \in Chats, ControlTurn(h, c) PROVE Provenance'
    BY <1>1, <1>9 DEF ControlTurn, ActiveTurns
  <1> HIDE DEF Provenance
  <1> QED
    BY <1>2, <1>3, <1>4, <1>5, <1>6, <1>7, <1>8, <1>9 DEF HandlerStep

LEMMA NextProvenance == TypeInv /\ Provenance /\ [Next]_vars => Provenance'
  <1> SUFFICES ASSUME TypeInv, Provenance, [Next]_vars PROVE Provenance'
    OBVIOUS
  <1>1. CASE UNCHANGED vars
    BY <1>1 DEF vars, rowVars, keyVars, runVars, webVars, lstVars, Provenance
  <1>2. CASE Next
    BY <1>2, RunnerProvenance, WorldProvenance, HandlerProvenance DEF Next
  <1> QED
    BY <1>1, <1>2

-----------------------------------------------------------------------------
(* Ownership is inductive while nothing stalls, fails or is shut down.     *)

\* the budgets never shrink, so a clean state has a clean past
LEMMA CleanPast ==
    ASSUME TypeInv, [Next]_vars, Clean'
    PROVE  Clean
  <1> USE DEF TypeInv, TypeOK, Clean
  <1>1. CASE UNCHANGED budget
    BY <1>1 DEF budget
  <1>2. CASE Error
    BY <1>2 DEF Error
  <1>3. ASSUME NEW g, Slip(g) PROVE Clean
    BY <1>3 DEF Slip
  <1>4. ASSUME NEW p \in Procs, ProcessStep(p) PROVE Clean
    BY <1>4 DEF ProcessStep, Crash, Shutdown, Restart, budget
  <1>5. CASE ListenerDown
    BY <1>5 DEF ListenerDown
  <1>6. UNCHANGED budget \/ Error \/ (\E g : Slip(g)) \/ (\E p \in Procs : ProcessStep(p)) \/ ListenerDown
    BY DEF Next, vars, RunnerStep, HeartbeatStep, HandlerStep, ListenerStep, SweepStep,
       HeartbeatDies, Cancel, CancelCleanup, Deliver, AcquireActive, ProbeActive, AcquireLease,
       StartCodex, LoseOwnership, Exception, TerminalEvent, ReleaseActive, PublishCrash,
       ReleaseLease, PublishSafety, Finalize, Ack, HeartbeatRow, HeartbeatActive,
       HeartbeatLease, ReconcileStale, CommitOrphan, ZombieCheck, ReapZombie, UnlockZombie,
       Interrupted, StaleSidecar, CreateTurn, Enqueue, EnqueueFails, EndRequest,
       RunTurn, ControlTurn, LeaseExpired, LeaseExpiredUnlock, ListenerUp,
       reconcile_stale_turns, SweepOrphan, SweepCommit, SweepFails, ExpireActive,
       ExpireLease, HeartbeatAges, free_chat
  <1> HIDE DEF TypeInv, Clean
  <1> QED
    BY <1>1, <1>2, <1>3, <1>4, <1>5, <1>6

\* a clean step meets no error
LEMMA CleanStep ==
    ASSUME TypeInv, Clean, Clean'
    PROVE  ~Error /\ \A g : Slip(g) => ~g
  BY DEF TypeInv, TypeOK, Clean, Error, Slip

\* what each ownership lemma starts from
Given == TypeInv /\ Provenance /\ Ownership /\ [Next]_vars /\ Clean /\ Clean'

\* a row that an open transaction has finalised stays locked until it is
\* terminal, unless the transaction fails
LEMMA LockedStays ==
    ASSUME TypeInv, [Next]_vars, ~Error, NEW t \in Locked
    PROVE  t \in Locked' \/ ~IsActive(t)'
  <1> USE DEF TypeInv, TypeOK, Bindings, Locked
  <1>1. CASE UNCHANGED <<hpc, hturn, swept>>
    BY <1>1
  <1>2. ASSUME NEW h \in Handlers, HandlerStep(h) PROVE t \in Locked' \/ ~IsActive(t)'
    <2>1. /\ swept' = swept
          /\ \A k \in Handlers : k # h => hpc'[k] = hpc[k] /\ hturn'[k] = hturn[k]
      BY <1>2 DEF HandlerStep, ReconcileStale, CommitOrphan, ZombieCheck, ReapZombie,
         UnlockZombie, Interrupted, StaleSidecar, CreateTurn, Enqueue, EnqueueFails,
         EndRequest, RunTurn, ControlTurn, Goto, Reply, lstVars
    <2>2. CASE hpc[h] # "commit"
      BY <2>1, <2>2
    <2>3. CASE hpc[h] = "commit"
      <3>1. CommitOrphan(h)
        BY <1>2, <2>3 DEF HandlerStep, ReconcileStale, ZombieCheck, ReapZombie,
           UnlockZombie, Interrupted, StaleSidecar, CreateTurn, Enqueue, EnqueueFails,
           EndRequest, RunTurn, ControlTurn
      <3>2. status'[hturn[h]] \notin ActiveStatus
        BY <3>1, <2>3 DEF CommitOrphan, finalize_once, IsActive, ActiveStatus
      <3> QED
        BY <2>1, <3>2 DEF IsActive
    <2> QED
      BY <2>2, <2>3
  <1>3. CASE SweepStep
    <2>1. CASE SweepCommit
      BY <2>1 DEF SweepCommit, IsActive, ActiveStatus, webVars
    <2>2. CASE reconcile_stale_turns \/ \E u \in Turns : SweepOrphan(u)
      BY <2>2 DEF reconcile_stale_turns, SweepOrphan, webVars
    <2> QED
      BY <1>3, <2>1, <2>2 DEF SweepStep, SweepFails
  <1>4. UNCHANGED <<hpc, hturn, swept>> \/ (\E h \in Handlers : HandlerStep(h)) \/ SweepStep
    BY DEF Next, vars, RunnerStep, HeartbeatStep, ListenerStep, ProcessStep,
       HeartbeatDies, Cancel, CancelCleanup, Deliver, AcquireActive, ProbeActive, AcquireLease,
       StartCodex, LoseOwnership, Exception, TerminalEvent, ReleaseActive, PublishCrash,
       ReleaseLease, PublishSafety, Finalize, Ack, HeartbeatRow, HeartbeatActive,
       HeartbeatLease, LeaseExpired, LeaseExpiredUnlock, ListenerDown, ListenerUp,
       Crash, Shutdown, Restart, ExpireActive, ExpireLease, HeartbeatAges, webVars, lstVars
  <1> HIDE DEF TypeInv, Locked
  <1> QED
    BY <1>1, <1>2, <1>3, <1>4

\* a turn that is owned after a step was owned before it, if it had a runner
LEMMA LivePast ==
    ASSUME Given
    PROVE  /\ \A t \in Turns : status[t] # "absent" /\ Owned(t)' => Owned(t)
           /\ \A r \in Runners : pc[r] # "idle" => job[r] \in Turns /\ status[job[r]] # "absent"
           /\ ~Error /\ \A g : Slip(g) => ~g
  <1>1. TypeInv /\ [Next]_vars /\ Clean /\ Clean'
    BY DEF Given
  <1>2. ~Error /\ \A g : Slip(g) => ~g
    BY <1>1, CleanStep
  <1>3. \A t \in Turns :
           status'[t] \in ActiveStatus /\ status[t] # "absent" => status[t] \in ActiveStatus
    BY <1>1, StatusMonotone
  <1>4. \A t \in Locked : t \in Locked' \/ ~IsActive(t)'
    BY <1>1, <1>2, LockedStays
  <1> QED
    BY <1>1, <1>2, <1>3, <1>4 DEF Given, Owned, IsActive, Provenance, TypeInv, Bindings

LEMMA RunnerOwnership ==
    ASSUME Given, NEW r \in Runners, RunnerStep(r)
    PROVE  Ownership'
  <1>1. /\ \A t \in Turns : status[t] # "absent" /\ Owned(t)' => Owned(t)
        /\ \A q \in Runners : pc[q] # "idle" => job[q] \in Turns /\ status[job[q]] # "absent"
        /\ ~Error
    BY LivePast
  <1> USE RuntimeConstants DEF Given, TypeInv, TypeOK, Bindings, Ownership, Live,
          HoldsActive, HoldsLease, Owned, IsActive
  <1>2. CASE AcquireActive(r)
    BY <1>1, <1>2 DEF AcquireActive, set_active, rowVars
  <1>3. CASE ProbeActive(r)
    BY <1>1, <1>3 DEF ProbeActive, rowVars, keyVars
  <1>4. CASE AcquireLease(r)
    <2>1. /\ status' = status /\ active' = active /\ job' = job /\ stopping' = stopping
          /\ pc[r] = "lease" /\ job[r] \in Turns
      BY <1>4 DEF AcquireLease, rowVars
    <2>2. CASE pc' = [pc EXCEPT ![r] = "skip"]
      <3>1. lease' = lease /\ hb' = hb
        BY <1>1, <1>4, <2>1, <2>2 DEF AcquireLease
      <3> QED
        BY <1>1, <2>1, <2>2, <3>1
    <2>3. CASE pc' = [pc EXCEPT ![r] = "open"]
      <3>1. /\ lease[job[r]] = NoProc
            /\ lease' = [lease EXCEPT ![job[r]] = ProcOf[r]]
            /\ hb' = [hb EXCEPT ![r] = "first"]
        BY <1>4, <2>1, <2>3 DEF AcquireLease, set_lease
      <3>2. \A q \in Runners :
               Live(q) /\ pc[q] \in HoldsLease => job[q] # job[r] /\ ProcOf[q] # NoProc
        BY <3>1
      <3>3. \A q \in Runners : q # r => pc'[q] = pc[q] /\ hb'[q] = hb[q]
        BY <2>3, <3>1
      <3>4. pc'[r] = "open" /\ hb'[r] = "first" /\ lease'[job[r]] = ProcOf[r]
        BY <2>1, <2>3, <3>1
      <3>5. \A t \in Turns : t # job[r] => lease'[t] = lease[t]
        BY <3>1
      <3> QED
        BY <1>1, <2>1, <3>2, <3>3, <3>4, <3>5 DEF Beating
    <2> QED
      BY <1>4, <2>2, <2>3 DEF AcquireLease
  <1>5. CASE StartCodex(r)
    BY <1>1, <1>5 DEF StartCodex, keyVars, Beating
  <1>6. ASSUME NEW kind \in {"done", "error"}, TerminalEvent(r, kind) PROVE Ownership'
    BY <1>1, <1>6 DEF TerminalEvent, keyVars
  <1>7. CASE LoseOwnership(r) \/ Exception(r)
    BY <1>1, <1>7 DEF LoseOwnership, Exception, rowVars, keyVars
  <1>8. CASE ReleaseActive(r)
    BY <1>1, <1>8 DEF ReleaseActive, free_chat, release_active, Error, rowVars
  <1>9. CASE PublishCrash(r) \/ PublishSafety(r)
    BY <1>1, <1>9 DEF PublishCrash, PublishSafety, keyVars
  <1>10. CASE ReleaseLease(r)
    BY <1>1, <1>10 DEF ReleaseLease, release_lease, rowVars
  <1>11. CASE Finalize(r)
    BY <1>1, <1>11 DEF Finalize, keyVars
  <1>12. CASE Ack(r)
    BY <1>1, <1>12 DEF Ack, rowVars, keyVars
  <1> HIDE DEF Ownership
  <1> QED
    BY <1>2, <1>3, <1>4, <1>5, <1>6, <1>7, <1>8, <1>9, <1>10, <1>11, <1>12
       DEF RunnerStep

LEMMA HeartbeatOwnership ==
    ASSUME Given, NEW r \in Runners,
           \/ HeartbeatStep(r) \/ HeartbeatDies(r) \/ Cancel(r) \/ CancelCleanup(r)
           \/ \E t \in Turns : Deliver(r, t)
    PROVE  Ownership'
  <1>1. /\ \A t \in Turns : status[t] # "absent" /\ Owned(t)' => Owned(t)
        /\ \A q \in Runners : pc[q] # "idle" => job[q] \in Turns /\ status[job[q]] # "absent"
        /\ ~Error
    BY LivePast
  <1> USE RuntimeConstants DEF Given, TypeInv, TypeOK, Bindings, Ownership, Live,
          HoldsActive, HoldsLease, Owned, IsActive
  <1>2. CASE HeartbeatRow(r)
    BY <1>1, <1>2 DEF HeartbeatRow, keyVars, Beating
  <1>3. CASE HeartbeatActive(r)
    BY <1>1, <1>3 DEF HeartbeatActive, rowVars, keyVars, Beating
  <1>4. CASE HeartbeatLease(r)
    BY <1>1, <1>4 DEF HeartbeatLease, rowVars, keyVars, Beating
  <1>5. CASE HeartbeatDies(r)
    BY <1>1, <1>5 DEF HeartbeatDies
  <1>6. CASE Cancel(r) \/ CancelCleanup(r)
    BY <1>6 DEF Cancel, CancelCleanup
  <1>7. ASSUME NEW t \in Turns, Deliver(r, t) PROVE Ownership'
    BY <1>1, <1>7 DEF Deliver, rowVars, keyVars
  <1> HIDE DEF Ownership
  <1> QED
    BY <1>2, <1>3, <1>4, <1>5, <1>6, <1>7 DEF HeartbeatStep

LEMMA WorldOwnership ==
    ASSUME Given,
           \/ \E p \in Procs : ProcessStep(p)
           \/ ListenerStep \/ SweepStep
           \/ \E c \in Chats : ExpireActive(c)
           \/ \E t \in Turns : ExpireLease(t) \/ HeartbeatAges(t)
    PROVE  Ownership'
  <1>1. /\ \A t \in Turns : status[t] # "absent" /\ Owned(t)' => Owned(t)
        /\ \A q \in Runners : pc[q] # "idle" => job[q] \in Turns /\ status[job[q]] # "absent"
        /\ \A g : Slip(g) => ~g
    BY LivePast
  <1> USE RuntimeConstants DEF Given, TypeInv, TypeOK, Bindings, Ownership, Live,
          HoldsActive, HoldsLease, Owned, IsActive
  <1>2. ASSUME NEW p \in Procs, Crash(p) PROVE Ownership'
    BY <1>1, <1>2 DEF Crash, Vanish, RunnersOf, rowVars
  <1>3. ASSUME NEW p \in Procs, Shutdown(p) \/ Restart(p) PROVE Ownership'
    BY <1>3 DEF Shutdown, Restart, Clean
  <1>4. ASSUME NEW t \in Turns, LeaseExpired(t) PROVE Ownership'
    BY <1>1, <1>4 DEF LeaseExpired, keyVars, runVars
  <1>5. CASE LeaseExpiredUnlock
    BY <1>1, <1>5 DEF LeaseExpiredUnlock, free_chat, release_active, Error, Provenance, rowVars, runVars,
       ActiveStatus, TerminalStatus
  <1>6. CASE ListenerDown \/ ListenerUp
    BY <1>1, <1>6 DEF ListenerDown, ListenerUp, rowVars, keyVars, runVars
  <1>7. CASE SweepStep
    <2>1. ASSUME NEW t \in Turns, SweepOrphan(t) PROVE Ownership'
      <3>1. ~Owned(t)'
        BY <2>1 DEF SweepOrphan, Locked, rowVars
      <3> QED
        BY <1>1, <2>1, <3>1 DEF SweepOrphan, free_chat, release_active, Error, rowVars, runVars
    <2>2. CASE reconcile_stale_turns \/ SweepCommit \/ SweepFails
      BY <1>1, <2>2 DEF reconcile_stale_turns, SweepCommit, SweepFails, keyVars, runVars
    <2> HIDE DEF Ownership
    <2> QED
      BY <1>7, <2>1, <2>2 DEF SweepStep
  <1>8. ASSUME NEW c \in Chats, ExpireActive(c) PROVE Ownership'
    <2>1. ~GuardsActive(active[c])
      BY <1>1, <1>8 DEF ExpireActive
    <2>2. ASSUME NEW q \in Runners, Live(q), pc[q] \in HoldsActive
          PROVE  ChatOf[job[q]] # c
      BY <1>1, <2>1, <2>2 DEF GuardsActive
    <2>3. /\ UNCHANGED <<status, lease, pc, job, hb, stopping>>
          /\ \A d \in Chats : d # c => active'[d] = active[d]
      BY <1>8 DEF ExpireActive, rowVars, runVars
    <2> QED
      BY <1>1, <2>2, <2>3
  <1>9. ASSUME NEW t \in Turns, ExpireLease(t) PROVE Ownership'
    <2>1. ~GuardsLease(t)
      BY <1>1, <1>9 DEF ExpireLease
    <2>2. ASSUME NEW q \in Runners, Live(q), pc[q] \in HoldsLease
          PROVE  job[q] # t
      BY <1>1, <2>1, <2>2 DEF GuardsLease
    <2>3. /\ UNCHANGED <<status, active, pc, job, hb, stopping>>
          /\ \A u \in Turns : u # t => lease'[u] = lease[u]
      BY <1>9 DEF ExpireLease, rowVars, runVars
    <2> QED
      BY <1>1, <2>2, <2>3
  <1>10. ASSUME NEW t \in Turns, HeartbeatAges(t) PROVE Ownership'
    BY <1>1, <1>10 DEF HeartbeatAges, keyVars, runVars
  <1> HIDE DEF Ownership
  <1> QED
    BY <1>2, <1>3, <1>4, <1>5, <1>6, <1>7, <1>8, <1>9, <1>10
       DEF ProcessStep, ListenerStep, SweepStep

LEMMA HandlerOwnership ==
    ASSUME Given, NEW h \in Handlers, HandlerStep(h)
    PROVE  Ownership'
  <1>1. /\ \A t \in Turns : status[t] # "absent" /\ Owned(t)' => Owned(t)
        /\ \A q \in Runners : pc[q] # "idle" => job[q] \in Turns /\ status[job[q]] # "absent"
        /\ ~Error
    BY LivePast
  <1> USE RuntimeConstants DEF Given, TypeInv, TypeOK, Bindings, Ownership, Live,
          HoldsActive, HoldsLease, Owned, IsActive
  <1>2. CASE active' = active
    <2>1. UNCHANGED <<lease, runVars, stopping>>
      BY <1>2 DEF HandlerStep, ReconcileStale, CommitOrphan, ZombieCheck, ReapZombie,
         UnlockZombie, Interrupted, StaleSidecar, CreateTurn, Enqueue, EnqueueFails, EndRequest,
         RunTurn, ControlTurn, keyVars
    <2> QED
      BY <1>1, <1>2, <2>1 DEF runVars
  <1>3. CASE ReconcileStale(h)
    <2>1. ~Owned(hturn[h])'
      BY <1>3 DEF ReconcileStale, Goto, Locked, rowVars
    <2> QED
      BY <1>1, <1>3, <2>1 DEF ReconcileStale, free_chat, release_active, Goto, Error, rowVars, runVars
  <1>4. CASE UnlockZombie(h)
    BY <1>1, <1>4 DEF UnlockZombie, free_chat, release_active, Error, Provenance, rowVars, runVars,
       ActiveStatus, TerminalStatus
  <1>5. active' = active \/ ReconcileStale(h) \/ UnlockZombie(h)
    BY DEF HandlerStep, CommitOrphan, ZombieCheck, ReapZombie, Interrupted, StaleSidecar, CreateTurn,
       Enqueue, EnqueueFails, EndRequest, RunTurn, ControlTurn, keyVars
  <1> HIDE DEF Ownership
  <1> QED
    BY <1>2, <1>3, <1>4, <1>5

LEMMA InitKeys == Init => KeysInv
  <1> SUFFICES ASSUME Init PROVE KeysInv
    OBVIOUS
  <1>1. TypeInv
    BY InitType
  <1>2. Provenance /\ Ownership
    BY <1>1, RuntimeConstants DEF Init, Provenance, Ownership, Live, TypeInv, TypeOK
  <1> QED
    BY <1>1, <1>2 DEF KeysInv

LEMMA NextKeys == KeysInv /\ [Next]_vars => KeysInv'
  <1> SUFFICES ASSUME KeysInv, [Next]_vars PROVE KeysInv'
    OBVIOUS
  <1>1. TypeInv' /\ Provenance'
    BY NextType, NextProvenance DEF KeysInv
  <1>2. ASSUME Clean' PROVE Ownership'
    <2>1. Given
      BY <1>2, CleanPast DEF KeysInv, Given
    <2>2. CASE UNCHANGED vars
      BY <2>1, <2>2 DEF Given, vars, rowVars, keyVars, runVars, webVars, lstVars,
         Ownership, Live, Owned, IsActive, Locked
    <2>3. CASE Next
      BY <2>1, <2>3, RunnerOwnership, HeartbeatOwnership, WorldOwnership, HandlerOwnership
         DEF Next
    <2> QED
      BY <2>2, <2>3
  <1> QED
    BY <1>1, <1>2 DEF KeysInv

LEMMA KeysInvariance == Spec => []KeysInv
  BY InitKeys, NextKeys, PTL DEF Spec

(***************************************************************************)
(* In every clean behaviour, with any number of workers, redeliveries,     *)
(* crashes and reaping handlers, the runner that executes a live turn      *)
(* holds turn:active:{chat} and turn:lease:{turn} (locks.py, lease.py,     *)
(* runner.py).                                                             *)
(***************************************************************************)
THEOREM OwnerKeys == Spec => []OwnerHoldsKeys
  <1>1. KeysInv => OwnerHoldsKeys
    BY DEF KeysInv, OwnerHoldsKeys, Healthy, Executing, Ownership, Live, HoldsActive,
       HoldsLease
  <1> QED
    BY <1>1, KeysInvariance, PTL

(***************************************************************************)
(* In every clean behaviour no two runners, of whatever processes, execute *)
(* live turns of one chat: at-least-once delivery is executed once at a    *)
(* time.                                                                   *)
(***************************************************************************)
THEOREM Exclusive == Spec => []ExclusiveExecution
  <1>1. KeysInv => ExclusiveExecution
    BY DEF KeysInv, ExclusiveExecution, Healthy, Executing, Ownership, Live, HoldsActive
  <1> QED
    BY <1>1, KeysInvariance, PTL

-----------------------------------------------------------------------------
(* The stream leads the row.                                               *)

\* what a runner will write is in the stream already
PublishedFirst ==
    /\ TypeInv
    /\ CompletedWasPublished
    /\ \A r \in Runners : out[r] = "done" => pc[r] # "idle" /\ "done" \in published[job[r]]

LEMMA NextPublished == PublishedFirst /\ [Next]_vars => PublishedFirst'
  <1> SUFFICES ASSUME PublishedFirst, [Next]_vars PROVE PublishedFirst'
    OBVIOUS
  <1>1. TypeInv /\ TypeInv'
    BY NextType DEF PublishedFirst
  <1> USE DEF TypeInv, TypeOK, Bindings, PublishedFirst, CompletedWasPublished
  <1>2. CASE UNCHANGED vars
    BY <1>1, <1>2 DEF vars, rowVars, runVars
  <1>3. ASSUME NEW r \in Runners, RunnerStep(r) PROVE PublishedFirst'
    <2>1. CASE Finalize(r)
      BY <1>1, <2>1 DEF Finalize, finalize_once, StatusOf
    <2>2. ASSUME NEW kind \in {"done", "error"}, TerminalEvent(r, kind)
          PROVE  PublishedFirst'
      BY <1>1, <2>2 DEF TerminalEvent, publish_terminal
    <2>3. CASE PublishCrash(r) \/ PublishSafety(r)
      BY <1>1, <2>3 DEF PublishCrash, PublishSafety, publish_terminal
    <2>4. CASE StartCodex(r)
      BY <1>1, <2>4 DEF StartCodex
    <2>5. CASE Ack(r) \/ AcquireActive(r) \/ AcquireLease(r)
      BY <1>1, <2>5 DEF Ack, AcquireActive, AcquireLease, rowVars
    <2>6. CASE ProbeActive(r) \/ LoseOwnership(r) \/ Exception(r)
      BY <1>1, <2>6 DEF ProbeActive, LoseOwnership, Exception, rowVars
    <2>7. CASE ReleaseActive(r) \/ ReleaseLease(r)
      BY <1>1, <2>7 DEF ReleaseActive, ReleaseLease, rowVars
    <2> HIDE DEF PublishedFirst
    <2> QED
      BY <1>3, <2>1, <2>2, <2>3, <2>4, <2>5, <2>6, <2>7 DEF RunnerStep
  <1>4. ASSUME NEW r \in Runners, HeartbeatStep(r) \/ HeartbeatDies(r) \/ Cancel(r)
        PROVE  PublishedFirst'
    BY <1>1, <1>4 DEF HeartbeatStep, HeartbeatRow, HeartbeatActive, HeartbeatLease,
       HeartbeatDies, Cancel, rowVars
  <1>10. ASSUME NEW r \in Runners, CancelCleanup(r) PROVE PublishedFirst'
    BY <1>1, <1>10 DEF CancelCleanup, publish_terminal
  <1>5. ASSUME NEW r \in Runners, NEW t \in Turns, Deliver(r, t) PROVE PublishedFirst'
    BY <1>1, <1>5 DEF Deliver, rowVars
  <1>6. ASSUME NEW p \in Procs, ProcessStep(p) PROVE PublishedFirst'
    BY <1>1, <1>6 DEF ProcessStep, Crash, Shutdown, Restart, Vanish, rowVars, runVars
  <1>7. ASSUME NEW h \in Handlers, HandlerStep(h) PROVE PublishedFirst'
    BY <1>1, <1>7 DEF HandlerStep, ReconcileStale, CommitOrphan, ZombieCheck, ReapZombie,
       UnlockZombie,
       Interrupted, StaleSidecar, CreateTurn, Enqueue, EnqueueFails, EndRequest,
       RunTurn, ControlTurn, finalize_once, rowVars, runVars
  <1>8. CASE ListenerStep
    BY <1>1, <1>8 DEF ListenerStep, LeaseExpired, LeaseExpiredUnlock, ListenerDown,
       ListenerUp, finalize_once, rowVars, runVars
  <1>9. CASE \/ SweepStep
             \/ \E c \in Chats : ExpireActive(c)
             \/ \E t \in Turns : ExpireLease(t) \/ HeartbeatAges(t)
    BY <1>1, <1>9 DEF SweepStep, reconcile_stale_turns, SweepOrphan, SweepCommit,
       SweepFails, ExpireActive, ExpireLease, HeartbeatAges,
       rowVars, runVars
  <1> HIDE DEF PublishedFirst
  <1> QED
    BY <1>2, <1>3, <1>4, <1>5, <1>6, <1>7, <1>8, <1>9, <1>10 DEF Next

(***************************************************************************)
(* Whatever stalls, fails or is shut down: turns.status = COMPLETED is     *)
(* written only after the "done" event is in the turn's stream (runner.py, *)
(* publish before finalize_once).                                          *)
(***************************************************************************)
THEOREM StreamLeadsRow == Spec => []CompletedWasPublished
  <1>1. Init => PublishedFirst
    BY InitType DEF Init, PublishedFirst, CompletedWasPublished
  <1>2. PublishedFirst => CompletedWasPublished
    BY DEF PublishedFirst
  <1> QED
    BY <1>1, <1>2, NextPublished, PTL DEF Spec
=============================================================================
