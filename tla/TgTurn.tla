------------------------------- MODULE TgTurn -------------------------------
(***************************************************************************)
(* The turns of one Telegram topic (one row of chats): the session store   *)
(* of each API process (services/sessions/store.py), the handler of an     *)
(* incoming message (tg/turn/runner.py, tg/turn/stream.py), the Stop       *)
(* button (tg/turn/control.py), /reset and the settings watcher that       *)
(* replaces the store (tg/service.py).                                     *)
(*                                                                         *)
(* A handler creates at most one turn and at most one session, so turns,   *)
(* sessions and handler tasks are all named by the handler.  An await on a *)
(* shared store or on the sidecar is one action.  Telegram turns have no   *)
(* lease: after a crash only their heartbeat's age tells.                  *)
(***************************************************************************)
EXTENDS Naturals, FiniteSets

CONSTANTS Procs,        \* API processes that receive updates (webhook mode)
          Handlers,     \* incoming messages of the topic
          Stops,        \* presses of Stop and refreshes of the bot's settings
          None,
          MaxFaults     \* bound on crashes, /reset commands, lost cancels and
                        \* failing heartbeats or commits

ASSUME TgConstants == /\ None \notin Handlers /\ None \notin Procs
                      /\ None # "final"
                      /\ MaxFaults \in Nat

VARIABLES
  proc,      \* the process that handles the update
  hpc,       \* the next await of TurnRunner.handle
  slot,      \* _sessions[key] of a process: the handler whose future it is
  fut,       \* the future a handler put there
  sess,      \* the session (or future) a handler works with
  holder,    \* turn_lock of a session
  task,      \* current_turn_task of a session
  turn,      \* status of the turns row a handler created
  key,       \* turn:active:{chat}
  mute,      \* handlers whose heartbeat_loop has returned or raised
  aged,      \* rows whose heartbeat_at is older than _STALE_THRESHOLD
  lostWrites,\* history: handlers a commit of which failed
  out,       \* terminal of _run_locked, once it is set
  cancelled, \* tasks with a pending cancel()
  kpc, kind, kproc, ksess, kact, ktask,   \* Stop: its await and locals
  journal,   \* presses that wrote TURN_INTERRUPTED
  faults     \* faults so far

handlerVars == <<proc, hpc, sess, out>>
storeVars   == <<slot, fut, holder, task>>
turnVars    == <<turn, key>>
beatVars    == <<mute, aged, lostWrites>>
stopVars    == <<kpc, kind, kproc, ksess, kact, ktask, journal>>
tgVars      == <<handlerVars, storeVars, turnVars, beatVars, stopVars, cancelled, faults>>

Live      == {"starting", "running"}
Final     == {"final"}  \* COMPLETED, FAILED or CANCELLED: TurnTable and TgReply tell which
HandlerPc == {"idle", "claim", "build", "await", "look", "steer",
              "create", "lock", "acquire", "begin", "mark", "stream",
              "teardown", "report", "finalize", "end", "dead"}
Locked    == {"acquire", "begin", "mark", "stream", "teardown", "report", "finalize"}
StopPc    == {"idle", "read", "interrupt", "cancel", "wait", "finalize", "true", "false"}

TgTypeOK ==
  /\ proc \in [Handlers -> Procs \cup {None}]
  /\ hpc \in [Handlers -> HandlerPc]
  /\ slot \in [Procs -> Handlers \cup {None}]
  /\ fut \in [Handlers -> {"none", "pending", "ok", "failed"}]
  /\ {sess, holder, task} \subseteq [Handlers -> Handlers \cup {None}]
  /\ turn \in [Handlers -> Live \cup Final \cup {"none"}]
  /\ key \in Handlers \cup {None}
  /\ cancelled \subseteq Handlers
  /\ mute \subseteq Handlers /\ aged \subseteq Handlers /\ lostWrites \subseteq Handlers
  /\ out \in [Handlers -> Final \cup {None}]
  /\ kpc \in [Stops -> StopPc]
  /\ kind \in [Stops -> {"stop", "refresh"}]
  /\ kproc \in [Stops -> Procs \cup {None}]
  /\ {ksess, kact, ktask} \subseteq [Stops -> Handlers \cup {None}]
  /\ journal \subseteq Stops
  /\ faults \in 0..MaxFaults
  /\ \A h \in Handlers : hpc[h] \in Locked => sess[h] # None /\ holder[sess[h]] = h
  /\ \A s \in Handlers : task[s] \in {None, holder[s]}

TgInit ==
  /\ proc = [h \in Handlers |-> None] /\ hpc = [h \in Handlers |-> "idle"]
  /\ slot = [p \in Procs |-> None] /\ fut = [h \in Handlers |-> "none"]
  /\ sess = [h \in Handlers |-> None] /\ holder = [h \in Handlers |-> None]
  /\ task = [h \in Handlers |-> None] /\ out = [h \in Handlers |-> None]
  /\ turn = [h \in Handlers |-> "none"] /\ key = None
  /\ cancelled = {} /\ journal = {}
  /\ mute = {} /\ aged = {} /\ lostWrites = {}
  /\ kpc = [k \in Stops |-> "idle"] /\ kind \in [Stops -> {"stop", "refresh"}]
  /\ kproc = [k \in Stops |-> None] /\ ksess = [k \in Stops |-> None]
  /\ kact = [k \in Stops |-> None] /\ ktask = [k \in Stops |-> None]
  /\ faults = 0

-----------------------------------------------------------------------------
(* turns and keys, as in TurnRuntime *)

ActiveRow == IF \E h \in Handlers : turn[h] \in Live
             THEN CHOOSE h \in Handlers : turn[h] \in Live ELSE None

\* mutant: the age of the row is compared, not that of its heartbeat.
Stale_by_age(h) == turn[h] \in Live

\* reconcile_if_stale: no heartbeat for two minutes.
Stale(h) == h \in aged

FinalizeOnce(h) ==
  turn' = IF turn[h] \in Live THEN [turn EXCEPT ![h] = "final"] ELSE turn

Goto(h, to) == hpc' = [hpc EXCEPT ![h] = to]

\* A handler that returns takes its locals with it.
Return(h) == /\ Goto(h, "end")
             /\ proc' = [proc EXCEPT ![h] = None]
             /\ sess' = [sess EXCEPT ![h] = None]
             /\ out' = [out EXCEPT ![h] = None]

Fault == faults < MaxFaults /\ faults' = faults + 1

-----------------------------------------------------------------------------
(* Session store *)

\* handle() up to the session: the user's and the chat's rows are upserted and
\* the media prepared; a file over the limit or an empty message ends here.
Incoming(h) ==
  /\ hpc[h] = "idle"
  /\ \/ /\ \E p \in Procs : proc' = [proc EXCEPT ![h] = p]
        /\ Goto(h, "claim") /\ UNCHANGED <<sess, out>>
     \/ Return(h)
  /\ UNCHANGED <<beatVars, storeVars, turnVars, stopVars, cancelled, faults>>

FailedAttempt(f) == fut[f] = "failed"

ClaimSlot(h) ==
  /\ hpc[h] = "claim"
  /\ LET f == slot[proc[h]] IN
       IF f # None /\ ~FailedAttempt(f)
       THEN /\ sess' = [sess EXCEPT ![h] = f]
            /\ Goto(h, "await")
            /\ UNCHANGED <<slot, fut>>
       ELSE /\ sess' = [sess EXCEPT ![h] = h]
            /\ slot' = [slot EXCEPT ![proc[h]] = h]
            /\ fut' = [fut EXCEPT ![h] = "pending"]
            /\ Goto(h, "build")
  /\ UNCHANGED <<beatVars, proc, out, holder, task, turnVars, stopVars, cancelled, faults>>

\* mutant: a failed bootstrap leaves the future unresolved.
FulfilSlot_silent(h) ==
  /\ hpc[h] = "build"
  /\ \/ /\ fut' = [fut EXCEPT ![h] = "ok"] /\ Goto(h, "look")
        /\ UNCHANGED <<proc, sess, out>>
     \/ Return(h) /\ UNCHANGED fut
  /\ UNCHANGED <<beatVars, slot, holder, task, turnVars, stopVars, cancelled, faults>>

\* _bootstrap in the database; its failure takes the future out of the map,
\* unless /reset has put another one there, and fails those who wait for it.
FulfilSlot(h) ==
  /\ hpc[h] = "build"
  /\ \/ /\ fut' = [fut EXCEPT ![h] = "ok"]
        /\ Goto(h, "look")
        /\ UNCHANGED <<slot, proc, sess, out>>
     \/ /\ fut' = [fut EXCEPT ![h] = "failed"]
        /\ slot' = IF slot[proc[h]] = h THEN [slot EXCEPT ![proc[h]] = None] ELSE slot
        /\ Return(h)
  /\ UNCHANGED <<beatVars, holder, task, turnVars, stopVars, cancelled, faults>>

AwaitSession(h) ==
  /\ hpc[h] = "await"
  /\ \/ /\ fut[sess[h]] = "ok"
        /\ Goto(h, "look") /\ UNCHANGED <<proc, sess, out>>
     \/ fut[sess[h]] = "failed" /\ Return(h)
  /\ UNCHANGED <<beatVars, storeVars, turnVars, stopVars, cancelled, faults>>

\* /reset pops the slot whatever runs in the session.
Reset(p) ==
  /\ slot[p] # None
  /\ Fault
  /\ slot' = [slot EXCEPT ![p] = None]
  /\ UNCHANGED <<beatVars, handlerVars, fut, holder, task, turnVars, stopVars, cancelled>>

-----------------------------------------------------------------------------
(* The message meets an active turn *)

\* reserve_turn may refuse (the quota is RateLimit's).  _handle_active_tg_turn:
\* a stale row is failed and its key released (DELEX IFEQ before the commit; a
\* Redis error leaves the key to its TTL); a pending one, or one that a message
\* with media meets, means "try again".
LookAtActive(h) ==
  /\ hpc[h] = "look"
  /\ LET a == ActiveRow
         next(to) == Goto(h, to) /\ UNCHANGED <<proc, sess, out>>
     IN \/ Return(h) /\ UNCHANGED turnVars
        \/ a = None /\ next("create") /\ UNCHANGED turnVars
        \/ /\ a # None /\ Stale(a)
           /\ key' \in {key, IF key = a THEN None ELSE key}
           /\ \/ FinalizeOnce(a) /\ next("create")
              \/ Return(h) /\ UNCHANGED turn
        \/ /\ a # None /\ ~Stale(a) /\ turn[a] = "running"
           /\ next("steer") /\ UNCHANGED turnVars
  /\ UNCHANGED <<beatVars, storeVars, stopVars, cancelled, faults>>

\* Accepted, the message is stored and the steer counter raised, and the
\* handler is done; refused, by the sidecar or by the network, it interrupts
\* the turn and goes on only if that was accepted.
SteerActive(h) ==
  /\ hpc[h] = "steer"
  /\ \/ Return(h)
     \/ Goto(h, "create") /\ UNCHANGED <<proc, sess, out>>
  /\ UNCHANGED <<beatVars, storeVars, turnVars, stopVars, cancelled, faults>>

\* persist_user_turn and try_create_starting under the partial unique index;
\* a database error ends the handler, and one at the commit may leave the row.
CreateTurnRow(h) ==
  /\ hpc[h] = "create"
  /\ \/ Return(h) /\ UNCHANGED <<turn, lostWrites, faults>>
     \/ /\ ActiveRow = None
        /\ turn' = [turn EXCEPT ![h] = "starting"]
        /\ \/ Goto(h, "lock") /\ UNCHANGED <<proc, sess, out, lostWrites, faults>>
           \/ Fault /\ Return(h) /\ lostWrites' = lostWrites \cup {h}
  /\ UNCHANGED <<storeVars, key, mute, aged, stopVars, cancelled>>

-----------------------------------------------------------------------------
(* _run_locked *)

TakeTurnLock(h) ==
  /\ hpc[h] = "lock"
  /\ holder[sess[h]] = None
  /\ holder' = [holder EXCEPT ![sess[h]] = h]
  /\ task' = [task EXCEPT ![sess[h]] = h]
  /\ Goto(h, "acquire")
  /\ UNCHANGED <<beatVars, proc, sess, out, slot, fut, turnVars, stopVars, cancelled, faults>>

\* hold_turn_locks: SET NX; busy (or a Redis error) fails the turn at once.
AcquireActive(h) ==
  /\ hpc[h] = "acquire"
  /\ \/ /\ key = None
        /\ key' = h /\ Goto(h, "begin") /\ UNCHANGED out
     \/ /\ out' = [out EXCEPT ![h] = "final"]
        /\ Goto(h, "report") /\ UNCHANGED key
  /\ UNCHANGED <<beatVars, proc, sess, storeVars, turn, stopVars, cancelled, faults>>

\* open_codex_turn and turn/start; an error ends in the outer except.
BeginTurn(h) ==
  /\ hpc[h] = "begin"
  /\ \/ Goto(h, "mark") /\ UNCHANGED out
     \/ out' = [out EXCEPT ![h] = "final"] /\ Goto(h, "teardown")
  /\ UNCHANGED <<beatVars, proc, sess, storeVars, turn, key, stopVars, cancelled, faults>>

\* on_started: CAS STARTING -> RUNNING with the sidecar's ids; a database error
\* ends the turn.
MarkRunning(h) ==
  /\ hpc[h] = "mark"
  /\ \/ /\ turn' = IF turn[h] = "starting" THEN [turn EXCEPT ![h] = "running"] ELSE turn
        /\ Goto(h, "stream") /\ UNCHANGED out
     \/ /\ out' = [out EXCEPT ![h] = "final"]
        /\ Goto(h, "teardown") /\ UNCHANGED turn
  /\ UNCHANGED <<beatVars, proc, sess, storeVars, key, stopVars, cancelled, faults>>

\* stream_turn always leaves with a terminal: done, error, dropped, stale
\* storm, the sidecar's verdict found by the probe, or the idle timeout; the
\* reply may fail to be sent.
StreamEnds(h) ==
  /\ hpc[h] = "stream"
  /\ out' = [out EXCEPT ![h] = "final"]
  /\ Goto(h, "teardown")
  /\ UNCHANGED <<beatVars, proc, sess, storeVars, turn, key, stopVars, cancelled, faults>>

\* Client closed, heartbeat stopped, release_active (DELEX IFEQ; a Redis
\* error leaves the key to its TTL).
Teardown(h) ==
  /\ hpc[h] = "teardown"
  /\ key' \in {key, IF key = h THEN None ELSE key}
  /\ mute' = mute \ {h}
  /\ Goto(h, "report")
  /\ UNCHANGED <<proc, sess, out, storeVars, turn, aged, lostWrites, stopVars, cancelled, faults>>

\* mutant: current_turn_task outlives the turn.
ReportOutcome_keeps_task(h) ==
  /\ hpc[h] = "report"
  /\ Goto(h, "finalize")
  /\ UNCHANGED <<beatVars, proc, sess, out, storeVars, turnVars, stopVars, cancelled, faults>>

\* The except clauses (journal, auto_reset_thread, answer), then the finally
\* up to its database call.
ReportOutcome(h) ==
  /\ hpc[h] = "report"
  /\ task' = IF task[sess[h]] = h THEN [task EXCEPT ![sess[h]] = None] ELSE task
  /\ Goto(h, "finalize")
  /\ UNCHANGED <<beatVars, proc, sess, out, slot, fut, holder, turnVars, stopVars, cancelled, faults>>

\* finalize_once, then progress.stop() and rate_limit.release_turn; a database
\* error leaves the row as it is.
FinalizeTurn(h) ==
  /\ hpc[h] = "finalize"
  /\ \/ /\ IF out[h] # None THEN FinalizeOnce(h) ELSE UNCHANGED turn
        /\ aged' = aged \ {h}
        /\ UNCHANGED <<lostWrites, faults>>
     \/ Fault /\ lostWrites' = lostWrites \cup {h} /\ UNCHANGED <<turn, aged>>
  /\ holder' = [holder EXCEPT ![sess[h]] = None]
  /\ Return(h)
  /\ UNCHANGED <<slot, fut, task, key, mute, stopVars, cancelled>>

\* mutant: the CancelledError clause does not set terminal.
Cancel_no_terminal(h) ==
  /\ h \in cancelled
  /\ hpc[h] \in {"acquire", "begin", "mark", "stream"}
  /\ cancelled' = cancelled \ {h}
  /\ Goto(h, IF hpc[h] = "acquire" THEN "report" ELSE "teardown")
  /\ UNCHANGED <<beatVars, proc, sess, out, storeVars, turnVars, stopVars, faults>>

\* CancelledError at the await where the task is.  While the except clauses
\* run the terminal is already set; during the teardown the key may stay.
Cancel(h) ==
  /\ h \in cancelled
  /\ hpc[h] \in {"acquire", "begin", "mark", "stream", "teardown", "report"}
  /\ cancelled' = cancelled \ {h}
  /\ out' = IF hpc[h] = "report" THEN out ELSE [out EXCEPT ![h] = "final"]
  /\ \/ hpc[h] \in {"begin", "mark", "stream"} /\ Goto(h, "teardown") /\ UNCHANGED task
     \/ hpc[h] \in {"acquire", "teardown"} /\ Goto(h, "report") /\ UNCHANGED task
     \/ /\ hpc[h] = "report" /\ Goto(h, "finalize")
        /\ task' = IF task[sess[h]] = h THEN [task EXCEPT ![sess[h]] = None] ELSE task
  /\ UNCHANGED <<beatVars, proc, sess, slot, fut, holder, turnVars, stopVars, faults>>

\* `except CancelledError: pass` around the await of the heartbeat task takes
\* a cancel meant for the turn.
CancelSwallowed(h) ==
  /\ h \in cancelled /\ hpc[h] = "teardown"
  /\ Fault
  /\ cancelled' = cancelled \ {h}
  /\ UNCHANGED <<beatVars, handlerVars, storeVars, turnVars, stopVars>>

-----------------------------------------------------------------------------
(* cancel_turn, and interrupt_all_turns of the settings watcher *)

StopGoto(k, to) == kpc' = [kpc EXCEPT ![k] = to]

\* A Stop that has answered takes its locals with it.
StopEnds(k, answer) ==
  /\ StopGoto(k, answer)
  /\ kproc' = [kproc EXCEPT ![k] = None] /\ ksess' = [ksess EXCEPT ![k] = None]
  /\ kact' = [kact EXCEPT ![k] = None] /\ ktask' = [ktask EXCEPT ![k] = None]

PressStop(k) ==
  /\ kpc[k] = "idle"
  /\ \E p \in Procs :
       IF slot[p] # None /\ fut[slot[p]] = "ok"
       THEN /\ kproc' = [kproc EXCEPT ![k] = p] /\ ksess' = [ksess EXCEPT ![k] = slot[p]]
            /\ StopGoto(k, IF kind[k] = "stop" THEN "read" ELSE "cancel")
            /\ UNCHANGED <<kact, ktask>>
       ELSE StopEnds(k, "false")
  /\ UNCHANGED <<beatVars, handlerVars, storeVars, turnVars, kind, journal, cancelled, faults>>

ReadActive(k) ==
  /\ kpc[k] = "read"
  /\ kact' = [kact EXCEPT ![k] = ActiveRow]
  /\ StopGoto(k, IF ActiveRow # None /\ turn[ActiveRow] = "running"
                 THEN "interrupt" ELSE "cancel")
  /\ UNCHANGED <<beatVars, handlerVars, storeVars, turnVars, kind, kproc, ksess, ktask, journal, cancelled, faults>>

SendInterrupt(k) ==
  /\ kpc[k] = "interrupt"
  /\ StopGoto(k, "cancel")
  /\ UNCHANGED <<beatVars, handlerVars, storeVars, turn, key, kind, kproc, ksess, kact, ktask, journal, cancelled, faults>>

\* cancel_session_turn reads current_turn_task now, which need not be the
\* task of the turn that was active when Stop looked.
CancelTask(k) ==
  /\ kpc[k] = "cancel"
  /\ LET t == task[ksess[k]] IN
       IF t = None
       THEN StopEnds(k, "false") /\ UNCHANGED cancelled
       ELSE /\ ktask' = [ktask EXCEPT ![k] = t]
            /\ cancelled' = cancelled \cup {t}
            /\ StopGoto(k, "wait")
            /\ UNCHANGED <<kproc, ksess, kact>>
  /\ UNCHANGED <<beatVars, handlerVars, storeVars, turnVars, kind, journal, faults>>

AwaitTask(k) ==
  /\ kpc[k] = "wait"
  /\ hpc[ktask[k]] = "end"
  /\ task' = IF task[ksess[k]] = ktask[k] THEN [task EXCEPT ![ksess[k]] = None] ELSE task
  /\ IF kind[k] = "refresh" \/ kact[k] # None
     THEN StopGoto(k, "finalize") /\ UNCHANGED <<kproc, ksess, kact, ktask>>
     ELSE StopEnds(k, "true")
  /\ UNCHANGED <<beatVars, handlerVars, slot, fut, holder, turnVars, kind, journal, cancelled, faults>>

\* cancel_turn journals only if it was the one to settle the row;
\* _on_turn_interrupted always does, and the watcher then drops the store.
FinishStop(k) ==
  /\ kpc[k] = "finalize"
  /\ IF kind[k] = "stop"
     THEN /\ FinalizeOnce(kact[k])
          /\ journal' = IF turn[kact[k]] \in Live THEN journal \cup {k} ELSE journal
          /\ UNCHANGED slot
     ELSE /\ journal' = journal \cup {k}
          /\ slot' = [slot EXCEPT ![kproc[k]] = None]
          /\ UNCHANGED turn
  /\ StopEnds(k, "true")
  /\ UNCHANGED <<beatVars, handlerVars, fut, holder, task, key, kind, cancelled, faults>>

-----------------------------------------------------------------------------
(* Environment *)

\* A process dies, and all it had in memory with it.
Crash(p) ==
  /\ Fault
  /\ LET dying == {h \in Handlers : proc[h] = p /\ hpc[h] \notin {"idle", "end", "dead"}}
         lose(f) == [h \in Handlers |-> IF f[h] \in dying THEN None ELSE f[h]]
         forget(f) == [h \in Handlers |-> IF h \in dying THEN None ELSE f[h]]
     IN /\ dying # {}
        /\ hpc' = [h \in Handlers |-> IF h \in dying THEN "dead" ELSE hpc[h]]
        /\ proc' = forget(proc) /\ sess' = forget(sess) /\ out' = forget(out)
        /\ holder' = lose(holder) /\ task' = lose(task)
        /\ cancelled' = cancelled \ dying /\ mute' = mute \ dying
  /\ slot' = [slot EXCEPT ![p] = None]
  /\ LET lost == {k \in Stops : kproc[k] = p}
         drop(f) == [k \in Stops |-> IF k \in lost THEN None ELSE f[k]]
     IN /\ kpc' = [k \in Stops |-> IF k \in lost THEN "false" ELSE kpc[k]]
        /\ kproc' = drop(kproc) /\ ksess' = drop(ksess)
        /\ kact' = drop(kact) /\ ktask' = drop(ktask)
  /\ UNCHANGED <<fut, turnVars, aged, lostWrites, kind, journal>>

Streaming(h) == hpc[h] \in {"begin", "mark", "stream"}

\* heartbeat_loop of the handler is running.
Beating(h) == Streaming(h) /\ h \notin mute

\* A live row without a heartbeat turns stale: its process is dead, its
\* handler returned without settling it, lost its heartbeat_loop, or waits
\* for two minutes outside of it (for turn_lock, or in the except clauses).
Ages(h) ==
  /\ turn[h] \in Live /\ h \notin aged
  /\ h \in mute \/ hpc[h] \in {"lock", "report", "end", "dead"}
  /\ hpc[h] = "lock" => holder[sess[h]] # None
  /\ aged' = aged \cup {h}
  /\ UNCHANGED <<handlerVars, storeVars, turnVars, mute, lostWrites, stopVars, cancelled, faults>>

\* heartbeat_loop finds the row and the key its own and refreshes both.
Beat(h) ==
  /\ Beating(h) /\ h \in aged /\ turn[h] \in Live /\ key = h
  /\ aged' = aged \ {h}
  /\ UNCHANGED <<handlerVars, storeVars, turnVars, mute, lostWrites, stopVars, cancelled, faults>>

\* heartbeat_loop returns because the row is settled or the key not its own
\* (here without an ownership_lost event to set), or a database or Redis error
\* ends it; nobody looks at its task before the teardown.
BeatStops(h) ==
  /\ Beating(h)
  /\ \/ (turn[h] \notin Live \/ key # h) /\ UNCHANGED faults
     \/ Fault
  /\ mute' = mute \cup {h}
  /\ UNCHANGED <<handlerVars, storeVars, turnVars, aged, lostWrites, stopVars, cancelled>>

\* Redis drops the active key when no heartbeat refreshes it.
ActiveKeyExpires ==
  /\ key # None /\ ~Beating(key)
  /\ key' = None
  /\ UNCHANGED <<handlerVars, storeVars, turn, beatVars, stopVars, cancelled, faults>>

HandlerStep(h) ==
  \/ ClaimSlot(h) \/ FulfilSlot(h) \/ AwaitSession(h)
  \/ LookAtActive(h) \/ SteerActive(h) \/ CreateTurnRow(h)
  \/ TakeTurnLock(h) \/ AcquireActive(h) \/ BeginTurn(h) \/ MarkRunning(h)
  \/ StreamEnds(h) \/ Teardown(h) \/ ReportOutcome(h) \/ FinalizeTurn(h)
  \/ Cancel(h)

StopStep(k) == \/ ReadActive(k) \/ SendInterrupt(k) \/ CancelTask(k)
               \/ AwaitTask(k) \/ FinishStop(k)

TgNext ==
  \/ \E h \in Handlers : \/ Incoming(h) \/ HandlerStep(h) \/ CancelSwallowed(h)
                          \/ Ages(h) \/ Beat(h) \/ BeatStops(h)
  \/ \E k \in Stops : PressStop(k) \/ StopStep(k)
  \/ \E p \in Procs : Reset(p) \/ Crash(p)
  \/ ActiveKeyExpires

\* asyncio runs every task that can run; the idle policy ends a silent stream
\* (CodexStream's SilentTurnEnds).
TgFairness ==
  /\ \A h \in Handlers : WF_tgVars(HandlerStep(h))
  /\ \A k \in Stops : WF_tgVars(StopStep(k))

TgSpec     == TgInit /\ [][TgNext]_tgVars
TgFairSpec == TgSpec /\ TgFairness

-----------------------------------------------------------------------------
(* Properties *)

Fresh(h) == h \notin mute \cup aged

\* Two handlers of a chat whose heartbeats keep their rows fresh never talk to
\* the sidecar at once, although /reset, a refreshed store and a second process
\* give them different turn_locks, and a third message may meanwhile declare
\* either of them dead.  Without its heartbeat a handler streams on beside the
\* next one: a Telegram turn is not told of the loss.
OneStreamPerChat ==
  \A g, h \in Handlers : Streaming(g) /\ Streaming(h) /\ g # h => ~(Fresh(g) /\ Fresh(h))

\* "Per-chat active lock: the physical guarantee of 1 active turn per chat"
\* (tg/turn/runner.py:163).  Not so once a heartbeat_loop has ended.
PhysicalGuarantee ==
  \A g, h \in Handlers : Streaming(g) /\ Streaming(h) => g = h

\* Whatever await Stop, a refresh or an error strikes at, a handler that has
\* returned leaves its own row final (the finally of _run_locked), unless the
\* database failed the very commit that creates or settles the row.
EndedHandlerSettledRow ==
  \A h \in Handlers : hpc[h] = "end" /\ turn[h] \in Live => h \in lostWrites

\* Every message is handled to the end unless its process dies: no slot whose
\* future nobody resolves, no turn_lock that is never given back, no Stop and
\* task that wait for each other (store.py, runner.py, control.py).
EveryHandlerEnds ==
  \A h \in Handlers : (hpc[h] = "claim") ~> (hpc[h] \in {"end", "dead"})
=============================================================================
