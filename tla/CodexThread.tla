---------------------------- MODULE CodexThread ----------------------------
(***************************************************************************)
(* What the model remembers of a chat: the turns of one chat, one after    *)
(* the other, each open a connection to the sidecar, resume or start a     *)
(* thread (services/codex/runner.py, thread.py), seed a fresh one with the *)
(* stored messages and run on it; chats.codex_thread_id and the quarantine *)
(* marks in Redis are what one turn leaves to the next.  /new clears the   *)
(* id at any moment (tg/handlers.py).                                      *)
(*                                                                         *)
(* Turns and threads are numbered.  A thread remembers the exchanges that  *)
(* were injected into it or that ran on it.                                *)
(***************************************************************************)
EXTENDS Naturals, FiniteSets

CONSTANTS MaxTurns, MaxThreads,   \* bounds
          HistoryLimit,           \* _HISTORY_REPLAY_LIMIT, in exchanges
          MaxThreadFaults,             \* bound on errors, crashes, lost threads
          MaxNews                 \* bound on /new

ASSUME ThreadConstants ==
  /\ {MaxTurns, MaxThreads, HistoryLimit} \subseteq Nat \ {0}
  /\ {MaxThreadFaults, MaxNews} \subseteq Nat

VARIABLES
  row,       \* chats.codex_thread_id (0: NULL)
  quarantine,\* threads with a mark
  opened,    \* threads the sidecar has started: 1..opened
  gone,      \* threads it no longer finds
  knows,     \* the exchanges a thread remembers
  exchanges, \* the exchanges stored in the chat's messages
  k,         \* number of the current turn
  tpc,       \* its next await
  storedThread, \* stored_thread_id
  tid,       \* CodexThreadSession._thread_id
  retried,   \* turn/start was refused once
  lossy,     \* history: threads whose seeding failed or was cut, or that a
             \* failed write left in the row
  unseeded,  \* history: threads that run_turn's retry opened: nobody seeds them
  forgotten, \* exchanges before the last /new that came between two turns
  news, threadFaults

threadVars == <<row, quarantine, opened, gone, knows, exchanges, k, tpc, storedThread, tid, retried,
                lossy, unseeded, forgotten, news, threadFaults>>

Threads == 1..MaxThreads
TurnNos == 1..MaxTurns

ThreadTypeOK ==
  /\ row \in 0..opened /\ opened \in 0..MaxThreads
  /\ {quarantine, gone, lossy, unseeded} \subseteq SUBSET (1..opened)
  /\ knows \in [Threads -> SUBSET TurnNos] /\ {exchanges, forgotten} \subseteq SUBSET TurnNos
  /\ k \in 0..MaxTurns
  /\ tpc \in {"none", "load", "mark", "resume", "clear", "open", "emit", "seed", "start", "run"}
  /\ storedThread \in 0..opened /\ tid \in 0..opened /\ retried \in BOOLEAN
  /\ news \in 0..MaxNews /\ threadFaults \in 0..MaxThreadFaults

ThreadInit ==
  /\ row = 0 /\ quarantine = {} /\ opened = 0 /\ gone = {}
  /\ knows = [t \in Threads |-> {}] /\ exchanges = {}
  /\ k = 0 /\ tpc = "none" /\ storedThread = 0 /\ tid = 0 /\ retried = FALSE
  /\ lossy = {} /\ unseeded = {} /\ forgotten = {} /\ news = 0 /\ threadFaults = 0

ThreadFault == threadFaults < MaxThreadFaults /\ threadFaults' = threadFaults + 1
turnVars == <<k, tpc, storedThread, tid, retried>>
sidecar  == <<opened, gone, knows>>
ghosts   == <<lossy, unseeded, forgotten>>

\* The last messages of the chat, without the turn's own prompt.
Recent == {e \in exchanges : Cardinality({d \in exchanges : d > e}) < HistoryLimit}

-----------------------------------------------------------------------------
(* open_codex_turn *)

NextTurn ==
  /\ tpc = "none" /\ k < MaxTurns
  /\ k' = k + 1 /\ tpc' = "load"
  /\ storedThread' = 0 /\ tid' = 0 /\ retried' = FALSE
  /\ UNCHANGED <<row, quarantine, sidecar, exchanges, ghosts, news, threadFaults>>

LoadStored ==
  /\ tpc = "load"
  /\ storedThread' = row
  /\ tpc' = "mark"
  /\ UNCHANGED <<row, quarantine, sidecar, exchanges, k, tid, retried, ghosts, news, threadFaults>>

\* A mark in Redis makes the turn start without an id.  Then connect and
\* handshake.
CheckQuarantine ==
  /\ tpc = "mark"
  /\ tid' = IF storedThread \in quarantine THEN 0 ELSE storedThread
  /\ tpc' = "resume"
  /\ UNCHANGED <<row, quarantine, sidecar, exchanges, k, storedThread, retried, ghosts, news, threadFaults>>

\* ensure_thread: a thread the sidecar does not find is given up.
Resume ==
  /\ tpc = "resume"
  /\ tpc' = IF tid = 0 THEN "open" ELSE IF tid \in gone THEN "clear" ELSE "seed"
  /\ tid' = IF tid \in gone THEN 0 ELSE tid
  /\ UNCHANGED <<row, quarantine, sidecar, exchanges, k, storedThread, retried, ghosts, news, threadFaults>>

\* reset_thread: set_codex_thread_id(None); a failure is only logged.
ClearStored ==
  /\ tpc = "clear"
  /\ tpc' = "open"
  /\ \/ row' = 0 /\ UNCHANGED threadFaults
     \/ ThreadFault /\ UNCHANGED row
  /\ UNCHANGED <<quarantine, sidecar, exchanges, k, storedThread, tid, retried, ghosts, news>>

OpenThread ==
  /\ tpc = "open" /\ opened < MaxThreads
  /\ opened' = opened + 1 /\ tid' = opened + 1
  /\ tpc' = "emit"
  /\ UNCHANGED <<row, quarantine, gone, knows, exchanges, k, storedThread, retried, ghosts, news, threadFaults>>

\* on_thread_change; after a failure the row keeps the thread before.  On the
\* retry inside run_turn nobody seeds the thread, and the row takes it.
EmitThread ==
  /\ tpc = "emit"
  /\ tpc' = IF retried THEN "start" ELSE "seed"
  /\ unseeded' = IF retried THEN unseeded \cup {tid} ELSE unseeded
  /\ \/ row' = tid /\ UNCHANGED <<lossy, threadFaults>>
     \/ ThreadFault /\ UNCHANGED row /\ lossy' = lossy \cup ({row} \ {0})
  /\ UNCHANGED <<quarantine, sidecar, exchanges, k, storedThread, tid, retried, forgotten, news>>

\* mutant: only a chat that had no thread is seeded.
SeedHistory_first ==
  /\ tpc = "seed"
  /\ tpc' = "start"
  /\ knows' = IF storedThread # 0 THEN knows ELSE [knows EXCEPT ![tid] = @ \cup Recent]
  /\ UNCHANGED <<row, quarantine, opened, gone, exchanges, k, storedThread, tid, retried, ghosts, news, threadFaults>>

\* A thread that is not the stored one gets the recent messages.  The sidecar
\* may refuse them, which is logged, or the connection may break.
SeedHistory ==
  /\ tpc = "seed"
  /\ IF tid = storedThread
     THEN tpc' = "start" /\ UNCHANGED <<knows, lossy, threadFaults>>
     ELSE \/ /\ knows' = [knows EXCEPT ![tid] = @ \cup Recent]
             /\ tpc' = "start" /\ UNCHANGED <<lossy, threadFaults>>
          \/ /\ ThreadFault /\ tpc' \in {"start", "none"}
             /\ lossy' = lossy \cup {tid} /\ UNCHANGED knows
  /\ UNCHANGED <<row, quarantine, opened, gone, exchanges, k, storedThread, tid, retried, unseeded, forgotten, news>>

-----------------------------------------------------------------------------
(* run_turn *)

\* _begin_turn_with_retry: a thread lost since it was resumed is replaced once.
StartTurn ==
  /\ tpc = "start"
  /\ \/ tid \notin gone /\ tpc' = "run" /\ UNCHANGED <<tid, retried>>
     \/ tid \in gone /\ ~retried /\ tpc' = "clear" /\ tid' = 0 /\ retried' = TRUE
     \/ tid \in gone /\ retried /\ tpc' = "none" /\ UNCHANGED <<tid, retried>>
  /\ UNCHANGED <<row, quarantine, sidecar, exchanges, k, storedThread, ghosts, news, threadFaults>>

\* done: the exchange is in the thread and in the messages.
Complete ==
  /\ tpc = "run"
  /\ knows' = [knows EXCEPT ![tid] = @ \cup {k}]
  /\ exchanges' = exchanges \cup {k}
  /\ tpc' = "none"
  /\ UNCHANGED <<row, quarantine, opened, gone, k, storedThread, tid, retried, ghosts, news, threadFaults>>

\* An error, Stop, or a lost stream: the thread stays in use.
Abort ==
  /\ tpc \notin {"none", "load"} /\ ThreadFault
  /\ tpc' = "none"
  /\ lossy' = IF tpc = "seed" /\ tid # storedThread THEN lossy \cup {tid} ELSE lossy
  /\ UNCHANGED <<row, quarantine, sidecar, exchanges, k, storedThread, tid, retried, unseeded, forgotten, news>>

\* Idle timeout or a storm of stale notifications: quarantine_thread; a Redis
\* error is only logged.
TimeOut ==
  /\ tpc = "run" /\ ThreadFault
  /\ quarantine' \in {quarantine, quarantine \cup {tid}}
  /\ tpc' = "none"
  /\ UNCHANGED <<row, sidecar, exchanges, k, storedThread, tid, retried, ghosts, news>>

-----------------------------------------------------------------------------
(* Others *)

\* /new: the row's id is cleared whatever turn is running.
New ==
  /\ news < MaxNews /\ news' = news + 1
  /\ row' = 0
  /\ forgotten' = IF tpc = "none" THEN exchanges ELSE forgotten
  /\ UNCHANGED <<quarantine, sidecar, exchanges, turnVars, lossy, unseeded, threadFaults>>

\* The sidecar restarts or prunes a thread.
LoseThread ==
  /\ ThreadFault
  /\ \E t \in 1..opened : t \notin gone /\ gone' = gone \cup {t}
  /\ tpc # "run"
  /\ UNCHANGED <<row, quarantine, opened, knows, exchanges, turnVars, ghosts, news>>

\* After a day; the thread may be used again.
MarkExpires ==
  /\ \E t \in quarantine : quarantine' = quarantine \ {t}
  /\ UNCHANGED <<row, sidecar, exchanges, turnVars, ghosts, news, threadFaults>>

ThreadNext ==
  \/ NextTurn \/ LoadStored \/ CheckQuarantine \/ Resume \/ ClearStored
  \/ OpenThread \/ EmitThread \/ SeedHistory \/ StartTurn
  \/ Complete \/ Abort \/ TimeOut
  \/ New \/ LoseThread \/ MarkExpires

ThreadSpec == ThreadInit /\ [][ThreadNext]_threadVars

-----------------------------------------------------------------------------
(* Properties *)

\* "If the thread is fresh, seed the recent messages" (runner.py:58): a turn
\* that runs has all of the recent conversation in its thread, through lost
\* threads, quarantines, /new in the middle of a turn and failed turns.  Three
\* kinds of thread are excepted: one whose seeding failed, one that a failed
\* write left in the row, and one that run_turn's own retry opened.
ContextIsKept ==
  tpc = "run" /\ tid \notin lossy \cup unseeded => Recent \subseteq knows[tid]

-----------------------------------------------------------------------------
(* What the comments say and the code does not do                          *)

\* runner.py:58 without the last exception: a fresh thread is seeded, the one
\* of the retry too.
FreshIsSeeded == tpc = "run" /\ tid \notin lossy => Recent \subseteq knows[tid]

\* /new resets the context (the bot's own description of the command): a turn
\* that starts after it does not know of earlier exchanges.
NewForgets == tpc = "run" => knows[tid] \cap forgotten = {}
=============================================================================
