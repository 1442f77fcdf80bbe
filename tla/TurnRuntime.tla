---------------------------- MODULE TurnRuntime ----------------------------
(***************************************************************************)
(* The life of a web turn across the processes that share it: RunTurn and  *)
(* control handlers in gunicorn, runners in TaskIQ worker processes, the   *)
(* heartbeat task of each runner, the listener of expired leases and the   *)
(* stale-row sweep.  They meet in the `turns` table (Postgres), in the     *)
(* keys turn:active:{chat} and turn:lease:{turn} (Redis, 30 s TTL), in the *)
(* per-turn event stream and in the task broker.  Every await of the code  *)
(* that reads or writes one of these is a step of its own.                 *)
(*                                                                         *)
(* Time is abstract.  A key may expire and a heartbeat may go stale when   *)
(* nobody refreshes it; when a runner's heartbeat is refreshing it, expiry *)
(* means that the process stalled longer than the TTL, which is a "slip".  *)
(***************************************************************************)
EXTENDS Naturals

CONSTANTS
    Turns, Chats, ChatOf,   \* rows of the table and the chat of each
    Procs,                  \* TaskIQ worker processes; a lease names one
    Runners,                \* concurrent executions of execute_turn
    ProcOf,                 \* [Runners -> Procs], where a runner runs
    Handlers,               \* concurrent web requests
    NoTurn, NoProc,         \* "no such key" and "no turn"
    DeadProc,               \* the holder id of a process that is gone: its
                            \* successor draws a new one
    EarlyRedelivery,        \* may the broker redeliver a message that is
                            \* still being executed or still locked?
    MaxSlips,               \* bound on stalls longer than a TTL
    MaxCrashes,             \* bound on worker deaths
    MaxOutages,             \* bound on times without a recovery listener
    MaxStops,               \* bound on graceful worker shutdowns
    MaxSweeps,              \* bound on starts of an API process
    MaxErrors               \* bound on Redis and database errors met, and on
                            \* requests cancelled before a commit

ASSUME RuntimeConstants ==
    /\ ChatOf \in [Turns -> Chats]
    /\ ProcOf \in [Runners -> Procs]
    /\ NoTurn \notin Turns
    /\ NoProc \notin Procs /\ DeadProc \notin Procs /\ DeadProc # NoProc
    /\ EarlyRedelivery \in BOOLEAN
    /\ MaxSlips \in Nat /\ MaxCrashes \in Nat
    /\ MaxOutages \in Nat /\ MaxStops \in Nat
    /\ MaxSweeps \in Nat /\ MaxErrors \in Nat

VARIABLES
    status,     \* turns.status, "absent" before the INSERT
    stale,      \* rows whose heartbeat_at is older than _STALE_THRESHOLD
    published,  \* kinds of terminal events in the turn's stream
    active,     \* turn:active:{chat}, a turn id
    lease,      \* turn:lease:{turn}, a process
    msg,        \* the task message of the turn at the broker
    pc,         \* runner: the next await of execute_turn_inner
    job,        \* runner: the turn it executes
    hb,         \* runner: its heartbeat_loop task
    out,        \* runner: terminal_status and why
    stopping,   \* processes whose WORKER_SHUTDOWN handler has run
    lapsed,     \* history: live turns whose runner left them without a lease
                \* whose expiry would tell
    hpc,        \* handler: the next await of run_turn or of a control RPC
    hchat,      \* handler: the request's chat
    hturn,      \* handler: the active TurnRow it has read, later the new row
    listening,  \* a leader is subscribed to __keyevent@0__:expired
    expired,    \* expired-lease events on their way to it
    reaped,     \* the turn it has finalised and is about to unlock
    found,      \* rows the startup sweep has read as stale
    swept,      \* rows its open transaction has finalised and unlocked
    sweeps,     \* ... and how many there were
    slips, crashes, outages, stops, errors

rowVars == <<status, stale, published>>
keyVars == <<active, lease>>
runVars == <<pc, job, hb, out>>
webVars == <<hpc, hchat, hturn>>
lstVars == <<listening, expired, reaped, found, swept, sweeps>>
budget == <<slips, crashes, outages, stops, errors>>
procVars == <<stopping, lapsed>>
vars == <<rowVars, keyVars, msg, runVars, procVars, webVars, lstVars, budget>>

ActiveStatus == {"starting", "running"}
TerminalStatus == {"completed", "failed", "cancelled"}

PC == {"idle", "acquire", "probe", "lease", "open", "stream",
       "ended", "skip", "crashpub", "unlease", "safety", "finalize", "ack"}
HB == {"off", "first", "sleep", "lock", "lease", "lost", "dead"}
Out == {"none", "done", "error", "lost", "busy", "exception", "mute", "cancelled"}
HPC == {"idle", "orphan", "commit", "zombie", "reap", "unlock", "control", "create",
        "enqueue", "rpc"}

TypeOK ==
    /\ status \in [Turns -> {"absent"} \cup ActiveStatus \cup TerminalStatus]
    /\ stale \in SUBSET Turns
    /\ published \in [Turns -> SUBSET {"done", "error"}]
    /\ active \in [Chats -> Turns \cup {NoTurn}]
    /\ lease \in [Turns -> Procs \cup {NoProc, DeadProc}]
    /\ msg \in [Turns -> {"none", "sent", "acked"}]
    /\ pc \in [Runners -> PC]
    /\ job \in [Runners -> Turns \cup {NoTurn}]
    /\ hb \in [Runners -> HB]
    /\ out \in [Runners -> Out]
    /\ stopping \in SUBSET Procs /\ lapsed \in SUBSET Turns
    /\ hpc \in [Handlers -> HPC]
    /\ hchat \in [Handlers -> Chats]
    /\ hturn \in [Handlers -> Turns \cup {NoTurn}]
    /\ listening \in BOOLEAN
    /\ expired \in SUBSET Turns
    /\ reaped \in Turns \cup {NoTurn}
    /\ found \in SUBSET Turns
    /\ swept \in SUBSET Turns
    /\ sweeps \in 0..MaxSweeps
    /\ slips \in 0..MaxSlips
    /\ crashes \in 0..MaxCrashes
    /\ outages \in 0..MaxOutages
    /\ stops \in 0..MaxStops
    /\ errors \in 0..MaxErrors

Init ==
    /\ status = [t \in Turns |-> "absent"]
    /\ stale = {}
    /\ published = [t \in Turns |-> {}]
    /\ active = [c \in Chats |-> NoTurn]
    /\ lease = [t \in Turns |-> NoProc]
    /\ msg = [t \in Turns |-> "none"]
    /\ pc = [r \in Runners |-> "idle"]
    /\ job = [r \in Runners |-> NoTurn]
    /\ hb = [r \in Runners |-> "off"]
    /\ out = [r \in Runners |-> "none"]
    /\ stopping = {} /\ lapsed = {}
    /\ hpc = [h \in Handlers |-> "idle"]
    /\ hchat \in [Handlers -> Chats]
    /\ hturn = [h \in Handlers |-> NoTurn]
    /\ listening = TRUE
    /\ expired = {}
    /\ reaped = NoTurn
    /\ found = {} /\ swept = {} /\ sweeps = 0
    /\ slips = 0 /\ crashes = 0 /\ outages = 0
    /\ stops = 0 /\ errors = 0

-----------------------------------------------------------------------------
(* Operations of the table, the keys and the stream.                       *)

IsActive(t) == status[t] \in ActiveStatus

\* mutant: the WHERE clause forgets STARTING
finalize_running_only(t, s) ==
    status' = IF status[t] = "running" THEN [status EXCEPT ![t] = s] ELSE status

\* mutant: the WHERE clause forgets the status
finalize_always(t, s) == status' = [status EXCEPT ![t] = s]

\* TurnService.finalize_once: only the first caller moves the row
finalize_once(t, s) ==
    status' = IF IsActive(t) THEN [status EXCEPT ![t] = s] ELSE status

\* rows that an open transaction has finalised: _finalize_orphan frees the
\* chat before its caller commits, and until then other writers wait
Locked == swept \cup {hturn[h] : h \in {k \in Handlers : hpc[k] = "commit"}}

\* locks.release_active: delete the key if it still names the turn
release_active(t) ==
    active' = IF active[ChatOf[t]] = t
                THEN [active EXCEPT ![ChatOf[t]] = NoTurn]
                ELSE active

\* lease.release: delete the key if the process still holds it
release_lease(t, p) ==
    lease' = IF lease[t] = p THEN [lease EXCEPT ![t] = NoProc] ELSE lease

\* turn_stream.publish of a done or error event
publish_terminal(t, kind) ==
    published' = [published EXCEPT ![t] = @ \cup {kind}]

\* a Redis or database call raises
Error ==
    /\ errors < MaxErrors
    /\ errors' = errors + 1
    /\ UNCHANGED <<slips, crashes, outages, stops>>

\* release_active where an error is only logged: the key is left to its TTL
free_chat(t) ==
    \/ release_active(t) /\ UNCHANGED budget
    \/ Error /\ UNCHANGED active

\* the heartbeat task still sleeps or refreshes
Beating == {"first", "sleep", "lock", "lease"}

\* a live runner of the turn has just set, or is refreshing, the active key
GuardsActive(t) ==
    \E r \in Runners :
        job[r] = t /\ (pc[r] \in {"lease", "skip"} \/ hb[r] \in Beating)

\* a live runner in the holder process is refreshing the lease, or is on its
\* way to give it back
GuardsLease(t) ==
    \E r \in Runners :
        /\ job[r] = t /\ ProcOf[r] = lease[t]
        /\ hb[r] \in Beating \/ pc[r] \in {"crashpub", "unlease"}

\* a runner has refreshed the row's heartbeat_at and goes on doing so
GuardsRow(t) ==
    \E r \in Runners : job[r] = t /\ hb[r] \in Beating \ {"first"}

\* mutant: the heartbeat interval is longer than the TTLs
Slip_unrefreshed(guarded) == UNCHANGED <<slips, crashes, outages, stops, errors>>

\* something that happens by itself, or that needs a stalled process
Slip(guarded) ==
    /\ IF guarded THEN slips < MaxSlips /\ slips' = slips + 1
                  ELSE slips' = slips
    /\ UNCHANGED <<crashes, outages, stops, errors>>

-----------------------------------------------------------------------------
(* A runner: one execution of execute_turn in a worker process.            *)

\* the broker hands the message of a turn to a free worker, an unacknowledged
\* one again and again; the runner reads the row and leaves a terminal one
\* alone, and so does it when the read fails
Deliver(r, t) ==
    /\ pc[r] = "idle" /\ ProcOf[r] \notin stopping
    /\ msg[t] = "sent"
    /\ EarlyRedelivery \/ (t \notin {job[q] : q \in Runners} /\ active[ChatOf[t]] # t)
    /\ \/ /\ pc' = [pc EXCEPT ![r] = IF IsActive(t) THEN "acquire" ELSE "ack"]
          /\ UNCHANGED budget
       \/ Error /\ pc' = [pc EXCEPT ![r] = "ack"]
    /\ job' = [job EXCEPT ![r] = t]
    /\ UNCHANGED <<rowVars, keyVars, msg, hb, out, procVars, webVars, lstVars>>

\* SET turn:active:{chat} NX EX 30
set_active(t) ==
    active' = IF active[ChatOf[t]] = NoTurn
                THEN [active EXCEPT ![ChatOf[t]] = t]
                ELSE active

\* try_acquire_active; an error counts as "not acquired", whether or not
\* Redis applied the command
AcquireActive(r) ==
    /\ pc[r] = "acquire"
    /\ \/ /\ set_active(job[r])
          /\ pc' = [pc EXCEPT ![r] = IF active[ChatOf[job[r]]] = NoTurn
                                       THEN "lease" ELSE "probe"]
          /\ UNCHANGED budget
       \/ /\ Error
          /\ set_active(job[r]) \/ UNCHANGED active
          /\ pc' = [pc EXCEPT ![r] = "probe"]
    /\ UNCHANGED <<rowVars, lease, msg, job, hb, out, procVars, webVars, lstVars>>

\* active_lock_value: own id means REDELIVERY (leave without a trace), all
\* else, an error included, means ACTIVE_BUSY
ProbeActive(r) ==
    /\ pc[r] = "probe"
    /\ \/ /\ active[ChatOf[job[r]]] = job[r]
          /\ pc' = [pc EXCEPT ![r] = "ack"]
          /\ UNCHANGED <<out, budget>>
       \/ /\ \/ active[ChatOf[job[r]]] # job[r] /\ UNCHANGED budget
             \/ Error
          /\ pc' = [pc EXCEPT ![r] = "safety"]
          /\ out' = [out EXCEPT ![r] = "busy"]
    /\ UNCHANGED <<rowVars, keyVars, msg, job, hb, procVars, webVars, lstVars>>

\* SET turn:lease:{turn} NX EX 30
set_lease(t, p) ==
    lease' = IF lease[t] = NoProc THEN [lease EXCEPT ![t] = p] ELSE lease

\* lease.acquire with the process id; on failure, an error included, the
\* runner leaves the turn to the holder it supposes to exist
AcquireLease(r) ==
    /\ pc[r] = "lease"
    /\ \/ /\ lease[job[r]] = NoProc
          /\ set_lease(job[r], ProcOf[r])
          /\ pc' = [pc EXCEPT ![r] = "open"]
          /\ hb' = [hb EXCEPT ![r] = "first"]
          /\ UNCHANGED budget
       \/ /\ \/ lease[job[r]] # NoProc /\ UNCHANGED <<lease, budget>>
             \/ Error /\ (set_lease(job[r], ProcOf[r]) \/ UNCHANGED lease)
          /\ pc' = [pc EXCEPT ![r] = "skip"]
          /\ UNCHANGED hb
    /\ UNCHANGED <<rowVars, active, msg, job, out, procVars, webVars, lstVars>>

\* turn/start is accepted: mark_running, whose result nobody looks at
StartCodex(r) ==
    LET t == job[r]
        first == status[t] = "starting"
    IN  /\ pc[r] = "open" /\ t \notin Locked
        /\ pc' = [pc EXCEPT ![r] = "stream"]
        /\ status' = IF first THEN [status EXCEPT ![t] = "running"] ELSE status
        /\ stale' = IF first THEN stale \ {t} ELSE stale
        /\ hb' = IF first /\ hb[r] = "first" THEN [hb EXCEPT ![r] = "sleep"] ELSE hb
        /\ UNCHANGED <<published, keyVars, msg, job, out, procVars, webVars, lstVars, budget>>

\* mutant: the ownership check guards the publication only
TerminalEvent_unpublished(r, kind) ==
    /\ pc[r] = "stream"
    /\ IF hb[r] = "lost" THEN UNCHANGED published ELSE publish_terminal(job[r], kind)
    /\ out' = [out EXCEPT ![r] = kind]
    /\ pc' = [pc EXCEPT ![r] = "ended"]
    /\ UNCHANGED <<status, stale, keyVars, msg, job, hb, procVars, webVars, lstVars, budget>>

\* stream_turn yields its last event and the runner still owns the turn
TerminalEvent(r, kind) ==
    /\ pc[r] = "stream" \/ (pc[r] = "open" /\ kind = "error")
    /\ hb[r] # "lost"
    /\ publish_terminal(job[r], kind)
    /\ out' = [out EXCEPT ![r] = kind]
    /\ pc' = [pc EXCEPT ![r] = "ended"]
    /\ UNCHANGED <<status, stale, keyVars, msg, job, hb, procVars, webVars, lstVars, budget>>

\* stream_turn yields any event after ownership_lost was set
LoseOwnership(r) ==
    /\ pc[r] \in {"open", "stream"} /\ hb[r] = "lost"
    /\ out' = [out EXCEPT ![r] = "lost"]
    /\ pc' = [pc EXCEPT ![r] = "ended"]
    /\ UNCHANGED <<rowVars, keyVars, msg, job, hb, procVars, webVars, lstVars, budget>>

\* open_codex_turn, publish, update_last_event or the closing of the Codex
\* client raises, the last two also when a terminal event is out already
Exception(r) ==
    /\ pc[r] \in {"open", "stream", "ended"}
    /\ out[r] \notin {"cancelled", "exception"}
    /\ out' = [out EXCEPT ![r] = "exception"]
    /\ pc' = [pc EXCEPT ![r] = "ended"]
    /\ UNCHANGED <<rowVars, keyVars, msg, job, hb, procVars, webVars, lstVars, budget>>

\* the stopping worker cancels the task, once: while it still reads the row,
\* while it waits for the active key or the lease, whose SET may be on its
\* way, or inside hold_turn_locks
Cancel(r) ==
    /\ ProcOf[r] \in stopping /\ out[r] # "cancelled"
    /\ \/ pc[r] = "acquire" /\ pc' = [pc EXCEPT ![r] = "ack"] /\ UNCHANGED keyVars
       \/ /\ pc[r] \in {"acquire", "probe"}
          /\ UNCHANGED active \/ (pc[r] = "acquire" /\ set_active(job[r]))
          /\ pc' = [pc EXCEPT ![r] = "finalize"]
          /\ UNCHANGED lease
       \/ /\ pc[r] \in {"lease", "open", "stream", "ended"}
          /\ UNCHANGED lease \/ (pc[r] = "lease" /\ set_lease(job[r], ProcOf[r]))
          /\ pc' = [pc EXCEPT ![r] = "ended"]
          /\ UNCHANGED active
    /\ out' = [out EXCEPT ![r] = "cancelled"]
    /\ UNCHANGED <<rowVars, msg, job, hb, procVars, webVars, lstVars, budget>>

\* ... or at an await of the clean-up, whose command may be on its way: on
\* leaving hold_turn_locks, in the except clause, or in the finally clause,
\* the rest of which is then lost
CancelCleanup(r) ==
    /\ ProcOf[r] \in stopping /\ out[r] # "cancelled"
    /\ \/ /\ pc[r] \in {"skip", "ended"}
          /\ release_active(job[r]) \/ UNCHANGED active
          /\ pc' = [pc EXCEPT ![r] = IF pc[r] = "skip" THEN "ack" ELSE "unlease"]
          /\ out' = IF pc[r] = "skip" THEN out ELSE [out EXCEPT ![r] = "cancelled"]
          /\ UNCHANGED <<lease, published, hb>>
       \/ /\ pc[r] \in {"crashpub", "safety"}
          /\ publish_terminal(job[r], "error") \/ UNCHANGED published
          /\ pc' = [pc EXCEPT ![r] = IF pc[r] = "crashpub" THEN "unlease" ELSE "ack"]
          /\ out' = IF pc[r] = "crashpub" THEN [out EXCEPT ![r] = "mute"] ELSE out
          /\ UNCHANGED <<keyVars, hb>>
       \/ /\ pc[r] = "unlease"
          /\ release_lease(job[r], ProcOf[r]) \/ UNCHANGED lease
          /\ hb' = [hb EXCEPT ![r] = "off"]
          /\ pc' = [pc EXCEPT ![r] = "ack"]
          /\ UNCHANGED <<active, published, out>>
       \/ /\ pc[r] = "finalize" /\ pc' = [pc EXCEPT ![r] = "ack"]
          /\ UNCHANGED <<keyVars, published, hb, out>>
    /\ UNCHANGED <<status, stale, msg, job, procVars, webVars, lstVars, budget>>

\* hold_turn_locks exits, before the except and finally clauses run; without
\* a heartbeat task there is no lease to give back
ReleaseActive(r) ==
    /\ pc[r] \in {"ended", "skip"}
    /\ free_chat(job[r])
    /\ pc' = [pc EXCEPT ![r] = IF pc[r] = "skip" THEN "ack"
                               ELSE IF hb[r] = "off" THEN "finalize"
                               ELSE IF out[r] = "exception" THEN "crashpub"
                               ELSE "unlease"]
    /\ UNCHANGED <<rowVars, lease, msg, job, hb, out, procVars, webVars, lstVars>>

\* except Exception: tell the stream; if that fails too, the finally clause
\* tries once more
PublishCrash(r) ==
    /\ pc[r] = "crashpub"
    /\ \/ publish_terminal(job[r], "error") /\ UNCHANGED <<out, budget>>
       \/ Error /\ out' = [out EXCEPT ![r] = "mute"] /\ UNCHANGED published
    /\ pc' = [pc EXCEPT ![r] = "unlease"]
    /\ UNCHANGED <<status, stale, keyVars, msg, job, hb, procVars, webVars, lstVars>>

\* finally: stop the heartbeat, give the lease back
ReleaseLease(r) ==
    /\ pc[r] = "unlease"
    /\ \/ release_lease(job[r], ProcOf[r]) /\ UNCHANGED budget
       \/ Error /\ UNCHANGED lease
    /\ hb' = [hb EXCEPT ![r] = "off"]
    /\ pc' = [pc EXCEPT ![r] = IF out[r] \in {"lost", "mute"} THEN "safety" ELSE "finalize"]
    /\ UNCHANGED <<rowVars, active, msg, job, out, procVars, webVars, lstVars>>

\* no terminal event was published yet: try to publish one
PublishSafety(r) ==
    /\ pc[r] = "safety"
    /\ \/ publish_terminal(job[r], "error") /\ UNCHANGED budget
       \/ Error /\ UNCHANGED published
    /\ pc' = [pc EXCEPT ![r] = "finalize"]
    /\ UNCHANGED <<status, stale, keyVars, msg, job, hb, out, procVars, webVars, lstVars>>

\* mutant: the outcome goes to the row as it is
StatusOf_raw(o) == IF o = "done" THEN "completed" ELSE o

\* terminal_status of a runner's outcome
StatusOf(o) ==
    IF o = "done" THEN "completed" ELSE IF o = "cancelled" THEN "cancelled" ELSE "failed"

\* finalize_once in the finally clause; a database error leaves the row
Finalize(r) ==
    /\ pc[r] = "finalize" /\ job[r] \notin Locked
    /\ \/ finalize_once(job[r], StatusOf(out[r])) /\ UNCHANGED budget
       \/ Error /\ UNCHANGED status
    /\ pc' = [pc EXCEPT ![r] = "ack"]
    /\ UNCHANGED <<stale, published, keyVars, msg, job, hb, out, procVars, webVars, lstVars>>

\* a live row whose runner, should it go now, nobody would miss
Unwatched(t) == IsActive(t) /\ lease[t] = NoProc

\* execute_turn has returned or raised: the broker acknowledges (when_executed)
Ack(r) ==
    /\ pc[r] = "ack"
    /\ msg' = [msg EXCEPT ![job[r]] = "acked"]
    /\ pc' = [pc EXCEPT ![r] = "idle"]
    /\ job' = [job EXCEPT ![r] = NoTurn]
    /\ out' = [out EXCEPT ![r] = "none"]
    /\ lapsed' = IF out[r] # "none" /\ Unwatched(job[r])
                   THEN lapsed \cup {job[r]} ELSE lapsed
    /\ UNCHANGED <<rowVars, keyVars, hb, stopping, webVars, lstVars, budget>>

-----------------------------------------------------------------------------
(* heartbeat_loop of a runner: row, active key, lease, then sleep again.   *)

HeartbeatRow(r) ==
    /\ hb[r] \in {"first", "sleep"} /\ job[r] \notin Locked
    /\ IF IsActive(job[r])
         THEN /\ stale' = stale \ {job[r]}
              /\ hb' = [hb EXCEPT ![r] = "lock"]
         ELSE /\ hb' = [hb EXCEPT ![r] = "lost"]
              /\ UNCHANGED stale
    /\ UNCHANGED <<status, published, keyVars, msg, pc, job, out, procVars, webVars, lstVars, budget>>

\* a database error ends the task; nobody sets ownership_lost
HeartbeatDies(r) ==
    /\ hb[r] \in {"first", "sleep"}
    /\ Error
    /\ hb' = [hb EXCEPT ![r] = "dead"]
    /\ UNCHANGED <<rowVars, keyVars, msg, pc, job, out, procVars, webVars, lstVars>>

HeartbeatActive(r) ==
    /\ hb[r] = "lock"
    /\ \/ /\ active[ChatOf[job[r]]] = job[r]
          /\ hb' = [hb EXCEPT ![r] = "lease"]
          /\ UNCHANGED budget
       \/ /\ \/ active[ChatOf[job[r]]] # job[r] /\ UNCHANGED budget
             \/ Error
          /\ hb' = [hb EXCEPT ![r] = "lost"]
    /\ UNCHANGED <<rowVars, keyVars, msg, pc, job, out, procVars, webVars, lstVars>>

HeartbeatLease(r) ==
    /\ hb[r] = "lease"
    /\ \/ /\ lease[job[r]] = ProcOf[r]
          /\ hb' = [hb EXCEPT ![r] = "sleep"]
          /\ UNCHANGED budget
       \/ /\ \/ lease[job[r]] # ProcOf[r] /\ UNCHANGED budget
             \/ Error
          /\ hb' = [hb EXCEPT ![r] = "lost"]
    /\ UNCHANGED <<rowVars, keyVars, msg, pc, job, out, procVars, webVars, lstVars>>

-----------------------------------------------------------------------------
(* Worker processes and the passage of time.                               *)

RunnersOf(p) == {r \in Runners : ProcOf[r] = p}

\* every runner of the process is gone; keys, row and message stay behind
Vanish(p) ==
    /\ pc' = [r \in Runners |-> IF ProcOf[r] = p THEN "idle" ELSE pc[r]]
    /\ job' = [r \in Runners |-> IF ProcOf[r] = p THEN NoTurn ELSE job[r]]
    /\ hb' = [r \in Runners |-> IF ProcOf[r] = p THEN "off" ELSE hb[r]]
    /\ out' = [r \in Runners |-> IF ProcOf[r] = p THEN "none" ELSE out[r]]
    /\ lease' = [t \in Turns |-> IF lease[t] = p THEN DeadProc ELSE lease[t]]
    /\ lapsed' = lapsed \cup {t \in Turns : Unwatched(t) /\ \E r \in RunnersOf(p) :
                                job[r] = t /\ pc[r] \notin {"acquire", "probe", "skip"}}

\* SIGKILL, OOM, autoheal restart
Crash(p) ==
    /\ crashes < MaxCrashes /\ crashes' = crashes + 1
    /\ \E r \in RunnersOf(p) : pc[r] # "idle"
    /\ Vanish(p)
    /\ UNCHANGED <<rowVars, active, msg, stopping, webVars, lstVars, slips, outages, stops, errors>>

\* WORKER_SHUTDOWN: release_all_local gives back every lease of the process
Shutdown(p) ==
    /\ stops < MaxStops /\ stops' = stops + 1
    /\ p \notin stopping
    /\ \E r \in RunnersOf(p) : pc[r] # "idle"
    /\ stopping' = stopping \cup {p}
    /\ lease' = [t \in Turns |-> IF lease[t] = p THEN NoProc ELSE lease[t]]
    /\ UNCHANGED <<rowVars, active, msg, runVars, lapsed, webVars, lstVars, slips, crashes, outages, errors>>

\* the stopped process is killed, drained or not, and replaced
Restart(p) ==
    /\ p \in stopping
    /\ stopping' = stopping \ {p}
    /\ Vanish(p)
    /\ UNCHANGED <<rowVars, active, msg, webVars, lstVars, budget>>

\* the 30 s TTL of turn:active:{chat} runs out
ExpireActive(c) ==
    /\ active[c] # NoTurn
    /\ Slip(GuardsActive(active[c]))
    /\ active' = [active EXCEPT ![c] = NoTurn]
    /\ UNCHANGED <<rowVars, lease, msg, runVars, procVars, webVars, lstVars>>

\* the 30 s TTL of turn:lease:{turn} runs out; Redis tells the subscriber
ExpireLease(t) ==
    /\ lease[t] # NoProc
    /\ Slip(GuardsLease(t))
    /\ lease' = [lease EXCEPT ![t] = NoProc]
    /\ expired' = IF listening THEN expired \cup {t} ELSE expired
    /\ UNCHANGED <<rowVars, active, msg, runVars, procVars, webVars, listening, reaped,
                   found, swept, sweeps>>

\* heartbeat_at becomes older than two minutes
HeartbeatAges(t) ==
    /\ IsActive(t) /\ t \notin stale
    /\ Slip(GuardsRow(t))
    /\ stale' = stale \cup {t}
    /\ UNCHANGED <<status, published, keyVars, msg, runVars, procVars, webVars, lstVars>>

-----------------------------------------------------------------------------
(* Recovery.                                                               *)

\* mutant: recovery looks for RUNNING rows only
LeaseExpired_running_only(t) ==
    /\ reaped = NoTurn /\ t \in expired \ Locked
    /\ expired' = expired \ {t}
    /\ finalize_running_only(t, "failed")
    /\ reaped' = IF status[t] = "running" THEN t ELSE NoTurn
    /\ UNCHANGED <<stale, published, keyVars, msg, runVars, procVars, webVars, listening,
                   found, swept, sweeps, budget>>

\* _finalize_lease_expired up to the commit; the lease itself is not read, and
\* a database error uses the event up
LeaseExpired(t) ==
    /\ reaped = NoTurn /\ t \in expired \ Locked
    /\ expired' = expired \ {t}
    /\ \/ /\ finalize_once(t, "failed")
          /\ reaped' = IF IsActive(t) THEN t ELSE NoTurn
          /\ UNCHANGED budget
       \/ Error /\ UNCHANGED <<status, reaped>>
    /\ UNCHANGED <<stale, published, keyVars, msg, runVars, procVars, webVars, listening,
                   found, swept, sweeps>>

\* _finalize_lease_expired after the commit
LeaseExpiredUnlock ==
    /\ reaped # NoTurn
    /\ free_chat(reaped)
    /\ reaped' = NoTurn
    /\ UNCHANGED <<rowVars, lease, msg, runVars, procVars, webVars, listening, expired,
                   found, swept, sweeps>>

\* the leading gunicorn process goes away with its subscription
ListenerDown ==
    /\ outages < MaxOutages /\ outages' = outages + 1
    /\ listening
    /\ listening' = FALSE /\ expired' = {} /\ reaped' = NoTurn
    /\ UNCHANGED <<rowVars, keyVars, msg, runVars, procVars, webVars, found, swept, sweeps>>
    /\ UNCHANGED <<slips, crashes, stops, errors>>

\* another one acquires the leader lock and subscribes
ListenerUp ==
    /\ ~listening
    /\ listening' = TRUE
    /\ UNCHANGED <<rowVars, keyVars, msg, runVars, procVars, webVars, expired, reaped,
                   found, swept, sweeps, budget>>

StaleTurns == {t \in Turns : IsActive(t) /\ t \in stale}

\* reconcile_stale_turns of a starting API process: find_stale_active
reconcile_stale_turns ==
    /\ sweeps < MaxSweeps /\ sweeps' = sweeps + 1
    /\ found = {} /\ swept = {} /\ StaleTurns # {}
    /\ found' = StaleTurns
    /\ UNCHANGED <<rowVars, keyVars, msg, runVars, procVars, webVars, listening, expired,
                   reaped, swept, budget>>

\* _finalize_orphan of one row that was found: UPDATE, not committed, and
\* the chat is free
SweepOrphan(t) ==
    /\ t \in found \ Locked
    /\ found' = found \ {t}
    /\ swept' = IF IsActive(t) THEN swept \cup {t} ELSE swept
    /\ free_chat(t)
    /\ UNCHANGED <<rowVars, lease, msg, runVars, procVars, webVars, listening, expired,
                   reaped, sweeps>>

SweepCommit ==
    /\ found = {} /\ swept # {}
    /\ status' = [t \in Turns |-> IF t \in swept /\ IsActive(t) THEN "failed" ELSE status[t]]
    /\ swept' = {}
    /\ UNCHANGED <<stale, published, keyVars, msg, runVars, procVars, webVars, listening,
                   expired, reaped, found, sweeps, budget>>

\* the process or its connection fails: the rows roll back, the keys do not
SweepFails ==
    /\ found # {} \/ swept # {}
    /\ Error
    /\ found' = {} /\ swept' = {}
    /\ UNCHANGED <<rowVars, keyVars, msg, runVars, procVars, webVars, listening, expired, reaped, sweeps>>

-----------------------------------------------------------------------------
(* RunTurn and the control RPCs in gunicorn.                               *)

ActiveTurns(c) == {t \in Turns : ChatOf[t] = c /\ IsActive(t)}

\* the handler answers, or its client hangs up and the request is cancelled
Reply(h) ==
    /\ hpc' = [hpc EXCEPT ![h] = "idle"]
    /\ hturn' = [hturn EXCEPT ![h] = NoTurn]
    /\ UNCHANGED hchat

Goto(h, step) ==
    /\ hpc' = [hpc EXCEPT ![h] = step]
    /\ UNCHANGED <<hchat, hturn>>

\* get_active_for_chat and the age of what it read; codex_turn_id is set
\* exactly when the row is RUNNING, and a STARTING row means TURN_BUSY
RunTurn(h, c) ==
    /\ hpc[h] = "idle"
    /\ \/ /\ ActiveTurns(c) = {}
          /\ hpc' = [hpc EXCEPT ![h] = "create"]
          /\ UNCHANGED hturn
       \/ \E t \in ActiveTurns(c) :
             /\ t \in stale \/ status[t] = "running"
             /\ hpc' = [hpc EXCEPT ![h] = IF t \in stale THEN "orphan" ELSE "zombie"]
             /\ hturn' = [hturn EXCEPT ![h] = t]
    /\ hchat' = [hchat EXCEPT ![h] = c]
    /\ UNCHANGED <<rowVars, keyVars, msg, runVars, procVars, lstVars, budget>>

\* reconcile_if_stale: judged by the heartbeat_at that was read before;
\* _finalize_orphan updates the row and frees the chat, then comes the commit
ReconcileStale(h) ==
    /\ hpc[h] = "orphan" /\ hturn[h] \notin Locked
    /\ free_chat(hturn[h])
    /\ Goto(h, IF IsActive(hturn[h]) THEN "commit" ELSE "create")
    /\ UNCHANGED <<rowVars, lease, msg, runVars, procVars, lstVars>>

CommitOrphan(h) ==
    /\ hpc[h] = "commit"
    /\ finalize_once(hturn[h], "failed")
    /\ Goto(h, "create")
    /\ UNCHANGED <<stale, published, keyVars, msg, runVars, procVars, lstVars, budget>>

\* lease.exists of a row that has a codex_turn_id; an error reads as "no"
ZombieCheck(h) ==
    /\ hpc[h] = "zombie"
    /\ \/ lease[hturn[h]] # NoProc /\ Goto(h, "control") /\ UNCHANGED budget
       \/ lease[hturn[h]] = NoProc /\ Goto(h, "reap") /\ UNCHANGED budget
       \/ Error /\ Goto(h, "reap")
    /\ UNCHANGED <<rowVars, keyVars, msg, runVars, procVars, lstVars>>

\* no lease: finalise the row, then free the chat
ReapZombie(h) ==
    /\ hpc[h] = "reap" /\ hturn[h] \notin Locked
    /\ finalize_once(hturn[h], "failed")
    /\ Goto(h, "unlock")
    /\ UNCHANGED <<stale, published, keyVars, msg, runVars, procVars, lstVars, budget>>

UnlockZombie(h) ==
    /\ hpc[h] = "unlock"
    /\ free_chat(hturn[h])
    /\ Goto(h, "create")
    /\ UNCHANGED <<rowVars, lease, msg, runVars, procVars, lstVars>>

\* the running turn was interrupted for the new one
Interrupted(h) ==
    /\ hpc[h] = "control"
    /\ Goto(h, "create")
    /\ UNCHANGED <<rowVars, keyVars, msg, runVars, procVars, lstVars, budget>>

\* SteerTurn and InterruptTurn
ControlTurn(h, c) ==
    /\ hpc[h] = "idle"
    /\ \E t \in ActiveTurns(c) :
          /\ status[t] = "running"
          /\ hturn' = [hturn EXCEPT ![h] = t]
    /\ hpc' = [hpc EXCEPT ![h] = "rpc"]
    /\ hchat' = [hchat EXCEPT ![h] = c]
    /\ UNCHANGED <<rowVars, keyVars, msg, runVars, procVars, lstVars, budget>>

\* the sidecar runs another turn: _handle_stale_turn, the active key stays
StaleSidecar(h) ==
    /\ hpc[h] \in {"control", "rpc"} /\ hturn[h] \notin Locked
    /\ finalize_once(hturn[h], "failed")
    /\ Reply(h)
    /\ UNCHANGED <<stale, published, keyVars, msg, runVars, procVars, lstVars, budget>>

\* _create_web_turn: INSERT under the partial unique index; ids run out at
\* the bound of the model
CreateTurn(h) ==
    /\ hpc[h] = "create"
    /\ ActiveTurns(hchat[h]) = {}
    /\ \E t \in Turns :
          /\ ChatOf[t] = hchat[h] /\ status[t] = "absent"
          /\ status' = [status EXCEPT ![t] = "starting"]
          /\ stale' = stale \ {t}
          /\ hturn' = [hturn EXCEPT ![h] = t]
    /\ hpc' = [hpc EXCEPT ![h] = "enqueue"]
    /\ UNCHANGED <<published, keyVars, msg, runVars, procVars, hchat, lstVars, budget>>

\* kiq succeeds; the handler goes on to tail the stream
Enqueue(h) ==
    /\ hpc[h] = "enqueue"
    /\ msg' = [msg EXCEPT ![hturn[h]] = "sent"]
    /\ Reply(h)
    /\ UNCHANGED <<rowVars, keyVars, runVars, procVars, lstVars, budget>>

\* kiq raises, with or without the message written: finalise the row
EnqueueFails(h) ==
    /\ hpc[h] = "enqueue" /\ hturn[h] \notin Locked
    /\ Error
    /\ msg' \in {msg, [msg EXCEPT ![hturn[h]] = "sent"]}
    /\ finalize_once(hturn[h], "failed")
    /\ Reply(h)
    /\ UNCHANGED <<stale, published, keyVars, runVars, procVars, lstVars>>

\* TURN_BUSY, steered, a lost create race, or the client is gone: a request
\* can end at any await; before the commit of _finalize_orphan that leaves a
\* live row without its key, and counts as an error
EndRequest(h) ==
    /\ hpc[h] # "idle"
    /\ IF hpc[h] = "commit" THEN Error ELSE UNCHANGED budget
    /\ Reply(h)
    /\ UNCHANGED <<rowVars, keyVars, msg, runVars, procVars, lstVars>>

-----------------------------------------------------------------------------
RunnerStep(r) ==
    \/ AcquireActive(r) \/ ProbeActive(r) \/ AcquireLease(r)
    \/ StartCodex(r) \/ LoseOwnership(r) \/ Exception(r)
    \/ \E kind \in {"done", "error"} : TerminalEvent(r, kind)
    \/ ReleaseActive(r) \/ PublishCrash(r) \/ ReleaseLease(r)
    \/ PublishSafety(r) \/ Finalize(r) \/ Ack(r)

HeartbeatStep(r) ==
    HeartbeatRow(r) \/ HeartbeatActive(r) \/ HeartbeatLease(r)

ProcessStep(p) == Crash(p) \/ Shutdown(p) \/ Restart(p)

HandlerStep(h) ==
    \/ ReconcileStale(h) \/ CommitOrphan(h) \/ ZombieCheck(h) \/ ReapZombie(h) \/ UnlockZombie(h)
    \/ Interrupted(h) \/ StaleSidecar(h)
    \/ CreateTurn(h) \/ Enqueue(h) \/ EnqueueFails(h) \/ EndRequest(h)
    \/ \E c \in Chats : RunTurn(h, c) \/ ControlTurn(h, c)

ListenerStep ==
    \/ \E t \in Turns : LeaseExpired(t)
    \/ LeaseExpiredUnlock \/ ListenerDown \/ ListenerUp

SweepStep ==
    \/ reconcile_stale_turns \/ SweepCommit \/ SweepFails
    \/ \E t \in Turns : SweepOrphan(t)

Next ==
    \/ \E r \in Runners :
          \/ RunnerStep(r) \/ HeartbeatStep(r) \/ HeartbeatDies(r)
          \/ Cancel(r) \/ CancelCleanup(r)
          \/ \E t \in Turns : Deliver(r, t)
    \/ \E p \in Procs : ProcessStep(p)
    \/ \E h \in Handlers : HandlerStep(h)
    \/ ListenerStep \/ SweepStep
    \/ \E c \in Chats : ExpireActive(c)
    \/ \E t \in Turns : ExpireLease(t) \/ HeartbeatAges(t)

Spec == Init /\ [][Next]_vars

-----------------------------------------------------------------------------
(* Properties.                                                             *)

\* the runner is between the acquisition of both keys and the teardown
Executing(r) == pc[r] \in {"open", "stream"}

\* a live row that no open transaction is about to finalise
Owned(t) == IsActive(t) /\ t \notin Locked

\* a runner that has no reason to think that it lost the turn
Healthy(r) ==
    Executing(r) /\ hb[r] \in Beating /\ Owned(job[r]) /\ ProcOf[r] \notin stopping

\* no process stalled longer than a TTL, no store failed, no worker was asked
\* to stop; crashes, listener outages and redeliveries may have happened
Clean == slips = 0 /\ errors = 0 /\ stops = 0

(***************************************************************************)
(* A runner in the middle of a turn that nobody finalised holds both keys  *)
(* of the turn, whatever redelivered runners, crashed predecessors,        *)
(* reaping handlers, the sweep and the listener do.  (After a shutdown or  *)
(* an error it need not: a predecessor of the same turn deletes            *)
(* turn:active:{chat}, whose value names the turn and not the runner.)     *)
(***************************************************************************)
OwnerHoldsKeys ==
    Clean => \A r \in Runners : Healthy(r) =>
        /\ active[ChatOf[job[r]]] = job[r]
        /\ lease[job[r]] = ProcOf[r]

(***************************************************************************)
(* At-least-once delivery never has two runners execute live turns of one  *)
(* chat, not even two runners of one process, whose lease value is equal.  *)
(***************************************************************************)
ExclusiveExecution ==
    Clean => \A r, q \in Runners :
        Healthy(r) /\ Healthy(q) /\ ChatOf[job[r]] = ChatOf[job[q]] => r = q

(***************************************************************************)
(* Whatever fails, stalls or is delivered twice: a row is COMPLETED only   *)
(* after a "done" event went to its stream, so that a client that tails    *)
(* from any point finds it.                                                *)
(***************************************************************************)
CompletedWasPublished ==
    \A t \in Turns : status[t] = "completed" => "done" \in published[t]

\* The refinement mapping: the status column, every other variable hidden.
Table == INSTANCE TurnTable WITH Turns <- Turns, Chats <- Chats, ChatOf <- ChatOf,
                                 status <- status

(***************************************************************************)
(* The runtime implements the lifecycle of the turns table: rows are born  *)
(* under the partial unique index, move forward only, and a terminal row   *)
(* is never written again although six different actors finalise rows.     *)
(***************************************************************************)
TableSpec == Table!Spec

-----------------------------------------------------------------------------
(* Liveness.  A runner always gets on: the hard timeout of the Codex       *)
(* session ends every stream.  The broker delivers, unattended keys        *)
(* expire, the listener handles its events, a stopped process is replaced. *)
(* Nothing is assumed of the users, of crashes or of the startup sweep.    *)

KeysExpire ==
    /\ \A c \in Chats : WF_vars(ExpireActive(c))
    /\ \A t \in Turns : WF_vars(ExpireLease(t))

Fairness ==
    /\ \A r \in Runners : WF_vars(RunnerStep(r)) /\ WF_vars(HeartbeatStep(r))
    /\ \A t \in Turns : WF_vars(\E r \in Runners : Deliver(r, t))
    /\ \A p \in Procs : WF_vars(Restart(p))
    /\ \A t \in Turns : WF_vars(LeaseExpired(t))
    /\ WF_vars(LeaseExpiredUnlock)
    /\ \A h \in Handlers : WF_vars(CommitOrphan(h))
    /\ WF_vars(SweepCommit \/ \E t \in Turns : SweepOrphan(t))
    /\ WF_vars(ListenerUp)
    /\ KeysExpire

FairSpec == Spec /\ Fairness

(***************************************************************************)
(* A turn whose task reached the broker is finalised, although its worker  *)
(* may die at any await or be shut down and the message may be delivered   *)
(* again while it runs: replayed by redelivery, or failed by the listener  *)
(* when a redelivery was skipped in favour of a dead holder.  Both are     *)
(* gone, and the row waits for the next RunTurn, when the message is       *)
(* acknowledged and the runner left the row without a lease: it died       *)
(* between its two SETs, after lease.release but before finalize_once, or  *)
(* after the graceful DEL of worker.py:89, or it was cancelled there.      *)
(***************************************************************************)
EnqueuedTurnSettles ==
    \A t \in Turns : msg[t] = "sent" ~>
        status[t] \in TerminalStatus \/ (msg[t] = "acked" /\ t \in lapsed)

\* Without that exception: what the comment at worker.py:86-88 hopes for.
EveryTurnSettles ==
    \A t \in Turns : msg[t] = "sent" ~> status[t] \in TerminalStatus

-----------------------------------------------------------------------------
(* What comments of the code say, and the code does not keep.              *)

(***************************************************************************)
(* "Lease missing -> worker is dead": when RunTurn takes the zombie branch *)
(* no live runner is at work on the turn.                                  *)
(***************************************************************************)
LeaseMissingMeansDead ==
    \A h \in Handlers : hpc[h] = "reap" /\ IsActive(hturn[h]) =>
        \A r \in Runners : job[r] # hturn[h]

(***************************************************************************)
(* Two minutes without a heartbeat are "an orphan for certain, not a false *)
(* positive": a turn judged stale has no runner that executes it.          *)
(***************************************************************************)
StaleMeansOrphan ==
    \A h \in Handlers : hpc[h] = "orphan" => \A r \in Runners :
        job[r] = hturn[h] => ~Healthy(r)
=============================================================================
