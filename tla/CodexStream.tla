---------------------------- MODULE CodexStream ----------------------------
(***************************************************************************)
(* One turn on the WebSocket to the Codex sidecar: the reader task of      *)
(* AppServerClient fills a bounded queue of notifications, run_turn drains *)
(* it under an idle deadline, and the idle policy decides between waiting, *)
(* asking the sidecar and giving up.  The sidecar itself is external: it   *)
(* sends what it likes, answers when it likes, or not at all.              *)
(*                                                                         *)
(* Durations are counted in abstract ticks.  A tick may fall between any   *)
(* two steps, so a timer and a message may be ready together.              *)
(***************************************************************************)
EXTENDS Naturals, Sequences

CONSTANTS
    QueueMax,       \* CODEX_NOTIFICATION_QUEUE_MAX_*
    StormThreshold, \* CODEX_STALE_STORM_THRESHOLD
    IdleS,          \* WEB_TURN_TIMEOUT_SECONDS
    HardCap,        \* CODEX_TURN_HARD_TIMEOUT_S
    ProbeInterval,  \* CODEX_IDLE_PROBE_INTERVAL_S
    ReqTimeout,     \* CODEX_REQUEST_TIMEOUT_SECONDS
    Chatter         \* notes of the session that are not the turn's own

OwnNotes == {"delta", "start", "stop", "done", "failed"}
OtherNotes ==
    {"old",         \* a note labelled with the id of another turn
     "olddone",     \* turn/completed of another turn, without a turnId
     "noise",       \* unlabelled, neither item/* nor turn/completed
     "quota",       \* account/rateLimits/updated
     "usage"}       \* thread/tokenUsage/updated

ASSUME StreamConstants ==
    /\ QueueMax \in Nat \ {0}
    /\ StormThreshold \in Nat \ {0}
    /\ IdleS \in Nat \ {0} /\ HardCap \in Nat \ {0}
    /\ ProbeInterval \in Nat \ {0} /\ ReqTimeout \in Nat \ {0}
    /\ Chatter \subseteq OtherNotes

VARIABLES
    side,       \* what the sidecar makes of the turn
    conn,       \* the socket: up, down (the reader died), closed
    queue,      \* AppServerClient._notifications; "wake" is the None sentinel
    gen,        \* the notifications() generator the consumer iterates
    pc,         \* the consumer's await
    turnId,     \* _current_turn_id is set
    idle,       \* ticks left to _idle_deadline
    age,        \* ticks since _turn_started_at, up to HardCap
    probed,     \* ticks since _last_idle_probe_at, up to ProbeInterval
    req,        \* ticks left to the pending request's timeout
    items,      \* has_active_items()
    raw,        \* raw_count > 0
    stales,     \* stale_raw_count, up to StormThreshold
    steer,      \* the steer mark of this turn is in Redis
    outcome,    \* how stream_turn ends the turn
    told,       \* turn/interrupt has been sent
    faulty      \* history: a request was lost or refused, the sidecar did
                \* not know the turn, or Redis failed

vars == <<side, conn, queue, gen, pc, turnId, idle, age, probed, req,
          items, raw, stales, steer, outcome, told, faulty>>
clocks == <<idle, age, probed, req>>
diagnostics == <<items, raw, stales>>
peer == <<side, conn, queue, steer>>

Ended == {"completed", "failed", "interrupted"}
Requests == {"starting", "reading", "probing", "idle_interrupt", "interrupt"}
Awaits == Requests \cup {"started", "loop", "waiting", "yielded", "idling", "end",
                      "closed"}
Outcomes == {"none", "done", "error", "timeout", "dropped", "storm",
             "cancelled", "exception",
             "left"}        \* closed at a yield: GeneratorExit

\* Every variable has the type its comment gives.
TypeOK ==
    /\ side \in {"none", "inProgress"} \cup Ended
    /\ conn \in {"up", "down", "closed"}
    /\ queue \in Seq(OwnNotes \cup OtherNotes \cup {"wake"})
    /\ Len(queue) <= QueueMax
    /\ gen \in {"open", "closed"}
    /\ pc \in Awaits
    /\ turnId \in BOOLEAN
    /\ idle \in 0..IdleS /\ age \in 0..HardCap
    /\ probed \in 0..ProbeInterval /\ req \in 0..ReqTimeout
    /\ items \in BOOLEAN /\ raw \in BOOLEAN
    /\ stales \in 0..StormThreshold
    /\ steer \in BOOLEAN
    /\ outcome \in Outcomes
    /\ told \in BOOLEAN /\ faulty \in BOOLEAN

\* open_codex_turn has connected; run_turn has sent turn/start.
Init ==
    /\ side = "none" /\ conn = "up" /\ queue = <<>> /\ gen = "open"
    /\ pc = "starting" /\ turnId = FALSE
    /\ idle = IdleS /\ age = 0 /\ probed = ProbeInterval /\ req = ReqTimeout
    /\ items = FALSE /\ raw = FALSE /\ stales = 0
    /\ steer = FALSE /\ outcome = "none" /\ told = FALSE /\ faulty = FALSE

-----------------------------------------------------------------------------
(* The socket's reader and the queue                                       *)

\* mutant: the queue has no maxsize.
_enqueue_notification_unbounded(q, note) == Append(q, note)

\* put_nowait on a full queue raises QueueFull: the arriving note is lost.
_enqueue_notification(q, note) ==
    IF Len(q) < QueueMax THEN Append(q, note) ELSE q

\* mutant: the sentinel too is lost on a full queue.
_wake_notifications_lossy(q) ==
    IF Len(q) < QueueMax THEN Append(q, "wake") ELSE q

\* The sentinel always gets in, at the cost of the oldest note.
_wake_notifications(q) ==
    IF Len(q) < QueueMax THEN Append(q, "wake") ELSE Append(Tail(q), "wake")

\* The reader task ends for any reason: wake the consumer, fail what pends
\* (the pending request sees conn # "up").
ReaderDies ==
    /\ conn = "up"
    /\ conn' = "down"
    /\ queue' = _wake_notifications(queue)
    /\ UNCHANGED <<side, gen, pc, turnId, clocks, diagnostics, steer, outcome,
                   told, faulty>>

-----------------------------------------------------------------------------
(* The sidecar and the rest of the world                                   *)

\* The sidecar takes the turn up; its answer to turn/start may still be lost.
SideStarts ==
    /\ pc = "starting" /\ conn = "up" /\ side = "none"
    /\ side' = "inProgress"
    /\ UNCHANGED <<conn, queue, gen, pc, turnId, clocks, diagnostics, steer,
                   outcome, told, faulty>>

\* The sidecar sends a note of the turn.  turn/completed also reports the
\* interrupted turn.
SideEmits(note) ==
    /\ conn = "up" /\ side = "inProgress"
    /\ queue' = _enqueue_notification(queue, note)
    /\ \/ note = "done" /\ side' \in {"completed", "interrupted"}
       \/ note = "failed" /\ side' = "failed"
       \/ note \notin {"done", "failed"} /\ UNCHANGED side
    /\ UNCHANGED <<conn, gen, pc, turnId, clocks, diagnostics, steer, outcome,
                   told, faulty>>

\* Notes of older turns, of the account and of the session.
Chats(note) ==
    /\ conn = "up"
    /\ queue' = _enqueue_notification(queue, note)
    /\ UNCHANGED <<side, conn, gen, pc, turnId, clocks, diagnostics, steer,
                   outcome, told, faulty>>

\* Another process steers the turn and leaves its mark for this one.
note_steer ==
    /\ turnId /\ ~steer /\ side = "inProgress"
    /\ steer' = TRUE
    /\ UNCHANGED <<side, conn, queue, gen, pc, turnId, clocks, diagnostics,
                   outcome, told, faulty>>

Dec(n) == IF n = 0 THEN 0 ELSE n - 1
UpTo(n, top) == IF n < top THEN n + 1 ELSE top

\* Time passes.
Tick ==
    /\ pc \notin {"end", "closed"}
    /\ idle' = IF turnId THEN Dec(idle) ELSE idle
    /\ age' = IF turnId THEN UpTo(age, HardCap) ELSE age
    /\ probed' = UpTo(probed, ProbeInterval)
    /\ req' = IF pc \in Requests THEN Dec(req) ELSE req
    /\ UNCHANGED <<peer, gen, pc, turnId, diagnostics, outcome, told, faulty>>

-----------------------------------------------------------------------------
(* Requests of the consumer                                                *)

\* Send a request and wait for it at pc `at`.  On a lost socket the request
\* raises at once: AnswerLost is enabled.
request(at) == pc' = at /\ req' = ReqTimeout

\* interrupt_best_effort: on a lost socket nothing is sent.
interrupt(at) == request(at) /\ told' = (told \/ conn = "up")

\* The stream ends with an event or an error that stream_turn reports as is.
Finish(how) == outcome' = how /\ pc' = "end" /\ UNCHANGED <<req, told>>

\* mutant: the handlers do not interrupt.
Abandon_silent(how) == outcome' = how /\ pc' = "end" /\ UNCHANGED <<req, told>>

\* The stream is given up: the handlers of TimeoutError, StaleTurnStreamError
\* and CancelledError first interrupt the turn, if they know its id.
Abandon(how) ==
    /\ outcome' = how
    /\ IF turnId THEN interrupt("interrupt")
       ELSE pc' = "end" /\ UNCHANGED <<req, told>>

\* turn/start is answered: the turn's clock starts, on_started runs.
TurnStarted ==
    /\ pc = "starting" /\ conn = "up" /\ side # "none"
    /\ turnId' = TRUE /\ age' = 0 /\ probed' = ProbeInterval
    /\ pc' = "started"
    /\ UNCHANGED <<peer, gen, idle, req, diagnostics, outcome, told, faulty>>

\* turn/start is refused.
TurnRefused ==
    /\ pc = "starting" /\ conn = "up" /\ side = "none"
    /\ Finish("error")
    /\ UNCHANGED <<peer, gen, turnId, idle, age, probed, diagnostics, faulty>>

\* mark_running returns; the consumer subscribes with a fresh deadline.
Subscribe ==
    /\ pc = "started"
    /\ pc' = "loop" /\ idle' = IdleS
    /\ UNCHANGED <<peer, gen, turnId, age, probed, req, diagnostics, outcome,
                   told, faulty>>

\* on_started raises (the database).
StartedFails ==
    /\ pc = "started"
    /\ Finish("exception") /\ faulty' = TRUE
    /\ UNCHANGED <<peer, gen, turnId, idle, age, probed, diagnostics>>

\* account/rateLimits/read is answered, or refused as an unknown method.
RateLimitsRead ==
    /\ pc = "reading" /\ conn = "up"
    /\ pc' = "loop"
    /\ UNCHANGED <<peer, gen, turnId, clocks, diagnostics, outcome, told,
                   faulty>>

\* Any other error of account/rateLimits/read leaves run_turn.
RateLimitsRefused ==
    /\ pc = "reading" /\ conn = "up"
    /\ Finish("exception") /\ faulty' = TRUE
    /\ UNCHANGED <<peer, gen, turnId, idle, age, probed, diagnostics>>

\* map_codex_turn_status and the frame _event_from_probe_terminal makes.
ProbeVerdict(s) == IF s = "completed" THEN "done" ELSE "error"

\* mutant: the map's RUNNING is looked at before inProgress.
ProbeAnswered_running_first ==
    /\ pc = "probing" /\ conn = "up"
    /\ IF side = "inProgress"
       THEN interrupt("idle_interrupt") /\ UNCHANGED outcome
       ELSE Finish(ProbeVerdict(side))
    /\ UNCHANGED <<peer, gen, turnId, idle, age, probed, diagnostics, faulty>>

\* thread/turns/list is answered with the turn's status.
ProbeAnswered ==
    /\ pc = "probing" /\ conn = "up"
    /\ IF side = "inProgress"
       THEN idle' = IdleS /\ pc' = "loop" /\ UNCHANGED <<req, outcome, told>>
       ELSE Finish(ProbeVerdict(side)) /\ UNCHANGED idle
    /\ UNCHANGED <<peer, gen, turnId, age, probed, diagnostics, faulty>>

\* The sidecar does not list the turn or refuses the request.
ProbeUnknown ==
    /\ pc = "probing" /\ conn = "up"
    /\ interrupt("idle_interrupt") /\ faulty' = TRUE
    /\ UNCHANGED <<peer, gen, turnId, idle, age, probed, diagnostics, outcome>>

\* turn/interrupt is answered.  The one of _handle_idle returns False to
\* _next_notification, which raises TimeoutError; stream_turn's handler of
\* it interrupts again.
Interrupted ==
    /\ pc \in {"idle_interrupt", "interrupt"} /\ conn = "up"
    /\ IF pc = "idle_interrupt" THEN Abandon("timeout")
       ELSE pc' = "end" /\ UNCHANGED <<outcome, req, told>>
    /\ UNCHANGED <<peer, gen, turnId, idle, age, probed, diagnostics, faulty>>

\* The pending request times out (late), or fails with the connection.
AnswerLost(late) ==
    /\ pc \in Requests
    /\ IF late THEN req = 0 ELSE conn # "up"
    /\ faulty' = TRUE
    /\ \/ /\ pc \in {"starting", "reading"}
          /\ IF late THEN Abandon("timeout") ELSE Finish("exception")
       \/ /\ pc = "probing"
          /\ interrupt("idle_interrupt") /\ UNCHANGED outcome
       \/ /\ pc = "idle_interrupt"
          /\ Abandon("timeout")
       \/ /\ pc = "interrupt"
          /\ pc' = "end" /\ UNCHANGED <<outcome, req, told>>
    /\ UNCHANGED <<peer, gen, turnId, idle, age, probed, diagnostics>>

-----------------------------------------------------------------------------
(* current_turn_notifications and _next_notification                       *)

\* The top of the loop of _next_notification.  A generator that was cancelled
\* is exhausted: anext raises StopAsyncIteration and the stream is dropped.
NextNotification ==
    /\ pc = "loop"
    /\ \/ /\ idle = 0
          /\ pc' = "idling" /\ UNCHANGED <<outcome, req, told>>
       \/ /\ idle > 0 /\ gen = "open"
          /\ pc' = "waiting" /\ UNCHANGED <<outcome, req, told>>
       \/ /\ idle > 0 /\ gen = "closed"
          /\ Finish("dropped")
    /\ UNCHANGED <<peer, gen, turnId, idle, age, probed, diagnostics, faulty>>

\* asyncio.timeout cancels the pending anext, and with it the generator.
WaitTimesOut ==
    /\ pc = "waiting" /\ idle = 0
    /\ gen' = "closed" /\ pc' = "idling"
    /\ UNCHANGED <<peer, turnId, clocks, diagnostics, outcome, told, faulty>>

\* The sentinel ends the generator and so the stream.
Woken ==
    /\ pc = "waiting" /\ queue # <<>> /\ Head(queue) = "wake"
    /\ queue' = Tail(queue) /\ gen' = "closed"
    /\ Finish("dropped")
    /\ UNCHANGED <<side, conn, steer, turnId, idle, age, probed, diagnostics,
                   faulty>>

\* A note of the account is consumed before the turn's own filters; usage
\* asks for the limits.  Neither extends the deadline.
AccountNote ==
    /\ pc = "waiting" /\ queue # <<>> /\ Head(queue) \in {"quota", "usage"}
    /\ queue' = Tail(queue)
    /\ IF Head(queue) = "usage" THEN request("reading")
       ELSE pc' = "loop" /\ UNCHANGED req
    /\ UNCHANGED <<side, conn, steer, gen, turnId, idle, age, probed,
                   diagnostics, outcome, told, faulty>>

\* mutant: notes of other turns are not recognised.
_is_stale_turn_note_never(note) == FALSE

_is_stale_turn_note(note) == note = "old"
_is_session_noise_note(note) == note = "noise"

\* mutant: the deadline is extended before the filters.
SkippedNote_extends ==
    /\ pc = "waiting" /\ queue # <<>> /\ Head(queue) \in {"old", "noise"}
    /\ queue' = Tail(queue)
    /\ pc' = "loop" /\ idle' = IdleS
    /\ UNCHANGED <<side, conn, steer, gen, turnId, age, probed, req, diagnostics,
                   outcome, told, faulty>>

\* _should_skip_current_turn_note, and the storm of stale notes.
SkippedNote ==
    /\ pc = "waiting" /\ queue # <<>>
    /\ _is_stale_turn_note(Head(queue)) \/ _is_session_noise_note(Head(queue))
    /\ queue' = Tail(queue)
    /\ stales' = IF _is_stale_turn_note(Head(queue))
                 THEN UpTo(stales, StormThreshold) ELSE stales
    /\ IF _is_stale_turn_note(Head(queue)) /\ ~raw /\ stales' >= StormThreshold
       THEN Abandon("storm")
       ELSE pc' = "loop" /\ UNCHANGED <<outcome, req, told>>
    /\ UNCHANGED <<side, conn, steer, gen, turnId, idle, age, probed, items,
                   raw, faulty>>

\* translate_notification: what the note means to stream_turn.  A note of
\* another turn is taken at its worst, as that turn's turn/completed.
Verdict(note) == IF note = "failed" THEN "error"
                 ELSE IF note \in {"done", "olddone", "old"} THEN "done"
                 ELSE "none"

\* A note that passes the filters extends the deadline and is the turn's.  The
\* event it makes is handed to the runner at a yield of stream_turn, or is a
\* token kept back to be merged with the next ones.
TurnNote ==
    /\ pc = "waiting" /\ queue # <<>>
    /\ Head(queue) \notin {"wake", "quota", "usage"}
    /\ ~_is_stale_turn_note(Head(queue)) /\ ~_is_session_noise_note(Head(queue))
    /\ queue' = Tail(queue)
    /\ raw' = TRUE
    /\ items' = IF Head(queue) = "start" THEN TRUE
                ELSE IF Head(queue) = "stop" THEN FALSE ELSE items
    /\ idle' = IdleS
    /\ IF Verdict(Head(queue)) = "none"
       THEN pc' \in {"loop", "yielded"} /\ UNCHANGED <<outcome, req, told>>
       ELSE Finish(Verdict(Head(queue)))
    /\ UNCHANGED <<side, conn, steer, gen, turnId, age, probed, stales, faulty>>

\* The runner has published the event, updated the row and asks for the next.
Resume ==
    /\ pc = "yielded"
    /\ pc' = "loop"
    /\ UNCHANGED <<peer, gen, turnId, clocks, diagnostics, outcome, told,
                   faulty>>

-----------------------------------------------------------------------------
(* _handle_idle, decide_idle and the on_idle callback                      *)

decide_idle ==
    IF age >= HardCap THEN "HARD_CAP_EXCEEDED"
    ELSE IF ~items \/ probed >= ProbeInterval THEN "NEEDS_PROBE"
    ELSE "EXTEND_SILENTLY"

HardCapExceeded ==
    /\ pc = "idling" /\ decide_idle = "HARD_CAP_EXCEEDED"
    /\ Abandon("timeout")
    /\ UNCHANGED <<peer, gen, turnId, idle, age, probed, diagnostics, faulty>>

ExtendSilently ==
    /\ pc = "idling" /\ decide_idle = "EXTEND_SILENTLY"
    /\ idle' = IdleS /\ pc' = "loop"
    /\ UNCHANGED <<peer, gen, turnId, age, probed, req, diagnostics, outcome,
                   told, faulty>>

\* A steer of another process counts as a sign of life.
SteerConsumed ==
    /\ pc = "idling" /\ decide_idle = "NEEDS_PROBE" /\ steer
    /\ probed' = 0 /\ steer' = FALSE /\ idle' = IdleS /\ pc' = "loop"
    /\ UNCHANGED <<side, conn, queue, gen, turnId, age, req, diagnostics,
                   outcome, told, faulty>>

\* No steer, or Redis failed to say so: ask the sidecar.
Probe(redisFails) ==
    /\ pc = "idling" /\ decide_idle = "NEEDS_PROBE"
    /\ steer => redisFails
    /\ probed' = 0
    /\ request("probing")
    /\ faulty' = (faulty \/ redisFails)
    /\ UNCHANGED <<peer, gen, turnId, idle, age, diagnostics, outcome, told>>

-----------------------------------------------------------------------------
(* The end                                                                 *)

\* The task is cancelled (worker shutdown, stopped turn) at an await of
\* stream_turn or run_turn: stream_turn interrupts the sidecar and lets the
\* error through.
Cancel ==
    /\ outcome = "none" /\ pc # "yielded"
    /\ Abandon("cancelled")
    /\ UNCHANGED <<peer, gen, turnId, idle, age, probed, diagnostics, faulty>>

\* The runner does not come back to a yield: it is cancelled or fails while it
\* publishes the event or updates the row, or it breaks off because the
\* heartbeat lost the turn.  stream_turn is closed with GeneratorExit, which
\* none of its handlers catches: nobody interrupts the sidecar.
Leave ==
    /\ pc = "yielded"
    /\ Finish("left")
    /\ UNCHANGED <<peer, gen, turnId, idle, age, probed, diagnostics, faulty>>

\* open_codex_turn leaves its context: AppServerClient.close.
Close ==
    /\ pc = "end"
    /\ pc' = "closed" /\ conn' = "closed"
    /\ queue' = _wake_notifications(queue)
    /\ UNCHANGED <<side, gen, turnId, clocks, diagnostics, steer, outcome,
                   told, faulty>>

Consumer ==
    \/ Subscribe \/ NextNotification \/ WaitTimesOut \/ Woken
    \/ AccountNote \/ SkippedNote \/ TurnNote \/ Resume
    \/ HardCapExceeded \/ ExtendSilently \/ SteerConsumed
    \/ \E redisFails \in BOOLEAN : Probe(redisFails)
    \/ \E late \in BOOLEAN : AnswerLost(late)
    \/ Close

Environment ==
    \/ ReaderDies \/ SideStarts \/ note_steer
    \/ \E note \in OwnNotes : SideEmits(note)
    \/ \E note \in Chatter : Chats(note)
    \/ TurnStarted \/ TurnRefused \/ StartedFails
    \/ RateLimitsRead \/ RateLimitsRefused
    \/ ProbeAnswered \/ ProbeUnknown \/ Interrupted
    \/ Cancel \/ Leave

Next == Consumer \/ Environment \/ Tick

Spec == Init /\ [][Next]_vars

\* The event loop runs what is ready, the stores answer the runner and time
\* passes.  Nothing is asked of the sidecar.
FairSpec == Spec /\ WF_vars(Consumer) /\ WF_vars(Tick)
-----------------------------------------------------------------------------
(* Correctness                                                             *)

Holds(q, x) == \E i \in 1..Len(q) : q[i] = x

\* run_turn reports what the sidecar made of this turn: done only of a turn
\* that ended without error, an error event only of one that did not
\* complete.  Rests on every older turn's notes being labelled.
VerdictMatchesSidecar ==
    "olddone" \notin Chatter =>
        /\ outcome = "done" => side \in {"completed", "interrupted"}
        /\ outcome = "error" => side \in {"none", "failed", "interrupted"}

\* A consumer that waits on a lost connection has the sentinel of
\* _wake_notifications before it, however full the queue was: it does not
\* sit out the idle deadline.
WaiterIsWoken ==
    conn # "up" /\ pc = "waiting" => Holds(queue, "wake")

\* The idle policy gives up on a turn only at the hard cap, or after a
\* request failed or the sidecar did not know the turn: silence alone, with
\* a sidecar that answers inProgress, is never a timeout.
SilenceIsNoTimeout ==
    outcome = "timeout" => age = HardCap \/ faulty

\* The ways stream_turn walks away from a turn it knows, on a living socket,
\* without sending turn/interrupt: a verdict came, the stream was dropped, the
\* turn failed with an exception, or the runner left it at a yield.  A timeout,
\* a stale storm and a cancellation at one of its own awaits always interrupt.
AbandonedTurnIsTold ==
    /\ pc \in {"interrupt", "end"} /\ turnId /\ conn = "up" /\ ~told
    => outcome \in {"done", "error", "dropped", "exception", "left"}

\* A turn whose sidecar says no more ends and its connection is closed:
\* whatever the session goes on chattering, steers, or leaves unanswered,
\* the idle deadline, the request timeout and the hard cap end it.
SilentTurnEnds ==
    <>[][~\E note \in OwnNotes : SideEmits(note)]_vars => <>(pc = "closed")

-----------------------------------------------------------------------------
(* What the comments say and the code does not do                          *)

\* notifications(): "Iterate received notifications until close": the stream
\* ends without a verdict only when the connection is gone.
IteratesUntilClose == outcome = "dropped" => conn # "up"
=============================================================================
