----------------------------- MODULE StreamPersist -----------------------------
(***************************************************************************)
(* rpc/chat/stream.py: the coroutine that turns the Codex events of one    *)
(* web turn into client frames and message rows.  Text is coalesced before *)
(* it is sent; when a steering message was accepted meanwhile the text so  *)
(* far is stored as a `partial` row; done replaces the partial rows by one *)
(* final row in one transaction; the other ends store (or do not store)    *)
(* what is left.  Steering handlers run in other processes and are known   *)
(* to the loop only through a Redis counter, so they are counted here by   *)
(* the step they have reached.                                             *)
(*                                                                         *)
(* Text is the number of tokens received; the text of a row is an interval *)
(* of token positions.                                                     *)
(***************************************************************************)
EXTENDS Naturals, FiniteSets

CONSTANTS
    Coalesce,    \* CHAT_TOKEN_COALESCE_BYTES, in tokens
    MaxTokens,   \* bound: tokens of the turn
    MaxCalls,    \* bound: tool calls of the turn
    MaxSteers,   \* bound: steering messages Codex accepts
    MaxMishaps   \* bound: failing or cancelled awaits

ASSUME StreamPersistAssumption ==
    /\ Coalesce \in Nat /\ MaxTokens \in Nat /\ MaxCalls \in Nat
    /\ MaxSteers \in Nat /\ MaxMishaps \in Nat

VARIABLES
    at,         \* the await stream_turn is suspended in
    next,       \* where the loop goes once that await returns
    buffer,     \* collector.buffer
    calls,      \* collector.tool_calls
    reported,   \* collector.final_text against the buffer
    offset,     \* segment_buffer_offset
    offsetCalls,\* segment_tool_count
    seen,       \* seen_steer_count
    partials,   \* partial_msg_ids
    pending,    \* tokens in pending_text
    published,       \* tokens yielded to the client
    frame,      \* the terminal frame yielded
    rows,       \* this turn's assistant rows in `messages`
    lastId,     \* autoincrement of `messages`
    journal,    \* kinds emitted to the events log
    accepted,   \* steer handlers between Codex's acceptance and the INSERT
    steers,     \* steered USER rows stored
    owed,       \* steer handlers between the INSERT and bump_steer_count
    count,      \* codex:steer_count:{turn_id} in Redis
    audio,      \* attach_tts_to_message of this turn
    mishaps

loopVars  == <<buffer, calls, reported, offset, offsetCalls, seen, partials, pending, published, frame>>
steerVars == <<accepted, steers, owed, count>>
streamVars ==
    <<at, next, loopVars, rows, lastId, journal, steerVars, audio, mishaps>>

Ends == {"done", "error", "exception", "dropped", "failed", "stale", "timeout", "cancel"}

\* Row.before is the number of steered USER rows with a smaller id, Row.seen
\* the boundary at which the row was cut (0 for the other rows).
Row == [id : Nat, kind : {"segment", "rest", "final"}, from : Nat, to : Nat,
        fromCall : Nat, toCall : Nat, before : Nat, seen : Nat]

StreamTypeOK ==
    /\ at \in {"read", "peek", "segment", "keep", "finish", "ended", "raised", "crashed"}
    /\ next \in Ends \cup {"read", "finish", "none"}
    /\ buffer \in Nat /\ calls \in Nat
    /\ reported \in {"nothing", "same", "other"}
    /\ offset \in 0..buffer /\ offsetCalls \in 0..calls
    /\ seen \in Nat /\ count \in Nat
    /\ accepted \in Nat /\ steers \in Nat /\ owed \in Nat
    /\ partials \subseteq Nat
    /\ pending \in Nat /\ published \in Nat /\ published + pending = buffer
    /\ frame \in {"none", "done", "error"}
    /\ rows \subseteq Row /\ lastId \in Nat
    /\ journal \subseteq {"TURN_COMPLETED", "TURN_FAILED", "TURN_INTERRUPTED", "THREAD_RESET"}
    /\ audio \in {"none", "synthesizing", "attached", "failed"}
    /\ mishaps \in Nat

StreamInit ==
    /\ at = "read" /\ next = "none"
    /\ buffer = 0 /\ calls = 0 /\ reported = "nothing"
    /\ offset = 0 /\ offsetCalls = 0 /\ seen = 0 /\ partials = {}
    /\ pending = 0 /\ published = 0 /\ frame = "none"
    /\ rows = {} /\ lastId = 0 /\ journal = {}
    /\ accepted = 0 /\ steers = 0 /\ owed = 0 /\ count = 0
    /\ audio = "none" /\ mishaps = 0

Mishap == mishaps < MaxMishaps /\ mishaps' = mishaps + 1

-----------------------------------------------------------------------------
(***************************************************************************)
(* The transactions on `messages`.                                         *)
(***************************************************************************)

\* _segment_delta and the INSERT of _persist_assistant_turn(partial=True):
\* the text and the calls since the last cut_segment.
DeltaRow(kind, boundary) ==
    [id |-> lastId + 1, kind |-> kind, from |-> offset, to |-> buffer,
     fromCall |-> offsetCalls, toCall |-> calls, before |-> steers, seen |-> boundary]

Insert(r) == rows' = rows \cup {r} /\ lastId' = lastId + 1

\* partial_msg_ids.append and cut_segment
Cut ==
    /\ partials' = partials \cup {lastId + 1}
    /\ offset' = buffer /\ offsetCalls' = calls

FinalRow ==
    [id |-> lastId + 1, kind |-> "final", from |-> 0, to |-> buffer,
     fromCall |-> 0, toCall |-> calls, before |-> steers, seen |-> 0]

\* mutant: the partial rows stay beside the final one
FinalizeTransaction_keeps_partials ==
    /\ rows' = rows \cup {FinalRow}
    /\ lastId' = lastId + 1
    /\ journal' = journal \cup {"TURN_COMPLETED"}

\* _finalize_turn_persist: INSERT the final row, attach it to the turn,
\* DELETE the partial rows, emit TURN_COMPLETED; one transaction.
FinalizeTransaction ==
    /\ rows' = {r \in rows : r.id \notin partials} \cup {FinalRow}
    /\ lastId' = lastId + 1
    /\ journal' = journal \cup {"TURN_COMPLETED"}

-----------------------------------------------------------------------------
(***************************************************************************)
(* Steering handlers: SteerTurn, _try_steer_active_turn and the Telegram   *)
(* handler.  Each sends the text to Codex, then stores the USER row, then  *)
(* increments the counter.                                                 *)
(***************************************************************************)

\* mutant: send_steer_by_ids bumps the counter itself, before the caller has
\* stored the USER row
SteerAccepted_bumps ==
    /\ accepted + steers < MaxSteers
    /\ at \in {"read", "peek", "segment"} /\ next # "finish"
    /\ accepted' = accepted + 1 /\ count' = count + 1
    /\ UNCHANGED <<at, next, loopVars, rows, lastId, journal, steers, owed, audio, mishaps>>

\* turn/steer is accepted while Codex runs the turn; note_steer is read by
\* the idle watch only
SteerAccepted ==
    /\ accepted + steers < MaxSteers
    /\ at \in {"read", "peek", "segment"} /\ next # "finish"
    /\ accepted' = accepted + 1
    /\ UNCHANGED <<at, next, loopVars, rows, lastId, journal, steers, owed, count, audio, mishaps>>

\* message_service.append(USER, steered) committed
StoreSteer ==
    /\ accepted > 0
    /\ accepted' = accepted - 1
    /\ steers' = steers + 1 /\ lastId' = lastId + 1
    /\ owed' = owed + 1
    /\ UNCHANGED <<at, next, loopVars, rows, journal, count, audio, mishaps>>

\* bump_steer_count: INCR and EXPIRE; a Redis error is logged
BumpSteer ==
    /\ owed > 0
    /\ owed' = owed - 1
    /\ \/ count' = count + 1 /\ UNCHANGED mishaps
       \/ Mishap /\ UNCHANGED count
    /\ UNCHANGED <<at, next, loopVars, rows, lastId, journal, accepted, steers, audio>>

\* the steering client hangs up after Codex accepted its text
SteerCancelled ==
    /\ Mishap
    /\ \/ accepted > 0 /\ accepted' = accepted - 1 /\ UNCHANGED owed
       \/ owed > 0 /\ owed' = owed - 1 /\ UNCHANGED accepted
    /\ UNCHANGED <<at, next, loopVars, rows, lastId, journal, steers, count, audio>>

\* the counter's TTL passes during a turn longer than the idle timeout
CounterExpires ==
    /\ count > 0
    /\ Mishap
    /\ count' = 0
    /\ UNCHANGED <<at, next, loopVars, rows, lastId, journal, accepted, steers, owed, audio>>

-----------------------------------------------------------------------------
(***************************************************************************)
(* The event loop of stream_turn.                                          *)
(***************************************************************************)

\* mutant: the flushed text stays in the buffer
Flush_keeps_pending == published' = published + pending /\ pending' = pending

\* _flush_token_buffer
Flush == published' = published + pending /\ pending' = 0

Boundary(then) == at' = "peek" /\ next' = then

\* TokenEvent: sent when the coalesced text is long enough, and only then is
\* the steer counter looked at
ReadToken ==
    /\ at = "read" /\ buffer < MaxTokens
    /\ buffer' = buffer + 1
    /\ IF pending + 1 >= Coalesce
         THEN published' = published + pending + 1 /\ pending' = 0 /\ Boundary("read")
         ELSE pending' = pending + 1 /\ UNCHANGED <<published, at, next>>
    /\ UNCHANGED <<calls, reported, offset, offsetCalls, seen, partials, frame,
                   rows, lastId, journal, steerVars, audio, mishaps>>

\* a tool event: flush, forward, look at the counter
ReadTool ==
    /\ at = "read" /\ calls < MaxCalls
    /\ calls' = calls + 1
    /\ Flush /\ Boundary("read")
    /\ UNCHANGED <<buffer, reported, offset, offsetCalls, seen, partials, frame,
                   rows, lastId, journal, steerVars, audio, mishaps>>

\* DoneEvent: flush, one last boundary, leave the loop
ReadDone ==
    /\ at = "read"
    /\ reported' \in {"nothing", "other"} \cup (IF buffer > 0 THEN {"same"} ELSE {})
    /\ Flush /\ Boundary("finish")
    /\ UNCHANGED <<buffer, calls, offset, offsetCalls, seen, partials, frame,
                   rows, lastId, journal, steerVars, audio, mishaps>>

\* _check_steer_boundary up to _persist_segment; peek_steer_count answers 0
\* when Redis fails
Peek ==
    /\ at = "peek"
    /\ \/ /\ count > seen /\ seen' = count
          /\ IF buffer > offset THEN at' = "segment" /\ UNCHANGED next
                                ELSE at' = next /\ next' = "none"
          /\ UNCHANGED mishaps
       \/ /\ count <= seen
          /\ at' = next /\ next' = "none" /\ UNCHANGED <<seen, mishaps>>
       \/ /\ Mishap
          /\ at' = next /\ next' = "none" /\ UNCHANGED seen
    /\ UNCHANGED <<buffer, calls, reported, offset, offsetCalls, partials, pending, published,
                   frame, rows, lastId, journal, steerVars, audio>>

\* _persist_segment
PersistSegment ==
    /\ at = "segment"
    /\ Insert(DeltaRow("segment", seen)) /\ Cut
    /\ at' = next /\ next' = "none"
    /\ UNCHANGED <<buffer, calls, reported, seen, pending, published, frame, journal, steerVars,
                   audio, mishaps>>

\* voice_reply: the TTS task starts when Codex reported a text
StartTts == audio' \in IF reported = "nothing" THEN {"none"} ELSE {"none", "synthesizing"}

\* _finalize_turn_persist succeeded: the done frame carries the row
PersistFinal ==
    /\ at = "finish"
    /\ FinalizeTransaction
    /\ partials' = {}
    /\ frame' = "done" /\ at' = "ended" /\ next' = "done"
    /\ StartTts
    /\ UNCHANGED <<buffer, calls, reported, offset, offsetCalls, seen, pending, published,
                   steerVars, mishaps>>

\* attach_tts_to_message, in the background; its errors are logged
AttachTts ==
    /\ audio = "synthesizing"
    /\ \/ audio' = "attached" /\ UNCHANGED mishaps
       \/ audio' = "failed" /\ Mishap
    /\ UNCHANGED <<at, next, loopVars, rows, lastId, journal, steerVars>>

-----------------------------------------------------------------------------
(***************************************************************************)
(* The other ends.                                                         *)
(***************************************************************************)

\* the error frame and the journal entry of an end that stores nothing
EndUnsaved(why) ==
    /\ frame' = "error" /\ at' = "ended" /\ next' = why
    /\ journal' = journal \cup {"TURN_FAILED"}

\* ErrorEvent
ReadError ==
    /\ at = "read"
    /\ Flush /\ EndUnsaved("error")
    /\ UNCHANGED <<buffer, calls, reported, offset, offsetCalls, seen, partials,
                   rows, lastId, steerVars, audio, mishaps>>

\* the notification stream ends without DoneEvent
StreamDropped ==
    /\ at = "read" /\ Mishap
    /\ EndUnsaved("dropped")
    /\ UNCHANGED <<buffer, calls, reported, offset, offsetCalls, seen, partials, pending, published,
                   rows, lastId, steerVars, audio>>

\* except Exception: run_turn raises, or the boundary's transaction fails
\* (before its commit, or in the refresh after it)
LoopFails ==
    /\ at \in {"read", "segment"} /\ Mishap
    /\ EndUnsaved("exception")
    /\ \/ UNCHANGED <<rows, lastId>>
       \/ at = "segment" /\ Insert(DeltaRow("segment", seen))
    /\ UNCHANGED <<buffer, calls, reported, offset, offsetCalls, seen, partials, pending, published,
                   steerVars, audio>>

\* CodexTurnTerminal, StaleTurnStreamError and TimeoutError raised by
\* run_turn: interrupt and quarantine are the transport's; then
\* _persist_visible_partial
GiveUp ==
    /\ at = "read" /\ Mishap
    /\ at' = "keep" /\ next' \in {"failed", "stale", "timeout"}
    /\ UNCHANGED <<loopVars, rows, lastId, journal, steerVars, audio>>

\* CodexTurnTerminal(COMPLETED): the probe learned that the turn is complete;
\* nothing is stored when nothing was received
ProbeCompleted ==
    /\ at = "read" /\ Mishap
    /\ IF buffer + calls > 0
         THEN at' = "finish" /\ UNCHANGED <<next, frame>>
         ELSE at' = "ended" /\ next' = "done" /\ frame' = "done"
    /\ UNCHANGED <<buffer, calls, reported, offset, offsetCalls, seen, partials, pending, published,
                   rows, lastId, journal, steerVars, audio>>

\* asyncio.CancelledError at an await of the loop; the boundary's transaction
\* may have committed
Cancelled ==
    /\ at \in {"read", "peek", "segment"} /\ Mishap
    /\ at' = "keep" /\ next' = "cancel"
    /\ \/ UNCHANGED <<rows, lastId>>
       \/ at = "segment" /\ Insert(DeltaRow("segment", seen))
    /\ UNCHANGED <<loopVars, journal, steerVars, audio>>

\* The consumer leaves while stream_turn is suspended at a yield (turns/runner.py
\* breaks, or its publish or update_last_event fails or is cancelled): the
\* generator is closed with GeneratorExit, which no handler of stream_turn
\* catches, so nothing more is stored.  The yield is that of a piece of text or
\* a tool event, or the one before _emit_event of an end that stores nothing.
Closed ==
    /\ at \in {"read", "peek"} /\ Mishap
    /\ at' = "raised" /\ next' = "none"
    /\ Flush
    /\ frame' \in IF at = "peek" THEN {frame} ELSE {frame, "error"}
    /\ UNCHANGED <<buffer, calls, reported, offset, offsetCalls, seen, partials,
                   rows, lastId, journal, steerVars, audio>>

\* what each end writes to the journal after the partial row, and its frame
EndKind == CASE next = "cancel" -> {"TURN_INTERRUPTED"}
             [] next = "stale"  -> {"THREAD_RESET"}
             [] next = "timeout" -> {"TURN_FAILED"}
             [] OTHER -> {}

\* the entry follows the error frame's yield, where the generator may be closed
Emitted == IF next = "cancel" THEN {EndKind} ELSE {EndKind, {}}

\* _persist_visible_partial and the end that called it; CancelledError is
\* raised again without a frame
PersistVisiblePartial ==
    /\ at = "keep"
    /\ IF buffer > offset \/ calls > offsetCalls
         THEN /\ Insert(DeltaRow("rest", 0)) /\ Cut
              /\ \E told \in Emitted : journal' = journal \cup {"TURN_FAILED"} \cup told
         ELSE /\ UNCHANGED <<rows, lastId, partials, offset, offsetCalls>>
              /\ \E told \in Emitted : journal' = journal \cup told
    /\ at' = IF next = "cancel" THEN "raised" ELSE "ended"
    /\ frame' = IF next = "cancel" THEN frame ELSE "error"
    /\ UNCHANGED <<next, buffer, calls, reported, seen, pending, published, steerVars, audio, mishaps>>

\* _persist_visible_partial or _finalize_turn_persist fails or is cancelled,
\* before or after the commit: the exception leaves stream_turn
PersistRaises ==
    /\ at \in {"keep", "finish"} /\ Mishap
    /\ at' = "raised" /\ next' = "none"
    /\ \/ UNCHANGED <<rows, lastId, journal>>
       \/ /\ at = "keep" /\ (buffer > offset \/ calls > offsetCalls)
          /\ Insert(DeltaRow("rest", 0)) /\ journal' = journal \cup {"TURN_FAILED"}
       \/ at = "finish" /\ FinalizeTransaction
    /\ UNCHANGED <<loopVars, steerVars, audio>>

\* the worker is killed
StreamCrash ==
    /\ at \notin {"ended", "raised", "crashed"} /\ Mishap
    /\ at' = "crashed" /\ next' = "none"
    /\ UNCHANGED <<loopVars, rows, lastId, journal, steerVars, audio>>

StreamNext ==
    \/ SteerAccepted \/ StoreSteer \/ BumpSteer \/ SteerCancelled \/ CounterExpires
    \/ ReadToken \/ ReadTool \/ ReadDone \/ Peek \/ PersistSegment \/ PersistFinal \/ AttachTts
    \/ ReadError \/ StreamDropped \/ LoopFails \/ GiveUp \/ ProbeCompleted \/ Cancelled \/ Closed
    \/ PersistVisiblePartial \/ PersistRaises \/ StreamCrash

StreamSpec == StreamInit /\ [][StreamNext]_streamVars

-----------------------------------------------------------------------------
(***************************************************************************)
(* Properties                                                              *)
(***************************************************************************)

\* A segment stored at a steering boundary comes after the USER rows of all
\* the steering messages that boundary counts: the comment in SteerTurn
\* (rpc/chat/service.py:338) promises this order of ids although the handler
\* and the loop run in different processes.
SegmentFollowsSteer ==
    \A r \in rows : r.kind = "segment" => r.seen <= r.before

PartialRows == {r \in rows : r.kind # "final"}

Covered == {i \in 1..buffer : \E r \in PartialRows : r.from < i /\ i <= r.to}

\* An end that calls _persist_visible_partial and gets through it leaves every
\* token and every tool call received in some partial row, however many
\* boundaries cut the answer before.  (Some token may be in two: a boundary
\* cancelled after its commit is stored again with the rest.  A generator
\* closed at a yield stores nothing and is not such an end.)
InterruptedKeepsAll ==
    at \in {"ended", "raised"} /\ next \in {"failed", "stale", "timeout", "cancel"} =>
        /\ Covered = 1..buffer
        /\ \A c \in 1..calls : \E r \in PartialRows : r.fromCall < c /\ c <= r.toCall

\* The partial rows of a turn: in the order of the conversation, and complete.
PartialsAreSound == SegmentFollowsSteer /\ InterruptedKeepsAll

\* _StreamState's docstring: on error, cancel and timeout the partial rows
\* keep what arrived before the break.  Not so for an ErrorEvent, a dropped
\* stream and an unexpected exception.
AbortKeepsText ==
    at = "ended" /\ next \notin {"done", "none"} => Covered = 1..buffer

\* The rows of the turn implement Transcript: partial rows only accumulate,
\* and the transaction of _finalize_turn_persist replaces all of them at once.
Readable == INSTANCE Transcript WITH
                shown <- Covered,
                whole <- \E r \in rows : r.kind = "final"

TranscriptRefined == Readable!TranscriptSpec

=============================================================================
