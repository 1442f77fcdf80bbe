------------------------------ MODULE TurnTail ------------------------------
(***************************************************************************)
(* How a turn's events reach the browser: the Redis stream of the turn,    *)
(* the handlers of RunTurn and TailTurn that read it, the connection, and  *)
(* the client's send() with its reconnects and its resume on mount.        *)
(*                                                                         *)
(* One turn and one browser view are followed.  The writers (the runner,   *)
(* the recovery, the other requests) are the weakest ones that the theorems *)
(* of TurnRuntimeProofs allow: a final row stays final, and a COMPLETED    *)
(* row has a done in the stream.  A handler takes one entry per step: the  *)
(* batch of an XREAD is yielded in order, entry by entry.                  *)
(***************************************************************************)
EXTENDS Integers, Sequences

CONSTANTS
    MaxEvents,      \* bound on the entries a turn publishes
    MaxLen,         \* TURN_STREAM_MAX_EVENTS
    WireCap,        \* events the connection buffers
    MaxReloads      \* bound on page reloads

ASSUME TailConstants ==
    /\ MaxEvents \in Nat /\ MaxLen \in Nat /\ MaxReloads \in Nat
    /\ WireCap \in Nat \ {0}

VARIABLES
    stream,     \* kinds of the entries ever added; the position is the id
    trimmed,    \* entries up to this id are no longer in Redis
    row,        \* status of the turn's row
    gone,       \* the chat was deleted, and the row with it
    deleting,   \* DeleteChat has seen no active turn
    prev,       \* the chat has an earlier, completed turn
    queued,     \* execute_turn was enqueued
    rt,         \* where RunTurn is before it tails: "prep", "made", "end"
    h,          \* where the handler of the client's connection is
    cursor,     \* the tail's cursor
    wire,       \* events under way to the client
    c,          \* the client's current loop
    known,      \* serverTurnId is set
    last,       \* lastEventId
    terminal,   \* terminalSeen of this loop
    shown,      \* the terminal event that the view reflects
    reloads

server == <<stream, trimmed, row, gone, deleting, prev, queued, rt>>
client == <<c, known, last, terminal, shown, reloads>>
vars == <<server, h, cursor, wire, client>>

Final == {"completed", "failed", "cancelled"}
Ends == {"done", "error"}
Streaming == {"run", "tail", "retail", "resume"}

\* What goes over the connection; id 0: not from the stream.  "eof" is the
\* end of the response and "fail" a response that ends with an error.  An
\* event is of this turn, of an earlier one, or of the request itself.
Event == [kind : {"started", "token", "eof", "fail"} \cup Ends,
          id : Nat, of : {"this", "prev", "none"}]
Ev(k, i, o) == [kind |-> k, id |-> i, of |-> o]
NoEvent == Ev("eof", 0, "none")
AndEof(evs) == Append(evs, Ev("eof", 0, "none"))
AndFail(evs) == Append(evs, Ev("fail", 0, "none"))
AndRefusal(evs) == AndEof(Append(evs, Ev("error", 0, "none")))

\* Every variable has its type, and the tail never points past the stream.
TypeOK ==
    /\ stream \in Seq({"token"} \cup Ends) /\ trimmed \in 0..Len(stream)
    /\ row \in {"absent", "active"} \cup Final
    /\ gone \in BOOLEAN /\ deleting \in BOOLEAN /\ prev \in BOOLEAN
    /\ queued \in BOOLEAN
    /\ rt \in {"prep", "made", "end"}
    /\ h \in {"wait", "lookup", "xread", "row", "after", "end"}
    /\ cursor \in 0..Len(stream) /\ last \in 0..Len(stream)
    /\ wire \in Seq(Event)
    /\ c \in Streaming \cup {"over"}
    /\ known \in BOOLEAN /\ terminal \in BOOLEAN
    /\ shown \in Event /\ reloads \in Nat

Init ==
    /\ stream = <<>> /\ trimmed = 0
    /\ row = "absent" /\ gone = FALSE /\ deleting = FALSE
    /\ prev \in BOOLEAN /\ queued = FALSE
    /\ rt = "prep" /\ h = "wait" /\ cursor = 0 /\ wire = <<>>
    /\ c = "run" /\ known = FALSE /\ last = 0 /\ terminal = FALSE
    /\ shown = NoEvent /\ reloads = 0

-----------------------------------------------------------------------------
(* The writers                                                             *)

\* XADD ... MAXLEN ~ : a runner adds an entry, Redis drops as many of the
\* oldest as it likes of those beyond MaxLen.
Publish(k) ==
    /\ queued /\ Len(stream) < MaxEvents
    /\ stream' = Append(stream, k)
    /\ trimmed' \in trimmed..(Len(stream) + 1)
    /\ trimmed' # trimmed => trimmed' + MaxLen <= Len(stream) + 1
    /\ UNCHANGED <<row, gone, deleting, prev, queued, rt, h, cursor, wire, client>>

\* The row becomes final, by its runner or by another process.
Finalize(s) ==
    /\ row = "active" /\ ~gone
    /\ s = "completed" => \E i \in DOMAIN stream : stream[i] = "done"
    /\ row' = s
    /\ UNCHANGED <<stream, trimmed, gone, deleting, prev, queued, rt, h, cursor,
                   wire, client>>

\* The stream's TTL runs out, a day after the last entry.
StreamExpires ==
    /\ row \in Final /\ trimmed < Len(stream)
    /\ trimmed' = Len(stream)
    /\ UNCHANGED <<stream, row, gone, deleting, prev, queued, rt, h, cursor,
                   wire, client>>

\* DeleteChat (from another tab) looks for an active turn ...
DeleteCheck ==
    /\ ~deleting /\ ~gone /\ row # "active"
    /\ deleting' = TRUE
    /\ UNCHANGED <<stream, trimmed, row, gone, prev, queued, rt, h, cursor, wire,
                   client>>

\* ... and deletes the chat, with a turn that was created in between.
DeleteCommit ==
    /\ deleting
    /\ deleting' = FALSE /\ gone' = TRUE
    /\ UNCHANGED <<stream, trimmed, row, prev, queued, rt, h, cursor, wire, client>>

-----------------------------------------------------------------------------
(* RunTurn up to its tail.  The handler goes on when the client is gone    *)
(* until the server notices; what it yields then is lost.                  *)

\* The response becomes evs, if the client still listens to RunTurn.
Answer(evs) == wire' = IF c = "run" THEN evs ELSE wire

\* The handler returns or raises: its response ends.
Leave(evs) ==
    /\ rt' = "end"
    /\ Answer(evs)
    /\ h' = IF c = "run" THEN "end" ELSE h

\* Empty text, quota, an active turn or a lost race: one error event.
Refuse ==
    /\ rt = "prep" /\ ~gone
    /\ Leave(AndRefusal(wire))
    /\ UNCHANGED <<stream, trimmed, row, gone, deleting, prev, queued, cursor, client>>

\* load_chat_owned or the INSERT fails: the chat is deleted.
RunRaises ==
    /\ rt = "prep" /\ gone
    /\ Leave(AndFail(wire))
    /\ UNCHANGED <<stream, trimmed, row, gone, deleting, prev, queued, cursor, client>>

\* _create_web_turn
Create ==
    /\ rt = "prep" /\ ~gone
    /\ row' = "active" /\ rt' = "made"
    /\ UNCHANGED <<stream, trimmed, gone, deleting, prev, queued, h, cursor, wire,
                   client>>

\* _enqueue_turn succeeds: turn_started is yielded and the tail begins.
Enqueue ==
    /\ rt = "made"
    /\ queued' = TRUE /\ rt' = "end"
    /\ Answer(Append(wire, Ev("started", 0, "this")))
    /\ h' = IF c = "run" THEN "xread" ELSE h
    /\ cursor' = IF c = "run" THEN 0 ELSE cursor
    /\ UNCHANGED <<stream, trimmed, row, gone, deleting, prev, client>>

\* _enqueue_turn fails: the row is finalised and the error yielded.
EnqueueFails ==
    /\ rt = "made"
    /\ row' = IF row = "active" /\ ~gone THEN "failed" ELSE row
    /\ Leave(AndRefusal(wire))
    /\ UNCHANGED <<stream, trimmed, gone, deleting, prev, queued, cursor, client>>

\* The server notices that the client hung up and cancels the handler.
RunCancelled ==
    /\ rt # "end" /\ c # "run"
    /\ rt' = "end"
    /\ UNCHANGED <<stream, trimmed, row, gone, deleting, prev, queued, h, cursor,
                   wire, client>>

-----------------------------------------------------------------------------
(* TurnStream.tail and what its callers do around it                       *)

Room == Len(wire) < WireCap
Readable == {i \in DOMAIN stream : i > cursor /\ i > trimmed}

\* mutant: a done for every final row.
AndTerminal_optimist(evs) ==
    IF row \in Final THEN Append(evs, Ev("done", 0, "this")) ELSE evs

\* _terminal_from_status of the turn's row
AndTerminal(evs) ==
    IF row = "completed" THEN Append(evs, Ev("done", 0, "this"))
    ELSE IF row \in Final THEN Append(evs, Ev("error", 0, "this"))
    ELSE evs

\* mutant: the tail starts from the beginning.
From_zero == 0

\* cursor = after_event_id or "0"
From == last

\* TailTurn looks the turn up, by turn_id or by the chat.
Lookup ==
    /\ h = "lookup"
    /\ \/ /\ gone
          /\ wire' = AndFail(wire) /\ h' = "end" /\ UNCHANGED cursor
       \/ /\ ~gone /\ row = "active"
          /\ cursor' = From /\ h' = "xread" /\ UNCHANGED wire
       \/ /\ ~gone /\ row \in Final
          /\ wire' = AndEof(AndTerminal(wire)) /\ h' = "end" /\ UNCHANGED cursor
       \/ /\ ~gone /\ row = "absent" /\ ~known
          /\ wire' = AndEof(IF prev THEN Append(wire, Ev("done", 0, "prev"))
                                    ELSE wire)
          /\ h' = "end" /\ UNCHANGED cursor
    /\ UNCHANGED <<server, client>>

\* mutant: the cursor goes one too far.
Advance_past(i) == cursor' = i + 1

\* cursor = eid
Advance(i) == cursor' = i

\* An entry after the cursor is yielded; done and error end the tail.
YieldEntry ==
    /\ h = "xread" /\ Room
    /\ \E i \in Readable :
          /\ \A j \in Readable : i <= j
          /\ wire' = Append(wire, Ev(stream[i], i, "this"))
          /\ Advance(i)
          /\ h' = IF stream[i] \in Ends THEN "after" ELSE "xread"
    /\ UNCHANGED <<server, client>>

\* XREAD BLOCK times out.
EmptyRead ==
    /\ h = "xread" /\ Readable = {}
    /\ h' = "row"
    /\ UNCHANGED <<server, cursor, wire, client>>

\* mutant: an empty read ends the tail.
RowIsOver_always == TRUE
\* mutant: a deleted row does not end the tail.
RowIsOver_found == ~gone /\ row \in Final

\* turn is None or turn.status in TURN_TERMINAL_STATUSES
RowIsOver == gone \/ row \in Final

\* The row is read after an empty XREAD.
CheckRow ==
    /\ h = "row"
    /\ h' = IF RowIsOver THEN "after" ELSE "xread"
    /\ UNCHANGED <<server, cursor, wire, client>>

\* The caller reads the row again, yields the terminal of a final one, and
\* returns.
AfterTail ==
    /\ h = "after" /\ Room
    /\ wire' = AndEof(IF gone THEN wire ELSE AndTerminal(wire))
    /\ h' = "end"
    /\ UNCHANGED <<server, cursor, client>>

-----------------------------------------------------------------------------
(* The client                                                              *)

\* A new TailTurn request, in loop l.
TailTurn(l) ==
    /\ c' = l /\ terminal' = FALSE
    /\ h' = "lookup" /\ wire' = <<>>
    /\ UNCHANGED cursor

\* send() or resumeActiveTurn returns, its request is dropped.
Stop ==
    /\ c' = "over" /\ h' = "end" /\ wire' = <<>>
    /\ UNCHANGED <<terminal, cursor>>

\* if (event.eventId) lastEventId = event.eventId
Note(e) == last' = IF e.id # 0 THEN e.id ELSE last

\* turn_started, a token or a tool event.
OnProgress ==
    /\ c \in Streaming /\ wire # <<>> /\ Head(wire).kind \in {"started", "token"}
    /\ Note(Head(wire))
    /\ known' = (known \/ Head(wire).kind = "started")
    /\ wire' = Tail(wire)
    /\ UNCHANGED <<server, h, cursor, c, terminal, shown, reloads>>

\* done or error: send() marks it and reads on, the resume loop returns.
OnTerminal ==
    /\ c \in Streaming /\ wire # <<>> /\ Head(wire).kind \in Ends
    /\ Note(Head(wire))
    /\ shown' = Head(wire)
    /\ \/ /\ c # "resume" /\ terminal' = TRUE /\ wire' = Tail(wire)
          /\ UNCHANGED <<h, cursor, c>>
       \/ c = "resume" /\ Stop
    /\ UNCHANGED <<server, known, reloads>>

\* recoverSilentEof: the placeholder is dropped, the chat is read from the
\* database and resumed by its id.
Recover ==
    /\ TailTurn("resume")
    /\ known' = FALSE /\ last' = 0

\* The response ends: over after a terminal, else TailTurn, else recover.
OnEof ==
    /\ c \in Streaming /\ wire # <<>> /\ Head(wire).kind = "eof"
    /\ \/ (terminal \/ c = "resume") /\ Stop /\ UNCHANGED <<known, last>>
       \/ ~terminal /\ c = "run" /\ TailTurn("tail") /\ UNCHANGED <<known, last>>
       \/ ~terminal /\ c \in {"tail", "retail"} /\ Recover
    /\ UNCHANGED <<server, shown, reloads>>

\* The catch blocks: one more TailTurn, then "Stream lost".
Caught ==
    /\ \/ c \in {"run", "tail"} /\ TailTurn("retail")
       \/ c \in {"retail", "resume"} /\ Stop
    /\ UNCHANGED <<server, known, last, shown, reloads>>

\* The request fails on the server ...
OnFail ==
    /\ c \in Streaming /\ wire # <<>> /\ Head(wire).kind = "fail"
    /\ Caught

\* ... or the connection breaks, and what is under way is lost.
Disconnect == c \in Streaming /\ Caught

\* interrupt(), or the user leaves the chat: the loop stops at its next event.
Abandon ==
    /\ c \in Streaming
    /\ Stop
    /\ UNCHANGED <<server, known, last, shown, reloads>>

\* The page is loaded anew: nothing is remembered, the chat is resumed.
PageReload ==
    /\ reloads < MaxReloads
    /\ reloads' = reloads + 1
    /\ Recover /\ shown' = NoEvent
    /\ UNCHANGED server

-----------------------------------------------------------------------------
Writer == \/ \E k \in {"token"} \cup Ends : Publish(k)
          \/ \E s \in Final : Finalize(s)
          \/ StreamExpires \/ DeleteCheck \/ DeleteCommit
RunTurn == Refuse \/ RunRaises \/ Create \/ Enqueue \/ EnqueueFails
Handler == Lookup \/ YieldEntry \/ EmptyRead \/ CheckRow \/ AfterTail
Receive == OnProgress \/ OnTerminal \/ OnEof \/ OnFail

Next == \/ Writer \/ RunTurn \/ RunCancelled \/ Handler \/ Receive
        \/ Disconnect \/ Abandon \/ PageReload

Spec == Init /\ [][Next]_vars

\* A queued turn's row becomes final (EnqueuedTurnSettles of TurnRuntime).
Settles == queued /\ \E s \in Final : Finalize(s)

\* The server and the client take their steps; writers other than the one
\* that ends the turn, disconnects and users owe nothing.
FairSpec == /\ Spec
            /\ WF_vars(RunTurn) /\ WF_vars(Handler) /\ WF_vars(Receive)
            /\ WF_vars(Settles)

-----------------------------------------------------------------------------
(***************************************************************************)
(* Whatever the reconnects, the next stream event that the client will     *)
(* handle is new to it, and every entry it has not seen in between was     *)
(* trimmed by Redis: no token is shown twice, none is lost on the way.     *)
(***************************************************************************)
NextEventIsNew ==
    wire # <<>> /\ Head(wire).id # 0 =>
        /\ Head(wire).id > last
        /\ \A i \in (last + 1)..(Head(wire).id - 1) : i <= trimmed

(***************************************************************************)
(* A done that the client shows for its turn was published, an error was   *)
(* published or is the row's status; the answer of an earlier turn is      *)
(* shown only to a client that never learned its turn's id.                *)
(***************************************************************************)
VerdictIsReal ==
    /\ shown.kind = "done" /\ shown.of = "this" =>
           \E i \in DOMAIN stream : stream[i] = "done"
    /\ shown.kind = "error" /\ shown.of = "this" =>
           \/ \E i \in DOMAIN stream : stream[i] = "error"
           \/ row \in {"failed", "cancelled"}
    /\ shown.of = "prev" => ~known

(***************************************************************************)
(* A client that knows its turn meets a response without a terminal event, *)
(* and forgets the stream (recoverSilentEof), only when the chat was       *)
(* deleted under it.                                                       *)
(***************************************************************************)
SilentEofMeansDeleted ==
    [][c' = "resume" /\ c # "resume" /\ known /\ reloads' = reloads => gone]_vars

(***************************************************************************)
(* send() and the resume loop end: the view gets its verdict, an error or  *)
(* a reload.  The exception is a row whose message was never enqueued.     *)
(***************************************************************************)
SendEnds == []<>(c = "over") \/ <>[](row = "active" /\ ~queued)
=============================================================================
