--------------------------- MODULE TurnTailProofs ---------------------------
(***************************************************************************)
(* The delivery of a turn's events, for any number of entries, any trim    *)
(* length, any buffer and any number of page reloads.                      *)
(***************************************************************************)
EXTENDS TurnTail, TLAPS

Kinds == {"token"} \cup Ends
Tailing == {"xread", "row", "after"}

-----------------------------------------------------------------------------
(* What is on the connection                                               *)

\* Positions of the stream's own entries.
Numbered(w) == {k \in 1..Len(w) : w[k].id # 0}

\* Entries ascend from the client's last one to the cursor.
Ascends(w, la, cu) ==
    \A k \in Numbered(w) :
        /\ la < w[k].id /\ w[k].id <= cu
        /\ \A j \in 1..(k - 1) : w[j].id < w[k].id

\* No entry between them is missing but those that Redis has trimmed.
Covers(w, la, cu, tr) ==
    /\ la <= cu
    /\ \A i \in (la + 1)..cu : i <= tr \/ \E k \in 1..Len(w) : w[k].id = i

\* Ids are numbers.
LEMMA Ids ==
    ASSUME NEW w \in Seq(Event)
    PROVE  \A k \in 1..Len(w) : w[k].id \in Nat
<1> TAKE k \in 1..Len(w)
<1>1. w[k] \in Event
  OBVIOUS
<1> QED BY <1>1 DEF Event

\* A synthetic event disturbs neither.
LEMMA Synthetic ==
    ASSUME NEW w \in Seq(Event), NEW e \in Event, e.id = 0,
           NEW la \in Nat, NEW cu \in Nat, NEW tr \in Nat
    PROVE  /\ Append(w, e) \in Seq(Event)
           /\ Numbered(Append(w, e)) = Numbered(w)
           /\ Ascends(w, la, cu) => Ascends(Append(w, e), la, cu)
           /\ Covers(w, la, cu, tr) => Covers(Append(w, e), la, cu, tr)
<1>1. /\ Append(w, e) \in Seq(Event) /\ Len(Append(w, e)) = Len(w) + 1
      /\ \A k \in 1..Len(w) : Append(w, e)[k] = w[k]
      /\ Append(w, e)[Len(w) + 1] = e
  OBVIOUS
<1>2. Numbered(Append(w, e)) = Numbered(w)
  BY <1>1 DEF Numbered
<1>3. Ascends(w, la, cu) => Ascends(Append(w, e), la, cu)
  BY <1>1, <1>2 DEF Ascends, Numbered
<1>4. Covers(w, la, cu, tr) => Covers(Append(w, e), la, cu, tr)
  BY <1>1 DEF Covers
<1> QED BY <1>1, <1>2, <1>3, <1>4

\* The next readable entry extends both.
LEMMA Entry ==
    ASSUME NEW w \in Seq(Event), NEW e \in Event,
           NEW la \in Nat, NEW cu \in Nat, NEW tr \in Nat,
           e.id > cu, \A j \in (cu + 1)..(e.id - 1) : j <= tr,
           Ascends(w, la, cu), Covers(w, la, cu, tr)
    PROVE  /\ Append(w, e) \in Seq(Event)
           /\ Ascends(Append(w, e), la, e.id)
           /\ Covers(Append(w, e), la, e.id, tr)
<1>0. e.id \in Nat
  BY DEF Event
<1>1. /\ Append(w, e) \in Seq(Event) /\ Len(Append(w, e)) = Len(w) + 1
      /\ \A k \in 1..Len(w) : Append(w, e)[k] = w[k]
      /\ Append(w, e)[Len(w) + 1] = e
  OBVIOUS
<1>2. \A k \in 1..Len(w) : w[k].id \in Nat /\ w[k].id <= cu
  BY Ids DEF Ascends, Numbered
<1>3. Ascends(Append(w, e), la, e.id)
  <2> SUFFICES ASSUME NEW k \in Numbered(Append(w, e))
               PROVE  /\ la < Append(w, e)[k].id /\ Append(w, e)[k].id <= e.id
                      /\ \A j \in 1..(k - 1) : Append(w, e)[j].id < Append(w, e)[k].id
    BY DEF Ascends
  <2>1. CASE k = Len(w) + 1
    BY <1>0, <1>1, <1>2, <2>1 DEF Covers
  <2>2. CASE k \in 1..Len(w)
    <3>1. Append(w, e)[k] = w[k] /\ k \in Numbered(w)
      BY <1>1, <2>2 DEF Numbered
    <3>2. \A j \in 1..(k - 1) : Append(w, e)[j] = w[j]
      BY <1>1, <2>2
    <3> QED BY <1>0, <1>2, <2>2, <3>1, <3>2 DEF Ascends
  <2> QED BY <1>1, <2>1, <2>2 DEF Numbered
<1>4. Covers(Append(w, e), la, e.id, tr)
  BY <1>0, <1>1 DEF Covers
<1> QED BY <1>1, <1>3, <1>4

\* So does the client's taking of the head.
LEMMA Popped ==
    ASSUME NEW w \in Seq(Event), w # <<>>,
           NEW la \in Nat, NEW cu \in Nat, NEW tr \in Nat, NEW lb \in Nat,
           lb = IF Head(w).id # 0 THEN Head(w).id ELSE la,
           Ascends(w, la, cu)
    PROVE  /\ Tail(w) \in Seq(Event)
           /\ Ascends(Tail(w), lb, cu)
           /\ Covers(w, la, cu, tr) => Covers(Tail(w), lb, cu, tr)
           /\ Numbered(Tail(w)) # {} => Numbered(w) # {}
<1>1. /\ Len(w) \in Nat /\ Len(w) > 0 /\ Head(w) = w[1] /\ w[1] \in Event
      /\ Tail(w) \in Seq(Event) /\ Len(Tail(w)) = Len(w) - 1
      /\ \A k \in 1..(Len(w) - 1) : Tail(w)[k] = w[k + 1]
  OBVIOUS
<1>2. \A k \in 1..Len(w) : w[k].id \in Nat
  BY Ids
<1>3. \A k \in 1..(Len(w) - 1) : k \in Numbered(Tail(w)) <=> k + 1 \in Numbered(w)
  <2> TAKE k \in 1..(Len(w) - 1)
  <2>1. k + 1 \in 1..Len(w) /\ k \in 1..Len(Tail(w)) /\ Tail(w)[k] = w[k + 1]
    BY <1>1
  <2> QED BY <2>1 DEF Numbered
<1>4. Ascends(Tail(w), lb, cu)
  <2> SUFFICES ASSUME NEW k \in Numbered(Tail(w))
               PROVE  /\ lb < Tail(w)[k].id /\ Tail(w)[k].id <= cu
                      /\ \A j \in 1..(k - 1) : Tail(w)[j].id < Tail(w)[k].id
    BY DEF Ascends
  <2>1. k \in 1..(Len(w) - 1) /\ k + 1 \in Numbered(w) /\ Tail(w)[k] = w[k + 1]
    BY <1>1, <1>3 DEF Numbered
  <2>2. /\ la < w[k + 1].id /\ w[k + 1].id <= cu
        /\ \A j \in 1..k : w[j].id < w[k + 1].id
    BY <2>1 DEF Ascends
  <2>3. w[1].id < w[k + 1].id
    BY <2>1, <2>2
  <2> QED BY <1>1, <2>1, <2>2, <2>3
<1>5. ASSUME Covers(w, la, cu, tr) PROVE Covers(Tail(w), lb, cu, tr)
  <2>1. lb <= cu /\ la <= lb
    BY <1>1, <1>2, <1>5 DEF Covers, Ascends, Numbered
  <2> SUFFICES ASSUME NEW i \in (lb + 1)..cu, ~(i <= tr)
               PROVE  \E k \in 1..Len(Tail(w)) : Tail(w)[k].id = i
    BY <2>1 DEF Covers
  <2>2. PICK k \in 1..Len(w) : w[k].id = i
    BY <1>5, <2>1 DEF Covers
  <2>3. k # 1
    BY <1>1, <1>2, <2>1, <2>2
  <2> QED BY <1>1, <2>2, <2>3
<1> QED BY <1>1, <1>3, <1>4, <1>5 DEF Numbered

\* There is a terminal event before position n.
Tells(w, n) == \E j \in 1..(n - 1) : w[j].kind \in Ends

\* Every end of a response comes after a terminal event.
EofsTold(w) == \A k \in 1..Len(w) : w[k].kind = "eof" => Tells(w, k)

\* Adding an event: an end must be told before, a terminal event tells.
LEMMA ToldAppend ==
    ASSUME NEW w \in Seq(Event), NEW e \in Event
    PROVE  /\ EofsTold(w) /\ (e.kind # "eof" \/ Tells(w, Len(w) + 1))
                  => EofsTold(Append(w, e))
           /\ Tells(w, Len(w) + 1) \/ e.kind \in Ends
                  => Tells(Append(w, e), Len(Append(w, e)) + 1)
<1>1. /\ Len(w) \in Nat /\ Len(Append(w, e)) = Len(w) + 1
      /\ \A k \in 1..Len(w) : Append(w, e)[k] = w[k]
      /\ Append(w, e)[Len(w) + 1] = e
  OBVIOUS
<1>2. \A n \in 1..(Len(w) + 1) : Tells(w, n) => Tells(Append(w, e), n)
  BY <1>1 DEF Tells
<1>3. ASSUME EofsTold(w), e.kind # "eof" \/ Tells(w, Len(w) + 1)
      PROVE  EofsTold(Append(w, e))
  <2> SUFFICES ASSUME NEW k \in 1..Len(Append(w, e)), Append(w, e)[k].kind = "eof"
               PROVE  Tells(Append(w, e), k)
    BY DEF EofsTold
  <2>1. CASE k = Len(w) + 1
    BY <1>1, <1>2, <1>3, <2>1
  <2>2. CASE k \in 1..Len(w)
    BY <1>1, <1>2, <1>3, <2>2 DEF EofsTold
  <2> QED BY <1>1, <2>1, <2>2
<1>4. ASSUME Tells(w, Len(w) + 1) \/ e.kind \in Ends
      PROVE  Tells(Append(w, e), Len(w) + 2)
  <2>1. CASE Tells(w, Len(w) + 1)
    <3>1. PICK j \in 1..Len(w) : w[j].kind \in Ends
      BY <1>1, <2>1 DEF Tells
    <3>2. j \in 1..(Len(w) + 1) /\ Append(w, e)[j].kind \in Ends
      BY <1>1, <3>1
    <3> QED BY <1>1, <3>2 DEF Tells
  <2>2. CASE e.kind \in Ends
    <3>1. Len(w) + 1 \in 1..(Len(w) + 1) /\ Append(w, e)[Len(w) + 1].kind \in Ends
      BY <1>1, <2>2
    <3> QED BY <1>1, <3>1 DEF Tells
  <2> QED BY <1>4, <2>1, <2>2
<1> QED BY <1>1, <1>3, <1>4

\* Taking an event that is not terminal.
LEMMA ToldTail ==
    ASSUME NEW w \in Seq(Event), w # <<>>, Head(w).kind \notin Ends
    PROVE  /\ EofsTold(w) => EofsTold(Tail(w))
           /\ Tells(w, Len(w) + 1) => Tells(Tail(w), Len(Tail(w)) + 1)
<1>1. /\ Len(w) \in Nat /\ Len(w) > 0 /\ Head(w) = w[1] /\ Len(Tail(w)) = Len(w) - 1
      /\ \A k \in 1..(Len(w) - 1) : Tail(w)[k] = w[k + 1]
  OBVIOUS
<1>2. ASSUME NEW n \in 1..Len(w), Tells(w, n + 1) PROVE Tells(Tail(w), n)
  <2>1. PICK j \in 1..n : w[j].kind \in Ends
    BY <1>2 DEF Tells
  <2>2. j # 1 /\ j - 1 \in 1..(n - 1) /\ Tail(w)[j - 1] = w[j]
    BY <1>1, <2>1
  <2> QED BY <2>1, <2>2 DEF Tells
<1>3. ASSUME EofsTold(w) PROVE EofsTold(Tail(w))
  <2> SUFFICES ASSUME NEW k \in 1..Len(Tail(w)), Tail(w)[k].kind = "eof"
               PROVE  Tells(Tail(w), k)
    BY DEF EofsTold
  <2>1. k + 1 \in 1..Len(w) /\ w[k + 1].kind = "eof"
    BY <1>1
  <2>2. Tells(w, k + 1)
    BY <1>3, <2>1 DEF EofsTold
  <2> QED BY <1>1, <1>2, <2>2
<1>4. Len(Tail(w)) + 1 = Len(w) /\ Len(w) \in 1..Len(w)
  BY <1>1
<1> QED BY <1>2, <1>3, <1>4

-----------------------------------------------------------------------------
(* The inductive invariant                                                 *)

\* How the loops of the client and the handlers go together.
FlowInv ==
    /\ c = "run" => h # "lookup" /\ shown.of # "prev"
    /\ c = "run" /\ rt # "end" => h = "wait"
    /\ h = "wait" => c = "run" /\ rt # "end" /\ last = 0 /\ ~known
    /\ h \in {"wait", "lookup"} => wire = <<>>
    /\ rt = "prep" => row = "absent"
    /\ rt = "made" => row # "absent"
    /\ known => row # "absent"
    /\ \A k \in 1..Len(wire) :
          /\ wire[k].kind = "started" => c = "run" /\ row # "absent"
          /\ wire[k].of = "prev" => c # "run" /\ ~known

\* The connection continues where the client is.
OrderInv ==
    /\ Ascends(wire, last, cursor)
    /\ h \in Tailing \/ Numbered(wire) # {} => Covers(wire, last, cursor, trimmed)

\* What an event of this turn claims is so.
Published(k) == \E i \in DOMAIN stream : stream[i] = k
Real(e) ==
    /\ e.kind = "done" /\ e.of = "this" => Published("done")
    /\ e.kind = "error" /\ e.of = "this" =>
           Published("error") \/ row \in {"failed", "cancelled"}
VerdictInv ==
    /\ row = "completed" => Published("done")
    /\ \A k \in 1..Len(wire) : Real(wire[k])
    /\ Real(shown) /\ (shown.of = "prev" => ~known)

\* A response to a client that knows its turn ends after a terminal event,
\* unless the chat is gone.
SilentInv ==
    c \in {"tail", "retail"} /\ known /\ ~gone /\ ~terminal =>
        /\ EofsTold(wire)
        /\ h = "after" => row \in Final \/ Tells(wire, Len(wire) + 1)

TailInv == TypeOK /\ FlowInv /\ OrderInv /\ VerdictInv /\ SilentInv

-----------------------------------------------------------------------------
(* Types                                                                   *)

\* Whatever a handler adds to the connection is an event.
LEMMA Sent ==
    ASSUME NEW w \in Seq(Event)
    PROVE  /\ AndEof(w) \in Seq(Event) /\ AndFail(w) \in Seq(Event)
           /\ AndRefusal(w) \in Seq(Event) /\ AndTerminal(w) \in Seq(Event)
           /\ Append(w, Ev("started", 0, "this")) \in Seq(Event)
           /\ Append(w, Ev("done", 0, "prev")) \in Seq(Event)
           /\ NoEvent \in Event
<1>1. \A k \in {"started", "eof", "fail"} \cup Ends, o \in {"this", "prev", "none"} :
          Ev(k, 0, o) \in Event
  BY DEF Ev, Event
<1>2. \A v \in Seq(Event), e \in Event : Append(v, e) \in Seq(Event)
  OBVIOUS
<1> QED BY <1>1, <1>2 DEF AndEof, AndFail, AndRefusal, AndTerminal, Ends, NoEvent

\* The initial states have their types.
LEMMA TypeInit == Init => TypeOK
<1> SUFFICES ASSUME Init PROVE TypeOK
  OBVIOUS
<1>1. gone \in BOOLEAN /\ deleting \in BOOLEAN /\ queued \in BOOLEAN
      /\ known \in BOOLEAN /\ terminal \in BOOLEAN
  BY Zenon DEF Init
<1>2. shown \in Event
  BY DEF Init, NoEvent, Ev, Event
<1> QED BY <1>1, <1>2 DEF Init, TypeOK, Streaming, Ends, Final

\* Every step keeps the types.
LEMMA TypeStep == TypeOK /\ OrderInv /\ [Next]_vars => TypeOK'
<1> SUFFICES ASSUME TypeOK, OrderInv, [Next]_vars PROVE TypeOK'
  OBVIOUS
<1>0. wire # <<>> => /\ Head(wire) \in Event /\ Tail(wire) \in Seq(Event)
                     /\ Head(wire).id \in 0..Len(stream)
  <2> SUFFICES ASSUME wire # <<>>
               PROVE  /\ Head(wire) \in Event /\ Tail(wire) \in Seq(Event)
                      /\ Head(wire).id \in 0..Len(stream)
    OBVIOUS
  <2>1. 1 \in 1..Len(wire) /\ Head(wire) = wire[1] /\ Tail(wire) \in Seq(Event)
        /\ wire[1] \in Event
    BY DEF TypeOK
  <2>2. wire[1].id \in Nat
    BY <2>1 DEF Event
  <2> QED BY <2>1, <2>2 DEF TypeOK, OrderInv, Ascends, Numbered
<1> << >> \in Seq(Event)
  OBVIOUS
<1> USE DEF TypeOK, server, client, Final, Ends, Streaming
<1>1. ASSUME NEW k \in {"token"} \cup Ends, Publish(k) PROVE TypeOK'
  BY <1>1, TailConstants DEF Publish
<1>2. ASSUME NEW s \in Final, Finalize(s) PROVE TypeOK'
  BY <1>2 DEF Finalize
<1>3. CASE StreamExpires
  BY <1>3 DEF StreamExpires
<1>4. CASE DeleteCheck
  BY <1>4 DEF DeleteCheck
<1>5. CASE DeleteCommit
  <2>1. gone' \in BOOLEAN /\ deleting' \in BOOLEAN
    BY <1>5, Zenon DEF DeleteCommit
  <2> QED BY <1>5, <2>1 DEF DeleteCommit
<1>6. CASE Refuse
  BY <1>6, Sent DEF Refuse, Leave, Answer
<1>7. CASE RunRaises
  BY <1>7, Sent DEF RunRaises, Leave, Answer
<1>8. CASE Create
  BY <1>8 DEF Create
<1>9. CASE Enqueue
  <2>1. queued' \in BOOLEAN
    BY <1>9, Zenon DEF Enqueue
  <2>2. wire' \in Seq(Event)
    BY <1>9, Sent DEF Enqueue, Answer
  <2>3. cursor' \in 0..Len(stream')
    BY <1>9 DEF Enqueue
  <2>4. h' \in {"wait", "lookup", "xread", "row", "after", "end"}
    BY <1>9 DEF Enqueue
  <2>5. UNCHANGED <<stream, trimmed, row, gone, deleting, prev, client>> /\ rt' = "end"
    BY <1>9 DEF Enqueue
  <2> QED BY <2>1, <2>2, <2>3, <2>4, <2>5
<1>10. CASE EnqueueFails
  BY <1>10, Sent DEF EnqueueFails, Leave, Answer
<1>11. CASE RunCancelled
  BY <1>11 DEF RunCancelled
<1>12. CASE Lookup
  <2>1. wire' \in Seq(Event)
    BY <1>12, Sent DEF Lookup
  <2> QED BY <1>12, <2>1 DEF Lookup, From
<1>13. CASE YieldEntry
  <2>1. PICK i \in Readable : /\ wire' = Append(wire, Ev(stream[i], i, "this"))
                              /\ cursor' = i
                              /\ h' = IF stream[i] \in Ends THEN "after" ELSE "xread"
    BY <1>13 DEF YieldEntry, Advance
  <2>2. i \in 1..Len(stream) /\ stream[i] \in {"token"} \cup Ends
    BY DEF Readable
  <2>3. Ev(stream[i], i, "this") \in Event
    BY <2>2 DEF Ev, Event
  <2> QED BY <1>13, <2>1, <2>2, <2>3 DEF YieldEntry
<1>14. CASE EmptyRead
  BY <1>14 DEF EmptyRead
<1>15. CASE CheckRow
  BY <1>15 DEF CheckRow
<1>16. CASE AfterTail
  BY <1>16, Sent DEF AfterTail
<1>17. CASE OnProgress
  <2>1. known' \in BOOLEAN
    BY <1>17, Zenon DEF OnProgress
  <2> QED BY <1>0, <1>17, <2>1 DEF OnProgress, Note
<1>18. CASE OnTerminal
  <2>1. terminal' \in BOOLEAN
    BY <1>18, Zenon DEF OnTerminal, Stop
  <2>2. wire' \in Seq(Event) /\ shown' \in Event
    BY <1>0, <1>18 DEF OnTerminal, Note, Stop
  <2>3. last' \in 0..Len(stream) /\ cursor' = cursor /\ reloads' \in Nat
    BY <1>0, <1>18 DEF OnTerminal, Note, Stop
  <2>4. c' \in Streaming \cup {"over"}
        /\ h' \in {"wait", "lookup", "xread", "row", "after", "end"}
    BY <1>0, <1>18 DEF OnTerminal, Note, Stop
  <2>5. UNCHANGED <<server, known>>
    BY <1>0, <1>18 DEF OnTerminal, Note, Stop
  <2> QED BY <2>1, <2>2, <2>3, <2>4, <2>5
<1>19. CASE OnEof
  <2>1. terminal' \in BOOLEAN /\ known' \in BOOLEAN
    BY <1>19, Zenon DEF OnEof, Stop, Recover, TailTurn
  <2>2. wire' \in Seq(Event) /\ shown' \in Event
    BY <1>19 DEF OnEof, Stop, Recover, TailTurn
  <2>3. last' \in 0..Len(stream) /\ cursor' = cursor /\ reloads' \in Nat
    BY <1>19 DEF OnEof, Stop, Recover, TailTurn
  <2>4. c' \in Streaming \cup {"over"}
        /\ h' \in {"wait", "lookup", "xread", "row", "after", "end"}
    BY <1>19 DEF OnEof, Stop, Recover, TailTurn
  <2>5. UNCHANGED server
    BY <1>19 DEF OnEof, Stop, Recover, TailTurn
  <2> QED BY <2>1, <2>2, <2>3, <2>4, <2>5
<1>20. CASE OnFail \/ Disconnect
  <2>1. terminal' \in BOOLEAN
    BY <1>20, Zenon DEF OnFail, Disconnect, Caught, Stop, TailTurn
  <2>2. wire' \in Seq(Event) /\ shown' \in Event
    BY <1>20 DEF OnFail, Disconnect, Caught, Stop, TailTurn
  <2>3. last' \in 0..Len(stream) /\ cursor' = cursor /\ reloads' \in Nat
    BY <1>20 DEF OnFail, Disconnect, Caught, Stop, TailTurn
  <2>4. c' \in Streaming \cup {"over"}
        /\ h' \in {"wait", "lookup", "xread", "row", "after", "end"}
    BY <1>20 DEF OnFail, Disconnect, Caught, Stop, TailTurn
  <2>5. UNCHANGED <<server, known>>
    BY <1>20 DEF OnFail, Disconnect, Caught, Stop, TailTurn
  <2> QED BY <2>1, <2>2, <2>3, <2>4, <2>5
<1>21. CASE Abandon
  BY <1>21 DEF Abandon, Stop
<1>22. CASE PageReload
  <2>1. terminal' \in BOOLEAN /\ known' \in BOOLEAN
    BY <1>22, Zenon DEF PageReload, Recover, TailTurn
  <2>2. wire' \in Seq(Event) /\ shown' \in Event
    BY <1>22, Sent DEF PageReload, Recover, TailTurn
  <2>3. last' \in 0..Len(stream) /\ cursor' = cursor /\ reloads' \in Nat
    BY <1>22, Sent DEF PageReload, Recover, TailTurn
  <2>4. c' \in Streaming \cup {"over"}
        /\ h' \in {"wait", "lookup", "xread", "row", "after", "end"}
    BY <1>22, Sent DEF PageReload, Recover, TailTurn
  <2>5. UNCHANGED server
    BY <1>22, Sent DEF PageReload, Recover, TailTurn
  <2> QED BY <2>1, <2>2, <2>3, <2>4, <2>5
<1>23. CASE UNCHANGED vars
  BY <1>23 DEF vars
<1> QED
  BY <1>1, <1>2, <1>3, <1>4, <1>5, <1>6, <1>7, <1>8, <1>9, <1>10, <1>11, <1>12,
     <1>13, <1>14, <1>15, <1>16, <1>17, <1>18, <1>19, <1>20, <1>21, <1>22, <1>23
  DEF Next, Writer, RunTurn, Handler, Receive
-----------------------------------------------------------------------------
(* The steps                                                               *)

\* Every step keeps the loops and the handlers together.
LEMMA FlowStep == TypeOK /\ FlowInv /\ [Next]_vars => FlowInv'
<1> SUFFICES ASSUME TypeOK, FlowInv, [Next]_vars PROVE FlowInv'
  OBVIOUS
<1> USE DEF TypeOK, FlowInv, server, client, Final, Ends, Streaming
<1>1. ASSUME NEW k \in {"token"} \cup Ends, Publish(k) PROVE FlowInv'
  BY <1>1 DEF Publish
<1>2. ASSUME NEW s \in Final, Finalize(s) PROVE FlowInv'
  BY <1>2 DEF Finalize
<1>3. CASE StreamExpires
  BY <1>3 DEF StreamExpires
<1>4. CASE DeleteCheck
  BY <1>4 DEF DeleteCheck
<1>5. CASE DeleteCommit
  BY <1>5 DEF DeleteCommit
<1>6. CASE Refuse
  BY <1>6 DEF Refuse, Leave, Answer, AndRefusal, AndEof, Ev
<1>7. CASE RunRaises
  BY <1>7 DEF RunRaises, Leave, Answer, AndFail, Ev
<1>8. CASE Create
  BY <1>8 DEF Create
<1>9. CASE Enqueue
  BY <1>9 DEF Enqueue, Answer, Ev
<1>10. CASE EnqueueFails
  BY <1>10 DEF EnqueueFails, Leave, Answer, AndRefusal, AndEof, Ev
<1>11. CASE RunCancelled
  BY <1>11 DEF RunCancelled
<1>12. CASE Lookup
  BY <1>12 DEF Lookup, From, AndFail, AndEof, AndTerminal, Ev
<1>13. CASE YieldEntry
  BY <1>13 DEF YieldEntry, Advance, Readable, Ev
<1>14. CASE EmptyRead
  BY <1>14 DEF EmptyRead
<1>15. CASE CheckRow
  BY <1>15 DEF CheckRow, RowIsOver
<1>16. CASE AfterTail
  BY <1>16 DEF AfterTail, AndEof, AndTerminal, Ev
<1>17. CASE OnProgress
  BY <1>17 DEF OnProgress, Note
<1>18. CASE OnTerminal
  <2>1. /\ 1 \in 1..Len(wire) /\ Head(wire) = wire[1] /\ Len(Tail(wire)) = Len(wire) - 1
        /\ \A k \in 1..(Len(wire) - 1) : Tail(wire)[k] = wire[k + 1]
    BY <1>18 DEF OnTerminal
  <2>2. CASE c # "resume"
    <3>1. UNCHANGED <<c, h, known, row, rt>> /\ wire' = Tail(wire) /\ shown' = wire[1]
      BY <1>18, <2>1, <2>2 DEF OnTerminal
    <3>2. h \notin {"wait", "lookup"}
      BY <1>18 DEF OnTerminal
    <3> QED BY <2>1, <3>1, <3>2
  <2>3. CASE c = "resume"
    BY <1>18, <2>3 DEF OnTerminal, Stop
  <2> QED BY <2>2, <2>3
<1>19. CASE OnEof
  BY <1>19 DEF OnEof, Stop, Recover, TailTurn
<1>20. CASE OnFail \/ Disconnect
  BY <1>20 DEF OnFail, Disconnect, Caught, Stop, TailTurn
<1>21. CASE Abandon
  BY <1>21 DEF Abandon, Stop
<1>22. CASE PageReload
  BY <1>22 DEF PageReload, Recover, TailTurn, NoEvent, Ev
<1>23. CASE UNCHANGED vars
  BY <1>23 DEF vars
<1> HIDE DEF FlowInv
<1> QED
  BY <1>1, <1>2, <1>3, <1>4, <1>5, <1>6, <1>7, <1>8, <1>9, <1>10, <1>11, <1>12,
     <1>13, <1>14, <1>15, <1>16, <1>17, <1>18, <1>19, <1>20, <1>21, <1>22, <1>23
  DEF Next, Writer, RunTurn, Handler, Receive

\* Every step lets the connection continue where the client is.
LEMMA OrderStep == TypeOK /\ FlowInv /\ OrderInv /\ [Next]_vars => OrderInv'
<1> SUFFICES ASSUME TypeOK, FlowInv, OrderInv, [Next]_vars PROVE OrderInv'
  OBVIOUS
<1>0. \A w \in Seq(Event), k \in {"started", "eof", "fail"} \cup Ends,
         o \in {"this", "prev", "none"} :
        /\ Append(w, Ev(k, 0, o)) \in Seq(Event)
        /\ Numbered(Append(w, Ev(k, 0, o))) = Numbered(w)
        /\ Ascends(w, last, cursor) => Ascends(Append(w, Ev(k, 0, o)), last, cursor)
        /\ Covers(w, last, cursor, trimmed)
               => Covers(Append(w, Ev(k, 0, o)), last, cursor, trimmed)
  <2> TAKE w \in Seq(Event), k \in {"started", "eof", "fail"} \cup Ends,
           o \in {"this", "prev", "none"}
  <2>1. Ev(k, 0, o) \in Event /\ Ev(k, 0, o).id = 0
    BY DEF Ev, Event
  <2> QED BY <2>1, Synthetic DEF TypeOK
<1>a. /\ Numbered(<<>>) = {} /\ \A la, cu : Ascends(<<>>, la, cu)
      /\ \A la \in Nat : \A tr : Covers(<<>>, la, la, tr)
  BY DEF Numbered, Ascends, Covers
<1> USE DEF TypeOK, OrderInv, server, client, Final, Ends, Streaming, Tailing
<1>1. ASSUME NEW k \in {"token"} \cup Ends, Publish(k) PROVE OrderInv'
  <2>1. trimmed <= trimmed' /\ trimmed' \in Nat
    BY <1>1 DEF Publish
  <2>2. Covers(wire, last, cursor, trimmed) => Covers(wire, last, cursor, trimmed')
    BY <2>1 DEF Covers
  <2> QED BY <1>1, <2>2 DEF Publish
<1>2. ASSUME NEW s \in Final, Finalize(s) PROVE OrderInv'
  BY <1>2 DEF Finalize
<1>3. CASE StreamExpires
  <2>1. trimmed <= trimmed' /\ trimmed' \in Nat
    BY <1>3 DEF StreamExpires
  <2>2. Covers(wire, last, cursor, trimmed) => Covers(wire, last, cursor, trimmed')
    BY <2>1 DEF Covers
  <2> QED BY <1>3, <2>2 DEF StreamExpires
<1>4. CASE DeleteCheck
  BY <1>4 DEF DeleteCheck
<1>5. CASE DeleteCommit
  BY <1>5 DEF DeleteCommit
<1>6. CASE Refuse
  BY <1>0, <1>6 DEF Refuse, Leave, Answer, AndRefusal, AndEof
<1>7. CASE RunRaises
  BY <1>0, <1>7 DEF RunRaises, Leave, Answer, AndFail
<1>8. CASE Create
  BY <1>8 DEF Create
<1>9. CASE Enqueue
  <2>1. CASE c = "run"
    <3>1. last = 0 /\ wire = <<>> /\ cursor' = 0 /\ last' = 0 /\ trimmed' = trimmed
          /\ wire' = Append(<<>>, Ev("started", 0, "this"))
      BY <1>9, <2>1 DEF Enqueue, Answer, FlowInv
    <3>2. Ev("started", 0, "this") \in Event /\ Ev("started", 0, "this").id = 0
          /\ <<>> \in Seq(Event)
      BY DEF Ev, Event
    <3>3. Numbered(wire') = {} /\ Ascends(wire', 0, 0) /\ Covers(wire', 0, 0, trimmed)
      <4> DEFINE e == Ev("started", 0, "this")
      <4>1. Ascends(<<>>, 0, 0) /\ Covers(<<>>, 0, 0, trimmed)
            /\ Numbered(<<>>) = {} /\ trimmed \in Nat
        BY <1>a
      <4>2. e \in Event /\ e.id = 0 /\ <<>> \in Seq(Event)
        BY <3>2
      <4> HIDE DEF e
      <4>3. /\ Numbered(Append(<<>>, e)) = {} /\ Ascends(Append(<<>>, e), 0, 0)
            /\ Covers(Append(<<>>, e), 0, 0, trimmed)
        BY <4>1, <4>2 DEF Numbered, Ascends, Covers
      <4> QED BY <3>1, <4>3 DEF e
    <3> QED BY <3>1, <3>3
  <2>2. CASE c # "run"
    BY <1>9, <2>2 DEF Enqueue, Answer
  <2> QED BY <2>1, <2>2
<1>10. CASE EnqueueFails
  BY <1>0, <1>10 DEF EnqueueFails, Leave, Answer, AndRefusal, AndEof
<1>11. CASE RunCancelled
  BY <1>11 DEF RunCancelled
<1>12. CASE Lookup
  <2>1. wire = <<>> /\ wire \in Seq(Event)
    BY <1>12 DEF Lookup, FlowInv
  <2>2. CASE row = "active" /\ ~gone
    BY <1>12, <1>a, <2>1, <2>2 DEF Lookup, From
  <2>3. CASE ~(row = "active" /\ ~gone)
    <3>1. Numbered(wire') = {} /\ Ascends(wire', last, cursor) /\ h' = "end"
          /\ UNCHANGED <<cursor, last>>
      <4>1. CASE wire' = AndFail(wire)
        BY <1>0, <1>12, <1>a, <2>1, <2>3, <4>1 DEF Lookup, AndFail
      <4>2. CASE wire' = AndEof(AndTerminal(wire))
        <5>1. AndTerminal(wire) \in Seq(Event) /\ Numbered(AndTerminal(wire)) = {}
              /\ Ascends(AndTerminal(wire), last, cursor)
          BY <1>0, <1>a, <2>1 DEF AndTerminal
        <5> QED BY <1>0, <1>12, <2>3, <4>2, <5>1 DEF Lookup, AndEof
      <4>3. CASE wire' = AndEof(IF prev THEN Append(wire, Ev("done", 0, "prev")) ELSE wire)
        <5> DEFINE w == IF prev THEN Append(wire, Ev("done", 0, "prev")) ELSE wire
        <5>1. w \in Seq(Event) /\ Numbered(w) = {} /\ Ascends(w, last, cursor)
          BY <1>0, <1>a, <2>1
        <5> HIDE DEF w
        <5>2. wire' = AndEof(w)
          BY <4>3 DEF w
        <5> QED BY <1>0, <1>12, <2>3, <5>1, <5>2 DEF Lookup, AndEof
      <4> QED BY <1>12, <2>3, <4>1, <4>2, <4>3 DEF Lookup
    <3> QED BY <3>1
  <2> QED BY <2>2, <2>3
<1>13. CASE YieldEntry
  <2>1. PICK i \in Readable : /\ \A j \in Readable : i <= j
                              /\ wire' = Append(wire, Ev(stream[i], i, "this"))
                              /\ cursor' = i
    BY <1>13 DEF YieldEntry, Advance
  <2>2. i \in 1..Len(stream) /\ i > cursor /\ stream[i] \in {"token"} \cup Ends
    BY DEF Readable
  <2>3. Ev(stream[i], i, "this") \in Event /\ Ev(stream[i], i, "this").id = i
    BY <2>2 DEF Ev, Event
  <2>4. \A j \in (cursor + 1)..(i - 1) : j <= trimmed
    <3> SUFFICES ASSUME NEW j \in (cursor + 1)..(i - 1), ~(j <= trimmed) PROVE FALSE
      OBVIOUS
    <3>1. j \in Readable
      BY <2>2 DEF Readable
    <3> QED BY <2>1, <2>2, <3>1
  <2>5. Ascends(wire, last, cursor) /\ Covers(wire, last, cursor, trimmed)
    BY <1>13 DEF YieldEntry
  <2>6. Ascends(wire', last, i) /\ Covers(wire', last, i, trimmed)
    <3> DEFINE e == Ev(stream[i], i, "this")
    <3>1. wire \in Seq(Event) /\ e \in Event /\ e.id = i
      BY <2>3
    <3>2. last \in Nat /\ cursor \in Nat /\ trimmed \in Nat
      OBVIOUS
    <3> HIDE DEF e
    <3>3. e.id > cursor /\ \A j \in (cursor + 1)..(e.id - 1) : j <= trimmed
      BY <2>2, <2>4, <3>1
    <3>4. Ascends(Append(wire, e), last, e.id) /\ Covers(Append(wire, e), last, e.id, trimmed)
      BY <2>5, <3>1, <3>2, <3>3, Entry
    <3> QED BY <2>1, <3>1, <3>4 DEF e
  <2>7. UNCHANGED <<last, trimmed>>
    BY <1>13 DEF YieldEntry
  <2> QED BY <2>1, <2>6, <2>7
<1>14. CASE EmptyRead
  BY <1>14 DEF EmptyRead
<1>15. CASE CheckRow
  BY <1>15 DEF CheckRow, RowIsOver
<1>16. CASE AfterTail
  BY <1>0, <1>16 DEF AfterTail, AndEof, AndTerminal
<1>17. CASE OnProgress
  <2>1. wire # <<>> /\ wire' = Tail(wire) /\ UNCHANGED <<h, cursor, trimmed>>
        /\ last' = IF Head(wire).id # 0 THEN Head(wire).id ELSE last
    BY <1>17 DEF OnProgress, Note
  <2>2. last' \in Nat
    BY TypeStep
  <2> QED BY <2>1, <2>2, Popped
<1>18. CASE OnTerminal
  <2>1. CASE c # "resume"
    <3>1. wire # <<>> /\ wire' = Tail(wire) /\ UNCHANGED <<h, cursor, trimmed>>
          /\ last' = IF Head(wire).id # 0 THEN Head(wire).id ELSE last
      BY <1>18, <2>1 DEF OnTerminal, Note
    <3>2. last' \in Nat
      BY TypeStep
    <3> QED BY <3>1, <3>2, Popped
  <2>2. CASE c = "resume"
    BY <1>18, <1>a, <2>2 DEF OnTerminal, Stop
  <2> QED BY <2>1, <2>2
<1>19. CASE OnEof
  BY <1>19, <1>a DEF OnEof, Stop, Recover, TailTurn
<1>20. CASE OnFail \/ Disconnect
  BY <1>20, <1>a DEF OnFail, Disconnect, Caught, Stop, TailTurn
<1>21. CASE Abandon
  BY <1>21, <1>a DEF Abandon, Stop
<1>22. CASE PageReload
  BY <1>22, <1>a DEF PageReload, Recover, TailTurn
<1>23. CASE UNCHANGED vars
  BY <1>23 DEF vars
<1> HIDE DEF OrderInv
<1> QED
  BY <1>1, <1>2, <1>3, <1>4, <1>5, <1>6, <1>7, <1>8, <1>9, <1>10, <1>11, <1>12,
     <1>13, <1>14, <1>15, <1>16, <1>17, <1>18, <1>19, <1>20, <1>21, <1>22, <1>23
  DEF Next, Writer, RunTurn, Handler, Receive

\* Every step keeps the events of the turn true.
LEMMA VerdictStep == TypeOK /\ FlowInv /\ VerdictInv /\ [Next]_vars => VerdictInv'
<1> SUFFICES ASSUME TypeOK, FlowInv, VerdictInv, [Next]_vars PROVE VerdictInv'
  OBVIOUS
<1> USE DEF TypeOK, FlowInv, VerdictInv, Real, Published, server, client, Final, Ends, Streaming
<1>1. ASSUME NEW k \in {"token"} \cup Ends, Publish(k) PROVE VerdictInv'
  <2>1. ASSUME NEW x, Published(x) PROVE Published(x)'
    <3>1. PICK i \in 1..Len(stream) : stream[i] = x
      BY <2>1
    <3>2. i \in 1..Len(stream') /\ stream'[i] = x
      BY <1>1, <3>1 DEF Publish
    <3> QED BY <1>1, <3>2 DEF Publish
  <2>2. UNCHANGED <<row, wire, shown, known>>
    BY <1>1 DEF Publish
  <2> HIDE DEF Published
  <2> QED BY <2>1, <2>2
<1>2. ASSUME NEW s \in Final, Finalize(s) PROVE VerdictInv'
  BY <1>2 DEF Finalize
<1>3. CASE StreamExpires
  BY <1>3 DEF StreamExpires
<1>4. CASE DeleteCheck
  BY <1>4 DEF DeleteCheck
<1>5. CASE DeleteCommit
  BY <1>5 DEF DeleteCommit
<1>6. CASE Refuse
  BY <1>6 DEF Refuse, Leave, Answer, AndRefusal, AndEof, Ev
<1>7. CASE RunRaises
  BY <1>7 DEF RunRaises, Leave, Answer, AndFail, Ev
<1>8. CASE Create
  BY <1>8 DEF Create
<1>9. CASE Enqueue
  BY <1>9 DEF Enqueue, Answer, Ev
<1>10. CASE EnqueueFails
  BY <1>10 DEF EnqueueFails, Leave, Answer, AndRefusal, AndEof, Ev
<1>11. CASE RunCancelled
  BY <1>11 DEF RunCancelled
<1>12. CASE Lookup
  <2>1. wire = <<>> /\ UNCHANGED <<stream, row, shown, known>>
    BY <1>12 DEF Lookup
  <2>3. CASE gone \/ row = "active"
    BY <1>12, <2>1, <2>3 DEF Lookup, AndFail, Ev
  <2>4. CASE ~gone /\ row = "completed"
    BY <1>12, <2>1, <2>4 DEF Lookup, AndEof, AndTerminal, Ev
  <2>5. CASE ~gone /\ row \in {"failed", "cancelled"}
    <3> DEFINE e == Ev("error", 0, "this")
               f == Ev("eof", 0, "none")
    <3>1. wire' = Append(Append(<<>>, e), f)
      BY <1>12, <2>1, <2>5 DEF Lookup, AndEof, AndTerminal
    <3>2. e \in Event /\ f \in Event /\ e.kind = "error" /\ f.kind = "eof"
          /\ e.of = "this" /\ f.of = "none"
      BY DEF Ev, Event
    <3> HIDE DEF e, f
    <3>3. \A k \in 1..Len(wire') : wire'[k] \in {e, f}
      <4>1. <<e>> \in Seq(Event) /\ Append(<<>>, e) = <<e>> /\ Len(<<e>>) = 1
        BY <3>2
      <4>2. \A w \in Seq(Event) : \A k \in 1..Len(Append(w, f)) :
                Append(w, f)[k] = f \/ (k \in 1..Len(w) /\ Append(w, f)[k] = w[k])
        BY <3>2
      <4> QED BY <3>1, <4>1, <4>2
    <3> QED BY <2>1, <3>2, <3>3, <2>5
  <2>6. CASE ~gone /\ row = "absent"
    BY <1>12, <2>1, <2>6 DEF Lookup, AndEof, Ev
  <2> QED BY <2>3, <2>4, <2>5, <2>6
<1>13. CASE YieldEntry
  BY <1>13 DEF YieldEntry, Advance, Readable, Ev
<1>14. CASE EmptyRead
  BY <1>14 DEF EmptyRead
<1>15. CASE CheckRow
  BY <1>15 DEF CheckRow, RowIsOver
<1>16. CASE AfterTail
  BY <1>16 DEF AfterTail, AndEof, AndTerminal, Ev
<1>17. CASE OnProgress
  BY <1>17 DEF OnProgress, Note
<1>18. CASE OnTerminal
  <2>0. /\ Head(wire) = wire[1] /\ Len(wire) \in Nat /\ 1 \in 1..Len(wire)
        /\ Len(Tail(wire)) = Len(wire) - 1
        /\ \A k \in 1..(Len(wire) - 1) : Tail(wire)[k] = wire[k + 1]
    BY <1>18 DEF OnTerminal
  <2>1. UNCHANGED <<stream, row, known>> /\ shown' = wire[1]
    BY <1>18, <2>0 DEF OnTerminal
  <2>2. Real(shown)' /\ (shown'.of = "prev" => ~known')
    BY <2>0, <2>1
  <2>3. wire' = Tail(wire) \/ wire' = <<>>
    BY <1>18 DEF OnTerminal, Stop
  <2>4. \A k \in 1..Len(wire') : Real(wire'[k])
    BY <2>0, <2>3
  <2> QED BY <2>1, <2>2, <2>4
<1>19. CASE OnEof
  BY <1>19 DEF OnEof, Stop, Recover, TailTurn
<1>20. CASE OnFail \/ Disconnect
  BY <1>20 DEF OnFail, Disconnect, Caught, Stop, TailTurn
<1>21. CASE Abandon
  BY <1>21 DEF Abandon, Stop
<1>22. CASE PageReload
  BY <1>22 DEF PageReload, Recover, TailTurn, NoEvent, Ev
<1>23. CASE UNCHANGED vars
  BY <1>23 DEF vars
<1> HIDE DEF VerdictInv
<1> QED
  BY <1>1, <1>2, <1>3, <1>4, <1>5, <1>6, <1>7, <1>8, <1>9, <1>10, <1>11, <1>12,
     <1>13, <1>14, <1>15, <1>16, <1>17, <1>18, <1>19, <1>20, <1>21, <1>22, <1>23
  DEF Next, Writer, RunTurn, Handler, Receive

\* Every step keeps the terminal before the end of a response.
LEMMA SilentStep == TypeOK /\ FlowInv /\ SilentInv /\ [Next]_vars => SilentInv'
<1> SUFFICES ASSUME TypeOK, FlowInv, SilentInv, [Next]_vars PROVE SilentInv'
  OBVIOUS
<1>0. \A w \in Seq(Event), k \in {"started", "eof", "fail"} \cup Ends,
         o \in {"this", "prev", "none"} :
        /\ Append(w, Ev(k, 0, o)) \in Seq(Event)
        /\ EofsTold(w) /\ (k # "eof" \/ Tells(w, Len(w) + 1))
               => EofsTold(Append(w, Ev(k, 0, o)))
        /\ k \in Ends => Tells(Append(w, Ev(k, 0, o)), Len(Append(w, Ev(k, 0, o))) + 1)
  <2> TAKE w \in Seq(Event), k \in {"started", "eof", "fail"} \cup Ends,
           o \in {"this", "prev", "none"}
  <2>1. Ev(k, 0, o) \in Event /\ Ev(k, 0, o).kind = k
    BY DEF Ev, Event
  <2> QED BY <2>1, ToldAppend
<1>a. EofsTold(<<>>)
  BY DEF EofsTold
<1> USE DEF TypeOK, FlowInv, SilentInv, server, client, Final, Ends, Streaming
<1>1. ASSUME NEW k \in {"token"} \cup Ends, Publish(k) PROVE SilentInv'
  BY <1>1 DEF Publish
<1>2. ASSUME NEW s \in Final, Finalize(s) PROVE SilentInv'
  BY <1>2 DEF Finalize
<1>3. CASE StreamExpires
  BY <1>3 DEF StreamExpires
<1>4. CASE DeleteCheck
  BY <1>4 DEF DeleteCheck
<1>5. CASE DeleteCommit
  BY <1>5 DEF DeleteCommit
<1>6. CASE Refuse
  <2>1. CASE c = "run"
    BY <1>6, <2>1 DEF Refuse
  <2>2. CASE c # "run"
    BY <1>6, <2>2 DEF Refuse, Leave, Answer
  <2> QED BY <2>1, <2>2
<1>7. CASE RunRaises
  <2>1. CASE c = "run"
    BY <1>7, <2>1 DEF RunRaises
  <2>2. CASE c # "run"
    BY <1>7, <2>2 DEF RunRaises, Leave, Answer
  <2> QED BY <2>1, <2>2
<1>8. CASE Create
  BY <1>8 DEF Create
<1>9. CASE Enqueue
  <2>1. CASE c = "run"
    BY <1>9, <2>1 DEF Enqueue
  <2>2. CASE c # "run"
    BY <1>9, <2>2 DEF Enqueue, Leave, Answer
  <2> QED BY <2>1, <2>2
<1>10. CASE EnqueueFails
  <2>1. CASE c = "run"
    BY <1>10, <2>1 DEF EnqueueFails
  <2>2. CASE c # "run"
    BY <1>10, <2>2 DEF EnqueueFails, Leave, Answer
  <2> QED BY <2>1, <2>2
<1>11. CASE RunCancelled
  BY <1>11 DEF RunCancelled
<1>12. CASE Lookup
  <2>1. wire = <<>> /\ UNCHANGED <<c, known, terminal, gone, row>>
        /\ h' \in {"xread", "end"} /\ wire \in Seq(Event)
    BY <1>12 DEF Lookup
  <2>2. CASE gone
    BY <2>1, <2>2
  <2>3. CASE ~gone /\ row = "active"
    BY <1>12, <1>a, <2>1, <2>3 DEF Lookup
  <2>4. CASE ~gone /\ row \in Final
    <3>1. /\ AndTerminal(wire) \in Seq(Event) /\ EofsTold(AndTerminal(wire))
          /\ Tells(AndTerminal(wire), Len(AndTerminal(wire)) + 1)
      BY <1>0, <1>a, <2>1, <2>4 DEF AndTerminal
    <3>2. wire' = AndEof(AndTerminal(wire))
      BY <1>12, <2>4 DEF Lookup
    <3> QED BY <1>0, <2>1, <3>1, <3>2 DEF AndEof
  <2>5. CASE ~gone /\ row = "absent"
    BY <2>1, <2>5
  <2> QED BY <2>2, <2>3, <2>4, <2>5
<1>13. CASE YieldEntry
  <2>1. PICK i \in Readable : /\ wire' = Append(wire, Ev(stream[i], i, "this"))
                              /\ h' = IF stream[i] \in Ends THEN "after" ELSE "xread"
    BY <1>13 DEF YieldEntry
  <2>2. i \in 1..Len(stream) /\ stream[i] \in {"token"} \cup Ends
    BY DEF Readable
  <2>3. Ev(stream[i], i, "this") \in Event /\ Ev(stream[i], i, "this").kind = stream[i]
    BY <2>2 DEF Ev, Event
  <2>4. /\ EofsTold(wire) => EofsTold(wire')
        /\ stream[i] \in Ends => Tells(wire', Len(wire') + 1)
    BY <2>1, <2>2, <2>3, ToldAppend
  <2>5. UNCHANGED <<c, known, terminal, gone, row>>
    BY <1>13 DEF YieldEntry
  <2> QED BY <2>1, <2>4, <2>5
<1>14. CASE EmptyRead
  BY <1>14 DEF EmptyRead
<1>15. CASE CheckRow
  BY <1>15 DEF CheckRow, RowIsOver
<1>16. CASE AfterTail
  <2>1. UNCHANGED <<c, known, terminal, gone, row>> /\ h = "after" /\ h' = "end"
        /\ wire \in Seq(Event)
    BY <1>16 DEF AfterTail
  <2> SUFFICES ASSUME c \in {"tail", "retail"}, known, ~gone, ~terminal
               PROVE  EofsTold(wire')
    BY <2>1
  <2>2. EofsTold(wire) /\ (row \in Final \/ Tells(wire, Len(wire) + 1))
    BY <2>1
  <2>3. /\ AndTerminal(wire) \in Seq(Event) /\ EofsTold(AndTerminal(wire))
        /\ Tells(AndTerminal(wire), Len(AndTerminal(wire)) + 1)
    BY <1>0, <2>1, <2>2 DEF AndTerminal
  <2>4. wire' = AndEof(AndTerminal(wire))
    BY <1>16 DEF AfterTail
  <2> QED BY <1>0, <2>3, <2>4 DEF AndEof
<1>17. CASE OnProgress
  <2>1. UNCHANGED <<c, terminal, gone, row, h>> /\ wire' = Tail(wire) /\ wire # <<>>
        /\ wire \in Seq(Event) /\ Head(wire).kind \notin Ends
    BY <1>17 DEF OnProgress
  <2>2. c \in {"tail", "retail"} => known' = known
    BY <1>17 DEF OnProgress
  <2> QED BY <2>1, <2>2, ToldTail
<1>18. CASE OnTerminal
  BY <1>18 DEF OnTerminal, Note, Stop
<1>19. CASE OnEof
  <2>1. wire' = <<>> /\ h' \in {"lookup", "end"}
    BY <1>19 DEF OnEof, Stop, Recover, TailTurn
  <2> QED BY <1>a, <2>1
<1>20. CASE OnFail \/ Disconnect
  <2>1. wire' = <<>> /\ h' \in {"lookup", "end"}
    BY <1>20 DEF OnFail, Disconnect, Caught, Stop, TailTurn
  <2> QED BY <1>a, <2>1
<1>21. CASE Abandon
  <2>1. wire' = <<>> /\ h' \in {"lookup", "end"}
    BY <1>21 DEF Abandon, Stop
  <2> QED BY <1>a, <2>1
<1>22. CASE PageReload
  <2>1. wire' = <<>> /\ h' \in {"lookup", "end"}
    BY <1>22 DEF PageReload, Recover, TailTurn
  <2> QED BY <1>a, <2>1
<1>23. CASE UNCHANGED vars
  BY <1>23 DEF vars
<1> HIDE DEF SilentInv
<1> QED
  BY <1>1, <1>2, <1>3, <1>4, <1>5, <1>6, <1>7, <1>8, <1>9, <1>10, <1>11, <1>12,
     <1>13, <1>14, <1>15, <1>16, <1>17, <1>18, <1>19, <1>20, <1>21, <1>22, <1>23
  DEF Next, Writer, RunTurn, Handler, Receive

-----------------------------------------------------------------------------
(* The theorems                                                            *)

\* The invariant holds in every reachable state.
LEMMA TailCorrect == Spec => []TailInv
<1>1. Init => TailInv
  <2> SUFFICES ASSUME Init PROVE FlowInv /\ OrderInv /\ VerdictInv /\ SilentInv
    BY TypeInit DEF TailInv
  <2>1. FlowInv /\ SilentInv
    BY DEF Init, FlowInv, SilentInv, EofsTold, NoEvent, Ev
  <2>2. OrderInv
    BY DEF Init, OrderInv, Ascends, Numbered, Tailing
  <2>3. VerdictInv
    BY DEF Init, VerdictInv, Real, Published, NoEvent, Ev
  <2> QED BY <2>1, <2>2, <2>3
<1>2. TailInv /\ [Next]_vars => TailInv'
  BY TypeStep, FlowStep, OrderStep, VerdictStep, SilentStep DEF TailInv
<1> QED BY <1>1, <1>2, PTL DEF Spec

(***************************************************************************)
(* The cursors, the ids and the connection keep their types however the    *)
(* client reconnects.                                                      *)
(***************************************************************************)
THEOREM TailTypes == Spec => []TypeOK
<1>1. TailInv => TypeOK
  BY DEF TailInv
<1> QED BY <1>1, TailCorrect, PTL

(***************************************************************************)
(* No entry of the stream is shown twice, and none is passed over but for  *)
(* Redis's own trimming, through any number of disconnects and reloads.    *)
(***************************************************************************)
THEOREM NoEventTwice == Spec => []NextEventIsNew
<1>1. TailInv => NextEventIsNew
  <2> SUFFICES ASSUME TailInv, wire # <<>>, Head(wire).id # 0
               PROVE  /\ Head(wire).id > last
                      /\ \A i \in (last + 1)..(Head(wire).id - 1) : i <= trimmed
    BY DEF NextEventIsNew
  <2>1. /\ 1 \in 1..Len(wire) /\ Head(wire) = wire[1] /\ wire \in Seq(Event)
        /\ last \in Nat /\ cursor \in Nat
    BY DEF TailInv, TypeOK
  <2>2. 1 \in Numbered(wire) /\ \A k \in 1..Len(wire) : wire[k].id \in Nat
    BY <2>1, Ids DEF Numbered
  <2>3. Ascends(wire, last, cursor) /\ Covers(wire, last, cursor, trimmed)
    BY <2>2 DEF TailInv, OrderInv
  <2>4. last < wire[1].id /\ wire[1].id <= cursor
    BY <2>2, <2>3 DEF Ascends
  <2>5. ASSUME NEW i \in (last + 1)..(wire[1].id - 1), ~(i <= trimmed) PROVE FALSE
    <3>1. PICK k \in 1..Len(wire) : wire[k].id = i
      BY <2>1, <2>2, <2>3, <2>4, <2>5 DEF Covers
    <3>2. k \in Numbered(wire) /\ k # 1
      BY <2>1, <2>2, <3>1 DEF Numbered
    <3>3. wire[1].id < wire[k].id
      BY <2>1, <2>3, <3>2 DEF Ascends
    <3> QED BY <2>1, <2>2, <3>1, <3>3
  <2> QED BY <2>1, <2>2, <2>4, <2>5
<1> QED BY <1>1, TailCorrect, PTL

(***************************************************************************)
(* A verdict shown to the user was published or is the row's; an earlier   *)
(* turn's answer reaches only a client without its turn's id.              *)
(***************************************************************************)
THEOREM VerdictReal == Spec => []VerdictIsReal
<1>1. TailInv => VerdictIsReal
  BY DEF TailInv, VerdictInv, Real, Published, VerdictIsReal
<1> QED BY <1>1, TailCorrect, PTL

(***************************************************************************)
(* A client that knows its turn gives its stream up only when the chat was *)
(* deleted.                                                                *)
(***************************************************************************)
THEOREM SilentEof == Spec => SilentEofMeansDeleted
<1>1. TailInv /\ [Next]_vars =>
          [c' = "resume" /\ c # "resume" /\ known /\ reloads' = reloads => gone]_vars
  <2> SUFFICES ASSUME TailInv, Next, c' = "resume", c # "resume", known,
                      reloads' = reloads
               PROVE  gone
    BY DEF vars
  <2>1. reloads \in Nat /\ wire \in Seq(Event)
    BY DEF TailInv, TypeOK
  <2>2. CASE OnEof
    <3>1. c \in {"tail", "retail"} /\ ~terminal /\ wire # <<>> /\ Head(wire).kind = "eof"
      BY <2>2 DEF OnEof, Stop, TailTurn, Recover
    <3>2. 1 \in 1..Len(wire) /\ wire[1].kind = "eof"
      BY <2>1, <3>1
    <3> QED BY <3>1, <3>2 DEF TailInv, SilentInv, EofsTold, Tells
  <2>3. ~PageReload
    BY <2>1 DEF PageReload
  <2> QED BY <2>2, <2>3 DEF Next, Writer, RunTurn, Handler, Receive, Publish, Finalize,
       StreamExpires, DeleteCheck, DeleteCommit, Refuse, RunRaises, Create, Enqueue,
       EnqueueFails, RunCancelled, Lookup, YieldEntry, EmptyRead, CheckRow, AfterTail,
       OnProgress, OnTerminal, OnFail, Disconnect, Caught, Abandon, Stop, TailTurn,
       client
<1> QED BY <1>1, TailCorrect, PTL DEF Spec, SilentEofMeansDeleted
=============================================================================
