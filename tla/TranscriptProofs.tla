---------------------------- MODULE TranscriptProofs ----------------------------
(***************************************************************************)
(* What a chat keeps of a turn, for any number of tokens, tool calls,      *)
(* steering messages, threads, turns and faults: the rows of its answer,   *)
(* the thread it was asked in and the text that was shown.                 *)
(***************************************************************************)
EXTENDS CodexThread, StreamPersist, Translate, FiniteSetTheorems, SequenceTheorems, TLAPS

-----------------------------------------------------------------------------
(* StreamPersist *)

Gone == {"ended", "raised", "crashed"}
Keeping == {"failed", "stale", "timeout", "cancel"}

\* Where the loop is, and where it goes.
LoopFlow ==
  /\ at \in {"peek", "segment"} => next \in {"read", "finish"}
  /\ at = "keep" => next \in Keeping

\* A counted steering message has its row.
CountedIsStored == count + owed <= steers /\ seen <= steers

\* Until the loop is left every row is a partial one that partial_msg_ids
\* names; the final row comes with the end.
PartialsAreKnown ==
  /\ at \notin Gone => \A r \in rows : r.kind # "final"
  /\ at \notin Gone \cup {"keep"} => \A r \in rows : r.id \in partials

\* Everything before the last cut is in a partial row, and a cut at an end
\* that keeps the rest is at the end of the text.
CutIsStored ==
  /\ at \notin Gone \/ next \in Keeping =>
       /\ \A i \in 1..offset : \E r \in rows : r.kind # "final" /\ r.from < i /\ i <= r.to
       /\ \A i \in 1..offsetCalls : \E r \in rows :
             r.kind # "final" /\ r.fromCall < i /\ i <= r.toCall
  /\ at \in {"ended", "raised"} /\ next \in Keeping => offset = buffer /\ offsetCalls = calls

PersistInv ==
  StreamTypeOK /\ LoopFlow /\ CountedIsStored /\ SegmentFollowsSteer /\ PartialsAreKnown /\ CutIsStored

\* The loop begins with an empty answer.
LEMMA PersistInvInit == StreamInit => PersistInv
  BY DEF StreamInit, PersistInv, StreamTypeOK, LoopFlow, CountedIsStored, SegmentFollowsSteer,
         PartialsAreKnown, CutIsStored, Gone, Keeping, Ends

\* The row of the text since the last cut.
LEMMA DeltaRowIsRow ==
  ASSUME StreamTypeOK, NEW kind \in {"segment", "rest"}, NEW boundary \in Nat
  PROVE  /\ DeltaRow(kind, boundary) \in Row
         /\ DeltaRow(kind, boundary).id = lastId + 1
         /\ DeltaRow(kind, boundary).kind = kind
         /\ DeltaRow(kind, boundary).from = offset /\ DeltaRow(kind, boundary).to = buffer
         /\ DeltaRow(kind, boundary).fromCall = offsetCalls
         /\ DeltaRow(kind, boundary).toCall = calls
         /\ DeltaRow(kind, boundary).before = steers /\ DeltaRow(kind, boundary).seen = boundary
  BY DEF DeltaRow, Row, StreamTypeOK

\* The steering handlers touch neither the loop nor its rows.
LEMMA SteerKeeps ==
  ASSUME PersistInv,
         SteerAccepted \/ StoreSteer \/ BumpSteer \/ SteerCancelled \/ CounterExpires
  PROVE  PersistInv'
<1>1. StreamTypeOK'
  <2>1. accepted' \in Nat /\ steers' \in Nat /\ owed' \in Nat /\ count' \in Nat
        /\ lastId' \in Nat /\ mishaps' \in Nat
    BY DEF PersistInv, StreamTypeOK, SteerAccepted, StoreSteer, BumpSteer, SteerCancelled,
           CounterExpires, Mishap
  <2>2. UNCHANGED <<at, next, loopVars, rows, journal, audio>>
    BY DEF SteerAccepted, StoreSteer, BumpSteer, SteerCancelled, CounterExpires
  <2> QED BY <2>1, <2>2 DEF PersistInv, StreamTypeOK, loopVars
<1>2. LoopFlow' /\ PartialsAreKnown' /\ CutIsStored' /\ SegmentFollowsSteer'
  BY DEF PersistInv, LoopFlow, PartialsAreKnown, CutIsStored, SegmentFollowsSteer,
         SteerAccepted, StoreSteer, BumpSteer, SteerCancelled, CounterExpires, loopVars
<1>3. CountedIsStored'
  BY DEF PersistInv, StreamTypeOK, CountedIsStored,
         SteerAccepted, StoreSteer, BumpSteer, SteerCancelled, CounterExpires, loopVars
<1> QED BY <1>1, <1>2, <1>3 DEF PersistInv

\* Steps of the loop that write no row.
LEMMA ReadKeeps ==
  ASSUME PersistInv,
         ReadToken \/ ReadTool \/ ReadDone \/ Peek \/ AttachTts \/ ReadError \/ StreamDropped
         \/ GiveUp \/ ProbeCompleted \/ Closed \/ StreamCrash
  PROVE  PersistInv'
<1> USE StreamPersistAssumption
<1>1. StreamTypeOK'
  <2>1. CASE ReadToken
    BY <2>1 DEF PersistInv, StreamTypeOK, LoopFlow, ReadToken, Boundary, Ends, steerVars
  <2>2. CASE ReadTool
    BY <2>2 DEF PersistInv, StreamTypeOK, ReadTool, Flush, Boundary, Ends, steerVars
  <2>3. CASE ReadDone
    BY <2>3 DEF PersistInv, StreamTypeOK, ReadDone, Flush, Boundary, Ends, steerVars
  <2>4. CASE Peek
    BY <2>4 DEF PersistInv, StreamTypeOK, LoopFlow, Peek, Mishap, Ends, steerVars
  <2>5. CASE AttachTts
    BY <2>5 DEF PersistInv, StreamTypeOK, AttachTts, Mishap, steerVars, loopVars
  <2>6. CASE GiveUp
    BY <2>6 DEF PersistInv, StreamTypeOK, GiveUp, Mishap, Ends, steerVars, loopVars
  <2>7. CASE StreamCrash
    BY <2>7 DEF PersistInv, StreamTypeOK, StreamCrash, Mishap, Ends, steerVars, loopVars
  <2>8. CASE ReadError
    BY <2>8 DEF PersistInv, StreamTypeOK, ReadError, EndUnsaved, Flush, Ends, steerVars
  <2>9. CASE StreamDropped
    BY <2>9 DEF PersistInv, StreamTypeOK, StreamDropped, EndUnsaved, Mishap, Ends, steerVars
  <2>10. CASE ProbeCompleted
    BY <2>10 DEF PersistInv, StreamTypeOK, ProbeCompleted, Mishap, Ends, steerVars
  <2>11. CASE Closed
    BY <2>11 DEF PersistInv, StreamTypeOK, Closed, Flush, Mishap, Ends, steerVars
  <2> QED BY <2>1, <2>2, <2>3, <2>4, <2>5, <2>6, <2>7, <2>8, <2>9, <2>10, <2>11
<1>2. /\ UNCHANGED <<rows, partials, offset, offsetCalls, steers, owed, count>>
      /\ seen' \in {seen, count}
  BY DEF ReadToken, ReadTool, ReadDone, Peek, AttachTts, ReadError, StreamDropped, GiveUp,
         ProbeCompleted, Closed, StreamCrash, steerVars, loopVars
<1>3. LoopFlow'
  BY DEF PersistInv, StreamTypeOK, LoopFlow, ReadToken, ReadTool, ReadDone, Peek, AttachTts, ReadError,
         StreamDropped, GiveUp, ProbeCompleted, Closed, StreamCrash, Boundary, EndUnsaved, Keeping
<1>4. CountedIsStored' /\ SegmentFollowsSteer'
  BY <1>2 DEF PersistInv, StreamTypeOK, CountedIsStored, SegmentFollowsSteer
<1>5. /\ at \in Gone => at' = at /\ next' = next /\ UNCHANGED <<buffer, calls>>
      /\ at = "keep" => at' \in {"keep", "crashed"}
      /\ at' \in {"ended", "raised"} => at' = at \/ next' \notin Keeping
      /\ at' = "crashed" => at = "crashed" \/ next' \notin Keeping
      /\ at' \notin Gone => at \notin Gone
  BY DEF PersistInv, StreamTypeOK, LoopFlow, Gone, Keeping, ReadToken, ReadTool, ReadDone, Peek, AttachTts,
         ReadError, StreamDropped, GiveUp, ProbeCompleted, Closed, StreamCrash, Boundary, EndUnsaved,
         loopVars
<1>6. PartialsAreKnown'
  BY <1>2, <1>5 DEF PersistInv, PartialsAreKnown, Gone
<1>7. CutIsStored'
  BY <1>2, <1>5 DEF PersistInv, CutIsStored, Gone
<1> QED BY <1>1, <1>3, <1>4, <1>6, <1>7 DEF PersistInv

\* A transaction that adds the row of the text since the last cut.
LEMMA InsertStores ==
  ASSUME PersistInv, NEW kind \in {"segment", "rest"}, NEW boundary \in Nat,
         kind = "segment" => boundary <= steers, Insert(DeltaRow(kind, boundary))
  PROVE  /\ rows' \subseteq Row /\ rows \subseteq rows' /\ lastId' \in Nat
         /\ \A r \in rows' : r \in rows \/ (r.id = lastId + 1 /\ r.kind # "final")
         /\ \A r \in rows' : r.kind = "segment" => r.seen <= r.before
         /\ at \notin Gone =>
              /\ \A i \in 1..buffer : \E r \in rows' : r.kind # "final" /\ r.from < i /\ i <= r.to
              /\ \A i \in 1..calls : \E r \in rows' :
                    r.kind # "final" /\ r.fromCall < i /\ i <= r.toCall
<1> DEFINE d == DeltaRow(kind, boundary)
<1>1. /\ d \in Row /\ d.id = lastId + 1 /\ d.kind = kind /\ d.from = offset /\ d.to = buffer
      /\ d.fromCall = offsetCalls /\ d.toCall = calls /\ d.before = steers /\ d.seen = boundary
  BY DeltaRowIsRow DEF PersistInv
<1>2. rows' = rows \cup {d} /\ lastId' = lastId + 1
  BY DEF Insert
<1> HIDE DEF d
<1>3. /\ lastId \in Nat /\ rows \subseteq Row /\ offset \in 0..buffer /\ offsetCalls \in 0..calls
      /\ buffer \in Nat /\ calls \in Nat
  BY DEF PersistInv, StreamTypeOK
<1>4. ASSUME at \notin Gone, NEW i \in 1..buffer
      PROVE  \E r \in rows' : r.kind # "final" /\ r.from < i /\ i <= r.to
  <2>1. CASE i <= offset
    BY <1>2, <1>3, <1>4, <2>1 DEF PersistInv, CutIsStored
  <2>2. CASE ~(i <= offset)
    BY <1>1, <1>2, <1>3, <2>2
  <2> QED BY <2>1, <2>2
<1>5. ASSUME at \notin Gone, NEW i \in 1..calls
      PROVE  \E r \in rows' : r.kind # "final" /\ r.fromCall < i /\ i <= r.toCall
  <2>1. CASE i <= offsetCalls
    BY <1>2, <1>3, <1>5, <2>1 DEF PersistInv, CutIsStored
  <2>2. CASE ~(i <= offsetCalls)
    BY <1>1, <1>2, <1>3, <2>2
  <2> QED BY <2>1, <2>2
<1>6. \A r \in rows' : r.kind = "segment" => r.seen <= r.before
  BY <1>1, <1>2 DEF PersistInv, SegmentFollowsSteer
<1> QED BY <1>1, <1>2, <1>3, <1>4, <1>5, <1>6

\* _persist_segment: the row is in partial_msg_ids and the cut at the text's end.
LEMMA PersistSegmentKeeps ==
  ASSUME PersistInv, PersistSegment PROVE PersistInv'
<1>0. /\ at = "segment" /\ next \in {"read", "finish"} /\ at' = next /\ next' = "none"
      /\ offset' = buffer /\ offsetCalls' = calls /\ partials' = partials \cup {lastId + 1}
      /\ Insert(DeltaRow("segment", seen))
      /\ UNCHANGED <<buffer, calls, reported, seen, pending, published, frame, journal, steerVars,
                     audio, mishaps>>
  BY DEF PersistInv, LoopFlow, PersistSegment, Cut
<1>1. /\ rows' \subseteq Row /\ lastId' \in Nat
      /\ \A r \in rows' : r \in rows \/ (r.id = lastId + 1 /\ r.kind # "final")
      /\ \A r \in rows' : r.kind = "segment" => r.seen <= r.before
      /\ \A i \in 1..buffer : \E r \in rows' : r.kind # "final" /\ r.from < i /\ i <= r.to
      /\ \A i \in 1..calls : \E r \in rows' :
                    r.kind # "final" /\ r.fromCall < i /\ i <= r.toCall
  BY <1>0, InsertStores DEF PersistInv, StreamTypeOK, CountedIsStored, Gone
<1>2. StreamTypeOK'
  BY <1>0, <1>1 DEF PersistInv, StreamTypeOK, steerVars
<1>3. LoopFlow' /\ CountedIsStored' /\ SegmentFollowsSteer'
  BY <1>0, <1>1 DEF PersistInv, LoopFlow, CountedIsStored, SegmentFollowsSteer, steerVars
<1>4. PartialsAreKnown'
  BY <1>0, <1>1 DEF PersistInv, PartialsAreKnown, Gone
<1>5. CutIsStored'
  BY <1>0, <1>1 DEF CutIsStored, Gone
<1> QED BY <1>2, <1>3, <1>4, <1>5 DEF PersistInv

\* The loop is left with a row that nobody has cut off yet, or without.
LEMMA LeaveLoopKeeps ==
  ASSUME PersistInv, LoopFails \/ Cancelled PROVE PersistInv'
<1>0. /\ at \in {"read", "peek", "segment"} /\ UNCHANGED <<buffer, calls, reported, offset,
             offsetCalls, seen, partials, pending, published, steerVars, audio>>
      /\ mishaps' \in Nat
      /\ \/ at' = "ended" /\ next' = "exception" /\ frame' = "error"
            /\ journal' = journal \cup {"TURN_FAILED"}
         \/ at' = "keep" /\ next' = "cancel" /\ UNCHANGED <<frame, journal>>
      /\ (rows' = rows /\ lastId' = lastId) \/ Insert(DeltaRow("segment", seen))
  BY DEF PersistInv, StreamTypeOK, LoopFails, Cancelled, EndUnsaved, Mishap, loopVars
<1>1. /\ rows' \subseteq Row /\ rows \subseteq rows' /\ lastId' \in Nat
      /\ \A r \in rows' : r \in rows \/ (r.id = lastId + 1 /\ r.kind # "final")
      /\ \A r \in rows' : r.kind = "segment" => r.seen <= r.before
  BY <1>0, InsertStores DEF PersistInv, StreamTypeOK, CountedIsStored, SegmentFollowsSteer
<1>2. StreamTypeOK'
  BY <1>0, <1>1 DEF PersistInv, StreamTypeOK, steerVars, Ends
<1>3. LoopFlow' /\ CountedIsStored' /\ SegmentFollowsSteer'
  BY <1>0, <1>1 DEF PersistInv, LoopFlow, CountedIsStored, SegmentFollowsSteer, steerVars, Keeping
<1>4. PartialsAreKnown'
  BY <1>0, <1>1 DEF PersistInv, PartialsAreKnown, Gone
<1>5. CutIsStored'
  BY <1>0, <1>1 DEF PersistInv, CutIsStored, Gone, Keeping
<1> QED BY <1>2, <1>3, <1>4, <1>5 DEF PersistInv

\* The transaction of the final row.
LEMMA FinalizeStores ==
  ASSUME PersistInv, FinalizeTransaction
  PROVE  /\ rows' \subseteq Row /\ lastId' \in Nat
         /\ journal' \subseteq {"TURN_COMPLETED", "TURN_FAILED", "TURN_INTERRUPTED", "THREAD_RESET"}
         /\ \A r \in rows' : r.kind = "segment" => r.seen <= r.before
<1>1. FinalRow \in Row /\ FinalRow.kind = "final"
  BY DEF PersistInv, StreamTypeOK, FinalRow, Row
<1> QED BY <1>1 DEF PersistInv, StreamTypeOK, SegmentFollowsSteer, FinalizeTransaction

\* After the end of a turn that is done nothing is promised of its partial rows.
LEMMA PersistFinalKeeps ==
  ASSUME PersistInv, PersistFinal PROVE PersistInv'
<1>1. StreamTypeOK'
  BY FinalizeStores DEF PersistInv, StreamTypeOK, PersistFinal, StartTts, Ends, steerVars
<1> QED BY <1>1, FinalizeStores DEF PersistInv, LoopFlow, CountedIsStored, SegmentFollowsSteer,
           PartialsAreKnown, CutIsStored, PersistFinal, Gone, Keeping, steerVars

\* _persist_visible_partial: the rest, cut at the end of the text.
LEMMA PersistVisiblePartialKeeps ==
  ASSUME PersistInv, PersistVisiblePartial PROVE PersistInv'
<1>0. /\ at = "keep" /\ next \in Keeping /\ next' = next
      /\ at' \in {"raised", "ended"} /\ frame' \in {frame, "error"}
      /\ UNCHANGED <<buffer, calls, reported, seen, pending, published, steerVars, audio, mishaps>>
      /\ journal' \subseteq journal \cup {"TURN_FAILED", "TURN_INTERRUPTED", "THREAD_RESET"}
      /\ \/ /\ Insert(DeltaRow("rest", 0)) /\ partials' = partials \cup {lastId + 1}
            /\ offset' = buffer /\ offsetCalls' = calls
         \/ /\ ~(buffer > offset) /\ ~(calls > offsetCalls)
            /\ UNCHANGED <<rows, lastId, partials, offset, offsetCalls>>
  <2>1. EndKind \subseteq {"TURN_FAILED", "TURN_INTERRUPTED", "THREAD_RESET"}
    BY DEF EndKind
  <2>2. \A told \in Emitted : told \subseteq {"TURN_FAILED", "TURN_INTERRUPTED", "THREAD_RESET"}
    BY <2>1 DEF Emitted
  <2> QED BY <2>2 DEF PersistInv, LoopFlow, PersistVisiblePartial, Cut
<1>1. /\ rows' \subseteq Row /\ lastId' \in Nat
      /\ \A r \in rows' : r.kind = "segment" => r.seen <= r.before
      /\ \A i \in 1..buffer : \E r \in rows' : r.kind # "final" /\ r.from < i /\ i <= r.to
      /\ \A i \in 1..calls : \E r \in rows' :
                    r.kind # "final" /\ r.fromCall < i /\ i <= r.toCall
      /\ offset' = buffer /\ offsetCalls' = calls
  <2>1. CASE Insert(DeltaRow("rest", 0)) /\ offset' = buffer /\ offsetCalls' = calls
    BY <1>0, <2>1, InsertStores DEF Gone
  <2>2. CASE /\ ~(buffer > offset) /\ ~(calls > offsetCalls)
             /\ UNCHANGED <<rows, lastId, partials, offset, offsetCalls>>
    <3>1. offset = buffer /\ offsetCalls = calls
      BY <2>2 DEF PersistInv, StreamTypeOK
    <3> QED BY <1>0, <2>2, <3>1 DEF PersistInv, StreamTypeOK, SegmentFollowsSteer, CutIsStored, Gone
  <2> QED BY <1>0, <2>1, <2>2
<1>2. partials' \subseteq Nat
  <2>1. partials \subseteq Nat /\ lastId + 1 \in Nat
    BY DEF PersistInv, StreamTypeOK
  <2>2. partials' \in {partials, partials \cup {lastId + 1}}
    BY <1>0
  <2> QED BY <2>1, <2>2
<1>3. StreamTypeOK'
  BY <1>0, <1>1, <1>2 DEF PersistInv, StreamTypeOK, steerVars, Keeping
<1>4. LoopFlow' /\ CountedIsStored' /\ SegmentFollowsSteer' /\ PartialsAreKnown'
  BY <1>0, <1>1 DEF PersistInv, LoopFlow, CountedIsStored, SegmentFollowsSteer, PartialsAreKnown,
                    steerVars, Gone
<1>5. CutIsStored'
  BY <1>0, <1>1 DEF CutIsStored
<1> QED BY <1>3, <1>4, <1>5 DEF PersistInv

\* An exception that leaves stream_turn.
LEMMA PersistRaisesKeeps ==
  ASSUME PersistInv, PersistRaises PROVE PersistInv'
<1>0. /\ at' = "raised" /\ next' = "none" /\ mishaps' \in Nat
      /\ UNCHANGED <<loopVars, steerVars, audio>>
      /\ \/ UNCHANGED <<rows, lastId, journal>>
         \/ Insert(DeltaRow("rest", 0)) /\ journal' = journal \cup {"TURN_FAILED"}
         \/ FinalizeTransaction
  BY DEF PersistInv, StreamTypeOK, PersistRaises, Mishap
<1>1. /\ rows' \subseteq Row /\ lastId' \in Nat
      /\ journal' \subseteq {"TURN_COMPLETED", "TURN_FAILED", "TURN_INTERRUPTED", "THREAD_RESET"}
      /\ \A r \in rows' : r.kind = "segment" => r.seen <= r.before
  BY <1>0, InsertStores, FinalizeStores DEF PersistInv, StreamTypeOK, SegmentFollowsSteer
<1>2. StreamTypeOK'
  BY <1>0, <1>1 DEF PersistInv, StreamTypeOK, steerVars, loopVars
<1> QED BY <1>0, <1>1, <1>2 DEF PersistInv, LoopFlow, CountedIsStored, SegmentFollowsSteer,
             PartialsAreKnown, CutIsStored, steerVars, loopVars, Gone, Keeping

\* PersistInv is inductive.
LEMMA PersistInvNext == PersistInv /\ [StreamNext]_streamVars => PersistInv'
<1>1. CASE UNCHANGED streamVars
  BY <1>1 DEF streamVars, loopVars, steerVars, PersistInv, StreamTypeOK, LoopFlow, CountedIsStored,
              SegmentFollowsSteer, PartialsAreKnown, CutIsStored
<1> QED
  BY <1>1, SteerKeeps, ReadKeeps, PersistSegmentKeeps, LeaveLoopKeeps, PersistFinalKeeps,
     PersistVisiblePartialKeeps, PersistRaisesKeeps DEF StreamNext

\* PersistInv holds throughout a turn.
LEMMA PersistAlways == StreamSpec => []PersistInv
  BY PersistInvInit, PersistInvNext, PTL DEF StreamSpec

\* Segments follow the steering messages that cut them, and an end that keeps
\* the rest has kept all of it.
THEOREM PartialsSound == StreamSpec => []PartialsAreSound
<1>1. PersistInv => PartialsAreSound
  <2> SUFFICES ASSUME PersistInv, at \in {"ended", "raised"}, next \in Keeping
               PROVE  InterruptedKeepsAll
    BY DEF PersistInv, PartialsAreSound, InterruptedKeepsAll, Keeping
  <2>1. offset = buffer /\ offsetCalls = calls
    BY DEF PersistInv, CutIsStored
  <2> QED BY <2>1 DEF PersistInv, CutIsStored, InterruptedKeepsAll, Covered, PartialRows
<1> QED BY <1>1, PersistAlways, PTL

\* A step leaves the stored part of the answer, extends it, or replaces it as a
\* whole.
LEMMA TranscriptStep ==
  ASSUME PersistInv, StreamNext
  PROVE  Readable!TranscriptNext \/ UNCHANGED <<Covered, \E r \in rows : r.kind = "final">>
<1>0. /\ \A r \in rows : r.from \in Nat /\ r.to \in Nat
      /\ buffer \in Nat
  BY DEF PersistInv, StreamTypeOK, Row
<1>1. CASE UNCHANGED <<rows, buffer>>
  BY <1>1 DEF Covered, PartialRows
<1>2. ASSUME at \notin Gone, \A r \in rows' : r \in rows \/ r.kind # "final",
             rows \subseteq rows', buffer' \in Nat, buffer <= buffer'
      PROVE  Readable!TranscriptNext
  <2>1. (\A r \in rows : r.kind # "final") /\ \A r \in rows' : r.kind # "final"
    BY <1>2 DEF PersistInv, PartialsAreKnown
  <2>2. Covered \subseteq Covered'
    BY <1>0, <1>2, <2>1 DEF Covered, PartialRows
  <2> QED BY <2>1, <2>2 DEF Readable!TranscriptNext, Readable!Snapshot
<1>3. ASSUME at = "finish", FinalizeTransaction, buffer' = buffer
      PROVE  Readable!TranscriptNext
  <2>1. (\A r \in rows : r.kind # "final") /\ \A r \in rows : r.id \in partials
    BY <1>3 DEF PersistInv, PartialsAreKnown, Gone
  <2>2. rows' = {FinalRow} /\ FinalRow.kind = "final"
    BY <1>3, <2>1 DEF FinalizeTransaction, FinalRow
  <2>3. Covered' = {}
    BY <2>2 DEF Covered, PartialRows
  <2> QED BY <2>1, <2>2, <2>3 DEF Readable!TranscriptNext, Readable!Finish
<1>4. ASSUME NEW kind \in {"segment", "rest"}, NEW boundary \in Nat,
             Insert(DeltaRow(kind, boundary)), at \notin Gone, buffer' = buffer
      PROVE  Readable!TranscriptNext
  <2>1. rows' = rows \cup {DeltaRow(kind, boundary)} /\ DeltaRow(kind, boundary).kind # "final"
    BY <1>4 DEF Insert, DeltaRow
  <2> QED BY <1>0, <1>2, <1>4, <2>1
<1>5. CASE PersistSegment \/ PersistVisiblePartial \/ LoopFails \/ Cancelled
  BY <1>1, <1>4, <1>5 DEF PersistInv, StreamTypeOK, PersistSegment, PersistVisiblePartial, LoopFails,
                          Cancelled, Gone, loopVars
<1>6. CASE PersistFinal \/ PersistRaises
  BY <1>1, <1>3, <1>4, <1>6 DEF PersistInv, StreamTypeOK, PersistFinal, PersistRaises, Gone, loopVars
<1>7. CASE ReadToken
  BY <1>0, <1>2, <1>7 DEF ReadToken, Gone
<1>8. CASE \/ SteerAccepted \/ StoreSteer \/ BumpSteer \/ SteerCancelled \/ CounterExpires
           \/ ReadTool \/ ReadDone \/ Peek \/ AttachTts \/ ReadError \/ StreamDropped
           \/ GiveUp \/ ProbeCompleted \/ Closed \/ StreamCrash
  <2>1. UNCHANGED <<rows, buffer>>
    BY <1>8 DEF SteerAccepted, StoreSteer, BumpSteer, SteerCancelled, CounterExpires, ReadTool,
         ReadDone, Peek, AttachTts, ReadError, StreamDropped, GiveUp, ProbeCompleted, Closed,
         StreamCrash, loopVars
  <2> QED BY <1>1, <2>1
<1> QED BY <1>5, <1>6, <1>7, <1>8 DEF StreamNext

\* stream_turn implements Transcript: what a reader sees of the answer grows,
\* and is replaced by the whole answer at once.
THEOREM TranscriptImplemented == StreamSpec => TranscriptRefined
<1>1. StreamInit => Readable!TranscriptInit
  BY DEF StreamInit, Readable!TranscriptInit, Covered, PartialRows
<1>2. PersistInv /\ [StreamNext]_streamVars => [Readable!TranscriptNext]_(Readable!transcriptVars)
  <2>1. CASE UNCHANGED streamVars
    BY <2>1 DEF streamVars, loopVars, Readable!transcriptVars, Covered, PartialRows
  <2> QED BY <2>1, TranscriptStep DEF Readable!transcriptVars
<1> QED BY <1>1, <1>2, PersistAlways, PTL
           DEF StreamSpec, TranscriptRefined, Readable!TranscriptSpec
-----------------------------------------------------------------------------
(* CodexThread *)

\* ThreadTypeOK, one variable at a time.
ThreadTypes ==
  /\ opened \in Nat /\ opened <= MaxThreads /\ row \in 0..opened
  /\ quarantine \subseteq 1..opened /\ gone \subseteq 1..opened
  /\ lossy \subseteq 1..opened /\ unseeded \subseteq 1..opened
  /\ knows \in [Threads -> SUBSET TurnNos]
  /\ exchanges \subseteq TurnNos /\ forgotten \subseteq TurnNos
  /\ k \in 0..MaxTurns
  /\ tpc \in {"none", "load", "mark", "resume", "clear", "open", "emit", "seed", "start", "run"}
  /\ storedThread \in 0..opened /\ tid \in 0..opened /\ retried \in BOOLEAN
  /\ news \in 0..MaxNews /\ threadFaults \in 0..MaxThreadFaults

\* The bounds, one by one.
LEMMA ThreadBounds ==
  /\ MaxTurns \in Nat /\ MaxTurns # 0 /\ MaxThreads \in Nat /\ MaxThreads # 0
  /\ HistoryLimit \in Nat /\ HistoryLimit # 0 /\ MaxThreadFaults \in Nat /\ MaxNews \in Nat
  BY ThreadConstants

\* ThreadTypes is the type invariant, in a form the provers take.
LEMMA ThreadTypesEquiv == ThreadTypes <=> ThreadTypeOK
  BY ThreadBounds DEF ThreadTypes, ThreadTypeOK

\* The thread of each step: none yet, a fresh one, one to use.
ThreadFlow ==
  /\ tpc \in {"emit", "seed", "start", "run"} => tid # 0
  /\ tpc = "emit" => tid # storedThread
  /\ tpc # "none" => k # 0

Informed(t) == t = 0 \/ t \in lossy \cup unseeded \/ Recent \subseteq knows[t]

\* Until it is seeded a fresh thread is the only one that need not know the
\* recent messages; the row has no other thread than the turn's, unless a
\* write of it failed.
ContextInv ==
  /\ (tpc = "seed" /\ tid = row /\ tid # storedThread) \/ Informed(row)
  /\ tpc \notin {"none", "load"} => Informed(storedThread)
  /\ tpc \in {"start", "run"} => Informed(tid)
  /\ tpc \in {"mark", "resume"} => row \in {0, storedThread} \/ row \in lossy
  /\ tpc = "resume" => tid \in {0, storedThread}
  /\ tpc \in {"seed", "start", "run"} => row \in {0, tid} \/ row \in lossy

ThreadInv == ThreadTypes /\ ThreadFlow /\ ContextInv

\* A chat begins without a thread.
LEMMA ThreadInvInit == ThreadInit => ThreadInv
<1> SUFFICES ASSUME ThreadInit PROVE ThreadInv
  OBVIOUS
<1>1. ThreadTypes
  <2>1. retried \in BOOLEAN /\ knows \in [Threads -> SUBSET TurnNos]
    BY DEF ThreadInit
  <2>2. 0 \in 0..0 /\ 0 \in 0..MaxTurns /\ 0 \in 0..MaxNews /\ 0 \in 0..MaxThreadFaults
    BY ThreadBounds
  <2> QED BY <2>1, <2>2, ThreadBounds DEF ThreadInit, ThreadTypes
<1>2. ThreadFlow /\ ContextInv
  BY DEF ThreadInit, ThreadFlow, ContextInv, Informed
<1> QED BY <1>1, <1>2 DEF ThreadInv

\* One more exchange pushes older ones out of the recent ones.
LEMMA RecentMoves ==
  ASSUME ThreadTypes, exchanges' = exchanges \cup {k}
  PROVE  Recent' \subseteq Recent \cup {k}
<1> SUFFICES ASSUME NEW e \in Recent', e # k
             PROVE  e \in Recent
  OBVIOUS
<1> DEFINE later == {d \in exchanges : d > e}
           laterThen == {d \in exchanges' : d > e}
<1>1. e \in exchanges /\ Cardinality(laterThen) < HistoryLimit
  BY DEF Recent
<1>2. IsFiniteSet(laterThen)
  <2>1. IsFiniteSet(exchanges \cup {k})
    <3>1. IsFiniteSet(TurnNos)
      BY FS_Interval, ThreadBounds DEF TurnNos
    <3>2. IsFiniteSet(exchanges)
      BY <3>1, FS_Subset DEF ThreadTypes
    <3> QED BY <3>2, FS_AddElement
  <2> QED BY <2>1, FS_Subset
<1>3. later \subseteq laterThen
  OBVIOUS
<1>4. /\ Cardinality(later) \in Nat /\ Cardinality(laterThen) \in Nat
      /\ Cardinality(later) <= Cardinality(laterThen)
  <2>1. IsFiniteSet(later) /\ Cardinality(later) <= Cardinality(laterThen)
    BY <1>2, <1>3, FS_Subset
  <2> QED BY <1>2, <2>1, FS_CardinalityType
<1>5. Cardinality(later) < HistoryLimit
  BY <1>1, <1>4, ThreadBounds
<1> QED BY <1>1, <1>5 DEF Recent

\* Every step keeps the types.
LEMMA ThreadTypesKept ==
  ASSUME ThreadInv, ThreadNext PROVE ThreadTypes'
<1> USE ThreadBounds DEF ThreadInv, ThreadTypes, ThreadFlow, turnVars, sidecar, ghosts, ThreadFault
<1>1. CASE NextTurn
  <2>1. retried' \in BOOLEAN
    BY <1>1 DEF NextTurn
  <2>2. k' \in 0..MaxTurns /\ storedThread' \in 0..opened /\ tid' \in 0..opened
    BY <1>1 DEF NextTurn
  <2> QED BY <1>1, <2>1, <2>2 DEF NextTurn
<1>2. CASE LoadStored
  BY <1>2 DEF LoadStored
<1>3. CASE CheckQuarantine
  BY <1>3 DEF CheckQuarantine
<1>4. CASE Resume
  BY <1>4 DEF Resume
<1>5. CASE ClearStored
  BY <1>5 DEF ClearStored
<1>6. CASE OpenThread
  BY <1>6 DEF OpenThread
<1>7. CASE EmitThread
  <2>1. tpc' \in {"start", "seed"} /\ row' \in {row, tid} /\ threadFaults' \in 0..MaxThreadFaults
    BY <1>7 DEF EmitThread
  <2>2. tid \in 1..opened /\ {row} \ {0} \subseteq 1..opened
    BY <1>7 DEF EmitThread
  <2>3. lossy' \subseteq lossy \cup ({row} \ {0}) /\ unseeded' \subseteq unseeded \cup {tid}
    BY <1>7 DEF EmitThread
  <2>4. lossy' \subseteq 1..opened /\ unseeded' \subseteq 1..opened
    BY <2>2, <2>3
  <2> QED BY <1>7, <2>1, <2>4 DEF EmitThread
<1>8. CASE SeedHistory
  <2>1. Recent \subseteq TurnNos /\ tid \in Threads
    BY <1>8 DEF Recent, SeedHistory, Threads
  <2>2. knows' \in [Threads -> SUBSET TurnNos]
    BY <1>8, <2>1 DEF SeedHistory
  <2>3. tpc' \in {"start", "none"} /\ threadFaults' \in 0..MaxThreadFaults
    BY <1>8 DEF SeedHistory
  <2>4. lossy' \in {lossy, lossy \cup {tid}} /\ tid \in 1..opened
    BY <1>8 DEF SeedHistory
  <2>5. lossy' \subseteq 1..opened
    BY <2>4
  <2> QED BY <1>8, <2>2, <2>3, <2>5 DEF SeedHistory
<1>9. CASE StartTurn
  <2>1. tpc' \in {"run", "clear", "none"} /\ tid' \in {tid, 0} /\ retried' \in BOOLEAN
    BY <1>9 DEF StartTurn
  <2> QED BY <1>9, <2>1 DEF StartTurn
<1>10. CASE Complete
  <2>1. k \in TurnNos /\ tid \in Threads
    BY <1>10 DEF Complete, TurnNos, Threads
  <2>2. knows' \in [Threads -> SUBSET TurnNos] /\ exchanges' \subseteq TurnNos
    BY <1>10, <2>1 DEF Complete
  <2> QED BY <1>10, <2>2 DEF Complete
<1>11. CASE Abort
  BY <1>11 DEF Abort
<1>12. CASE TimeOut
  <2>1. quarantine' \subseteq quarantine \cup {tid} /\ tid \in 1..opened
    BY <1>12 DEF TimeOut
  <2>2. quarantine' \subseteq 1..opened
    BY <2>1
  <2> QED BY <1>12, <2>2 DEF TimeOut
<1>13. CASE New
  BY <1>13 DEF New
<1>14. CASE LoseThread
  BY <1>14 DEF LoseThread
<1>15. CASE MarkExpires
  BY <1>15 DEF MarkExpires
<1> QED BY <1>1, <1>2, <1>3, <1>4, <1>5, <1>6, <1>7, <1>8, <1>9, <1>10, <1>11, <1>12, <1>13,
           <1>14, <1>15 DEF ThreadNext

\* Every step keeps to the flow.
LEMMA ThreadFlowKept ==
  ASSUME ThreadInv, ThreadNext PROVE ThreadFlow'
<1> USE ThreadBounds DEF ThreadInv, ThreadTypes, ThreadFlow, turnVars, sidecar,
        ghosts, ThreadFault
<1>1. CASE NextTurn \/ LoadStored \/ CheckQuarantine \/ Resume \/ ClearStored
  BY <1>1 DEF NextTurn, LoadStored, CheckQuarantine, Resume, ClearStored
<1>2. CASE OpenThread
  BY <1>2 DEF OpenThread
<1>3. CASE EmitThread \/ SeedHistory
  BY <1>3 DEF EmitThread, SeedHistory
<1>5. CASE StartTurn
  BY <1>5 DEF StartTurn
<1>6. CASE Complete
  BY <1>6 DEF Complete
<1>4. CASE Abort \/ TimeOut \/ New \/ LoseThread \/ MarkExpires
  BY <1>4 DEF Abort, TimeOut, New, LoseThread, MarkExpires
<1> QED BY <1>1, <1>2, <1>3, <1>4, <1>5, <1>6 DEF ThreadNext

\* Every step keeps what threads know of the chat.
LEMMA ContextKept ==
  ASSUME ThreadInv, ThreadNext PROVE ContextInv'
<1>1. ASSUME exchanges' = exchanges, knows' = knows,
             lossy \cup unseeded \subseteq lossy' \cup unseeded'
      PROVE  \A t : Informed(t) => Informed(t)'
  <2>1. Recent' = Recent
    BY <1>1 DEF Recent
  <2> QED BY <1>1, <2>1 DEF Informed
<1>2. Informed(0) /\ Informed(0)'
  BY DEF Informed
<1> USE DEF ThreadInv, ContextInv, ThreadFlow, turnVars, sidecar, ghosts
<1>3. CASE NextTurn
  BY <1>1, <1>2, <1>3 DEF NextTurn
<1>4. CASE LoadStored
  BY <1>1, <1>2, <1>4 DEF LoadStored
<1>5. CASE CheckQuarantine
  BY <1>1, <1>2, <1>5 DEF CheckQuarantine
<1>6. CASE Resume
  BY <1>1, <1>2, <1>6 DEF Resume
<1>7. CASE ClearStored
  BY <1>1, <1>2, <1>7 DEF ClearStored
<1>8. CASE OpenThread
  BY <1>1, <1>2, <1>8 DEF OpenThread
<1>9. CASE EmitThread
  <2>1. \A t : Informed(t) => Informed(t)'
    BY <1>1, <1>9 DEF EmitThread
  <2>2. row' = tid \/ (row' = row /\ (row = 0 \/ row \in lossy'))
    BY <1>9 DEF EmitThread
  <2>3. retried => tid \in unseeded'
    BY <1>9 DEF EmitThread
  <2>4. Informed(storedThread)' /\ (retried => Informed(tid)')
    BY <1>9, <2>1, <2>3 DEF EmitThread, Informed
  <2> QED BY <1>2, <1>9, <2>1, <2>2, <2>3, <2>4 DEF EmitThread, Informed
<1>10. CASE SeedHistory
  <2>1. Recent' = Recent /\ tid' = tid /\ row' = row /\ storedThread' = storedThread
    BY <1>10 DEF SeedHistory, Recent
  <2>2. CASE tid = storedThread
    BY <1>1, <1>2, <1>10, <2>1, <2>2 DEF SeedHistory
  <2>3. CASE /\ tid # storedThread /\ knows' = [knows EXCEPT ![tid] = @ \cup Recent]
             /\ lossy' = lossy /\ unseeded' = unseeded /\ tpc' = "start"
    <3>1. tid \in Threads /\ knows \in [Threads -> SUBSET TurnNos]
      BY <1>10, ThreadBounds DEF SeedHistory, ThreadTypes, Threads
    <3>2. Informed(tid)' /\ \A t \in Threads : Informed(t) => Informed(t)'
      BY <2>1, <2>3, <3>1 DEF Informed
    <3>3. row \in Threads \cup {0} /\ storedThread \in Threads \cup {0}
      BY ThreadBounds DEF ThreadTypes, Threads
    <3> QED BY <1>2, <1>10, <2>1, <2>3, <3>2, <3>3 DEF SeedHistory
  <2>4. CASE tid # storedThread /\ knows' = knows /\ lossy' = lossy \cup {tid}
    BY <1>1, <1>2, <1>10, <2>1, <2>4 DEF SeedHistory, Informed
  <2> QED BY <1>10, <2>2, <2>3, <2>4 DEF SeedHistory
<1>11. CASE StartTurn
  BY <1>1, <1>2, <1>11 DEF StartTurn
<1>12. CASE Complete
  <2>1. /\ tid \in Threads /\ knows \in [Threads -> SUBSET TurnNos] /\ tpc' = "none"
        /\ Informed(tid) /\ (row \in {0, tid} \/ row \in lossy)
    BY <1>12, ThreadBounds DEF Complete, ThreadTypes, Threads
  <2>2. Recent' \subseteq Recent \cup {k}
    BY <1>12, RecentMoves DEF Complete
  <2>3. Informed(tid)'
    BY <1>12, <2>1, <2>2 DEF Complete, Informed
  <2> QED BY <1>2, <1>12, <2>1, <2>3 DEF Complete, Informed
<1>13. CASE Abort
  <2>1. \A t : Informed(t) => Informed(t)'
    BY <1>1, <1>13 DEF Abort
  <2>2. tpc = "seed" /\ tid = row /\ tid # storedThread => row \in lossy'
    BY <1>13 DEF Abort
  <2> QED BY <1>13, <2>1, <2>2 DEF Abort, Informed
<1>14. CASE TimeOut
  BY <1>1, <1>2, <1>14 DEF TimeOut
<1>15. CASE New
  BY <1>1, <1>2, <1>15 DEF New
<1>16. CASE LoseThread \/ MarkExpires
  BY <1>1, <1>16 DEF LoseThread, MarkExpires
<1> QED BY <1>3, <1>4, <1>5, <1>6, <1>7, <1>8, <1>9, <1>10, <1>11, <1>12, <1>13,
           <1>14, <1>15, <1>16 DEF ThreadNext

\* ThreadInv is inductive.
LEMMA ThreadInvNext == ThreadInv /\ [ThreadNext]_threadVars => ThreadInv'
<1>1. CASE UNCHANGED threadVars
  BY <1>1 DEF threadVars, ThreadInv, ThreadTypes, ThreadFlow, ContextInv, Informed, Recent
<1> QED BY <1>1, ThreadTypesKept, ThreadFlowKept, ContextKept DEF ThreadInv

\* ThreadInv holds throughout a chat.
LEMMA ThreadAlways == ThreadSpec => []ThreadInv
  BY ThreadInvInit, ThreadInvNext, PTL DEF ThreadSpec

\* A turn runs in a thread that has the recent conversation, through lost
\* threads, quarantines, /new and failed turns, for any number of them; but for
\* a thread whose seeding or whose row failed, and the one of a retry.
THEOREM ThreadInformed == ThreadSpec => []ContextIsKept
<1>1. ThreadInv => ContextIsKept
  BY DEF ThreadInv, ThreadFlow, ContextInv, Informed, ContextIsKept
<1> QED BY <1>1, ThreadAlways, PTL

-----------------------------------------------------------------------------
(* Translate *)

\* What of the text has been streamed, or was meant to be.
Heard == said \o SubSeq(message, 1, streamed)

TextTypes ==
  /\ said \in Seq(Tokens) /\ shown \in Seq(Tokens) /\ final \in Seq(Tokens)
  /\ message \in Seq(Tokens) /\ Len(message) <= Length
  /\ streamed \in 0..Len(message)

CountTypes ==
  /\ item \in Tools \cup {"none", "message"}
  /\ tools \in [started : 0..MaxTools, finished : 0..MaxTools]
  /\ ended \in {"no", "done", "error"}
  /\ messages \in 0..MaxMessages /\ missing \in 0..MaxMissing /\ toolItems \in 0..MaxTools

\* The texts are the sequences of tokens up to the bound.
LEMMA TextsAreSeqs ==
  /\ \A t : t \in Texts <=> t \in Seq(Tokens) /\ Len(t) <= Length
  /\ <<>> \in Texts
<1> USE TranslateAssumption
<1>1. ASSUME NEW t \in Texts PROVE t \in Seq(Tokens) /\ Len(t) <= Length
  <2>1. PICK n \in 0..Length : t \in [1..n -> Tokens]
    BY DEF Texts
  <2> QED BY <2>1
<1>2. ASSUME NEW t \in Seq(Tokens), Len(t) <= Length PROVE t \in Texts
  <2>1. Len(t) \in 0..Length /\ t \in [1..Len(t) -> Tokens]
    BY <1>2, LenProperties
  <2> QED BY <2>1 DEF Texts
<1>3. <<>> \in Seq(Tokens) /\ Len(<<>>) = 0
  <2>1. <<>> \in Seq(Tokens)
    OBVIOUS
  <2>2. Len(<<>>) = 0
    OBVIOUS
  <2> QED BY <2>1, <2>2
<1>4. Len(<<>>) <= Length
  BY <1>3
<1>5. <<>> \in Texts
  BY <1>2, <1>3, <1>4, Zenon
<1> QED BY <1>1, <1>2, <1>5

\* Concatenation of texts is associative.
LEMMA TextsAssociate ==
  ASSUME NEW s \in Seq(Tokens), NEW t \in Seq(Tokens), NEW u \in Seq(Tokens)
  PROVE  (s \o t) \o u = s \o (t \o u)
  BY ConcatAssociative

\* Every text has the empty one as a subsequence.
LEMMA EmptyIsSubsequence ==
  ASSUME NEW t \in Seq(Tokens) PROVE IsSubsequence(<<>>, t)
<1>1. DOMAIN <<>> = {}
  OBVIOUS
<1>2. [i \in DOMAIN <<>> |-> 0] \in [DOMAIN <<>> -> DOMAIN t]
  BY <1>1
<1> QED BY <1>1, <1>2 DEF IsSubsequence

\* Text that follows changes nothing.
LEMMA SubsequenceOfMore ==
  ASSUME NEW s \in Seq(Tokens), NEW t \in Seq(Tokens), NEW u \in Seq(Tokens),
         IsSubsequence(s, t)
  PROVE  IsSubsequence(s, t \o u)
<1>1. PICK f \in [DOMAIN s -> DOMAIN t] :
        /\ \A i, j \in DOMAIN s : i < j => f[i] < f[j]
        /\ \A i \in DOMAIN s : s[i] = t[f[i]]
  BY DEF IsSubsequence
<1>2. /\ DOMAIN t = 1..Len(t) /\ DOMAIN (t \o u) = 1..(Len(t) + Len(u))
      /\ Len(t) \in Nat /\ Len(u) \in Nat
      /\ \A j \in 1..Len(t) : (t \o u)[j] = t[j]
  BY ConcatProperties, LenProperties
<1>3. f \in [DOMAIN s -> DOMAIN (t \o u)]
  BY <1>2
<1>4. \A i \in DOMAIN s : s[i] = (t \o u)[f[i]]
  BY <1>1, <1>2
<1> QED BY <1>1, <1>3, <1>4 DEF IsSubsequence

\* One more unit on both sides.
LEMMA SubsequenceGrows ==
  ASSUME NEW s \in Seq(Tokens), NEW t \in Seq(Tokens), NEW e \in Tokens,
         IsSubsequence(s, t)
  PROVE  IsSubsequence(Append(s, e), Append(t, e))
<1>1. PICK f \in [DOMAIN s -> DOMAIN t] :
        /\ \A i, j \in DOMAIN s : i < j => f[i] < f[j]
        /\ \A i \in DOMAIN s : s[i] = t[f[i]]
  BY DEF IsSubsequence
<1> DEFINE s1 == Append(s, e)
           t1 == Append(t, e)
           g == [i \in 1..(Len(s) + 1) |-> IF i = Len(s) + 1 THEN Len(t) + 1 ELSE f[i]]
<1>2. /\ DOMAIN s = 1..Len(s) /\ DOMAIN t = 1..Len(t) /\ Len(s) \in Nat /\ Len(t) \in Nat
      /\ DOMAIN s1 = 1..(Len(s) + 1) /\ DOMAIN t1 = 1..(Len(t) + 1)
      /\ \A j \in 1..Len(s) : s1[j] = s[j]
      /\ \A j \in 1..Len(t) : t1[j] = t[j]
      /\ s1[Len(s) + 1] = e /\ t1[Len(t) + 1] = e
  BY AppendProperties, LenProperties
<1> HIDE DEF s1, t1
<1>3. \A i \in 1..Len(s) : f[i] \in 1..Len(t)
  BY <1>2
<1>4. g \in [DOMAIN s1 -> DOMAIN t1]
  BY <1>2, <1>3
<1>5. \A i, j \in DOMAIN s1 : i < j => g[i] < g[j]
  BY <1>1, <1>2, <1>3
<1>6. \A i \in DOMAIN s1 : s1[i] = t1[g[i]]
  BY <1>1, <1>2, <1>3
<1>7. IsSubsequence(s1, t1)
  BY <1>4, <1>5, <1>6 DEF IsSubsequence
<1> QED BY <1>7 DEF s1, t1

\* A text is a subsequence of what ends with it.
LEMMA SuffixIsSubsequence ==
  ASSUME NEW t \in Seq(Tokens), NEW u \in Seq(Tokens)
  PROVE  IsSubsequence(u, t \o u)
<1> DEFINE v == t \o u
           g == [i \in DOMAIN u |-> Len(t) + i]
<1>1. /\ DOMAIN u = 1..Len(u) /\ DOMAIN v = 1..(Len(t) + Len(u))
      /\ Len(t) \in Nat /\ Len(u) \in Nat
      /\ \A j \in 1..Len(u) : v[Len(t) + j] = u[j]
  BY ConcatProperties, LenProperties
<1> HIDE DEF v
<1>2. g \in [DOMAIN u -> DOMAIN v]
  BY <1>1
<1>3. \A i, j \in DOMAIN u : i < j => g[i] < g[j]
  BY <1>1
<1>4. \A i \in DOMAIN u : u[i] = v[g[i]]
  BY <1>1
<1>5. IsSubsequence(u, v)
  BY <1>2, <1>3, <1>4 DEF IsSubsequence
<1> QED BY <1>5 DEF v

\* Tools shown are tools that began, and one that runs is not over.
ToolCounts ==
  /\ tools.started <= toolItems
  /\ tools.finished + (IF item \in Tools THEN 1 ELSE 0) <= toolItems

\* Between messages nothing is left to stream.
NothingPending == item # "message" => streamed = Len(message)

\* The text shown is heard text, all of it unless a delta is missing.
ShownIsHeard ==
  /\ IsSubsequence(shown, Heard)
  /\ missing = 0 => shown = Heard

TranslateInv == TextTypes /\ CountTypes /\ ToolCounts /\ NothingPending /\ ShownIsHeard

\* Nothing is said or shown at first.
LEMMA TranslateInvInit == TranslateInit => TranslateInv
<1> SUFFICES ASSUME TranslateInit PROVE TranslateInv
  OBVIOUS
<1> USE TranslateAssumption DEF TranslateInit
<1>1. <<>> \in Seq(Tokens) /\ Len(<<>>) = 0
  BY EmptySeq
<1>2. TextTypes
  BY <1>1 DEF TextTypes
<1>3. CountTypes /\ ToolCounts /\ NothingPending
  BY <1>1 DEF CountTypes, ToolCounts, NothingPending, Tools
<1>4. Heard = <<>>
  BY <1>1, SubSeqEmpty, ConcatEmptySeq DEF Heard
<1>5. ShownIsHeard
  BY <1>1, <1>4, EmptyIsSubsequence DEF ShownIsHeard
<1> QED BY <1>2, <1>3, <1>5 DEF TranslateInv

\* _agent_message_to_token adds nothing, or makes the text shown the message.
LEMMA ReconcileCases ==
  ASSUME NEW text \in Seq(Tokens), NEW accumulated \in Seq(Tokens)
  PROVE  \/ Reconcile(text, accumulated) = <<>>
         \/ /\ IsPrefix(accumulated, text)
            /\ Reconcile(text, accumulated) = SubSeq(text, Len(accumulated) + 1, Len(text))
            /\ accumulated \o Reconcile(text, accumulated) = text
<1>1. CASE IsPrefix(accumulated, text)
  <2> DEFINE n == Len(accumulated)
  <2>1. n \in 0..Len(text) /\ Len(text) \in Nat
    BY <1>1, LenProperties DEF IsPrefix
  <2>2. accumulated = SubSeq(text, 1, n)
    BY <1>1, SubSeqFull DEF IsPrefix
  <2>3. SubSeq(text, 1, n) \o SubSeq(text, n + 1, Len(text)) = SubSeq(text, 1, Len(text))
    <3>1. 1 \in 1..(Len(text) + 1) /\ n \in (1 - 1)..Len(text) /\ Len(text) \in n..Len(text)
      BY <2>1
    <3> QED BY <3>1, ConcatAdjacentSubSeq
  <2>4. accumulated \o SubSeq(text, n + 1, Len(text)) = text
    BY <2>2, <2>3, SubSeqFull
  <2> QED BY <1>1, <2>4 DEF Reconcile
<1>2. CASE ~IsPrefix(accumulated, text)
  BY <1>2 DEF Reconcile
<1> QED BY <1>1, <1>2

\* TranslateInv is inductive.
LEMMA TranslateInvNext == TranslateInv /\ [TranslateNext]_translateVars => TranslateInv'
<1> SUFFICES ASSUME TranslateInv, [TranslateNext]_translateVars PROVE TranslateInv'
  OBVIOUS
<1> USE TranslateAssumption DEF TranslateInv
<1>h. Heard \in Seq(Tokens) /\ SubSeq(message, 1, streamed) \in Seq(Tokens) /\ Len(message) \in Nat
  <2>1. \A i \in 1..streamed : message[i] \in Tokens
    BY ElementOfSeq, LenProperties DEF TextTypes
  <2>2. SubSeq(message, 1, streamed) \in Seq(Tokens)
    BY <2>1, SubSeqProperties DEF TextTypes
  <2> QED BY <2>2, ConcatProperties, LenProperties DEF Heard, TextTypes
<1>w. item # "message" \/ streamed = Len(message) => Heard = Said
  BY SubSeqFull DEF Heard, Said, NothingPending, TextTypes
<1>1. CASE MessageStarted
  <2> USE <1>1 DEF MessageStarted
  <2>1. Said \in Seq(Tokens) /\ message' \in Seq(Tokens) /\ Len(message') <= Length
    BY ConcatProperties, TextsAreSeqs DEF Said, TextTypes
  <2>2. TextTypes'
    BY <2>1, LenProperties DEF TextTypes
  <2>3. CountTypes' /\ ToolCounts' /\ NothingPending'
    BY DEF CountTypes, ToolCounts, NothingPending, Tools
  <2>4. Heard' = Heard
    <3>1. SubSeq(message', 1, 0) = <<>>
      BY SubSeqEmpty
    <3>2. Heard' = Said \o <<>>
      BY <3>1 DEF Heard
    <3>3. Said \o <<>> = Said
      BY <2>1, ConcatEmptySeq, Zenon
    <3> QED BY <1>w, <3>2, <3>3
  <2> QED BY <2>2, <2>3, <2>4 DEF ShownIsHeard
<1>2. CASE Delta
  <2> USE <1>2 DEF Delta
  <2> DEFINE e == message[streamed + 1]
  <2>1. streamed + 1 \in 1..Len(message) /\ e \in Tokens
    BY <1>h, ElementOfSeq DEF TextTypes
  <2>2. Heard' = Append(Heard, e)
    <3>1. SubSeq(message, 1, streamed + 1) = SubSeq(message, 1, streamed) \o <<e>>
      <4>1. SubSeq(message, 1, streamed + 1) = SubSeq(message, 1, (streamed + 1) - 1) \o <<e>>
        <5>1. 1 \in 1..Len(message) /\ streamed + 1 \in 1..Len(message)
          BY <1>h, <2>1
        <5> QED BY <5>1, SubSeqRecursiveSecond DEF TextTypes
      <4> QED BY <4>1 DEF TextTypes
    <3>2. <<e>> \in Seq(Tokens)
      BY <2>1
    <3>3. (said \o SubSeq(message, 1, streamed)) \o <<e>>
             = said \o (SubSeq(message, 1, streamed) \o <<e>>)
      <4>1. said \in Seq(Tokens)
        BY DEF TextTypes
      <4> QED BY <1>h, <3>2, <4>1, TextsAssociate, Zenon
    <3>4. Heard' = said \o SubSeq(message, 1, streamed + 1)
      BY DEF Heard
    <3>5. Heard' = Heard \o <<e>>
      BY <3>1, <3>3, <3>4 DEF Heard
    <3> QED BY <1>h, <2>1, <3>5, AppendIsConcat
  <2>3. TextTypes'
    <3>1. Append(shown, e) \in Seq(Tokens)
      BY <2>1 DEF TextTypes
    <3>2. shown' \in Seq(Tokens)
      BY <3>1 DEF TextTypes
    <3> QED BY <2>1, <1>h, <3>2 DEF TextTypes
  <2>4. CountTypes' /\ ToolCounts' /\ NothingPending'
    BY DEF CountTypes, ToolCounts, NothingPending, Tools
  <2>5. shown \in Seq(Tokens)
    BY DEF TextTypes
  <2>6. CASE shown' = Append(shown, e) /\ UNCHANGED missing
    BY <1>h, <2>1, <2>2, <2>3, <2>4, <2>5, <2>6, SubsequenceGrows DEF ShownIsHeard
  <2>7. CASE missing' = missing + 1 /\ UNCHANGED shown
    <3>0. <<e>> \in Seq(Tokens)
      BY <2>1
    <3>1. IsSubsequence(shown, Heard \o <<e>>)
      BY <1>h, <2>5, <3>0, SubsequenceOfMore, Zenon DEF ShownIsHeard
    <3>2. Heard \o <<e>> = Append(Heard, e)
      BY <1>h, <2>1, AppendIsConcat
    <3>3. missing' # 0
      BY <2>7 DEF CountTypes
    <3> QED BY <2>2, <2>3, <2>4, <2>7, <3>1, <3>2, <3>3 DEF ShownIsHeard
  <2> QED BY <2>6, <2>7
<1>3. CASE MessageCompleted
  <2> USE <1>3 DEF MessageCompleted
  <2>1. Heard = said \o message /\ Heard' = Heard
    BY <1>w DEF Heard, Said
  <2>2. said \in Seq(Tokens) /\ message \in Seq(Tokens) /\ shown \in Seq(Tokens)
    BY DEF TextTypes
  <2>3. CountTypes' /\ ToolCounts' /\ NothingPending'
    BY DEF CountTypes, ToolCounts, NothingPending, Tools
  <2>4. CASE Reconcile(message, shown) = <<>>
    <3>1. shown' = shown
      BY <2>2, <2>4, ConcatEmptySeq
    <3> QED BY <2>1, <2>3, <3>1 DEF TextTypes, ShownIsHeard
  <2>5. CASE /\ IsPrefix(shown, message)
             /\ Reconcile(message, shown) = SubSeq(message, Len(shown) + 1, Len(message))
             /\ shown \o Reconcile(message, shown) = message
    <3>1. shown' = message
      BY <2>5
    <3>2. IsSubsequence(message, said \o message)
      BY <2>2, SuffixIsSubsequence
    <3>3. ASSUME missing = 0 PROVE message = said \o message
      <4>1. shown = said \o message
        BY <2>1, <3>3 DEF ShownIsHeard
      <4>2. Len(said) + Len(message) <= Len(message)
        BY <2>2, <2>5, <4>1, ConcatProperties DEF IsPrefix
      <4>3. said = <<>>
        BY <2>2, <4>2, EmptySeq, LenProperties
      <4> QED BY <2>2, <4>3, ConcatEmptySeq
    <3> QED BY <2>1, <2>2, <2>3, <3>1, <3>2, <3>3 DEF TextTypes, ShownIsHeard
  <2> QED BY <2>2, <2>4, <2>5, ReconcileCases
<1>4. CASE ToolStarted
  <2> USE <1>4 DEF ToolStarted
  <2>1. TextTypes' /\ ShownIsHeard' /\ NothingPending'
    BY DEF TextTypes, ShownIsHeard, NothingPending, Heard, Tools
  <2>2. CountTypes' /\ ToolCounts'
    BY DEF CountTypes, ToolCounts, Tools
  <2> QED BY <2>1, <2>2
<1>5. CASE ToolCompleted
  <2> USE <1>5 DEF ToolCompleted
  <2>1. TextTypes' /\ ShownIsHeard' /\ NothingPending'
    BY DEF TextTypes, ShownIsHeard, NothingPending, Heard, Tools
  <2>2. CountTypes' /\ ToolCounts'
    BY DEF CountTypes, ToolCounts, Tools
  <2> QED BY <2>1, <2>2
<1>6. CASE TurnCompleted
  <2> USE <1>6 DEF TurnCompleted
  <2>1. Said \in Seq(Tokens)
    BY <1>h, <1>w
  <2>2. TextTypes'
    BY <2>1 DEF TextTypes
  <2>3. CountTypes' /\ ToolCounts' /\ NothingPending' /\ ShownIsHeard'
    BY DEF CountTypes, ToolCounts, NothingPending, ShownIsHeard, Heard
  <2> QED BY <2>2, <2>3
<1>7. CASE UNCHANGED translateVars
  BY <1>7 DEF translateVars, TextTypes, CountTypes, ToolCounts, NothingPending, ShownIsHeard, Heard
<1> QED BY <1>1, <1>2, <1>3, <1>4, <1>5, <1>6, <1>7 DEF TranslateNext

\* TranslateInv holds throughout a turn.
LEMMA TranslateAlways == TranslateInit /\ [][TranslateNext]_translateVars => []TranslateInv
  BY TranslateInvInit, TranslateInvNext, PTL

\* The parts add up to the type invariant.
LEMMA TranslateTypes == TranslateInv => TranslateTypeOK
  BY TextsAreSeqs DEF TranslateInv, TextTypes, CountTypes, TranslateTypeOK

\* The text shown never repeats or reorders what the agent said, whichever
\* deltas are missing before _agent_message_to_token reconciles a completed
\* item; without a missing delta it is exactly what was said.
THEOREM ShownSaid == TranslateSpec => []ShownIsSaid
<1>1. TranslateInv => ShownIsSaid
  <2> SUFFICES ASSUME TranslateInv PROVE ShownIsSaid
    OBVIOUS
  <2> USE DEF TranslateInv
  <2>t. /\ said \in Seq(Tokens) /\ message \in Seq(Tokens) /\ shown \in Seq(Tokens)
        /\ streamed \in 0..Len(message) /\ Len(message) \in Nat
    BY LenProperties DEF TextTypes
  <2> DEFINE a == SubSeq(message, 1, streamed)
             b == SubSeq(message, streamed + 1, Len(message))
  <2>1. a \in Seq(Tokens) /\ b \in Seq(Tokens)
    <3>1. \A i \in 1..Len(message) : message[i] \in Tokens
      BY <2>t, ElementOfSeq
    <3> QED BY <2>t, <3>1, SubSeqProperties
  <2>2. a \o b = message
    <3>1. /\ 1 \in 1..(Len(message) + 1) /\ streamed \in (1 - 1)..Len(message)
          /\ Len(message) \in streamed..Len(message)
      BY <2>t
    <3>2. a \o b = SubSeq(message, 1, Len(message))
      BY <2>t, <3>1, ConcatAdjacentSubSeq
    <3> QED BY <2>t, <3>2, SubSeqFull
  <2>3. Heard \in Seq(Tokens)
    BY <2>t, <2>1, ConcatProperties DEF Heard
  <2>4. Said = Heard \o b
    <3>1. (said \o a) \o b = said \o (a \o b)
      BY <2>t, <2>1, TextsAssociate
    <3> QED BY <2>2, <3>1 DEF Said, Heard
  <2>5. IsSubsequence(shown, Said)
    BY <2>t, <2>1, <2>3, <2>4, SubsequenceOfMore DEF ShownIsHeard
  <2>6. item = "none" /\ missing = 0 => shown = Said
    BY <2>t, SubSeqFull DEF NothingPending, ShownIsHeard, Heard, Said
  <2> QED BY <2>5, <2>6 DEF ShownIsSaid
<1> QED BY <1>1, TranslateAlways, PTL DEF TranslateSpec
=============================================================================
