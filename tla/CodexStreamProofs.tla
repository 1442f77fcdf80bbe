------------------------- MODULE CodexStreamProofs -------------------------
(***************************************************************************)
(* The safety of CodexStream for every queue size, threshold and duration. *)
(***************************************************************************)
EXTENDS CodexStream, TLAPS

Notes == OwnNotes \cup OtherNotes \cup {"wake"}

-----------------------------------------------------------------------------
(* The queue                                                               *)

\* _enqueue_notification keeps the queue bounded and adds at most the note.
LEMMA EnqueueFacts ==
    ASSUME NEW q \in Seq(Notes), Len(q) <= QueueMax, NEW n \in Notes
    PROVE  /\ _enqueue_notification(q, n) \in Seq(Notes)
           /\ Len(_enqueue_notification(q, n)) <= QueueMax
           /\ \A x : Holds(_enqueue_notification(q, n), x) => Holds(q, x) \/ x = n
  BY StreamConstants DEF _enqueue_notification, Holds

\* _wake_notifications keeps the queue bounded, adds the sentinel for certain
\* and nothing else.
LEMMA WakeFacts ==
    ASSUME NEW q \in Seq(Notes), Len(q) <= QueueMax
    PROVE  /\ _wake_notifications(q) \in Seq(Notes)
           /\ Len(_wake_notifications(q)) <= QueueMax
           /\ Holds(_wake_notifications(q), "wake")
           /\ \A x : Holds(_wake_notifications(q), x) => Holds(q, x) \/ x = "wake"
<1>1. "wake" \in Notes
  BY DEF Notes
<1>2. CASE Len(q) < QueueMax
  <2>1. _wake_notifications(q) = Append(q, "wake")
    BY <1>2 DEF _wake_notifications
  <2>2. Append(q, "wake")[Len(q) + 1] = "wake"
    OBVIOUS
  <2> QED BY <1>1, <1>2, <2>1, <2>2, StreamConstants DEF Holds
<1>3. CASE ~(Len(q) < QueueMax)
  <2>1. q # <<>> /\ Len(q) = QueueMax
    BY <1>3, StreamConstants
  <2>2. /\ Tail(q) \in Seq(Notes) /\ Len(Tail(q)) = Len(q) - 1
        /\ \A i \in 1..Len(Tail(q)) : Tail(q)[i] = q[i + 1]
    BY <2>1
  <2>3. _wake_notifications(q) = Append(Tail(q), "wake")
    BY <1>3 DEF _wake_notifications
  <2>4. /\ Append(Tail(q), "wake") \in Seq(Notes)
        /\ Len(Append(Tail(q), "wake")) = Len(q)
        /\ Append(Tail(q), "wake")[Len(q)] = "wake"
        /\ \A i \in 1..(Len(q) - 1) : Append(Tail(q), "wake")[i] = q[i + 1]
    BY <1>1, <2>2
  <2> QED BY <2>1, <2>3, <2>4 DEF Holds
<1> QED BY <1>2, <1>3

\* Taking the head leaves the rest of the notes.
LEMMA TakeFacts ==
    ASSUME NEW q \in Seq(Notes), q # <<>>, Len(q) <= QueueMax
    PROVE  /\ Head(q) \in Notes /\ Holds(q, Head(q))
           /\ Tail(q) \in Seq(Notes) /\ Len(Tail(q)) <= QueueMax
           /\ \A x : Holds(Tail(q), x) => Holds(q, x)
           /\ \A x : Holds(q, x) /\ x # Head(q) => Holds(Tail(q), x)
<1>1. Len(q) \in Nat /\ Len(q) > 0 /\ Head(q) = q[1] /\ q[1] \in Notes
  OBVIOUS
<1>2. /\ Tail(q) \in Seq(Notes) /\ Len(Tail(q)) = Len(q) - 1
      /\ \A i \in 1..Len(Tail(q)) : Tail(q)[i] = q[i + 1]
  OBVIOUS
<1>3. \A x : Holds(Tail(q), x) => Holds(q, x)
  BY <1>1, <1>2 DEF Holds
<1>4. ASSUME NEW x, Holds(q, x), x # Head(q) PROVE Holds(Tail(q), x)
  <2>1. PICK i \in 1..Len(q) : q[i] = x
    BY <1>4 DEF Holds
  <2>2. i - 1 \in 1..Len(Tail(q)) /\ Tail(q)[i - 1] = x
    BY <1>1, <1>2, <1>4, <2>1
  <2> QED BY <2>2 DEF Holds
<1> QED BY <1>1, <1>2, <1>3, <1>4, StreamConstants DEF Holds

-----------------------------------------------------------------------------
(* The inductive invariant                                                 *)

\* What the queue tells about the sidecar and the connection: a verdict in
\* it is the sidecar's, and once the socket is gone the sentinel stays until
\* the generator has seen it.
QueueInv ==
    /\ Holds(queue, "done") => side \in {"completed", "interrupted"}
    /\ Holds(queue, "failed") => side = "failed"
    /\ Holds(queue, "olddone") => "olddone" \in Chatter
    /\ conn # "up" /\ gen = "open" => Holds(queue, "wake")

\* Where the consumer is and what it knows.
FlowInv ==
    /\ outcome # "none" <=> pc \in {"interrupt", "end", "closed"}
    /\ pc = "waiting" => gen = "open"
    /\ pc = "idle_interrupt" => faulty

\* AbandonedTurnIsTold without the consumer's place.
ToldInv ==
    /\ outcome \in {"timeout", "storm", "cancelled"} /\ turnId /\ conn = "up"
    => told

StreamInv ==
    /\ TypeOK /\ QueueInv /\ FlowInv /\ ToldInv
    /\ VerdictMatchesSidecar /\ SilenceIsNoTimeout

\* The invariant holds when turn/start has been sent.
LEMMA InitHolds == Init => StreamInv
<1> SUFFICES ASSUME Init PROVE StreamInv
  OBVIOUS
<1>1. \A x : ~Holds(queue, x)
  BY DEF Init, Holds
<1>2. TypeOK
  <2>1. /\ turnId \in BOOLEAN /\ items \in BOOLEAN /\ raw \in BOOLEAN
        /\ steer \in BOOLEAN /\ told \in BOOLEAN /\ faulty \in BOOLEAN
    BY Zenon DEF Init
  <2>2. /\ idle \in 0..IdleS /\ age \in 0..HardCap
        /\ probed \in 0..ProbeInterval /\ req \in 0..ReqTimeout
        /\ stales \in 0..StormThreshold
        /\ queue \in Seq(OwnNotes \cup OtherNotes \cup {"wake"})
        /\ Len(queue) <= QueueMax
    BY StreamConstants DEF Init
  <2>3. /\ side = "none" /\ conn = "up" /\ gen = "open" /\ pc = "starting"
        /\ outcome = "none"
    BY DEF Init
  <2> QED BY <2>1, <2>2, <2>3 DEF TypeOK, Awaits, Requests, Outcomes
<1>3. QueueInv /\ FlowInv /\ ToldInv
  BY <1>1 DEF Init, QueueInv, FlowInv, ToldInv
<1>4. VerdictMatchesSidecar /\ SilenceIsNoTimeout
  BY DEF Init, VerdictMatchesSidecar, SilenceIsNoTimeout
<1> QED BY <1>2, <1>3, <1>4 DEF StreamInv

\* Every step of the reader, the sidecar, the consumer and time keeps it.
LEMMA NextHolds == StreamInv /\ [Next]_vars => StreamInv'
<1> SUFFICES ASSUME StreamInv, [Next]_vars PROVE StreamInv'
  OBVIOUS
<1> USE StreamConstants DEF StreamInv, TypeOK, QueueInv, FlowInv, ToldInv,
        VerdictMatchesSidecar, SilenceIsNoTimeout,
        Awaits, Outcomes, Requests, Ended, Finish, Abandon, interrupt, request,
        peer, clocks, diagnostics, OwnNotes, OtherNotes
<1>1. CASE ReaderDies
  BY <1>1, WakeFacts DEF ReaderDies, Notes
<1>2. CASE SideStarts
  BY <1>2 DEF SideStarts
<1>3. ASSUME NEW note \in OwnNotes, SideEmits(note) PROVE StreamInv'
  BY <1>3, EnqueueFacts DEF SideEmits, Notes
<1>4. ASSUME NEW note \in Chatter, Chats(note) PROVE StreamInv'
  <2>1. queue \in Seq(Notes) /\ Len(queue) <= QueueMax /\ note \in Notes
    BY DEF Notes
  <2>2. /\ queue' \in Seq(Notes) /\ Len(queue') <= QueueMax
        /\ \A x : Holds(queue', x) => Holds(queue, x) \/ x = note
    BY <1>4, <2>1, EnqueueFacts DEF Chats
  <2>3. TypeOK'
    BY <1>4, <2>2 DEF Chats, Notes
  <2>4. /\ note \notin {"done", "failed"}
        /\ note = "olddone" => "olddone" \in Chatter
    OBVIOUS
  <2>5. QueueInv'
    BY <1>4, <2>2, <2>4 DEF Chats
  <2> QED BY <1>4, <2>3, <2>5 DEF Chats
<1>5. CASE note_steer
  BY <1>5 DEF note_steer
<1>6. CASE Tick
  BY <1>6 DEF Tick, Dec, UpTo
<1>7. CASE TurnStarted
  BY <1>7 DEF TurnStarted
<1>8. CASE TurnRefused
  BY <1>8 DEF TurnRefused
<1>9. CASE Subscribe
  BY <1>9 DEF Subscribe
<1>10. CASE StartedFails
  BY <1>10 DEF StartedFails
<1>11. CASE RateLimitsRead
  BY <1>11 DEF RateLimitsRead
<1>12. CASE RateLimitsRefused
  BY <1>12 DEF RateLimitsRefused
<1>13. CASE ProbeAnswered
  BY <1>13 DEF ProbeAnswered, ProbeVerdict
<1>14. CASE ProbeUnknown
  BY <1>14 DEF ProbeUnknown
<1>15. CASE Interrupted
  BY <1>15 DEF Interrupted
<1>16. ASSUME NEW late \in BOOLEAN, AnswerLost(late) PROVE StreamInv'
  BY <1>16 DEF AnswerLost
<1>17. CASE NextNotification
  BY <1>17 DEF NextNotification
<1>18. CASE WaitTimesOut
  BY <1>18 DEF WaitTimesOut
<1>19. CASE Woken
  BY <1>19, TakeFacts DEF Woken, Notes
<1>20. CASE AccountNote
  BY <1>20, TakeFacts DEF AccountNote, Notes
<1>21. CASE SkippedNote
  BY <1>21, TakeFacts
  DEF SkippedNote, UpTo, _is_stale_turn_note, _is_session_noise_note, Notes
<1>22. CASE TurnNote
  <2>1. queue \in Seq(Notes) /\ Len(queue) <= QueueMax /\ queue # <<>>
    BY <1>22 DEF TurnNote, Notes
  <2>2. /\ Head(queue) \in Notes /\ Holds(queue, Head(queue))
        /\ queue' \in Seq(Notes) /\ Len(queue') <= QueueMax
        /\ \A x : Holds(queue', x) => Holds(queue, x)
        /\ \A x : Holds(queue, x) /\ x # Head(queue) => Holds(queue', x)
    BY <1>22, <2>1, TakeFacts DEF TurnNote
  <2>3. Head(queue) \in OwnNotes \cup {"olddone"}
    BY <1>22, <2>2
    DEF TurnNote, Notes, _is_stale_turn_note, _is_session_noise_note
  <2>4. TypeOK'
    <3>1. outcome' \in Outcomes /\ pc' \in Awaits /\ req' \in 0..ReqTimeout
          /\ told' \in BOOLEAN
      BY <1>22 DEF TurnNote, Verdict
    <3>2. queue' \in Seq(OwnNotes \cup OtherNotes \cup {"wake"})
          /\ Len(queue') <= QueueMax
      BY <2>2 DEF Notes
    <3>3. idle' \in 0..IdleS
      BY <1>22 DEF TurnNote
    <3>4. items \in BOOLEAN
      OBVIOUS
    <3>5. items' \in BOOLEAN /\ raw' \in BOOLEAN
      BY <1>22, <3>4, Zenon DEF TurnNote
    <3> QED BY <1>22, <3>1, <3>2, <3>3, <3>5 DEF TurnNote
  <2>5. QueueInv'
    BY <1>22, <2>2 DEF TurnNote
  <2>6. FlowInv' /\ ToldInv' /\ SilenceIsNoTimeout'
    BY <1>22 DEF TurnNote, Verdict
  <2>7. VerdictMatchesSidecar'
    BY <1>22, <2>2, <2>3 DEF TurnNote, Verdict
  <2> QED BY <2>4, <2>5, <2>6, <2>7
<1>23. CASE HardCapExceeded
  BY <1>23 DEF HardCapExceeded, decide_idle
<1>24. CASE ExtendSilently
  BY <1>24 DEF ExtendSilently
<1>25. CASE SteerConsumed
  <2>1. TypeOK'
    <3>1. steer' \in BOOLEAN
      BY <1>25, Zenon DEF SteerConsumed
    <3>2. /\ UNCHANGED <<side, conn, queue, gen, turnId, age, req, items, raw,
                        stales, outcome, told, faulty>>
          /\ probed' = 0 /\ idle' = IdleS /\ pc' = "loop"
      BY <1>25 DEF SteerConsumed
    <3> QED BY <3>1, <3>2
  <2>2. QueueInv' /\ FlowInv'
    BY <1>25 DEF SteerConsumed
  <2>3. ToldInv' /\ VerdictMatchesSidecar' /\ SilenceIsNoTimeout'
    BY <1>25 DEF SteerConsumed
  <2> QED BY <2>1, <2>2, <2>3
<1>26. ASSUME NEW redisFails \in BOOLEAN, Probe(redisFails) PROVE StreamInv'
  BY <1>26 DEF Probe
<1>27. CASE Cancel
  BY <1>27 DEF Cancel
<1>30. CASE Resume
  BY <1>30 DEF Resume
<1>31. CASE Leave
  BY <1>31 DEF Leave
<1>28. CASE Close
  BY <1>28, WakeFacts DEF Close, Notes
<1>29. CASE UNCHANGED vars
  BY <1>29 DEF vars, Holds
<1> HIDE DEF StreamInv
<1> QED
  BY <1>1, <1>2, <1>3, <1>4, <1>5, <1>6, <1>7, <1>8, <1>9, <1>10,
     <1>11, <1>12, <1>13, <1>14, <1>15, <1>16, <1>17, <1>18, <1>19,
     <1>20, <1>21, <1>22, <1>23, <1>24, <1>25, <1>26, <1>27, <1>28, <1>29,
     <1>30, <1>31
  DEF Next, Consumer, Environment

-----------------------------------------------------------------------------
(* The theorems                                                            *)

\* The inductive invariant holds of every reachable state.
LEMMA StreamInvariant == Spec => []StreamInv
  BY InitHolds, NextHolds, PTL DEF Spec

\* The queue never exceeds its bound and every variable keeps its type.
THEOREM StreamTypes == Spec => []TypeOK
<1>1. StreamInv => TypeOK
  BY DEF StreamInv
<1> QED BY <1>1, StreamInvariant, PTL

\* If older turns label their notes, run_turn's done and error events are
\* the sidecar's verdict on this very turn, for any interleaving of notes,
\* answers, timeouts and loss of connection.
THEOREM VerdictIsSidecars == Spec => []VerdictMatchesSidecar
<1>1. StreamInv => VerdictMatchesSidecar
  BY DEF StreamInv
<1> QED BY <1>1, StreamInvariant, PTL

\* Nobody waits on a dead connection without the sentinel in the queue.
THEOREM WakeReachesWaiter == Spec => []WaiterIsWoken
<1>1. StreamInv => WaiterIsWoken
  BY DEF StreamInv, QueueInv, FlowInv, WaiterIsWoken
<1> QED BY <1>1, StreamInvariant, PTL

\* A silent turn is timed out only at the hard cap or after a failure.
THEOREM NoPrematureTimeout == Spec => []SilenceIsNoTimeout
<1>1. StreamInv => SilenceIsNoTimeout
  BY DEF StreamInv
<1> QED BY <1>1, StreamInvariant, PTL

\* On a living socket a known turn is given up without turn/interrupt only
\* with a verdict, by a dropped stream, by an exception or at a yield; timeouts,
\* stale storms and cancellations of stream_turn's own awaits interrupt it.
THEOREM AbandonedIsInterrupted == Spec => []AbandonedTurnIsTold
<1>1. StreamInv => AbandonedTurnIsTold
  BY DEF StreamInv, TypeOK, Outcomes, FlowInv, ToldInv, AbandonedTurnIsTold
<1> QED BY <1>1, StreamInvariant, PTL
=============================================================================
