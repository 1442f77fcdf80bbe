----------------------------- MODULE TgTurnProofs -----------------------------
(***************************************************************************)
(* The turns of a Telegram topic, for any number of processes, messages,   *)
(* presses of Stop and faults: types, one stream per chat while the        *)
(* heartbeats hold, and that a handler settles its row unless the database *)
(* refuses the write.                                                      *)
(***************************************************************************)
EXTENDS TgTurn, TLAPS

\* a handler between CreateTurnRow and its return
Working == {"lock"} \cup Locked
\* a Stop that has a session
Stopping == {"read", "interrupt", "cancel", "wait", "finalize"}

\* A handler past get_or_create has a process and a session, and so has a Stop
\* that found one.
Owned ==
  /\ \A h \in Handlers :
        /\ hpc[h] \notin {"idle", "end", "dead"} => proc[h] # None
        /\ hpc[h] \in {"build", "await", "look", "steer", "create"} \cup Working => sess[h] # None
  /\ \A k \in Stops : kpc[k] \in Stopping => ksess[k] # None

\* Only a handler that has got to its row has one; it brings a terminal to
\* finalize_once, and returns with a live row only when a commit failed.
RowFollowsHandler ==
  \A h \in Handlers :
     /\ turn[h] # "none" => hpc[h] \in Working \cup {"end", "dead"}
     /\ hpc[h] \in {"teardown", "report", "finalize"} => out[h] # None
     /\ hpc[h] = "end" /\ turn[h] \in Live => h \in lostWrites

\* turn_lock is held by a handler inside _run_locked of that session, which
\* gives the task back before the lock.
LockIsHeld ==
  /\ \A s \in Handlers : holder[s] # None =>
        sess[holder[s]] = s /\ hpc[holder[s]] \in Locked
  /\ \A h \in Handlers : hpc[h] = "finalize" => task[sess[h]] = None

\* turn:active names the handler that talks to the sidecar, as long as its
\* heartbeat keeps the key and the row.
StreamHoldsKey == \A h \in Handlers : Streaming(h) /\ Fresh(h) => key = h

\* TgTypeOK in three parts: the fields, and its two statements about the lock.
TgFields ==
  /\ proc \in [Handlers -> Procs \cup {None}]
  /\ hpc \in [Handlers -> HandlerPc]
  /\ slot \in [Procs -> Handlers \cup {None}]
  /\ fut \in [Handlers -> {"none", "pending", "ok", "failed"}]
  /\ sess \in [Handlers -> Handlers \cup {None}]
  /\ holder \in [Handlers -> Handlers \cup {None}]
  /\ task \in [Handlers -> Handlers \cup {None}]
  /\ turn \in [Handlers -> Live \cup Final \cup {"none"}]
  /\ key \in Handlers \cup {None}
  /\ cancelled \subseteq Handlers
  /\ mute \subseteq Handlers /\ aged \subseteq Handlers /\ lostWrites \subseteq Handlers
  /\ out \in [Handlers -> Final \cup {None}]
  /\ kpc \in [Stops -> StopPc]
  /\ kind \in [Stops -> {"stop", "refresh"}]
  /\ kproc \in [Stops -> Procs \cup {None}]
  /\ ksess \in [Stops -> Handlers \cup {None}]
  /\ kact \in [Stops -> Handlers \cup {None}]
  /\ ktask \in [Stops -> Handlers \cup {None}]
  /\ journal \subseteq Stops
  /\ faults \in 0..MaxFaults

LockedHolds ==
  \A h \in Handlers : hpc[h] \in Locked => sess[h] # None /\ holder[sess[h]] = h

TaskIsHolder == \A s \in Handlers : task[s] \in {None, holder[s]}

TgInv ==
  /\ TgFields /\ LockedHolds /\ TaskIsHolder /\ LockIsHeld
  /\ Owned /\ RowFollowsHandler /\ StreamHoldsKey

\* What get_active finds: a live row, or nothing when there is none.
LEMMA ActiveRowIsLive ==
  /\ ActiveRow \in Handlers \cup {None}
  /\ ActiveRow # None => turn[ActiveRow] \in Live
  BY DEF ActiveRow

\* The initial state satisfies the invariant.
LEMMA TgInvInit == TgInit => TgInv
  BY TgConstants DEF TgInit, TgInv, TgFields, LockedHolds, TaskIsHolder, LockIsHeld,
     Owned, RowFollowsHandler, StreamHoldsKey, Streaming,
     HandlerPc, Locked, Working, StopPc, Stopping, Live, Final

\* An update gets a process, or is turned away before it has a row.
LEMMA IncomingKeeps ==
  ASSUME TgInv, NEW h \in Handlers, Incoming(h) PROVE TgInv'
<1> USE TgConstants DEF TgInv, HandlerPc, Locked, Working, StopPc, Stopping, Live, Final
<1>1. TgFields'
  BY DEF Incoming, TgFields, Owned, Goto, Return, storeVars, turnVars, beatVars,
     stopVars
<1>2. LockedHolds'
  BY DEF Incoming, LockedHolds, TgFields, Owned, LockIsHeld, Goto, Return, storeVars,
     turnVars, beatVars, stopVars
<1>3. TaskIsHolder'
  BY DEF Incoming, TaskIsHolder, TgFields, LockedHolds, LockIsHeld, Goto, Return,
     storeVars, turnVars, beatVars, stopVars
<1>4. LockIsHeld'
  BY DEF Incoming, LockIsHeld, TgFields, LockedHolds, TaskIsHolder, Goto, Return,
     storeVars, turnVars, beatVars, stopVars
<1>5. Owned'
  BY DEF Incoming, Owned, TgFields, Goto, Return, storeVars, turnVars, beatVars,
     stopVars
<1>6. RowFollowsHandler'
  BY DEF Incoming, RowFollowsHandler, TgFields, Owned, Goto, Return, storeVars,
     turnVars, beatVars, stopVars
<1>7. StreamHoldsKey'
  BY DEF Incoming, StreamHoldsKey, TgFields, Streaming, Fresh, Goto, Return, storeVars,
     turnVars, beatVars, stopVars
<1> QED BY <1>1, <1>2, <1>3, <1>4, <1>5, <1>6, <1>7

\* A handler joins a session of its process, or starts one of its own.
LEMMA ClaimSlotKeeps ==
  ASSUME TgInv, NEW h \in Handlers, ClaimSlot(h) PROVE TgInv'
<1> USE TgConstants DEF TgInv, HandlerPc, Locked, Working, StopPc, Stopping, Live, Final
<1>1. TgFields'
  BY DEF ClaimSlot, TgFields, Owned, Goto, FailedAttempt, turnVars, beatVars, stopVars
<1>2. LockedHolds'
  BY DEF ClaimSlot, LockedHolds, TgFields, Owned, LockIsHeld, Goto, FailedAttempt,
     turnVars, beatVars, stopVars
<1>3. TaskIsHolder'
  BY DEF ClaimSlot, TaskIsHolder, TgFields, LockedHolds, LockIsHeld, Goto,
     FailedAttempt, turnVars, beatVars, stopVars
<1>4. LockIsHeld'
  BY DEF ClaimSlot, LockIsHeld, TgFields, LockedHolds, TaskIsHolder, Goto,
     FailedAttempt, turnVars, beatVars, stopVars
<1>5. Owned'
  BY DEF ClaimSlot, Owned, TgFields, Goto, FailedAttempt, turnVars, beatVars, stopVars
<1>6. RowFollowsHandler'
  BY DEF ClaimSlot, RowFollowsHandler, TgFields, Owned, Goto, FailedAttempt, turnVars,
     beatVars, stopVars
<1>7. StreamHoldsKey'
  BY DEF ClaimSlot, StreamHoldsKey, TgFields, Streaming, Fresh, Goto, FailedAttempt,
     turnVars, beatVars, stopVars
<1> QED BY <1>1, <1>2, <1>3, <1>4, <1>5, <1>6, <1>7

\* The bootstrap's result reaches the waiters; a failed future leaves the store.
LEMMA FulfilSlotKeeps ==
  ASSUME TgInv, NEW h \in Handlers, FulfilSlot(h) PROVE TgInv'
<1> USE TgConstants DEF TgInv, HandlerPc, Locked, Working, StopPc, Stopping, Live, Final
<1>1. TgFields'
  BY DEF FulfilSlot, TgFields, Owned, Goto, Return, turnVars, beatVars, stopVars
<1>2. LockedHolds'
  BY DEF FulfilSlot, LockedHolds, TgFields, Owned, LockIsHeld, Goto, Return, turnVars,
     beatVars, stopVars
<1>3. TaskIsHolder'
  BY DEF FulfilSlot, TaskIsHolder, TgFields, LockedHolds, LockIsHeld, Goto, Return,
     turnVars, beatVars, stopVars
<1>4. LockIsHeld'
  BY DEF FulfilSlot, LockIsHeld, TgFields, LockedHolds, TaskIsHolder, Goto, Return,
     turnVars, beatVars, stopVars
<1>5. Owned'
  BY DEF FulfilSlot, Owned, TgFields, Goto, Return, turnVars, beatVars, stopVars
<1>6. RowFollowsHandler'
  BY DEF FulfilSlot, RowFollowsHandler, TgFields, Owned, Goto, Return, turnVars,
     beatVars, stopVars
<1>7. StreamHoldsKey'
  BY DEF FulfilSlot, StreamHoldsKey, TgFields, Streaming, Fresh, Goto, Return, turnVars,
     beatVars, stopVars
<1> QED BY <1>1, <1>2, <1>3, <1>4, <1>5, <1>6, <1>7

\* A waiter goes on in the session it waited for, or returns without a row.
LEMMA AwaitSessionKeeps ==
  ASSUME TgInv, NEW h \in Handlers, AwaitSession(h) PROVE TgInv'
<1> USE TgConstants DEF TgInv, HandlerPc, Locked, Working, StopPc, Stopping, Live, Final
<1>1. TgFields'
  BY DEF AwaitSession, TgFields, Owned, Goto, Return, storeVars, turnVars, beatVars,
     stopVars
<1>2. LockedHolds'
  BY DEF AwaitSession, LockedHolds, TgFields, Owned, LockIsHeld, Goto, Return,
     storeVars, turnVars, beatVars, stopVars
<1>3. TaskIsHolder'
  BY DEF AwaitSession, TaskIsHolder, TgFields, LockedHolds, LockIsHeld, Goto, Return,
     storeVars, turnVars, beatVars, stopVars
<1>4. LockIsHeld'
  BY DEF AwaitSession, LockIsHeld, TgFields, LockedHolds, TaskIsHolder, Goto, Return,
     storeVars, turnVars, beatVars, stopVars
<1>5. Owned'
  BY DEF AwaitSession, Owned, TgFields, Goto, Return, storeVars, turnVars, beatVars,
     stopVars
<1>6. RowFollowsHandler'
  BY DEF AwaitSession, RowFollowsHandler, TgFields, Owned, Goto, Return, storeVars,
     turnVars, beatVars, stopVars
<1>7. StreamHoldsKey'
  BY DEF AwaitSession, StreamHoldsKey, TgFields, Streaming, Fresh, Goto, Return,
     storeVars, turnVars, beatVars, stopVars
<1> QED BY <1>1, <1>2, <1>3, <1>4, <1>5, <1>6, <1>7

\* The only row settled here is stale, so its handler is no longer Fresh.
LEMMA LookAtActiveKeeps ==
  ASSUME TgInv, NEW h \in Handlers, LookAtActive(h) PROVE TgInv'
<1> USE TgConstants DEF TgInv, HandlerPc, Locked, Working, StopPc, Stopping, Live, Final
<1>1. TgFields'
  BY DEF LookAtActive, TgFields, Owned, Goto, Return, FinalizeOnce, Stale, storeVars,
     turnVars, beatVars, stopVars
<1>2. LockedHolds'
  BY DEF LookAtActive, LockedHolds, TgFields, Owned, LockIsHeld, Goto, Return,
     FinalizeOnce, Stale, storeVars, turnVars, beatVars, stopVars
<1>3. TaskIsHolder'
  BY DEF LookAtActive, TaskIsHolder, TgFields, LockedHolds, LockIsHeld, Goto, Return,
     FinalizeOnce, Stale, storeVars, turnVars, beatVars, stopVars
<1>4. LockIsHeld'
  BY DEF LookAtActive, LockIsHeld, TgFields, LockedHolds, TaskIsHolder, Goto, Return,
     FinalizeOnce, Stale, storeVars, turnVars, beatVars, stopVars
<1>5. Owned'
  BY DEF LookAtActive, Owned, TgFields, Goto, Return, FinalizeOnce, Stale, storeVars,
     turnVars, beatVars, stopVars
<1>6. RowFollowsHandler'
  BY DEF LookAtActive, RowFollowsHandler, TgFields, Owned, Goto, Return, FinalizeOnce,
     Stale, storeVars, turnVars, beatVars, stopVars
<1>7. StreamHoldsKey'
  BY DEF LookAtActive, StreamHoldsKey, TgFields, Streaming, Fresh, Goto, Return,
     FinalizeOnce, Stale, storeVars, turnVars, beatVars, stopVars
<1> QED BY <1>1, <1>2, <1>3, <1>4, <1>5, <1>6, <1>7

\* A steered message returns without a row of its own.
LEMMA SteerActiveKeeps ==
  ASSUME TgInv, NEW h \in Handlers, SteerActive(h) PROVE TgInv'
<1> USE TgConstants DEF TgInv, HandlerPc, Locked, Working, StopPc, Stopping, Live, Final
<1>1. TgFields'
  BY DEF SteerActive, TgFields, Owned, Goto, Return, storeVars, turnVars, beatVars,
     stopVars
<1>2. LockedHolds'
  BY DEF SteerActive, LockedHolds, TgFields, Owned, LockIsHeld, Goto, Return, storeVars,
     turnVars, beatVars, stopVars
<1>3. TaskIsHolder'
  BY DEF SteerActive, TaskIsHolder, TgFields, LockedHolds, LockIsHeld, Goto, Return,
     storeVars, turnVars, beatVars, stopVars
<1>4. LockIsHeld'
  BY DEF SteerActive, LockIsHeld, TgFields, LockedHolds, TaskIsHolder, Goto, Return,
     storeVars, turnVars, beatVars, stopVars
<1>5. Owned'
  BY DEF SteerActive, Owned, TgFields, Goto, Return, storeVars, turnVars, beatVars,
     stopVars
<1>6. RowFollowsHandler'
  BY DEF SteerActive, RowFollowsHandler, TgFields, Owned, Goto, Return, storeVars,
     turnVars, beatVars, stopVars
<1>7. StreamHoldsKey'
  BY DEF SteerActive, StreamHoldsKey, TgFields, Streaming, Fresh, Goto, Return,
     storeVars, turnVars, beatVars, stopVars
<1> QED BY <1>1, <1>2, <1>3, <1>4, <1>5, <1>6, <1>7

\* A commit that fails after the row was written is in lostWrites.
LEMMA CreateTurnRowKeeps ==
  ASSUME TgInv, NEW h \in Handlers, CreateTurnRow(h) PROVE TgInv'
<1> USE TgConstants DEF TgInv, HandlerPc, Locked, Working, StopPc, Stopping, Live, Final
<1>1. TgFields'
  BY DEF CreateTurnRow, TgFields, Owned, Goto, Return, Fault, storeVars, stopVars
<1>2. LockedHolds'
  BY DEF CreateTurnRow, LockedHolds, TgFields, Owned, LockIsHeld, Goto, Return, Fault,
     storeVars, stopVars
<1>3. TaskIsHolder'
  BY DEF CreateTurnRow, TaskIsHolder, TgFields, LockedHolds, LockIsHeld, Goto, Return,
     Fault, storeVars, stopVars
<1>4. LockIsHeld'
  BY DEF CreateTurnRow, LockIsHeld, TgFields, LockedHolds, TaskIsHolder, Goto, Return,
     Fault, storeVars, stopVars
<1>5. Owned'
  BY DEF CreateTurnRow, Owned, TgFields, Goto, Return, Fault, storeVars, stopVars
<1>6. RowFollowsHandler'
  BY DEF CreateTurnRow, RowFollowsHandler, TgFields, Owned, Goto, Return, Fault,
     storeVars, stopVars
<1>7. StreamHoldsKey'
  BY DEF CreateTurnRow, StreamHoldsKey, TgFields, Streaming, Fresh, Goto, Return, Fault,
     storeVars, stopVars
<1> QED BY <1>1, <1>2, <1>3, <1>4, <1>5, <1>6, <1>7

\* turn_lock is free when it is taken.
LEMMA TakeTurnLockKeeps ==
  ASSUME TgInv, NEW h \in Handlers, TakeTurnLock(h) PROVE TgInv'
<1> USE TgConstants DEF TgInv, HandlerPc, Locked, Working, StopPc, Stopping, Live, Final
<1>1. TgFields'
  BY DEF TakeTurnLock, TgFields, Owned, Goto, turnVars, beatVars, stopVars
<1>2. LockedHolds'
  BY DEF TakeTurnLock, LockedHolds, TgFields, Owned, LockIsHeld, Goto, turnVars,
     beatVars, stopVars
<1>3. TaskIsHolder'
  BY DEF TakeTurnLock, TaskIsHolder, TgFields, LockedHolds, LockIsHeld, Goto, turnVars,
     beatVars, stopVars
<1>4. LockIsHeld'
  BY DEF TakeTurnLock, LockIsHeld, TgFields, LockedHolds, TaskIsHolder, Goto, turnVars,
     beatVars, stopVars
<1>5. Owned'
  BY DEF TakeTurnLock, Owned, TgFields, Goto, turnVars, beatVars, stopVars
<1>6. RowFollowsHandler'
  BY DEF TakeTurnLock, RowFollowsHandler, TgFields, Owned, Goto, turnVars, beatVars,
     stopVars
<1>7. StreamHoldsKey'
  BY DEF TakeTurnLock, StreamHoldsKey, TgFields, Streaming, Fresh, Goto, turnVars,
     beatVars, stopVars
<1> QED BY <1>1, <1>2, <1>3, <1>4, <1>5, <1>6, <1>7

\* The stream begins with the active key.
LEMMA AcquireActiveKeeps ==
  ASSUME TgInv, NEW h \in Handlers, AcquireActive(h) PROVE TgInv'
<1> USE TgConstants DEF TgInv, HandlerPc, Locked, Working, StopPc, Stopping, Live, Final
<1>1. TgFields'
  BY DEF AcquireActive, TgFields, Owned, Goto, storeVars, beatVars, stopVars
<1>2. LockedHolds'
  BY DEF AcquireActive, LockedHolds, TgFields, Owned, LockIsHeld, Goto, storeVars,
     beatVars, stopVars
<1>3. TaskIsHolder'
  BY DEF AcquireActive, TaskIsHolder, TgFields, LockedHolds, LockIsHeld, Goto,
     storeVars, beatVars, stopVars
<1>4. LockIsHeld'
  BY DEF AcquireActive, LockIsHeld, TgFields, LockedHolds, TaskIsHolder, Goto,
     storeVars, beatVars, stopVars
<1>5. Owned'
  BY DEF AcquireActive, Owned, TgFields, Goto, storeVars, beatVars, stopVars
<1>6. RowFollowsHandler'
  BY DEF AcquireActive, RowFollowsHandler, TgFields, Owned, Goto, storeVars, beatVars,
     stopVars
<1>7. StreamHoldsKey'
  BY DEF AcquireActive, StreamHoldsKey, TgFields, Streaming, Fresh, Goto, storeVars,
     beatVars, stopVars
<1> QED BY <1>1, <1>2, <1>3, <1>4, <1>5, <1>6, <1>7

\* A failed start goes to the teardown with a terminal.
LEMMA BeginTurnKeeps ==
  ASSUME TgInv, NEW h \in Handlers, BeginTurn(h) PROVE TgInv'
<1> USE TgConstants DEF TgInv, HandlerPc, Locked, Working, StopPc, Stopping, Live, Final
<1>1. TgFields'
  BY DEF BeginTurn, TgFields, Owned, Goto, storeVars, beatVars, stopVars
<1>2. LockedHolds'
  BY DEF BeginTurn, LockedHolds, TgFields, Owned, LockIsHeld, Goto, storeVars, beatVars,
     stopVars
<1>3. TaskIsHolder'
  BY DEF BeginTurn, TaskIsHolder, TgFields, LockedHolds, LockIsHeld, Goto, storeVars,
     beatVars, stopVars
<1>4. LockIsHeld'
  BY DEF BeginTurn, LockIsHeld, TgFields, LockedHolds, TaskIsHolder, Goto, storeVars,
     beatVars, stopVars
<1>5. Owned'
  BY DEF BeginTurn, Owned, TgFields, Goto, storeVars, beatVars, stopVars
<1>6. RowFollowsHandler'
  BY DEF BeginTurn, RowFollowsHandler, TgFields, Owned, Goto, storeVars, beatVars,
     stopVars
<1>7. StreamHoldsKey'
  BY DEF BeginTurn, StreamHoldsKey, TgFields, Streaming, Fresh, Goto, storeVars,
     beatVars, stopVars
<1> QED BY <1>1, <1>2, <1>3, <1>4, <1>5, <1>6, <1>7

\* A row that does not turn RUNNING goes to the teardown with a terminal.
LEMMA MarkRunningKeeps ==
  ASSUME TgInv, NEW h \in Handlers, MarkRunning(h) PROVE TgInv'
<1> USE TgConstants DEF TgInv, HandlerPc, Locked, Working, StopPc, Stopping, Live, Final
<1>1. TgFields'
  BY DEF MarkRunning, TgFields, Owned, Goto, storeVars, beatVars, stopVars
<1>2. LockedHolds'
  BY DEF MarkRunning, LockedHolds, TgFields, Owned, LockIsHeld, Goto, storeVars,
     beatVars, stopVars
<1>3. TaskIsHolder'
  BY DEF MarkRunning, TaskIsHolder, TgFields, LockedHolds, LockIsHeld, Goto, storeVars,
     beatVars, stopVars
<1>4. LockIsHeld'
  BY DEF MarkRunning, LockIsHeld, TgFields, LockedHolds, TaskIsHolder, Goto, storeVars,
     beatVars, stopVars
<1>5. Owned'
  BY DEF MarkRunning, Owned, TgFields, Goto, storeVars, beatVars, stopVars
<1>6. RowFollowsHandler'
  BY DEF MarkRunning, RowFollowsHandler, TgFields, Owned, Goto, storeVars, beatVars,
     stopVars
<1>7. StreamHoldsKey'
  BY DEF MarkRunning, StreamHoldsKey, TgFields, Streaming, Fresh, Goto, storeVars,
     beatVars, stopVars
<1> QED BY <1>1, <1>2, <1>3, <1>4, <1>5, <1>6, <1>7

\* Every end of the stream sets the terminal.
LEMMA StreamEndsKeeps ==
  ASSUME TgInv, NEW h \in Handlers, StreamEnds(h) PROVE TgInv'
<1> USE TgConstants DEF TgInv, HandlerPc, Locked, Working, StopPc, Stopping, Live, Final
<1>1. TgFields'
  BY DEF StreamEnds, TgFields, Owned, Goto, storeVars, beatVars, stopVars
<1>2. LockedHolds'
  BY DEF StreamEnds, LockedHolds, TgFields, Owned, LockIsHeld, Goto, storeVars,
     beatVars, stopVars
<1>3. TaskIsHolder'
  BY DEF StreamEnds, TaskIsHolder, TgFields, LockedHolds, LockIsHeld, Goto, storeVars,
     beatVars, stopVars
<1>4. LockIsHeld'
  BY DEF StreamEnds, LockIsHeld, TgFields, LockedHolds, TaskIsHolder, Goto, storeVars,
     beatVars, stopVars
<1>5. Owned'
  BY DEF StreamEnds, Owned, TgFields, Goto, storeVars, beatVars, stopVars
<1>6. RowFollowsHandler'
  BY DEF StreamEnds, RowFollowsHandler, TgFields, Owned, Goto, storeVars, beatVars,
     stopVars
<1>7. StreamHoldsKey'
  BY DEF StreamEnds, StreamHoldsKey, TgFields, Streaming, Fresh, Goto, storeVars,
     beatVars, stopVars
<1> QED BY <1>1, <1>2, <1>3, <1>4, <1>5, <1>6, <1>7

\* Only the handler's own key is released, and it streams no more.
LEMMA TeardownKeeps ==
  ASSUME TgInv, NEW h \in Handlers, Teardown(h) PROVE TgInv'
<1> USE TgConstants DEF TgInv, HandlerPc, Locked, Working, StopPc, Stopping, Live, Final
<1>1. TgFields'
  BY DEF Teardown, TgFields, Owned, Goto, storeVars, stopVars
<1>2. LockedHolds'
  BY DEF Teardown, LockedHolds, TgFields, Owned, LockIsHeld, Goto, storeVars, stopVars
<1>3. TaskIsHolder'
  BY DEF Teardown, TaskIsHolder, TgFields, LockedHolds, LockIsHeld, Goto, storeVars,
     stopVars
<1>4. LockIsHeld'
  BY DEF Teardown, LockIsHeld, TgFields, LockedHolds, TaskIsHolder, Goto, storeVars,
     stopVars
<1>5. Owned'
  BY DEF Teardown, Owned, TgFields, Goto, storeVars, stopVars
<1>6. RowFollowsHandler'
  BY DEF Teardown, RowFollowsHandler, TgFields, Owned, Goto, storeVars, stopVars
<1>7. StreamHoldsKey'
  BY DEF Teardown, StreamHoldsKey, TgFields, Streaming, Fresh, Goto, storeVars, stopVars
<1> QED BY <1>1, <1>2, <1>3, <1>4, <1>5, <1>6, <1>7

\* The task is given back before the lock.
LEMMA ReportOutcomeKeeps ==
  ASSUME TgInv, NEW h \in Handlers, ReportOutcome(h) PROVE TgInv'
<1> USE TgConstants DEF TgInv, HandlerPc, Locked, Working, StopPc, Stopping, Live, Final
<1>1. TgFields'
  BY DEF ReportOutcome, TgFields, Owned, Goto, turnVars, beatVars, stopVars
<1>2. LockedHolds'
  BY DEF ReportOutcome, LockedHolds, TgFields, Owned, LockIsHeld, Goto, turnVars,
     beatVars, stopVars
<1>3. TaskIsHolder'
  BY DEF ReportOutcome, TaskIsHolder, TgFields, LockedHolds, LockIsHeld, Goto, turnVars,
     beatVars, stopVars
<1>4. LockIsHeld'
  BY DEF ReportOutcome, LockIsHeld, TgFields, LockedHolds, TaskIsHolder, Goto, turnVars,
     beatVars, stopVars
<1>5. Owned'
  BY DEF ReportOutcome, Owned, TgFields, Goto, turnVars, beatVars, stopVars
<1>6. RowFollowsHandler'
  BY DEF ReportOutcome, RowFollowsHandler, TgFields, Owned, Goto, turnVars, beatVars,
     stopVars
<1>7. StreamHoldsKey'
  BY DEF ReportOutcome, StreamHoldsKey, TgFields, Streaming, Fresh, Goto, turnVars,
     beatVars, stopVars
<1> QED BY <1>1, <1>2, <1>3, <1>4, <1>5, <1>6, <1>7

\* The row ends final, or its handler is in lostWrites.
LEMMA FinalizeTurnKeeps ==
  ASSUME TgInv, NEW h \in Handlers, FinalizeTurn(h) PROVE TgInv'
<1> USE TgConstants DEF TgInv, HandlerPc, Locked, Working, StopPc, Stopping, Live, Final
<1>1. TgFields'
  BY DEF FinalizeTurn, TgFields, Owned, Goto, Return, Fault, FinalizeOnce, stopVars
<1>2. LockedHolds'
  BY DEF FinalizeTurn, LockedHolds, TgFields, Owned, LockIsHeld, Goto, Return, Fault,
     FinalizeOnce, stopVars
<1>3. TaskIsHolder'
  BY DEF FinalizeTurn, TaskIsHolder, TgFields, LockedHolds, LockIsHeld, Goto, Return,
     Fault, FinalizeOnce, stopVars
<1>4. LockIsHeld'
  BY DEF FinalizeTurn, LockIsHeld, TgFields, LockedHolds, TaskIsHolder, Goto, Return,
     Fault, FinalizeOnce, stopVars
<1>5. Owned'
  BY DEF FinalizeTurn, Owned, TgFields, Goto, Return, Fault, FinalizeOnce, stopVars
<1>6. RowFollowsHandler'
  BY DEF FinalizeTurn, RowFollowsHandler, TgFields, Owned, Goto, Return, Fault,
     FinalizeOnce, stopVars
<1>7. StreamHoldsKey'
  BY DEF FinalizeTurn, StreamHoldsKey, TgFields, Streaming, Fresh, Goto, Return, Fault,
     FinalizeOnce, stopVars
<1> QED BY <1>1, <1>2, <1>3, <1>4, <1>5, <1>6, <1>7

\* A cancel moves the handler on with a terminal.
LEMMA CancelKeeps ==
  ASSUME TgInv, NEW h \in Handlers, Cancel(h) PROVE TgInv'
<1> USE TgConstants DEF TgInv, HandlerPc, Locked, Working, StopPc, Stopping, Live, Final
<1>1. TgFields'
  BY DEF Cancel, TgFields, Owned, Goto, turnVars, beatVars, stopVars
<1>2. LockedHolds'
  BY DEF Cancel, LockedHolds, TgFields, Owned, LockIsHeld, Goto, turnVars, beatVars,
     stopVars
<1>3. TaskIsHolder'
  BY DEF Cancel, TaskIsHolder, TgFields, LockedHolds, LockIsHeld, Goto, turnVars,
     beatVars, stopVars
<1>4. LockIsHeld'
  BY DEF Cancel, LockIsHeld, TgFields, LockedHolds, TaskIsHolder, Goto, turnVars,
     beatVars, stopVars
<1>5. Owned'
  BY DEF Cancel, Owned, TgFields, Goto, turnVars, beatVars, stopVars
<1>6. RowFollowsHandler'
  BY DEF Cancel, RowFollowsHandler, TgFields, Owned, Goto, turnVars, beatVars, stopVars
<1>7. StreamHoldsKey'
  BY DEF Cancel, StreamHoldsKey, TgFields, Streaming, Fresh, Goto, turnVars, beatVars,
     stopVars
<1> QED BY <1>1, <1>2, <1>3, <1>4, <1>5, <1>6, <1>7

\* A swallowed cancel changes no handler.
LEMMA CancelSwallowedKeeps ==
  ASSUME TgInv, NEW h \in Handlers, CancelSwallowed(h) PROVE TgInv'
<1> USE TgConstants DEF TgInv, HandlerPc, Locked, Working, StopPc, Stopping, Live, Final
<1>1. TgFields'
  BY DEF CancelSwallowed, TgFields, Owned, Fault, handlerVars, storeVars, turnVars,
     beatVars, stopVars
<1>2. LockedHolds'
  BY DEF CancelSwallowed, LockedHolds, TgFields, Owned, LockIsHeld, Fault, handlerVars,
     storeVars, turnVars, beatVars, stopVars
<1>3. TaskIsHolder'
  BY DEF CancelSwallowed, TaskIsHolder, TgFields, LockedHolds, LockIsHeld, Fault,
     handlerVars, storeVars, turnVars, beatVars, stopVars
<1>4. LockIsHeld'
  BY DEF CancelSwallowed, LockIsHeld, TgFields, LockedHolds, TaskIsHolder, Fault,
     handlerVars, storeVars, turnVars, beatVars, stopVars
<1>5. Owned'
  BY DEF CancelSwallowed, Owned, TgFields, Fault, handlerVars, storeVars, turnVars,
     beatVars, stopVars
<1>6. RowFollowsHandler'
  BY DEF CancelSwallowed, RowFollowsHandler, TgFields, Owned, Fault, handlerVars,
     storeVars, turnVars, beatVars, stopVars
<1>7. StreamHoldsKey'
  BY DEF CancelSwallowed, StreamHoldsKey, TgFields, Streaming, Fresh, Fault,
     handlerVars, storeVars, turnVars, beatVars, stopVars
<1> QED BY <1>1, <1>2, <1>3, <1>4, <1>5, <1>6, <1>7

\* An aging row only loses its freshness.
LEMMA AgesKeeps ==
  ASSUME TgInv, NEW h \in Handlers, Ages(h) PROVE TgInv'
<1> USE TgConstants DEF TgInv, HandlerPc, Locked, Working, StopPc, Stopping, Live, Final
<1>1. TgFields'
  BY DEF Ages, TgFields, Owned, handlerVars, storeVars, turnVars, stopVars
<1>2. LockedHolds'
  BY DEF Ages, LockedHolds, TgFields, Owned, LockIsHeld, handlerVars, storeVars,
     turnVars, stopVars
<1>3. TaskIsHolder'
  BY DEF Ages, TaskIsHolder, TgFields, LockedHolds, LockIsHeld, handlerVars, storeVars,
     turnVars, stopVars
<1>4. LockIsHeld'
  BY DEF Ages, LockIsHeld, TgFields, LockedHolds, TaskIsHolder, handlerVars, storeVars,
     turnVars, stopVars
<1>5. Owned'
  BY DEF Ages, Owned, TgFields, handlerVars, storeVars, turnVars, stopVars
<1>6. RowFollowsHandler'
  BY DEF Ages, RowFollowsHandler, TgFields, Owned, handlerVars, storeVars, turnVars,
     stopVars
<1>7. StreamHoldsKey'
  BY DEF Ages, StreamHoldsKey, TgFields, Streaming, Fresh, handlerVars, storeVars,
     turnVars, stopVars
<1> QED BY <1>1, <1>2, <1>3, <1>4, <1>5, <1>6, <1>7

\* A row turns fresh again only with its key in place.
LEMMA BeatKeeps ==
  ASSUME TgInv, NEW h \in Handlers, Beat(h) PROVE TgInv'
<1> USE TgConstants DEF TgInv, HandlerPc, Locked, Working, StopPc, Stopping, Live, Final
<1>1. TgFields'
  BY DEF Beat, TgFields, Owned, Beating, handlerVars, storeVars, turnVars, stopVars
<1>2. LockedHolds'
  BY DEF Beat, LockedHolds, TgFields, Owned, LockIsHeld, Beating, handlerVars,
     storeVars, turnVars, stopVars
<1>3. TaskIsHolder'
  BY DEF Beat, TaskIsHolder, TgFields, LockedHolds, LockIsHeld, Beating, handlerVars,
     storeVars, turnVars, stopVars
<1>4. LockIsHeld'
  BY DEF Beat, LockIsHeld, TgFields, LockedHolds, TaskIsHolder, Beating, handlerVars,
     storeVars, turnVars, stopVars
<1>5. Owned'
  BY DEF Beat, Owned, TgFields, Beating, handlerVars, storeVars, turnVars, stopVars
<1>6. RowFollowsHandler'
  BY DEF Beat, RowFollowsHandler, TgFields, Owned, Beating, handlerVars, storeVars,
     turnVars, stopVars
<1>7. StreamHoldsKey'
  BY DEF Beat, StreamHoldsKey, TgFields, Streaming, Fresh, Beating, handlerVars,
     storeVars, turnVars, stopVars
<1> QED BY <1>1, <1>2, <1>3, <1>4, <1>5, <1>6, <1>7

\* A stopped heartbeat only takes the freshness.
LEMMA BeatStopsKeeps ==
  ASSUME TgInv, NEW h \in Handlers, BeatStops(h) PROVE TgInv'
<1> USE TgConstants DEF TgInv, HandlerPc, Locked, Working, StopPc, Stopping, Live, Final
<1>1. TgFields'
  BY DEF BeatStops, TgFields, Owned, Fault, handlerVars, storeVars, turnVars, stopVars
<1>2. LockedHolds'
  BY DEF BeatStops, LockedHolds, TgFields, Owned, LockIsHeld, Fault, handlerVars,
     storeVars, turnVars, stopVars
<1>3. TaskIsHolder'
  BY DEF BeatStops, TaskIsHolder, TgFields, LockedHolds, LockIsHeld, Fault, handlerVars,
     storeVars, turnVars, stopVars
<1>4. LockIsHeld'
  BY DEF BeatStops, LockIsHeld, TgFields, LockedHolds, TaskIsHolder, Fault, handlerVars,
     storeVars, turnVars, stopVars
<1>5. Owned'
  BY DEF BeatStops, Owned, TgFields, Fault, handlerVars, storeVars, turnVars, stopVars
<1>6. RowFollowsHandler'
  BY DEF BeatStops, RowFollowsHandler, TgFields, Owned, Fault, handlerVars, storeVars,
     turnVars, stopVars
<1>7. StreamHoldsKey'
  BY DEF BeatStops, StreamHoldsKey, TgFields, Streaming, Fresh, Fault, handlerVars,
     storeVars, turnVars, stopVars
<1> QED BY <1>1, <1>2, <1>3, <1>4, <1>5, <1>6, <1>7

\* A Stop picks a session that is ready.
LEMMA PressStopKeeps ==
  ASSUME TgInv, NEW k \in Stops, PressStop(k) PROVE TgInv'
<1> USE TgConstants DEF TgInv, HandlerPc, Locked, Working, StopPc, Stopping, Live, Final
<1>1. TgFields'
  BY DEF PressStop, TgFields, Owned, StopGoto, StopEnds, handlerVars, storeVars,
     turnVars, beatVars
<1>2. LockedHolds'
  BY DEF PressStop, LockedHolds, TgFields, Owned, LockIsHeld, StopGoto, StopEnds,
     handlerVars, storeVars, turnVars, beatVars
<1>3. TaskIsHolder'
  BY DEF PressStop, TaskIsHolder, TgFields, LockedHolds, LockIsHeld, StopGoto, StopEnds,
     handlerVars, storeVars, turnVars, beatVars
<1>4. LockIsHeld'
  BY DEF PressStop, LockIsHeld, TgFields, LockedHolds, TaskIsHolder, StopGoto, StopEnds,
     handlerVars, storeVars, turnVars, beatVars
<1>5. Owned'
  BY DEF PressStop, Owned, TgFields, StopGoto, StopEnds, handlerVars, storeVars,
     turnVars, beatVars
<1>6. RowFollowsHandler'
  BY DEF PressStop, RowFollowsHandler, TgFields, Owned, StopGoto, StopEnds, handlerVars,
     storeVars, turnVars, beatVars
<1>7. StreamHoldsKey'
  BY DEF PressStop, StreamHoldsKey, TgFields, Streaming, Fresh, StopGoto, StopEnds,
     handlerVars, storeVars, turnVars, beatVars
<1> QED BY <1>1, <1>2, <1>3, <1>4, <1>5, <1>6, <1>7

\* A Stop reads the active row.
LEMMA ReadActiveKeeps ==
  ASSUME TgInv, NEW k \in Stops, ReadActive(k) PROVE TgInv'
<1> USE TgConstants DEF TgInv, HandlerPc, Locked, Working, StopPc, Stopping, Live, Final
<1>1. TgFields'
  BY ActiveRowIsLive DEF ReadActive, TgFields, StopGoto, handlerVars, storeVars, turnVars, beatVars
<1>2. LockedHolds'
  BY DEF ReadActive, LockedHolds, TgFields, Owned, LockIsHeld, StopGoto, handlerVars,
     storeVars, turnVars, beatVars
<1>3. TaskIsHolder'
  BY DEF ReadActive, TaskIsHolder, TgFields, LockedHolds, LockIsHeld, StopGoto,
     handlerVars, storeVars, turnVars, beatVars
<1>4. LockIsHeld'
  BY DEF ReadActive, LockIsHeld, TgFields, LockedHolds, TaskIsHolder, StopGoto,
     handlerVars, storeVars, turnVars, beatVars
<1>5. Owned'
  BY DEF ReadActive, Owned, TgFields, StopGoto, handlerVars, storeVars, turnVars,
     beatVars
<1>6. RowFollowsHandler'
  BY DEF ReadActive, RowFollowsHandler, TgFields, Owned, StopGoto, handlerVars,
     storeVars, turnVars, beatVars
<1>7. StreamHoldsKey'
  BY DEF ReadActive, StreamHoldsKey, TgFields, Streaming, Fresh, StopGoto, handlerVars,
     storeVars, turnVars, beatVars
<1> QED BY <1>1, <1>2, <1>3, <1>4, <1>5, <1>6, <1>7

\* The interrupt changes nothing here.
LEMMA SendInterruptKeeps ==
  ASSUME TgInv, NEW k \in Stops, SendInterrupt(k) PROVE TgInv'
<1> USE TgConstants DEF TgInv, HandlerPc, Locked, Working, StopPc, Stopping, Live, Final
<1>1. TgFields'
  BY DEF SendInterrupt, TgFields, Owned, StopGoto, handlerVars, storeVars, beatVars
<1>2. LockedHolds'
  BY DEF SendInterrupt, LockedHolds, TgFields, Owned, LockIsHeld, StopGoto, handlerVars,
     storeVars, beatVars
<1>3. TaskIsHolder'
  BY DEF SendInterrupt, TaskIsHolder, TgFields, LockedHolds, LockIsHeld, StopGoto,
     handlerVars, storeVars, beatVars
<1>4. LockIsHeld'
  BY DEF SendInterrupt, LockIsHeld, TgFields, LockedHolds, TaskIsHolder, StopGoto,
     handlerVars, storeVars, beatVars
<1>5. Owned'
  BY DEF SendInterrupt, Owned, TgFields, StopGoto, handlerVars, storeVars, beatVars
<1>6. RowFollowsHandler'
  BY DEF SendInterrupt, RowFollowsHandler, TgFields, Owned, StopGoto, handlerVars,
     storeVars, beatVars
<1>7. StreamHoldsKey'
  BY DEF SendInterrupt, StreamHoldsKey, TgFields, Streaming, Fresh, StopGoto,
     handlerVars, storeVars, beatVars
<1> QED BY <1>1, <1>2, <1>3, <1>4, <1>5, <1>6, <1>7

\* The task a Stop cancels is a handler's.
LEMMA CancelTaskKeeps ==
  ASSUME TgInv, NEW k \in Stops, CancelTask(k) PROVE TgInv'
<1> USE TgConstants DEF TgInv, HandlerPc, Locked, Working, StopPc, Stopping, Live, Final
<1>1. TgFields'
  BY DEF CancelTask, TgFields, Owned, StopGoto, StopEnds, handlerVars, storeVars,
     turnVars, beatVars
<1>2. LockedHolds'
  BY DEF CancelTask, LockedHolds, TgFields, Owned, LockIsHeld, StopGoto, StopEnds,
     handlerVars, storeVars, turnVars, beatVars
<1>3. TaskIsHolder'
  BY DEF CancelTask, TaskIsHolder, TgFields, LockedHolds, LockIsHeld, StopGoto,
     StopEnds, handlerVars, storeVars, turnVars, beatVars
<1>4. LockIsHeld'
  BY DEF CancelTask, LockIsHeld, TgFields, LockedHolds, TaskIsHolder, StopGoto,
     StopEnds, handlerVars, storeVars, turnVars, beatVars
<1>5. Owned'
  BY DEF CancelTask, Owned, TgFields, StopGoto, StopEnds, handlerVars, storeVars,
     turnVars, beatVars
<1>6. RowFollowsHandler'
  BY DEF CancelTask, RowFollowsHandler, TgFields, Owned, StopGoto, StopEnds,
     handlerVars, storeVars, turnVars, beatVars
<1>7. StreamHoldsKey'
  BY DEF CancelTask, StreamHoldsKey, TgFields, Streaming, Fresh, StopGoto, StopEnds,
     handlerVars, storeVars, turnVars, beatVars
<1> QED BY <1>1, <1>2, <1>3, <1>4, <1>5, <1>6, <1>7

\* Stop takes away a task that has ended.
LEMMA AwaitTaskKeeps ==
  ASSUME TgInv, NEW k \in Stops, AwaitTask(k) PROVE TgInv'
<1> USE TgConstants DEF TgInv, HandlerPc, Locked, Working, StopPc, Stopping, Live, Final
<1>1. TgFields'
  BY DEF AwaitTask, TgFields, Owned, StopGoto, StopEnds, handlerVars, turnVars, beatVars
<1>2. LockedHolds'
  BY DEF AwaitTask, LockedHolds, TgFields, Owned, LockIsHeld, StopGoto, StopEnds,
     handlerVars, turnVars, beatVars
<1>3. TaskIsHolder'
  BY DEF AwaitTask, TaskIsHolder, TgFields, LockedHolds, LockIsHeld, StopGoto, StopEnds,
     handlerVars, turnVars, beatVars
<1>4. LockIsHeld'
  BY DEF AwaitTask, LockIsHeld, TgFields, LockedHolds, TaskIsHolder, StopGoto, StopEnds,
     handlerVars, turnVars, beatVars
<1>5. Owned'
  BY DEF AwaitTask, Owned, TgFields, StopGoto, StopEnds, handlerVars, turnVars, beatVars
<1>6. RowFollowsHandler'
  BY DEF AwaitTask, RowFollowsHandler, TgFields, Owned, StopGoto, StopEnds, handlerVars,
     turnVars, beatVars
<1>7. StreamHoldsKey'
  BY DEF AwaitTask, StreamHoldsKey, TgFields, Streaming, Fresh, StopGoto, StopEnds,
     handlerVars, turnVars, beatVars
<1> QED BY <1>1, <1>2, <1>3, <1>4, <1>5, <1>6, <1>7

\* Stop settles a row or drops a store; it makes no row live.
LEMMA FinishStopKeeps ==
  ASSUME TgInv, NEW k \in Stops, FinishStop(k) PROVE TgInv'
<1> USE TgConstants DEF TgInv, HandlerPc, Locked, Working, StopPc, Stopping, Live, Final
<1>1. TgFields'
  BY DEF FinishStop, TgFields, Owned, StopGoto, StopEnds, FinalizeOnce, handlerVars,
     beatVars
<1>2. LockedHolds'
  BY DEF FinishStop, LockedHolds, TgFields, Owned, LockIsHeld, StopGoto, StopEnds,
     FinalizeOnce, handlerVars, beatVars
<1>3. TaskIsHolder'
  BY DEF FinishStop, TaskIsHolder, TgFields, LockedHolds, LockIsHeld, StopGoto,
     StopEnds, FinalizeOnce, handlerVars, beatVars
<1>4. LockIsHeld'
  BY DEF FinishStop, LockIsHeld, TgFields, LockedHolds, TaskIsHolder, StopGoto,
     StopEnds, FinalizeOnce, handlerVars, beatVars
<1>5. Owned'
  BY DEF FinishStop, Owned, TgFields, StopGoto, StopEnds, FinalizeOnce, handlerVars,
     beatVars
<1>6. RowFollowsHandler'
  BY DEF FinishStop, RowFollowsHandler, TgFields, Owned, StopGoto, StopEnds,
     FinalizeOnce, handlerVars, beatVars
<1>7. StreamHoldsKey'
  BY DEF FinishStop, StreamHoldsKey, TgFields, Streaming, Fresh, StopGoto, StopEnds,
     FinalizeOnce, handlerVars, beatVars
<1> QED BY <1>1, <1>2, <1>3, <1>4, <1>5, <1>6, <1>7

\* /reset takes the session from the store, not from those who work in it.
LEMMA ResetKeeps ==
  ASSUME TgInv, NEW p \in Procs, Reset(p) PROVE TgInv'
<1> USE TgConstants DEF TgInv, HandlerPc, Locked, Working, StopPc, Stopping, Live, Final
<1>1. TgFields'
  BY DEF Reset, TgFields, Owned, Fault, handlerVars, turnVars, beatVars, stopVars
<1>2. LockedHolds'
  BY DEF Reset, LockedHolds, TgFields, Owned, LockIsHeld, Fault, handlerVars, turnVars,
     beatVars, stopVars
<1>3. TaskIsHolder'
  BY DEF Reset, TaskIsHolder, TgFields, LockedHolds, LockIsHeld, Fault, handlerVars,
     turnVars, beatVars, stopVars
<1>4. LockIsHeld'
  BY DEF Reset, LockIsHeld, TgFields, LockedHolds, TaskIsHolder, Fault, handlerVars,
     turnVars, beatVars, stopVars
<1>5. Owned'
  BY DEF Reset, Owned, TgFields, Fault, handlerVars, turnVars, beatVars, stopVars
<1>6. RowFollowsHandler'
  BY DEF Reset, RowFollowsHandler, TgFields, Owned, Fault, handlerVars, turnVars,
     beatVars, stopVars
<1>7. StreamHoldsKey'
  BY DEF Reset, StreamHoldsKey, TgFields, Streaming, Fresh, Fault, handlerVars,
     turnVars, beatVars, stopVars
<1> QED BY <1>1, <1>2, <1>3, <1>4, <1>5, <1>6, <1>7

\* A crash kills the handlers and the Stops of one process, and its store.
LEMMA CrashKeeps ==
  ASSUME TgInv, NEW p \in Procs, Crash(p) PROVE TgInv'
<1> USE TgConstants DEF TgInv, HandlerPc, Locked, Working, StopPc, Stopping, Live, Final
<1>1. TgFields'
  BY DEF Crash, TgFields, Owned, Fault, turnVars
<1>2. LockedHolds'
  BY DEF Crash, LockedHolds, TgFields, Owned, LockIsHeld, Fault, turnVars
<1>3. TaskIsHolder'
  BY DEF Crash, TaskIsHolder, TgFields, LockedHolds, LockIsHeld, Fault, turnVars
<1>4. LockIsHeld'
  BY DEF Crash, LockIsHeld, TgFields, LockedHolds, TaskIsHolder, Fault, turnVars
<1>5. Owned'
  BY DEF Crash, Owned, TgFields, Fault, turnVars
<1>6. RowFollowsHandler'
  BY DEF Crash, RowFollowsHandler, TgFields, Owned, Fault, turnVars
<1>7. StreamHoldsKey'
  BY DEF Crash, StreamHoldsKey, TgFields, Streaming, Fresh, Fault, turnVars
<1> QED BY <1>1, <1>2, <1>3, <1>4, <1>5, <1>6, <1>7

\* The key expires only when no heartbeat refreshes it.
LEMMA ActiveKeyExpiresKeeps ==
  ASSUME TgInv, ActiveKeyExpires PROVE TgInv'
<1> USE TgConstants DEF TgInv, ActiveKeyExpires, handlerVars, storeVars, beatVars, stopVars
<1>1. TgFields' /\ LockedHolds' /\ TaskIsHolder' /\ LockIsHeld'
  BY DEF TgFields, LockedHolds, TaskIsHolder, LockIsHeld
<1>2. Owned' /\ RowFollowsHandler'
  BY DEF Owned, RowFollowsHandler
<1>3. StreamHoldsKey'
  BY DEF StreamHoldsKey, Streaming, Fresh, Beating
<1> QED BY <1>1, <1>2, <1>3

\* A stuttering step.
LEMMA StutterKeeps ==
  ASSUME TgInv, UNCHANGED tgVars PROVE TgInv'
<1> USE DEF TgInv, tgVars, handlerVars, storeVars, turnVars, beatVars, stopVars
<1>1. TgFields' /\ LockedHolds' /\ TaskIsHolder' /\ LockIsHeld'
  BY DEF TgFields, LockedHolds, TaskIsHolder, LockIsHeld
<1>2. Owned' /\ RowFollowsHandler' /\ StreamHoldsKey'
  BY DEF Owned, RowFollowsHandler, StreamHoldsKey, Streaming, Fresh
<1> QED BY <1>1, <1>2

\* The conjunction is inductive.
LEMMA TgInvNext == TgInv /\ [TgNext]_tgVars => TgInv'
  BY IncomingKeeps, ClaimSlotKeeps, FulfilSlotKeeps, AwaitSessionKeeps,
     LookAtActiveKeeps, SteerActiveKeeps, CreateTurnRowKeeps, TakeTurnLockKeeps,
     AcquireActiveKeeps, BeginTurnKeeps, MarkRunningKeeps, StreamEndsKeeps,
     TeardownKeeps, ReportOutcomeKeeps, FinalizeTurnKeeps, CancelKeeps,
     CancelSwallowedKeeps, AgesKeeps, BeatKeeps, BeatStopsKeeps, PressStopKeeps,
     ReadActiveKeeps, SendInterruptKeeps, CancelTaskKeeps, AwaitTaskKeeps,
     FinishStopKeeps, ResetKeeps, CrashKeeps, ActiveKeyExpiresKeeps, StutterKeeps
     DEF TgNext, HandlerStep, StopStep

\* It holds of every reachable state.
LEMMA TgInvariant == TgSpec => []TgInv
  BY TgInvInit, TgInvNext, PTL DEF TgSpec

\* Types of the topic's state; the turn_lock of a session is held by the handler
\* that runs in it, and current_turn_task is that handler's or nothing.
THEOREM TopicTypes == TgSpec => []TgTypeOK
<1>1. TgInv => TgTypeOK
  BY DEF TgInv, TgTypeOK, TgFields, LockedHolds, TaskIsHolder
<1> QED BY <1>1, TgInvariant, PTL

\* Two handlers whose heartbeats keep their rows fresh never talk to the sidecar
\* at once, although /reset, a refreshed store and a second process give them
\* different turn_locks, any row may be declared dead by age, and heartbeats and
\* commits may fail.  Of handlers without a heartbeat it says nothing: there the
\* code streams twice (PhysicalGuarantee).
THEOREM OneStream == TgSpec => []OneStreamPerChat
<1>1. TgInv => OneStreamPerChat
  BY TgConstants DEF TgInv, StreamHoldsKey, OneStreamPerChat
<1> QED BY <1>1, TgInvariant, PTL

\* A handler that has returned leaves its row final, whatever await a cancel or
\* an error of the stream struck at (the finally of _run_locked); the exception
\* is a handler whose own commit, of the row or of its end, the database failed.
THEOREM RowSettled == TgSpec => []EndedHandlerSettledRow
<1>1. TgInv => EndedHandlerSettledRow
  BY DEF TgInv, RowFollowsHandler, EndedHandlerSettledRow
<1> QED BY <1>1, TgInvariant, PTL
=============================================================================
