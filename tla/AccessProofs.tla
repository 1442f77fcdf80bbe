------------------------------ MODULE AccessProofs ------------------------------
(***************************************************************************)
(* What lets a user in: the quota's counter for any number of requests and *)
(* any limits; sign-up and sign-in under concurrent requests, for any      *)
(* number of requests, e-mails and invites: an invite is redeemed once,    *)
(* and a lock-out is timed.                                                *)
(***************************************************************************)
EXTENDS RateLimit, Accounts, FiniteSetTheorems, TLAPS

-----------------------------------------------------------------------------
(* RateLimit *)

\* Live is a finite set that gains or loses the request that moves.
LEMMA LiveFinite == IsFiniteSet(Live)
  BY RateConstants, FS_Subset DEF Live

\* A request that enters Live adds one to its size.
LEMMA LiveGrows ==
    ASSUME NEW s \in Slots, s \notin Live, Live' = Live \cup {s}
    PROVE  Cardinality(Live') = Cardinality(Live) + 1
  BY LiveFinite, FS_AddElement

\* A request that leaves Live takes one from its size.
LEMMA LiveShrinks ==
    ASSUME NEW s \in Slots, s \in Live, Live' = Live \ {s}
    PROVE  Cardinality(Live') = Cardinality(Live) - 1
  BY LiveFinite, FS_RemoveElement

\* The size is a natural number.
LEMMA LiveSize == Cardinality(Live) \in Nat
  BY LiveFinite, FS_CardinalityType

\* The two invariants are inductive together with the types.
QuotaInv == TypeOK /\ CounterIsExact /\ PositiveCounterExpires

\* Nothing is reserved at first.
LEMMA QuotaInit == Init => QuotaInv
<1> SUFFICES ASSUME Init PROVE QuotaInv
  OBVIOUS
<1>1. TypeOK
  <2>1. ttl \in BOOLEAN /\ drift \in BOOLEAN
    BY Zenon DEF Init
  <2>2. \E l \in Limits : hourly <= l.hourly
    BY RateConstants DEF Init
  <2> QED BY <2>1, <2>2, RateConstants DEF Init, TypeOK
<1>2. Live = {}
  BY DEF Init, Live
<1>3. Cardinality(Live) = 0
  BY <1>2, FS_EmptySet
<1> QED BY <1>1, <1>3 DEF Init, QuotaInv, CounterIsExact, PositiveCounterExpires

\* Every step keeps the invariant.
LEMMA QuotaNext == QuotaInv /\ [Next]_vars => QuotaInv'
<1> SUFFICES ASSUME QuotaInv, [Next]_vars PROVE QuotaInv'
  OBVIOUS
<1> USE RateConstants
<1>0. TypeOK /\ CounterIsExact /\ PositiveCounterExpires
      /\ Cardinality(Live) \in Nat
  BY LiveSize DEF QuotaInv
<1>1. ASSUME NEW s \in Slots, RefuseHourly(s) PROVE QuotaInv'
  BY <1>0, <1>1 DEF RefuseHourly, Expire1, vars, QuotaInv, TypeOK, CounterIsExact,
     PositiveCounterExpires, Live
<1>2. ASSUME NEW s \in Slots, RefuseActive(s) PROVE QuotaInv'
  <2>1. Live' = Live
    BY <1>2 DEF RefuseActive, Live
  <2>2. ttl' \in BOOLEAN /\ (ttl => ttl')
    BY <1>0, <1>2 DEF RefuseActive, Expire1, TypeOK
  <2> QED
    BY <1>0, <1>2, <2>1, <2>2 DEF RefuseActive, QuotaInv, TypeOK, CounterIsExact,
       PositiveCounterExpires
<1>3. ASSUME NEW s \in Slots, Reserve(s) PROVE QuotaInv'
  <2>1. s \notin Live /\ Live' = Live \cup {s}
    BY <1>0, <1>3 DEF Reserve, Live, TypeOK
  <2>2. Cardinality(Live') = Cardinality(Live) + 1
    BY <2>1, LiveGrows
  <2>3. ttl' \in BOOLEAN /\ (ttl => ttl') /\ (active + 1 = 1 => ttl')
    BY <1>0, <1>3 DEF Reserve, Expire1, TypeOK
  <2>4. limits \in Limits /\ limits.hourly \in Nat /\ hourly \in Nat
    BY <1>0 DEF TypeOK
  <2>5. hourly' \in Nat /\ \E l \in Limits : hourly' <= l.hourly
    <3>1. CASE limits.hourly > 0
      BY <2>4, <3>1, <1>3 DEF Reserve, HourlyFull
    <3>2. CASE ~(limits.hourly > 0)
      BY <1>0, <2>4, <3>2, <1>3 DEF Reserve, TypeOK
    <3> QED BY <3>1, <3>2
  <2>6. TypeOK'
    BY <1>0, <1>3, <2>3, <2>5 DEF Reserve, TypeOK
  <2>7. CounterIsExact'
    BY <1>0, <1>3, <2>2 DEF Reserve, CounterIsExact, TypeOK
  <2>8. PositiveCounterExpires'
    BY <1>0, <1>3, <2>3 DEF Reserve, PositiveCounterExpires, TypeOK
  <2> QED BY <2>6, <2>7, <2>8 DEF QuotaInv
<1>4. ASSUME NEW s \in Slots, HandlerLeaves(s) PROVE QuotaInv'
  <2>1. Live' = Live
    BY <1>0, <1>4 DEF HandlerLeaves, Live, TypeOK
  <2> QED
    BY <1>0, <1>4, <2>1 DEF HandlerLeaves, QuotaInv, TypeOK, CounterIsExact,
       PositiveCounterExpires
<1>5. ASSUME NEW s \in Slots, Enqueue(s) PROVE QuotaInv'
  <2>1. Live' = Live
    BY <1>0, <1>5 DEF Enqueue, Live, TypeOK
  <2> QED
    BY <1>0, <1>5, <2>1 DEF Enqueue, QuotaInv, TypeOK, CounterIsExact,
       PositiveCounterExpires
<1>6. ASSUME NEW s \in Slots, WorkerEnds(s) PROVE QuotaInv'
  <2>1. Live' = Live
    BY <1>0, <1>6 DEF WorkerEnds, Live, TypeOK
  <2> QED
    BY <1>0, <1>6, <2>1 DEF WorkerEnds, QuotaInv, TypeOK, CounterIsExact,
       PositiveCounterExpires
<1>7. ASSUME NEW s \in Slots, Leak(s) PROVE QuotaInv'
  <2>1. s \in Live /\ Live' = Live \ {s}
    BY <1>0, <1>7 DEF Leak, Live, TypeOK
  <2>2. Cardinality(Live') = Cardinality(Live) - 1
    BY <2>1, LiveShrinks
  <2> QED
    BY <1>0, <1>7, <2>2 DEF Leak, QuotaInv, TypeOK, CounterIsExact,
       PositiveCounterExpires
<1>8. ASSUME NEW s \in Slots, Decr(s) PROVE QuotaInv'
  <2>1. s \in Live /\ Live' = Live \ {s}
    BY <1>0, <1>8 DEF Decr, Live, TypeOK
  <2>2. Cardinality(Live') = Cardinality(Live) - 1
    BY <2>1, LiveShrinks
  <2> QED
    BY <1>0, <1>8, <2>2 DEF Decr, QuotaInv, TypeOK, CounterIsExact,
       PositiveCounterExpires
<1>9. ASSUME NEW s \in Slots, Delete(s) PROVE QuotaInv'
  <2>1. Live' = Live
    BY <1>0, <1>9 DEF Delete, Live, TypeOK
  <2>2. ttl' \in BOOLEAN
    BY <1>9, Zenon DEF Delete
  <2>3. drift' \in BOOLEAN /\ (~drift' => ~drift /\ active = 0)
    BY <1>0, <1>9 DEF Delete, TypeOK
  <2> QED
    BY <1>0, <1>9, <2>1, <2>2, <2>3 DEF Delete, QuotaInv, TypeOK, CounterIsExact,
       PositiveCounterExpires
<1>10. ASSUME NEW s \in Slots, DeleteFails(s) PROVE QuotaInv'
  <2>1. Live' = Live
    BY <1>0, <1>10 DEF DeleteFails, Live, TypeOK
  <2> QED
    BY <1>0, <1>10, <2>1 DEF DeleteFails, QuotaInv, TypeOK, CounterIsExact,
       PositiveCounterExpires
<1>11. CASE Expire
  <2>1. Live' = Live
    BY <1>11 DEF Expire, Live
  <2>2. ttl' \in BOOLEAN
    BY <1>11, Zenon DEF Expire
  <2>3. drift' \in BOOLEAN /\ (~drift' => ~drift /\ active = 0)
    BY <1>0, <1>11 DEF Expire, TypeOK
  <2> QED
    BY <1>0, <1>11, <2>1, <2>2, <2>3 DEF Expire, QuotaInv, TypeOK, CounterIsExact,
       PositiveCounterExpires
<1>12. CASE Slide
  <2>1. Live' = Live
    BY <1>12 DEF Slide, Live
  <2>2. \E l \in Limits : hourly' <= l.hourly
    BY <1>0, <1>12 DEF Slide, TypeOK
  <2> QED
    BY <1>0, <1>12, <2>1, <2>2 DEF Slide, QuotaInv, TypeOK, CounterIsExact,
       PositiveCounterExpires
<1>13. CASE SetLimits
  <2>1. Live' = Live
    BY <1>13 DEF SetLimits, Live
  <2> QED
    BY <1>0, <1>13, <2>1 DEF SetLimits, QuotaInv, TypeOK, CounterIsExact,
       PositiveCounterExpires
<1>15. CASE ReleaseUnreserved
  <2>1. ttl' \in BOOLEAN /\ drift' = TRUE /\ drift' \in BOOLEAN
    BY <1>0, <1>15, Zenon DEF ReleaseUnreserved, TypeOK
  <2>2. active' \in Int /\ (active' >= 1 => ttl')
    BY <1>0, <1>15 DEF ReleaseUnreserved, TypeOK, PositiveCounterExpires
  <2> QED
    BY <1>0, <1>15, <2>1, <2>2 DEF ReleaseUnreserved, QuotaInv, TypeOK, CounterIsExact,
       PositiveCounterExpires
<1>14. CASE UNCHANGED vars
  BY <1>0, <1>14 DEF vars, QuotaInv, TypeOK, CounterIsExact,
     PositiveCounterExpires, Live
<1> QED
  BY <1>1, <1>2, <1>3, <1>4, <1>5, <1>6, <1>7, <1>8,
     <1>9, <1>10, <1>11, <1>12, <1>13, <1>14, <1>15 DEF Next

\* The inductive invariant holds of every reachable state.
LEMMA QuotaInvariant == Spec => []QuotaInv
  BY QuotaInit, QuotaNext, PTL DEF Spec

\* Types, and the bound of the hourly window, for any limits.
THEOREM QuotaTypes == Spec => []TypeOK
<1>1. QuotaInv => TypeOK
  BY DEF QuotaInv
<1> QED BY <1>1, QuotaInvariant, PTL

\* Only the removal of the key under live reservations (its TTL, or the DEL
\* that follows a DECR) or a release without a reservation can make ratelimit:active differ from the turns held
\* and leaked.
THEOREM CounterExact == Spec => []CounterIsExact
<1>1. QuotaInv => CounterIsExact
  BY DEF QuotaInv
<1> QED BY <1>1, QuotaInvariant, PTL

\* A counter that can refuse a turn always has a TTL.
THEOREM CounterExpires == Spec => []PositiveCounterExpires
<1>1. QuotaInv => PositiveCounterExpires
  BY DEF QuotaInv
<1> QED BY <1>1, QuotaInvariant, PTL

\* The two together, as the run checks them: the counter counts the turns that
\* hold a reservation unless the key went away under them, and no counter that
\* can refuse a turn outlives ACTIVE_TTL without a renewal.
THEOREM QuotaSafe == Spec => []QuotaIsSafe
<1>1. QuotaInv => QuotaIsSafe
  BY DEF QuotaInv, QuotaIsSafe
<1> QED BY <1>1, QuotaInvariant, PTL

-----------------------------------------------------------------------------
(* Accounts *)

\* A registration that needs an invite names one; past InviteService.redeem it
\* holds the row, which is still active.
RedeemerHoldsRow ==
  \A r \in Requests :
     /\ step[r] \in {"passed", "creating"} /\ req[r].kind = "register" /\ ~Bypass(r) =>
           req[r].token # Nobody
     /\ step[r] = "redeem" => req[r].token # Nobody /\ ~Bypass(r) /\ req[r].kind = "register"
     /\ step[r] = "commit" /\ ~Bypass(r) =>
           /\ req[r].kind = "register" /\ req[r].token # Nobody
           /\ rowLock[req[r].token] = r /\ invite[req[r].token] = "active"
     /\ step[r] \in {"creating", "commit"} => req[r].kind \in {"register", "create"}
     /\ step[r] = "delete" => req[r].token # Nobody

\* A redeemed invite is never active again.
ActiveIsUnredeemed ==
  \A t \in Tokens :
     /\ redeemed[t] \in {0, 1}
     /\ invite[t] \in {"absent", "active", "expired"} => redeemed[t] = 0

\* A counter without a TTL has register_failures between its two commands, or
\* commands that failed: as many of them as the EXPIREs it has missed.
UntimedIsBeingTimed ==
  ~attemptsTtl =>
     /\ attempts >= 1 /\ redisErrors = 0 => \E r \in Requests : step[r] = "expiring"
     /\ attempts >= MaxAttempts /\ redisErrors = 0 =>
           \E q, r \in Requests : q # r /\ step[q] = "expiring" /\ step[r] = "expiring"
     /\ attempts >= MaxAttempts /\ redisErrors = 1 => \E r \in Requests : step[r] = "expiring"

Inv == AccountsTypeOK /\ RedeemerHoldsRow /\ ActiveIsUnredeemed /\ UntimedIsBeingTimed

\* AccountsTypeOK in three parts: the tables and their locks, the requests, and
\* the counter.
Rows ==
  /\ account \in [Emails -> Account]
  /\ invite \in [Tokens -> {"absent", "active", "expired", "used", "revoked"}]
  /\ redeemed \in [Tokens -> Nat]
  /\ fresh \in [Emails -> Requests \cup {Nobody}]
  /\ rowLock \in [Tokens -> Requests \cup {Nobody}]

Progress ==
  /\ step \in [Requests -> {"idle", "passed", "creating", "redeem", "commit", "clear",
                            "failing", "expiring", "merge", "delete"}]
  /\ req \in [Requests -> Request]
  /\ starts \in 0..MaxStarts /\ redisErrors \in 0..MaxRedisErrors

Counter == attempts \in Nat /\ attemptsTtl \in BOOLEAN /\ (attempts = 0 => ~attemptsTtl)

\* No account, no invite, no failure at first.
LEMMA InvInit == AccountsInit => Inv
<1> SUFFICES ASSUME AccountsInit PROVE Inv
  OBVIOUS
<1> USE AccountsAssumption DEF AccountsInit
<1>1. Rows
  BY DEF Rows, Account, NoAccount
<1>2. Progress
  <2>1. Idle \in Request
    BY DEF Account, NoAccount, Request, Idle, Kinds
  <2> QED BY <2>1 DEF Progress
<1>4. Counter
  BY DEF Counter
<1>3. RedeemerHoldsRow /\ ActiveIsUnredeemed /\ UntimedIsBeingTimed
  BY DEF RedeemerHoldsRow, ActiveIsUnredeemed, UntimedIsBeingTimed
<1> QED BY <1>1, <1>2, <1>3, <1>4 DEF Inv, AccountsTypeOK, Rows, Progress, Counter

\* A registration without the administrator's e-mail comes with a token.
LEMMA ArriveKeeps ==
  ASSUME Inv, NEW r \in Requests, Arrive(r) PROVE Inv'
<1> USE AccountsAssumption DEF Inv
<1>1. AccountsTypeOK'
  <2>1. Rows'
    BY DEF Arrive, Rows, AccountsTypeOK, RedeemerHoldsRow, Goto, Unblocked,
     Authenticated, tableVars, lockVars, redisVars, RedisError, Account, NoAccount,
     Request
  <2>2. Progress'
    BY DEF Arrive, Progress, AccountsTypeOK, RedeemerHoldsRow, Goto, Unblocked,
     Authenticated, tableVars, lockVars, redisVars, RedisError, Request, Kinds
  <2>3. Counter'
    BY DEF Arrive, Counter, AccountsTypeOK, Goto, Unblocked, Authenticated,
     tableVars, lockVars, redisVars, RedisError
  <2> QED BY <2>1, <2>2, <2>3 DEF AccountsTypeOK, Rows, Progress, Counter
<1>2. RedeemerHoldsRow'
  BY DEF Arrive, RedeemerHoldsRow, AccountsTypeOK, Bypass, Goto, Unblocked,
     Authenticated, tableVars, lockVars, redisVars, RedisError, Request, Kinds
<1>3. ActiveIsUnredeemed'
  BY DEF Arrive, ActiveIsUnredeemed, AccountsTypeOK, RedeemerHoldsRow, Goto,
     Unblocked, Authenticated, tableVars, lockVars, redisVars, RedisError, Request,
     Kinds
<1>4. UntimedIsBeingTimed'
  BY DEF Arrive, UntimedIsBeingTimed, AccountsTypeOK, Goto, Unblocked,
     Authenticated, tableVars, lockVars, redisVars, RedisError, Request, Kinds
<1> QED BY <1>1, <1>2, <1>3, <1>4

\* Log-in touches neither invites nor the counter.
LEMMA LoginCheckedKeeps ==
  ASSUME Inv, NEW r \in Requests, LoginChecked(r) PROVE Inv'
<1> USE AccountsAssumption DEF Inv
<1>1. AccountsTypeOK'
  BY DEF LoginChecked, AccountsTypeOK, RedeemerHoldsRow, Goto, HasPassword,
     tableVars, lockVars, redisVars, Request, Kinds, Account, NoAccount
<1>2. RedeemerHoldsRow'
  BY DEF LoginChecked, RedeemerHoldsRow, AccountsTypeOK, Bypass, Goto, HasPassword,
     tableVars, lockVars, redisVars, Request, Kinds
<1>3. ActiveIsUnredeemed'
  BY DEF LoginChecked, ActiveIsUnredeemed, AccountsTypeOK, RedeemerHoldsRow, Goto,
     HasPassword, tableVars, lockVars, redisVars, Request, Kinds
<1>4. UntimedIsBeingTimed'
  BY DEF LoginChecked, UntimedIsBeingTimed, AccountsTypeOK, Goto, HasPassword,
     tableVars, lockVars, redisVars, Request, Kinds
<1> QED BY <1>1, <1>2, <1>3, <1>4

\* The account read is remembered; nothing is written.
LEMMA LookupKeeps ==
  ASSUME Inv, NEW r \in Requests, Lookup(r) PROVE Inv'
<1> USE AccountsAssumption DEF Inv
<1>1. AccountsTypeOK'
  BY DEF Lookup, AccountsTypeOK, RedeemerHoldsRow, Goto, HasPassword, tableVars,
     lockVars, redisVars, Request, Kinds, Account, NoAccount
<1>2. RedeemerHoldsRow'
  BY DEF Lookup, RedeemerHoldsRow, AccountsTypeOK, Bypass, Goto, HasPassword,
     tableVars, lockVars, redisVars, Request, Kinds
<1>3. ActiveIsUnredeemed'
  BY DEF Lookup, ActiveIsUnredeemed, AccountsTypeOK, RedeemerHoldsRow, Goto,
     HasPassword, tableVars, lockVars, redisVars, Request, Kinds
<1>4. UntimedIsBeingTimed'
  BY DEF Lookup, UntimedIsBeingTimed, AccountsTypeOK, Goto, HasPassword, tableVars,
     lockVars, redisVars, Request, Kinds
<1> QED BY <1>1, <1>2, <1>3, <1>4

\* Only a registration with a token goes on to redeem it.
LEMMA GetOrCreateKeeps ==
  ASSUME Inv, NEW r \in Requests, GetOrCreate(r) PROVE Inv'
<1> USE AccountsAssumption DEF Inv
<1>1. AccountsTypeOK'
  <2>1. Rows'
    BY DEF GetOrCreate, Rows, AccountsTypeOK, RedeemerHoldsRow, Goto, Bypass,
     tableVars, redisVars, Account, NoAccount, Request
  <2>2. Progress'
    BY DEF GetOrCreate, Progress, AccountsTypeOK, RedeemerHoldsRow, Goto, Bypass,
     tableVars, redisVars, Request, Kinds
  <2>3. Counter'
    BY DEF GetOrCreate, Counter, AccountsTypeOK, Goto, Bypass, tableVars, redisVars
  <2> QED BY <2>1, <2>2, <2>3 DEF AccountsTypeOK, Rows, Progress, Counter
<1>2. RedeemerHoldsRow'
  BY DEF GetOrCreate, RedeemerHoldsRow, AccountsTypeOK, Bypass, Goto, tableVars,
     redisVars, Request, Kinds
<1>3. ActiveIsUnredeemed'
  BY DEF GetOrCreate, ActiveIsUnredeemed, AccountsTypeOK, RedeemerHoldsRow, Goto,
     Bypass, tableVars, redisVars, Request, Kinds
<1>4. UntimedIsBeingTimed'
  BY DEF GetOrCreate, UntimedIsBeingTimed, AccountsTypeOK, Goto, Bypass, tableVars,
     redisVars, Request, Kinds
<1> QED BY <1>1, <1>2, <1>3, <1>4

\* The row is locked when it is found active.
LEMMA RedeemKeeps ==
  ASSUME Inv, NEW r \in Requests, Redeem(r) PROVE Inv'
<1> USE AccountsAssumption DEF Inv
<1>1. AccountsTypeOK'
  <2>1. Rows'
    BY DEF Redeem, Rows, AccountsTypeOK, RedeemerHoldsRow, Goto, Release,
     tableVars, redisVars, Account, NoAccount, Request
  <2>2. Progress'
    BY DEF Redeem, Progress, AccountsTypeOK, RedeemerHoldsRow, Goto, Release,
     tableVars, redisVars, Request, Kinds
  <2>3. Counter'
    BY DEF Redeem, Counter, AccountsTypeOK, Goto, Release, tableVars, redisVars
  <2> QED BY <2>1, <2>2, <2>3 DEF AccountsTypeOK, Rows, Progress, Counter
<1>2. RedeemerHoldsRow'
  BY DEF Redeem, RedeemerHoldsRow, AccountsTypeOK, Bypass, Goto, Release,
     tableVars, redisVars, Request, Kinds
<1>3. ActiveIsUnredeemed'
  BY DEF Redeem, ActiveIsUnredeemed, AccountsTypeOK, RedeemerHoldsRow, Goto,
     Release, tableVars, redisVars, Request, Kinds
<1>4. UntimedIsBeingTimed'
  BY DEF Redeem, UntimedIsBeingTimed, AccountsTypeOK, Goto, Release, tableVars,
     redisVars, Request, Kinds
<1> QED BY <1>1, <1>2, <1>3, <1>4

\* The redeemed invite was active, so it had let nobody in, and no other
\* registration holds its row.
LEMMA CommitAccountKeeps ==
  ASSUME Inv, NEW r \in Requests, CommitAccount(r) PROVE Inv'
<1> USE AccountsAssumption DEF Inv
<1>1. AccountsTypeOK'
  <2>1. Rows'
    <3>1. account' \in [Emails -> Account]
      BY DEF CommitAccount, StoreAccount, AccountsTypeOK, Request, Account
    <3>2. /\ invite' \in [Tokens -> {"absent", "active", "expired", "used", "revoked"}]
          /\ redeemed' \in [Tokens -> Nat]
      BY DEF CommitAccount, AccountsTypeOK
    <3>3. /\ fresh' \in [Emails -> Requests \cup {Nobody}]
          /\ rowLock' \in [Tokens -> Requests \cup {Nobody}]
      BY DEF CommitAccount, Release, AccountsTypeOK
    <3> QED BY <3>1, <3>2, <3>3 DEF Rows
  <2>2. Progress'
    BY DEF CommitAccount, Progress, AccountsTypeOK, RedeemerHoldsRow, Goto,
     Release, Bypass, StoreAccount, redisVars, Request, Kinds
  <2>3. Counter'
    BY DEF CommitAccount, Counter, AccountsTypeOK, Goto, Release, Bypass,
     StoreAccount, redisVars
  <2> QED BY <2>1, <2>2, <2>3 DEF AccountsTypeOK, Rows, Progress, Counter
<1>2. RedeemerHoldsRow'
  BY DEF CommitAccount, RedeemerHoldsRow, AccountsTypeOK, Bypass, Goto, Release,
     StoreAccount, redisVars, Request, Kinds
<1>3. ActiveIsUnredeemed'
  BY DEF CommitAccount, ActiveIsUnredeemed, AccountsTypeOK, RedeemerHoldsRow, Goto,
     Release, Bypass, StoreAccount, redisVars, Request, Kinds
<1>4. UntimedIsBeingTimed'
  BY DEF CommitAccount, UntimedIsBeingTimed, AccountsTypeOK, Goto, Release, Bypass,
     StoreAccount, redisVars, Request, Kinds
<1> QED BY <1>1, <1>2, <1>3, <1>4

\* CreateUser leaves invites alone.
LEMMA CommitCreatedKeeps ==
  ASSUME Inv, NEW r \in Requests, CommitCreated(r) PROVE Inv'
<1> USE AccountsAssumption DEF Inv
<1>1. AccountsTypeOK'
  BY DEF CommitCreated, AccountsTypeOK, RedeemerHoldsRow, Goto, Release,
     StoreAccount, redisVars, Request, Kinds, Account, NoAccount
<1>2. RedeemerHoldsRow'
  BY DEF CommitCreated, RedeemerHoldsRow, AccountsTypeOK, Bypass, Goto, Release,
     StoreAccount, redisVars, Request, Kinds
<1>3. ActiveIsUnredeemed'
  BY DEF CommitCreated, ActiveIsUnredeemed, AccountsTypeOK, RedeemerHoldsRow, Goto,
     Release, StoreAccount, redisVars, Request, Kinds
<1>4. UntimedIsBeingTimed'
  BY DEF CommitCreated, UntimedIsBeingTimed, AccountsTypeOK, Goto, Release,
     StoreAccount, redisVars, Request, Kinds
<1> QED BY <1>1, <1>2, <1>3, <1>4

\* A rolled-back transaction gives its locks back and redeems nothing.
LEMMA HangUpKeeps ==
  ASSUME Inv, NEW r \in Requests, HangUp(r) PROVE Inv'
<1> USE AccountsAssumption DEF Inv
<1>1. AccountsTypeOK'
  BY DEF HangUp, AccountsTypeOK, RedeemerHoldsRow, Goto, Release, tableVars,
     redisVars, Request, Kinds, Account, NoAccount
<1>2. RedeemerHoldsRow'
  BY DEF HangUp, RedeemerHoldsRow, AccountsTypeOK, Bypass, Goto, Release,
     tableVars, redisVars, Request, Kinds
<1>3. ActiveIsUnredeemed'
  BY DEF HangUp, ActiveIsUnredeemed, AccountsTypeOK, RedeemerHoldsRow, Goto,
     Release, tableVars, redisVars, Request, Kinds
<1>4. UntimedIsBeingTimed'
  BY DEF HangUp, UntimedIsBeingTimed, AccountsTypeOK, Goto, Release, tableVars,
     redisVars, Request, Kinds
<1> QED BY <1>1, <1>2, <1>3, <1>4

\* A profile update leaves invites and counter alone.
LEMMA MergeUserKeeps ==
  ASSUME Inv, NEW r \in Requests, MergeUser(r) PROVE Inv'
<1> USE AccountsAssumption DEF Inv
<1>1. AccountsTypeOK'
  BY DEF MergeUser, AccountsTypeOK, RedeemerHoldsRow, Goto, lockVars, redisVars,
     Request, Kinds, Account, NoAccount
<1>2. RedeemerHoldsRow'
  BY DEF MergeUser, RedeemerHoldsRow, AccountsTypeOK, Bypass, Goto, lockVars,
     redisVars, Request, Kinds
<1>3. ActiveIsUnredeemed'
  BY DEF MergeUser, ActiveIsUnredeemed, AccountsTypeOK, RedeemerHoldsRow, Goto,
     lockVars, redisVars, Request, Kinds
<1>4. UntimedIsBeingTimed'
  BY DEF MergeUser, UntimedIsBeingTimed, AccountsTypeOK, Goto, lockVars, redisVars,
     Request, Kinds
<1> QED BY <1>1, <1>2, <1>3, <1>4

\* A revocation waits for the row lock, so no registration holds the row.
LEMMA RevokeDeleteKeeps ==
  ASSUME Inv, NEW r \in Requests, RevokeDelete(r) PROVE Inv'
<1> USE AccountsAssumption DEF Inv
<1>1. AccountsTypeOK'
  BY DEF RevokeDelete, AccountsTypeOK, RedeemerHoldsRow, Goto, lockVars, redisVars,
     Request, Kinds, Account, NoAccount
<1>2. RedeemerHoldsRow'
  BY DEF RevokeDelete, RedeemerHoldsRow, AccountsTypeOK, Bypass, Goto, lockVars,
     redisVars, Request, Kinds
<1>3. ActiveIsUnredeemed'
  BY DEF RevokeDelete, ActiveIsUnredeemed, AccountsTypeOK, RedeemerHoldsRow, Goto,
     lockVars, redisVars, Request, Kinds
<1>4. UntimedIsBeingTimed'
  BY DEF RevokeDelete, UntimedIsBeingTimed, AccountsTypeOK, Goto, lockVars,
     redisVars, Request, Kinds
<1> QED BY <1>1, <1>2, <1>3, <1>4

\* The INCR that makes the counter 1, and one that brings it to the limit, are
\* each followed by an EXPIRE.
LEMMA CountFailureKeeps ==
  ASSUME Inv, NEW r \in Requests, CountFailure(r) PROVE Inv'
<1> USE AccountsAssumption DEF Inv
<1>1. AccountsTypeOK'
  <2>1. Rows'
    BY DEF CountFailure, Rows, AccountsTypeOK, RedeemerHoldsRow, Goto, RedisError,
     tableVars, lockVars, redisVars, Account, NoAccount, Request
  <2>2. Progress'
    BY DEF CountFailure, Progress, AccountsTypeOK, RedeemerHoldsRow, Goto,
     RedisError, tableVars, lockVars, redisVars, Request, Kinds
  <2>3. Counter'
    BY DEF CountFailure, Counter, AccountsTypeOK, Goto, RedisError, tableVars,
     lockVars, redisVars
  <2> QED BY <2>1, <2>2, <2>3 DEF AccountsTypeOK, Rows, Progress, Counter
<1>2. RedeemerHoldsRow'
  BY DEF CountFailure, RedeemerHoldsRow, AccountsTypeOK, Bypass, Goto, RedisError,
     tableVars, lockVars, redisVars, Request, Kinds
<1>3. ActiveIsUnredeemed'
  BY DEF CountFailure, ActiveIsUnredeemed, AccountsTypeOK, RedeemerHoldsRow, Goto,
     RedisError, tableVars, lockVars, redisVars, Request, Kinds
<1>4. UntimedIsBeingTimed'
  BY DEF CountFailure, UntimedIsBeingTimed, AccountsTypeOK, Goto, RedisError,
     tableVars, lockVars, redisVars, Request, Kinds
<1> QED BY <1>1, <1>2, <1>3, <1>4

\* An EXPIRE that is lost costs an error.
LEMMA TimeFailureKeeps ==
  ASSUME Inv, NEW r \in Requests, TimeFailure(r) PROVE Inv'
<1> USE AccountsAssumption DEF Inv
<1>1. AccountsTypeOK'
  <2>1. Rows'
    BY DEF TimeFailure, Rows, AccountsTypeOK, RedeemerHoldsRow, Goto, RedisError,
     tableVars, lockVars, Account, NoAccount, Request
  <2>2. Progress'
    BY DEF TimeFailure, Progress, AccountsTypeOK, RedeemerHoldsRow, Goto,
     RedisError, tableVars, lockVars, Request, Kinds
  <2>3. Counter'
    <3>1. CASE attemptsTtl' = (attempts # 0)
      <4>1. attemptsTtl' \in BOOLEAN
        BY <3>1, Zenon
      <4> QED BY <3>1, <4>1 DEF TimeFailure, AccountsTypeOK, Counter
    <3>2. CASE UNCHANGED attemptsTtl
      BY <3>2 DEF TimeFailure, AccountsTypeOK, Counter
    <3> QED BY <3>1, <3>2 DEF TimeFailure
  <2> QED BY <2>1, <2>2, <2>3 DEF AccountsTypeOK, Rows, Progress, Counter
<1>2. RedeemerHoldsRow'
  BY DEF TimeFailure, RedeemerHoldsRow, AccountsTypeOK, Bypass, Goto, RedisError,
     tableVars, lockVars, Request, Kinds
<1>3. ActiveIsUnredeemed'
  BY DEF TimeFailure, ActiveIsUnredeemed, AccountsTypeOK, RedeemerHoldsRow, Goto,
     RedisError, tableVars, lockVars, Request, Kinds
<1>4. UntimedIsBeingTimed'
  <2>1. CASE attemptsTtl' = (attempts # 0)
    <3>1. ~attemptsTtl' => attempts = 0
      BY <2>1, Zenon
    <3> QED BY <3>1 DEF TimeFailure, AccountsTypeOK, UntimedIsBeingTimed
  <2>2. CASE RedisError /\ UNCHANGED attemptsTtl
    <3>1. redisErrors' = redisErrors + 1 /\ redisErrors \in Nat /\ UNCHANGED attempts
      BY <2>2 DEF TimeFailure, RedisError, AccountsTypeOK
    <3>2. \A q \in Requests \ {r} : step'[q] = step[q]
      BY DEF TimeFailure, AccountsTypeOK, Goto
    <3> QED BY <2>2, <3>1, <3>2 DEF UntimedIsBeingTimed
  <2> QED BY <2>1, <2>2 DEF TimeFailure
<1> QED BY <1>1, <1>2, <1>3, <1>4

\* A cleared counter needs no TTL.
LEMMA ClearFailuresKeeps ==
  ASSUME Inv, NEW r \in Requests, ClearFailures(r) PROVE Inv'
<1> USE AccountsAssumption DEF Inv
<1>1. AccountsTypeOK'
  <2>1. Rows'
    BY DEF ClearFailures, Rows, AccountsTypeOK, RedeemerHoldsRow, Goto, RedisError,
     tableVars, lockVars, redisVars, Account, NoAccount, Request
  <2>2. Progress'
    BY DEF ClearFailures, Progress, AccountsTypeOK, RedeemerHoldsRow, Goto,
     RedisError, tableVars, lockVars, redisVars, Request, Kinds
  <2>3. Counter'
    <3>1. attemptsTtl' \in BOOLEAN
      BY Zenon DEF ClearFailures, AccountsTypeOK, redisVars
    <3> QED BY <3>1 DEF ClearFailures, AccountsTypeOK, Counter, redisVars
  <2> QED BY <2>1, <2>2, <2>3 DEF AccountsTypeOK, Rows, Progress, Counter
<1>2. RedeemerHoldsRow'
  BY DEF ClearFailures, RedeemerHoldsRow, AccountsTypeOK, Bypass, Goto, RedisError,
     tableVars, lockVars, redisVars, Request, Kinds
<1>3. ActiveIsUnredeemed'
  BY DEF ClearFailures, ActiveIsUnredeemed, AccountsTypeOK, RedeemerHoldsRow, Goto,
     RedisError, tableVars, lockVars, redisVars, Request, Kinds
<1>4. UntimedIsBeingTimed'
  BY DEF ClearFailures, UntimedIsBeingTimed, AccountsTypeOK, Goto, RedisError,
     tableVars, lockVars, redisVars, Request, Kinds
<1> QED BY <1>1, <1>2, <1>3, <1>4

\* A new invite has let nobody in.
LEMMA CreateInviteKeeps ==
  ASSUME Inv, NEW t \in Tokens, CreateInvite(t) PROVE Inv'
<1> USE AccountsAssumption DEF Inv
<1>1. AccountsTypeOK'
  BY DEF CreateInvite, AccountsTypeOK, RedeemerHoldsRow, lockVars, redisVars,
     Request, Kinds, Account, NoAccount
<1>2. RedeemerHoldsRow'
  BY DEF CreateInvite, RedeemerHoldsRow, AccountsTypeOK, Bypass, lockVars,
     redisVars, Request, Kinds
<1>3. ActiveIsUnredeemed'
  BY DEF CreateInvite, ActiveIsUnredeemed, AccountsTypeOK, RedeemerHoldsRow,
     lockVars, redisVars, Request, Kinds
<1>4. UntimedIsBeingTimed'
  BY DEF CreateInvite, UntimedIsBeingTimed, AccountsTypeOK, lockVars, redisVars,
     Request, Kinds
<1> QED BY <1>1, <1>2, <1>3, <1>4

\* An invite whose row is locked does not expire under its holder.
LEMMA ExpireInviteKeeps ==
  ASSUME Inv, NEW t \in Tokens, ExpireInvite(t) PROVE Inv'
<1> USE AccountsAssumption DEF Inv
<1>1. AccountsTypeOK'
  BY DEF ExpireInvite, AccountsTypeOK, RedeemerHoldsRow, lockVars, redisVars,
     Request, Kinds, Account, NoAccount
<1>2. RedeemerHoldsRow'
  BY DEF ExpireInvite, RedeemerHoldsRow, AccountsTypeOK, Bypass, lockVars,
     redisVars, Request, Kinds
<1>3. ActiveIsUnredeemed'
  BY DEF ExpireInvite, ActiveIsUnredeemed, AccountsTypeOK, RedeemerHoldsRow,
     lockVars, redisVars, Request, Kinds
<1>4. UntimedIsBeingTimed'
  BY DEF ExpireInvite, UntimedIsBeingTimed, AccountsTypeOK, lockVars, redisVars,
     Request, Kinds
<1> QED BY <1>1, <1>2, <1>3, <1>4

\* A revocation starts in an idle request.
LEMMA RevokeReadKeeps ==
  ASSUME Inv, NEW r \in Requests, NEW t \in Tokens, RevokeRead(r, t) PROVE Inv'
<1> USE AccountsAssumption DEF Inv
<1>1. AccountsTypeOK'
  <2>1. Rows'
    BY DEF RevokeRead, Rows, AccountsTypeOK, RedeemerHoldsRow, Goto, tableVars,
     lockVars, redisVars, Account, NoAccount, Request
  <2>2. Progress'
    <3>1. [req[r] EXCEPT !.kind = "revoke", !.token = t] \in Request
      BY DEF AccountsTypeOK, Request
    <3>2. req' = [req EXCEPT ![r] = [req[r] EXCEPT !.kind = "revoke", !.token = t]]
      BY DEF RevokeRead, AccountsTypeOK
    <3> QED BY <3>1, <3>2 DEF RevokeRead, Progress, AccountsTypeOK, Goto
  <2>3. Counter'
    BY DEF RevokeRead, Counter, AccountsTypeOK, Goto, tableVars, lockVars, redisVars
  <2> QED BY <2>1, <2>2, <2>3 DEF AccountsTypeOK, Rows, Progress, Counter
<1>2. RedeemerHoldsRow'
  <2>1. /\ req'[r].token = t
        /\ \A q \in Requests \ {r} : req'[q] = req[q] /\ step'[q] = step[q]
        /\ step'[r] = "delete"
    BY DEF RevokeRead, AccountsTypeOK, Request, Goto
  <2>2. t # Nobody
    BY AccountsAssumption
  <2> QED BY <2>1, <2>2 DEF RevokeRead, RedeemerHoldsRow, Bypass, tableVars, lockVars
<1>3. ActiveIsUnredeemed'
  BY DEF RevokeRead, ActiveIsUnredeemed, AccountsTypeOK, RedeemerHoldsRow, Goto,
     tableVars, lockVars, redisVars, Request, Kinds
<1>4. UntimedIsBeingTimed'
  BY DEF RevokeRead, UntimedIsBeingTimed, AccountsTypeOK, Goto, tableVars,
     lockVars, redisVars, Request, Kinds
<1> QED BY <1>1, <1>2, <1>3, <1>4

\* A counter that expires is gone.
LEMMA WindowPassesKeeps ==
  ASSUME Inv, WindowPasses PROVE Inv'
<1> USE AccountsAssumption DEF Inv
<1>1. AccountsTypeOK'
  BY DEF WindowPasses, AccountsTypeOK, RedeemerHoldsRow, tableVars, lockVars,
     Request, Kinds, Account, NoAccount
<1>2. RedeemerHoldsRow'
  BY DEF WindowPasses, RedeemerHoldsRow, AccountsTypeOK, Bypass, tableVars,
     lockVars, Request, Kinds
<1>3. ActiveIsUnredeemed'
  BY DEF WindowPasses, ActiveIsUnredeemed, AccountsTypeOK, RedeemerHoldsRow,
     tableVars, lockVars, Request, Kinds
<1>4. UntimedIsBeingTimed'
  BY DEF WindowPasses, UntimedIsBeingTimed, AccountsTypeOK, tableVars, lockVars,
     Request, Kinds
<1> QED BY <1>1, <1>2, <1>3, <1>4

\* The start-up synchronisation leaves invites and counter alone.
LEMMA SyncAdminAccountKeeps ==
  ASSUME Inv, SyncAdminAccount PROVE Inv'
<1> USE AccountsAssumption DEF Inv
<1>1. AccountsTypeOK'
  BY DEF SyncAdminAccount, AccountsTypeOK, RedeemerHoldsRow, lockVars, redisVars,
     Request, Kinds, Account, NoAccount
<1>2. RedeemerHoldsRow'
  BY DEF SyncAdminAccount, RedeemerHoldsRow, AccountsTypeOK, Bypass, lockVars,
     redisVars, Request, Kinds
<1>3. ActiveIsUnredeemed'
  BY DEF SyncAdminAccount, ActiveIsUnredeemed, AccountsTypeOK, RedeemerHoldsRow,
     lockVars, redisVars, Request, Kinds
<1>4. UntimedIsBeingTimed'
  BY DEF SyncAdminAccount, UntimedIsBeingTimed, AccountsTypeOK, lockVars,
     redisVars, Request, Kinds
<1> QED BY <1>1, <1>2, <1>3, <1>4

\* A stuttering step.
LEMMA StutterKeeps == Inv /\ UNCHANGED accountVars => Inv'
  BY DEF Inv, accountVars, AccountsTypeOK, RedeemerHoldsRow, ActiveIsUnredeemed, UntimedIsBeingTimed,
     Bypass

\* The conjunction is inductive.
LEMMA InvNext == Inv /\ [AccountsNext]_accountVars => Inv'
  BY ArriveKeeps, LoginCheckedKeeps, LookupKeeps, GetOrCreateKeeps, RedeemKeeps, CommitAccountKeeps,
     CommitCreatedKeeps, HangUpKeeps, MergeUserKeeps, RevokeDeleteKeeps, CountFailureKeeps,
     TimeFailureKeeps, ClearFailuresKeeps, CreateInviteKeeps, ExpireInviteKeeps, RevokeReadKeeps,
     WindowPassesKeeps, SyncAdminAccountKeeps, StutterKeeps DEF AccountsNext

\* It holds of every reachable state.
LEMMA Invariant == AccountsSpec => []Inv
  BY InvInit, InvNext, PTL DEF AccountsSpec

\* An invite lets at most one registration commit, whatever concurrent
\* registrations, hang-ups, revocations and Redis errors do (InviteService.redeem).
THEOREM RedeemedOnce == AccountsSpec => []InviteRedeemedOnce
<1>1. Inv => InviteRedeemedOnce
  BY DEF Inv, ActiveIsUnredeemed, InviteRedeemedOnce
<1> QED BY <1>1, Invariant, PTL

\* With at most one failed Redis command, an address that is locked out will be
\* let in again: register_failure sets the TTL twice, at the first failure and
\* at the limit.
THEOREM SignInSafe ==
  ASSUME MaxRedisErrors <= 1 PROVE AccountsSpec => []SignInIsSafe
<1>1. Inv => SignInIsSafe
  BY AccountsAssumption DEF Inv, AccountsTypeOK, ActiveIsUnredeemed, UntimedIsBeingTimed,
     InviteRedeemedOnce, LockoutIsTimed, SignInIsSafe
<1> QED BY <1>1, Invariant, PTL
=============================================================================
