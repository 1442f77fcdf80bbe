--------------------------- MODULE DeliveryProofs ---------------------------
(***************************************************************************)
(* How a message reaches the bot and its answer the user: one getUpdates   *)
(* client per bot token, for any number of gunicorn workers, saves and     *)
(* failures; the whole answer in Telegram's messages, for texts and limits *)
(* of any length; and the types of the machines together.                  *)
(***************************************************************************)
EXTENDS MCDelivery, TranscriptProofs, WellFoundedInduction

\* The parts of PollTypeOK the argument needs.
PollTypes ==
  /\ spc \in [Workers -> RefreshPc \cup {"idle", "final"}]
  /\ mode \in [Workers -> Mode]
  /\ token \in [Workers -> BOOLEAN]
  /\ getting \in [Workers -> BOOLEAN]

\* A running getUpdates loop belongs to a worker that holds its token, or to
\* one whose renewal failed and that is about to stop it.
PollerIsKnown ==
  \A w \in Workers : getting[w] =>
     \/ mode[w] = "held" /\ token[w]
     \/ mode[w] = "lost"

\* After PollingMode.stop and before the next start no loop runs.
StoppedIsOff ==
  \A w \in Workers : spc[w] \in {"down", "release", "auth", "sethook", "clear", "lock"} =>
     mode[w] = "off" /\ ~getting[w]

\* The key names the worker that polls, until a lock slips.
PollerOwnsLock == slipped \/ \A w \in Workers : getting[w] => lock = w

PollInv == PollTypes /\ PollerIsKnown /\ StoppedIsOff /\ PollerOwnsLock

\* Nobody polls at first.
LEMMA PollInvInit == PollInit => PollInv
  BY DEF PollInit, PollInv, PollTypes, PollerIsKnown, StoppedIsOff, PollerOwnsLock,
     RefreshPc, Mode

\* PollInv is inductive.
LEMMA PollInvNext == PollInv /\ [PollNext]_pollVars => PollInv'
<1> SUFFICES ASSUME PollInv, [PollNext]_pollVars PROVE PollInv'
  OBVIOUS
<1> USE PollConstants
    DEF PollInv, PollTypes, PollerIsKnown, StoppedIsOff, PollerOwnsLock, RefreshPc, Mode, Step, Become
<1>1. CASE SaveRow
  BY <1>1 DEF SaveRow
<1>2. CASE LockExpires
  BY <1>2 DEF LockExpires
<1>3. CASE LockSlips
  BY <1>3 DEF LockSlips
<1>4. ASSUME NEW w \in Workers, Boot(w) PROVE PollInv'
  BY <1>4 DEF Boot
<1>5. ASSUME NEW w \in Workers, Tick(w) PROVE PollInv'
  BY <1>5 DEF Tick
<1>6. ASSUME NEW w \in Workers, ReadRow(w) PROVE PollInv'
  BY <1>6 DEF ReadRow
<1>7. ASSUME NEW w \in Workers, Unhook(w) PROVE PollInv'
  BY <1>7 DEF Unhook
<1>8. ASSUME NEW w \in Workers, Drain(w) PROVE PollInv'
  BY <1>8 DEF Drain
<1>9. ASSUME NEW w \in Workers, ReleaseLock(w) PROVE PollInv'
  BY <1>9 DEF ReleaseLock
<1>10. ASSUME NEW w \in Workers, Authorize(w) PROVE PollInv'
  BY <1>10 DEF Authorize
<1>11. ASSUME NEW w \in Workers, StartWebhook(w) PROVE PollInv'
  BY <1>11 DEF StartWebhook
<1>12. ASSUME NEW w \in Workers, StartPolling(w) PROVE PollInv'
  BY <1>12 DEF StartPolling, TakeLock
<1>21. ASSUME NEW w \in Workers, ClearHook(w) PROVE PollInv'
  BY <1>21 DEF ClearHook
<1>13. ASSUME NEW w \in Workers, ShutdownEnds(w) PROVE PollInv'
  BY <1>13 DEF ShutdownEnds
<1>14. ASSUME NEW w \in Workers, WaitForLock(w) PROVE PollInv'
  BY <1>14 DEF WaitForLock, TakeLock
<1>15. ASSUME NEW w \in Workers, RenewFails(w) PROVE PollInv'
  BY <1>15 DEF RenewFails
<1>16. ASSUME NEW w \in Workers, BecomeStandby(w) PROVE PollInv'
  BY <1>16 DEF BecomeStandby
<1>17. ASSUME NEW w \in Workers, PollerDies(w) PROVE PollInv'
  BY <1>17 DEF PollerDies
<1>18. ASSUME NEW w \in Workers, Shutdown(w) PROVE PollInv'
  BY <1>18 DEF Shutdown
<1>19. ASSUME NEW w \in Workers, Die(w) PROVE PollInv'
  BY <1>19 DEF Die
<1>20. CASE UNCHANGED pollVars
  BY <1>20 DEF pollVars
<1> QED
  BY <1>1, <1>2, <1>3, <1>4, <1>5, <1>6, <1>7, <1>8, <1>9, <1>10, <1>11, <1>12,
     <1>13, <1>14, <1>15, <1>16, <1>17, <1>18, <1>19, <1>20, <1>21 DEF PollNext, Refresh

\* Telegram refuses a second getUpdates client (polling.py): while no lock is
\* lost under its holder, no two workers poll at once, through restarts,
\* deaths, saves of the settings, failed renewals and orphaned locks.
THEOREM SinglePoller == PollSpec => []OnePoller
<1>1. PollInv => OnePoller
  BY DEF PollInv, PollerOwnsLock, OnePoller
<1> QED BY <1>1, PollInvInit, PollInvNext, PTL DEF PollSpec

-----------------------------------------------------------------------------
(* The types of the pollers *)

\* What the rows, the lock and the counters hold.
PollRows ==
  /\ bot \in BotRow /\ snap \in [Workers -> BotRow]
  /\ rev \in [Workers -> 0..NoRevision]
  /\ lock \in Workers \cup {Nobody}
  /\ failures \in 0..MaxFailures

PollFlags == hook \in Hook /\ slipped \in BOOLEAN

\* A failure is counted.
LEMMA FailureCounted ==
  ASSUME PollRows, Failure \/ UNCHANGED failures PROVE failures' \in 0..MaxFailures
  BY PollConstants DEF PollRows, Failure

\* The rows, from what a step assigns.
LEMMA PollRowsKept ==
  ASSUME PollRows, bot' \in BotRow, Failure \/ UNCHANGED failures,
         UNCHANGED snap \/ \E w \in Workers : snap' = [snap EXCEPT ![w] = bot],
         \/ UNCHANGED rev
         \/ \E w \in Workers : rev' = [rev EXCEPT ![w] = NoRevision] \/ rev' = [rev EXCEPT ![w] = snap[w].ver],
         lock' \in Workers \cup {Nobody, lock}
  PROVE  PollRows'
<1>1. failures' \in 0..MaxFailures
  BY FailureCounted
<1>2. snap' \in [Workers -> BotRow]
  BY DEF PollRows
<1>3. rev' \in [Workers -> 0..NoRevision]
  <2>1. MaxChanges \in Nat /\ NoRevision \in 0..NoRevision /\ 0..MaxChanges \subseteq 0..NoRevision
    BY PollConstants DEF NoRevision
  <2>2. \A w \in Workers : snap[w].ver \in 0..NoRevision
    BY <2>1 DEF PollRows, BotRow
  <2> QED BY <2>1, <2>2 DEF PollRows
<1> QED BY <1>1, <1>2, <1>3 DEF PollRows

\* The rows and the flags keep their types.
LEMMA PollTypesNext == PollRows /\ PollFlags /\ [PollNext]_pollVars => PollRows' /\ PollFlags'
<1> SUFFICES ASSUME PollRows, PollFlags, [PollNext]_pollVars PROVE PollRows' /\ PollFlags'
  OBVIOUS
<1>b. bot \in BotRow
  BY DEF PollRows
<1>1. CASE SaveRow
  <2>1. bot' \in BotRow
    BY <1>1, PollConstants DEF SaveRow, PollRows, BotRow
  <2>2. UNCHANGED <<snap, rev, lock, failures>> /\ UNCHANGED <<hook, slipped>>
    BY <1>1 DEF SaveRow
  <2> QED BY <2>1, <2>2, PollRowsKept DEF PollFlags
<1>2. CASE LockExpires
  BY <1>2, <1>b, PollRowsKept DEF LockExpires, PollFlags
<1>3. CASE LockSlips
  BY <1>3, <1>b, PollRowsKept DEF LockSlips, PollFlags
<1>4. ASSUME NEW w \in Workers, Boot(w) PROVE PollRows' /\ PollFlags'
  BY <1>4, <1>b, PollRowsKept DEF Boot, PollFlags
<1>5. ASSUME NEW w \in Workers, Tick(w) PROVE PollRows' /\ PollFlags'
  BY <1>5, <1>b, PollRowsKept DEF Tick, PollFlags
<1>6. ASSUME NEW w \in Workers, ReadRow(w) PROVE PollRows' /\ PollFlags'
  BY <1>6, <1>b, PollRowsKept DEF ReadRow, PollFlags
<1>7. ASSUME NEW w \in Workers, Unhook(w) PROVE PollRows' /\ PollFlags'
  BY <1>7, <1>b, PollRowsKept DEF Unhook, Unhooked, PollFlags, Hook
<1>8. ASSUME NEW w \in Workers, Drain(w) PROVE PollRows' /\ PollFlags'
  BY <1>8, <1>b, PollRowsKept DEF Drain, PollFlags
<1>9. ASSUME NEW w \in Workers, ReleaseLock(w) PROVE PollRows' /\ PollFlags'
  BY <1>9, <1>b, PollRowsKept DEF ReleaseLock, PollFlags
<1>10. ASSUME NEW w \in Workers, Authorize(w) PROVE PollRows' /\ PollFlags'
  BY <1>10, <1>b, PollRowsKept DEF Authorize, PollFlags
<1>11. ASSUME NEW w \in Workers, StartWebhook(w) PROVE PollRows' /\ PollFlags'
  BY <1>11, <1>b, PollRowsKept DEF StartWebhook, PollFlags, Hook
<1>12. ASSUME NEW w \in Workers, StartPolling(w) PROVE PollRows' /\ PollFlags'
  BY <1>12, <1>b, PollRowsKept DEF StartPolling, TakeLock, PollFlags
<1>21. ASSUME NEW w \in Workers, ClearHook(w) PROVE PollRows' /\ PollFlags'
  BY <1>21, <1>b, PollRowsKept DEF ClearHook, PollFlags, Hook
<1>13. ASSUME NEW w \in Workers, ShutdownEnds(w) PROVE PollRows' /\ PollFlags'
  BY <1>13, <1>b, PollRowsKept DEF ShutdownEnds, Unhooked, PollFlags, Hook
<1>14. ASSUME NEW w \in Workers, WaitForLock(w) PROVE PollRows' /\ PollFlags'
  BY <1>14, <1>b, PollRowsKept DEF WaitForLock, TakeLock, PollFlags
<1>15. ASSUME NEW w \in Workers, RenewFails(w) PROVE PollRows' /\ PollFlags'
  BY <1>15, <1>b, PollRowsKept DEF RenewFails, PollFlags
<1>16. ASSUME NEW w \in Workers, BecomeStandby(w) PROVE PollRows' /\ PollFlags'
  BY <1>16, <1>b, PollRowsKept DEF BecomeStandby, PollFlags
<1>17. ASSUME NEW w \in Workers, PollerDies(w) PROVE PollRows' /\ PollFlags'
  BY <1>17, <1>b, PollRowsKept DEF PollerDies, PollFlags
<1>18. ASSUME NEW w \in Workers, Shutdown(w) PROVE PollRows' /\ PollFlags'
  BY <1>18, <1>b, PollRowsKept DEF Shutdown, PollFlags
<1>19. ASSUME NEW w \in Workers, Die(w) PROVE PollRows' /\ PollFlags'
  BY <1>19, <1>b, PollRowsKept DEF Die, PollFlags
<1>20. CASE UNCHANGED pollVars
  BY <1>20, <1>b, PollRowsKept DEF pollVars, PollFlags
<1> QED
  BY <1>1, <1>2, <1>3, <1>4, <1>5, <1>6, <1>7, <1>8, <1>9, <1>10, <1>11, <1>12,
     <1>13, <1>14, <1>15, <1>16, <1>17, <1>18, <1>19, <1>20, <1>21 DEF PollNext, Refresh

\* The initial row is the integration's, and no lock is set.
LEMMA PollTypesInit == PollInit => PollRows /\ PollFlags
<1> SUFFICES ASSUME PollInit PROVE PollRows /\ PollFlags
  OBVIOUS
<1>1. bot \in BotRow /\ NoRevision \in 0..NoRevision /\ 0 \in 0..MaxFailures
  BY PollConstants DEF PollInit, BotRow, NoRevision
<1>2. PollRows
  BY <1>1 DEF PollInit, PollRows
<1>3. PollFlags
  BY Zenon DEF PollInit, PollFlags, Hook
<1> QED BY <1>2, <1>3

\* Together they are the type invariant.
LEMMA PollTypesMeet == PollInv /\ PollRows /\ PollFlags => PollTypeOK
<1> SUFFICES ASSUME PollInv, PollRows, PollFlags PROVE PollTypeOK
  OBVIOUS
<1>1. {token, getting} \subseteq [Workers -> BOOLEAN]
  BY DEF PollInv, PollTypes
<1>2. hook \in Hook /\ slipped \in BOOLEAN
  BY Zenon DEF PollFlags
<1> QED BY <1>1, <1>2 DEF PollTypeOK, PollInv, PollTypes, PollRows

-----------------------------------------------------------------------------
-----------------------------------------------------------------------------
(* Texts *)

Text == Seq(Units)

\* A set of natural numbers has a least one.
LEMMA MinExists ==
  ASSUME NEW S \in SUBSET Nat, S # {}
  PROVE  Min(S) \in S /\ \A m \in S : Min(S) <= m
<1> DEFINE R == OpToRel(<, Nat)
<1>1. IsWellFoundedOn(R, Nat)
  BY NatLessThanWellFounded
<1>2. \A x, y \in Nat : <<y, x>> \in R <=> y < x
  BY DEF OpToRel
<1> HIDE DEF R
<1>3. PICK x \in S : \A y \in S : ~(<<y, x>> \in R)
  BY <1>1, WFMin
<1>4. \A y \in S : x <= y
  <2> TAKE y \in S
  <2>1. x \in Nat /\ y \in Nat /\ ~(y < x)
    BY <1>2, <1>3
  <2> QED BY <2>1
<1>5. \E x0 \in S : \A y \in S : x0 <= y
  BY <1>4
<1> QED BY <1>5 DEF Min

\* A bounded one has a greatest.
LEMMA MaxExists ==
  ASSUME NEW n \in Nat, NEW S \in SUBSET (0..n), S # {}
  PROVE  Max(S) \in S /\ \A m \in S : m <= Max(S)
<1> DEFINE T == {n - m : m \in S}
<1>1. T \in SUBSET Nat /\ T # {}
  OBVIOUS
<1>2. Min(T) \in T /\ \A t \in T : Min(T) <= t
  BY <1>1, MinExists
<1>3. PICK x \in S : Min(T) = n - x
  BY <1>2
<1>4. ASSUME NEW m \in S PROVE x >= m
  <2>1. n - m \in T
    OBVIOUS
  <2>2. n - x <= n - m
    BY <1>2, <1>3, <2>1
  <2>3. x \in Int /\ m \in Int
    OBVIOUS
  <2> QED BY <2>2, <2>3
<1>5. \E y \in S : \A m \in S : y >= m
  BY <1>4
<1>6. Max(S) \in S /\ \A m \in S : Max(S) >= m
  BY <1>5 DEF Max
<1>7. ASSUME NEW m \in S PROVE m <= Max(S)
  <2>1. m \in 0..n /\ Max(S) \in 0..n
    BY <1>6
  <2>2. Max(S) >= m
    BY <1>6
  <2> HIDE DEF T
  <2> QED BY <2>1, <2>2
<1> QED BY <1>6, <1>7

\* The places of a text are finite in number.
LEMMA PlacesFinite ==
  ASSUME NEW s \in Text, NEW K
  PROVE  /\ Places(s, K) \subseteq 1..Len(s) /\ IsFiniteSet(Places(s, K))
         /\ Cardinality(Places(s, K)) \in Nat /\ Cardinality(Places(s, K)) <= Len(s)
<1>1. Places(s, K) \subseteq 1..Len(s) /\ Len(s) \in Nat
  BY DEF Places, Text
<1>2. IsFiniteSet(1..Len(s)) /\ Cardinality(1..Len(s)) = IF 1 > Len(s) THEN 0 ELSE Len(s) - 1 + 1
  BY <1>1, FS_Interval
<1>3. Cardinality(1..Len(s)) = Len(s)
  BY <1>1, <1>2
<1>4. IsFiniteSet(Places(s, K)) /\ Cardinality(Places(s, K)) <= Cardinality(1..Len(s))
  BY <1>1, <1>2, FS_Subset
<1> QED BY <1>1, <1>3, <1>4, FS_CardinalityType

\* A part of a text has the units of its places, moved to the front.
LEMMA PartOf ==
  ASSUME NEW s \in Text, NEW m \in Nat, NEW n \in Nat, 1 <= m, n <= Len(s), m <= n + 1
  PROVE  /\ SubSeq(s, m, n) \in Text /\ Len(SubSeq(s, m, n)) = n - m + 1
         /\ DOMAIN SubSeq(s, m, n) = 1..(n - m + 1)
         /\ \A i \in 1..(n - m + 1) : SubSeq(s, m, n)[i] = s[i + m - 1] /\ i + m - 1 \in 1..Len(s)
<1>1. Len(s) \in Nat /\ DOMAIN s = 1..Len(s)
  BY DEF Text
<1>2. n - m + 1 \in Nat /\ \A i \in 1..(n - m + 1) : i + m - 1 \in 1..Len(s)
  BY <1>1
<1>3. SubSeq(s, m, n) = [i \in 1..(n - m + 1) |-> s[i + m - 1]]
  OBVIOUS
<1> QED BY <1>1, <1>2, <1>3 DEF Text

\* So the part has as many of them as the text has there.
LEMMA PartPlaces ==
  ASSUME NEW s \in Text, NEW K, NEW m \in Nat, NEW n \in Nat, 1 <= m, n <= Len(s), m <= n + 1
  PROVE  Cardinality(Places(SubSeq(s, m, n), K)) = Cardinality(Places(s, K) \cap (m..n))
<1> DEFINE p == SubSeq(s, m, n)
           P == Places(p, K)
           Q == Places(s, K) \cap (m..n)
           f == [i \in P |-> i + m - 1]
<1>1. /\ p \in Text /\ DOMAIN p = 1..(n - m + 1) /\ Len(s) \in Nat /\ DOMAIN s = 1..Len(s)
      /\ \A i \in 1..(n - m + 1) : p[i] = s[i + m - 1] /\ i + m - 1 \in 1..Len(s)
  BY PartOf DEF Text
<1> HIDE DEF p
<1>2. IsFiniteSet(P)
  BY <1>1, PlacesFinite
<1>3. ASSUME NEW i \in P PROVE i + m - 1 \in Q /\ i \in Int
  <2>1. i \in 1..(n - m + 1) /\ p[i] \in K
    BY <1>1 DEF Places
  <2>2. i + m - 1 \in m..n
    BY <2>1
  <2>3. s[i + m - 1] \in K /\ i + m - 1 \in 1..Len(s)
    BY <1>1, <2>1
  <2> QED BY <1>1, <2>1, <2>2, <2>3 DEF Places
<1>4. ASSUME NEW j \in Q PROVE j - m + 1 \in P /\ (j - m + 1) + m - 1 = j
  <2>1. j \in 1..Len(s) /\ s[j] \in K /\ j \in m..n
    BY <1>1 DEF Places
  <2>2. j - m + 1 \in 1..(n - m + 1) /\ (j - m + 1) + m - 1 = j
    BY <2>1
  <2>3. p[j - m + 1] = s[j]
    BY <1>1, <2>2
  <2> QED BY <1>1, <2>1, <2>2, <2>3 DEF Places
<1>5. f \in Injection(P, Q)
  <2>1. f \in [P -> Q]
    BY <1>3
  <2>2. ASSUME NEW a \in P, NEW b \in P, f[a] = f[b] PROVE a = b
    <3>1. a \in Int /\ b \in Int /\ a + m - 1 = b + m - 1
      BY <1>3, <2>2
    <3> QED BY <3>1
  <2> QED BY <2>1, <2>2 DEF Injection, IsInjective
<1>6. f \in Surjection(P, Q)
  <2>1. f \in [P -> Q]
    BY <1>3
  <2>2. \A j \in Q : \E i \in P : f[i] = j
    BY <1>4
  <2> QED BY <2>1, <2>2 DEF Surjection
<1>7. ExistsBijection(P, Q)
  BY <1>5, <1>6 DEF ExistsBijection, Bijection
<1> QED BY <1>2, <1>7, FS_Bijection DEF p

\* The same for ink.
LEMMA InkOfPart ==
  ASSUME NEW s \in Text, NEW m \in Nat, NEW n \in Nat, 1 <= m, n <= Len(s), m <= n + 1
  PROVE  InkOf(SubSeq(s, m, n)) = Cardinality(Ink(s) \cap (m..n))
<1>1. \A K : Cardinality(Places(SubSeq(s, m, n), K)) = Cardinality(Places(s, K) \cap (m..n))
  BY PartPlaces, SMTT(30)
<1> QED BY <1>1, Zenon DEF InkOf, Ink

\* A text cut in two.
LEMMA CutPlaces ==
  ASSUME NEW s \in Text, NEW K, NEW n \in 0..Len(s)
  PROVE  Cardinality(Places(SubSeq(s, 1, n), K)) + Cardinality(Places(SubSeq(s, n + 1, Len(s)), K))
            = Cardinality(Places(s, K))
<1> DEFINE P == Places(s, K)
           L == P \cap (1..n)
           R == P \cap ((n + 1)..Len(s))
<1>1. n \in Nat /\ Len(s) \in Nat /\ n <= Len(s)
  BY DEF Text
<1>2. Cardinality(Places(SubSeq(s, 1, n), K)) = Cardinality(L)
  <2> DEFINE one == 1
  <2>1. one \in Nat /\ 1 <= one /\ one <= n + 1 /\ n <= Len(s) /\ n \in Nat
    BY <1>1
  <2> HIDE DEF one
  <2>2. Cardinality(Places(SubSeq(s, one, n), K)) = Cardinality(Places(s, K) \cap (one..n))
    BY <2>1, PartPlaces
  <2> QED BY <2>2 DEF one
<1>3. Cardinality(Places(SubSeq(s, n + 1, Len(s)), K)) = Cardinality(R)
  <2>1. n + 1 \in Nat /\ 1 <= n + 1 /\ Len(s) <= Len(s) /\ n + 1 <= Len(s) + 1
    BY <1>1
  <2> QED BY <1>1, <2>1, PartPlaces
<1>4. IsFiniteSet(P) /\ P \subseteq 1..Len(s)
  BY PlacesFinite
<1>5. P = L \cup R /\ L \cap R = {}
  BY <1>1, <1>4
<1>6. IsFiniteSet(L) /\ IsFiniteSet(R)
  BY <1>4, FS_Subset
<1> HIDE DEF L, R, P
<1>7. Cardinality(L \cup R) = Cardinality(L) + Cardinality(R) - Cardinality(L \cap R)
  BY <1>6, FS_Union
<1>8. Cardinality(L \cap R) = 0 /\ Cardinality(L) \in Nat /\ Cardinality(R) \in Nat
  BY <1>5, <1>6, FS_EmptySet, FS_CardinalityType
<1>9. Cardinality(P) = Cardinality(L) + Cardinality(R)
  BY <1>5, <1>7, <1>8
<1> QED BY <1>2, <1>3, <1>9 DEF P

\* strip keeps the ink, and begins and ends with it.
LEMMA StripInk ==
  ASSUME NEW s \in Text
  PROVE  /\ strip(s) \in Text /\ Len(strip(s)) <= Len(s)
         /\ InkOf(strip(s)) = InkOf(s) /\ InkOf(s) \in Nat
         /\ (strip(s) = <<>>) <=> (InkOf(s) = 0)
         /\ (Ink(s) = {}) <=> (InkOf(s) = 0)
         /\ strip(s) # <<>> => 1 \in Ink(strip(s)) /\ Len(strip(s)) \in Ink(strip(s))
<1>0. Ink(s) \subseteq 1..Len(s) /\ IsFiniteSet(Ink(s)) /\ InkOf(s) \in Nat /\ Len(s) \in Nat
  BY PlacesFinite DEF Ink, InkOf, Text
<1>e. (Ink(s) = {}) <=> (InkOf(s) = 0)
  BY <1>0, FS_EmptySet DEF InkOf
<1>1. CASE Ink(s) = {}
  <2>1. strip(s) = <<>> /\ <<>> \in Text /\ Len(<<>>) = 0
    BY <1>1 DEF strip, Text
  <2>2. Ink(<<>>) = {}
    BY DEF Ink, Places
  <2>3. InkOf(<<>>) = 0 /\ InkOf(s) = 0
    BY <1>1, <2>2, FS_EmptySet DEF InkOf
  <2> QED BY <1>0, <1>1, <2>1, <2>3
<1>2. CASE Ink(s) # {}
  <2> DEFINE a == Min(Ink(s))
             b == Max(Ink(s))
  <2>1. a \in Ink(s) /\ \A i \in Ink(s) : a <= i
    <3>1. Ink(s) \in SUBSET Nat
      BY <1>0
    <3> QED BY <1>2, <3>1, MinExists
  <2>2. b \in Ink(s) /\ \A i \in Ink(s) : i <= b
    <3>1. Ink(s) \in SUBSET (0..Len(s))
      BY <1>0
    <3> QED BY <1>0, <1>2, <3>1, MaxExists
  <2>3. strip(s) = SubSeq(s, a, b)
    BY <1>2 DEF strip
  <2> HIDE DEF a, b
  <2>4. a \in Nat /\ b \in Nat /\ 1 <= a /\ a <= b /\ b <= Len(s) /\ a <= b + 1
    BY <1>0, <2>1, <2>2
  <2>5. /\ strip(s) \in Text /\ Len(strip(s)) = b - a + 1 /\ DOMAIN strip(s) = 1..(b - a + 1)
        /\ \A i \in 1..(b - a + 1) : strip(s)[i] = s[i + a - 1]
    BY <2>3, <2>4, PartOf
  <2>6. Ink(s) \cap (a..b) = Ink(s)
    <3>1. ASSUME NEW i \in Ink(s) PROVE i \in a..b
      BY <1>0, <2>1, <2>2, <2>4
    <3> QED BY <3>1
  <2>7. InkOf(strip(s)) = InkOf(s)
    <3>1. InkOf(SubSeq(s, a, b)) = Cardinality(Ink(s) \cap (a..b))
      BY <2>4, InkOfPart
    <3> QED BY <2>3, <2>6, <3>1 DEF InkOf
  <2>8. /\ 1 \in 1..(b - a + 1) /\ b - a + 1 \in 1..(b - a + 1)
        /\ 1 + a - 1 = a /\ (b - a + 1) + a - 1 = b
    BY <2>4
  <2>9. strip(s)[1] = s[a] /\ strip(s)[b - a + 1] = s[b]
    BY <2>5, <2>8
  <2>10. s[a] \in Units \ {"blank"} /\ s[b] \in Units \ {"blank"}
    BY <2>1, <2>2 DEF Ink, Places
  <2>11. 1 \in Ink(strip(s)) /\ Len(strip(s)) \in Ink(strip(s))
    BY <2>5, <2>8, <2>9, <2>10 DEF Ink, Places
  <2>12. strip(s) # <<>> /\ Len(strip(s)) <= Len(s)
    BY <2>4, <2>5
  <2> QED BY <1>0, <1>2, <1>e, <2>5, <2>7, <2>11, <2>12
<1> QED BY <1>1, <1>2

\* A prefix of a text.
LEMMA PrefixOf ==
  ASSUME NEW s \in Text, NEW n \in 0..Len(s)
  PROVE  /\ SubSeq(s, 1, n) \in Text /\ Len(SubSeq(s, 1, n)) = n /\ DOMAIN SubSeq(s, 1, n) = 1..n
         /\ \A i \in 1..n : SubSeq(s, 1, n)[i] = s[i]
<1>0. Len(s) \in Nat /\ n \in Nat /\ DOMAIN s = 1..Len(s)
  BY DEF Text
<1>1. SubSeq(s, 1, n) = [i \in 1..n |-> s[i]]
  BY <1>0
<1>2. 1..n \subseteq 1..Len(s)
  BY <1>0
<1> QED BY <1>0, <1>1, <1>2 DEF Text

\* The rest of it.
LEMMA RestOf ==
  ASSUME NEW s \in Text, NEW n \in 0..Len(s)
  PROVE  /\ SubSeq(s, n + 1, Len(s)) \in Text /\ Len(SubSeq(s, n + 1, Len(s))) = Len(s) - n
         /\ Len(SubSeq(s, n + 1, Len(s))) <= Len(s)
<1>0. Len(s) \in Nat /\ n \in Nat /\ DOMAIN s = 1..Len(s)
  BY DEF Text
<1>1. SubSeq(s, n + 1, Len(s)) = [i \in 1..(Len(s) - n) |-> s[i + n]]
  BY <1>0
<1>2. \A i \in 1..(Len(s) - n) : i + n \in 1..Len(s)
  BY <1>0
<1> DEFINE q == Len(s) - n
<1>3. q \in Nat /\ q <= Len(s)
  BY <1>0
<1>4. \A i \in 1..q : s[i + n] \in Units
  BY <1>0, <1>2 DEF Text
<1>5. SubSeq(s, n + 1, Len(s)) = [i \in 1..q |-> s[i + n]]
  BY <1>1
<1> HIDE DEF q
<1>6. SubSeq(s, n + 1, Len(s)) \in Seq(Units) /\ Len(SubSeq(s, n + 1, Len(s))) = q
  <2> DEFINE f == [i \in 1..q |-> s[i + n]]
  <2>1. f \in [1..q -> Units]
    BY <1>4
  <2> HIDE DEF f
  <2>2. f \in Seq(Units) /\ Len(f) = q
    BY <1>3, <2>1
  <2> QED BY <1>5, <2>2 DEF f
<1> QED BY <1>3, <1>6 DEF q, Text

\* A text cut in two has its ink in the parts.
LEMMA CutInk ==
  ASSUME NEW s \in Text, NEW n \in 0..Len(s)
  PROVE  InkOf(SubSeq(s, 1, n)) + InkOf(SubSeq(s, n + 1, Len(s))) = InkOf(s)
<1>1. \A K : Cardinality(Places(SubSeq(s, 1, n), K)) + Cardinality(Places(SubSeq(s, n + 1, Len(s)), K))
               = Cardinality(Places(s, K))
  BY CutPlaces, SMTT(30)
<1> QED BY <1>1, Zenon DEF InkOf, Ink

\* The ink of a text is a natural number, and the empty text has none.
LEMMA InkIsNat == <<>> \in Text /\ InkOf(<<>>) = 0 /\ \A s \in Text : InkOf(s) \in Nat
<1>1. <<>> \in Text /\ Ink(<<>>) = {}
  BY DEF Text, Ink, Places
<1>2. InkOf(<<>>) = 0
  BY <1>1, FS_EmptySet DEF InkOf
<1> QED BY <1>1, <1>2, StripInk

\* The weight of a text is at least its length and at most twice that.
LEMMA WeightBounds ==
  ASSUME NEW s \in Text PROVE Weight(s) \in Nat /\ Len(s) <= Weight(s) /\ Weight(s) <= Len(s) + Len(s)
<1>1. Cardinality(Places(s, {"heavy"})) \in Nat /\ Cardinality(Places(s, {"heavy"})) <= Len(s)
  BY PlacesFinite, Zenon
<1>2. Len(s) \in Nat
  BY DEF Text
<1> QED BY <1>1, <1>2 DEF Weight

\* The first chunk: the longest prefix that fits one message.
LEMMA FirstChunk ==
  ASSUME NEW s \in Text
  PROVE  \E q \in 0..Len(s) :
            /\ first_chunk(s) = SubSeq(s, 1, q) /\ Weight(SubSeq(s, 1, q)) <= MessageLimit
            /\ s # <<>> => q >= 1
            /\ Weight(s) <= MessageLimit => q = Len(s)
<1> DEFINE F == {n \in 0..Len(s) : Weight(SubSeq(s, 1, n)) <= MessageLimit}
<1>0. Len(s) \in Nat /\ MessageLimit \in Nat /\ MessageLimit >= 2
  BY ReplyConstants DEF Text
<1>1. ASSUME NEW n \in 0..Len(s), n + n <= MessageLimit PROVE n \in F
  <2>1. SubSeq(s, 1, n) \in Text /\ Len(SubSeq(s, 1, n)) = n
    BY PrefixOf
  <2>2. Weight(SubSeq(s, 1, n)) \in Nat /\ Weight(SubSeq(s, 1, n)) <= n + n
    BY <2>1, WeightBounds
  <2> HIDE DEF F
  <2>3. Weight(SubSeq(s, 1, n)) <= MessageLimit
    BY <1>0, <1>1, <2>2
  <2> QED BY <2>3 DEF F
<1>2. 0 \in F
  BY <1>0, <1>1
<1>3. Max(F) \in F /\ \A m \in F : m <= Max(F)
  <2>1. F \in SUBSET (0..Len(s)) /\ F # {}
    BY <1>2
  <2> HIDE DEF F
  <2> QED BY <1>0, <2>1, MaxExists
<1>4. first_chunk(s) = SubSeq(s, 1, Max(F))
  BY DEF first_chunk
<1>5. ASSUME s # <<>> PROVE Max(F) >= 1
  <2>1. Len(s) # 0
    BY <1>5 DEF Text
  <2>2. 1 \in F
    BY <1>0, <1>1, <2>1
  <2>3. 1 <= Max(F) /\ Max(F) \in 0..Len(s)
    BY <1>3, <2>2
  <2> HIDE DEF F
  <2> QED BY <1>0, <2>3
<1>6. ASSUME Weight(s) <= MessageLimit PROVE Max(F) = Len(s)
  <2>1. SubSeq(s, 1, Len(s)) = s
    BY DEF Text
  <2>2. Len(s) \in F
    <3>1. Len(s) \in 0..Len(s)
      BY <1>0
    <3>2. Weight(SubSeq(s, 1, Len(s))) <= MessageLimit
      BY <1>6, <2>1
    <3> QED BY <3>1, <3>2
  <2>3. Len(s) <= Max(F) /\ Max(F) \in 0..Len(s)
    BY <1>3, <2>2
  <2> HIDE DEF F
  <2> QED BY <1>0, <2>3
<1>7. Max(F) \in 0..Len(s) /\ Weight(SubSeq(s, 1, Max(F))) <= MessageLimit
  BY <1>3
<1> HIDE DEF F
<1> QED BY <1>4, <1>5, <1>6, <1>7

\* What send_text sends next, and what is left of the text.
LEMMA ChunkFacts ==
  ASSUME NEW s \in Text
  PROVE  /\ first_chunk(s) \in Text /\ Len(first_chunk(s)) <= Len(s)
         /\ Weight(first_chunk(s)) <= MessageLimit
         /\ s # <<>> => first_chunk(s) # <<>>
         /\ Weight(s) <= MessageLimit => first_chunk(s) = s
         /\ SubSeq(s, Len(first_chunk(s)) + 1, Len(s)) \in Text
         /\ Len(SubSeq(s, Len(first_chunk(s)) + 1, Len(s))) <= Len(s)
         /\ InkOf(first_chunk(s)) + InkOf(SubSeq(s, Len(first_chunk(s)) + 1, Len(s))) = InkOf(s)
<1>1. PICK q \in 0..Len(s) :
            /\ first_chunk(s) = SubSeq(s, 1, q) /\ Weight(SubSeq(s, 1, q)) <= MessageLimit
            /\ s # <<>> => q >= 1
            /\ Weight(s) <= MessageLimit => q = Len(s)
  BY FirstChunk
<1>2. /\ first_chunk(s) \in Text /\ Len(first_chunk(s)) = q
  BY <1>1, PrefixOf
<1>3. q <= Len(s) /\ q \in Nat /\ Len(s) \in Nat
  BY DEF Text
<1>4. Weight(s) <= MessageLimit => first_chunk(s) = s
  <2>1. SubSeq(s, 1, Len(s)) = s
    BY DEF Text
  <2> QED BY <1>1, <2>1
<1>5. s # <<>> => first_chunk(s) # <<>>
  <2>1. Len(<<>>) = 0
    OBVIOUS
  <2> QED BY <1>1, <1>2, <1>3, <2>1
<1>6. /\ SubSeq(s, q + 1, Len(s)) \in Text /\ Len(SubSeq(s, q + 1, Len(s))) <= Len(s)
  BY RestOf
<1>7. InkOf(SubSeq(s, 1, q)) + InkOf(SubSeq(s, q + 1, Len(s))) = InkOf(s)
  BY CutInk
<1> QED BY <1>1, <1>2, <1>3, <1>4, <1>5, <1>6, <1>7

\* A text that begins with a stripped one: the bubble is a prefix of what is to
\* be seen, and the ink is divided.
LEMMA StrippedPrefix ==
  ASSUME NEW t \in Text, NEW v \in Text, v # <<>>, 1 \in Ink(v), Len(v) \in Ink(v), IsPrefix(v, t)
  PROVE  /\ IsPrefix(v, strip(t))
         /\ SubSeq(t, Len(v) + 1, Len(t)) \in Text /\ Len(SubSeq(t, Len(v) + 1, Len(t))) <= Len(t)
         /\ InkOf(v) + InkOf(SubSeq(t, Len(v) + 1, Len(t))) = InkOf(t)
<1> DEFINE n == Len(v)
<1>0. Len(t) \in Nat /\ n \in Nat /\ n <= Len(t) /\ n # 0 /\ n \in 0..Len(t)
  BY DEF Text, IsPrefix
<1>1. v = SubSeq(t, 1, n)
  <2>1. SubSeq(v, 1, Len(v)) = v
    BY DEF Text
  <2> QED BY <2>1 DEF IsPrefix
<1>2. \A i \in 1..n : v[i] = t[i]
  BY <1>0, <1>1, PrefixOf
<1> HIDE DEF n
<1>3. 1 \in 1..n /\ n \in 1..n /\ 1 \in 1..Len(t) /\ n \in 1..Len(t) /\ DOMAIN t = 1..Len(t)
  BY <1>0 DEF Text
<1>4. 1 \in Ink(t) /\ n \in Ink(t)
  BY <1>2, <1>3 DEF Ink, Places, n
<1>5. Ink(t) \subseteq 1..Len(t)
  BY PlacesFinite, Zenon DEF Ink
<1> DEFINE b == Max(Ink(t))
<1>6. b \in Ink(t) /\ \A i \in Ink(t) : i <= b
  <2>1. Ink(t) \in SUBSET (0..Len(t)) /\ Ink(t) # {}
    BY <1>0, <1>4, <1>5
  <2> QED BY <1>0, <2>1, MaxExists
<1>7. Min(Ink(t)) = 1
  <2>1. Ink(t) \in SUBSET Nat /\ Ink(t) # {}
    BY <1>0, <1>4, <1>5
  <2>2. Min(Ink(t)) \in Ink(t) /\ \A i \in Ink(t) : Min(Ink(t)) <= i
    BY <2>1, MinExists
  <2>3. Min(Ink(t)) \in 1..Len(t) /\ Min(Ink(t)) <= 1
    BY <1>4, <1>5, <2>2
  <2> QED BY <1>0, <2>3
<1>8. strip(t) = SubSeq(t, 1, b)
  BY <1>4, <1>7 DEF strip
<1> HIDE DEF b
<1>9. b \in 0..Len(t) /\ n <= b /\ b \in Nat
  BY <1>0, <1>4, <1>5, <1>6
<1>10. /\ strip(t) \in Text /\ Len(strip(t)) = b
       /\ \A i \in 1..b : strip(t)[i] = t[i]
  BY <1>8, <1>9, PrefixOf
<1>11. SubSeq(strip(t), 1, n) = v
  <2>1. n \in 0..Len(strip(t)) /\ 1..n \subseteq 1..b
    BY <1>0, <1>9, <1>10
  <2>2. /\ SubSeq(strip(t), 1, n) \in Text /\ Len(SubSeq(strip(t), 1, n)) = n
        /\ \A i \in 1..n : SubSeq(strip(t), 1, n)[i] = strip(t)[i]
    BY <1>10, <2>1, PrefixOf
  <2>3. \A i \in 1..n : SubSeq(strip(t), 1, n)[i] = v[i]
    BY <1>2, <1>10, <2>1, <2>2
  <2>4. Len(v) = n /\ v \in Seq(Units) /\ SubSeq(strip(t), 1, n) \in Seq(Units)
    BY <2>2 DEF n, Text
  <2> QED BY <2>2, <2>3, <2>4, SeqEqual
<1>12. IsPrefix(v, strip(t))
  <2>1. SubSeq(v, 1, Len(v)) = v
    BY DEF Text
  <2> QED BY <1>9, <1>10, <1>11, <2>1 DEF IsPrefix, n
<1>13. /\ SubSeq(t, n + 1, Len(t)) \in Text /\ Len(SubSeq(t, n + 1, Len(t))) <= Len(t)
       /\ InkOf(SubSeq(t, 1, n)) + InkOf(SubSeq(t, n + 1, Len(t))) = InkOf(t)
  BY <1>0, RestOf, CutInk
<1> QED BY <1>1, <1>12, <1>13 DEF n

\* Messages: finite, and one more adds its ink.
LEMMA SeenGrows ==
  ASSUME NEW q \in Seq(Text), NEW w \in Text, NEW l \in Nat,
         \A i \in DOMAIN q : Len(q[i]) <= l
  PROVE  /\ IsFiniteSet(Seen(q)) /\ Cardinality(Seen(q)) \in Nat
         /\ Cardinality(Seen(Append(q, w))) = Cardinality(Seen(q)) + InkOf(w)
<1> DEFINE n == Len(q)
           Added == {n + 1} \X Ink(w)
<1>0. n \in Nat /\ DOMAIN q = 1..n /\ DOMAIN Append(q, w) = 1..(n + 1)
      /\ Append(q, w)[n + 1] = w /\ \A i \in 1..n : Append(q, w)[i] = q[i]
  OBVIOUS
<1> HIDE DEF n
<1>1. IsFiniteSet(Seen(q))
  <2>1. IsFiniteSet(1..n) /\ IsFiniteSet(1..l)
    BY <1>0, FS_Interval
  <2>2. IsFiniteSet((1..n) \X (1..l))
    BY <2>1, FS_Product
  <2>3. Seen(q) \subseteq (1..n) \X (1..l)
    <3>1. ASSUME NEW i \in 1..n PROVE {i} \X Ink(q[i]) \subseteq (1..n) \X (1..l)
      <4>0. q[i] \in Text /\ Len(q[i]) <= l
        BY <1>0
      <4>1. q[i] \in Text /\ Len(q[i]) <= l /\ Len(q[i]) \in Nat
        BY <4>0 DEF Text
      <4>2. Ink(q[i]) \subseteq 1..Len(q[i])
        BY <4>1, PlacesFinite, Zenon DEF Ink
      <4>3. 1..Len(q[i]) \subseteq 1..l
        BY <4>1
      <4> QED BY <4>2, <4>3
    <3> QED BY <1>0, <3>1 DEF Seen
  <2> QED BY <2>2, <2>3, FS_Subset
<1>2. IsFiniteSet(Ink(w))
  BY PlacesFinite, Zenon DEF Ink
<1>3. IsFiniteSet(Added) /\ Cardinality(Added) = InkOf(w)
  <2>1. IsFiniteSet({n + 1}) /\ Cardinality({n + 1}) = 1
    BY FS_Singleton
  <2>2. IsFiniteSet(Added) /\ Cardinality(Added) = 1 * Cardinality(Ink(w))
    BY <1>2, <2>1, FS_Product
  <2>3. Cardinality(Ink(w)) \in Nat
    BY <1>2, FS_CardinalityType
  <2> QED BY <2>2, <2>3 DEF InkOf
<1>4. Seen(Append(q, w)) = Seen(q) \cup Added
  <2>1. 1..(n + 1) = (1..n) \cup {n + 1}
    BY <1>0
  <2>2. Seen(Append(q, w)) = UNION {{i} \X Ink(Append(q, w)[i]) : i \in (1..n) \cup {n + 1}}
    BY <1>0, <2>1 DEF Seen
  <2>3. \A i \in 1..n : {i} \X Ink(Append(q, w)[i]) = {i} \X Ink(q[i])
    BY <1>0
  <2>4. Seen(q) = UNION {{i} \X Ink(q[i]) : i \in 1..n}
    BY <1>0 DEF Seen
  <2>5. {n + 1} \X Ink(Append(q, w)[n + 1]) = Added
    BY <1>0
  <2> HIDE DEF Added
  <2>6. \A x : x \in Seen(Append(q, w)) <=> x \in Seen(q) \/ x \in Added
    BY <2>2, <2>3, <2>4, <2>5
  <2> QED BY <2>6
<1>5. Seen(q) \cap Added = {}
  <2>1. \A x \in Seen(q) : x[1] \in 1..n
    BY <1>0 DEF Seen
  <2>2. \A x \in Added : x[1] = n + 1
    OBVIOUS
  <2>3. n + 1 \notin 1..n
    BY <1>0
  <2> QED BY <2>1, <2>2, <2>3
<1> HIDE DEF Added
<1>6. Cardinality(Seen(q) \cup Added) = Cardinality(Seen(q)) + Cardinality(Added) - Cardinality(Seen(q) \cap Added)
  BY <1>1, <1>3, FS_Union
<1>7. Cardinality(Seen(q) \cap Added) = 0 /\ Cardinality(Seen(q)) \in Nat /\ Cardinality(Added) \in Nat
  BY <1>1, <1>3, <1>5, FS_EmptySet, FS_CardinalityType
<1> QED BY <1>1, <1>3, <1>4, <1>6, <1>7

-----------------------------------------------------------------------------
(* Reply *)

\* The texts on the way, none longer than the answer.
ReplyTexts ==
  /\ answer \in Answers /\ answer \in Text /\ voice \in BOOLEAN /\ got \in 0..Len(answer)
  /\ bubble \in Text /\ Len(bubble) <= Len(answer)
  /\ streamText \in Text /\ Len(streamText) <= Len(answer)
  /\ rest \in Text /\ Len(rest) <= Len(answer)
  /\ sent \in Seq(Text)
  /\ \A i \in DOMAIN sent : /\ sent[i] # <<>> /\ Len(sent[i]) <= Len(answer)
                            /\ voice \/ Weight(sent[i]) <= MessageLimit

FlowTypes ==
  /\ stored \in {"none", "partial", "full"} /\ told \in BOOLEAN
  /\ files \in {"none", "held", "sent"}
  /\ rpcAt \in {"stream", "done", "dropped", "stale", "send", "attach", "persist",
                "warn", "failing", "stop", "end"}
  /\ verdict \in {"none", "completed", "failed", "cancelled", "probed"}
  /\ errors \in 0..MaxApiErrors

\* The status message that is known, as a number.
Known == IF statusMsg THEN 1 ELSE 0

StatusTypes ==
  /\ statusPc \in [Callers -> {"idle", "lock", "send", "edit", "gone"}]
  /\ statusMsg \in BOOLEAN /\ statuses \in Nat

\* _status_lock: one call at a time, a send only when no message is known.
StatusLocked ==
  /\ \A c, d \in Callers :
        statusPc[c] \in {"send", "edit"} /\ statusPc[d] \in {"send", "edit"} => c = d
  /\ \A c \in Callers : /\ statusPc[c] = "send" => ~statusMsg
                        /\ statusPc[c] = "edit" => statusMsg

\* No message beyond the known one but for calls that failed.
StatusCount == Known <= statuses /\ statuses <= errors + Known

StatusOver ==
  rpcAt = "end" => ~statusMsg /\ statusPc["stream"] = "idle" /\ statusPc["ticker"] = "gone"

StatusInv == StatusTypes /\ StatusLocked /\ StatusCount /\ StatusOver

\* The ink still to be sent completes the answer, with the bubble or without.
Owed ==
  \/ InkSent + InkOf(rest) = InkOf(answer)
  \/ IsPrefix(bubble, strip(answer)) /\ InkOf(bubble) + InkSent + InkOf(rest) >= InkOf(answer)

Sending == {"send", "attach", "persist"}

AnswerInv ==
  /\ rpcAt \in {"stream", "done", "dropped", "stale"} => sent = <<>> /\ verdict = "none"
  /\ rpcAt \in Sending /\ verdict = "none" /\ FitsOneMessage(strip(stream_window(answer))) => Owed
  /\ rpcAt \in {"attach", "persist"} => InkOf(rest) = 0
  /\ rpcAt = "persist" => files # "held"
  /\ rpcAt \in Sending => verdict \in {"none", "failed"}
  /\ verdict = "completed" => rpcAt \in {"stop", "end"}
  /\ AnswerIsComplete

\* What the user has seen or is about to.
SilenceInv ==
  /\ rpcAt \in Sending /\ verdict = "none" =>
        bubble # <<>> \/ sent # <<>> \/ InkOf(rest) # 0 \/ files # "none"
  /\ rpcAt \in {"stop", "end"} /\ errors = 0 /\ verdict # "probed" =>
        told \/ sent # <<>> \/ bubble # <<>> \/ files = "sent"

ReplyInv == ReplyTexts /\ FlowTypes /\ StatusInv /\ AnswerInv /\ SilenceInv

\* strip_committed_prefix takes a part of the text.
LEMMA CommittedPrefix ==
  ASSUME NEW t \in Text, NEW c \in Text
  PROVE  /\ strip_committed_prefix(t, c) \in Text /\ Len(strip_committed_prefix(t, c)) <= Len(t)
         /\ strip_committed_prefix(t, <<>>) = t
<1>0. Len(t) \in Nat /\ Len(c) \in Nat /\ Len(t) <= Len(t)
  BY DEF Text
<1>1. CASE c # <<>> /\ IsPrefix(c, t)
  <2>1. Len(c) \in 0..Len(t)
    BY <1>0, <1>1 DEF IsPrefix
  <2>2. SubSeq(t, Len(c) + 1, Len(t)) \in Text /\ Len(SubSeq(t, Len(c) + 1, Len(t))) <= Len(t)
    BY <2>1, RestOf
  <2> QED BY <1>1, <2>2 DEF strip_committed_prefix
<1>2. CASE ~(c # <<>> /\ IsPrefix(c, t))
  BY <1>0, <1>2 DEF strip_committed_prefix
<1> QED BY <1>1, <1>2

\* The window is a part of the text, and strip of it too.
LEMMA WindowText ==
  ASSUME NEW t \in Text
  PROVE  /\ stream_window(t) \in Text /\ Len(stream_window(t)) <= Len(t)
         /\ strip(stream_window(t)) \in Text /\ Len(strip(stream_window(t))) <= Len(t)
<1>0. Len(t) \in Nat /\ BubbleMax \in Nat
  BY ReplyConstants DEF Text
<1>1. stream_window(t) \in Text /\ Len(stream_window(t)) <= Len(t)
  <2>1. CASE Len(t) <= BubbleMax
    BY <1>0, <2>1 DEF stream_window
  <2>2. CASE ~(Len(t) <= BubbleMax)
    <3>1. BubbleMax \in 0..Len(t)
      BY <1>0, <2>2
    <3>2. SubSeq(t, 1, BubbleMax) \in Text /\ Len(SubSeq(t, 1, BubbleMax)) = BubbleMax
      BY <3>1, PrefixOf
    <3> QED BY <1>0, <2>2, <3>1, <3>2 DEF stream_window
  <2> QED BY <2>1, <2>2
<1>2. strip(stream_window(t)) \in Text /\ Len(strip(stream_window(t))) <= Len(stream_window(t))
  BY <1>1, StripInk
<1>3. Len(stream_window(t)) \in Nat /\ Len(strip(stream_window(t))) \in Nat
  BY <1>1, <1>2 DEF Text
<1> QED BY <1>0, <1>1, <1>2, <1>3

\* Nothing is streamed, sent or owed at first.
LEMMA ReplyInvInit == ReplyInit => ReplyInv
<1> SUFFICES ASSUME ReplyInit PROVE ReplyInv
  OBVIOUS
<1>0. answer \in Text /\ Len(answer) \in Nat /\ <<>> \in Text /\ Len(<<>>) = 0 /\ <<>> \in Seq(Text)
      /\ DOMAIN <<>> = {}
  BY ReplyConstants DEF ReplyInit, Text
<1>1. ReplyTexts
  <2>1. voice \in BOOLEAN
    BY DEF ReplyInit
  <2>2. got \in 0..Len(answer)
    BY <1>0 DEF ReplyInit
  <2> QED BY <1>0, <2>1, <2>2 DEF ReplyInit, ReplyTexts
<1>2. FlowTypes
  <2>1. told \in BOOLEAN
    BY Zenon DEF ReplyInit
  <2> QED BY <2>1, ReplyConstants DEF ReplyInit, FlowTypes
<1>3. StatusInv
  <2>1. statusMsg \in BOOLEAN /\ ~statusMsg
    BY Zenon DEF ReplyInit
  <2>2. statusPc = [c \in Callers |-> "idle"] /\ statuses = 0 /\ errors = 0 /\ rpcAt = "stream"
    BY DEF ReplyInit
  <2>3. Known = 0
    BY <2>1 DEF Known
  <2>4. StatusTypes
    BY <2>1, <2>2 DEF StatusTypes
  <2>5. StatusLocked
    BY <2>2 DEF StatusLocked
  <2>6. StatusCount /\ StatusOver
    BY <2>2, <2>3 DEF StatusCount, StatusOver
  <2> QED BY <2>4, <2>5, <2>6 DEF StatusInv
<1>4. AnswerInv
  BY DEF ReplyInit, AnswerInv, Sending, AnswerIsComplete
<1>5. SilenceInv
  BY DEF ReplyInit, SilenceInv, Sending
<1> QED BY <1>1, <1>2, <1>3, <1>4, <1>5 DEF ReplyInv

\* An error of Telegram is counted.
LEMMA ApiErrorCounted ==
  ASSUME FlowTypes, ApiError \/ UNCHANGED errors
  PROVE  /\ errors' \in 0..MaxApiErrors /\ errors <= errors' /\ errors \in Nat
         /\ ApiError => errors' # 0 /\ errors' = errors + 1
  BY ReplyConstants DEF FlowTypes, ApiError

\* The steps that leave the texts alone.
LEMMA TextsStay ==
  ASSUME ReplyTexts, UNCHANGED <<answer, voice, got, bubble, streamText, rest, sent>> PROVE ReplyTexts'
  BY DEF ReplyTexts, Weight, Places

\* The count holds on when the messages and the known one stay.
LEMMA CountStays ==
  ASSUME FlowTypes, StatusTypes, StatusCount, UNCHANGED <<statusMsg, statuses>>, ApiError \/ UNCHANGED errors
  PROVE  StatusCount'
<1>1. errors \in Nat /\ errors' \in Nat /\ errors <= errors'
  BY ApiErrorCounted
<1>2. Known' = Known /\ Known \in {0, 1}
  BY DEF Known
<1>3. statuses \in Nat
  BY DEF StatusTypes
<1>4. statuses' = statuses
  OBVIOUS
<1>5. Known <= statuses /\ statuses <= errors + Known
  BY DEF StatusCount
<1>6. ASSUME NEW q \in Nat, NEW n \in Nat, NEW e \in Nat, NEW f \in Nat, q <= n, n <= e + q, e <= f
      PROVE  q <= n /\ n <= f + q
  BY <1>6
<1>7. Known' <= statuses' /\ statuses' <= errors' + Known'
  <2>1. Known \in Nat
    BY <1>2
  <2>2. Known <= statuses /\ statuses <= errors' + Known
    BY <1>1, <1>3, <1>5, <1>6, <2>1
  <2> QED BY <1>2, <1>4, <2>2
<1> QED BY <1>7, Zenon DEF StatusCount

\* The steps that leave the status message alone and do not end the turn.
LEMMA StatusStays ==
  ASSUME FlowTypes, StatusInv, UNCHANGED statusVars, rpcAt' # "end", ApiError \/ UNCHANGED errors
  PROVE  StatusInv'
<1>1. UNCHANGED <<statusPc, statusMsg, statuses>>
  BY DEF statusVars
<1>2. StatusCount'
  BY <1>1, CountStays DEF StatusInv
<1>3. StatusTypes' /\ StatusLocked'
  BY <1>1 DEF StatusInv, StatusTypes, StatusLocked
<1> QED BY <1>2, <1>3 DEF StatusInv, StatusOver

\* A task that starts to wait for the lock, or gives it up.
LEMMA StatusWaits ==
  ASSUME FlowTypes, StatusInv, NEW c \in Callers, NEW pc \in {"idle", "lock"},
         statusPc' = [statusPc EXCEPT ![c] = pc], UNCHANGED <<statusMsg, statuses>>,
         rpcAt' # "end", ApiError \/ UNCHANGED errors
  PROVE  StatusInv'
<1>1. StatusCount'
  BY CountStays DEF StatusInv
<1>2. StatusTypes'
  BY DEF StatusInv, StatusTypes
<1>3. StatusLocked'
  BY DEF StatusInv, StatusTypes, StatusLocked
<1> QED BY <1>1, <1>2, <1>3 DEF StatusInv, StatusOver

\* note_partial shows a prefix of what arrived.
LEMMA NotePartialTypes ==
  ASSUME ReplyTexts, NEW t \in Text, Len(t) <= Len(answer), NotePartial(t)
  PROVE  /\ bubble' \in Text /\ Len(bubble') <= Len(answer)
         /\ streamText' \in Text /\ Len(streamText') <= Len(answer)
         /\ ApiError \/ UNCHANGED errors
<1> DEFINE v == strip(stream_window(t))
<1>0. v \in Text /\ Len(v) <= Len(t) /\ Len(v) \in Nat /\ Len(t) \in Nat /\ Len(answer) \in Nat
  BY WindowText DEF ReplyTexts, Text
<1>1. first_chunk(v) \in Text /\ Len(first_chunk(v)) <= Len(v) /\ Len(first_chunk(v)) \in Nat
  BY <1>0, ChunkFacts DEF Text
<1>2. Len(v) <= Len(answer) /\ Len(first_chunk(v)) <= Len(answer)
  BY <1>0, <1>1
<1>3. \/ UNCHANGED <<bubble, streamText, errors>>
      \/ bubble' = first_chunk(v) /\ streamText' = v /\ UNCHANGED errors
      \/ ApiError /\ UNCHANGED <<bubble, streamText>>
  BY DEF NotePartial
<1> HIDE DEF v
<1> QED BY <1>0, <1>1, <1>2, <1>3 DEF ReplyTexts

\* finalize_stream: what it shows and what it leaves to send.
LEMMA FinalizeTypes ==
  ASSUME ReplyTexts, NEW u \in Text, NEW t \in Text, NEW then, Len(u) <= Len(answer), Len(t) <= Len(answer),
         Finalize(u, t, then)
  PROVE  /\ bubble' \in Text /\ Len(bubble') <= Len(answer)
         /\ streamText' \in Text /\ Len(streamText') <= Len(answer)
         /\ rest' \in Text /\ Len(rest') <= Len(answer)
         /\ rpcAt' = then /\ (ApiError \/ UNCHANGED errors)
<1> DEFINE v == strip(stream_window(u))
           top == first_chunk(v)
           part(c) == strip_committed_prefix(t, c)
<1>0. v \in Text /\ Len(v) <= Len(u) /\ Len(v) \in Nat /\ Len(u) \in Nat /\ Len(answer) \in Nat
      /\ Len(t) \in Nat
  BY WindowText DEF ReplyTexts, Text
<1>1. top \in Text /\ Len(top) <= Len(v) /\ Len(top) \in Nat
  BY <1>0, ChunkFacts DEF Text
<1>2. Len(v) <= Len(answer) /\ Len(top) <= Len(answer)
  BY <1>0, <1>1
<1>3. <<>> \in Text /\ Len(<<>>) <= Len(answer)
  BY <1>0 DEF Text
<1>4. \A c \in {v, <<>>} : part(c) \in Text /\ Len(part(c)) <= Len(answer)
  <2>1. ASSUME NEW c \in Text PROVE part(c) \in Text /\ Len(part(c)) <= Len(answer)
    <3>1. part(c) \in Text /\ Len(part(c)) <= Len(t)
      BY CommittedPrefix
    <3>2. Len(part(c)) \in Nat
      BY <3>1 DEF Text
    <3> HIDE DEF part
    <3> QED BY <1>0, <3>1, <3>2
  <2> QED BY <1>0, <1>3, <2>1
<1>5. /\ rpcAt' = then /\ rest' \in {part(v), part(<<>>)}
      /\ bubble' \in {bubble, <<>>, top} /\ streamText' \in {streamText, <<>>, v}
      /\ ApiError \/ UNCHANGED errors
  BY DEF Finalize
<1> HIDE DEF v, top, part
<1> QED BY <1>1, <1>0, <1>2, <1>3, <1>4, <1>5 DEF ReplyTexts

\* finalize_stream of a whole answer: what it does not show is left to send.
LEMMA FinalizeOwes ==
  ASSUME ReplyTexts, NEW then, Finalize(answer, answer, then)
  PROVE  /\ \/ InkOf(rest') = InkOf(answer)
            \/ /\ bubble' # <<>>
               /\ FitsOneMessage(strip(stream_window(answer))) =>
                     /\ IsPrefix(bubble', strip(answer))
                     /\ InkOf(bubble') + InkOf(rest') = InkOf(answer)
<1> DEFINE v == strip(stream_window(answer))
           top == first_chunk(v)
<1>0. answer \in Text /\ v \in Text /\ stream_window(answer) \in Text
  BY WindowText DEF ReplyTexts
<1>1. CASE rest' = strip_committed_prefix(answer, <<>>)
  BY <1>0, <1>1, CommittedPrefix
<1>2. CASE v # <<>> /\ rest' = strip_committed_prefix(answer, v) /\ bubble' = top
  <2>1. CASE IsPrefix(v, answer)
    <3>1. 1 \in Ink(v) /\ Len(v) \in Ink(v)
      BY <1>0, <1>2, StripInk
    <3>2. /\ IsPrefix(v, strip(answer))
          /\ InkOf(v) + InkOf(SubSeq(answer, Len(v) + 1, Len(answer))) = InkOf(answer)
      BY <1>0, <1>2, <2>1, <3>1, StrippedPrefix
    <3>3. rest' = SubSeq(answer, Len(v) + 1, Len(answer))
      BY <1>2, <2>1 DEF strip_committed_prefix
    <3>4. top # <<>> /\ (Weight(v) <= MessageLimit => top = v)
      BY <1>0, <1>2, ChunkFacts
    <3> HIDE DEF v, top
    <3> QED BY <1>2, <3>2, <3>3, <3>4 DEF FitsOneMessage, v
  <2>2. CASE ~IsPrefix(v, answer)
    BY <1>2, <2>2 DEF strip_committed_prefix
  <2> QED BY <2>1, <2>2
<1>3. \/ rest' = strip_committed_prefix(answer, <<>>)
      \/ v # <<>> /\ rest' = strip_committed_prefix(answer, v) /\ bubble' = top
  BY DEF Finalize
<1> QED BY <1>1, <1>2, <1>3

\* The measures of the texts when the texts stay.
LEMMA InkStays ==
  ASSUME UNCHANGED <<answer, bubble, rest, sent>>
  PROVE  /\ InkSent' = InkSent /\ InkOf(rest)' = InkOf(rest) /\ InkOf(answer)' = InkOf(answer)
         /\ InkOf(bubble)' = InkOf(bubble) /\ strip(answer)' = strip(answer)
         /\ stream_window(answer)' = stream_window(answer)
         /\ strip(stream_window(answer))' = strip(stream_window(answer))
         /\ FitsOneMessage(strip(stream_window(answer)))' <=> FitsOneMessage(strip(stream_window(answer)))
         /\ IsPrefix(bubble, strip(answer))' <=> IsPrefix(bubble, strip(answer))
         /\ Owed => Owed'
<1>1. /\ InkSent' = InkSent /\ InkOf(rest)' = InkOf(rest) /\ InkOf(answer)' = InkOf(answer)
      /\ InkOf(bubble)' = InkOf(bubble) /\ strip(answer)' = strip(answer)
      /\ stream_window(answer)' = stream_window(answer)
      /\ strip(stream_window(answer))' = strip(stream_window(answer))
      /\ FitsOneMessage(strip(stream_window(answer)))' <=> FitsOneMessage(strip(stream_window(answer)))
      /\ IsPrefix(bubble, strip(answer))' <=> IsPrefix(bubble, strip(answer))
  BY DEF InkSent, Seen, InkOf, Ink, Places, strip, stream_window, FitsOneMessage, Weight, IsPrefix, Min, Max
<1> QED BY <1>1 DEF Owed

\* The parts of the answer's invariant when nothing of it moves.
LEMMA AnswerStays ==
  ASSUME AnswerIsComplete, UNCHANGED <<answer, bubble, rest, sent, files, stored>>,
         verdict' = "completed" => verdict = "completed"
  PROVE  AnswerIsComplete' /\ (Owed => Owed')
  BY InkStays DEF AnswerIsComplete

\* FlowTypes, from what a step assigns.
LEMMA FlowKeeps ==
  ASSUME FlowTypes, ApiError \/ UNCHANGED errors,
         stored' \in {stored, "partial", "full"}, told' \in {told, TRUE}, files' \in {files, "held", "sent"},
         rpcAt' \in {rpcAt, "done", "dropped", "stale", "send", "attach", "persist", "warn", "failing", "stop", "end"},
         verdict' \in {verdict, "completed", "failed", "cancelled", "probed"}
  PROVE  FlowTypes'
<1>1. errors' \in 0..MaxApiErrors
  BY ApiErrorCounted
<1>2. told' \in BOOLEAN
  BY Zenon DEF FlowTypes
<1> QED BY <1>1, <1>2 DEF FlowTypes

\* A token of the stream.
LEMMA TokenKeeps == ASSUME ReplyInv, Token PROVE ReplyInv'
<1> USE DEF ReplyInv
<1>0. /\ rpcAt = "stream" /\ got' = got + 1 /\ got < Len(answer)
      /\ UNCHANGED <<answer, voice, rest, sent, stored, told, files, rpcAt, verdict, statusVars>>
      /\ verdict = "none" /\ sent = <<>>
  BY DEF Token, At, AnswerInv
<1>1. got' \in 0..Len(answer) /\ Len(answer) \in Nat
  BY <1>0 DEF ReplyTexts, Text
<1>2. SubSeq(answer, 1, got') \in Text /\ Len(SubSeq(answer, 1, got')) <= Len(answer)
  <2>1. SubSeq(answer, 1, got') \in Text /\ Len(SubSeq(answer, 1, got')) = got'
    BY <1>1, PrefixOf DEF ReplyTexts
  <2> QED BY <1>1, <2>1
<1>3. /\ bubble' \in Text /\ Len(bubble') <= Len(answer)
      /\ streamText' \in Text /\ Len(streamText') <= Len(answer)
      /\ ApiError \/ UNCHANGED errors
  <2>1. CASE voice
    BY <2>1 DEF Token, ReplyTexts
  <2>2. CASE ~voice
    <3>1. NotePartial(SubSeq(answer, 1, got'))
      BY <2>2 DEF Token
    <3> QED BY <1>2, <3>1, NotePartialTypes
  <2> QED BY <2>1, <2>2
<1>4. ReplyTexts'
  BY <1>0, <1>1, <1>3 DEF ReplyTexts, Weight, Places
<1>5. FlowTypes' /\ StatusInv'
  BY <1>0, <1>3, FlowKeeps, StatusStays
<1>6. AnswerInv'
  BY <1>0 DEF AnswerInv, AnswerIsComplete, Sending
<1>7. SilenceInv'
  BY <1>0 DEF SilenceInv, Sending
<1> QED BY <1>4, <1>5, <1>6, <1>7

\* A tool call: the status message is due.
LEMMA ToolEventKeeps == ASSUME ReplyInv, ToolEvent PROVE ReplyInv'
<1> USE DEF ReplyInv
<1>0. /\ rpcAt = "stream" /\ statusPc["stream"] = "idle" /\ files' \in {files, "held"}
      /\ statusPc' = [statusPc EXCEPT !["stream"] = "lock"]
      /\ UNCHANGED <<answer, voice, got, bubble, streamText, rest, sent, stored, told, rpcAt,
                     verdict, statusMsg, statuses, errors>>
      /\ verdict = "none" /\ sent = <<>>
  BY DEF ToolEvent, At, AnswerInv, textVars
<1>1. ReplyTexts' /\ FlowTypes'
  BY <1>0, TextsStay, FlowKeeps
<1>2. StatusInv'
  BY <1>0, StatusWaits DEF Callers
<1>3. AnswerInv' /\ SilenceInv'
  BY <1>0 DEF AnswerInv, AnswerIsComplete, SilenceInv, Sending
<1> QED BY <1>1, <1>2, <1>3

\* The end of the stream.
LEMMA StreamOverKeeps == ASSUME ReplyInv, StreamOver PROVE ReplyInv'
<1> USE DEF ReplyInv
<1>0. /\ rpcAt = "stream" /\ verdict = "none" /\ sent = <<>>
      /\ UNCHANGED <<answer, voice, got, bubble, streamText, rest, sent, stored, files, statusVars>>
  BY DEF StreamOver, At, AnswerInv, textVars
<1>1. \/ /\ rpcAt' \in {"done", "dropped", "stale", "failing"}
         /\ UNCHANGED <<verdict, told, errors>>
      \/ rpcAt' = "stop" /\ verdict' = "failed" /\ told' = TRUE /\ UNCHANGED errors
      \/ rpcAt' = "failing" /\ ApiError /\ UNCHANGED <<verdict, told>>
  BY DEF StreamOver
<1>2. ApiError \/ UNCHANGED errors
  BY <1>1
<1>3. ReplyTexts' /\ FlowTypes' /\ StatusInv'
  BY <1>0, <1>1, <1>2, TextsStay, FlowKeeps, StatusStays
<1>4. AnswerInv'
  BY <1>0, <1>1 DEF AnswerInv, AnswerIsComplete, Sending
<1>5. SilenceInv'
  BY <1>0, <1>1, <1>2, ApiErrorCounted DEF SilenceInv, Sending
<1> QED BY <1>3, <1>4, <1>5

\* The idle probe's verdict: nothing is shown, nothing is owed.
LEMMA ProbeEndsKeeps == ASSUME ReplyInv, ProbeEnds PROVE ReplyInv'
<1> USE DEF ReplyInv
<1>0. /\ rpcAt = "stream" /\ verdict = "none" /\ rpcAt' = "stop" /\ verdict' = "probed"
      /\ UNCHANGED <<answer, voice, got, bubble, streamText, rest, sent, stored, told, files,
                     statusVars, errors>>
  BY DEF ProbeEnds, At, AnswerInv, textVars
<1>1. ReplyTexts' /\ FlowTypes' /\ StatusInv'
  BY <1>0, TextsStay, FlowKeeps, StatusStays
<1>2. AnswerInv' /\ SilenceInv'
  BY <1>0 DEF AnswerInv, AnswerIsComplete, SilenceInv, Sending
<1> QED BY <1>1, <1>2

\* A stale storm: what arrived is stored.
LEMMA StaleKeeps == ASSUME ReplyInv, Stale PROVE ReplyInv'
<1> USE DEF ReplyInv
<1>0. /\ rpcAt = "stale" /\ verdict = "none" /\ rpcAt' \in {"warn", "failing"}
      /\ ApiError \/ UNCHANGED errors
      /\ UNCHANGED <<answer, voice, got, bubble, streamText, rest, sent, told, files, verdict,
                     statusVars>>
  BY DEF Stale, At, AnswerInv, textVars
<1>1. stored' \in {stored, "none", "partial"}
  BY DEF Stale
<1>2. FlowTypes'
  <2>1. errors' \in 0..MaxApiErrors
    BY <1>0, ApiErrorCounted
  <2>2. told' \in BOOLEAN
    BY <1>0 DEF FlowTypes
  <2> QED BY <1>0, <1>1, <2>1, <2>2 DEF FlowTypes
<1>3. ReplyTexts' /\ StatusInv'
  BY <1>0, TextsStay, StatusStays
<1>4. AnswerInv' /\ SilenceInv'
  BY <1>0 DEF AnswerInv, AnswerIsComplete, SilenceInv, Sending
<1> QED BY <1>2, <1>3, <1>4

\* done: the whole answer is shown or left to send, or the turn says it is empty.
LEMMA DoneKeeps == ASSUME ReplyInv, Done PROVE ReplyInv'
<1> USE DEF ReplyInv
<1>0. /\ rpcAt = "done" /\ verdict = "none" /\ sent = <<>>
      /\ UNCHANGED <<answer, voice, got, sent, stored, files, statusVars>>
  BY DEF Done, At, AnswerInv, textVars
<1>t. answer \in Text /\ Len(answer) <= Len(answer) /\ sent \in Seq(Text)
  BY DEF ReplyTexts, Text
<1>1. CASE strip(answer) = <<>> /\ files = "none"
  <2>1. /\ UNCHANGED <<bubble, streamText, rest>>
        /\ \/ told' = TRUE /\ verdict' = "completed" /\ rpcAt' = "stop" /\ UNCHANGED errors
           \/ ApiError /\ rpcAt' = "failing" /\ UNCHANGED <<told, verdict>>
    BY <1>1 DEF Done
  <2>2. ReplyTexts' /\ FlowTypes' /\ StatusInv'
    BY <1>0, <2>1, TextsStay, FlowKeeps, StatusStays
  <2>3. strip(answer)' = <<>>
    BY <1>0, <1>1 DEF strip, Ink, Places, Min, Max
  <2>4. AnswerInv'
    BY <1>0, <2>1, <2>3 DEF AnswerInv, AnswerIsComplete, Sending
  <2>5. SilenceInv'
    BY <2>1, ApiErrorCounted DEF SilenceInv, Sending
  <2> QED BY <2>2, <2>4, <2>5
<1>2. CASE ~(strip(answer) = <<>> /\ files = "none")
  <2>1. Finalize(answer, answer, "send") /\ UNCHANGED <<told, verdict>>
    BY <1>2 DEF Done
  <2>2. /\ bubble' \in Text /\ Len(bubble') <= Len(answer)
        /\ streamText' \in Text /\ Len(streamText') <= Len(answer)
        /\ rest' \in Text /\ Len(rest') <= Len(answer)
        /\ rpcAt' = "send" /\ (ApiError \/ UNCHANGED errors)
    BY <1>t, <2>1, FinalizeTypes
  <2>3. ReplyTexts'
    BY <1>0, <2>2 DEF ReplyTexts, Weight, Places
  <2>4. FlowTypes' /\ StatusInv'
    BY <1>0, <2>1, <2>2, FlowKeeps, StatusStays
  <2>5. \/ InkOf(rest') = InkOf(answer)
        \/ /\ bubble' # <<>>
           /\ FitsOneMessage(strip(stream_window(answer))) =>
                 /\ IsPrefix(bubble', strip(answer))
                 /\ InkOf(bubble') + InkOf(rest') = InkOf(answer)
    BY <2>1, FinalizeOwes
  <2>6. Cardinality(Seen(<<>>)) = 0
    <3>1. Seen(<<>>) = {}
      BY DEF Seen
    <3> QED BY <3>1, FS_EmptySet
  <2>7. InkOf(rest') \in Nat /\ InkOf(bubble') \in Nat /\ InkOf(answer) \in Nat
    BY <1>t, <2>2, InkIsNat
  <2>8. FitsOneMessage(strip(stream_window(answer))) =>
           \/ 0 + InkOf(rest') = InkOf(answer)
           \/ IsPrefix(bubble', strip(answer)) /\ InkOf(bubble') + 0 + InkOf(rest') >= InkOf(answer)
    BY <2>5, <2>7
  <2>9. FitsOneMessage(strip(stream_window(answer))) => Owed'
    BY <1>0, <2>6, <2>8 DEF Owed, InkSent
  <2>10. AnswerInv'
    BY <1>0, <2>1, <2>2, <2>9 DEF AnswerInv, AnswerIsComplete, Sending
  <2>11. bubble' # <<>> \/ InkOf(rest') # 0 \/ files # "none"
    <3>1. CASE strip(answer) # <<>>
      BY <1>t, <2>5, <3>1, StripInk
    <3> QED BY <1>2, <3>1
  <2>12. SilenceInv'
    BY <1>0, <2>2, <2>11 DEF SilenceInv, Sending
  <2> QED BY <2>3, <2>4, <2>10, <2>12
<1> QED BY <1>1, <1>2

\* A dropped stream keeps what arrived.
LEMMA DroppedKeeps == ASSUME ReplyInv, Dropped PROVE ReplyInv'
<1> USE DEF ReplyInv
<1>0. /\ rpcAt = "dropped" /\ verdict = "none" /\ sent = <<>> /\ verdict' = "failed"
      /\ UNCHANGED <<answer, voice, got, sent, stored, files, statusVars>>
  BY DEF Dropped, At, AnswerInv, textVars
<1> DEFINE u == SubSeq(answer, 1, got)
<1>t. u \in Text /\ Len(u) <= Len(answer) /\ strip(u) \in Text /\ Len(strip(u)) <= Len(answer)
  <2>1. answer \in Text /\ got \in 0..Len(answer) /\ Len(answer) \in Nat
    BY DEF ReplyTexts, Text
  <2>2. u \in Text /\ Len(u) = got
    BY <2>1, PrefixOf
  <2> HIDE DEF u
  <2>3. strip(u) \in Text /\ Len(strip(u)) <= Len(u) /\ Len(strip(u)) \in Nat
    BY <2>2, StripInk DEF Text
  <2> QED BY <2>1, <2>2, <2>3
<1>1. CASE /\ UNCHANGED <<bubble, streamText, rest>>
           /\ \/ told' = TRUE /\ rpcAt' = "stop" /\ UNCHANGED errors
              \/ ApiError /\ rpcAt' = "failing" /\ UNCHANGED told
  <2>2. ReplyTexts' /\ FlowTypes' /\ StatusInv'
    BY <1>0, <1>1, TextsStay, FlowKeeps, StatusStays
  <2>4. AnswerInv'
    BY <1>0, <1>1 DEF AnswerInv, AnswerIsComplete, Sending
  <2>5. SilenceInv'
    BY <1>1, ApiErrorCounted DEF SilenceInv, Sending
  <2> QED BY <2>2, <2>4, <2>5
<1>2. CASE Finalize(u, strip(u), "send") /\ UNCHANGED told
  <2>2. /\ bubble' \in Text /\ Len(bubble') <= Len(answer)
        /\ streamText' \in Text /\ Len(streamText') <= Len(answer)
        /\ rest' \in Text /\ Len(rest') <= Len(answer)
        /\ rpcAt' = "send" /\ (ApiError \/ UNCHANGED errors)
    BY <1>2, <1>t, FinalizeTypes
  <2>3. ReplyTexts'
    BY <1>0, <2>2 DEF ReplyTexts, Weight, Places
  <2>4. FlowTypes' /\ StatusInv'
    BY <1>0, <1>2, <2>2, FlowKeeps, StatusStays
  <2>5. AnswerInv' /\ SilenceInv'
    BY <1>0, <2>2 DEF AnswerInv, AnswerIsComplete, SilenceInv, Sending
  <2> QED BY <2>3, <2>4, <2>5
<1> QED BY <1>1, <1>2 DEF Dropped

\* send_text: a chunk moves its ink from what is left to what is sent.
LEMMA SendKeeps == ASSUME ReplyInv, Send PROVE ReplyInv'
<1> USE DEF ReplyInv
<1>0. /\ rpcAt = "send" /\ verdict \in {"none", "failed"}
      /\ UNCHANGED <<answer, voice, got, bubble, streamText, stored, told, files, verdict, statusVars>>
  BY DEF Send, At, AnswerInv, textVars, Sending
<1> DEFINE s == strip(rest)
           chunk == first_chunk(s)
           over == SubSeq(s, Len(chunk) + 1, Len(s))
<1>t. /\ rest \in Text /\ Len(rest) \in Nat /\ Len(answer) \in Nat /\ Len(rest) <= Len(answer)
      /\ sent \in Seq(Text) /\ \A i \in DOMAIN sent : Len(sent[i]) <= Len(answer)
  BY DEF ReplyTexts, Text
<1>s. /\ s \in Text /\ Len(s) <= Len(rest) /\ Len(s) \in Nat /\ InkOf(s) = InkOf(rest)
      /\ InkOf(rest) \in Nat /\ (s = <<>> <=> InkOf(rest) = 0)
  BY <1>t, StripInk DEF Text
<1>c. /\ chunk \in Text /\ Len(chunk) <= Len(s) /\ Weight(chunk) <= MessageLimit
      /\ s # <<>> => chunk # <<>>
      /\ over \in Text /\ Len(over) <= Len(s) /\ InkOf(chunk) + InkOf(over) = InkOf(s)
  BY <1>s, ChunkFacts
<1>n. Len(chunk) <= Len(answer) /\ Len(over) <= Len(answer)
  <2>1. Len(chunk) \in Nat /\ Len(over) \in Nat
    BY <1>c DEF Text
  <2> HIDE DEF s, chunk, over
  <2> QED BY <1>t, <1>s, <1>c, <2>1
<1>w. ASSUME NEW w \in Text, NEW q \in Text, w # <<>>, Len(w) <= Len(answer), Len(q) <= Len(answer),
             voice \/ Weight(w) <= MessageLimit, InkOf(w) + InkOf(q) = InkOf(rest),
             sent' = Append(sent, w), rest' = q, UNCHANGED <<rpcAt, errors>>
      PROVE  ReplyInv'
  <2>1. ReplyTexts'
    <3>1. /\ sent' \in Seq(Text) /\ Len(sent) \in Nat /\ DOMAIN sent' = 1..(Len(sent) + 1)
          /\ DOMAIN sent = 1..Len(sent) /\ sent'[Len(sent) + 1] = w
          /\ \A i \in 1..Len(sent) : sent'[i] = sent[i]
      BY <1>t, <1>w
    <3>2. ASSUME NEW i \in DOMAIN sent'
          PROVE  sent'[i] # <<>> /\ Len(sent'[i]) <= Len(answer) /\ (voice \/ Weight(sent'[i]) <= MessageLimit)
      <4>1. CASE i = Len(sent) + 1
        BY <1>w, <3>1, <4>1
      <4>2. CASE i # Len(sent) + 1
        <5>1. i \in 1..Len(sent)
          BY <3>1, <4>2
        <5> QED BY <3>1, <5>1 DEF ReplyTexts
      <4> QED BY <4>1, <4>2
    <3> QED BY <1>0, <1>w, <3>1, <3>2 DEF ReplyTexts, Weight, Places
  <2>2. FlowTypes' /\ StatusInv'
    BY <1>0, <1>w, FlowKeeps, StatusStays
  <2>3. InkSent' = InkSent + InkOf(w) /\ InkSent \in Nat
    BY <1>t, <1>w, SeenGrows DEF InkSent
  <2>4. InkOf(w) \in Nat /\ InkOf(q) \in Nat /\ InkOf(answer) \in Nat /\ InkOf(bubble) \in Nat
    BY <1>w, InkIsNat DEF ReplyTexts
  <2>5. /\ InkSent' + InkOf(q) = InkSent + InkOf(rest)
        /\ InkOf(bubble) + InkSent' + InkOf(q) = InkOf(bubble) + InkSent + InkOf(rest)
    BY <1>s, <1>w, <2>3, <2>4
  <2>6. Owed => Owed'
    BY <1>0, <1>w, <2>5 DEF Owed
  <2>7. AnswerInv'
    BY <1>0, <1>w, <2>6 DEF AnswerInv, AnswerIsComplete, Sending
  <2>8. sent' # <<>>
    BY <1>t, <1>w
  <2>9. SilenceInv'
    BY <1>0, <1>w, <2>8 DEF SilenceInv, Sending
  <2> QED BY <2>1, <2>2, <2>7, <2>9
<1>1. CASE s = <<>> /\ rpcAt' = "attach" /\ UNCHANGED <<rest, sent, errors>>
  <2>1. ReplyTexts' /\ FlowTypes' /\ StatusInv'
    BY <1>0, <1>1, TextsStay, FlowKeeps, StatusStays
  <2>2. InkOf(rest) = 0
    BY <1>1, <1>s
  <2>3. AnswerInv'
    BY <1>0, <1>1, <2>2, AnswerStays DEF AnswerInv, Sending
  <2>4. SilenceInv'
    BY <1>0, <1>1 DEF SilenceInv, Sending
  <2> QED BY <2>1, <2>3, <2>4
<1>2. CASE s # <<>> /\ voice /\ sent = <<>> /\ rest' = <<>> /\ sent' = <<rest>> /\ UNCHANGED <<rpcAt, errors>>
  <2>1. sent' = Append(sent, rest)
    BY <1>2
  <2>2. rest # <<>>
    <3>1. InkOf(rest) # 0
      BY <1>2, <1>s
    <3> QED BY <3>1, InkIsNat
  <2>3. <<>> \in Text /\ Len(<<>>) <= Len(answer) /\ InkOf(rest) + InkOf(<<>>) = InkOf(rest)
    BY <1>t, <1>s, InkIsNat
  <2> HIDE DEF s
  <2> QED BY <1>2, <1>t, <1>w, <2>1, <2>2, <2>3
<1>3. CASE s # <<>> /\ sent' = Append(sent, chunk) /\ rest' = over /\ UNCHANGED <<rpcAt, errors>>
  <2>1. InkOf(chunk) + InkOf(over) = InkOf(rest) /\ chunk # <<>>
    BY <1>3, <1>s, <1>c
  <2> HIDE DEF chunk, over, s
  <2> QED BY <1>3, <1>c, <1>n, <1>w, <2>1
<1>4. CASE ApiError /\ rpcAt' = "failing" /\ UNCHANGED <<rest, sent>>
  <2>1. ReplyTexts' /\ FlowTypes' /\ StatusInv'
    BY <1>0, <1>4, TextsStay, FlowKeeps, StatusStays
  <2>2. AnswerInv' /\ SilenceInv'
    BY <1>0, <1>4 DEF AnswerInv, AnswerIsComplete, SilenceInv, Sending
  <2> QED BY <2>1, <2>2
<1>5. \/ s = <<>> /\ rpcAt' = "attach" /\ UNCHANGED <<rest, sent, errors>>
      \/ s # <<>> /\ voice /\ sent = <<>> /\ rest' = <<>> /\ sent' = <<rest>> /\ UNCHANGED <<rpcAt, errors>>
      \/ s # <<>> /\ sent' = Append(sent, chunk) /\ rest' = over /\ UNCHANGED <<rpcAt, errors>>
      \/ ApiError /\ rpcAt' = "failing" /\ UNCHANGED <<rest, sent>>
  BY DEF Send
<1> QED BY <1>1, <1>2, <1>3, <1>4, <1>5

\* The files.
LEMMA AttachKeeps == ASSUME ReplyInv, Attach PROVE ReplyInv'
<1> USE DEF ReplyInv
<1>0. /\ rpcAt = "attach" /\ verdict \in {"none", "failed"}
      /\ UNCHANGED <<answer, voice, got, bubble, streamText, rest, sent, stored, told, verdict, statusVars>>
  BY DEF Attach, At, AnswerInv, textVars, Sending
<1>1. CASE /\ files' = (IF files = "held" THEN "sent" ELSE files)
           /\ rpcAt' = "persist" /\ UNCHANGED errors
  <2>1. files' \in {files, "sent"} /\ files' # "held"
    BY <1>1
  <2>2. ReplyTexts' /\ FlowTypes' /\ StatusInv'
    BY <1>0, <1>1, <2>1, TextsStay, FlowKeeps, StatusStays
  <2>3. Owed => Owed'
    BY <1>0, InkStays
  <2>4. AnswerInv'
    BY <1>0, <1>1, <2>1, <2>3 DEF AnswerInv, AnswerIsComplete, Sending
  <2>5. SilenceInv'
    BY <1>0, <1>1, <2>1 DEF SilenceInv, Sending
  <2> QED BY <2>2, <2>4, <2>5
<1>2. CASE ApiError /\ rpcAt' = "failing" /\ UNCHANGED files
  <2>1. ReplyTexts' /\ FlowTypes' /\ StatusInv'
    BY <1>0, <1>2, TextsStay, FlowKeeps, StatusStays
  <2>2. AnswerInv' /\ SilenceInv'
    BY <1>0, <1>2 DEF AnswerInv, AnswerIsComplete, SilenceInv, Sending
  <2> QED BY <2>1, <2>2
<1> QED BY <1>1, <1>2 DEF Attach

\* The row: by now all ink is sent, and so are the files.
LEMMA PersistKeeps == ASSUME ReplyInv, Persist PROVE ReplyInv'
<1> USE DEF ReplyInv
<1>0. /\ rpcAt = "persist" /\ verdict \in {"none", "failed"} /\ files # "held" /\ InkOf(rest) = 0
      /\ UNCHANGED <<answer, voice, got, bubble, streamText, rest, sent, told, files, statusVars>>
  BY DEF Persist, At, AnswerInv, textVars, Sending
<1>1. CASE /\ verdict = "none" /\ stored' = "full" /\ rpcAt' = "stop" /\ verdict' = "completed"
           /\ UNCHANGED errors
  <2>1. ReplyTexts' /\ FlowTypes' /\ StatusInv'
    BY <1>0, <1>1, TextsStay, FlowKeeps, StatusStays
  <2>2. FitsOneMessage(strip(stream_window(answer))) =>
           \/ InkSent = InkOf(answer)
           \/ IsPrefix(bubble, strip(answer)) /\ InkOf(bubble) + InkSent >= InkOf(answer)
    <3>1. InkSent \in Nat /\ InkOf(bubble) \in Nat /\ InkOf(answer) \in Nat
      <4>1. sent \in Seq(Text) /\ Len(answer) \in Nat /\ \A i \in DOMAIN sent : Len(sent[i]) <= Len(answer)
        BY DEF ReplyTexts, Text
      <4> QED BY <4>1, SeenGrows, InkIsNat DEF InkSent, ReplyTexts
    <3>2. FitsOneMessage(strip(stream_window(answer))) =>
            \/ InkSent + 0 = InkOf(answer)
            \/ IsPrefix(bubble, strip(answer)) /\ InkOf(bubble) + InkSent + 0 >= InkOf(answer)
      BY <1>0, <1>1 DEF AnswerInv, Owed, Sending
    <3> QED BY <3>1, <3>2
  <2>3. AnswerIsComplete'
    BY <1>0, <1>1, <2>2 DEF AnswerIsComplete, InkSent
  <2>4. AnswerInv'
    BY <1>0, <1>1, <2>3 DEF AnswerInv, Sending
  <2>5. SilenceInv'
    BY <1>0, <1>1 DEF SilenceInv, Sending, FlowTypes
  <2> QED BY <2>1, <2>4, <2>5
<1>2. CASE /\ verdict = "failed" /\ stored' = "partial" /\ rpcAt' = "warn" /\ verdict' = "failed"
           /\ UNCHANGED errors
  <2>1. ReplyTexts' /\ FlowTypes' /\ StatusInv'
    BY <1>0, <1>2, TextsStay, FlowKeeps, StatusStays
  <2>2. AnswerInv' /\ SilenceInv'
    BY <1>0, <1>2 DEF AnswerInv, AnswerIsComplete, SilenceInv, Sending
  <2> QED BY <2>1, <2>2
<1>3. CASE ApiError /\ rpcAt' = "failing" /\ UNCHANGED <<stored, verdict>>
  <2>1. ReplyTexts' /\ FlowTypes' /\ StatusInv'
    BY <1>0, <1>3, TextsStay, FlowKeeps, StatusStays
  <2>2. AnswerInv' /\ SilenceInv'
    BY <1>0, <1>3 DEF AnswerInv, AnswerIsComplete, SilenceInv, Sending
  <2> QED BY <2>1, <2>2
<1> QED BY <1>0, <1>1, <1>2, <1>3 DEF Persist

\* The note under a dropped or failed answer.
LEMMA WarnKeeps == ASSUME ReplyInv, Warn PROVE ReplyInv'
<1> USE DEF ReplyInv
<1>0. /\ rpcAt \in {"warn", "failing"} /\ verdict' = "failed"
      /\ \/ told' = TRUE /\ rpcAt' = "stop" /\ UNCHANGED errors
         \/ ApiError /\ rpcAt' \in {"failing", "stop"} /\ UNCHANGED told
      /\ UNCHANGED <<answer, voice, got, bubble, streamText, rest, sent, stored, files, statusVars>>
  BY DEF Warn, At, textVars
<1>1. ReplyTexts' /\ FlowTypes' /\ StatusInv'
  BY <1>0, TextsStay, FlowKeeps, StatusStays
<1>2. AnswerInv'
  BY <1>0 DEF AnswerInv, AnswerIsComplete, Sending
<1>3. SilenceInv'
  BY <1>0, ApiErrorCounted DEF SilenceInv, Sending
<1> QED BY <1>1, <1>2, <1>3

\* Stop, at whatever await.
LEMMA StoppedKeeps == ASSUME ReplyInv, Stopped PROVE ReplyInv'
<1> USE DEF ReplyInv
<1>0. /\ ApiError /\ verdict' = "cancelled" /\ rpcAt' = "stop"
      /\ statusPc' = [statusPc EXCEPT !["stream"] = "idle"]
      /\ UNCHANGED <<answer, voice, got, bubble, streamText, rest, sent, stored, told, files, statusMsg>>
      /\ UNCHANGED statuses \/ (statusPc["stream"] = "send" /\ statuses' = statuses + 1)
  BY DEF Stopped, textVars
<1>1. ReplyTexts' /\ FlowTypes'
  BY <1>0, TextsStay, FlowKeeps
<1>2. StatusInv'
  <2>1. CASE UNCHANGED statuses
    BY <1>0, <2>1, StatusWaits DEF Callers
  <2>2. CASE statusPc["stream"] = "send" /\ statuses' = statuses + 1
    <3>1. errors \in Nat /\ errors' = errors + 1
      BY <1>0, ApiErrorCounted
    <3>2. Known' = Known /\ Known \in Nat /\ statuses \in Nat
      BY <1>0 DEF Known, StatusInv, StatusTypes
    <3>3. StatusCount'
      BY <2>2, <3>1, <3>2 DEF StatusInv, StatusCount
    <3>4. StatusTypes'
      BY <1>0, <2>2 DEF StatusInv, StatusTypes, Callers
    <3>5. StatusLocked'
      BY <1>0 DEF StatusInv, StatusTypes, StatusLocked, Callers
    <3> QED BY <1>0, <3>3, <3>4, <3>5 DEF StatusInv, StatusOver
  <2> QED BY <1>0, <2>1, <2>2
<1>3. AnswerInv'
  BY <1>0 DEF AnswerInv, AnswerIsComplete, Sending
<1>4. SilenceInv'
  BY <1>0, ApiErrorCounted DEF SilenceInv, Sending
<1> QED BY <1>1, <1>2, <1>3, <1>4

\* What the status message's own steps leave alone.
LEMMA ReplyStays ==
  ASSUME ReplyInv, ApiError \/ UNCHANGED errors,
         UNCHANGED <<answer, voice, got, bubble, streamText, rest, sent, stored, told, files, verdict>>,
         rpcAt' = rpcAt \/ (rpcAt = "stop" /\ rpcAt' = "end")
  PROVE  ReplyTexts' /\ FlowTypes' /\ AnswerInv' /\ SilenceInv'
<1> USE DEF ReplyInv
<1>1. ReplyTexts' /\ FlowTypes'
  BY TextsStay, FlowKeeps
<1>2. AnswerInv'
  BY InkStays, AnswerStays DEF AnswerInv, Sending
<1>3. InkOf(rest)' = InkOf(rest)
  BY InkStays
<1>4. errors' = 0 => errors = 0
  BY ApiErrorCounted DEF FlowTypes
<1>5. SilenceInv'
  BY <1>3, <1>4 DEF SilenceInv, Sending
<1> QED BY <1>1, <1>2, <1>5

\* The ticker wakes up.
LEMMA StatusTickKeeps == ASSUME ReplyInv, StatusTick PROVE ReplyInv'
<1> USE DEF ReplyInv
<1>0. /\ rpcAt # "end" /\ statusPc' = [statusPc EXCEPT !["ticker"] = "lock"]
      /\ UNCHANGED <<answer, voice, got, bubble, streamText, rest, sent, stored, told, files,
                     rpcAt, verdict, statusMsg, statuses, errors>>
  BY DEF StatusTick, textVars
<1>1. StatusInv'
  BY <1>0, StatusWaits DEF Callers
<1>2. ReplyTexts' /\ FlowTypes' /\ AnswerInv' /\ SilenceInv'
  BY <1>0, ReplyStays
<1> QED BY <1>1, <1>2

\* The lock is taken by one task, or not at all.
LEMMA StatusLockKeeps == ASSUME ReplyInv, NEW c \in Callers, StatusLock(c) PROVE ReplyInv'
<1> USE DEF ReplyInv
<1>0. /\ statusPc[c] = "lock"
      /\ UNCHANGED <<answer, voice, got, bubble, streamText, rest, sent, stored, told, files,
                     rpcAt, verdict, statusMsg, statuses, errors>>
  BY DEF StatusLock, textVars
<1>1. ReplyTexts' /\ FlowTypes' /\ AnswerInv' /\ SilenceInv'
  BY <1>0, ReplyStays
<1>e. rpcAt # "end"
  BY <1>0 DEF StatusInv, StatusOver, Callers
<1>2. CASE statusPc' = [statusPc EXCEPT ![c] = "idle"]
  BY <1>0, <1>1, <1>2, <1>e, StatusWaits
<1>3. CASE /\ \A d \in Callers : statusPc[d] \notin {"send", "edit"}
           /\ statusPc' = [statusPc EXCEPT ![c] = IF statusMsg THEN "edit" ELSE "send"]
  <2>1. StatusCount'
    BY <1>0, CountStays DEF StatusInv
  <2>2. StatusTypes'
    BY <1>0, <1>3 DEF StatusInv, StatusTypes
  <2>3. ASSUME NEW d \in Callers, statusPc'[d] \in {"send", "edit"}
        PROVE  d = c /\ (statusPc'[d] = "send" => ~statusMsg) /\ (statusPc'[d] = "edit" => statusMsg)
    <3>1. d = c
      BY <1>3, <2>3 DEF StatusInv, StatusTypes
    <3>2. statusPc'[c] = IF statusMsg THEN "edit" ELSE "send"
      BY <1>3 DEF StatusInv, StatusTypes
    <3> QED BY <3>1, <3>2
  <2>4. StatusLocked'
    BY <1>0, <2>3 DEF StatusLocked
  <2> QED BY <1>0, <1>1, <1>e, <2>1, <2>2, <2>4 DEF StatusInv, StatusOver
<1> QED BY <1>2, <1>3 DEF StatusLock

\* The holder's call, answered, lost, or carried out and reported as lost.
LEMMA StatusCallKeeps == ASSUME ReplyInv, NEW c \in Callers, StatusCall(c) PROVE ReplyInv'
<1> USE DEF ReplyInv
<1> DEFINE new == IF statusPc[c] = "send" THEN 1 ELSE 0
<1>0. /\ statusPc[c] \in {"send", "edit"} /\ statusPc' = [statusPc EXCEPT ![c] = "idle"]
      /\ UNCHANGED <<answer, voice, got, bubble, streamText, rest, sent, stored, told, files, rpcAt, verdict>>
      /\ \/ statusMsg' = TRUE /\ statuses' = statuses + new /\ UNCHANGED errors
         \/ ApiError /\ statuses' \in {statuses, statuses + new} /\ UNCHANGED statusMsg
  BY DEF StatusCall, textVars
<1>1. ReplyTexts' /\ FlowTypes' /\ AnswerInv' /\ SilenceInv'
  BY <1>0, ReplyStays
<1>e. rpcAt # "end"
  BY <1>0 DEF StatusInv, StatusOver, Callers
<1>n. new + Known = 1 /\ new \in Nat /\ Known \in Nat /\ statuses \in Nat
  <2>1. statuses \in Nat
    BY DEF StatusInv, StatusTypes
  <2>2. CASE statusPc[c] = "send"
    <3>1. ~statusMsg
      BY <2>2 DEF StatusInv, StatusLocked
    <3> QED BY <2>1, <2>2, <3>1 DEF Known
  <2>3. CASE statusPc[c] = "edit"
    <3>1. statusMsg
      BY <2>3 DEF StatusInv, StatusLocked
    <3> QED BY <2>1, <2>3, <3>1 DEF Known
  <2> QED BY <1>0, <2>2, <2>3
<1> HIDE DEF new
<1>2. StatusCount'
  <2>1. CASE statusMsg' = TRUE /\ statuses' = statuses + new /\ UNCHANGED errors
    <3>1. Known' = 1
      BY <2>1 DEF Known
    <3>2. statuses' = statuses + new /\ errors' = errors /\ errors \in Nat
      BY <2>1 DEF FlowTypes
    <3> QED BY <1>n, <3>1, <3>2 DEF StatusInv, StatusCount
  <2>2. CASE ApiError /\ statuses' \in {statuses, statuses + new} /\ UNCHANGED statusMsg
    <3>1. Known' = Known
      BY <2>2 DEF Known
    <3>2. errors' = errors + 1 /\ errors \in Nat
      BY <2>2, ApiErrorCounted
    <3>3. statuses' = statuses \/ statuses' = statuses + new
      BY <2>2
    <3> QED BY <1>n, <3>1, <3>2, <3>3 DEF StatusInv, StatusCount
  <2> QED BY <1>0, <2>1, <2>2
<1>3. StatusTypes'
  <2>1. statusMsg' \in BOOLEAN
    BY <1>0, Zenon DEF StatusInv, StatusTypes
  <2>2. statuses' \in Nat
    BY <1>0, <1>n
  <2>3. statusPc' \in [Callers -> {"idle", "lock", "send", "edit", "gone"}]
    BY <1>0 DEF StatusInv, StatusTypes
  <2> QED BY <2>1, <2>2, <2>3 DEF StatusTypes
<1>4. StatusLocked'
  <2>1. \A d \in Callers : statusPc'[d] \notin {"send", "edit"}
    BY <1>0 DEF StatusInv, StatusTypes, StatusLocked
  <2> QED BY <2>1 DEF StatusLocked
<1> QED BY <1>0, <1>1, <1>e, <1>2, <1>3, <1>4 DEF StatusInv, StatusOver

\* progress.stop(): the message that is known goes.
LEMMA StopProgressKeeps == ASSUME ReplyInv, StopProgress PROVE ReplyInv'
<1> USE DEF ReplyInv
<1> DEFINE over == IF statusMsg THEN statuses - 1 ELSE statuses
<1>0. /\ rpcAt = "stop" /\ statusPc["stream"] = "idle" /\ rpcAt' = "end"
      /\ statusPc' = [statusPc EXCEPT !["ticker"] = "gone"] /\ statusMsg' = FALSE
      /\ UNCHANGED <<answer, voice, got, bubble, streamText, rest, sent, stored, told, files, verdict>>
      /\ \/ statuses' = over /\ UNCHANGED errors
         \/ statusPc["ticker"] = "send" /\ ApiError /\ statuses' = over + 1
         \/ statusMsg /\ ApiError /\ UNCHANGED statuses
  BY DEF StopProgress, At, textVars
<1>1. ReplyTexts' /\ FlowTypes' /\ AnswerInv' /\ SilenceInv'
  BY <1>0, ReplyStays
<1>n. over = statuses - Known /\ Known \in {0, 1} /\ statuses \in Nat /\ errors \in Nat
  BY ReplyConstants DEF Known, StatusInv, StatusTypes, FlowTypes
<1> HIDE DEF over
<1>k. Known' = 0
  BY <1>0 DEF Known
<1>c. Known <= statuses /\ statuses <= errors + Known
  BY DEF StatusInv, StatusCount
<1>2. statuses' \in Nat /\ statuses' <= errors'
  <2>1. CASE statuses' = over /\ UNCHANGED errors
    BY <1>n, <1>c, <2>1
  <2>2. CASE ApiError /\ statuses' = over + 1
    <3>1. errors' = errors + 1
      BY <2>2, ApiErrorCounted
    <3> QED BY <1>n, <1>c, <2>2, <3>1
  <2>3. CASE ApiError /\ UNCHANGED statuses
    <3>1. errors' = errors + 1
      BY <2>3, ApiErrorCounted
    <3> QED BY <1>n, <1>c, <2>3, <3>1
  <2> QED BY <1>0, <2>1, <2>2, <2>3
<1>3. StatusCount'
  <2>1. errors' \in 0..MaxApiErrors
    BY <1>1 DEF FlowTypes
  <2>2. errors' \in Nat
    BY <2>1
  <2>3. \A n, e \in Nat : n <= e => 0 <= n /\ n <= e + 0
    OBVIOUS
  <2>5. 0 <= statuses' /\ statuses' <= errors' + 0
    BY <1>2, <2>2, <2>3
  <2>4. Known' <= statuses' /\ statuses' <= errors' + Known'
    BY <1>k, <2>5
  <2> QED BY <2>4, Zenon DEF StatusCount
<1>4. StatusTypes'
  <2>1. statusMsg' \in BOOLEAN
    BY <1>0, Zenon
  <2>2. statusPc' \in [Callers -> {"idle", "lock", "send", "edit", "gone"}]
    BY <1>0 DEF StatusInv, StatusTypes
  <2> QED BY <1>2, <2>1, <2>2 DEF StatusTypes
<1>5. statusPc'["stream"] = "idle" /\ statusPc'["ticker"] = "gone"
  BY <1>0 DEF StatusInv, StatusTypes, Callers
<1>6. StatusLocked'
  BY <1>5 DEF StatusLocked, Callers
<1> QED BY <1>0, <1>1, <1>3, <1>4, <1>5, <1>6 DEF StatusInv, StatusOver

\* Every step keeps the invariant.
LEMMA ReplyInvNext == ReplyInv /\ [ReplyNext]_replyVars => ReplyInv'
<1> SUFFICES ASSUME ReplyInv, [ReplyNext]_replyVars PROVE ReplyInv'
  OBVIOUS
<1>1. CASE ReplyNext
  <2>1. CASE \E c \in Callers : StatusLock(c) \/ StatusCall(c)
    BY <2>1, StatusLockKeeps, StatusCallKeeps
  <2> QED BY <1>1, <2>1, TokenKeeps, ToolEventKeeps, StreamOverKeeps, ProbeEndsKeeps, StaleKeeps, DoneKeeps, DroppedKeeps, SendKeeps,
             AttachKeeps, PersistKeeps, WarnKeeps, StoppedKeeps, StatusTickKeeps, StopProgressKeeps
             DEF ReplyNext, ReplyStep
<1>2. CASE UNCHANGED replyVars
  <2>1. /\ UNCHANGED <<answer, voice, got, bubble, streamText, rest, sent, stored, told, files, verdict>>
        /\ rpcAt' = rpcAt /\ UNCHANGED errors /\ UNCHANGED <<statusPc, statusMsg, statuses>>
    BY <1>2 DEF replyVars
  <2>2. ReplyTexts' /\ FlowTypes' /\ AnswerInv' /\ SilenceInv'
    BY <2>1, ReplyStays
  <2>3. StatusCount'
    BY <2>1, CountStays DEF ReplyInv, StatusInv
  <2>4. StatusTypes' /\ StatusLocked' /\ StatusOver'
    BY <2>1 DEF ReplyInv, StatusInv, StatusTypes, StatusLocked, StatusOver
  <2> QED BY <2>2, <2>3, <2>4 DEF ReplyInv, StatusInv
<1> QED BY <1>1, <1>2

\* ReplyInv holds throughout a reply.
LEMMA ReplyAlways == ReplySpec => []ReplyInv
<1> QED BY ReplyInvInit, ReplyInvNext, PTL DEF ReplySpec

\* The types, from the invariant: the lost calls bound the status messages.
LEMMA ReplyTypes == ReplyInv => ReplyTypeOK
<1> SUFFICES ASSUME ReplyInv PROVE ReplyTypeOK
  OBVIOUS
<1> USE DEF ReplyInv
<1>1. statuses \in 0..(MaxApiErrors + 1)
  <2>1. Known \in {0, 1} /\ statuses \in Nat /\ errors \in 0..MaxApiErrors /\ MaxApiErrors \in Nat
    BY ReplyConstants DEF Known, StatusInv, StatusTypes, FlowTypes
  <2>2. statuses <= errors + Known
    BY DEF StatusInv, StatusCount
  <2> QED BY <2>1, <2>2
<1>2. {told, statusMsg} \subseteq BOOLEAN
  <2>1. told \in BOOLEAN /\ statusMsg \in BOOLEAN
    BY DEF FlowTypes, StatusInv, StatusTypes
  <2> QED BY <2>1, Zenon
<1>3. /\ stored \in {"none", "partial", "full"} /\ files \in {"none", "held", "sent"}
      /\ rpcAt \in {"stream", "done", "dropped", "stale", "send", "attach", "persist",
                    "warn", "failing", "stop", "end"}
      /\ verdict \in {"none", "completed", "failed", "cancelled", "probed"} /\ errors \in 0..MaxApiErrors
      /\ statusPc \in [Callers -> {"idle", "lock", "send", "edit", "gone"}]
  BY DEF FlowTypes, StatusInv, StatusTypes
<1>4. answer \in Answers /\ voice \in BOOLEAN /\ got \in 0..Len(answer)
  BY DEF ReplyTexts
<1>5. \A s \in {bubble, streamText, rest} : Len(s) <= Len(answer)
  BY DEF ReplyTexts
<1>6. \A i \in DOMAIN sent : sent[i] # <<>> /\ (voice \/ Weight(sent[i]) <= MessageLimit)
  BY DEF ReplyTexts
<1> QED BY <1>1, <1>2, <1>3, <1>4, <1>5, <1>6, Zenon DEF ReplyTypeOK

\* What the user is owed, from the invariant.
LEMMA ReplyOwed == ReplyInv => ReplyIsDelivered
<1> SUFFICES ASSUME ReplyInv PROVE ReplyIsDelivered
  OBVIOUS
<1> USE DEF ReplyInv
<1>1. AnswerIsComplete
  BY DEF AnswerInv
<1>2. NeverSilent
  BY DEF SilenceInv, NeverSilent
<1>3. OneStatusMessage
  <2> SUFFICES ASSUME errors = 0
      PROVE statuses <= 1 /\ (statuses = 1 <=> statusMsg) /\ (rpcAt = "end" => statuses = 0)
    BY DEF OneStatusMessage
  <2>1. statuses = Known
    <3>1. Known \in {0, 1} /\ statuses \in Nat
      BY DEF Known, StatusInv, StatusTypes
    <3>2. Known <= statuses /\ statuses <= 0 + Known
      BY DEF StatusInv, StatusCount
    <3> QED BY <3>1, <3>2
  <2>2. CASE statusMsg
    <3>1. statuses = 1 /\ rpcAt # "end"
      BY <2>1, <2>2 DEF Known, StatusInv, StatusOver
    <3> QED BY <2>2, <3>1
  <2>3. CASE ~statusMsg
    <3>1. statuses = 0
      BY <2>1, <2>3 DEF Known
    <3> QED BY <2>3, <3>1
  <2> QED BY <2>2, <2>3
<1> QED BY <1>1, <1>2, <1>3 DEF ReplyIsDelivered

\* A Telegram user gets what a turn that stream_turn ends itself owes: the whole
\* answer in the bubble and the messages after it, one status message, and
\* never silence (AnswerIsComplete, OneStatusMessage, NeverSilent of TgReply),
\* whatever calls of Telegram fail and wherever Stop falls, for answers and
\* message limits of any length.  Only the turn closed by the idle probe is
\* owed nothing.
THEOREM ReplyDelivered == ReplySpec => []ReplyIsDelivered
<1> QED BY ReplyAlways, ReplyOwed, PTL

-----------------------------------------------------------------------------
(* The machines together *)

\* The invariants of the five machines.
DeliveryInv ==
  /\ PollInv /\ PollRows /\ PollFlags
  /\ ThreadInv /\ TranslateInv /\ PersistInv /\ ReplyInv

\* Each machine starts in its own initial state.
LEMMA DeliveryInvInit == DeliveryInit => DeliveryInv
  BY PollInvInit, PollTypesInit, ThreadInvInit, TranslateInvInit, PersistInvInit, ReplyInvInit
     DEF DeliveryInit, DeliveryInv

\* A step of the composition is a step or a stutter of each machine.
LEMMA DeliverySteps ==
  ASSUME [DeliveryNext]_deliveryVars
  PROVE  /\ [PollNext]_pollVars /\ [ThreadNext]_threadVars /\ [TranslateNext]_translateVars
         /\ [StreamNext]_streamVars /\ [ReplyNext]_replyVars
<1>1. CASE DeliveryNext
  BY <1>1 DEF DeliveryNext
<1>2. CASE UNCHANGED deliveryVars
  BY <1>2 DEF deliveryVars
<1> QED BY <1>1, <1>2

\* So each invariant is kept by the machine it is about.
LEMMA DeliveryInvNext == DeliveryInv /\ [DeliveryNext]_deliveryVars => DeliveryInv'
<1> SUFFICES ASSUME DeliveryInv, [DeliveryNext]_deliveryVars PROVE DeliveryInv'
  OBVIOUS
<1>1. /\ [PollNext]_pollVars /\ [ThreadNext]_threadVars /\ [TranslateNext]_translateVars
      /\ [StreamNext]_streamVars /\ [ReplyNext]_replyVars
  BY DeliverySteps
<1> QED BY <1>1, PollInvNext, PollTypesNext, ThreadInvNext, TranslateInvNext, PersistInvNext, ReplyInvNext
        DEF DeliveryInv

\* The types of the five machines that bring a message in and its answer out
\* hold in every behaviour of their composition (DeliveryTypeOK): a lock has a
\* worker's token, threads are ones the sidecar opened, what is streamed is
\* what is buffered, no message exceeds Telegram's limit.
THEOREM DeliveryTypes == DeliverySpec => []DeliveryTypeOK
<1>1. DeliveryInv => DeliveryTypeOK
  <2>1. PersistInv => StreamTypeOK
    BY DEF PersistInv
  <2>2. ThreadInv => ThreadTypeOK
    BY ThreadTypesEquiv DEF ThreadInv
  <2> QED BY <2>1, <2>2, PollTypesMeet, TranslateTypes, ReplyTypes DEF DeliveryInv, DeliveryTypeOK
<1> QED BY <1>1, DeliveryInvInit, DeliveryInvNext, PTL DEF DeliverySpec
=============================================================================
