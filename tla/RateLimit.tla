----------------------------- MODULE RateLimit -----------------------------
(***************************************************************************)
(* The per-user quota of RunTurn: the Lua script that checks and reserves, *)
(* the two commands of release_turn, the TTL of the counter, and the       *)
(* requests and workers that reserve, hand over and release.  One user;    *)
(* Slots are the user's concurrent requests, used again and again.         *)
(*                                                                         *)
(* A missing key and a key with value 0 differ only in their TTL, so the   *)
(* pair (active, ttl) stands for ratelimit:active:{user}.                  *)
(***************************************************************************)
EXTENDS Integers, FiniteSets

CONSTANTS
    Slots,          \* concurrent requests of the user
    Limits,         \* values an admin may give TurnLimits; 0 = off
    MayExpire,      \* can the counter's TTL run out?
    MaxLeaks        \* bound on slots that are never released

ASSUME RateConstants ==
    /\ IsFiniteSet(Slots)
    /\ Limits \subseteq [active : Nat, hourly : Nat]
    /\ MayExpire \in BOOLEAN
    /\ MaxLeaks \in Nat

VARIABLES
    active,     \* the counter's value
    ttl,        \* does the counter's key expire?
    hourly,     \* entries of ratelimit:hourly:{user} within the last hour
    limits,     \* runtime_settings
    pc,         \* what each request is at
    leaks,      \* history: reservations nobody will release
    drift       \* history: the key was removed under live reservations, or
                \* released by somebody who had none

vars == <<active, ttl, hourly, limits, pc, leaks, drift>>

\* Requests that hold a reservation.
Live == {s \in Slots : pc[s] \in {"handler", "worker", "decr"}}

\* Every variable has its type, and the window never holds more entries than
\* the largest hourly limit, however the admin moves it.
TypeOK ==
    /\ active \in Int
    /\ ttl \in BOOLEAN
    /\ hourly \in Nat /\ \E l \in Limits : hourly <= l.hourly
    /\ limits \in Limits
    /\ pc \in [Slots -> {"idle", "handler", "worker", "decr", "delete"}]
    /\ leaks \in 0..MaxLeaks
    /\ drift \in BOOLEAN

Init ==
    /\ active = 0 /\ ttl = FALSE /\ hourly = 0
    /\ limits \in Limits
    /\ pc = [s \in Slots |-> "idle"]
    /\ leaks = 0 /\ drift = FALSE

-----------------------------------------------------------------------------
(* reserve_turn: the script is one step                                    *)

\* mutant: one entry too many.
HourlyFull_loose == limits.hourly > 0 /\ hourly > limits.hourly

HourlyFull == limits.hourly > 0 /\ hourly >= limits.hourly
ActiveFull == limits.active > 0 /\ active + 1 > limits.active

\* mutant: the TTL is set only for a limited counter.
Expire1_limited == ttl' = (ttl \/ (active + 1 = 1 /\ limits.active > 0))

\* INCR, and EXPIRE when the counter has become 1.
Expire1 == ttl' = (ttl \/ active + 1 = 1)

\* The window is full: nothing is reserved.
RefuseHourly(s) ==
    /\ pc[s] = "idle" /\ HourlyFull
    /\ UNCHANGED vars

\* mutant: no DECR on refusal.
RefuseActive_keeps(s) ==
    /\ pc[s] = "idle" /\ ~HourlyFull /\ ActiveFull
    /\ Expire1 /\ active' = active + 1
    /\ UNCHANGED <<hourly, limits, pc, leaks, drift>>

\* INCR goes past the limit and is taken back.
RefuseActive(s) ==
    /\ pc[s] = "idle" /\ ~HourlyFull /\ ActiveFull
    /\ Expire1
    /\ UNCHANGED <<active, hourly, limits, pc, leaks, drift>>

\* The reservation counts, in the window too when that is limited.
Reserve(s) ==
    /\ pc[s] = "idle" /\ ~HourlyFull /\ ~ActiveFull
    /\ active' = active + 1 /\ Expire1
    /\ hourly' = IF limits.hourly > 0 THEN hourly + 1 ELSE hourly
    /\ pc' = [pc EXCEPT ![s] = "handler"]
    /\ UNCHANGED <<limits, leaks, drift>>

-----------------------------------------------------------------------------
(* Who holds the reservation                                               *)

\* run_turn leaves before the task is enqueued, or a Telegram turn ends:
\* the finally block releases.
HandlerLeaves(s) ==
    /\ pc[s] = "handler"
    /\ pc' = [pc EXCEPT ![s] = "decr"]
    /\ UNCHANGED <<active, ttl, hourly, limits, leaks, drift>>

\* The task is enqueued: worker_owns_rate_limit.
Enqueue(s) ==
    /\ pc[s] = "handler"
    /\ pc' = [pc EXCEPT ![s] = "worker"]
    /\ UNCHANGED <<active, ttl, hourly, limits, leaks, drift>>

\* The runner that owns the turn reaches release_turn.
WorkerEnds(s) ==
    /\ pc[s] = "worker"
    /\ pc' = [pc EXCEPT ![s] = "decr"]
    /\ UNCHANGED <<active, ttl, hourly, limits, leaks, drift>>

\* A holder that never releases: its process died and recovery finalised the
\* turn, the runner found the row final or an owner at work, the finally
\* block failed before release_turn, or the DECR itself failed.
Leak(s) ==
    /\ pc[s] \in {"handler", "worker", "decr"} /\ leaks < MaxLeaks
    /\ pc' = [pc EXCEPT ![s] = "idle"]
    /\ leaks' = leaks + 1
    /\ UNCHANGED <<active, ttl, hourly, limits, drift>>

-----------------------------------------------------------------------------
(* release_turn: DECR, then DEL when nothing remains                       *)

Decr(s) ==
    /\ pc[s] = "decr"
    /\ active' = active - 1
    /\ pc' = [pc EXCEPT ![s] = IF active - 1 <= 0 THEN "delete" ELSE "idle"]
    /\ UNCHANGED <<ttl, hourly, limits, leaks, drift>>

\* The key goes with whatever was reserved since the DECR.
Delete(s) ==
    /\ pc[s] = "delete"
    /\ active' = 0 /\ ttl' = FALSE
    /\ drift' = (drift \/ active # 0)
    /\ pc' = [pc EXCEPT ![s] = "idle"]
    /\ UNCHANGED <<hourly, limits, leaks>>

\* The process dies, or Redis fails, between the two commands.
DeleteFails(s) ==
    /\ pc[s] = "delete"
    /\ pc' = [pc EXCEPT ![s] = "idle"]
    /\ UNCHANGED <<active, ttl, hourly, limits, leaks, drift>>

\* release_turn of somebody without a reservation: a second execution of a
\* turn after a stall, or a user who was exempt (user_kind ADMIN) when the turn
\* began and is not any more.  One is enough to put the count out.
ReleaseUnreserved ==
    /\ ~drift /\ drift' = TRUE
    /\ \/ active' = active - 1 /\ UNCHANGED ttl
       \/ active <= 1 /\ active' = 0 /\ ttl' = FALSE
    /\ UNCHANGED <<hourly, limits, pc, leaks>>

-----------------------------------------------------------------------------
(* Redis's clock and the admin                                             *)

\* _ACTIVE_TTL_S after the INCR that made the counter 1, whoever still runs.
Expire ==
    /\ MayExpire /\ ttl
    /\ active' = 0 /\ ttl' = FALSE
    /\ drift' = (drift \/ active # 0)
    /\ UNCHANGED <<hourly, limits, pc, leaks>>

\* The oldest entry leaves the hourly window.
Slide ==
    /\ hourly > 0
    /\ hourly' = hourly - 1
    /\ UNCHANGED <<active, ttl, limits, pc, leaks, drift>>

\* The admin edits the limits, also under live turns.
SetLimits ==
    /\ limits' \in Limits
    /\ UNCHANGED <<active, ttl, hourly, pc, leaks, drift>>

Next ==
    \/ \E s \in Slots :
          \/ RefuseHourly(s) \/ RefuseActive(s) \/ Reserve(s)
          \/ HandlerLeaves(s) \/ Enqueue(s) \/ WorkerEnds(s) \/ Leak(s)
          \/ Decr(s) \/ Delete(s) \/ DeleteFails(s)
    \/ ReleaseUnreserved \/ Expire \/ Slide \/ SetLimits

Spec == Init /\ [][Next]_vars

\* A TTL runs out; nothing is asked of requests, workers or the admin.
FairSpec == Spec /\ WF_vars(Expire)

-----------------------------------------------------------------------------
(* Correctness                                                             *)

\* As long as the key was not removed under live reservations, nor released
\* without one, the counter is exactly the reservations held plus those leaked,
\* through refusals, limits switched on and off under live turns, and releases
\* cut short.
CounterIsExact == ~drift => active = Cardinality(Live) + leaks

\* A counter that could ever refuse a turn has a TTL: EXPIRE is only called
\* when INCR yields 1, and DECR may create the key below zero and without a
\* TTL, yet no path leads to a positive counter that stays for good.
PositiveCounterExpires == active >= 1 => ttl

\* The counter of rate_limit/service.py can be trusted: it is exact, and what
\* it may wrongly refuse it refuses only until its TTL.
QuotaIsSafe == CounterIsExact /\ PositiveCounterExpires

\* Leaked reservations refuse the user's turns for a while, never for good.
BlockedUserRecovers == ActiveFull ~> ~ActiveFull

\* service.py: the counter counts the live turns, "без дрейфу лічильника".
NoDrift == ~drift
=============================================================================
