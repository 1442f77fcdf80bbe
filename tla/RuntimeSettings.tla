---------------------------- MODULE RuntimeSettings ----------------------------
(***************************************************************************)
(* services/runtime_settings: the administrator's limits are one row of    *)
(* the database, read on every turn through a cache that each process      *)
(* keeps for RUNTIME_SETTINGS_TTL_S.  get() looks at the cache, loads the  *)
(* row and remembers it, with awaits in between; update_limits commits the *)
(* row and then remembers it in its own process only.                      *)
(***************************************************************************)
EXTENDS Naturals

CONSTANTS
    Processes,  \* server and worker processes
    Calls,      \* get() and update_limits calls in progress, over all processes
    Ttl,        \* RUNTIME_SETTINGS_TTL_S, in ticks
    MaxCall,    \* ticks a call lasts at most
    MaxSaves,   \* bound: saves
    MaxClock    \* bound: ticks

ASSUME LimitsAssumption ==
    /\ Processes # {}
    /\ Ttl \in Nat /\ MaxCall \in Nat /\ MaxSaves \in Nat /\ MaxClock \in Nat

VARIABLES
    clock,
    saved,      \* the row: number of its last save
    savedAt,    \* savedAt[v]: when save v was committed (0: not yet)
    cached,     \* per process [value, expires]; expires 0: nothing cached
    call,       \* per call [step, proc, value, since]
    used        \* <<value, time>> of the last answer of get()

limitVars == <<clock, saved, savedAt, cached, call, used>>

NoCall == [step |-> "none", proc |-> CHOOSE p \in Processes : TRUE, value |-> 0, since |-> 0]

LimitsTypeOK ==
    /\ clock \in 0..MaxClock /\ saved \in 0..MaxSaves
    /\ savedAt \in [0..MaxSaves -> 0..MaxClock]
    /\ cached \in [Processes -> [value : 0..MaxSaves, expires : 0..(MaxClock + Ttl)]]
    /\ \A c \in Calls :
          /\ call[c].step \in {"none", "load", "answer", "commit", "remember"}
          /\ call[c].proc \in Processes /\ call[c].value \in 0..MaxSaves
          /\ call[c].since \in 0..clock
    /\ used \in (0..saved) \X (0..clock)

LimitsInit ==
    /\ clock = 0 /\ saved = 0 /\ savedAt = [v \in 0..MaxSaves |-> 0]
    /\ cached = [p \in Processes |-> [value |-> 0, expires |-> 0]]
    /\ call = [c \in Calls |-> NoCall]
    /\ used = <<0, 0>>

-----------------------------------------------------------------------------

\* time.monotonic(); no call outlives MaxCall
TickLimits ==
    /\ clock < MaxClock
    /\ \A c \in Calls : call[c].step = "none" \/ clock < call[c].since + MaxCall
    /\ clock' = clock + 1
    /\ UNCHANGED <<saved, savedAt, cached, call, used>>

At(c, s) == call' = [call EXCEPT ![c].step = s]
EndCall(c) == call' = [call EXCEPT ![c] = NoCall]

\* mutant: a hit keeps the entry alive
Hit_slides(p) == /\ used' = <<cached[p].value, clock>>
                 /\ cached' = [cached EXCEPT ![p].expires = clock + Ttl]

\* get: the cached value before its expiry
Hit(p) == used' = <<cached[p].value, clock>> /\ UNCHANGED cached

GetCached ==
    /\ \E p \in Processes : clock < cached[p].expires /\ Hit(p)
    /\ UNCHANGED <<clock, saved, savedAt, call>>

\* get: a miss opens a session ...
GetMiss(c) ==
    /\ call[c].step = "none"
    /\ \E p \in Processes :
          /\ clock >= cached[p].expires
          /\ call' = [call EXCEPT ![c] = [step |-> "load", proc |-> p, value |-> 0,
                                          since |-> clock]]
    /\ UNCHANGED <<clock, saved, savedAt, cached, used>>

\* ... load reads the row ...
Load(c) ==
    /\ call[c].step = "load"
    /\ call' = [call EXCEPT ![c].step = "answer", ![c].value = saved]
    /\ UNCHANGED <<clock, saved, savedAt, cached, used>>

Remember(p, v) == cached' = [cached EXCEPT ![p] = [value |-> v, expires |-> clock + Ttl]]

\* ... and remember keeps what was read
GetLoaded(c) ==
    /\ call[c].step = "answer"
    /\ Remember(call[c].proc, call[c].value)
    /\ used' = <<call[c].value, clock>>
    /\ EndCall(c)
    /\ UNCHANGED <<clock, saved, savedAt>>

\* update_limits: save takes the row FOR UPDATE, so saves commit in turn
BeginSave(c) ==
    /\ call[c].step = "none" /\ saved < MaxSaves
    /\ \A d \in Calls : call[d].step # "commit"
    /\ \E p \in Processes :
          call' = [call EXCEPT ![c] = [step |-> "commit", proc |-> p, value |-> saved + 1,
                                       since |-> clock]]
    /\ UNCHANGED <<clock, saved, savedAt, cached, used>>

CommitSave(c) ==
    /\ call[c].step = "commit"
    /\ saved' = call[c].value /\ savedAt' = [savedAt EXCEPT ![call[c].value] = clock]
    /\ At(c, "remember")
    /\ UNCHANGED <<clock, cached, used>>

\* after the commit, in the process that served the request; one cancelled in
\* between remembers nothing
RememberSaved(c) ==
    /\ call[c].step = "remember"
    /\ Remember(call[c].proc, call[c].value) \/ UNCHANGED cached
    /\ EndCall(c)
    /\ UNCHANGED <<clock, saved, savedAt, used>>

LimitsNext ==
    \/ TickLimits \/ GetCached
    \/ \E c \in Calls : \/ GetMiss(c) \/ Load(c) \/ GetLoaded(c)
                        \/ BeginSave(c) \/ CommitSave(c) \/ RememberSaved(c)

LimitsSpec == LimitsInit /\ [][LimitsNext]_limitVars

-----------------------------------------------------------------------------

\* "Changes from the admin panel arrive without a restart" (runtime_settings/
\* service.py): a limit get() answers with was replaced at most one TTL and one
\* call ago, also when a load that began before a save remembers the old row
\* over the new one, or two saves remember in the other order.
LimitsAreRecent ==
    LET v == used[1] IN v < saved => used[2] <= savedAt[v + 1] + MaxCall + Ttl

=============================================================================
