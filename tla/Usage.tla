--------------------------------- MODULE Usage ---------------------------------
(***************************************************************************)
(* The plan-usage fan-out of one sidecar: services/codex_usage and the     *)
(* StreamCodexUsage / RefreshCodexUsage handlers of rpc/chat/service.py.   *)
(* A publisher (the start-up task, a manual refresh, a rateLimits          *)
(* notification of a turn) sets the snapshot key and then publishes the    *)
(* same value; a stream subscribes, reads the snapshot, and forwards what  *)
(* the channel brings.  Redis pub/sub delivers to whoever is subscribed at *)
(* that moment and to nobody else.                                         *)
(***************************************************************************)
EXTENDS Naturals, Sequences

CONSTANTS
    Publishers, Streams,
    MaxReports,      \* bound: values the sidecar reports
    MaxUsageFaults   \* bound: failed Redis calls and dropped streams

ASSUME UsageAssumption == MaxReports \in Nat /\ MaxUsageFaults \in Nat

VARIABLES
    reported,      \* values the sidecar has reported, 1, 2, ...
    usageKey,      \* the snapshot key (0: none)
    publisher,     \* [step, value] of each publisher
    stream,        \* step of each stream
    inbox,         \* messages on a stream's subscription
    yielded,       \* values a stream has sent to its client (0: CodexUsage())
    unpublished,   \* values whose PUBLISH failed
    usageFaults

usageVars == <<reported, usageKey, publisher, stream, inbox, yielded, unpublished, usageFaults>>
streamVars == <<stream, inbox, yielded>>

\* mutant: the subscription starts after the snapshot is read
Subscribed_late(s) == stream[s] = "listen"

\* between pubsub.subscribe and unsubscribe
Subscribed(s) == stream[s] \in {"bootstrap", "first", "listen"}

UsageTypeOK ==
    /\ reported \in 0..MaxReports /\ usageKey \in 0..reported
    /\ publisher \in [Publishers -> [step : {"idle", "set", "publish"}, value : 0..MaxReports]]
    /\ stream \in [Streams -> {"closed", "bootstrap", "first", "listen"}]
    /\ \A s \in Streams :
          /\ \A i \in DOMAIN inbox[s] : inbox[s][i] \in 1..reported
          /\ yielded[s] \subseteq 0..reported
          /\ stream[s] = "closed" => inbox[s] = <<>> /\ yielded[s] = {}
    /\ unpublished \subseteq 1..reported /\ usageFaults \in 0..MaxUsageFaults

UsageInit ==
    /\ reported = 0 /\ usageKey = 0
    /\ publisher = [p \in Publishers |-> [step |-> "idle", value |-> 0]]
    /\ stream = [s \in Streams |-> "closed"]
    /\ inbox = [s \in Streams |-> <<>>] /\ yielded = [s \in Streams |-> {}]
    /\ unpublished = {} /\ usageFaults = 0

UsageFault == usageFaults < MaxUsageFaults /\ usageFaults' = usageFaults + 1

-----------------------------------------------------------------------------

\* _fetch_once, or a notification's snapshot: a value newer than any before;
\* a failed fetch or an invalid payload publishes nothing
Fetch(p) ==
    /\ publisher[p].step = "idle" /\ reported < MaxReports
    /\ reported' = reported + 1
    /\ publisher' = [publisher EXCEPT ![p] = [step |-> "set", value |-> reported + 1]]
    /\ UNCHANGED <<usageKey, streamVars, unpublished, usageFaults>>

Published(p) == publisher' = [publisher EXCEPT ![p] = [step |-> "idle", value |-> 0]]

\* _publish, cache.set; an error ends it
SetSnapshot(p) ==
    /\ publisher[p].step = "set"
    /\ \/ /\ usageKey' = publisher[p].value
          /\ publisher' = [publisher EXCEPT ![p].step = "publish"]
          /\ UNCHANGED usageFaults
       \/ UsageFault /\ Published(p) /\ UNCHANGED usageKey
    /\ UNCHANGED <<reported, streamVars, unpublished>>

\* _publish, cache.publish: to the subscriptions of this instant
PublishUsage(p) ==
    /\ publisher[p].step = "publish"
    /\ Published(p)
    /\ \/ /\ inbox' = [s \in Streams |-> IF Subscribed(s) THEN Append(inbox[s], publisher[p].value)
                                                          ELSE inbox[s]]
          /\ UNCHANGED <<unpublished, usageFaults>>
       \/ /\ UsageFault
          /\ unpublished' = unpublished \cup {publisher[p].value} /\ UNCHANGED inbox
    /\ UNCHANGED <<reported, usageKey, stream, yielded>>

\* _SNAPSHOT_TTL_S passes
ExpireSnapshot ==
    /\ usageKey # 0 /\ usageKey' = 0
    /\ UNCHANGED <<reported, publisher, streamVars, unpublished, usageFaults>>

\* stream_codex_usage: pubsub.subscribe ...
OpenStream(s) ==
    /\ stream[s] = "closed"
    /\ stream' = [stream EXCEPT ![s] = "bootstrap"]
    /\ UNCHANGED <<reported, usageKey, publisher, inbox, yielded, unpublished, usageFaults>>

\* ... then the snapshot, always one first frame ...
Bootstrap(s) ==
    /\ stream[s] = "bootstrap"
    /\ stream' = [stream EXCEPT ![s] = "first"]
    /\ yielded' = [yielded EXCEPT ![s] = {usageKey}]
    /\ UNCHANGED <<reported, usageKey, publisher, inbox, unpublished, usageFaults>>

\* ... and, when the client has taken it, pubsub.listen()
Listen(s) ==
    /\ stream[s] = "first"
    /\ stream' = [stream EXCEPT ![s] = "listen"]
    /\ UNCHANGED <<reported, usageKey, publisher, inbox, yielded, unpublished, usageFaults>>

Forward(s) ==
    /\ stream[s] = "listen" /\ inbox[s] # <<>>
    /\ yielded' = [yielded EXCEPT ![s] = @ \cup {Head(inbox[s])}]
    /\ inbox' = [inbox EXCEPT ![s] = Tail(@)]
    /\ UNCHANGED <<reported, usageKey, publisher, stream, unpublished, usageFaults>>

\* the client hangs up or the connection to Redis fails: unsubscribe
CloseStream(s) ==
    /\ Subscribed(s) /\ UsageFault
    /\ stream' = [stream EXCEPT ![s] = "closed"]
    /\ inbox' = [inbox EXCEPT ![s] = <<>>] /\ yielded' = [yielded EXCEPT ![s] = {}]
    /\ UNCHANGED <<reported, usageKey, publisher, unpublished>>

UsageNext ==
    \/ \E p \in Publishers : Fetch(p) \/ SetSnapshot(p) \/ PublishUsage(p)
    \/ \E s \in Streams : OpenStream(s) \/ Bootstrap(s) \/ Listen(s) \/ Forward(s) \/ CloseStream(s)
    \/ ExpireSnapshot

UsageSpec == UsageInit /\ [][UsageNext]_usageVars

-----------------------------------------------------------------------------

\* stream_codex_usage subscribes before it reads the snapshot so that "a
\* publish between the two is not lost": once nothing is under way, every open
\* stream has shown the value in the snapshot key, in whatever order two
\* publishers and the stream's own steps came, unless that value's PUBLISH
\* failed.
SnapshotWasShown ==
    (\A p \in Publishers : publisher[p].step = "idle") =>
       \A s \in Streams :
          stream[s] = "listen" /\ inbox[s] = <<>> /\ usageKey \notin unpublished \cup {0} =>
             usageKey \in yielded[s]

=============================================================================
