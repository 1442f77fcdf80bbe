# Formal models of codex_server

codex_server is a FastAPI/Connect-RPC backend that runs *turns* of a Codex CLI
sidecar for web and Telegram users. This directory holds TLA+ modules for its
core, the TLC configurations that check them on small instances, and TLAPS
proofs of the most important properties for every instance. `PROJECT.json`
lists components, runs, mutants, the map from definitions to source lines,
findings, hazards and theorems; this file says how to read them.

## 1. The system and its parts

| part | source | state | operations |
|---|---|---|---|
| turn table | `services/turns/service.py`, `models/turn.py` | `turns` rows: status, heartbeat_at, codex ids | create, mark_running, heartbeat, finalize_once, queries |
| turn keys | `services/turns/locks.py`, `lease.py` | Redis `turn:active:{chat}` (value: turn id), `turn:lease:{turn}` (value: process id), TTL 30 s | SET NX, refresh and delete if equal |
| turn runner | `services/turns/runner.py`, `tasks.py`, `worker.py` | one coroutine and one heartbeat task per execution; the broker's message | execute_turn, heartbeat_loop, shutdown handler |
| recovery | `services/turns/recovery.py` | leader key, keyspace subscription | lease_expired_listener, reconcile_stale_turns, reconcile_if_stale |
| web RPC | `rpc/chat/service.py` | the request's local view of the active row | RunTurn, TailTurn, SteerTurn, InterruptTurn |
| turn stream | `services/turns/stream.py` | Redis stream `turn:{id}:events` | publish, tail |
| Codex transport | `services/codex/transport.py` | WebSocket, pending futures, bounded notification queue | connect, request, dispatch, close |
| Codex turn session | `services/codex/turn.py`, `idle.py`, `diagnostics.py`, `turns/probe.py` | idle deadline, counters, current turn id | run_turn, idle probe, stale filter |
| Codex thread session | `services/codex/thread.py`, `runner.py`, `history.py` | thread id, `chats.codex_thread_id`, quarantine keys | resume, start, retry, seed history |
| cross-worker control | `services/codex/codex_remote.py` | `codex:active-steer`, `codex:steer-count` | steer, interrupt |
| stream persistence | `rpc/chat/stream.py`, `codex/collector.py`, `services/messages` | buffer, segments, partial rows | stream_turn, _persist_segment, _finalize_turn_persist |
| rate limit | `services/rate_limit/service.py` | `ratelimit:active`, `ratelimit:hourly` | reserve_turn, release_turn |
| event translation | `services/codex/events/translate.py` | the text shown so far | notification to event |
| Telegram turns | `tg/turn/*`, `services/sessions/store.py` | one slot per topic and process: a future or a session with its turn_lock and current_turn_task | handle, Stop, /reset, replacement of the store |
| Telegram connection | `tg/polling.py`, `tg/service.py` | integration row, webhook, Redis lock with TTL | settings watcher, start and stop of polling, renewal |
| Telegram reply | `tg/progress.py`, `tg/output.py`, `tg/turn/outcomes.py`, `persistence.py` | bubble, status message, messages sent, rows stored | stream, finalize, send, fall back |
| web client | `web/src/features/chat/Chat.svelte` | the view's messages, lastEventId, serverTurnId, live drafts | send, resume, interrupt, steer |
| accounts and invites | `rpc/auth.py`, `rpc/admin.py`, `services/{auth,users,invites}` | users and invites rows, `auth:bf:{ip}` | register, login, create, rename, redeem, revoke |
| files | `services/uploads`, `services/storage`, `tg/media.py` | S3 objects, uploads rows, workspace copies | upload, resolve, attach, delete |
| integrations | `services/integrations`, `services/ssh_vault/_common.py` | rows sealed with a master key, one shared directory of secrets | edit, bootstrap of the key, materialize |
| usage meter | `services/codex_usage` | snapshot key, channel, subscriptions | publish, stream |
| limits and preferences | `services/runtime_settings`, `services/codex_prefs` | a row behind a cache per process; a choice checked against a cached catalog | get, update, resolve |
| notes | `services/notes`, `mcp/tools/notes.py`, `mcp/authz.py` | notebooks and notes | default_notebook, save, list, delete |

How they meet. A RunTurn request reserves a rate-limit slot, looks at the
chat's active row (reaping it if it is stale or has no lease, steering or
interrupting it if it runs), inserts a STARTING row under the partial unique
index and enqueues `execute_turn`. A TaskIQ worker takes the message
(acknowledged only when executed, so a crash means redelivery), sets the chat's
active key and the turn's lease, starts a heartbeat task that refreshes row,
key and lease every 10 s, streams the sidecar's events into the Redis stream
that RunTurn and TailTurn read, gives key and lease back and finalises the row.
When a worker dies its lease expires; the process that leads the listener
receives the keyspace event and fails the turn. A starting API process sweeps
rows without a heartbeat for two minutes.

In front of all this a browser follows the turn through RunTurn's response,
loses the connection, and goes on with TailTurn from the last id it saw. Behind
it a worker talks to the sidecar over one WebSocket whose reader fills a bounded
queue, while an idle policy decides whether silence means work or death.

A Telegram message takes another way to the same table: the process that polls
(or receives the webhook) claims a session for the topic, creates the row and
runs the turn itself, without a lease, and mirrors the stream into an edited
message. Around the chats stand small services whose rows, keys and files are
changed by concurrent requests of several processes.

What is hard here: six kinds of actors finalise rows in one store while
ownership lives in two keys of another and the events in a third; every one of
them can fail, stall past a TTL or be delivered twice between any two awaits.

## 2. Modules

| module | models | role |
|---|---|---|
| `TurnTable` | what the table promises | abstract specification |
| `TurnRuntime` | table, keys, runner, heartbeat, workers, listener, sweep, RunTurn, control RPCs | detailed specification; implements `TurnTable` |
| `CodexStream` | transport queue, turn session, idle policy and probe of one worker's turn | detailed specification |
| `RateLimit` | the quota of one user | detailed specification |
| `CodexThread` | the threads of one chat from turn to turn | detailed specification |
| `Translate` | notifications of one turn into events | algorithm, checked against what was said |
| `Transcript` | what the message table promises about one answer | abstract specification |
| `StreamPersist` | `rpc/chat/stream.py`: frames, segments, rows | detailed specification; implements `Transcript` |
| `TgTurn` | session store, turn runner and Stop of one topic | detailed specification |
| `TgPolling` | which process is connected to Telegram | detailed specification |
| `TgReply` | what the Telegram user sees of one turn | detailed specification |
| `Accounts`, `Uploads`, `Vault`, `Usage`, `RuntimeSettings`, `Preferences`, `Notes` | the services of those names | detailed specifications |
| `TurnTail` | turn stream, RunTurn/TailTurn responses, the browser's loops | detailed specification; its writers are what `TurnRuntimeProofs` guarantees |
| `MCDelivery`, `MCServices` | the machines that share no state, in one run each | instances for TLC |
| `MC*` | instances for TLC | |
| `TurnRuntimeProofs`, `CodexStreamProofs`, `TurnTailProofs`, `TgTurnProofs` | theorems about the module of that name | TLAPS |
| `AccessProofs` | theorems about `RateLimit` and `Accounts` | TLAPS |
| `TranscriptProofs` | theorems about `StreamPersist` (with its refinement), `CodexThread`, `Translate` | TLAPS |
| `DeliveryProofs` | theorems about `TgPolling`, `TgReply` and the composition `MCDelivery` | TLAPS |
| `ServicesProofs` | theorems about the other services and the composition `MCServices` | TLAPS |

Definitions named `X_something` and marked MUTANT are faulty variants of `X`;
replacing `X` by one of them must make TLC find the property broken that
`PROJECT.json` lists with it.

### TurnRuntime

Every await that touches a shared store is one action, in the order of the
code; a database transaction that reads and writes one row is one action.
`pc[r]` names the next await of `execute_turn_inner`, `hb[r]` that of its
heartbeat task, `hpc[h]` that of a request. Locals that survive an await are
variables: `job`, `out` (terminal_status with its cause), `hturn` (the TurnRow
that RunTurn has read and goes on using), `found`, `reaped`.

Time is abstract. A key whose refresher is alive expires only by a *slip*, a
stall longer than the TTL; a key that nobody refreshes expires at any moment.
The same holds for the two-minute age of heartbeat_at. The variables `slips`,
`crashes`, `outages`, `stops`, `errors`, `sweeps` count faults up to named
bounds.

`_finalize_orphan` deletes the active key before its caller commits. The model
keeps the uncommitted UPDATE in `Locked`: other writers of the row wait, as in
Postgres, and a rollback leaves the row alive and the key gone.

`EarlyRedelivery` says whether the broker may hand out a message while its
first delivery is still at work. The Redis-stream broker claims messages that
stay unacknowledged for its idle timeout, so a turn that lasts longer is
redelivered while it runs; all passing runs allow it. A redelivery that meets
the keys is skipped and acknowledged, and then nothing is left but the lease's
expiry. `lapsed` is history for what that means: the turns whose runner went, by
a crash, a stop or a cancelled clean-up, when no lease stood for it (between its
two SETs, after `lease.release`, or after the DEL of the graceful shutdown,
`worker.py:89`). With the message acknowledged such a row waits for the next
RunTurn or sweep; `EnqueuedTurnSettles` excepts exactly these.

Cancellation comes only from a stopping worker, once per task: `Cancel` strikes
before and inside hold_turn_locks, where a SET may be applied although its
caller never saw the answer, `CancelCleanup` on leaving it, in the except and in
the finally clause, the rest of which is then lost. `free_chat` is
`release_active` where a Redis error is only logged.

`Clean` (no slip, no error, no stop) conditions the two key properties. A
database error and a request cancelled between `release_active` and the commit
both count as errors, so they say nothing of what a rollback of
`_finalize_orphan` does: there the code does lose the key.

### CodexStream

One turn of one worker: `side` is what the sidecar really does, `conn` the
socket, `queue` the notification queue (`_enqueue_notification` drops a new
note when full, `_wake_notifications` makes room for the close sentinel), `gen`
the async generator that the consumer iterates, `pc` the await of `run_turn` it
is at, `idle`, `age`, `probed` and `req` the four clocks, counted in ticks.
By default ProbeInterval is 30 s, IdleS 300 s, ReqTimeout and HardCap 600 s
(`config.py`); the run does not keep that order but takes IdleS = ReqTimeout = 1,
ProbeInterval = 2, HardCap = 3, small values with which all three answers of
`decide_idle` occur. All four are settings that the code does not relate, and the
theorems hold for any values. Notes are classes: the turn's own (start, item,
stop, completed, ...), those of an older turn, and account notes that make the
consumer send `account/rateLimits/read`. A request may be answered, refused,
late or lost with the socket. Cancellation can strike at any await of stream_turn
itself (`Cancel`). While it is suspended at a yield (`pc = "yielded"`) the runner
publishes the event and updates the row; it comes back (`Resume`), or it is
cancelled, fails or breaks off for lost ownership (`Leave`): that reaches the
generator as GeneratorExit, which no handler catches. `told` and `faulty` are
history: whether the sidecar was asked to interrupt, and whether a
store or the sidecar misbehaved. Not in this module: the connect handshake, and
the retry that opens a new thread (`turn.py` 252-274), which is in `CodexThread`.

### RateLimit

`active` and `ttl` stand for the Redis counter, `hourly` for the window. The Lua
script is one step, `release_turn` two (`Decr`, `Delete`), the hand-over to the
worker is `Enqueue`, a reservation that no one will release is a `Leak`. The
admin moves `limits` at any moment. `ReleaseUnreserved` is a release without a
reservation: of a second execution of the turn, or of a user who was an exempt
administrator when the turn began. `drift` records it, and that the key was
removed under live reservations (by `Delete` or by its TTL).

### TurnTail

`stream` and `trimmed` are the Redis stream with its MAXLEN and TTL, `row` and
`gone` the turn's row and the deletion of its chat, `rt` RunTurn up to its
tail, `h` and `cursor` the handler whose response the client reads, `wire` the
events under way, `c` the loop of the client: `run` (RunTurn in send()), `tail`
(after an EOF without a terminal event), `retail` (in the catch block),
`resume` (after recoverSilentEof or a page load). A client that goes away
leaves RunTurn's handler running until the server notices. The writers are the
weakest that `RuntimeImplementsTable` and `StreamLeadsRow` allow, so that the
results do not depend on how a turn runs. Left out: a second active turn in the
same chat, steering, live drafts of other chats.

### CodexThread

The turns of one chat follow each other (`TurnRuntime` shows that they do). Each
loads `chats.codex_thread_id`, looks at the quarantine marks, resumes or opens a
thread, seeds a fresh one with the last stored exchanges, starts (with the one
retry after a refused `turn/start`) and runs; any await may fail, the sidecar
may have lost a thread, and `/new` clears the row at any moment. `knows[t]` is
what thread `t` remembers. `lossy` (the seeding failed, or a failed write left
the thread in the row), `unseeded` (opened by the retry in `run_turn`, which does
not seed) and `forgotten` are history that the properties need.

### StreamPersist and Transcript

Text is the number of tokens received and a row the interval it holds. Steering
handlers live in other processes: they are counted by the step they have
reached (accepted by Codex, row inserted, counter bumped). `Closed` is the
consumer leaving at a yield, after which nothing more is stored. The refinement
maps `shown` to the positions covered by partial rows and `whole` to the existence
of the final row; a cancel that lands on the commit of a segment stores its text
a second time with the rest, which a set of positions does not tell apart.

### Translate

The sidecar is the environment: it begins messages, streams or omits deltas,
completes items. The prefix reconciliation of `_agent_message_to_token` is the
algorithm; the reference definition is `IsSubsequence` of what was said (`Said`).

### TgTurn

Turns, sessions and tasks are named by the handler that creates them; a handler
creates at most one of each. `slot[p]` is the store of process `p` for the
topic's key, `fut` the future in it, `holder` and `task` the session's turn_lock
and current_turn_task. Cancellation is a pending mark that takes effect at the
next await, or is swallowed where the code swallows it. Stop keeps what it read
(`kact`, `ktask`) across its awaits. `mute` are the handlers whose heartbeat_loop
has ended under them, `aged` the rows whose heartbeat is older than two minutes:
of dead processes, of handlers that are mute, and of those that wait for
turn_lock or for Telegram outside the loop. A row's final status is one value
here (`Final`): who gets which is `TurnTable`'s and `TgReply`'s matter. A database
error may strike the commits that create, start or settle a row (`lostWrites`).

### TgPolling

One action per await of `_refresh_settings` and of `PollingMode`. A worker has
at most one token of the lock, so the lock's value is the worker that set it. A
lock that nobody renews expires at any moment; a lost lock under a live holder
is a fault (`slipped`), and then two pollers are possible by design of a lock
with a TTL. `hook` tells a webhook that is set from one that a start of polling
failed to delete (`ClearHook`: the error is suppressed and the revision set).
`Shutdown` may be swallowed in PollingMode.stop's own await.

### TgReply

A text is a sequence of units of about a paragraph, of four kinds: what the code
tells apart are blank text, code fences, and text that grows when it is escaped.
`stream_window`, `strip` and the splitting of `send_text` are operators on such
sequences, defined by where the visible units are (`Ink`) and how many there are,
without recursion, so that they can be reasoned about for texts of any length;
the ticker and the stream share the status message. A stream ends with done, an
error, a drop, an idle timeout or a stale storm (`StreamOver`, `Stale`), or
because the idle probe found the turn over (`ProbeEnds`, verdict "probed"), when
nothing is sent or stored whatever the status.

### The services

Each module says in its header what its stores guarantee: READ COMMITTED with
row locks and unique constraints (`Accounts`, `Notes`), three stores without a
common transaction (`Uploads`), an advisory lock and a file lock (`Vault`),
publish to those subscribed at that moment (`Usage`), a monotonic clock with a
TTL (`RuntimeSettings`). A request is a record with the step it has reached; a
hang-up or a failing call ends it where the code would.

In `Vault` a worker remembers the revision it wrote and compares it by content,
as `tg/service.py:82-84` does: a table that returns to an earlier content is not
written again. `unfinished` is history: the last round that began to write
stopped half way or wiped the files. Two simplifications: in `Usage` a
subscription is in force when `subscribe` returns, although redis-py does not
wait for the server's confirmation before the GET; in `Preferences` a user has
one sidecar, although the row is per user and a change of role would resolve a
stored effort against the other sidecar's catalog.

## 3. Runs

Passing runs (each cfg names its bounds; each ends within about two minutes):

- `redelivery`: one turn, two worker processes, one request, early redelivery,
  one crash, one listener outage. Two runners are the smallest number that can
  overlap; one turn suffices because the lease and the row are per turn.
- `faults`: the same with one Redis or database error at any call and one
  startup sweep. CompletedWasPublished and the refinement of TurnTable need no
  good weather.
- `liveness`: an enqueued turn, two workers, redelivery at any moment, and one
  crash or one graceful stop (with its kill at any await) under `Fairness`. It
  starts where RunTurn has enqueued the message and nobody else is left to settle
  the row; a request would only be one more actor that does.
- `stream`: a queue of two, so that a third note meets a full one; storm
  threshold two; hard cap of three ticks, so that the deadline passes with a
  probe, silently and at the cap. The verdict the consumer reports is the
  sidecar's, the sentinel reaches a waiting consumer, silence alone is no
  timeout while the sidecar says it works, a turn that stream_turn gives up is
  interrupted,
  and a turn whose sidecar has fallen silent ends.
- `reconnect`: three entries, a stream of two (so that one is trimmed), a buffer
  of two, one page reload. send() reconnects at most twice by itself; with the
  reload every sequence of its loops occurs.
- `topic`: two messages, two processes, one Stop or refresh, one fault (crash,
  /reset, swallowed cancel, failed heartbeat or commit). Two handlers are enough for a Stop that reads one
  turn and cancels the task of the next.
- `delivery`: `TgPolling` with two workers, one save and two failures;
  `CodexThread` with four turns and a history of two, so that exchanges drop out
  of it; `Translate` with two messages of two tokens and two missing deltas;
  `StreamPersist` with two steers, so that a boundary can count a message whose
  row is not yet stored; `TgReply` with fourteen answers around the limits of a
  bubble and of a message.
- `services`: `RateLimit` with three requests (two race in `release_turn`, the
  third is reserved in between) and expiry; `Accounts` with two requests at a
  time out of three, one invite, one Redis error; `Uploads` with two jobs of the
  same file name; `Vault` with two workers, three revisions and one fault;
  `Usage` with two publishers and a stream; `RuntimeSettings` with two calls and
  two saves around a TTL; `Notes` with two operations of an owner; `Preferences`
  with two updates and one change of the catalog.

The machines of `delivery` and of `services` share no state: a product would
only multiply their states. `focus` chooses at the start the one that moves, so
that a run explores their sum; each property speaks of one machine and is
checked in all of its states.

What the properties say (each run also checks its type invariant: `TypeOK`,
`TgTypeOK`, `DeliveryTypeOK`, `ServicesTypeOK`):

| run | property | what it says |
|---|---|---|
| `redelivery` | `OwnerHoldsKeys` | while no store failed, no key expired under its holder and no worker was stopped, a runner that executes a turn holds its active key and lease |
| | `ExclusiveExecution` | under the same condition no two runners execute turns of one chat |
| `faults` | `CompletedWasPublished` | a completed row's `done` is in the stream, whatever failed |
| | `TableSpec` | the rows move as `TurnTable` allows (refinement) |
| `liveness` | `EnqueuedTurnSettles` | an enqueued turn's row becomes final, unless its message is acknowledged and its runner went without a lease (liveness) |
| `stream` | `VerdictMatchesSidecar` | the session reports what the sidecar made of this turn |
| | `WaiterIsWoken` | a lost connection's sentinel reaches a waiting consumer through a full queue |
| | `SilenceIsNoTimeout` | silence with a sidecar that says inProgress is no timeout before the hard cap |
| | `AbandonedTurnIsTold` | a timeout, a stale storm and a cancellation at stream_turn's own awaits interrupt the sidecar while the socket lives; the ways out that do not are named |
| | `SilentTurnEnds` | a turn whose sidecar says no more ends (liveness) |
| `reconnect` | `NextEventIsNew` | across reconnects the next event was not yet applied and skips only trimmed ones |
| | `VerdictIsReal` | a `done` or error shown is one that happened |
| | `SilentEofMeansDeleted` | a client that knows its turn gets no terminal event only if the chat was deleted |
| | `SendEnds` | `send()` and the resume loop end, unless the message was never enqueued (liveness) |
| `topic` | `OneStreamPerChat` | two Telegram handlers of a chat whose heartbeats beat never stream at once |
| | `EndedHandlerSettledRow` | a handler that returned left its row final, unless the row's own commit failed |
| | `EveryHandlerEnds` | every message is handled to the end unless its process dies (liveness) |
| `delivery` | `OnePoller` | one worker polls a token at a time |
| | `BotReachable` | after the last failure an enabled bot has its webhook, or is polled with no webhook in the way but one that a start of polling failed to delete (liveness) |
| | `ContextIsKept` | a turn's thread knows the chat's recent messages, unless its seeding failed, a failed write left it, or the retry opened it |
| | `ShownIsSaid` | the text shown neither repeats nor reorders what the agent said |
| | `PartialsAreSound` | partial rows follow the steers and keep the text of an interrupted turn |
| | `TranscriptRefined` | the rows implement `Transcript` (refinement) |
| | `ReplyIsDelivered` | the whole answer, at most one status message, silence only where the idle probe closed the turn |
| `services` | `QuotaIsSafe` | the quota's counter is exact until it drifts, and a positive one expires |
| | `BlockedUserRecovers` | leaked reservations block a user only for a while (liveness) |
| | `SignInIsSafe` | an invite is redeemed once, a lockout has an end |
| | `FilesAgree` | rows, objects and workspace files agree with what was reported |
| | `VaultIsSound` | every host has its key, secrets can be read, and when no worker has a reason to write and the last round ended well the directory is the table's |
| | `OlderNeverReplaces` | an older snapshot does not replace a newer file |
| | `SnapshotWasShown` | no published usage value is lost between subscribe and read |
| | `SettingsInForce` | a limit used was replaced at most a TTL and a call ago; until the catalog changes a turn's model and effort are offered |
| | `NotesStayReachable` | a saved note is in its owner's only notebook |

Deadlock checking is off where the system may rest: all turns final and users
gone, a session ended, a view settled, bounds used up.

Runs that are expected to fail state what a comment of the code claims:

- `lease_missing` (`LeaseMissingMeansDead`): "Lease missing → worker мертвий" (`rpc/chat/service.py:491`);
  the runner gives its lease back before it writes the row.
- `generator` (`IteratesUntilClose`): the consumer goes on iterating a generator that its own timeout
  has closed (`turn.py:341`).
- `swallowed` (`NothingSwallowed`): "краще дублювати, ніж проковтнути final"
  (`tg/turn/outcomes.py:126`); the bubble shows only the first chunk of a window
  that rendering makes longer than a message, and the whole window is taken for
  shown (`progress.py:166`).

- `guarantee` (`PhysicalGuarantee`): the active key is the "фізична гарантія '1
  active turn per chat'" (`tg/turn/runner.py:163`); the Telegram runner is not
  told when its heartbeat task ends, so it streams on after its row was declared
  stale and its key ran out, beside the next message's turn.

Other disagreements met while modelling are kept as named properties that no run
checks; put into the cfg of their module's run they fail:

| property | module | claim | what happens |
|---|---|---|---|
| `StaleMeansOrphan` | `TurnRuntime` | "orphan з гарантією" (`recovery.py:24`) | a turn that waited in the queue is stale when its runner starts |
| `NoDrift` | `RateLimit` | "без дрейфу лічильника" (`rate_limit/service.py:33`) | DECR and DEL are two commands; a reservation in between is forgotten |
| `NewForgets` | `CodexThread` | /new resets the context (`tg/service.py:228`) | the next turn's fresh thread is seeded with the stored messages (`codex/runner.py:95`) |
| `ShownOnce` | `TgReply` | the text is streamed by editing one message (`progress.py:3`) | a final text that differs from the stream is sent again |
| `AbortKeepsText` | `StreamPersist` | partial rows keep what arrived (`stream.py:62`) | not after an ErrorEvent, a dropped stream or an unexpected exception |
| `UsedInviteStays` | `Accounts` | a used invite stays as audit trail (`invites/service.py:100`) | a revocation that read the row before it was used deletes it |
| `EveryTurnSettles` | `TurnRuntime` | a clean redelivery after the shutdown handler gave the leases back (`worker.py:86`) | a task cancelled there acknowledges its message, and a redelivery skipped before is acknowledged too: nothing settles the row |
| `FreshIsSeeded` | `CodexThread` | a fresh thread is seeded (`codex/runner.py:58`) | the one that run_turn's retry opens is not (`codex/turn.py:265`) |
| `QuietIsSettled` | `Vault` | the runtime files are written at the start and at every change (README of the repository, 305) | a round that failed half way for a row that is deleted again is never made good: the revision is the remembered one |

And without a formula: `locks.py:79` answers ACTIVE_BUSY for a key that was the
turn's own and expired between SET and GET, against `locks.py:23`; `lease.py:80`
takes a Redis error for another holder, against the comment at `runner.py:130`;
`transport.py:335` drops the newest note, `config.py:36` and the repository's
README say drop-oldest; `turn.py:397` lets a `turn/completed` without turn id of
an older turn end the current one, against `transport.py:68`; the quota's TTL is
not refreshed, against `rate_limit/service.py:4`; `TurnStream.cleanup` keeps the
stream so that a late reconnect "міг replay-нути final state без БД-fallback-у",
but TailTurn answers a final row from the database and never reads the stream;
the repository's README gives the heartbeat as 5 s, the code 10 s; a Telegram turn
that the idle probe finds COMPLETED ends in silence (`turns/probe.py:85`, passed on
by `tg/turn/stream.py:139`); a failed delete_webhook is suppressed although
getUpdates is then refused (`tg/service.py:211`); a turn left at a yield is not
interrupted (`turns/runner.py:158-171`); a failed commit of finalize_once leaves
the row live (`tg/turn/runner.py:233`); Stop writes no TURN_INTERRUPTED when the
runner settled the row, which does not write one either (`tg/turn/control.py:40`).

Hazards for which the list has no room: a STARTING row that waits for turn_lock
in the Telegram runner has no heartbeat and may be taken for stale (`Ages` in
`TgTurn`); the webhook answers 200 for an update that feed_update dropped (`tg/service.py:152`);
UpdateMe's `db.merge` writes back every column it had read (`rpc/user.py:30`,
the action `MergeUser`); the hard cap is looked at only when the idle deadline
passes (`idle.py:19`); a stored effort is checked again only through the
catalog in the cache; a crash between the creation of the key file and its
content leaves it empty (`crypto.py:19`, a state of `Vault`).

### Fairness

`TurnRuntime.FairSpec` assumes that a runner and its heartbeat get on (asyncio
schedules them; the Codex session ends every stream of a silent sidecar, which
is what `SilentTurnEnds` checks), that the broker delivers what it holds, that
keys which nobody refreshes expire, that the listener handles the events it
received and that a stopped process is replaced (compose restarts it). Nothing
is assumed of users, crashes or sweeps. MaxOutages is 0 there: an event that
fires while nobody is subscribed is lost, and then only a later RunTurn or API
start settles the row.

`TgFairness` asks that every handler and Stop that can take its next await does
(asyncio; a silent stream ends by the same idle policy); it asks nothing of
crashes, /reset or presses. `PollFairness` asks that the watcher, the waiters
and the renewal wake up as their sleeps end, that gunicorn replaces a worker,
and that Redis expires a key nobody renews; failures are bounded, so
`BotStaysReachable` speaks of the time after the last one. In `MCDelivery` the
same fairness is conditioned on `focus`.

`CodexStream.FairSpec` asks that the consumer takes its steps and that time
passes, nothing of the sidecar, the socket or Redis. `RateLimit.FairSpec` asks
only that Redis expires keys. `TurnTail.FairSpec` asks that handlers and the
client's loops get on and that an enqueued turn's row becomes final
(`EnqueuedTurnSettles`, checked in `liveness`); `SendEnds` therefore excepts a
row whose message was never enqueued.

## 4. Proofs

All theorems hold for every value of the constants; the only assumptions are
the named ones on them (`RuntimeConstants`, `StreamConstants`, `RateConstants`,
`TailConstants`, `TgConstants`, `PollConstants`, `ReplyConstants`,
`ThreadConstants`, `TranslateAssumption`, `StreamPersistAssumption`,
`AccountsAssumption`, `NotesAssumption`, `UsageAssumption`, `UploadsAssumption`,
`VaultAssumption`, `LimitsAssumption`, `PreferencesAssumption`): bounds are
natural numbers, a null value is none of the things it stands beside, there is
at least one process. `SignInSafe` also assumes that at most one Redis command
fails. Every invariant that a run checks is stated by a theorem, and so are the
refinements and the action properties.

`TurnRuntimeProofs`, for any sets of turns, chats, processes, runners and
requests and any bounds:

- `TypeCorrect`, and from it `RuntimeImplementsTable` (every step of every
  actor is a step of `TurnTable`, which has the unique index, or leaves `status`
  alone);
- `OwnerKeys` and `Exclusive`, by an inductive invariant `KeysInv`. The
  property itself is not inductive: it says nothing of runners that have set
  the active key and not yet the lease, or of those past the teardown. The
  invariant therefore assigns to each `pc` and `hb` what the runner may hold
  (`Ownership`), says where the values of keys come from (`Provenance`: a key
  names a turn only if some runner or a dead one set it), and is conditioned
  on `Clean`;
- `StreamLeadsRow`, by the invariant `PublishedFirst`: an outcome "done" in a
  runner's hands means that the event is out.

`CodexStreamProofs`, for any queue size and durations: `StreamTypes`,
`VerdictIsSidecars`, `WakeReachesWaiter`, `NoPrematureTimeout` and
`AbandonedIsInterrupted` (with its named exceptions), from `StreamInv`. What the queue holds must be tied to
what the sidecar did and to the state of the socket (`QueueInv`), and each `pc`
to what was already told (`FlowInv`, `ToldInv`); three lemmas say what
enqueueing, waking and taking do to a bounded queue.

`AccessProofs`, for any number of requests, limits, e-mails and invites:

- `QuotaTypes`, `CounterExact`, `CounterExpires` and their conjunction
  `QuotaSafe`. The invariant counts the requests that hold a reservation; the
  lemmas say how that cardinality moves when one request steps;
- `RedeemedOnce` (a registration past redeem holds the row, which is still
  active) and `SignInSafe`. For the latter the invariant counts: a counter at
  the limit without TTL has two requests between INCR and EXPIRE, or one and a
  failed command.

`TurnTailProofs`, for any number of entries, trims, disconnects and reloads:
`TailTypes`, `NoEventTwice`, `VerdictReal`, `SilentEof`, from `TailInv`. That
the *next* event is new is not inductive: the invariant says it of the whole
connection. The numbered events on it ascend from the client's last id to the
tail's cursor (`Ascends`), and each entry in between is either among them or
trimmed (`Covers`); `FlowInv` relates loops and handlers, `SilentInv` puts a
terminal event before every end of a response.

`TgTurnProofs`, for any number of processes, messages, Stops and faults:
`TopicTypes`, `OneStream`, `RowSettled`, from `TgInv`. That two fresh streams
exclude each other is not inductive; what is kept is that a handler which talks
to the sidecar, with its heartbeat alive and its row fresh, is the one the active
key names (`StreamHoldsKey`): the key is taken only when free, runs out only
without a heartbeat, and is released only by its owner or for a stale row.
For `RowSettled` the invariant follows a row's handler to the finally clause,
to which it always brings a terminal (`RowFollowsHandler`); that a cancel finds
it there and not before rests on the lock and the task of a session being those
of a handler inside `_run_locked` (`LockIsHeld`, `TaskIsHolder`, `Owned`).

`TranscriptProofs`:

- `PartialsSound` and the refinement `TranscriptImplemented`, for any number of
  tokens and steers, from `PersistInv`: a counted steer has its row
  (`CountedIsStored`), until the loop is left every row is a partial one that
  `partial_msg_ids` names (`PartialsAreKnown`), and everything before the last
  cut is in a partial row (`CutIsStored`). `TranscriptStep` maps each step to a
  step of `Transcript` or a stutter;
- `ThreadInformed`, for any number of turns and any history limit, from
  `ThreadInv`. That the running turn's thread is informed is not inductive: the
  invariant follows the thread from the row through resume, open, emit and seed
  (`ContextInv`); `RecentMoves` is what one more exchange does to the
  window of recent ones;
- `ShownSaid`, for messages of any length, from `TranslateInv`: at every moment
  the text shown is a subsequence of what was heard so far (`ShownIsHeard`).
  Four lemmas say how `IsSubsequence` grows; no induction over the text is
  needed, because a step adds a token or a suffix and the witness is extended.

`DeliveryProofs`:

- `SinglePoller`, for any number of workers, from `PollInv`: a loop that runs
  belongs to a worker with the token or to one about to stop it, and to the
  value of the lock;
- `ReplyDelivered`, for answers of any length and any limits, from `ReplyInv`.
  Between finalize_stream and the last chunk nothing is complete yet; what holds
  is a balance (`Owed`): the ink sent and the ink left to send make up the
  answer, with the bubble or without it. `SilenceInv` says what of a turn is
  visible or about to be, `StatusInv` who may be in a call of the status message
  and counts the messages against the failed calls. Below it stands a small
  theory of texts: what `strip`, `first_chunk` and a cut do to ink and weight
  (`StripInk`, `FirstChunk`, `CutInk`, `StrippedPrefix`, `SeenGrows`), by
  counting positions, with the least element of a set where one would expect
  an induction. The theorem keeps the proviso of `AnswerIsComplete`, that the
  window fits one message: without it the property is false (run `swallowed`);
- `DeliveryTypes`: a step of the composition is a step or a stutter of each
  machine (`DeliverySteps`), so the conjunction of the five invariants is
  inductive and implies `DeliveryTypeOK`.

`ServicesProofs`, for any number of processes, jobs, writers and requests:

- `NotesReachable` (a committed or uncommitted notebook of an owner excludes any
  other; an operation works in one of its owner's) and `SnapshotShown` (the
  key's value is shown, queued on the subscription, or with a publisher between
  SET and PUBLISH);
- `FilesAgreeAlways`, from `UploadInv`: what a job is about to insert or commit
  was stored, it forgets only what it has begun to delete, and past the size
  check nothing is too large (`JobIsGood`); the lemmas say that this survives
  the steps of other jobs;
- `VaultSound` and the action property `OlderNever`, from `VaultInv`. The order
  in which materialize writes gives what is in place at each phase
  (`StagesInPlace`), the two locks give that a holder has the newest snapshot
  (`NewestIsLocked`), a key is made only while the table is empty, by one
  worker (`KeyIsFirst`), and after a round that ended well the files are those of
  one revision, which its writer remembers or has to write again (`LastRound`);
- `LimitsRecent`, from `LimitInv`: a cached value dies one TTL and one call
  after it was replaced (`CacheDies`), because what a call read was in force
  after it began (`CallsAreShort`); `OptionsOffered`, from `PrefInv`: a choice
  that was checked and not yet stored is as valid as the stored one;
- `ServicesTypes` and `SettingsHold`, by the same projection as `DeliveryTypes`
  (`ServiceSteps`, `ServicesInv`).

Only model-checked: liveness (`EnqueuedTurnSettles`, `SilentTurnEnds`,
`BlockedUserRecovers`, `SendEnds`, `EveryHandlerEnds`, `BotReachable`), because
the proof system has no rules for fairness and ENABLED. No module declares a
RECURSIVE operator. The four properties whose runs are expected to fail are
false and have no theorem.

## 5. Plan

1. Proofs: what the liveness arguments rest on and a run cannot show for every
   instance, as action properties (a turn's outcome, a poller's settings and a
   handler's row never move back towards the beginning), and the safety of the
   parts below once they are modelled.
2. The client's steer path: a second stream of the same page in `TurnTail`.
3. The Telegram side of users (get_or_create_by_tg, roles) in `Accounts`, and
   the activity stream if a property about it is found.
4. `TurnRuntime`'s recovery with an outage, when the code schedules a sweep.

## 6. Not modelled

- Chat activity and the bus: best-effort counters that a client reads afresh on
  every connection; nothing waits for a message.
- Speech (STT, TTS), error reporting and the events log: calls of external
  services and write-only logs. Where another module waits for one of them it
  is a call that may fail.
- Web views other than the chat: rendering over unary calls.
- Start-up wiring, configuration, migrations, generated protobuf and Connect
  code (about a sixth of the lines): no behaviour of its own.
- `services/ssh_vault/service.py` and `tokens.py`: no caller in the repository.
- Contents of messages, names and payloads everywhere: abstracted to the kinds
  the code tells apart.
`PROJECT.json` gives the reason part by part.
