----------------------------- MODULE TgPolling -----------------------------
(***************************************************************************)
(* How the API processes share one Telegram bot: the settings watcher of   *)
(* each process (tg/service.py) connects it by webhook or by polling, and  *)
(* the pollers elect one of themselves with a Redis lock that has a TTL    *)
(* (tg/polling.py).  Telegram refuses a second getUpdates client.          *)
(*                                                                         *)
(* A worker has at most one token of the lock, so the lock's value is the  *)
(* worker that set it; a worker that forgot its token leaves an orphan.    *)
(***************************************************************************)
EXTENDS Naturals, FiniteSets

CONSTANTS Workers,       \* gunicorn worker processes
          Nobody,
          MaxChanges,    \* bound on saves of the integration row
          MaxFailures    \* bound on failed calls, slips, deaths, shutdowns

ASSUME PollConstants == Nobody \notin Workers /\ {MaxChanges, MaxFailures} \subseteq Nat

VARIABLES
  bot,       \* the telegram integration: its revision and what it asks for
  spc,       \* a worker's lifecycle: the next await of _refresh_settings
  snap,      \* the row _refresh_settings has read
  rev,       \* _revision
  mode,      \* _mode, with the state of PollingMode
  token,     \* _lock_token is set
  getting,   \* a getUpdates loop runs
  lock,      \* tg:polling:lock
  hook,      \* the webhook at Telegram: none, set, or left behind by a start
             \* of polling that failed to delete it
  slipped,   \* a lock was lost while its poller ran
  failures

pollVars == <<bot, spc, snap, rev, mode, token, getting, lock, hook, slipped, failures>>

Wanted  == {"off", "polling", "webhook"}
BotRow     == [ver : 0..MaxChanges, kind : Wanted]
NoRevision   == MaxChanges + 1      \* _revision is None
RefreshPc == {"down", "read", "unhook", "drain", "release", "auth", "sethook",
              "clear", "lock"}
Hook    == {"none", "set", "left"}
Mode    == {"off", "webhook", "wait", "held", "lost", "died"}

PollTypeOK ==
  /\ bot \in BotRow /\ snap \in [Workers -> BotRow]
  /\ spc \in [Workers -> RefreshPc \cup {"idle", "final"}]
  /\ rev \in [Workers -> 0..NoRevision]
  /\ mode \in [Workers -> Mode]
  /\ {token, getting} \subseteq [Workers -> BOOLEAN]
  /\ lock \in Workers \cup {Nobody}
  /\ hook \in Hook /\ slipped \in BOOLEAN
  /\ failures \in 0..MaxFailures

PollInit ==
  /\ bot \in {[ver |-> 0, kind |-> k] : k \in Wanted}
  /\ spc = [w \in Workers |-> "down"]
  /\ snap = [w \in Workers |-> bot]
  /\ rev = [w \in Workers |-> NoRevision]
  /\ mode = [w \in Workers |-> "off"]
  /\ token = [w \in Workers |-> FALSE]
  /\ getting = [w \in Workers |-> FALSE]
  /\ lock = Nobody /\ hook = "none" /\ slipped = FALSE
  /\ failures = 0

Step(w, to) == spc' = [spc EXCEPT ![w] = to]
Become(w, m) == mode' = [mode EXCEPT ![w] = m]
Failure == failures < MaxFailures /\ failures' = failures + 1

\* The webhook after the first lines of _stop_connection: a process deletes
\* the one it serves.
Unhooked(w) == IF mode[w] = "webhook" THEN "none" ELSE hook

-----------------------------------------------------------------------------
(* TGBotService *)

\* An administrator saves, disables or deletes the integration.
SaveRow ==
  /\ bot.ver < MaxChanges
  /\ \E k \in Wanted : bot' = [ver |-> bot.ver + 1, kind |-> k]
  /\ UNCHANGED <<spc, snap, rev, mode, token, getting, lock, hook, slipped, failures>>

\* gunicorn starts the worker; lifespan calls start().
Boot(w) ==
  /\ spc[w] = "down"
  /\ Step(w, "read")
  /\ rev' = [rev EXCEPT ![w] = NoRevision]
  /\ UNCHANGED <<bot, snap, mode, token, getting, lock, hook, slipped, failures>>

\* _watch_settings wakes up.
Tick(w) ==
  /\ spc[w] = "idle" /\ rev[w] # bot.ver
  /\ Step(w, "read")
  /\ UNCHANGED <<bot, snap, rev, mode, token, getting, lock, hook, slipped, failures>>

\* The row is read and, if its revision is new, the active turns are
\* interrupted (TgTurn) before the connection is taken down.
ReadRow(w) ==
  /\ spc[w] = "read"
  /\ snap' = [snap EXCEPT ![w] = bot]
  /\ Step(w, IF rev[w] = bot.ver THEN "idle" ELSE "unhook")
  /\ UNCHANGED <<bot, rev, mode, token, getting, lock, hook, slipped, failures>>

\* _stop_connection up to PollingMode.stop; a failing delete_webhook is
\* suppressed.
Unhook(w) ==
  /\ spc[w] = "unhook"
  /\ \/ hook' = Unhooked(w) /\ UNCHANGED failures
     \/ Failure /\ UNCHANGED hook
  /\ Step(w, "drain")
  /\ UNCHANGED <<bot, snap, rev, mode, token, getting, lock, slipped>>

\* PollingMode.stop cancels the waiter, the renewal and the poller.  A waiter
\* cancelled while its SET is under way leaves a lock whose token nobody has.
Drain(w) ==
  /\ spc[w] = "drain"
  /\ \/ UNCHANGED <<lock, failures>>
     \/ mode[w] = "wait" /\ lock = Nobody /\ lock' = w /\ Failure
  /\ getting' = [getting EXCEPT ![w] = FALSE]
  /\ Become(w, "off")
  /\ Step(w, "release")
  /\ UNCHANGED <<bot, snap, rev, token, hook, slipped>>

\* _release_lock: compare and delete, an error leaves the key to its TTL.
\* Then the settings are replaced; a disabled row ends the refresh.
ReleaseLock(w) ==
  /\ spc[w] = "release"
  /\ token' = [token EXCEPT ![w] = FALSE]
  /\ \/ lock' = (IF token[w] /\ lock = w THEN Nobody ELSE lock) /\ UNCHANGED failures
     \/ token[w] /\ Failure /\ UNCHANGED lock
  /\ IF snap[w].kind = "off"
     THEN Step(w, "idle") /\ rev' = [rev EXCEPT ![w] = snap[w].ver]
     ELSE Step(w, "auth") /\ UNCHANGED rev
  /\ UNCHANGED <<bot, snap, mode, getting, hook, slipped>>

\* get_me; a failure leaves _bot None and the revision unset, so the next
\* tick tries again.
Authorize(w) ==
  /\ spc[w] = "auth"
  /\ \/ Step(w, IF snap[w].kind = "webhook" THEN "sethook" ELSE "clear") /\ UNCHANGED failures
     \/ Step(w, "idle") /\ Failure
  /\ UNCHANGED <<bot, snap, rev, mode, token, getting, lock, hook, slipped>>

StartWebhook(w) ==
  /\ spc[w] = "sethook"
  /\ Step(w, "idle")
  /\ \/ /\ hook' = "set" /\ Become(w, "webhook")
        /\ rev' = [rev EXCEPT ![w] = snap[w].ver] /\ UNCHANGED failures
     \/ Failure /\ UNCHANGED <<hook, mode, rev>>
  /\ UNCHANGED <<bot, snap, token, getting, lock, slipped>>

-----------------------------------------------------------------------------
(* PollingMode *)

\* SET NX EX 60 and, if acquired, _launch.
TakeLock(w) ==
  /\ lock = Nobody
  /\ lock' = w
  /\ token' = [token EXCEPT ![w] = TRUE]
  /\ getting' = [getting EXCEPT ![w] = TRUE]
  /\ Become(w, "held")

\* _start_polling's delete_webhook.  An error is suppressed and nothing tries
\* again: the revision is set all the same.
ClearHook(w) ==
  /\ spc[w] = "clear"
  /\ \/ hook' = "none" /\ UNCHANGED failures
     \/ Failure /\ hook' = IF hook = "none" THEN "none" ELSE "left"
  /\ Step(w, "lock")
  /\ UNCHANGED <<bot, snap, rev, mode, token, getting, lock, slipped>>

\* The rest of _start_polling: PollingMode.start makes a poller or a waiter.
StartPolling(w) ==
  /\ spc[w] = "lock"
  /\ \/ TakeLock(w) /\ UNCHANGED failures
     \/ lock # Nobody /\ Become(w, "wait") /\ UNCHANGED <<lock, token, getting, failures>>
     \/ Become(w, "wait") /\ Failure /\ UNCHANGED <<lock, token, getting>>
  /\ Step(w, "idle")
  /\ rev' = [rev EXCEPT ![w] = snap[w].ver]
  /\ UNCHANGED <<bot, snap, hook, slipped>>

\* _wait_for_lock tries every 20 s.
WaitForLock(w) ==
  /\ mode[w] = "wait"
  /\ TakeLock(w)
  /\ UNCHANGED <<bot, spc, snap, rev, hook, slipped, failures>>

\* mutant: on an error the renewal starts to wait without stop_polling.
RenewFails_keeps_polling(w) ==
  /\ mode[w] \in {"held", "died"}
  /\ \/ lock # w /\ UNCHANGED failures
     \/ Failure
  /\ token' = [token EXCEPT ![w] = FALSE]
  /\ Become(w, "wait")
  /\ UNCHANGED <<bot, spc, snap, rev, getting, lock, hook, slipped>>

\* _renew_lock: a token that is no longer the key's value, or a Redis error,
\* makes the worker forget the token and stop polling.
RenewFails(w) ==
  /\ mode[w] \in {"held", "died"}
  /\ \/ lock # w /\ UNCHANGED failures
     \/ Failure
  /\ token' = [token EXCEPT ![w] = FALSE]
  /\ Become(w, "lost")
  /\ UNCHANGED <<bot, spc, snap, rev, getting, lock, hook, slipped>>

\* mutant: a worker that lost the lock never waits for it again.
BecomeStandby_gives_up(w) ==
  /\ mode[w] = "lost"
  /\ getting' = [getting EXCEPT ![w] = FALSE]
  /\ Become(w, "off")
  /\ UNCHANGED <<bot, spc, snap, rev, token, lock, hook, slipped, failures>>

\* The rest of _handle_lock_lost: stop_polling, then a new waiter.
BecomeStandby(w) ==
  /\ mode[w] = "lost"
  /\ getting' = [getting EXCEPT ![w] = FALSE]
  /\ Become(w, "wait")
  /\ UNCHANGED <<bot, spc, snap, rev, token, lock, hook, slipped, failures>>

\* start_polling raises (bot.me() fails): _on_polling_done only logs it and
\* the renewal goes on.
PollerDies(w) ==
  /\ mode[w] = "held"
  /\ Failure
  /\ getting' = [getting EXCEPT ![w] = FALSE]
  /\ Become(w, "died")
  /\ UNCHANGED <<bot, spc, snap, rev, token, lock, hook, slipped>>

-----------------------------------------------------------------------------
(* Environment *)

\* The TTL of a lock that nobody renews; a poller that is being stopped
\* outruns it.
LockExpires ==
  /\ lock # Nobody
  /\ ~token[lock] /\ mode[lock] # "lost"
  /\ lock' = Nobody
  /\ UNCHANGED <<bot, spc, snap, rev, mode, token, getting, hook, slipped, failures>>

\* Redis loses the key, or the event loop stalls for longer than the TTL.
LockSlips ==
  /\ lock # Nobody /\ token[lock]
  /\ Failure
  /\ lock' = Nobody /\ slipped' = TRUE
  /\ UNCHANGED <<bot, spc, snap, rev, mode, token, getting, hook>>

\* lifespan's finally: the watcher is cancelled wherever it is and the
\* connection taken down; the row no longer matters.  A cancel that lands in
\* PollingMode.stop is swallowed by its suppress: the watcher goes on, stop()
\* waits for it, and the process lives until gunicorn kills it (Die).
Shutdown(w) ==
  /\ spc[w] \notin {"down", "final"}
  /\ Failure
  /\ \/ Step(w, "final")
     \/ spc[w] = "drain" /\ UNCHANGED spc
  /\ UNCHANGED <<bot, snap, rev, mode, token, getting, lock, hook, slipped>>

ShutdownEnds(w) ==
  /\ spc[w] = "final"
  /\ hook' \in {Unhooked(w), hook}
  /\ getting' = [getting EXCEPT ![w] = FALSE]
  /\ \/ lock' = (IF token[w] /\ lock = w THEN Nobody ELSE lock) /\ UNCHANGED failures
     \/ mode[w] = "wait" /\ lock = Nobody /\ lock' = w /\ Failure
  /\ token' = [token EXCEPT ![w] = FALSE]
  /\ Become(w, "off")
  /\ Step(w, "down")
  /\ UNCHANGED <<bot, snap, rev, slipped>>

\* SIGKILL: the lock stays until its TTL, the webhook stays registered.
Die(w) ==
  /\ spc[w] # "down"
  /\ Failure
  /\ getting' = [getting EXCEPT ![w] = FALSE]
  /\ token' = [token EXCEPT ![w] = FALSE]
  /\ Become(w, "off")
  /\ Step(w, "down")
  /\ UNCHANGED <<bot, snap, rev, lock, hook, slipped>>

Refresh(w) == \/ Tick(w) \/ ReadRow(w) \/ Unhook(w) \/ Drain(w) \/ ReleaseLock(w)
              \/ Authorize(w) \/ StartWebhook(w) \/ ClearHook(w) \/ StartPolling(w)
              \/ ShutdownEnds(w)

PollNext ==
  \/ SaveRow \/ LockExpires \/ LockSlips
  \/ \E w \in Workers :
       \/ Boot(w) \/ Refresh(w)
       \/ WaitForLock(w) \/ RenewFails(w) \/ BecomeStandby(w)
       \/ PollerDies(w) \/ Shutdown(w) \/ Die(w)

\* gunicorn replaces a worker that exits; the watcher and the renewal wake up
\* periodically, and a renewal that finds another value gives up.  Waiters try
\* every 20 s, and a key that nobody sets stays free until one of them does.
Service(w)  == Boot(w) \/ Refresh(w)
Standby(w)  == WaitForLock(w) \/ BecomeStandby(w) \/ (lock # w /\ RenewFails(w))

PollFairness ==
  /\ \A w \in Workers : WF_pollVars(Service(w)) /\ WF_pollVars(Standby(w))
  /\ WF_pollVars(LockExpires)

PollSpec     == PollInit /\ [][PollNext]_pollVars
PollFairSpec == PollSpec /\ PollFairness

-----------------------------------------------------------------------------
(* Properties *)

\* Telegram's "one getUpdates client per token" (polling.py:3): while no lock
\* is lost under its holder, two workers never poll at once, through restarts,
\* saves of the settings, failed renewals and orphaned locks.
OnePoller ==
  slipped \/ \A v, w \in Workers : getting[v] /\ getting[w] => v = w

\* Once the settings rest and calls stop failing, an enabled bot is reachable
\* for good: its webhook is registered, or one worker polls (polling.py:6 "any
\* worker picks up the lock and continues") and no webhook bars getUpdates,
\* save one that a start of polling itself failed to delete.  That webhook and
\* a poller that died under its lock are what the code does not repair.
BotStaysReachable ==
  <>[]( (\A w \in Workers : mode[w] # "died") =>
          /\ bot.kind = "webhook" => hook = "set"
          /\ bot.kind = "polling" =>
               hook # "set" /\ \E w \in Workers : getting[w] )
=============================================================================
