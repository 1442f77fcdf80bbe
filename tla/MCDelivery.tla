----------------------------- MODULE MCDelivery -----------------------------
(***************************************************************************)
(* TLC instances of how a message reaches the bot and its answer the user: *)
(* the bot's connection, the thread the answer is asked in, the events it  *)
(* is translated from, its storage and its Telegram form.  The machines    *)
(* share no state, so one run checks all: focus picks at the start the one *)
(* that moves, the others stay in their initial state.                     *)
(***************************************************************************)
EXTENDS TgPolling, MCTgReply, CodexThread, StreamPersist, Translate

VARIABLE focus

deliveryVars == <<focus, pollVars, threadVars, translateVars, streamVars, replyVars>>

DeliveryInit ==
  /\ focus \in {"polling", "thread", "translate", "stream", "reply"}
  /\ PollInit /\ ThreadInit /\ TranslateInit /\ StreamInit /\ ReplyInit
  \* one initial state per machine but for the choices it makes itself
  /\ focus # "polling" => bot.kind = "off"
  /\ focus # "reply" => answer = <<>> /\ ~voice

DeliveryNext ==
  /\ \/ /\ focus = "polling" /\ PollNext
        /\ UNCHANGED <<threadVars, translateVars, streamVars, replyVars>>
     \/ /\ focus = "thread" /\ ThreadNext
        /\ UNCHANGED <<pollVars, translateVars, streamVars, replyVars>>
     \/ /\ focus = "translate" /\ TranslateNext
        /\ UNCHANGED <<pollVars, threadVars, streamVars, replyVars>>
     \/ /\ focus = "stream" /\ StreamNext
        /\ UNCHANGED <<pollVars, threadVars, translateVars, replyVars>>
     \/ /\ focus = "reply" /\ ReplyNext
        /\ UNCHANGED <<pollVars, threadVars, translateVars, streamVars>>
  /\ UNCHANGED focus

\* PollFairness of the behaviours that are about polling.
DeliveryFairness ==
  /\ \A w \in Workers : /\ WF_pollVars(focus = "polling" /\ Service(w))
                        /\ WF_pollVars(focus = "polling" /\ Standby(w))
  /\ WF_pollVars(focus = "polling" /\ LockExpires)

DeliverySpec == DeliveryInit /\ [][DeliveryNext]_deliveryVars /\ DeliveryFairness

\* Type invariant of the machines: a lock has a worker's token, threads are
\* ones the sidecar opened, what is streamed is what is buffered, no message
\* exceeds Telegram's limit.
DeliveryTypeOK ==
  PollTypeOK /\ ThreadTypeOK /\ TranslateTypeOK /\ StreamTypeOK /\ ReplyTypeOK

\* TgPolling's BotStaysReachable, for the behaviours that are about polling.
BotReachable == focus = "polling" => BotStaysReachable
=============================================================================
