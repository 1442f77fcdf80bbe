------------------------------ MODULE TgReply ------------------------------
(***************************************************************************)
(* What the user of a Telegram chat sees of one turn: the bubble that      *)
(* mirrors the stream (tg/progress.py), the messages that carry the rest   *)
(* (tg/turn/outcomes.py, tg/output.py), the status message that two tasks  *)
(* write, and what is stored (tg/turn/persistence.py), with Telegram calls *)
(* that fail and a Stop at any await.                                      *)
(*                                                                         *)
(* A text is a sequence of units of about a paragraph: "plain" ones,       *)
(* "heavy" ones that HTML escaping makes twice as long, "fence" for ```    *)
(* and "blank".                                                            *)
(***************************************************************************)
EXTENDS Naturals, Sequences, FiniteSets, SequencesExt, FiniteSetsExt

CONSTANTS Answers,        \* the texts the model may produce
          BubbleMax,      \* _STREAM_BUBBLE_MAX, in units of raw text
          MessageLimit,   \* _TG_MESSAGE_LIMIT, in units of rendered text
          MaxApiErrors    \* bound on failed calls of Telegram and the stores

Units == {"plain", "heavy", "fence", "blank"}

ASSUME ReplyConstants ==
  /\ \A a \in Answers : a \in Seq(Units)
  /\ {BubbleMax, MessageLimit} \subseteq Nat \ {0, 1}
  /\ MaxApiErrors \in Nat

VARIABLES
  answer,     \* the final text
  voice,      \* the prompt was spoken
  got,        \* units of the answer streamed so far
  bubble,     \* what the stream message shows (<<>>: there is none)
  streamText, \* _stream_text
  rest,       \* what send_text still has to send
  sent,       \* messages sent: sequences of units
  stored,     \* the assistant row written: "none", "partial", "full"
  told,       \* the user got another message: empty, dropped, an error
  files,      \* the turn produced an attachment: "none", "held", "sent"
  rpcAt,      \* the next await of stream_turn
  verdict,    \* CodexTurnTerminal; "probed" is the one the idle probe raises
  statusPc,   \* refresh_status in the ticker task and in the stream
  statusMsg,  \* _status_message is set
  statuses,   \* status messages in the chat
  errors

replyVars == <<answer, voice, got, bubble, streamText, rest, sent, stored, told,
               files, rpcAt, verdict, statusPc, statusMsg, statuses, errors>>

\* Where the units K of a text are.
Places(s, K) == {i \in DOMAIN s : s[i] \in K}

\* What can be seen of a text, and the length of its HTML.
Ink(s) == Places(s, Units \ {"blank"})
Weight(s) == Len(s) + Cardinality(Places(s, {"heavy"}))

Callers == {"ticker", "stream"}

ReplyTypeOK ==
  /\ answer \in Answers /\ voice \in BOOLEAN /\ got \in 0..Len(answer)
  /\ \A s \in {bubble, streamText, rest} : Len(s) <= Len(answer)
  /\ \A i \in DOMAIN sent : sent[i] # <<>> /\ (voice \/ Weight(sent[i]) <= MessageLimit)
  /\ stored \in {"none", "partial", "full"} /\ {told, statusMsg} \subseteq BOOLEAN
  /\ files \in {"none", "held", "sent"}
  /\ rpcAt \in {"stream", "done", "dropped", "stale", "send", "attach", "persist",
                "warn", "failing", "stop", "end"}
  /\ verdict \in {"none", "completed", "failed", "cancelled", "probed"}
  /\ statusPc \in [Callers -> {"idle", "lock", "send", "edit", "gone"}]
  /\ statuses \in 0..(MaxApiErrors + 1) /\ errors \in 0..MaxApiErrors

ReplyInit ==
  /\ answer \in Answers /\ voice \in BOOLEAN /\ got = 0
  /\ bubble = <<>> /\ streamText = <<>> /\ rest = <<>> /\ sent = <<>>
  /\ stored = "none" /\ told = FALSE /\ files = "none"
  /\ rpcAt = "stream" /\ verdict = "none"
  /\ statusPc = [c \in Callers |-> "idle"] /\ statusMsg = FALSE /\ statuses = 0
  /\ errors = 0

ApiError == errors < MaxApiErrors /\ errors' = errors + 1
At(pc) == rpcAt = pc /\ statusPc["stream"] = "idle"

textVars   == <<answer, voice, got>>
statusVars == <<statusPc, statusMsg, statuses>>

-----------------------------------------------------------------------------
(* Texts *)

has_unclosed_fence(s) == Cardinality(Places(s, {"fence"})) % 2 = 1

\* Without the blanks at both ends.
strip(s) == IF Ink(s) = {} THEN <<>> ELSE SubSeq(s, Min(Ink(s)), Max(Ink(s)))

\* _stream_window cuts the raw text at the last separator before its bound.
stream_window(s) == IF Len(s) <= BubbleMax THEN s ELSE SubSeq(s, 1, BubbleMax)

\* The first of render_html's chunks, by the length of the HTML.
first_chunk(s) ==
  SubSeq(s, 1, Max({n \in 0..Len(s) : Weight(SubSeq(s, 1, n)) <= MessageLimit}))

strip_committed_prefix(text, committed) ==
  IF committed # <<>> /\ IsPrefix(committed, text)
  THEN SubSeq(text, Len(committed) + 1, Len(text)) ELSE text

-----------------------------------------------------------------------------
(* The stream *)

\* note_partial: at most once a second, never with an open fence; an error of
\* Telegram is logged.
NotePartial(text) ==
  LET visible == strip(stream_window(text)) IN
    \/ UNCHANGED <<bubble, streamText, errors>>
    \/ /\ ~has_unclosed_fence(text) /\ ~has_unclosed_fence(visible)
       /\ visible \notin {<<>>, streamText}
       /\ \/ /\ bubble' = first_chunk(visible) /\ streamText' = visible
             /\ UNCHANGED errors
          \/ ApiError /\ UNCHANGED <<bubble, streamText>>

Token ==
  /\ At("stream") /\ got < Len(answer)
  /\ got' = got + 1
  /\ IF voice THEN UNCHANGED <<bubble, streamText, errors>>
     ELSE NotePartial(SubSeq(answer, 1, got'))
  /\ UNCHANGED <<answer, voice, rest, sent, stored, told, files, rpcAt, verdict, statusVars>>

\* A tool call or its result: an attachment is collected, the status message
\* is refreshed before the next event is read, and a draft may be sent.
ToolEvent ==
  /\ At("stream")
  /\ files' \in {files, "held"}
  /\ statusPc' = [statusPc EXCEPT !["stream"] = "lock"]
  /\ UNCHANGED <<textVars, bubble, streamText, rest, sent, stored, told, rpcAt,
                 verdict, statusMsg, statuses, errors>>

\* done; a lost stream; a storm of stale notes; a timeout or any other error
\* of run_turn; or an error event, which is answered and journalled, and whose
\* failing answer is an error like the others.
StreamOver ==
  /\ At("stream")
  /\ \/ got = Len(answer) /\ rpcAt' = "done" /\ UNCHANGED <<verdict, told, errors>>
     \/ rpcAt' \in {"dropped", "stale", "failing"} /\ UNCHANGED <<verdict, told, errors>>
     \/ /\ rpcAt' = "stop" /\ verdict' = "failed"
        /\ told' = TRUE /\ UNCHANGED errors
     \/ rpcAt' = "failing" /\ ApiError /\ UNCHANGED <<verdict, told>>
  /\ UNCHANGED <<textVars, bubble, streamText, rest, sent, stored, files, statusVars>>

\* The idle probe finds the turn over and raises CodexTurnTerminal with the
\* sidecar's status.  It passes through stream_turn and the runner as it is:
\* the row is closed, COMPLETED too, and what was buffered is neither sent nor
\* stored.
ProbeEnds ==
  /\ At("stream")
  /\ rpcAt' = "stop" /\ verdict' = "probed"
  /\ UNCHANGED <<textVars, bubble, streamText, rest, sent, stored, told, files,
                 statusVars, errors>>

\* The handler of StaleTurnStreamError stores what arrived, text, files or
\* calls, before it tells the user.
Stale ==
  /\ At("stale")
  /\ \/ /\ stored' \in IF got = 0 /\ files = "none" THEN {"none", "partial"} ELSE {"partial"}
        /\ rpcAt' = "warn" /\ UNCHANGED errors
     \/ ApiError /\ rpcAt' = "failing" /\ UNCHANGED stored
  /\ UNCHANGED <<textVars, bubble, streamText, rest, sent, told, files, verdict, statusVars>>

-----------------------------------------------------------------------------
(* finalize_stream and send_response *)

\* mutant: the window counts as committed although the edit failed.
Finalize_optimistic(streamed, text, then) ==
  LET visible == strip(stream_window(streamed)) IN
    /\ rpcAt' = then
    /\ rest' = IF voice THEN text ELSE strip_committed_prefix(text, visible)
    /\ \/ bubble' = (IF voice THEN <<>> ELSE first_chunk(visible)) /\ UNCHANGED errors
       \/ ApiError /\ UNCHANGED bubble
    /\ UNCHANGED streamText

\* Telegram refuses an edit that changes nothing; a refused or lost edit
\* commits nothing, so that all of the text is sent.  A window that ends in an
\* open fence is not shown: the bubble is deleted.
Finalize(streamed, text, then) ==
  LET visible == strip(stream_window(streamed))
      shown   == first_chunk(visible)
      proceed(committed) == rest' = strip_committed_prefix(text, committed)
  IN /\ rpcAt' = then
     /\ IF voice \/ visible = <<>> THEN
          proceed(<<>>) /\ UNCHANGED <<bubble, streamText, errors>>
        ELSE IF has_unclosed_fence(visible) THEN
          /\ proceed(<<>>) /\ streamText' = <<>>
          /\ \/ bubble' = <<>> /\ UNCHANGED errors
             \/ bubble # <<>> /\ ApiError /\ UNCHANGED bubble
        ELSE
          \/ /\ bubble # shown /\ proceed(visible)
             /\ bubble' = shown /\ streamText' = visible /\ UNCHANGED errors
          \/ /\ bubble = shown /\ proceed(<<>>)
             /\ UNCHANGED <<bubble, streamText, errors>>
          \/ ApiError /\ proceed(<<>>) /\ UNCHANGED <<bubble, streamText>>

\* handle_done: an answer without text and files is reported as empty.
Done ==
  /\ At("done")
  /\ IF strip(answer) = <<>> /\ files = "none"
     THEN /\ \/ told' = TRUE /\ verdict' = "completed" /\ rpcAt' = "stop" /\ UNCHANGED errors
             \/ ApiError /\ rpcAt' = "failing" /\ UNCHANGED <<told, verdict>>
          /\ UNCHANGED <<bubble, streamText, rest>>
     ELSE Finalize(answer, answer, "send") /\ UNCHANGED <<told, verdict>>
  /\ UNCHANGED <<textVars, sent, stored, files, statusVars>>

\* handle_dropped_stream: what arrived is kept.
Dropped ==
  /\ At("dropped")
  /\ verdict' = "failed"
  /\ LET buffer == SubSeq(answer, 1, got)
         tail   == strip(buffer)
     IN
       IF tail = <<>> /\ files = "none"
       THEN /\ \/ told' = TRUE /\ rpcAt' = "stop" /\ UNCHANGED errors
               \/ ApiError /\ rpcAt' = "failing" /\ UNCHANGED told
            /\ UNCHANGED <<bubble, streamText, rest>>
       ELSE Finalize(buffer, tail, "send") /\ UNCHANGED told
  /\ UNCHANGED <<textVars, sent, stored, files, statusVars>>

\* A voice reply carries the whole text; if speech fails, and for every other
\* reply, send_text sends chunk after chunk.  An error of Telegram goes to
\* _on_unexpected.
Send ==
  /\ At("send")
  /\ IF strip(rest) = <<>> THEN rpcAt' = "attach" /\ UNCHANGED <<rest, sent, errors>>
     ELSE LET chunk == first_chunk(strip(rest)) IN
          \/ /\ voice /\ sent = <<>>
             /\ rest' = <<>> /\ sent' = <<rest>>
             /\ UNCHANGED <<rpcAt, errors>>
          \/ /\ sent' = Append(sent, chunk)
             /\ rest' = SubSeq(strip(rest), Len(chunk) + 1, Len(strip(rest)))
             /\ UNCHANGED <<rpcAt, errors>>
          \/ ApiError /\ rpcAt' = "failing" /\ UNCHANGED <<rest, sent>>
  /\ UNCHANGED <<textVars, bubble, streamText, stored, told, files, verdict, statusVars>>

Attach ==
  /\ At("attach")
  /\ \/ /\ files' = IF files = "held" THEN "sent" ELSE files
        /\ rpcAt' = "persist" /\ UNCHANGED errors
     \/ files = "held" /\ ApiError /\ rpcAt' = "failing" /\ UNCHANGED files
  /\ UNCHANGED <<textVars, bubble, streamText, rest, sent, stored, told, verdict, statusVars>>

\* persist_assistant_turn: uploads, message, turns.assistant_message_id and
\* the journal in one transaction.
Persist ==
  /\ At("persist")
  /\ \/ /\ stored' = IF verdict = "failed" THEN "partial" ELSE "full"
        /\ rpcAt' = IF verdict = "failed" THEN "warn" ELSE "stop"
        /\ verdict' = IF verdict = "failed" THEN "failed" ELSE "completed"
        /\ UNCHANGED errors
     \/ ApiError /\ rpcAt' = "failing" /\ UNCHANGED <<stored, verdict>>
  /\ UNCHANGED <<textVars, bubble, streamText, rest, sent, told, files, statusVars>>

\* The note under a dropped or stale answer; if it fails, and for every other
\* error, _on_timeout or _on_unexpected has the last word.
Warn ==
  /\ At("warn") \/ At("failing")
  /\ verdict' = "failed"
  /\ \/ told' = TRUE /\ rpcAt' = "stop" /\ UNCHANGED errors
     \/ ApiError /\ rpcAt' = (IF rpcAt = "warn" THEN "failing" ELSE "stop") /\ UNCHANGED told
  /\ UNCHANGED <<textVars, bubble, streamText, rest, sent, stored, files, statusVars>>

\* Stop cancels the task at whatever await it is.
Stopped ==
  /\ rpcAt \notin {"stop", "end"}
  /\ ApiError
  /\ verdict' = "cancelled" /\ rpcAt' = "stop"
  /\ statusPc' = [statusPc EXCEPT !["stream"] = "idle"]
  /\ \/ UNCHANGED statuses
     \/ statusPc["stream"] = "send" /\ statuses' = statuses + 1
  /\ UNCHANGED <<textVars, bubble, streamText, rest, sent, stored, told, files, statusMsg>>

-----------------------------------------------------------------------------
(* The status message *)

StatusTick ==
  /\ statusPc["ticker"] = "idle" /\ rpcAt # "end"
  /\ statusPc' = [statusPc EXCEPT !["ticker"] = "lock"]
  /\ UNCHANGED <<textVars, bubble, streamText, rest, sent, stored, told, files,
                 rpcAt, verdict, statusMsg, statuses, errors>>

\* An unchanged text, a flood pause, or the lock; the holder sends the message
\* if there is none and edits it otherwise.
StatusLock(c) ==
  /\ statusPc[c] = "lock"
  /\ \/ statusPc' = [statusPc EXCEPT ![c] = "idle"]
     \/ /\ \A d \in Callers : statusPc[d] \notin {"send", "edit"}
        /\ statusPc' = [statusPc EXCEPT ![c] = IF statusMsg THEN "edit" ELSE "send"]
  /\ UNCHANGED <<textVars, bubble, streamText, rest, sent, stored, told, files,
                 rpcAt, verdict, statusMsg, statuses, errors>>

\* Telegram may have sent the message although the call failed.
StatusCall(c) ==
  LET new == IF statusPc[c] = "send" THEN 1 ELSE 0 IN
  /\ statusPc[c] \in {"send", "edit"}
  /\ statusPc' = [statusPc EXCEPT ![c] = "idle"]
  /\ \/ statusMsg' = TRUE /\ statuses' = statuses + new /\ UNCHANGED errors
     \/ ApiError /\ statuses' \in {statuses, statuses + new} /\ UNCHANGED statusMsg
  /\ UNCHANGED <<textVars, bubble, streamText, rest, sent, stored, told, files, rpcAt, verdict>>

\* progress.stop(): the ticker is cancelled, in the middle of a call too, and
\* the message it knows of is deleted.
StopProgress ==
  /\ At("stop")
  /\ rpcAt' = "end"
  /\ statusPc' = [statusPc EXCEPT !["ticker"] = "gone"]
  /\ LET sending == statusPc["ticker"] = "send"
         left    == IF statusMsg THEN statuses - 1 ELSE statuses
     IN \/ statuses' = left /\ UNCHANGED errors
        \/ sending /\ ApiError /\ statuses' = left + 1
        \/ statusMsg /\ ApiError /\ UNCHANGED statuses
  /\ statusMsg' = FALSE
  /\ UNCHANGED <<textVars, bubble, streamText, rest, sent, stored, told, files, verdict>>

ReplyStep ==
  \/ Token \/ ToolEvent \/ StreamOver \/ ProbeEnds \/ Stale \/ Done \/ Dropped \/ Send \/ Attach \/ Persist
  \/ Warn \/ StopProgress
  \/ \E c \in Callers : StatusLock(c) \/ StatusCall(c)

ReplyNext == ReplyStep \/ Stopped \/ StatusTick

ReplySpec == ReplyInit /\ [][ReplyNext]_replyVars

-----------------------------------------------------------------------------
(* Properties *)

\* How much of a text, and of the messages sent, can be seen.
InkOf(s) == Cardinality(Ink(s))
Seen(texts) == UNION {{n} \X Ink(texts[n]) : n \in DOMAIN texts}
InkSent == Cardinality(Seen(sent))

FitsOneMessage(s) == Weight(s) <= MessageLimit

\* "Better to duplicate than to swallow the final" (outcomes.py): a turn that
\* stream_turn ends as COMPLETED has shown every unit of its answer in the
\* bubble or in later messages, has sent its file, and has its full row in the
\* transcript, whatever edits failed and wherever the window cut a code block;
\* provided that the window fits one Telegram message.  A turn that the idle
\* probe closes has no such claim.
AnswerIsComplete ==
  verdict = "completed" /\ strip(answer) # <<>> /\ FitsOneMessage(strip(stream_window(answer)))
     => /\ \/ InkSent = InkOf(answer)
           \/ /\ IsPrefix(bubble, strip(answer))
              /\ InkOf(bubble) + InkSent >= InkOf(answer)
        /\ files # "held" /\ stored = "full"

\* The same without the proviso.
NothingSwallowed ==
  verdict = "completed" => InkOf(bubble) + InkSent >= InkOf(answer)

\* "Assistant text is streamed by editing one Telegram message" (progress.py):
\* when no call was lost the final text is on screen once.
ShownOnce ==
  verdict = "completed" /\ errors = 0 => InkOf(bubble) + InkSent <= InkOf(answer)

\* The ticker and the stream never make two status messages (_status_lock),
\* and when the turn is over none is left, unless a call failed or was cut.
OneStatusMessage ==
  errors = 0 => statuses <= 1 /\ (statuses = 1 <=> statusMsg) /\ (rpcAt = "end" => statuses = 0)

\* Silence is the outcome of one path only: unless Telegram calls failed or
\* the user pressed Stop, a turn that ended has shown something of it, or the
\* idle probe closed it.
NeverSilent ==
  rpcAt = "end" /\ errors = 0 /\ verdict # "probed"
     => told \/ sent # <<>> \/ bubble # <<>> \/ files = "sent"

\* What a Telegram user is owed by a turn that stream_turn ends itself: the
\* whole answer, one status message, and a word when there is no answer.
ReplyIsDelivered == AnswerIsComplete /\ OneStatusMessage /\ NeverSilent
=============================================================================
