------------------------------- MODULE Translate -------------------------------
(***************************************************************************)
(* services/codex/events/translate.py: what the notifications of one turn  *)
(* become.  The sidecar streams an agent message as deltas and repeats its *)
(* text when the item completes; deltas can be missing (the fallback the   *)
(* code reconciles), tools start and complete in between, and turn/        *)
(* completed ends the turn.  `shown` is TurnSession's `accumulated`.       *)
(***************************************************************************)
EXTENDS Naturals, Sequences, SequencesExt

CONSTANTS
    Tokens,        \* what a delta can be
    Length,        \* bound: tokens of a message
    MaxMessages,   \* bound: agent messages of the turn
    MaxTools,      \* bound: tool items of the turn
    MaxMissing     \* bound: deltas that never come

ASSUME TranslateAssumption ==
    Length \in Nat /\ MaxMessages \in Nat /\ MaxTools \in Nat /\ MaxMissing \in Nat

Texts == UNION {[1..n -> Tokens] : n \in 0..Length}

\* the item types the translator tells apart: _BUILTINS, dynamicToolCall, an
\* unknown type with or without toolName, and _HIDDEN_ITEMS
Tools == {"builtin", "dynamic", "named", "unnamed", "hidden"}

VARIABLES
    said,      \* the text of the agent messages before the last one begun
    message,   \* the last one, as the sidecar has it
    streamed,  \* its tokens whose delta is past
    item,      \* "none", "message" or the tool running
    shown,     \* accumulated
    tools,     \* tools shown as started / tools whose result was shown
    ended,     \* "no", "done" or "error"
    final,     \* final_text of DoneEvent
    messages, missing, toolItems

translateVars ==
    <<said, message, streamed, item, shown, tools, ended, final, messages, missing, toolItems>>

TranslateTypeOK ==
    /\ {said, shown, final} \subseteq Seq(Tokens) /\ message \in Texts
    /\ streamed \in 0..Len(message) /\ item \in Tools \cup {"none", "message"}
    /\ tools \in [started : 0..MaxTools, finished : 0..MaxTools]
    /\ ended \in {"no", "done", "error"}
    /\ messages \in 0..MaxMessages /\ missing \in 0..MaxMissing /\ toolItems \in 0..MaxTools

TranslateInit ==
    /\ said = <<>> /\ message = <<>> /\ streamed = 0 /\ item = "none" /\ shown = <<>>
    /\ tools = [started |-> 0, finished |-> 0] /\ ended = "no" /\ final = <<>>
    /\ messages = 0 /\ missing = 0 /\ toolItems = 0

\* all the agent has said
Said == said \o message

-----------------------------------------------------------------------------

\* item/started of an agentMessage: no event
MessageStarted ==
    /\ ended = "no" /\ item = "none"
    /\ messages < MaxMessages /\ messages' = messages + 1
    /\ said' = Said /\ message' \in Texts
    /\ item' = "message" /\ streamed' = 0
    /\ UNCHANGED <<shown, tools, ended, final, missing, toolItems>>

\* item/agentMessage/delta: TokenEvent; or the delta does not come
Delta ==
    /\ ended = "no" /\ item = "message" /\ streamed < Len(message)
    /\ streamed' = streamed + 1
    /\ \/ shown' = Append(shown, message[streamed + 1]) /\ UNCHANGED missing
       \/ missing < MaxMissing /\ missing' = missing + 1 /\ UNCHANGED shown
    /\ UNCHANGED <<said, message, item, tools, ended, final, messages, toolItems>>

\* mutant: any text that was not streamed to its end is sent whole
Reconcile_whole(text, accumulated) ==
    IF text = <<>> \/ IsSuffix(text, accumulated) THEN <<>> ELSE text

\* _agent_message_to_token: nothing when the text was streamed, the rest when
\* it extends what was, nothing when they diverge
Reconcile(text, accumulated) ==
    IF text = <<>> \/ IsSuffix(text, accumulated) THEN <<>>
    ELSE IF IsPrefix(accumulated, text)
           THEN SubSeq(text, Len(accumulated) + 1, Len(text))
           ELSE <<>>

\* item/completed of an agentMessage, when the sidecar has no more of it
MessageCompleted ==
    /\ ended = "no" /\ item = "message" /\ streamed = Len(message)
    /\ shown' = shown \o Reconcile(message, shown)
    /\ item' = "none"
    /\ UNCHANGED <<said, message, streamed, tools, ended, final, messages, missing, toolItems>>

\* item/started of a tool: _BUILTINS and named generic tools are shown, a
\* dynamicToolCall carries no toolName and is not
ToolStarted ==
    /\ ended = "no" /\ item = "none" /\ toolItems < MaxTools
    /\ toolItems' = toolItems + 1
    /\ item' \in Tools
    /\ tools' = [tools EXCEPT !.started = @ + (IF item' \in {"builtin", "named"} THEN 1 ELSE 0)]
    /\ UNCHANGED <<said, message, streamed, shown, ended, final, messages, missing>>

\* item/completed of a tool
ToolCompleted ==
    /\ ended = "no" /\ item \in Tools
    /\ tools' = [tools EXCEPT !.finished =
                                  @ + (IF item \in {"builtin", "named", "dynamic"} THEN 1 ELSE 0)]
    /\ item' = "none"
    /\ UNCHANGED <<said, message, streamed, shown, ended, final, messages, missing, toolItems>>

\* turn/completed: ErrorEvent for an error or the status "failed", else
\* DoneEvent with finalText when the sidecar sends it
TurnCompleted ==
    /\ ended = "no" /\ item = "none"
    /\ \/ ended' = "error" /\ UNCHANGED final
       \/ ended' = "done" /\ final' \in {shown, Said}
    /\ UNCHANGED <<said, message, streamed, item, shown, tools, messages, missing, toolItems>>

TranslateNext ==
    \/ MessageStarted \/ Delta \/ MessageCompleted
    \/ ToolStarted \/ ToolCompleted \/ TurnCompleted

TranslateSpec == TranslateInit /\ [][TranslateNext]_translateVars

-----------------------------------------------------------------------------

\* s is what is left of t when some of its members are left out
IsSubsequence(s, t) ==
    \E from \in [DOMAIN s -> DOMAIN t] :
       /\ \A i, j \in DOMAIN s : i < j => from[i] < from[j]
       /\ \A i \in DOMAIN s : s[i] = t[from[i]]

\* "Better not to duplicate a bubble inside the turn" (translate.py
\* _agent_message_to_token): the text shown never repeats or reorders what the
\* agent said, whichever deltas are missing before an item completes; when none
\* is missing it is exactly what was said.
ShownIsSaid ==
    /\ IsSubsequence(shown, Said)
    /\ item = "none" /\ missing = 0 => shown = Said

=============================================================================
