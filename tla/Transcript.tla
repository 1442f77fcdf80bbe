------------------------------ MODULE Transcript ------------------------------
(***************************************************************************)
(* What the message table promises a reader about the answer of ONE turn:  *)
(* while the turn runs, the part of the answer that is stored only grows;  *)
(* then, in a single step, the parts are replaced by the whole answer; the *)
(* whole answer is never taken back.                                       *)
(***************************************************************************)
EXTENDS Naturals

VARIABLES
    shown,   \* positions of the streamed answer that partial rows hold
    whole    \* the final assistant row is stored

transcriptVars == <<shown, whole>>

TranscriptInit == shown = {} /\ whole = FALSE

\* one more part of the answer becomes visible
Snapshot ==
    /\ ~whole /\ ~whole'
    /\ shown \subseteq shown'

\* the final row takes the place of every partial row at once
Finish ==
    /\ ~whole
    /\ whole' = TRUE
    /\ shown' = {}

TranscriptNext == Snapshot \/ Finish

TranscriptSpec == TranscriptInit /\ [][TranscriptNext]_transcriptVars

=============================================================================
