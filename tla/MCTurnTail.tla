----------------------------- MODULE MCTurnTail -----------------------------
EXTENDS TurnTail
=============================================================================
