--------------------------- MODULE MCCodexStream ---------------------------
EXTENDS CodexStream
=============================================================================
