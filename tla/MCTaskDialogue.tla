--------------------------- MODULE MCTaskDialogue ---------------------------
EXTENDS TaskDialogueClaims
=============================================================================
