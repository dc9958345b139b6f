--------------------------- MODULE MCSessionRetry ---------------------------
EXTENDS SessionRetryClaims
=============================================================================
