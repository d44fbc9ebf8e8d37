--------------------------- MODULE MCSessionIndex ---------------------------
EXTENDS SessionIndex
=============================================================================
