--------------------------- MODULE MCWrapperBridge ---------------------------
EXTENDS WrapperBridge
=============================================================================
