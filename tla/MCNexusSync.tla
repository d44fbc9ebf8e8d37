---------------------------- MODULE MCNexusSync ----------------------------
EXTENDS NexusSync
=============================================================================
