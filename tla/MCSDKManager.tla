---------------------------- MODULE MCSDKManager ----------------------------
(* An instance of SDKManager: two injects and a recovery call on two         *)
(* sessions, one of whose two terminal sessions the web may stop.            *)
EXTENDS SDKManager, TLC

CONSTANTS A, B, I1, I2, R1

MCSids == {A, B}
MCInjects == {I1, I2}
MCRecoveries == {R1}
Two == {1, 2}
Second == {2}
Symmetry == Permutations(MCSids) \cup Permutations(MCInjects)

\* Bound: once the terminal session that the web may stop is closed, a
\* behaviour is followed only while one of the three calls has not begun.
CallsAfterStop ==
    \A e \in WebStops : ext[e].status \in {"closed", "purged"} =>
        \E c \in Callers : cl[c].pc = "idle"
=============================================================================
