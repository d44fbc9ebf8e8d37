---------------------------- MODULE MCPermission ----------------------------
(* An instance of Permission: one request of either agent. *)
EXTENDS Permission

CONSTANTS R1, R2, Id1, Id2, Call1, Call2

MCRequests == {R1, R2}
OnlyR1 == {R1}
MCIds == {Id1, Id2}
MCCalls == {Call1, Call2}
=============================================================================
