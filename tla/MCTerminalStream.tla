-------------------------- MODULE MCTerminalStream --------------------------
(* An instance of TerminalStream. *)
EXTENDS TerminalStream

CONSTANTS T1, V1, S1

OneTimer == {T1}
OneStream == {V1}
OneSocket == {S1}
=============================================================================
