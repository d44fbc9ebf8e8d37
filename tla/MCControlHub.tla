---------------------------- MODULE MCControlHub ----------------------------
(* An instance of ControlHub: its requests are model values. *)
EXTENDS ControlHub

CONSTANTS call, inject, command
=============================================================================
