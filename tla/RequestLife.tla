---------------------------- MODULE RequestLife -----------------------------
(***************************************************************************)
(* What the control hub promises whoever asks it to talk to a daemon: a    *)
(* request is refused, or accepted and concluded once. What it was told is *)
(* never taken back or told again, whatever happens to connections,        *)
(* timers and answers that come late.                                      *)
(***************************************************************************)
CONSTANTS
    Requests,
    Outcomes     \* how a request can end

VARIABLE phase   \* request -> "new", "open" or its outcome

Init == phase = [r \in Requests |-> "new"]

Accept(r) == phase[r] = "new" /\ phase'[r] = "open"

End(r) == phase[r] \in {"new", "open"} /\ phase'[r] \in Outcomes

\* One event of the hub may end several requests: a connection that closes
\* ends all its streams.
Next ==
    /\ phase' \in [Requests -> {"new", "open"} \cup Outcomes]
    /\ \A r \in Requests : phase'[r] = phase[r] \/ Accept(r) \/ End(r)

Spec == Init /\ [][Next]_phase
=============================================================================
