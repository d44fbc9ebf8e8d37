---------------------------- MODULE MCCodexDriver ----------------------------
(* Instances of CodexDriver. *)
EXTENDS CodexDriver

\* The first turn streams a message, the second asks for approval of a tool.
MessageThenTool == <<{"delta", "item", "completed"}, {"tool_started", "approval"}>>
==============================================================================
