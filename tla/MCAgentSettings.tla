-------------------------- MODULE MCAgentSettings --------------------------
(* A small instance of AgentSettings. *)
EXTENDS AgentSettings, TLC

Ask(path, ts, sid, model, mode, effort) ==
    [path |-> path, agent |-> "claude", ts |-> ts, sid |-> sid,
     model |-> model, mode |-> mode, effort |-> effort]
Conf(field, target) == [field |-> field, target |-> target, custom |-> target # None]
MCConfigs == {Conf("own", "own"), Conf(None, None)}
MCLaunches == {[mode |-> "default", model |-> None], [mode |-> "bypassPermissions", model |-> "own"]}
Symmetry == Permutations(Requests)
MCAsks ==
    {Ask("nexus", None, "s", "opus", "plan", None),
     Ask("nexus", "w", None, "own", None, None),
     Ask("nexus", None, "s", None, "default", "high"),
     Ask("local", "w", None, "opus", "acceptEdits", None),
     Ask("draft", None, "t", None, "plan", None),
     [Ask("nexus", None, "t", "gpt", None, None) EXCEPT !.agent = "codex"]}
=============================================================================
