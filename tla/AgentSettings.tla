--------------------------- MODULE AgentSettings ---------------------------
(***************************************************************************)
(* The model, permission mode and effort of a session.  The daemon keeps   *)
(* them in a store; a change to a session that runs in the user's terminal *)
(* is typed into the TUI (back-tabs, /model, /effort), a change to a       *)
(* headless session is only stored, for the next spawn.  An accepted       *)
(* /model shows as a line of the transcript.  The mode of the TUI never    *)
(* reaches the daemon: Store.Observe takes it from meta events, which the  *)
(* wrapper does not send (extractMessageEvents lets no such row pass).     *)
(*                                                                         *)
(* A working directory is not told apart: one set of configuration files   *)
(* applies to every session.                                               *)
(***************************************************************************)
EXTENDS Integers, Sequences, FiniteSets

CONSTANTS
    Wrappers,     \* terminal sessions of wrappers
    Drivers,      \* terminal sessions of SDK drivers
    Sids,         \* ids of agent sessions
    Initial,      \* those with a transcript at first
    Headless,     \* those no wrapper opens, Codex's among them
    Requests,     \* requests, each made once
    Asks,         \* what a request may ask
    Launches,     \* settings a TUI may have when its wrapper registers
    Aliases,      \* sonnet, opus, haiku
    Official,     \* the lineup compiled into the daemon
    CLIModels,    \* the lineup the installed CLI reports
    Custom,       \* model names of configuration files and providers
    CodexModels,  \* the models Codex lists, when it can be asked
    InboxCap,     \* inputs of a terminal's channel (8 in the code)
    MaxAttempts,  \* attempts at a model switch (3 in the code)
    Configs,      \* what the configuration files may say
    MaxUser,      \* what the user does in the terminal (a bound of the model)
    MaxMoves,     \* resumptions, exits, rotations and deletions (a bound)
    MaxLost,      \* inputs the TUI swallows or takes too late (a bound)
    MaxConfig,    \* changes of configuration, expiries of the lineup (a bound)
    MaxEvents     \* all of these together (a bound)

None   == "none"
Cycle  == <<"default", "acceptEdits", "plan">>
Native == {"default", "acceptEdits", "plan", "auto", "bypassPermissions"}
Known  == Native \cup {"dontAsk"}
Efforts == {"none", "low", "medium", "high", "xhigh", "max"}
CodexModes   == {"request-approval", "approve-for-me", "full-access"}
CodexEfforts == {"low", "medium", "high", "xhigh"}

Models  == Aliases \cup Official \cup CLIModels \cup Custom
Terms   == Wrappers \cup Drivers
Ts(t)   == <<"ts", t>>
Sdk(s)  == <<"sdk", s>>
Keys    == {Ts(t) : t \in Terms} \cup {Sdk(s) : s \in Sids}
Unset   == [model |-> None, mode |-> None, effort |-> None]
Fields  == {"model", "mode", "effort"}

ASSUME SettingsAssumption ==
    /\ Wrappers \cap Drivers = {} /\ Headless \cup Initial \subseteq Sids
    /\ None \notin Terms \cup Sids \cup Requests \cup Models /\ Official # {}
    /\ Launches \subseteq [model : Models \cup {None}, mode : Known]
    /\ {InboxCap, MaxAttempts} \subseteq Nat \ {0}
    /\ {MaxUser, MaxMoves, MaxLost, MaxConfig, MaxEvents} \subseteq Nat
    /\ Configs \subseteq [field : Custom \cup {None}, target : Custom \cup {None}, custom : BOOLEAN]
    /\ \A c \in Configs : c.custom = (c.target # None)
    /\ \A a \in Asks : /\ a.path \in {"nexus", "local", "draft"}
                       /\ a.agent \in {"claude", "codex"}
                       /\ a.ts \in Terms \cup {None} /\ a.sid \in Sids \cup {None}
                       /\ a.agent = "codex" => a.ts = None /\ a.sid \in Headless
                       /\ a.path = "local" => a.ts # None     \* named by the URL
                       /\ a.path = "draft" => a.sid # None    \* made up for the draft

VARIABLES
    reg,       \* terminal session -> status, bound session
    owner,     \* sidIndex: session -> the terminal session bound to it last
    tui,       \* wrapper -> mode and model its TUI is in
    inbox,     \* wrapper -> inputs not yet processed by the TUI
    files,     \* sessions that have a transcript
    said,      \* session -> target -> /model confirmations in its transcript
    seen,      \* session -> the model its transcript observes last
    store,     \* the store: key -> model, mode and effort
    locks,     \* applyLocks: key -> the request that holds it, or none
    config,    \* what the configuration files say
    lineup,    \* cliModelsCache
    req,       \* the requests, with what their session reported since
    muddled,   \* wrappers whose mode the daemon did not bring about
    user, moves, lost, changes

vars == <<reg, owner, tui, inbox, files, said, seen, store, locks,
          config, lineup, req, muddled, user, moves, lost, changes>>
terminals == <<reg, owner>>
claude    == <<tui, inbox, files, said, seen>>
menu      == <<config, lineup>>
budgets   == <<user, moves, lost, changes>>

-----------------------------------------------------------------------------
(* Which models there are.                                                 *)

\* What an alias stands for: known to the daemon with a custom provider only.
ResolveModelAlias(m) == IF m \notin Aliases THEN m ELSE IF config.custom THEN config.target ELSE None
\* What the TUI reports after "/model m".
Concrete(m) == IF m \notin Aliases THEN m
               ELSE IF config.custom THEN config.target ELSE CHOOSE o \in Official : TRUE
\* The target a confirmation must name.
ExpectedTarget(m) == IF ResolveModelAlias(m) = None THEN m ELSE ResolveModelAlias(m)

\* A provider's model is taken for its default and for what its aliases stand for.
Lineup == IF config.custom THEN Aliases
          ELSE IF lineup.options # {} THEN lineup.options ELSE Official
ReadModelOptions == (Lineup \cup {config.field, config.target}) \ {None}
EffectiveDefaultModel == IF config.field # None THEN config.field ELSE config.target

\* A reader that finds the cached lineup expired asks the CLI first, under the
\* cache's lock; the CLI may fail.
MenuReady == config.custom \/ lineup.fresh
QueryCLI ==
    /\ ~MenuReady
    /\ \E options \in {CLIModels, {}} : lineup' = [fresh |-> TRUE, options |-> options]
    /\ UNCHANGED <<terminals, claude, store, locks, config, req, muddled, budgets>>

Budget == user + moves + lost + changes < MaxEvents
Change == /\ Budget /\ changes < MaxConfig /\ changes' = changes + 1
          /\ UNCHANGED <<terminals, claude, store, locks, req, muddled, user, moves, lost>>
LineupExpires == Change /\ lineup.fresh /\ lineup' = [lineup EXCEPT !.fresh = FALSE]
                        /\ UNCHANGED config
Configure == /\ Change
             /\ config' \in Configs \ {config}
             /\ UNCHANGED lineup

\* The model the session runs, as its transcript or the configuration tells.
CurrentRunningModel(s) ==
    IF s \in files /\ seen[s] # None THEN seen[s] ELSE EffectiveDefaultModel
DisplayModel(key, s) == IF store[key].model # None THEN store[key].model ELSE CurrentRunningModel(s)
ResolvedModel(key, s) ==
    IF s \in files /\ seen[s] # None THEN seen[s]
    ELSE IF ResolveModelAlias(DisplayModel(key, s)) # None THEN ResolveModelAlias(DisplayModel(key, s))
    ELSE CurrentRunningModel(s)

\* The menu of a Get, and the models a Set takes.
AvailableModels(key, s) ==
    ReadModelOptions \cup ({DisplayModel(key, s), ResolvedModel(key, s)} \ {None})
ValidModelNoExtra(m, extra) == m \in {None} \cup Aliases \cup ReadModelOptions   \* mutant
ValidModel(m, extra) == m \in {None} \cup Aliases \cup ReadModelOptions \cup extra

-----------------------------------------------------------------------------
(* Which terminal, and which key of the store.                             *)

Live(t)   == reg[t].status = "live"
Listed(t) == reg[t].status \in {"live", "exited"}
Lookup(s) ==
    LET t == owner[s]
    IN IF t = None \/ ~Live(t) THEN [ext |-> None, drifted |-> FALSE]
       ELSE [ext |-> t, drifted |-> reg[t].sid # s]

Resolved(driver, key, s) == [driver |-> driver, key |-> key, sid |-> s]
NotAttached == Resolved(None, Ts(None), None)
OfTerm(t) ==
    IF t \in Wrappers THEN Resolved("pty", Ts(t), reg[t].sid)
    ELSE Resolved("sdk", IF reg[t].sid # None THEN Sdk(reg[t].sid) ELSE Ts(t), reg[t].sid)
\* The wrapper's terminal session is the first one listed with the session id,
\* in the order of a map.
Resolutions(ts, s) ==
    IF ts # None /\ Listed(ts) THEN {OfTerm(ts)}
    ELSE IF s = None THEN {NotAttached}
    ELSE IF Lookup(s).drifted THEN {NotAttached}
    ELSE IF Lookup(s).ext \in Drivers THEN {Resolved("sdk", Sdk(s), s)}
    ELSE IF Lookup(s).ext \in Wrappers
         THEN {Resolved("pty", Ts(t), s) : t \in {u \in Terms : Listed(u) /\ reg[u].sid = s}}
    ELSE IF s \in files THEN {Resolved("sdk", Sdk(s), s)}
    ELSE {NotAttached}

-----------------------------------------------------------------------------
(* The TUI and its wrapper.                                                *)

Tab         == [kind |-> "tab", arg |-> None]
Slash(k, a) == [kind |-> k, arg |-> a]
Index(m)    == CHOOSE i \in 1..Len(Cycle) : Cycle[i] = m
InCycle(m)  == \E i \in 1..Len(Cycle) : Cycle[i] = m
NextMode(m) == IF InCycle(m) THEN Cycle[(Index(m) % Len(Cycle)) + 1] ELSE Cycle[1]

\* Inputs to an SDK driver become prompts.
Delivered(t, in) ==
    IF t \in Wrappers /\ Len(inbox[t]) < InboxCap
    THEN [inbox EXCEPT ![t] = Append(@, in)] ELSE inbox
DropsTab(t) == t \in Wrappers /\ Len(inbox[t]) = InboxCap

Idle == [pc |-> "new", key |-> Ts(None), sid |-> None, part |-> None, ext |-> None,
         presses |-> 0, before |-> 0, tries |-> 0, todo |-> {}, ask |-> Unset,
         path |-> None, target |-> None, reported |-> {}]
Done(q) == q.pc \in {"ok", "error"}
ModeTyping(w) == \E r \in Requests : req[r].pc = "press"
                                     /\ (req[r].ext = w \/ req[r].key = Ts(w))
TabsIn(seq) == {i \in DOMAIN seq : seq[i].kind = "tab"}
\* No key that changes the mode of w is on its way.
Quiet(w) == TabsIn(inbox[w]) = {} /\ ~ModeTyping(w)

Reports(s, target) ==
    /\ files' = IF s = None THEN files ELSE files \cup {s}
    /\ said' = IF s = None THEN said ELSE [said EXCEPT ![s][target] = @ + 1]
    /\ seen' = IF s = None THEN seen ELSE [seen EXCEPT ![s] = target]
    /\ req' = [r \in Requests |-> IF req[r].sid = s /\ s # None
                                  THEN [req[r] EXCEPT !.reported = @ \cup {target}] ELSE req[r]]
Switches(w, m) == tui' = [tui EXCEPT ![w].model = Concrete(m)] /\ Reports(reg[w].sid, Concrete(m))
Cycles(w) == tui' = [tui EXCEPT ![w].mode = NextMode(@)]

Outside == UNCHANGED <<terminals, store, locks, menu, moves, changes>>
Takes(w) == Live(w) /\ inbox[w] # <<>> /\ inbox' = [inbox EXCEPT ![w] = Tail(@)]
TakeTab(w) == /\ Takes(w) /\ Head(inbox[w]).kind = "tab" /\ Cycles(w)
              /\ UNCHANGED <<files, said, seen, req, muddled, user, lost>> /\ Outside
TakeModel(w) == /\ Takes(w) /\ Head(inbox[w]).kind = "model" /\ Switches(w, Head(inbox[w]).arg)
                /\ UNCHANGED <<muddled, user, lost>> /\ Outside
TakeEffort(w) == /\ Takes(w) /\ Head(inbox[w]).kind = "effort"
                 /\ UNCHANGED <<tui, files, said, seen, req, muddled, user, lost>> /\ Outside
\* The TUI repaints or shows a sheet.
Swallow(w) == /\ Takes(w) /\ Budget /\ lost < MaxLost /\ lost' = lost + 1
              /\ muddled' = IF Head(inbox[w]).kind = "tab" THEN muddled \cup {w} ELSE muddled
              /\ UNCHANGED <<tui, files, said, seen, req, user>> /\ Outside

User(w) == Live(w) /\ Budget /\ user < MaxUser /\ user' = user + 1 /\ UNCHANGED inbox
UserTab(w) == /\ User(w) /\ Cycles(w)
              /\ muddled' = muddled \cup {w}
              /\ UNCHANGED <<files, said, seen, req, lost>> /\ Outside
UserModel(w) == /\ User(w) /\ \E m \in Models : Switches(w, m)
                /\ UNCHANGED <<muddled, lost>> /\ Outside
\* A turn ends: the assistant's row names the model.
Turn(w) == /\ User(w) /\ reg[w].sid # None
           /\ tui[w].model # None
           /\ seen' = [seen EXCEPT ![reg[w].sid] = tui[w].model]
           /\ files' = files \cup {reg[w].sid}
           /\ UNCHANGED <<tui, said, req, muddled, lost>> /\ Outside

-----------------------------------------------------------------------------
(* The registry.                                                           *)

Stays == UNCHANGED <<said, seen, locks, menu, req, user, lost, changes>>
Move  == Budget /\ moves < MaxMoves /\ moves' = moves + 1 /\ Stays

\* A wrapper registers, its own start or after the daemon's restart, under a
\* terminal session of which the store knows nothing: whatever mode the user or
\* the requests of the past put its TUI into, the daemon takes it to be the default.
Register(w) ==
    /\ reg[w].status = "new" /\ Stays /\ UNCHANGED moves
    /\ \E l \in Launches :
          /\ tui' = [tui EXCEPT ![w] = [mode |-> l.mode, model |-> l.model]]
          /\ muddled' = IF l.mode = "default" THEN muddled ELSE muddled \cup {w}
    /\ reg' = [reg EXCEPT ![w].status = "live"]
    /\ UNCHANGED <<owner, inbox, files, store>>
\* An event of the wrapper names the session its TUI has open.
Bind(w, s) ==
    /\ Live(w) /\ reg[w].sid # s /\ s \notin Headless
    /\ IF reg[w].sid = None THEN Stays /\ UNCHANGED moves ELSE Move
    /\ reg' = [reg EXCEPT ![w].sid = s]
    /\ owner' = [u \in Sids |-> IF u \in {s, reg[w].sid} THEN w ELSE owner[u]]
    /\ UNCHANGED <<tui, inbox, files, store, muddled>>
\* SDK drivers take no session that a live terminal owns.
Spawn(d, s) ==
    /\ reg[d].status = "new" /\ Lookup(s).ext = None
    /\ reg' = [reg EXCEPT ![d] = [status |-> "live", sid |-> s]]
    /\ owner' = [owner EXCEPT ![s] = d]
Resume(d, s) == Move /\ s \in files /\ Spawn(d, s) /\ UNCHANGED <<tui, inbox, files, store, muddled>>
Exit(t) ==
    /\ Move /\ Live(t)
    /\ reg' = [reg EXCEPT ![t].status = "exited"]
    /\ inbox' = IF t \in Wrappers THEN [inbox EXCEPT ![t] = <<>>] ELSE inbox
    /\ UNCHANGED <<owner, tui, files, store, muddled>>
Purge(t) ==
    /\ reg[t].status = "exited"
    /\ reg' = [reg EXCEPT ![t].status = "gone"]
    /\ owner' = [s \in Sids |-> IF owner[s] = t THEN None ELSE owner[s]]
    /\ UNCHANGED <<claude, store, locks, menu, req, muddled, budgets>>
\* DeleteSession removes the transcript of a session, running or not.
DeleteSession(s) ==
    /\ Budget /\ moves < MaxMoves /\ moves' = moves + 1
    /\ s \in files /\ files' = files \ {s}
    /\ said' = [said EXCEPT ![s] = [t \in Models |-> 0]]
    /\ seen' = [seen EXCEPT ![s] = None]
    /\ UNCHANGED <<terminals, tui, inbox, store, locks, menu, req, muddled,
                   user, lost, changes>>

-----------------------------------------------------------------------------
(* The requests.                                                           *)

Given(a) == {f \in Fields : a[f] # None}
Wants(a) == [f \in Fields |-> a[f]]
Finish(r, pc) == req' = [req EXCEPT ![r] = [Idle EXCEPT !.pc = pc]]
Goto(r, pc)   == IF pc = "ok" THEN Finish(r, pc) ELSE req' = [req EXCEPT ![r].pc = pc]
Quietly == UNCHANGED <<terminals, tui, files, said, seen, menu, budgets>>

ValidRequest(a) == a.mode \in {None} \cup Known /\ a.effort \in {None} \cup Efforts
\* Without a list of models Codex is left to judge.
ValidCodex(a, options) == /\ a.model = None \/ options = {} \/ a.model \in options
                          /\ a.mode \in {None} \cup CodexModes
                          /\ a.effort \in {None} \cup CodexEfforts
CodexOptions == {CodexModels, {}}

Start(r, a, res, pc) ==
    IF pc = "ok" THEN Finish(r, pc) ELSE
    req' = [req EXCEPT ![r] = [Idle EXCEPT !.pc = pc, !.key = res.key, !.path = a.path,
              !.sid = IF res.sid # None THEN res.sid ELSE a.sid,
              !.part = IF a.path = "local" THEN "all" ELSE "modes",
              !.ask = Wants(a), !.todo = Given(a), !.target = ExpectedTarget(a.model)]]

Accepts(a, res) ==
    IF a.agent = "codex" THEN \E options \in CodexOptions : ValidCodex(a, options)
    ELSE /\ ValidModel(a.model, IF a.path = "nexus"
              THEN {CurrentRunningModel(IF res.sid # None THEN res.sid ELSE a.sid)} ELSE {})
         /\ res.driver = "sdk" => ValidRequest(a)

\* Set: a change that came from Nexus.
FirstStep(a, res) ==
    IF a.agent = "codex" \/ res.driver = "sdk" THEN "store"
    ELSE IF a.mode # None \/ a.effort # None THEN "take"
    ELSE IF a.model # None THEN "count" ELSE "ok"
Set(r, a) ==
    \E res \in Resolutions(a.ts, a.sid) :
       IF res.driver = None \/ ~Accepts(a, res) THEN Finish(r, "error")
       ELSE Start(r, a, res, FirstStep(a, res))
\* A change posted to the daemon's own API, by terminal session.
PostSettings(r, a) ==
    LET res == Resolved("pty", Ts(a.ts), reg[a.ts].sid)
    IN IF ~Listed(a.ts) \/ ~Accepts(a, res) THEN Finish(r, "error") ELSE Start(r, a, res, "take")
\* A draft session, spawned headless with its settings.
EnsureNewDriver(r, a) ==
    LET res == Resolved("sdk", Sdk(a.sid), a.sid)
    IN IF ~Accepts(a, res) THEN Finish(r, "error") ELSE Start(r, a, res, "store")

Begin(r) ==
    /\ req[r].pc = "new" /\ MenuReady
    /\ \E a \in Asks : \/ a.path = "nexus" /\ Set(r, a)
                       \/ a.path = "local" /\ PostSettings(r, a)
                       \/ a.path = "draft" /\ EnsureNewDriver(r, a)
    /\ UNCHANGED <<inbox, store, locks, muddled>> /\ Quietly

\* Headless: the fields are stored one by one, the model first, the effort last.
StoreField(r) ==
    /\ req[r].pc = "store"
    /\ IF req[r].todo = {} THEN Goto(r, IF req[r].path = "draft" THEN "spawn" ELSE "ok") /\ UNCHANGED store
       ELSE LET f == IF "model" \in req[r].todo THEN "model"
                     ELSE IF "mode" \in req[r].todo THEN "mode" ELSE "effort"
            IN /\ store' = [store EXCEPT ![req[r].key][f] = req[r].ask[f]]
               /\ req' = [req EXCEPT ![r].todo = @ \ {f}]
    /\ UNCHANGED <<inbox, locks, muddled>> /\ Quietly
SpawnDraft(r) ==
    /\ req[r].pc = "spawn"
    /\ \/ \E d \in Drivers : Spawn(d, req[r].sid) /\ Finish(r, "ok")
       \/ UNCHANGED terminals /\ Finish(r, "error")
    /\ UNCHANGED <<claude, store, locks, menu, muddled, budgets>>

\* The part of the request that one Apply carries out.
Part(q) == CASE q.part = "all"   -> q.ask
             [] q.part = "modes" -> [q.ask EXCEPT !.model = None]
             [] q.part = "model" -> [Unset EXCEPT !.model = q.ask.model]

\* Apply, under the lock of the key: the terminal is looked up by session.
Take(r) ==
    LET q == req[r] found == Lookup(q.sid)
    IN /\ q.pc = "take" /\ locks[q.key] = None
       /\ IF q.sid = None \/ found.ext = None \/ found.drifted \/ ~ValidRequest(Part(q))
          THEN Finish(r, "error") /\ UNCHANGED locks
          ELSE /\ locks' = [locks EXCEPT ![q.key] = r]
               /\ req' = [req EXCEPT ![r].pc = "mode", ![r].ext = found.ext]
       /\ UNCHANGED <<inbox, store, muddled>> /\ Quietly

Fail(r) == Finish(r, "error") /\ locks' = [locks EXCEPT ![req[r].key] = None]
Base(key) == IF store[key].mode = None THEN "default" ELSE store[key].mode
CycleForward(current, target) ==                                             \* mutant
    IF ~InCycle(current) \/ ~InCycle(target) \/ Index(target) < Index(current) THEN 0
    ELSE Index(target) - Index(current)
CycleDistance(current, target) ==
    IF ~InCycle(current) \/ ~InCycle(target) THEN 0
    ELSE (Index(target) - Index(current) + Len(Cycle)) % Len(Cycle)

\* The presses are counted from the stored mode.
PlanPresses(r) ==
    LET q == req[r] mode == Part(q).mode
    IN /\ q.pc = "mode"
       /\ CASE mode = None -> Goto(r, "line") /\ UNCHANGED <<locks, muddled>>
            [] mode # None /\ ~InCycle(mode) -> Fail(r) /\ UNCHANGED muddled
            [] OTHER -> /\ req' = [req EXCEPT ![r].pc = "press",
                                              ![r].presses = CycleDistance(Base(q.key), mode)]
                        \* the keys go to a terminal, and the mode is
                        \* counted and stored under another
                        /\ muddled' = IF q.ext \in Wrappers /\ q.key = Ts(q.ext) THEN muddled
                                      ELSE muddled \cup ({q.ext} \cap Wrappers)
                                             \cup {w \in Wrappers : Ts(w) = q.key}
                        /\ UNCHANGED locks
       /\ UNCHANGED <<inbox, store>> /\ Quietly
Press(r) ==
    LET q == req[r]
    IN /\ q.pc = "press" /\ q.presses > 0
       /\ IF q.ext \in Terms /\ ~Live(q.ext)
          THEN Fail(r) /\ UNCHANGED <<inbox, muddled>>
          ELSE /\ req' = [req EXCEPT ![r].presses = @ - 1]
               /\ inbox' = Delivered(q.ext, Tab)
               /\ muddled' = IF DropsTab(q.ext) THEN muddled \cup {q.ext} ELSE muddled
               /\ UNCHANGED locks
       /\ UNCHANGED store /\ Quietly
RecordMode(r) ==
    /\ req[r].pc = "press" /\ req[r].presses = 0
    /\ store' = [store EXCEPT ![req[r].key].mode = Part(req[r]).mode]
    /\ Goto(r, "line")
    /\ UNCHANGED <<inbox, locks, muddled>> /\ Quietly

SendModel(r) ==
    LET q == req[r]
    IN /\ q.pc = "line"
       /\ IF Part(q).model = None THEN Goto(r, "effort") /\ UNCHANGED <<inbox, locks>>
          ELSE IF ~Live(q.ext) THEN Fail(r) /\ UNCHANGED inbox
          ELSE Goto(r, "effort") /\ inbox' = Delivered(q.ext, Slash("model", Part(q).model)) /\ UNCHANGED locks
       /\ UNCHANGED <<store, muddled>> /\ Quietly
\* The end of Apply, which releases the lock.
AfterApply(q) == CASE q.part = "model" -> "wait"
                   [] q.part = "modes" /\ q.ask.model # None -> "count"
                   [] OTHER -> "ok"
SendEffort(r) ==
    LET q == req[r] effort == Part(q).effort
    IN /\ q.pc = "effort"
       /\ locks' = [locks EXCEPT ![q.key] = None]
       /\ IF effort \in Efforts \ {"none"} /\ ~Live(q.ext)
          THEN Finish(r, "error") /\ UNCHANGED <<inbox, store>>
          ELSE /\ inbox' = IF effort \in Efforts \ {"none"} THEN Delivered(q.ext, Slash("effort", effort)) ELSE inbox
               /\ store' = IF effort = None THEN store ELSE [store EXCEPT ![q.key].effort = effort]
               /\ Goto(r, AfterApply(q))
       /\ UNCHANGED muddled /\ Quietly

\* A switch of the model is typed, looked for in the transcript, and retried.
CountSaid(q) == said[q.sid][q.target]
CountNothing(r) ==                                                           \* mutant
    /\ req[r].pc = "count"
    /\ IF req[r].sid \notin files THEN Finish(r, "error")
       ELSE req' = [req EXCEPT ![r].pc = "take", ![r].part = "model", ![r].tries = @ + 1]
    /\ UNCHANGED <<inbox, store, locks, muddled>> /\ Quietly
CountBefore(r) ==
    LET q == req[r]
    IN /\ q.pc = "count"
       /\ IF q.sid \notin files THEN Finish(r, "error")
          ELSE req' = [req EXCEPT ![r].pc = "take", ![r].part = "model",
                                  ![r].before = CountSaid(q), ![r].tries = @ + 1]
       /\ UNCHANGED <<inbox, store, locks, muddled>> /\ Quietly
Confirmed(q) == q.sid \in files /\ CountSaid(q) > q.before
Confirm(r) == /\ req[r].pc = "wait" /\ Confirmed(req[r]) /\ Goto(r, "record")
              /\ UNCHANGED <<inbox, store, locks, muddled>> /\ Quietly
\* Twenty seconds later: the command was swallowed, or is still to be taken.
Pending(q) == \E i \in DOMAIN inbox[q.ext] : inbox[q.ext][i].kind = "model"
GiveUp(r) == /\ req[r].pc = "wait" /\ ~Confirmed(req[r])
             /\ IF req[r].ext \in Wrappers /\ Pending(req[r])
                THEN Budget /\ lost < MaxLost /\ lost' = lost + 1 ELSE UNCHANGED lost
             /\ IF req[r].sid \in files /\ req[r].tries < MaxAttempts
                THEN Goto(r, "count") ELSE Finish(r, "error")
             /\ UNCHANGED <<terminals, claude, store, locks, menu, muddled, user, moves, changes>>
RecordModel(r) ==
    /\ req[r].pc = "record"
    /\ store' = [store EXCEPT ![req[r].key].model = req[r].ask.model]
    /\ Finish(r, "ok")
    /\ UNCHANGED <<inbox, locks, muddled>> /\ Quietly

-----------------------------------------------------------------------------
Init ==
    /\ reg = [t \in Terms |-> [status |-> "new", sid |-> None]]
    /\ owner = [s \in Sids |-> None]
    /\ tui = [w \in Wrappers |-> [mode |-> "default", model |-> None]]
    /\ inbox = [w \in Wrappers |-> <<>>]
    /\ files = Initial
    /\ said = [s \in Sids |-> [m \in Models |-> 0]]
    /\ seen = [s \in Sids |-> None]
    /\ store = [k \in Keys |-> Unset]
    /\ locks = [k \in Keys |-> None]
    /\ config \in Configs
    /\ lineup = [fresh |-> TRUE, options |-> CLIModels]   \* asked once
    /\ req = [r \in Requests |-> Idle]
    /\ muddled = {}
    /\ user = 0 /\ moves = 0 /\ lost = 0 /\ changes = 0

RequestStep(r) == \/ StoreField(r) \/ SpawnDraft(r) \/ Take(r) \/ PlanPresses(r) \/ Press(r)
                  \/ RecordMode(r) \/ SendModel(r) \/ SendEffort(r) \/ CountBefore(r)
                  \/ Confirm(r) \/ GiveUp(r) \/ RecordModel(r)
Next ==
    \/ QueryCLI \/ LineupExpires \/ Configure
    \/ \E r \in Requests : Begin(r) \/ RequestStep(r)
    \/ \E w \in Wrappers : \/ TakeTab(w) \/ TakeModel(w) \/ TakeEffort(w) \/ Swallow(w)
                           \/ UserTab(w) \/ UserModel(w) \/ Turn(w)
                           \/ Register(w)
                           \/ \E s \in Sids : Bind(w, s)
    \/ \E t \in Terms : Exit(t) \/ Purge(t)
    \/ \E d \in Drivers, s \in Sids : Resume(d, s)
    \/ \E s \in Sids : DeleteSession(s)

Spec == Init /\ [][Next]_vars

-----------------------------------------------------------------------------
(* Properties.                                                             *)

Values == [model : Models \cup {a.model : a \in Asks} \cup {None}, mode : Known \cup CodexModes \cup {None},
           effort : Efforts \cup {None}]
\* The types of the variables; a lock is held by a request for its session.
TypeOK ==
    /\ reg \in [Terms -> [status : {"new", "live", "exited", "gone"}, sid : Sids \cup {None}]]
    /\ owner \in [Sids -> Terms \cup {None}]
    /\ tui \in [Wrappers -> [mode : Known, model : Models \cup {None}]]
    /\ \A w \in Wrappers : Len(inbox[w]) <= InboxCap
    /\ store \in [Keys -> Values]
    /\ \A k \in Keys : locks[k] # None => req[locks[k]].key = k
    /\ \A r \in Requests : req[r].presses \in 0..2 /\ req[r].tries \in 0..MaxAttempts

\* A model enters the settings of a wrapper's terminal session only when the
\* session of the request reported the switch after the request had begun:
\* "recorded state" never runs ahead of the TUI, whatever was swallowed,
\* retried, rotated or deleted meanwhile.
RecordedModelWasConfirmed ==
    [][\A w \in Wrappers : store'[Ts(w)].model # store[Ts(w)].model =>
          \E r \in Requests : /\ req[r].key = Ts(w) /\ req[r].ask.model = store'[Ts(w)].model
                              /\ req[r].target \in req[r].reported]_vars

\* The keys that the requests type bring a TUI to the mode the pills show: once
\* those on their way have been taken, a TUI that registered in the default
\* mode, and whose mode only the daemon's keys have changed, is in the stored
\* mode, however many requests counted from one another's mode before the TUI
\* had got there.  Of a TUI whose mode the user changed, that registered in
\* another mode (after a restart of the daemon, say), lost a key, or was typed
\* into under another terminal's settings, this says nothing: the daemon never
\* learns its mode.
ModeIsCurrent ==
    /\ TypeOK
    /\ \A w \in Wrappers : Live(w) /\ Quiet(w) /\ w \notin muddled => Base(Ts(w)) = tui[w].mode

\* A model that a Get offers is one that a Set takes, unless it is the stored
\* pick and has left the configuration since.
OfferedIsAccepted ==
    MenuReady =>
      \A s \in Sids : \A res \in Resolutions(None, s) : res.driver # None =>
         \A m \in AvailableModels(res.key, s) \ {store[res.key].model, ResolveModelAlias(store[res.key].model)} :
            ValidModel(m, {CurrentRunningModel(s)})
=============================================================================
