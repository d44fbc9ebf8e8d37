------------------------ MODULE AgentSettingsProofs ------------------------
(***************************************************************************)
(* Proofs for AgentSettings: the mode the pills show is the TUI's once     *)
(* keys have been taken, a model is recorded only after the session        *)
(* reported it, and what a Get offers a Set takes.                         *)
(***************************************************************************)
EXTENDS AgentSettings, FiniteSetTheorems, FunctionTheorems, SequenceTheorems, TLAPS

-----------------------------------------------------------------------------
(* The invariant                                                           *)

LockedPcs == {"mode", "press", "line", "effort"}
OpenPcs   == {"take", "count", "wait", "record"} \cup LockedPcs
EndPcs    == {"new", "ok", "error"}
Pcs       == {"store", "spawn"} \cup OpenPcs \cup EndPcs

AskedModels == Models \cup {a.model : a \in Asks} \cup {None}
Picks == [model : AskedModels, mode : {a.mode : a \in Asks} \cup {None},
          effort : {a.effort : a \in Asks} \cup {None}]
RequestRec ==
    [pc : Pcs, key : Keys \cup {Ts(None)}, sid : Sids \cup {None},
     part : {"all", "modes", "model", None}, ext : Terms \cup {None},
     presses : 0..2, before : Nat, tries : 0..MaxAttempts, todo : SUBSET Fields,
     ask : Picks, path : {"nexus", "local", "draft", None},
     target : AskedModels, reported : SUBSET Models]
Inputs == [kind : {"tab"}, arg : {None}] \cup [kind : {"model"}, arg : Models]
          \cup [kind : {"effort"}, arg : Efforts]

\* The full types of the terminals, of what Claude keeps, and of what the
\* daemon keeps.
TermTypes ==
    /\ reg \in [Terms -> [status : {"new", "live", "exited", "gone"}, sid : Sids \cup {None}]]
    /\ owner \in [Sids -> Terms \cup {None}]
ClaudeTypes ==
    /\ tui \in [Wrappers -> [mode : Known, model : Models \cup {None}]]
    /\ inbox \in [Wrappers -> Seq(Inputs)] /\ \A w \in Wrappers : Len(inbox[w]) <= InboxCap
    /\ files \subseteq Sids
    /\ said \in [Sids -> [Models -> Nat]]
    /\ seen \in [Sids -> Models \cup {None}]
MenuTypes ==
    /\ config \in Configs
    /\ lineup \in [fresh : BOOLEAN, options : {CLIModels, {}}]
DaemonTypes ==
    /\ store \in [Keys -> Values]
    /\ locks \in [Keys -> Requests \cup {None}]
    /\ req \in [Requests -> RequestRec]
    /\ muddled \subseteq Wrappers
Types == TermTypes /\ ClaudeTypes /\ MenuTypes /\ DaemonTypes

\* No wrapper opens a session of Codex's, and the TUI of a terminal that is not
\* registered is taken to be in the default mode.
TermInv ==
    /\ \A s \in Sids : owner[s] \in Wrappers => s \notin Headless
    /\ \A w \in Wrappers : reg[w].sid \notin Headless
    /\ \A w \in Wrappers : reg[w].status = "new" => tui[w].mode = "default"

\* What a request is known to be at each of its steps.
Headed(q) ==
    /\ q.pc \notin EndPcs => q.key \in Keys /\ q.part # None
    /\ q.pc \in {"store", "spawn"} =>
          q.ask \in Values /\ \A w \in Wrappers : q.key # Ts(w)
    /\ q.pc \in {"store", "spawn"} /\ q.path = "draft" => q.sid \in Sids
    /\ q.pc = "spawn" => q.path = "draft"
Typed(q) ==
    /\ q.pc \in OpenPcs => q.ask.model \in Models \cup {None}
    /\ q.pc \in OpenPcs /\ q.ask.model # None => q.target \in Models
    /\ q.pc \in {"count", "wait", "record"} \/ q.part = "model" => q.ask.model # None
    /\ q.pc \in LockedPcs \cup {"wait", "record"} \/ q.part = "model" => q.sid \in Sids
    /\ q.pc \in LockedPcs => ValidRequest(Part(q)) /\ q.ext \in Terms
    /\ q.pc = "press" => InCycle(Part(q).mode)
    /\ q.part # "model" => q.tries = 0
    /\ q.pc = "count" => q.tries < MaxAttempts
    /\ q.pc \in {"wait", "record"} => q.part = "model"
    /\ q.part = "model" => q.pc \in OpenPcs
ReqInv ==
    \A r \in Requests :
       /\ Headed(req[r]) /\ Typed(req[r])
       /\ req[r].ext # None => reg[req[r].ext].status # "new"
LockInv ==
    /\ \A r \in Requests : req[r].pc \in LockedPcs => locks[req[r].key] = r
    /\ \A k \in Keys : locks[k] # None => req[locks[k]].key = k /\ req[locks[k]].pc \in LockedPcs

\* A switch that was confirmed was reported after it was counted.
SwitchInv ==
    \A r \in Requests :
       /\ req[r].part = "model" /\ said[req[r].sid][req[r].target] > req[r].before
             => req[r].target \in req[r].reported
       /\ req[r].pc = "record" => req[r].target \in req[r].reported

\* Back-tabs on their way, and how far the TUI will have cycled with them.
Tabs(w) == Cardinality(TabsIn(inbox[w]))
Typing(r, w) == req[r].pc = "press" /\ (req[r].ext = w \/ req[r].key = Ts(w))
Coming(w)   == reg[w].status \in {"new", "live"}
Followed(w) == Coming(w) /\ w \notin muddled
TypingInv ==
    \A w \in Wrappers, r \in Requests : Typing(r, w) /\ w \notin muddled =>
       req[r].ext = w /\ req[r].key = Ts(w)
Arrives(r, w) ==
    /\ InCycle(tui[w].mode)
    /\ Index(Part(req[r]).mode) = ((Index(tui[w].mode) - 1 + Tabs(w) + req[r].presses) % 3) + 1
PressInv == \A w \in Wrappers, r \in Requests : Followed(w) /\ Typing(r, w) => Arrives(r, w)
\* With no request typing, the keys on their way bring the TUI to the stored mode.
Arrived(w) ==
    /\ InCycle(tui[w].mode) /\ InCycle(Base(Ts(w)))
    /\ Index(Base(Ts(w))) = ((Index(tui[w].mode) - 1 + Tabs(w)) % 3) + 1
ModeInv == \A w \in Wrappers : Followed(w) /\ ~ModeTyping(w) => Arrived(w)

FollowInv == TypingInv /\ PressInv /\ ModeInv
Inv == Types /\ TermInv /\ ReqInv /\ LockInv /\ SwitchInv /\ FollowInv

-----------------------------------------------------------------------------
(* Constants and names of models                                           *)

LEMMA Names ==
  /\ Wrappers \subseteq Terms /\ Drivers \subseteq Terms
  /\ Wrappers \cap Drivers = {}
  /\ None \notin Terms /\ None \notin Sids /\ None \notin Requests /\ None \notin Models
  /\ \A t \in Terms : Ts(t) \in Keys /\ Ts(None) # Ts(t)
  /\ \A s \in Sids : Sdk(s) \in Keys /\ Sdk(s) # Ts(None)
  /\ \A t, u : Ts(t) = Ts(u) => t = u
  /\ \A t, s : Ts(t) # Sdk(s)
  /\ InboxCap \in Nat \ {0} /\ MaxAttempts \in Nat \ {0}
  BY SettingsAssumption DEF Terms, Keys, Ts, Sdk

LEMMA ConfigTyped ==
  ASSUME MenuTypes
  PROVE  /\ config.field \in Custom \cup {None} /\ config.target \in Custom \cup {None}
         /\ config.custom \in BOOLEAN /\ config.custom => config.target \in Custom
         /\ lineup.options \subseteq Models
  BY SettingsAssumption DEF MenuTypes, Models

LEMMA ConcreteTyped ==
  ASSUME MenuTypes, NEW m \in Models
  PROVE  Concrete(m) \in Models
  <1>1. (CHOOSE o \in Official : TRUE) \in Official
    BY SettingsAssumption
  <1>. QED
    BY <1>1, ConfigTyped DEF Concrete, Models

LEMMA TargetTyped ==
  ASSUME MenuTypes, NEW m
  PROVE  /\ m \in Models => ExpectedTarget(m) \in Models
         /\ m \in AskedModels => ExpectedTarget(m) \in AskedModels
  BY ConfigTyped DEF ExpectedTarget, ResolveModelAlias, Models, AskedModels

LEMMA RunningTyped ==
  ASSUME MenuTypes, ClaudeTypes, NEW s
  PROVE  CurrentRunningModel(s) \in Models \cup {None}
  BY ConfigTyped DEF CurrentRunningModel, EffectiveDefaultModel, ClaudeTypes, Models

\* A model that a Set takes is a name of Claude's.
LEMMA ValidTyped ==
  ASSUME MenuTypes, NEW m, NEW extra \in SUBSET (Models \cup {None}), ValidModel(m, extra)
  PROVE  m \in Models \cup {None}
  BY ConfigTyped DEF ValidModel, ReadModelOptions, Lineup, Models

-----------------------------------------------------------------------------
(* The record of a request                                                 *)

Good(q) == q \in RequestRec /\ Headed(q) /\ Typed(q)

LEMMA PartIs ==
  ASSUME NEW q, q \in RequestRec
  PROVE  /\ q.part = "all"   => Part(q) = q.ask
         /\ q.part = "modes" => Part(q) = [q.ask EXCEPT !.model = None]
         /\ q.part = "model" => Part(q) = [Unset EXCEPT !.model = q.ask.model]
  BY DEF Part

LEMMA PartFields ==
  ASSUME NEW q, q \in RequestRec, q.part \in {"all", "modes", "model"}
  PROVE  /\ Part(q) \in Picks
         /\ Part(q).model \in {q.ask.model, None}
         /\ q.part \in {"all", "modes"} => Part(q).mode = q.ask.mode /\ Part(q).effort = q.ask.effort
         /\ q.part = "model" => Part(q).mode = None /\ Part(q).effort = None
  <1>1. q.ask \in Picks /\ None \in AskedModels
    BY DEF RequestRec, AskedModels
  <1>2. CASE q.part = "all"
    BY <1>1, <1>2, PartIs
  <1>3. CASE q.part = "modes"
    BY <1>1, <1>3, PartIs DEF Picks
  <1>4. CASE q.part = "model"
    BY <1>1, <1>4, PartIs DEF Picks, Unset
  <1>. QED
    BY <1>2, <1>3, <1>4

\* What one Apply carries out is told by the part and the ask alone.
LEMMA PartSame ==
  ASSUME NEW q, NEW p, p.part = q.part, p.ask = q.ask
  PROVE  Part(p) = Part(q)
  BY DEF Part

LEMMA IdleTyped ==
  /\ Idle \in RequestRec
  /\ \A pc \in Pcs : [Idle EXCEPT !.pc = pc] \in RequestRec
  BY Names DEF Idle, Unset, RequestRec, Picks, AskedModels, Pcs, EndPcs, Fields

LEMMA IdleGood ==
  ASSUME NEW pc \in EndPcs
  PROVE  /\ Good([Idle EXCEPT !.pc = pc])
         /\ [Idle EXCEPT !.pc = pc].pc = pc /\ [Idle EXCEPT !.pc = pc].ext = None
         /\ [Idle EXCEPT !.pc = pc].part = None
  <1>1. [Idle EXCEPT !.pc = pc] \in RequestRec
    BY IdleTyped DEF Pcs
  <1>2. /\ [Idle EXCEPT !.pc = pc].pc = pc /\ [Idle EXCEPT !.pc = pc].ext = None
        /\ [Idle EXCEPT !.pc = pc].part = None /\ [Idle EXCEPT !.pc = pc].tries = 0
    BY DEF Idle
  <1>3. None # "model"
    BY DEF None
  <1>. HIDE DEF Idle
  <1>. DEFINE q == [Idle EXCEPT !.pc = pc]
  <1>4. q.pc = pc /\ q.part = None /\ q.tries = 0
    BY <1>2
  <1>. HIDE DEF q
  <1>5. Headed(q) /\ Typed(q)
    BY <1>3, <1>4 DEF Headed, Typed, EndPcs, OpenPcs, LockedPcs
  <1>. QED
    BY <1>1, <1>2, <1>5 DEF Good, q

-----------------------------------------------------------------------------
(* A request begins                                                        *)

\* The step changes the record of one request, to a good one.
Moves(r) == req' = [req EXCEPT ![r] = req'[r]] /\ Good(req'[r])

LEMMA FinishMoves ==
  ASSUME req \in [Requests -> RequestRec], NEW r \in Requests, NEW pc \in EndPcs, Finish(r, pc)
  PROVE  /\ Moves(r) /\ req'[r].pc = pc
         /\ req'[r].ext = None /\ req'[r].part = None
  <1>1. req'[r] = [Idle EXCEPT !.pc = pc] /\ req' = [req EXCEPT ![r] = req'[r]]
    BY DEF Finish
  <1>. HIDE DEF Idle
  <1>. QED
    BY <1>1, IdleGood DEF Moves

LEMMA ResolvedTyped ==
  ASSUME TermTypes, TermInv, files \subseteq Sids,
         NEW ts \in Terms \cup {None}, NEW s \in Sids \cup {None},
         NEW res \in Resolutions(ts, s), res.driver # None
  PROVE  /\ res.key \in Keys /\ res.sid \in Sids \cup {None} /\ res.driver \in {"pty", "sdk"}
         /\ res.driver = "sdk" => \A w \in Wrappers : res.key # Ts(w)
         /\ ts = None /\ s \in Headless => res.driver = "sdk"
  <1>1. NotAttached.driver = None
    BY DEF NotAttached, Resolved
  <1>2. CASE ts # None /\ Listed(ts)
    <2>1. res = OfTerm(ts) /\ reg[ts].sid \in Sids \cup {None}
      BY <1>2 DEF Resolutions, TermTypes
    <2>. QED
      BY <1>2, <2>1, Names DEF OfTerm, Resolved, Terms
  <1>3. CASE ~(ts # None /\ Listed(ts)) /\ s \in Sids
    <2>. DEFINE Owned == {t \in Terms : Listed(t) /\ reg[t].sid = s}
    <2>1. \/ res = Resolved("sdk", Sdk(s), s)
          \/ /\ Lookup(s).ext \in Wrappers
             /\ \E t \in Owned : res = Resolved("pty", Ts(t), s)
      BY <1>1, <1>3, Names DEF Resolutions
    <2>2. Lookup(s).ext \in Wrappers => s \notin Headless
      <3>1. Lookup(s).ext \in {None, owner[s]}
        BY DEF Lookup
      <3>. QED
        BY <1>3, <3>1, Names DEF TermInv
    <2>. QED
      BY <1>3, <2>1, <2>2, Names DEF Resolved
  <1>4. CASE ~(ts # None /\ Listed(ts)) /\ s = None
    <2>1. res = NotAttached
      BY <1>4 DEF Resolutions
    <2>. QED
      BY <1>1, <2>1
  <1>. QED
    BY <1>2, <1>3, <1>4

LEMMA AskTyped ==
  ASSUME NEW a \in Asks
  PROVE  /\ a.ts \in Terms \cup {None} /\ a.sid \in Sids \cup {None}
         /\ a.path \in {"nexus", "local", "draft"} /\ a.agent \in {"claude", "codex"}
         /\ Wants(a) \in Picks /\ Wants(a).model = a.model
         /\ Wants(a).mode = a.mode /\ Wants(a).effort = a.effort
  <1>1. a.model \in AskedModels
    BY DEF AskedModels
  <1>2. /\ a.ts \in Terms \cup {None} /\ a.sid \in Sids \cup {None}
        /\ a.path \in {"nexus", "local", "draft"} /\ a.agent \in {"claude", "codex"}
    BY SettingsAssumption
  <1>. QED
    BY <1>1, <1>2 DEF Wants, Fields, Picks

\* What the daemon stores for a headless session is a setting.
LEMMA AcceptedStores ==
  ASSUME Types, NEW a \in Asks, NEW res, Accepts(a, res),
         res.sid \in Sids \cup {None}, a.agent = "codex" \/ res.driver = "sdk"
  PROVE  Wants(a) \in Values
  <1>1. a.model \in Models \cup {b.model : b \in Asks} \cup {None}
    OBVIOUS
  <1>2. a.mode \in Known \cup CodexModes \cup {None} /\ a.effort \in Efforts \cup {None}
    <2>1. CASE a.agent = "codex"
      BY <2>1 DEF Accepts, ValidCodex, CodexEfforts, Efforts
    <2>2. CASE a.agent # "codex"
      BY <2>2 DEF Accepts, ValidRequest
    <2>. QED
      BY <2>1, <2>2
  <1>. QED
    BY <1>1, <1>2 DEF Wants, Fields, Values

LEMMA AcceptedIsClaudes ==
  ASSUME Types, NEW a \in Asks, NEW res, Accepts(a, res), a.agent # "codex"
  PROVE  a.model \in Models \cup {None}
  <1>1. PICK extra \in SUBSET (Models \cup {None}) : ValidModel(a.model, extra)
    <2>1. {CurrentRunningModel(IF res.sid # None THEN res.sid ELSE a.sid)} \subseteq Models \cup {None}
      BY RunningTyped DEF Types
    <2>. QED
      BY <2>1 DEF Accepts
  <1>. QED
    BY <1>1, ValidTyped DEF Types

LEMMA StartMoves ==
  ASSUME Types, NEW r \in Requests, NEW a \in Asks, NEW res,
         res.key \in Keys, res.sid \in Sids \cup {None},
         NEW pc \in {"ok", "store", "take", "count"}, Start(r, a, res, pc),
         pc = "store" => Wants(a) \in Values /\ \A w \in Wrappers : res.key # Ts(w),
         a.path = "draft" => res.sid \in Sids,
         pc \in {"take", "count"} => a.model \in Models \cup {None},
         pc = "count" => a.model # None
  PROVE  Moves(r) /\ req'[r].pc = pc /\ req'[r].ext = None /\ req'[r].part # "model"
  <1>1. CASE pc = "ok"
    <2>1. Finish(r, pc)
      BY <1>1 DEF Start
    <2>. QED
      BY <1>1, <2>1, FinishMoves DEF Types, DaemonTypes, EndPcs, None
  <1>2. CASE pc # "ok"
    <2>. DEFINE sid == IF res.sid # None THEN res.sid ELSE a.sid
                part == IF a.path = "local" THEN "all" ELSE "modes"
                q == [Idle EXCEPT !.pc = pc, !.key = res.key, !.path = a.path,
                        !.sid = sid, !.part = part,
                        !.ask = Wants(a), !.todo = Given(a), !.target = ExpectedTarget(a.model)]
    <2>1. req' = [req EXCEPT ![r] = q] /\ req'[r] = q
      BY <1>2 DEF Start, Types, DaemonTypes
    <2>2. /\ q.pc = pc /\ q.key = res.key /\ q.sid = sid /\ q.path = a.path
          /\ q.part = part /\ q.ask = Wants(a) /\ q.target = ExpectedTarget(a.model)
          /\ q.tries = 0 /\ q.ext = None
      BY DEF Idle
    <2>3. q \in RequestRec
      <3>1. Idle \in RequestRec /\ pc \in Pcs
        BY IdleTyped DEF Pcs, OpenPcs, EndPcs
      <3>2. sid \in Sids \cup {None} /\ Wants(a) \in Picks /\ a.path \in {"nexus", "local", "draft"}
        BY AskTyped
      <3>3. ExpectedTarget(a.model) \in AskedModels /\ Given(a) \in SUBSET Fields
        BY TargetTyped DEF Types, AskedModels, Given
      <3>. HIDE DEF sid, Idle
      <3>. QED
        BY <3>1, <3>2, <3>3 DEF RequestRec
    <2>. HIDE DEF q
    <2>4. a.path = "draft" => q.sid \in Sids
      BY <2>2, Names
    <2>5. Headed(q)
      BY <1>2, <2>2, <2>4 DEF Headed, None
    <2>6. q.ask.model = a.model /\ (a.model \in Models => q.target \in Models)
      BY <2>2, AskTyped, TargetTyped DEF Types
    <2>7. Typed(q)
      <3>1. q.part # "model" /\ q.pc \in {"store", "take", "count"}
        BY <1>2, <2>2
      <3>. QED
        BY <3>1, <2>2, <2>6, Names DEF Typed, OpenPcs, LockedPcs
    <2>. QED
      BY <2>1, <2>2, <2>3, <2>5, <2>7 DEF Moves, Good
  <1>. QED
    BY <1>1, <1>2

LEMMA BeginMoves ==
  ASSUME Inv, NEW r \in Requests, Begin(r)
  PROVE  /\ Moves(r) /\ req'[r].ext = None /\ req'[r].part # "model"
         /\ req'[r].pc \in {"ok", "error", "store", "take", "count"}
  <1>1. TermTypes /\ TermInv /\ Types /\ files \subseteq Sids /\ req \in [Requests -> RequestRec]
    BY DEF Inv, Types, ClaudeTypes, DaemonTypes
  <1>. DEFINE P == /\ Moves(r) /\ req'[r].ext = None /\ req'[r].part # "model"
                   /\ req'[r].pc \in {"ok", "error", "store", "take", "count"}
  <1>2. ASSUME Finish(r, "error") PROVE P
    BY <1>1, <1>2, FinishMoves DEF EndPcs, None
  <1>3. ASSUME NEW a \in Asks, a.path = "nexus", Set(r, a) PROVE P
    <2>1. PICK res \in Resolutions(a.ts, a.sid) :
             IF res.driver = None \/ ~Accepts(a, res) THEN Finish(r, "error")
             ELSE Start(r, a, res, FirstStep(a, res))
      BY <1>3 DEF Set
    <2>2. CASE res.driver # None /\ Accepts(a, res)
      <3>. DEFINE pc == FirstStep(a, res)
      <3>1. Start(r, a, res, pc)
        BY <2>1, <2>2
      <3>2. /\ res.key \in Keys /\ res.sid \in Sids \cup {None} /\ res.driver \in {"pty", "sdk"}
            /\ res.driver = "sdk" => \A w \in Wrappers : res.key # Ts(w)
            /\ a.ts = None /\ a.sid \in Headless => res.driver = "sdk"
        BY <1>1, <2>2, ResolvedTyped, AskTyped
      <3>3. a.agent = "codex" => res.driver = "sdk"
        BY <3>2, SettingsAssumption
      <3>4. /\ pc \in {"ok", "store", "take", "count"}
            /\ pc = "store" => res.driver = "sdk"
            /\ pc # "store" => a.agent # "codex"
            /\ pc = "count" => a.model # None
        BY <3>3 DEF FirstStep
      <3>5. pc = "store" => Wants(a) \in Values /\ \A w \in Wrappers : res.key # Ts(w)
        BY <1>1, <2>2, <3>2, <3>4, AcceptedStores
      <3>6. pc # "store" => a.model \in Models \cup {None}
        BY <1>1, <2>2, <3>4, AcceptedIsClaudes
      <3>. HIDE DEF pc
      <3>7. Moves(r) /\ req'[r].pc = pc /\ req'[r].ext = None /\ req'[r].part # "model"
        BY <1>1, <1>3, <3>1, <3>2, <3>4, <3>5, <3>6, StartMoves
      <3>. QED
        BY <3>4, <3>7
    <2>. QED
      BY <1>2, <2>1, <2>2
  <1>4. ASSUME NEW a \in Asks, a.path = "local", PostSettings(r, a) PROVE P
    <2>. DEFINE res == Resolved("pty", Ts(a.ts), reg[a.ts].sid)
    <2>1. IF ~Listed(a.ts) \/ ~Accepts(a, res) THEN Finish(r, "error") ELSE Start(r, a, res, "take")
      BY <1>4 DEF PostSettings
    <2>2. CASE Accepts(a, res) /\ Start(r, a, res, "take")
      <3>1. a.ts \in Terms /\ a.agent # "codex"
        BY <1>4, SettingsAssumption
      <3>2. res.key \in Keys /\ res.sid \in Sids \cup {None}
        BY <1>1, <3>1, Names DEF Resolved, TermTypes
      <3>. HIDE DEF res
      <3>3. a.model \in Models \cup {None}
        BY <1>1, <2>2, <3>1, AcceptedIsClaudes
      <3>4. Moves(r) /\ req'[r].pc = "take" /\ req'[r].ext = None /\ req'[r].part # "model"
        BY <1>1, <1>4, <2>2, <3>2, <3>3, StartMoves
      <3>. QED
        BY <3>4
    <2>. QED
      BY <1>2, <2>1, <2>2
  <1>5. ASSUME NEW a \in Asks, a.path = "draft", EnsureNewDriver(r, a) PROVE P
    <2>. DEFINE res == Resolved("sdk", Sdk(a.sid), a.sid)
    <2>1. IF ~Accepts(a, res) THEN Finish(r, "error") ELSE Start(r, a, res, "store")
      BY <1>5 DEF EnsureNewDriver
    <2>2. CASE Accepts(a, res) /\ Start(r, a, res, "store")
      <3>1. a.sid \in Sids
        BY <1>5, SettingsAssumption
      <3>2. res.key = Sdk(a.sid) /\ res.sid = a.sid /\ res.driver = "sdk"
        BY DEF Resolved
      <3>. HIDE DEF res
      <3>3. res.key \in Keys /\ \A w \in Wrappers : res.key # Ts(w)
        BY <3>1, <3>2, Names
      <3>4. Wants(a) \in Values
        BY <1>1, <2>2, <3>1, <3>2, AcceptedStores
      <3>5. Moves(r) /\ req'[r].pc = "store" /\ req'[r].ext = None /\ req'[r].part # "model"
        BY <1>1, <1>5, <2>2, <3>1, <3>2, <3>3, <3>4, StartMoves
      <3>. QED
        BY <3>5
    <2>. QED
      BY <1>2, <2>1, <2>2
  <1>. QED
    BY <1>3, <1>4, <1>5 DEF Begin

-----------------------------------------------------------------------------
(* A request goes on                                                       *)

\* The record of a request that only changes its step.
LEMMA GotoMoves ==
  ASSUME req \in [Requests -> RequestRec], NEW r \in Requests, NEW pc \in Pcs \ {"ok"}, Goto(r, pc)
  PROVE  /\ req' = [req EXCEPT ![r] = req'[r]] /\ req'[r] \in RequestRec
         /\ req'[r] = [req[r] EXCEPT !.pc = pc]
  BY DEF Goto, RequestRec

LEMMA StoreFieldMoves ==
  ASSUME Inv, NEW r \in Requests, StoreField(r)
  PROVE  /\ Moves(r) /\ req[r].pc = "store" /\ req'[r].pc \in {"store", "spawn", "ok"}
         /\ \/ req'[r].part = None
            \/ /\ req'[r].part = req[r].part /\ req'[r].sid = req[r].sid
               /\ req'[r].target = req[r].target /\ req'[r].before = req[r].before
               /\ req'[r].reported = req[r].reported
         /\ req'[r].ext \in {req[r].ext, None}
  <1>1. req \in [Requests -> RequestRec] /\ Good(req[r]) /\ req[r].pc = "store"
    BY DEF Inv, Types, DaemonTypes, ReqInv, Good, StoreField
  <1>2. CASE Finish(r, "ok")
    BY <1>1, <1>2, FinishMoves DEF EndPcs, None
  <1>3. CASE Goto(r, "spawn") /\ req[r].path = "draft"
    <2>. DEFINE q == [req[r] EXCEPT !.pc = "spawn"]
    <2>1. req' = [req EXCEPT ![r] = q] /\ req'[r] = q /\ q \in RequestRec
      BY <1>1, <1>3, GotoMoves DEF Pcs
    <2>2. Headed(q) /\ Typed(q)
      BY <1>1, <1>3 DEF Good, Headed, Typed, RequestRec, OpenPcs, LockedPcs, EndPcs
    <2>. QED
      BY <1>1, <2>1, <2>2 DEF Moves, Good, RequestRec
  <1>4. CASE \E f \in Fields : req' = [req EXCEPT ![r].todo = @ \ {f}]
    <2>1. PICK f \in Fields : req' = [req EXCEPT ![r].todo = @ \ {f}]
      BY <1>4
    <2>. DEFINE q == [req[r] EXCEPT !.todo = @ \ {f}]
    <2>2. req' = [req EXCEPT ![r] = q] /\ req'[r] = q /\ q \in RequestRec
      BY <1>1, <2>1 DEF RequestRec
    <2>3. Headed(q) /\ Typed(q)
      <3>1. /\ q.pc = req[r].pc /\ q.key = req[r].key /\ q.part = req[r].part /\ q.ask = req[r].ask
            /\ q.path = req[r].path /\ q.sid = req[r].sid /\ q.tries = req[r].tries
            /\ q.target = req[r].target /\ q.ext = req[r].ext
        BY <1>1 DEF RequestRec
      <3>2. Part(q) = Part(req[r])
        BY <3>1, PartSame
      <3>. QED
        BY <1>1, <3>1, <3>2 DEF Good, Headed, Typed
    <2>. QED
      BY <1>1, <2>2, <2>3 DEF Moves, Good, RequestRec
  <1>5. Finish(r, "ok") \/ (Goto(r, "spawn") /\ req[r].path = "draft")
        \/ \E f \in Fields : req' = [req EXCEPT ![r].todo = @ \ {f}]
    <2>1. CASE req[r].todo = {}
      BY <2>1 DEF StoreField, Goto
    <2>2. CASE req[r].todo # {}
      BY <2>2 DEF StoreField, Fields
    <2>. QED
      BY <2>1, <2>2
  <1>. QED
    BY <1>2, <1>3, <1>4, <1>5

LEMMA SpawnDraftMoves ==
  ASSUME Inv, NEW r \in Requests, SpawnDraft(r)
  PROVE  /\ Moves(r) /\ req[r].pc = "spawn" /\ req'[r].pc \in {"ok", "error"}
         /\ req'[r].ext = None /\ req'[r].part = None
  BY FinishMoves DEF SpawnDraft, EndPcs, None, Inv, Types, DaemonTypes

LEMMA TakeMoves ==
  ASSUME Inv, NEW r \in Requests, Take(r)
  PROVE  /\ Moves(r) /\ req[r].pc = "take"
         /\ \/ /\ req'[r].pc = "error" /\ locks' = locks
               /\ req'[r].ext = None /\ req'[r].part = None
            \/ /\ \E t \in Terms : Live(t) /\ req'[r] = [req[r] EXCEPT !.pc = "mode", !.ext = t]
               /\ locks[req[r].key] = None /\ locks' = [locks EXCEPT ![req[r].key] = r]
  <1>1. req \in [Requests -> RequestRec] /\ Good(req[r]) /\ req[r].pc = "take"
    BY DEF Inv, Types, DaemonTypes, ReqInv, Good, Take
  <1>2. CASE Finish(r, "error") /\ UNCHANGED locks
    BY <1>1, <1>2, FinishMoves DEF EndPcs, None
  <1>3. CASE ~(Finish(r, "error") /\ UNCHANGED locks)
    <2>. DEFINE t == Lookup(req[r].sid).ext
                q == [req[r] EXCEPT !.pc = "mode", !.ext = t]
    <2>1. /\ t # None /\ req[r].sid # None /\ ValidRequest(Part(req[r]))
          /\ locks[req[r].key] = None
          /\ locks' = [locks EXCEPT ![req[r].key] = r]
          /\ req' = [req EXCEPT ![r].pc = "mode", ![r].ext = t]
      BY <1>3 DEF Take
    <2>2. t \in Terms /\ Live(t) /\ req[r].sid \in Sids
      <3>1. req[r].sid \in Sids
        BY <1>1, <2>1 DEF RequestRec
      <3>2. owner[req[r].sid] \in Terms \cup {None}
        BY <3>1 DEF Inv, Types, TermTypes
      <3>. QED
        BY <2>1, <3>1, <3>2 DEF Lookup
    <2>. HIDE DEF t
    <2>3. req' = [req EXCEPT ![r] = q] /\ req'[r] = q /\ q \in RequestRec
      <3>1. req' = [req EXCEPT ![r] = q] /\ req'[r] = q
        BY <1>1, <2>1
      <3>2. "mode" \in Pcs
        BY DEF Pcs, OpenPcs, LockedPcs
      <3>3. q \in RequestRec
        BY <1>1, <2>2, <3>2 DEF RequestRec
      <3>. QED
        BY <3>1, <3>3
    <2>4. Headed(q) /\ Typed(q)
      <3>1. /\ q.pc = "mode" /\ q.ext = t /\ q.key = req[r].key /\ q.part = req[r].part
            /\ q.ask = req[r].ask /\ q.sid = req[r].sid
            /\ q.tries = req[r].tries /\ q.target = req[r].target
        BY <1>1 DEF RequestRec
      <3>2. Part(q) = Part(req[r])
        BY <3>1, PartSame
      <3>. QED
        BY <1>1, <2>1, <2>2, <3>1, <3>2 DEF Good, Headed, Typed, OpenPcs, LockedPcs, EndPcs
    <2>. QED
      BY <1>1, <2>1, <2>2, <2>3, <2>4 DEF Moves, Good
  <1>. QED
    BY <1>2, <1>3

\* A request that holds a lock and keeps its part goes to another step.
LEMMA LockedMoves ==
  ASSUME NEW q, Good(q), q.pc \in LockedPcs,
         NEW pc \in LockedPcs, NEW n \in 0..2, pc = "press" => InCycle(Part(q).mode)
  PROVE  Good([q EXCEPT !.pc = pc, !.presses = n])
  <1>. DEFINE p == [q EXCEPT !.pc = pc, !.presses = n]
  <1>1. p \in RequestRec
    BY DEF Good, RequestRec, Pcs, OpenPcs
  <1>2. /\ p.pc = pc /\ p.ext = q.ext /\ p.key = q.key /\ p.part = q.part
        /\ p.ask = q.ask /\ p.sid = q.sid /\ p.tries = q.tries /\ p.target = q.target
    BY DEF Good, RequestRec
  <1>3. Part(p) = Part(q)
    BY <1>2, PartSame
  <1>. HIDE DEF p
  <1>4. Headed(p) /\ Typed(p)
    BY <1>2, <1>3 DEF Good, Headed, Typed, OpenPcs, LockedPcs, EndPcs
  <1>. QED
    BY <1>1, <1>4 DEF Good, p

LEMMA FailMoves ==
  ASSUME Inv, NEW r \in Requests, Fail(r)
  PROVE  /\ Moves(r) /\ req'[r].pc = "error" /\ req'[r].ext = None /\ req'[r].part = None
         /\ locks' = [locks EXCEPT ![req[r].key] = None]
  BY FinishMoves DEF Fail, EndPcs, None, Inv, Types, DaemonTypes

LEMMA CycleFacts ==
  /\ Len(Cycle) = 3 /\ Cycle[1] = "default" /\ Cycle[2] = "acceptEdits" /\ Cycle[3] = "plan"
  /\ \A m : InCycle(m) <=> m \in {"default", "acceptEdits", "plan"}
  /\ Index("default") = 1 /\ Index("acceptEdits") = 2 /\ Index("plan") = 3
  /\ \A m : InCycle(m) => Index(m) \in 1..3 /\ Cycle[Index(m)] = m
  <1>1. Len(Cycle) = 3 /\ Cycle[1] = "default" /\ Cycle[2] = "acceptEdits" /\ Cycle[3] = "plan"
    BY DEF Cycle
  <1>2. \A m : InCycle(m) <=> m \in {"default", "acceptEdits", "plan"}
    BY <1>1 DEF InCycle
  <1>3. Index("default") = 1 /\ Index("acceptEdits") = 2 /\ Index("plan") = 3
    <2>1. 1..Len(Cycle) = {1, 2, 3}
      BY <1>1
    <2>. QED
      BY <1>1, <2>1 DEF Index
  <1>. QED
    BY <1>1, <1>2, <1>3

LEMMA DistanceIs ==
  ASSUME NEW m, NEW n
  PROVE  /\ CycleDistance(m, n) \in 0..2
         /\ InCycle(m) /\ InCycle(n) =>
               Index(n) = ((Index(m) - 1 + CycleDistance(m, n)) % 3) + 1
  <1>1. CASE ~InCycle(m) \/ ~InCycle(n)
    BY <1>1 DEF CycleDistance
  <1>2. CASE InCycle(m) /\ InCycle(n)
    <2>1. Index(m) \in {1, 2, 3} /\ Index(n) \in {1, 2, 3}
      BY <1>2, CycleFacts
    <2>2. CycleDistance(m, n) = (Index(n) - Index(m) + 3) % 3
      BY <1>2, CycleFacts DEF CycleDistance
    <2>. HIDE DEF CycleDistance, Index
    <2>. QED
      BY <2>1, <2>2
  <1>. QED
    BY <1>1, <1>2

LEMMA PlanMoves ==
  ASSUME Inv, NEW r \in Requests, PlanPresses(r)
  PROVE  /\ Moves(r) /\ req[r].pc = "mode"
         /\ \/ Fail(r) /\ req'[r].pc = "error" /\ muddled' = muddled
            \/ req'[r] = [req[r] EXCEPT !.pc = "line"] /\ locks' = locks /\ muddled' = muddled
            \/ /\ InCycle(Part(req[r]).mode) /\ locks' = locks
               /\ req'[r] = [req[r] EXCEPT !.pc = "press",
                    !.presses = CycleDistance(Base(req[r].key), Part(req[r]).mode)]
               /\ muddled' = IF req[r].ext \in Wrappers /\ req[r].key = Ts(req[r].ext)
                             THEN muddled
                             ELSE muddled \cup ({req[r].ext} \cap Wrappers)
                                    \cup {w \in Wrappers : Ts(w) = req[r].key}
  <1>1. req \in [Requests -> RequestRec] /\ Good(req[r]) /\ req[r].pc = "mode"
    BY DEF Inv, Types, DaemonTypes, ReqInv, Good, PlanPresses
  <1>. DEFINE mode == Part(req[r]).mode
  <1>2. CASE mode = None
    <2>1. Goto(r, "line") /\ locks' = locks /\ muddled' = muddled
      BY <1>2 DEF PlanPresses
    <2>2. req' = [req EXCEPT ![r] = req'[r]] /\ req'[r] = [req[r] EXCEPT !.pc = "line"]
      BY <1>1, <2>1, GotoMoves DEF Pcs, OpenPcs, LockedPcs
    <2>3. req'[r] = [req[r] EXCEPT !.pc = "line", !.presses = req[r].presses] /\ req[r].presses \in 0..2
      BY <1>1, <2>2 DEF RequestRec
    <2>4. "line" \in LockedPcs /\ "mode" \in LockedPcs /\ "line" # "press"
      BY DEF LockedPcs
    <2>5. Good([req[r] EXCEPT !.pc = "line", !.presses = req[r].presses])
      BY <1>1, <2>3, <2>4, LockedMoves
    <2>. QED
      BY <1>1, <2>1, <2>2, <2>3, <2>5 DEF Moves
  <1>3. CASE mode # None /\ ~InCycle(mode)
    <2>1. Fail(r) /\ muddled' = muddled
      BY <1>3 DEF PlanPresses
    <2>. QED
      BY <1>1, <2>1, FailMoves
  <1>4. CASE mode # None /\ InCycle(mode)
    <2>. DEFINE n == CycleDistance(Base(req[r].key), mode)
                q == [req[r] EXCEPT !.pc = "press", !.presses = n]
    <2>1. req' = [req EXCEPT ![r].pc = "press", ![r].presses = n] /\ locks' = locks
      BY <1>4 DEF PlanPresses
    <2>2. n \in 0..2
      BY DistanceIs
    <2>3. muddled' = IF req[r].ext \in Wrappers /\ req[r].key = Ts(req[r].ext)
                     THEN muddled
                     ELSE muddled \cup ({req[r].ext} \cap Wrappers)
                            \cup {w \in Wrappers : Ts(w) = req[r].key}
      BY <1>4 DEF PlanPresses
    <2>. HIDE DEF n
    <2>4. req' = [req EXCEPT ![r] = q] /\ req'[r] = q
      BY <1>1, <2>1 DEF RequestRec
    <2>5. Good(q)
      BY <1>1, <1>4, <2>2, LockedMoves DEF LockedPcs
    <2>. QED
      BY <1>1, <1>4, <2>1, <2>3, <2>4, <2>5 DEF Moves, n
  <1>. QED
    BY <1>2, <1>3, <1>4

LEMMA PressMoves ==
  ASSUME Inv, NEW r \in Requests, Press(r)
  PROVE  /\ Moves(r) /\ req[r].pc = "press" /\ store' = store
         /\ \/ /\ Fail(r) /\ req'[r].pc = "error" /\ ~Live(req[r].ext)
               /\ muddled' = muddled /\ inbox' = inbox
            \/ /\ Live(req[r].ext) /\ locks' = locks
               /\ req[r].presses \in 1..2
               /\ req'[r] = [req[r] EXCEPT !.presses = @ - 1]
               /\ inbox' = Delivered(req[r].ext, Tab)
               /\ muddled' = IF DropsTab(req[r].ext) THEN muddled \cup {req[r].ext} ELSE muddled
  <1>1. req \in [Requests -> RequestRec] /\ Good(req[r]) /\ req[r].pc = "press" /\ store' = store
    BY DEF Inv, Types, DaemonTypes, ReqInv, Good, Press
  <1>2. req[r].ext \in Terms
    BY <1>1 DEF Good, Typed, LockedPcs
  <1>3. CASE ~Live(req[r].ext)
    <2>1. Fail(r) /\ inbox' = inbox /\ muddled' = muddled
      BY <1>2, <1>3 DEF Press
    <2>. QED
      BY <1>1, <1>3, <2>1, FailMoves
  <1>4. CASE Live(req[r].ext)
    <2>. DEFINE n == req[r].presses - 1
                q == [req[r] EXCEPT !.presses = n]
    <2>1. /\ req' = [req EXCEPT ![r].presses = @ - 1] /\ locks' = locks
          /\ inbox' = Delivered(req[r].ext, Tab)
          /\ muddled' = IF DropsTab(req[r].ext) THEN muddled \cup {req[r].ext} ELSE muddled
          /\ req[r].presses > 0
      BY <1>4 DEF Press
    <2>2. n \in 0..2 /\ req[r].presses \in 1..2
      BY <1>1, <2>1 DEF RequestRec
    <2>3. q = [req[r] EXCEPT !.pc = "press", !.presses = n]
      BY <1>1 DEF RequestRec
    <2>4. req' = [req EXCEPT ![r] = q] /\ req'[r] = q
      BY <1>1, <2>1
    <2>5. InCycle(Part(req[r]).mode)
      BY <1>1 DEF Good, Typed
    <2>6. Good(q)
      BY <1>1, <2>2, <2>3, <2>5, LockedMoves DEF LockedPcs
    <2>. QED
      BY <1>1, <1>4, <2>1, <2>2, <2>4, <2>6 DEF Moves
  <1>. QED
    BY <1>3, <1>4

\* A step that only changes pc, among the steps that hold the lock.
LEMMA GotoLocked ==
  ASSUME Inv, NEW r \in Requests, req[r].pc \in LockedPcs,
         NEW pc \in LockedPcs \ {"press"}, Goto(r, pc)
  PROVE  Moves(r) /\ req'[r] = [req[r] EXCEPT !.pc = pc]
  <1>1. req \in [Requests -> RequestRec] /\ Good(req[r])
    BY DEF Inv, Types, DaemonTypes, ReqInv, Good
  <1>2. pc \in Pcs \ {"ok"}
    BY DEF Pcs, OpenPcs, LockedPcs
  <1>3. req' = [req EXCEPT ![r] = req'[r]] /\ req'[r] = [req[r] EXCEPT !.pc = pc]
    BY <1>1, <1>2, GotoMoves
  <1>. DEFINE n == req[r].presses
  <1>4. n \in 0..2 /\ [req[r] EXCEPT !.pc = pc] = [req[r] EXCEPT !.pc = pc, !.presses = n]
    BY <1>1 DEF RequestRec
  <1>. HIDE DEF n
  <1>5. Good([req[r] EXCEPT !.pc = pc, !.presses = n])
    BY <1>1, <1>4, LockedMoves
  <1>. QED
    BY <1>3, <1>4, <1>5 DEF Moves

LEMMA RecordModeMoves ==
  ASSUME Inv, NEW r \in Requests, RecordMode(r)
  PROVE  /\ Moves(r) /\ req[r].pc = "press" /\ req[r].presses = 0
         /\ req'[r] = [req[r] EXCEPT !.pc = "line"]
  BY GotoLocked DEF RecordMode, LockedPcs

LEMMA SendModelMoves ==
  ASSUME Inv, NEW r \in Requests, SendModel(r)
  PROVE  /\ Moves(r) /\ req[r].pc = "line"
         /\ \/ Fail(r) /\ req'[r].pc = "error" /\ inbox' = inbox
            \/ /\ req'[r] = [req[r] EXCEPT !.pc = "effort"] /\ locks' = locks
               /\ \/ inbox' = inbox
                  \/ /\ Live(req[r].ext) /\ Part(req[r]).model # None
                     /\ inbox' = Delivered(req[r].ext, Slash("model", Part(req[r]).model))
  <1>1. req[r].pc = "line"
    BY DEF SendModel
  <1>2. CASE Fail(r) /\ inbox' = inbox
    BY <1>1, <1>2, FailMoves
  <1>3. CASE ~(Fail(r) /\ inbox' = inbox)
    <2>1. /\ Goto(r, "effort") /\ locks' = locks
          /\ \/ inbox' = inbox
             \/ /\ Live(req[r].ext) /\ Part(req[r]).model # None
                /\ inbox' = Delivered(req[r].ext, Slash("model", Part(req[r]).model))
      BY <1>3 DEF SendModel
    <2>2. Moves(r) /\ req'[r] = [req[r] EXCEPT !.pc = "effort"]
      BY <1>1, <2>1, GotoLocked DEF LockedPcs
    <2>. QED
      BY <1>1, <2>1, <2>2
  <1>. QED
    BY <1>2, <1>3

\* A request that releases its lock, or holds none, and keeps its part.
LEMMA SendEffortMoves ==
  ASSUME Inv, NEW r \in Requests, SendEffort(r)
  PROVE  /\ Moves(r) /\ req[r].pc = "effort" /\ locks' = [locks EXCEPT ![req[r].key] = None]
         /\ \/ /\ req'[r].pc \in {"error", "ok"} /\ req'[r].part = None /\ req'[r].ext = None
            \/ req'[r].pc \in {"wait", "count"} /\ req'[r] = [req[r] EXCEPT !.pc = req'[r].pc]
  <1>1. /\ req \in [Requests -> RequestRec] /\ Good(req[r]) /\ req[r].pc = "effort"
        /\ locks' = [locks EXCEPT ![req[r].key] = None]
    BY DEF Inv, Types, DaemonTypes, ReqInv, Good, SendEffort
  <1>2. CASE Finish(r, "error") \/ Finish(r, "ok")
    BY <1>1, <1>2, FinishMoves DEF EndPcs, None
  <1>3. CASE Goto(r, AfterApply(req[r])) /\ AfterApply(req[r]) # "ok"
    <2>. DEFINE pc == AfterApply(req[r])
                q == [req[r] EXCEPT !.pc = pc]
    <2>1. \/ pc = "wait" /\ req[r].part = "model"
          \/ pc = "count" /\ req[r].part = "modes" /\ req[r].ask.model # None
      BY <1>3 DEF AfterApply
    <2>. HIDE DEF pc
    <2>2. req' = [req EXCEPT ![r] = q] /\ req'[r] = q /\ q \in RequestRec
      BY <1>1, <1>3, <2>1, GotoMoves DEF Pcs, OpenPcs, pc
    <2>3. /\ q.pc = pc /\ q.ext = req[r].ext /\ q.key = req[r].key /\ q.part = req[r].part
          /\ q.ask = req[r].ask /\ q.sid = req[r].sid /\ q.tries = req[r].tries
          /\ q.target = req[r].target
      BY <1>1 DEF RequestRec
    <2>. HIDE DEF q
    <2>4. req[r].part = "modes" => req[r].tries = 0 /\ 0 < MaxAttempts
      BY <1>1, Names DEF Good, Typed
    <2>5. Headed(q) /\ Typed(q)
      BY <1>1, <2>1, <2>3, <2>4 DEF Good, Headed, Typed, OpenPcs, LockedPcs, EndPcs
    <2>. QED
      BY <1>1, <2>1, <2>2, <2>3, <2>5 DEF Moves, Good, q
  <1>4. Finish(r, "error") \/ Goto(r, AfterApply(req[r]))
    BY DEF SendEffort
  <1>. QED
    BY <1>2, <1>3, <1>4 DEF Goto

LEMMA CountMoves ==
  ASSUME Inv, NEW r \in Requests, CountBefore(r)
  PROVE  /\ Moves(r) /\ req[r].pc = "count"
         /\ \/ req'[r].pc = "error" /\ req'[r].part = None /\ req'[r].ext = None
            \/ /\ req[r].sid \in files /\ req[r].ask.model # None /\ req[r].target \in Models
               /\ req'[r] = [req[r] EXCEPT !.pc = "take", !.part = "model",
                    !.before = said[req[r].sid][req[r].target], !.tries = @ + 1]
  <1>1. req \in [Requests -> RequestRec] /\ Good(req[r]) /\ req[r].pc = "count" /\ files \subseteq Sids
    BY DEF Inv, Types, DaemonTypes, ClaudeTypes, ReqInv, Good, CountBefore
  <1>2. CASE req[r].sid \notin files
    <2>1. Finish(r, "error")
      BY <1>2 DEF CountBefore
    <2>. QED
      BY <1>1, <2>1, FinishMoves DEF EndPcs
  <1>3. CASE req[r].sid \in files
    <2>1. req[r].ask.model # None /\ req[r].target \in Models /\ req[r].ask.model \in Models
      BY <1>1 DEF Good, Typed, OpenPcs
    <2>. DEFINE b == said[req[r].sid][req[r].target]
                n == req[r].tries + 1
                q == [req[r] EXCEPT !.pc = "take", !.part = "model", !.before = b, !.tries = n]
    <2>2. b \in Nat
      BY <1>1, <1>3, <2>1 DEF Inv, Types, ClaudeTypes
    <2>3. n \in 0..MaxAttempts
      BY <1>1, Names DEF Good, Typed, RequestRec
    <2>4. req' = [req EXCEPT ![r] = q] /\ req'[r] = q
      BY <1>1, <1>3 DEF CountBefore, CountSaid
    <2>. HIDE DEF b, n
    <2>5. q \in RequestRec
      <3>1. "take" \in Pcs
        BY DEF Pcs, OpenPcs
      <3>2. req[r] \in RequestRec /\ b \in Nat /\ n \in 0..MaxAttempts
        BY <1>1, <2>2, <2>3
      <3>. HIDE DEF Pcs, Keys, Terms, Ts, AskedModels, Picks, Fields
      <3>. QED
        BY <3>1, <3>2 DEF RequestRec
    <2>6. /\ q.pc = "take" /\ q.key = req[r].key /\ q.part = "model"
          /\ q.ask = req[r].ask /\ q.sid = req[r].sid /\ q.target = req[r].target
      BY <1>1 DEF RequestRec
    <2>. HIDE DEF q
    <2>7. Headed(q) /\ Typed(q)
      BY <1>1, <1>3, <2>1, <2>6, Names DEF Good, Headed, Typed, OpenPcs, LockedPcs, EndPcs, None
    <2>. QED
      BY <1>1, <1>3, <2>1, <2>4, <2>5, <2>7 DEF Moves, Good, q, b, n
  <1>. QED
    BY <1>2, <1>3

\* A request with its switch under way goes to another step of it.
LEMMA SwitchMoves ==
  ASSUME Inv, NEW r \in Requests, req[r].pc = "wait",
         NEW pc \in {"record", "count"}, Goto(r, pc), pc = "count" => req[r].tries < MaxAttempts
  PROVE  Moves(r) /\ req'[r] = [req[r] EXCEPT !.pc = pc]
  <1>1. req \in [Requests -> RequestRec] /\ Good(req[r])
    BY DEF Inv, Types, DaemonTypes, ReqInv, Good
  <1>. DEFINE q == [req[r] EXCEPT !.pc = pc]
  <1>2. req' = [req EXCEPT ![r] = q] /\ req'[r] = q /\ q \in RequestRec
    BY <1>1, GotoMoves DEF Pcs, OpenPcs
  <1>3. /\ q.pc = pc /\ q.ext = req[r].ext /\ q.key = req[r].key /\ q.part = req[r].part
        /\ q.ask = req[r].ask /\ q.sid = req[r].sid /\ q.tries = req[r].tries
        /\ q.target = req[r].target
    BY <1>1 DEF RequestRec
  <1>. HIDE DEF q
  <1>4. Headed(q) /\ Typed(q)
    BY <1>1, <1>3 DEF Good, Headed, Typed, OpenPcs, LockedPcs, EndPcs
  <1>. QED
    BY <1>2, <1>4 DEF Moves, Good, q

LEMMA ConfirmMoves ==
  ASSUME Inv, NEW r \in Requests, Confirm(r)
  PROVE  /\ Moves(r) /\ req[r].pc = "wait" /\ Confirmed(req[r])
         /\ req'[r] = [req[r] EXCEPT !.pc = "record"]
  BY SwitchMoves DEF Confirm

LEMMA GiveUpMoves ==
  ASSUME Inv, NEW r \in Requests, GiveUp(r)
  PROVE  /\ Moves(r) /\ req[r].pc = "wait"
         /\ \/ req'[r].pc = "error" /\ req'[r].part = None /\ req'[r].ext = None
            \/ req'[r] = [req[r] EXCEPT !.pc = "count"]
  <1>1. req \in [Requests -> RequestRec] /\ req[r].pc = "wait"
    BY DEF Inv, Types, DaemonTypes, GiveUp
  <1>2. CASE Finish(r, "error")
    BY <1>1, <1>2, FinishMoves DEF EndPcs
  <1>3. CASE Goto(r, "count") /\ req[r].tries < MaxAttempts
    BY <1>1, <1>3, SwitchMoves
  <1>. QED
    BY <1>2, <1>3 DEF GiveUp

LEMMA RecordModelMoves ==
  ASSUME Inv, NEW r \in Requests, RecordModel(r)
  PROVE  /\ Moves(r) /\ req[r].pc = "record" /\ req'[r].pc = "ok"
         /\ req'[r].part = None /\ req'[r].ext = None
  BY FinishMoves DEF RecordModel, EndPcs, None, Inv, Types, DaemonTypes

-----------------------------------------------------------------------------
(* What a step leaves of the requests                                      *)

\* A terminal that is registered stays so.
StaysKnown == \A t \in Terms : reg[t].status # "new" => reg'[t].status # "new"

LEMMA ReqFrame ==
  ASSUME Inv, req' = req, StaysKnown
  PROVE  ReqInv'
  <1>1. ASSUME NEW r \in Requests
        PROVE  /\ Headed(req'[r]) /\ Typed(req'[r])
               /\ req'[r].ext # None => reg'[req'[r].ext].status # "new"
    <2>1. req[r] \in RequestRec
      BY DEF Inv, Types, DaemonTypes
    <2>2. Headed(req[r]) /\ Typed(req[r]) /\ (req[r].ext # None => reg[req[r].ext].status # "new")
      BY DEF Inv, ReqInv
    <2>3. req'[r] = req[r]
      OBVIOUS
    <2>4. req[r].ext # None => req[r].ext \in Terms
      BY <2>1 DEF RequestRec
    <2>. QED
      BY <2>2, <2>3, <2>4 DEF StaysKnown
  <1>. QED
    BY <1>1 DEF ReqInv, Headed, Typed

LEMMA ReqMoves ==
  ASSUME Inv, NEW r \in Requests, Moves(r), StaysKnown,
         req'[r].ext # None => reg'[req'[r].ext].status # "new"
  PROVE  ReqInv' /\ req' \in [Requests -> RequestRec]
  <1>1. req \in [Requests -> RequestRec]
    BY DEF Inv, Types, DaemonTypes
  <1>2. ASSUME NEW x \in Requests
        PROVE  /\ Headed(req'[x]) /\ Typed(req'[x]) /\ req'[x] \in RequestRec
               /\ req'[x].ext # None => reg'[req'[x].ext].status # "new"
    <2>1. CASE x = r
      BY <2>1 DEF Moves, Good
    <2>2. CASE x # r
      <3>1. req'[x] = req[x] /\ req[x] \in RequestRec
        BY <1>1, <2>2 DEF Moves
      <3>2. Headed(req[x]) /\ Typed(req[x]) /\ (req[x].ext # None => reg[req[x].ext].status # "new")
        BY DEF Inv, ReqInv
      <3>3. req[x].ext # None => req[x].ext \in Terms
        BY <3>1 DEF RequestRec
      <3>. QED
        BY <3>1, <3>2, <3>3 DEF StaysKnown
    <2>. QED
      BY <2>1, <2>2
  <1>3. req' \in [Requests -> RequestRec]
    <2>1. DOMAIN req' = Requests /\ req' = [req EXCEPT ![r] = req'[r]]
      BY <1>1 DEF Moves
    <2>. QED
      BY <1>1, <1>2, <2>1
  <1>. QED
    BY <1>2, <1>3 DEF ReqInv, Headed, Typed

LEMMA LockFrame ==
  ASSUME Inv, locks' = locks, NEW r \in Requests, Moves(r),
         \/ req[r].pc \notin LockedPcs /\ req'[r].pc \notin LockedPcs
         \/ req'[r].pc \in LockedPcs /\ req[r].pc \in LockedPcs /\ req'[r].key = req[r].key
  PROVE  LockInv' /\ locks' \in [Keys -> Requests \cup {None}]
  <1>1. req \in [Requests -> RequestRec] /\ locks \in [Keys -> Requests \cup {None}] /\ LockInv
    BY DEF Inv, Types, DaemonTypes
  <1>2. \A x \in Requests : req'[x].pc \in LockedPcs => locks[req'[x].key] = x
    BY <1>1 DEF Moves, LockInv
  <1>3. ASSUME NEW k \in Keys, locks[k] # None
        PROVE  req'[locks[k]].key = k /\ req'[locks[k]].pc \in LockedPcs
    <2>1. locks[k] \in Requests /\ req[locks[k]].key = k /\ req[locks[k]].pc \in LockedPcs
      BY <1>1, <1>3 DEF LockInv
    <2>. QED
      BY <1>1, <2>1 DEF Moves
  <1>. QED
    BY <1>1, <1>2, <1>3 DEF LockInv

LEMMA LockReleased ==
  ASSUME Inv, NEW r \in Requests, Moves(r), req[r].pc \in LockedPcs, req'[r].pc \notin LockedPcs,
         locks' = [locks EXCEPT ![req[r].key] = None]
  PROVE  LockInv' /\ locks' \in [Keys -> Requests \cup {None}]
  <1>1. req \in [Requests -> RequestRec] /\ locks \in [Keys -> Requests \cup {None}] /\ LockInv
    BY DEF Inv, Types, DaemonTypes
  <1>2. locks[req[r].key] = r
    BY <1>1 DEF LockInv
  <1>3. ASSUME NEW x \in Requests, req'[x].pc \in LockedPcs PROVE locks'[req'[x].key] = x
    <2>1. x # r /\ req'[x] = req[x] /\ req[x].pc \in LockedPcs
      BY <1>1, <1>3 DEF Moves
    <2>2. locks[req[x].key] = x /\ req[x].key # req[r].key
      BY <1>1, <1>2, <2>1 DEF LockInv
    <2>3. req[x].key \in Keys
      <3>1. Headed(req[x])
        BY DEF Inv, ReqInv
      <3>. QED
        BY <2>1, <3>1 DEF Headed, LockedPcs, EndPcs
    <2>. QED
      BY <1>1, <2>1, <2>2, <2>3
  <1>4. ASSUME NEW k \in Keys, locks'[k] # None
        PROVE  req'[locks'[k]].key = k /\ req'[locks'[k]].pc \in LockedPcs
    <2>1. k # req[r].key /\ locks'[k] = locks[k]
      BY <1>1, <1>4
    <2>2. locks[k] \in Requests /\ req[locks[k]].key = k /\ req[locks[k]].pc \in LockedPcs
      BY <1>1, <1>4, <2>1 DEF LockInv
    <2>. QED
      BY <1>1, <2>1, <2>2 DEF Moves
  <1>. QED
    BY <1>1, <1>3, <1>4 DEF LockInv

LEMMA LockTaken ==
  ASSUME Inv, NEW r \in Requests, Moves(r), req[r].pc = "take", req'[r].pc \in LockedPcs,
         req'[r].key = req[r].key, locks[req[r].key] = None,
         locks' = [locks EXCEPT ![req[r].key] = r]
  PROVE  LockInv' /\ locks' \in [Keys -> Requests \cup {None}]
  <1>1. req \in [Requests -> RequestRec] /\ locks \in [Keys -> Requests \cup {None}] /\ LockInv
    BY DEF Inv, Types, DaemonTypes
  <1>2. req[r].pc \notin LockedPcs /\ req[r].key \in Keys
    <2>1. Headed(req[r])
      BY DEF Inv, ReqInv
    <2>. QED
      BY <2>1 DEF Headed, LockedPcs, EndPcs
  <1>3. ASSUME NEW x \in Requests, req'[x].pc \in LockedPcs PROVE locks'[req'[x].key] = x
    <2>1. CASE x = r
      BY <1>1, <1>2, <2>1
    <2>2. CASE x # r
      <3>1. req'[x] = req[x] /\ locks[req[x].key] = x
        BY <1>1, <1>3, <2>2 DEF Moves, LockInv
      <3>2. req[x].key # req[r].key
        BY <3>1, Names
      <3>3. Headed(req[x])
        BY DEF Inv, ReqInv
      <3>4. req[x].key \in Keys
        BY <1>3, <3>1, <3>3 DEF Headed, LockedPcs, EndPcs
      <3>. QED
        BY <1>1, <3>1, <3>2, <3>4
    <2>. QED
      BY <2>1, <2>2
  <1>4. ASSUME NEW k \in Keys, locks'[k] # None
        PROVE  req'[locks'[k]].key = k /\ req'[locks'[k]].pc \in LockedPcs
    <2>1. CASE k = req[r].key
      BY <1>1, <2>1
    <2>2. CASE k # req[r].key
      <3>1. locks'[k] = locks[k]
        BY <1>1, <2>2
      <3>2. locks[k] \in Requests /\ req[locks[k]].key = k /\ req[locks[k]].pc \in LockedPcs
        BY <1>1, <1>4, <3>1 DEF LockInv
      <3>. QED
        BY <1>1, <1>2, <3>1, <3>2 DEF Moves
    <2>. QED
      BY <2>1, <2>2
  <1>. QED
    BY <1>1, <1>3, <1>4 DEF LockInv

LEMMA SwitchFrame ==
  ASSUME Inv, said' = said, NEW r \in Requests, Moves(r),
         \/ req'[r].part # "model"
         \/ /\ req'[r].part = req[r].part /\ req'[r].sid = req[r].sid
            /\ req'[r].target = req[r].target /\ req'[r].before = req[r].before
            /\ req'[r].reported = req[r].reported,
         req'[r].pc # "record"
  PROVE  SwitchInv'
  <1>1. req \in [Requests -> RequestRec] /\ SwitchInv
    BY DEF Inv, Types, DaemonTypes
  <1>2. ASSUME NEW x \in Requests
        PROVE  /\ req'[x].part = "model" /\ said[req'[x].sid][req'[x].target] > req'[x].before
                    => req'[x].target \in req'[x].reported
               /\ req'[x].pc = "record" => req'[x].target \in req'[x].reported
    <2>1. CASE x = r
      BY <1>1, <2>1 DEF SwitchInv
    <2>2. CASE x # r
      BY <1>1, <2>2 DEF SwitchInv, Moves
    <2>. QED
      BY <2>1, <2>2
  <1>. QED
    BY <1>2 DEF SwitchInv

LEMMA StoreTyped ==
  ASSUME Inv, NEW k \in Keys, NEW v \in Values
  PROVE  /\ \A m \in {v.model} : [store EXCEPT ![k].model = m] \in [Keys -> Values]
         /\ \A m \in {v.mode} : [store EXCEPT ![k].mode = m] \in [Keys -> Values]
         /\ \A e \in {v.effort} : [store EXCEPT ![k].effort = e] \in [Keys -> Values]
  <1>1. store \in [Keys -> Values]
    BY DEF Inv, Types, DaemonTypes
  <1>2. store[k] \in Values
    BY <1>1
  <1>3. [store[k] EXCEPT !.model = v.model] \in Values /\ [store[k] EXCEPT !.mode = v.mode] \in Values
        /\ [store[k] EXCEPT !.effort = v.effort] \in Values
    BY <1>2 DEF Values
  <1>. HIDE DEF Values
  <1>. QED
    BY <1>1, <1>3

LEMMA StoreFieldTyped ==
  ASSUME Inv, NEW k \in Keys, NEW v \in Values, NEW f \in Fields
  PROVE  [store EXCEPT ![k][f] = v[f]] \in [Keys -> Values]
  <1>1. store \in [Keys -> Values]
    BY DEF Inv, Types, DaemonTypes
  <1>2. store[k] \in Values
    BY <1>1
  <1>3. [store[k] EXCEPT ![f] = v[f]] \in Values
    BY <1>2 DEF Fields, Values
  <1>. HIDE DEF Values
  <1>. QED
    BY <1>1, <1>3

-----------------------------------------------------------------------------
(* Types, locks and switches: the steps of a request                       *)

Core == Types /\ TermInv /\ ReqInv /\ LockInv /\ SwitchInv

\* A step of a request that leaves the terminals and what Claude keeps.
LEMMA RequestCore ==
  ASSUME Inv, UNCHANGED <<terminals, tui, files, said, seen, menu>>,
         ClaudeTypes', ReqInv', LockInv', SwitchInv', store' \in [Keys -> Values],
         locks' \in [Keys -> Requests \cup {None}], req' \in [Requests -> RequestRec],
         muddled' \subseteq Wrappers,
         \A w \in Wrappers : reg[w].status = "new" => inbox'[w] = inbox[w]
  PROVE  Core'
  BY DEF Inv, Core, Types, TermTypes, MenuTypes, DaemonTypes, TermInv, terminals, menu

LEMMA ClaudeSame ==
  ASSUME Inv, UNCHANGED <<tui, inbox, files, said, seen>>
  PROVE  ClaudeTypes'
  BY DEF Inv, Types, ClaudeTypes

LEMMA BeginCore ==
  ASSUME Inv, NEW r \in Requests, Begin(r)
  PROVE  Core'
  <1>1. /\ UNCHANGED <<terminals, tui, files, said, seen, menu>>
        /\ UNCHANGED <<inbox, store, locks, muddled>>
        /\ req[r].pc = "new"
    BY DEF Begin, Quietly
  <1>2. /\ Moves(r) /\ req'[r].ext = None /\ req'[r].part # "model"
        /\ req'[r].pc \notin LockedPcs /\ req'[r].pc # "record" /\ req[r].pc \notin LockedPcs
    BY <1>1, BeginMoves DEF LockedPcs
  <1>3. StaysKnown
    BY <1>1 DEF StaysKnown, terminals
  <1>4. ReqInv' /\ req' \in [Requests -> RequestRec]
    BY <1>2, <1>3, ReqMoves
  <1>5. LockInv' /\ locks' \in [Keys -> Requests \cup {None}]
    BY <1>1, <1>2, LockFrame
  <1>6. SwitchInv'
    BY <1>1, <1>2, SwitchFrame
  <1>7. ClaudeTypes' /\ store' \in [Keys -> Values] /\ muddled' \subseteq Wrappers
    BY <1>1, ClaudeSame DEF Inv, Types, DaemonTypes
  <1>. QED
    BY <1>1, <1>4, <1>5, <1>6, <1>7, RequestCore

LEMMA StoreFieldCore ==
  ASSUME Inv, NEW r \in Requests, StoreField(r)
  PROVE  Core'
  <1>1. /\ UNCHANGED <<terminals, tui, files, said, seen, menu>>
        /\ UNCHANGED <<inbox, locks, muddled>>
    BY DEF StoreField, Quietly
  <1>2. req \in [Requests -> RequestRec] /\ store \in [Keys -> Values] /\ muddled \subseteq Wrappers
    BY DEF Inv, Types, DaemonTypes
  <1>3. /\ Moves(r) /\ req[r].pc = "store" /\ req'[r].pc \in {"store", "spawn", "ok"}
        /\ req'[r].ext \in {req[r].ext, None}
    BY StoreFieldMoves
  <1>4. \/ req'[r].part # "model"
        \/ /\ req'[r].part = req[r].part /\ req'[r].sid = req[r].sid
           /\ req'[r].target = req[r].target /\ req'[r].before = req[r].before
           /\ req'[r].reported = req[r].reported
    BY StoreFieldMoves DEF None
  <1>5. StaysKnown
    BY <1>1 DEF StaysKnown, terminals
  <1>6. req'[r].ext # None => reg'[req'[r].ext].status # "new"
    <2>1. req[r].ext # None => reg[req[r].ext].status # "new"
      BY DEF Inv, ReqInv
    <2>2. req[r].ext # None => req[r].ext \in Terms
      BY <1>2 DEF RequestRec
    <2>. QED
      BY <1>3, <1>5, <2>1, <2>2 DEF StaysKnown
  <1>7. ReqInv' /\ req' \in [Requests -> RequestRec]
    BY <1>3, <1>5, <1>6, ReqMoves
  <1>8. LockInv' /\ locks' \in [Keys -> Requests \cup {None}]
    BY <1>1, <1>3, LockFrame DEF LockedPcs
  <1>9. SwitchInv'
    BY <1>1, <1>3, <1>4, SwitchFrame
  <1>10. ClaudeTypes'
    BY <1>1, ClaudeSame
  <1>11. store' \in [Keys -> Values]
    <2>1. req[r].key \in Keys /\ req[r].ask \in Values
      <3>1. Headed(req[r])
        BY DEF Inv, ReqInv
      <3>. QED
        BY <1>3, <3>1 DEF Headed, EndPcs
    <2>2. store' = store \/ \E f \in Fields : store' = [store EXCEPT ![req[r].key][f] = req[r].ask[f]]
      BY DEF StoreField, Fields
    <2>3. ASSUME NEW f \in Fields, store' = [store EXCEPT ![req[r].key][f] = req[r].ask[f]]
          PROVE  store' \in [Keys -> Values]
      BY <2>1, <2>3, StoreFieldTyped
    <2>. QED
      BY <1>2, <2>2, <2>3
  <1>. QED
    BY <1>1, <1>2, <1>7, <1>8, <1>9, <1>10, <1>11, RequestCore

LEMMA TakeCore ==
  ASSUME Inv, NEW r \in Requests, Take(r)
  PROVE  Core'
  <1>1. /\ UNCHANGED <<terminals, tui, files, said, seen, menu>>
        /\ UNCHANGED <<inbox, store, muddled>>
    BY DEF Take, Quietly
  <1>2. req \in [Requests -> RequestRec] /\ store \in [Keys -> Values] /\ muddled \subseteq Wrappers
    BY DEF Inv, Types, DaemonTypes
  <1>3. Moves(r) /\ req[r].pc = "take"
    BY TakeMoves
  <1>4. StaysKnown
    BY <1>1 DEF StaysKnown, terminals
  <1>5. CASE /\ req'[r].pc = "error" /\ locks' = locks
             /\ req'[r].ext = None /\ req'[r].part = None
    <2>1. ReqInv' /\ req' \in [Requests -> RequestRec]
      BY <1>3, <1>4, <1>5, ReqMoves
    <2>2. LockInv' /\ locks' \in [Keys -> Requests \cup {None}]
      BY <1>3, <1>5, LockFrame DEF LockedPcs
    <2>3. SwitchInv'
      BY <1>1, <1>3, <1>5, SwitchFrame DEF None
    <2>. QED
      BY <1>1, <1>2, <2>1, <2>2, <2>3, ClaudeSame, RequestCore
  <1>6. CASE /\ \E t \in Terms : Live(t) /\ req'[r] = [req[r] EXCEPT !.pc = "mode", !.ext = t]
             /\ locks[req[r].key] = None /\ locks' = [locks EXCEPT ![req[r].key] = r]
    <2>1. PICK t \in Terms : Live(t) /\ req'[r] = [req[r] EXCEPT !.pc = "mode", !.ext = t]
      BY <1>6
    <2>2. /\ req'[r].pc = "mode" /\ req'[r].ext = t /\ req'[r].part = req[r].part
          /\ req'[r].sid = req[r].sid /\ req'[r].target = req[r].target /\ req'[r].key = req[r].key
          /\ req'[r].before = req[r].before /\ req'[r].reported = req[r].reported
      BY <1>2, <2>1 DEF RequestRec
    <2>3. reg'[t].status # "new"
      BY <1>1, <2>1 DEF terminals, Live
    <2>4. ReqInv' /\ req' \in [Requests -> RequestRec]
      BY <1>3, <1>4, <2>2, <2>3, ReqMoves
    <2>5. LockInv' /\ locks' \in [Keys -> Requests \cup {None}]
      BY <1>3, <1>6, <2>2, LockTaken DEF LockedPcs
    <2>6. SwitchInv'
      BY <1>1, <1>3, <2>2, SwitchFrame
    <2>. QED
      BY <1>1, <1>2, <2>4, <2>5, <2>6, ClaudeSame, RequestCore
  <1>. QED
    BY <1>5, <1>6, TakeMoves

\* A request that fails under its lock.
LEMMA FailCore ==
  ASSUME Inv, NEW r \in Requests, Fail(r), req[r].pc \in LockedPcs,
         UNCHANGED <<terminals, tui, files, said, seen, menu>>,
         UNCHANGED <<inbox, store, muddled>>
  PROVE  Core'
  <1>1. Moves(r) /\ req'[r].pc = "error" /\ req'[r].ext = None /\ req'[r].part = None
        /\ locks' = [locks EXCEPT ![req[r].key] = None]
    BY FailMoves
  <1>2. StaysKnown
    BY DEF StaysKnown, terminals
  <1>3. ReqInv' /\ req' \in [Requests -> RequestRec]
    BY <1>1, <1>2, ReqMoves
  <1>4. LockInv' /\ locks' \in [Keys -> Requests \cup {None}]
    BY <1>1, LockReleased DEF LockedPcs
  <1>5. SwitchInv'
    BY <1>1, SwitchFrame DEF None
  <1>6. store' \in [Keys -> Values] /\ muddled' \subseteq Wrappers
    BY DEF Inv, Types, DaemonTypes
  <1>. QED
    BY <1>3, <1>4, <1>5, <1>6, ClaudeSame, RequestCore

\* A request that goes on under its lock.
LEMMA UnderLockCore ==
  ASSUME Inv, NEW r \in Requests, Moves(r), req[r].pc \in LockedPcs, req'[r].pc \in LockedPcs,
         /\ req'[r].ext = req[r].ext /\ req'[r].part = req[r].part
         /\ req'[r].sid = req[r].sid /\ req'[r].target = req[r].target /\ req'[r].key = req[r].key
         /\ req'[r].before = req[r].before /\ req'[r].reported = req[r].reported,
         UNCHANGED <<terminals, tui, files, said, seen, menu>>, locks' = locks,
         ClaudeTypes', store' \in [Keys -> Values], muddled' \subseteq Wrappers,
         \A w \in Wrappers : reg[w].status = "new" => inbox'[w] = inbox[w]
  PROVE  Core'
  <1>1. StaysKnown
    BY DEF StaysKnown, terminals
  <1>2. req'[r].ext # None => reg'[req'[r].ext].status # "new"
    BY DEF Inv, ReqInv, terminals
  <1>3. ReqInv' /\ req' \in [Requests -> RequestRec]
    BY <1>1, <1>2, ReqMoves
  <1>4. LockInv' /\ locks' \in [Keys -> Requests \cup {None}]
    BY LockFrame
  <1>5. SwitchInv'
    BY SwitchFrame DEF LockedPcs
  <1>. QED
    BY <1>3, <1>4, <1>5, RequestCore

\* An input added to a terminal's channel.
LEMMA DeliveredTyped ==
  ASSUME ClaudeTypes, NEW t \in Terms, NEW in \in Inputs, inbox' = Delivered(t, in),
         UNCHANGED <<tui, files, said, seen>>
  PROVE  /\ ClaudeTypes'
         /\ \A w \in Wrappers : w # t => inbox'[w] = inbox[w]
         /\ t \in Wrappers => inbox'[t] \in {inbox[t], Append(inbox[t], in)}
         /\ t \in Wrappers /\ Len(inbox[t]) < InboxCap => inbox'[t] = Append(inbox[t], in)
         /\ t \in Wrappers /\ ~(Len(inbox[t]) < InboxCap) => inbox'[t] = inbox[t]
  <1>1. inbox \in [Wrappers -> Seq(Inputs)] /\ \A w \in Wrappers : Len(inbox[w]) <= InboxCap
    BY DEF ClaudeTypes
  <1>2. CASE t \in Wrappers /\ Len(inbox[t]) < InboxCap
    <2>1. inbox' = [inbox EXCEPT ![t] = Append(inbox[t], in)]
      BY <1>2 DEF Delivered
    <2>2. /\ Append(inbox[t], in) \in Seq(Inputs)
          /\ Len(Append(inbox[t], in)) = Len(inbox[t]) + 1
      BY <1>1, <1>2
    <2>3. Len(inbox[t]) \in Nat
      BY <1>1, <1>2
    <2>. HIDE DEF Inputs
    <2>4. inbox' \in [Wrappers -> Seq(Inputs)] /\ \A w \in Wrappers : Len(inbox'[w]) <= InboxCap
      BY <1>1, <1>2, <2>1, <2>2, <2>3, Names
    <2>. QED
      BY <1>1, <1>2, <2>1, <2>4 DEF ClaudeTypes
  <1>3. CASE ~(t \in Wrappers /\ Len(inbox[t]) < InboxCap)
    <2>1. inbox' = inbox
      BY <1>3 DEF Delivered
    <2>. QED
      BY <1>3, <2>1 DEF ClaudeTypes
  <1>. QED
    BY <1>2, <1>3

LEMMA PlanCore ==
  ASSUME Inv, NEW r \in Requests, PlanPresses(r)
  PROVE  Core'
  <1>1. /\ UNCHANGED <<terminals, tui, files, said, seen, menu>>
        /\ UNCHANGED <<inbox, store>>
    BY DEF PlanPresses, Quietly
  <1>2. /\ req \in [Requests -> RequestRec] /\ store' \in [Keys -> Values]
        /\ muddled' \subseteq Wrappers
    BY <1>1, PlanMoves DEF Inv, Types, DaemonTypes
  <1>3. Moves(r) /\ req[r].pc = "mode"
    BY PlanMoves
  <1>4. CASE Fail(r) /\ muddled' = muddled
    BY <1>1, <1>3, <1>4, FailCore DEF LockedPcs
  <1>5. CASE /\ locks' = locks
             /\ \E pc \in LockedPcs, n \in 0..2 : req'[r] = [req[r] EXCEPT !.pc = pc, !.presses = n]
    <2>1. PICK pc \in LockedPcs, n \in 0..2 : req'[r] = [req[r] EXCEPT !.pc = pc, !.presses = n]
      BY <1>5
    <2>2. /\ req'[r].pc = pc /\ req'[r].ext = req[r].ext /\ req'[r].part = req[r].part
          /\ req'[r].sid = req[r].sid /\ req'[r].target = req[r].target /\ req'[r].key = req[r].key
          /\ req'[r].before = req[r].before /\ req'[r].reported = req[r].reported
      BY <1>2, <2>1 DEF RequestRec
    <2>. QED
      BY <1>1, <1>2, <1>3, <1>5, <2>2, ClaudeSame, UnderLockCore DEF LockedPcs
  <1>6. /\ req'[r] = [req[r] EXCEPT !.pc = "line"]
             => req'[r] = [req[r] EXCEPT !.pc = "line", !.presses = req[r].presses]
        /\ req[r].presses \in 0..2 /\ CycleDistance(Base(req[r].key), Part(req[r]).mode) \in 0..2
    BY <1>2, DistanceIs DEF RequestRec
  <1>. QED
    BY <1>4, <1>5, <1>6, PlanMoves DEF LockedPcs

LEMMA PressCore ==
  ASSUME Inv, NEW r \in Requests, Press(r)
  PROVE  Core'
  <1>1. UNCHANGED <<terminals, tui, files, said, seen, menu>>
    BY DEF Press, Quietly
  <1>2. /\ req \in [Requests -> RequestRec] /\ store' \in [Keys -> Values] /\ ClaudeTypes
        /\ muddled \subseteq Wrappers
    BY PressMoves DEF Inv, Types, DaemonTypes
  <1>3. Moves(r) /\ req[r].pc = "press" /\ store' = store
    BY PressMoves
  <1>4. CASE Fail(r) /\ muddled' = muddled /\ inbox' = inbox
    BY <1>1, <1>3, <1>4, FailCore DEF LockedPcs
  <1>5. CASE /\ Live(req[r].ext) /\ locks' = locks
             /\ req'[r] = [req[r] EXCEPT !.presses = @ - 1]
             /\ inbox' = Delivered(req[r].ext, Tab)
             /\ muddled' = IF DropsTab(req[r].ext) THEN muddled \cup {req[r].ext} ELSE muddled
    <2>1. /\ req'[r].pc = "press" /\ req'[r].ext = req[r].ext /\ req'[r].part = req[r].part
          /\ req'[r].sid = req[r].sid /\ req'[r].target = req[r].target /\ req'[r].key = req[r].key
          /\ req'[r].before = req[r].before /\ req'[r].reported = req[r].reported
      BY <1>2, <1>3, <1>5 DEF RequestRec
    <2>2. req[r].ext \in Terms
      BY <1>3 DEF Inv, ReqInv, Typed, LockedPcs
    <2>3. Tab \in Inputs
      BY DEF Tab, Inputs
    <2>4. ClaudeTypes' /\ \A w \in Wrappers : w # req[r].ext => inbox'[w] = inbox[w]
      BY <1>1, <1>2, <1>5, <2>2, <2>3, DeliveredTyped
    <2>5. \A w \in Wrappers : reg[w].status = "new" => inbox'[w] = inbox[w]
      BY <1>5, <2>4 DEF Live
    <2>6. muddled' \subseteq Wrappers
      BY <1>2, <1>5 DEF DropsTab
    <2>. QED
      BY <1>1, <1>2, <1>3, <1>5, <2>1, <2>4, <2>5, <2>6, UnderLockCore DEF LockedPcs
  <1>. QED
    BY <1>4, <1>5, PressMoves

LEMMA RecordModeCore ==
  ASSUME Inv, NEW r \in Requests, RecordMode(r)
  PROVE  Core'
  <1>1. UNCHANGED <<terminals, tui, files, said, seen, menu>> /\ UNCHANGED <<inbox, locks, muddled>>
    BY DEF RecordMode, Quietly
  <1>2. req \in [Requests -> RequestRec] /\ muddled \subseteq Wrappers
    BY DEF Inv, Types, DaemonTypes
  <1>3. Moves(r) /\ req[r].pc = "press" /\ req'[r] = [req[r] EXCEPT !.pc = "line"]
    BY RecordModeMoves
  <1>4. /\ req'[r].pc = "line" /\ req'[r].ext = req[r].ext /\ req'[r].part = req[r].part
        /\ req'[r].sid = req[r].sid /\ req'[r].target = req[r].target /\ req'[r].key = req[r].key
        /\ req'[r].before = req[r].before /\ req'[r].reported = req[r].reported
    BY <1>2, <1>3 DEF RequestRec
  <1>5. store' \in [Keys -> Values]
    <2>1. Typed(req[r]) /\ Headed(req[r])
      BY DEF Inv, ReqInv
    <2>2. req[r].key \in Keys
      BY <1>3, <2>1 DEF Headed, EndPcs
    <2>3. Part(req[r]).mode \in Known
      BY <1>3, <2>1, CycleFacts DEF Typed, Known, Native
    <2>4. [Unset EXCEPT !.mode = Part(req[r]).mode] \in Values
      BY <2>3 DEF Unset, Values, Efforts, None
    <2>5. [Unset EXCEPT !.mode = Part(req[r]).mode].mode = Part(req[r]).mode
      BY DEF Unset
    <2>6. store' = [store EXCEPT ![req[r].key].mode = Part(req[r]).mode]
      BY DEF RecordMode
    <2>. QED
      BY <2>2, <2>4, <2>5, <2>6, StoreTyped
  <1>. QED
    BY <1>1, <1>2, <1>3, <1>4, <1>5, ClaudeSame, UnderLockCore DEF LockedPcs

LEMMA SendModelCore ==
  ASSUME Inv, NEW r \in Requests, SendModel(r)
  PROVE  Core'
  <1>1. UNCHANGED <<terminals, tui, files, said, seen, menu>> /\ UNCHANGED <<store, muddled>>
    BY DEF SendModel, Quietly
  <1>2. /\ req \in [Requests -> RequestRec] /\ store' \in [Keys -> Values] /\ ClaudeTypes
        /\ muddled' \subseteq Wrappers
    BY <1>1 DEF Inv, Types, DaemonTypes
  <1>3. Moves(r) /\ req[r].pc = "line"
    BY SendModelMoves
  <1>4. CASE Fail(r) /\ inbox' = inbox
    BY <1>1, <1>3, <1>4, FailCore DEF LockedPcs
  <1>5. CASE /\ req'[r] = [req[r] EXCEPT !.pc = "effort"] /\ locks' = locks
             /\ \/ inbox' = inbox
                \/ /\ Live(req[r].ext) /\ Part(req[r]).model # None
                   /\ inbox' = Delivered(req[r].ext, Slash("model", Part(req[r]).model))
    <2>1. /\ req'[r].pc = "effort" /\ req'[r].ext = req[r].ext /\ req'[r].part = req[r].part
          /\ req'[r].sid = req[r].sid /\ req'[r].target = req[r].target /\ req'[r].key = req[r].key
          /\ req'[r].before = req[r].before /\ req'[r].reported = req[r].reported
      BY <1>2, <1>5 DEF RequestRec
    <2>2. ClaudeTypes' /\ \A w \in Wrappers : reg[w].status = "new" => inbox'[w] = inbox[w]
      <3>1. CASE inbox' = inbox
        BY <1>1, <3>1, ClaudeSame
      <3>2. CASE /\ Live(req[r].ext) /\ Part(req[r]).model # None
                 /\ inbox' = Delivered(req[r].ext, Slash("model", Part(req[r]).model))
        <4>1. Typed(req[r]) /\ Headed(req[r]) /\ req[r] \in RequestRec
          BY <1>2 DEF Inv, ReqInv
        <4>2. req[r].ext \in Terms /\ req[r].ask.model \in Models \cup {None} /\ req[r].part # None
          BY <1>3, <4>1 DEF Typed, Headed, OpenPcs, LockedPcs, EndPcs
        <4>3. Part(req[r]).model \in Models
          BY <3>2, <4>1, <4>2, PartFields DEF RequestRec
        <4>4. Slash("model", Part(req[r]).model) \in Inputs
          BY <4>3 DEF Slash, Inputs
        <4>. HIDE DEF Slash, Inputs
        <4>5. ClaudeTypes' /\ \A w \in Wrappers : w # req[r].ext => inbox'[w] = inbox[w]
          BY <1>1, <1>2, <3>2, <4>2, <4>4, DeliveredTyped
        <4>. QED
          BY <3>2, <4>5 DEF Live
      <3>. QED
        BY <1>5, <3>1, <3>2
    <2>. QED
      BY <1>1, <1>2, <1>3, <1>5, <2>1, <2>2, UnderLockCore DEF LockedPcs
  <1>. QED
    BY <1>4, <1>5, SendModelMoves

LEMMA SendEffortCore ==
  ASSUME Inv, NEW r \in Requests, SendEffort(r)
  PROVE  Core'
  <1>1. UNCHANGED <<terminals, tui, files, said, seen, menu>> /\ muddled' = muddled
    BY DEF SendEffort, Quietly
  <1>2. /\ req \in [Requests -> RequestRec] /\ store \in [Keys -> Values] /\ ClaudeTypes
        /\ muddled' \subseteq Wrappers
    BY <1>1 DEF Inv, Types, DaemonTypes
  <1>3. Moves(r) /\ req[r].pc = "effort" /\ locks' = [locks EXCEPT ![req[r].key] = None]
    BY SendEffortMoves
  <1>4. Typed(req[r]) /\ Headed(req[r]) /\ req[r] \in RequestRec
    BY <1>2 DEF Inv, ReqInv
  <1>5. /\ req[r].ext \in Terms /\ req[r].key \in Keys
        /\ Part(req[r]).effort \in Efforts
    BY <1>3, <1>4 DEF Typed, Headed, LockedPcs, EndPcs, ValidRequest, None, Efforts
  <1>6. /\ req'[r].pc \in {"error", "ok", "wait", "count"}
        /\ \/ req'[r].part = None
           \/ /\ req'[r].part = req[r].part /\ req'[r].sid = req[r].sid
              /\ req'[r].target = req[r].target /\ req'[r].before = req[r].before
              /\ req'[r].reported = req[r].reported
        /\ req'[r].ext \in {req[r].ext, None}
    <2>1. ASSUME NEW pc, req'[r] = [req[r] EXCEPT !.pc = pc]
          PROVE  /\ req'[r].part = req[r].part /\ req'[r].sid = req[r].sid
                 /\ req'[r].target = req[r].target /\ req'[r].before = req[r].before
                 /\ req'[r].reported = req[r].reported /\ req'[r].ext = req[r].ext
      BY <1>4, <2>1 DEF RequestRec
    <2>. QED
      BY <2>1, SendEffortMoves
  <1>7. StaysKnown
    BY <1>1 DEF StaysKnown, terminals
  <1>8. req'[r].ext # None => reg'[req'[r].ext].status # "new"
    BY <1>1, <1>6 DEF Inv, ReqInv, terminals
  <1>9. ReqInv' /\ req' \in [Requests -> RequestRec]
    BY <1>3, <1>7, <1>8, ReqMoves
  <1>10. LockInv' /\ locks' \in [Keys -> Requests \cup {None}]
    BY <1>3, <1>6, LockReleased DEF LockedPcs
  <1>11. SwitchInv'
    BY <1>1, <1>3, <1>6, SwitchFrame DEF None
  <1>12. ClaudeTypes' /\ \A w \in Wrappers : reg[w].status = "new" => inbox'[w] = inbox[w]
    <2>1. CASE inbox' = inbox
      BY <1>1, <2>1, ClaudeSame
    <2>2. CASE Live(req[r].ext) /\ inbox' = Delivered(req[r].ext, Slash("effort", Part(req[r]).effort))
      <3>1. Slash("effort", Part(req[r]).effort) \in Inputs
        BY <1>5 DEF Slash, Inputs
      <3>. HIDE DEF Slash, Inputs
      <3>2. ClaudeTypes' /\ \A w \in Wrappers : w # req[r].ext => inbox'[w] = inbox[w]
        BY <1>1, <1>2, <1>5, <2>2, <3>1, DeliveredTyped
      <3>. QED
        BY <2>2, <3>2 DEF Live
    <2>. QED
      BY <2>1, <2>2 DEF SendEffort
  <1>13. store' \in [Keys -> Values]
    <2>1. store' = store \/ store' = [store EXCEPT ![req[r].key].effort = Part(req[r]).effort]
      BY DEF SendEffort
    <2>. DEFINE v == [Unset EXCEPT !.effort = Part(req[r]).effort]
    <2>2. v \in Values /\ v.effort = Part(req[r]).effort
      BY <1>5 DEF Unset, Values
    <2>. HIDE DEF v
    <2>3. [store EXCEPT ![req[r].key].effort = v.effort] \in [Keys -> Values]
      BY <1>5, <2>2, StoreTyped
    <2>. QED
      BY <1>2, <2>1, <2>2, <2>3
  <1>. QED
    BY <1>1, <1>2, <1>9, <1>10, <1>11, <1>12, <1>13, RequestCore

LEMMA CountCore ==
  ASSUME Inv, NEW r \in Requests, CountBefore(r)
  PROVE  Core'
  <1>1. /\ UNCHANGED <<terminals, tui, files, said, seen, menu>>
        /\ UNCHANGED <<inbox, store, locks, muddled>>
    BY DEF CountBefore, Quietly
  <1>2. /\ req \in [Requests -> RequestRec] /\ store' \in [Keys -> Values] /\ ClaudeTypes
        /\ muddled' \subseteq Wrappers
    BY <1>1 DEF Inv, Types, DaemonTypes
  <1>3. Moves(r) /\ req[r].pc = "count"
    BY CountMoves
  <1>4. StaysKnown
    BY <1>1 DEF StaysKnown, terminals
  <1>5. CASE req'[r].pc = "error" /\ req'[r].part = None /\ req'[r].ext = None
    <2>1. ReqInv' /\ req' \in [Requests -> RequestRec]
      BY <1>3, <1>4, <1>5, ReqMoves
    <2>2. LockInv' /\ locks' \in [Keys -> Requests \cup {None}]
      BY <1>1, <1>3, <1>5, LockFrame DEF LockedPcs
    <2>3. SwitchInv'
      BY <1>1, <1>3, <1>5, SwitchFrame DEF None
    <2>. QED
      BY <1>1, <1>2, <2>1, <2>2, <2>3, ClaudeSame, RequestCore
  <1>6. CASE /\ req[r].sid \in files /\ req[r].target \in Models
             /\ req'[r] = [req[r] EXCEPT !.pc = "take", !.part = "model",
                    !.before = said[req[r].sid][req[r].target], !.tries = @ + 1]
    <2>1. /\ req'[r].pc = "take" /\ req'[r].part = "model" /\ req'[r].ext = req[r].ext
          /\ req'[r].sid = req[r].sid /\ req'[r].target = req[r].target
          /\ req'[r].before = said[req[r].sid][req[r].target]
      BY <1>2, <1>6 DEF RequestRec
    <2>2. said[req[r].sid][req[r].target] \in Nat
      BY <1>2, <1>6 DEF ClaudeTypes
    <2>3. req'[r].ext # None => reg'[req'[r].ext].status # "new"
      BY <1>1, <2>1 DEF Inv, ReqInv, terminals
    <2>4. ReqInv' /\ req' \in [Requests -> RequestRec]
      BY <1>3, <1>4, <2>3, ReqMoves
    <2>5. LockInv' /\ locks' \in [Keys -> Requests \cup {None}]
      BY <1>1, <1>3, <2>1, LockFrame DEF LockedPcs
    <2>6. SwitchInv'
      <3>1. ASSUME NEW x \in Requests
            PROVE  /\ req'[x].part = "model" /\ said[req'[x].sid][req'[x].target] > req'[x].before
                         => req'[x].target \in req'[x].reported
                   /\ req'[x].pc = "record" => req'[x].target \in req'[x].reported
        <4>1. CASE x = r
          BY <2>1, <2>2, <4>1
        <4>2. CASE x # r
          BY <1>2, <1>3, <4>2 DEF Inv, SwitchInv, Moves
        <4>. QED
          BY <4>1, <4>2
      <3>. QED
        BY <1>1, <3>1 DEF SwitchInv
    <2>. QED
      BY <1>1, <1>2, <2>4, <2>5, <2>6, ClaudeSame, RequestCore
  <1>. QED
    BY <1>5, <1>6, CountMoves

LEMMA ConfirmCore ==
  ASSUME Inv, NEW r \in Requests, Confirm(r)
  PROVE  Core'
  <1>1. /\ UNCHANGED <<terminals, tui, files, said, seen, menu>>
        /\ UNCHANGED <<inbox, store, locks, muddled>>
    BY DEF Confirm, Quietly
  <1>2. /\ req \in [Requests -> RequestRec] /\ store' \in [Keys -> Values]
        /\ muddled' \subseteq Wrappers
    BY <1>1 DEF Inv, Types, DaemonTypes
  <1>3. /\ Moves(r) /\ req[r].pc = "wait" /\ Confirmed(req[r])
        /\ req'[r] = [req[r] EXCEPT !.pc = "record"]
    BY ConfirmMoves
  <1>4. /\ req'[r].pc = "record" /\ req'[r].ext = req[r].ext /\ req'[r].part = req[r].part
        /\ req'[r].sid = req[r].sid /\ req'[r].target = req[r].target
        /\ req'[r].before = req[r].before /\ req'[r].reported = req[r].reported
    BY <1>2, <1>3 DEF RequestRec
  <1>5. StaysKnown /\ (req'[r].ext # None => reg'[req'[r].ext].status # "new")
    BY <1>1, <1>4 DEF Inv, ReqInv, StaysKnown, terminals
  <1>6. ReqInv' /\ req' \in [Requests -> RequestRec]
    BY <1>3, <1>5, ReqMoves
  <1>7. LockInv' /\ locks' \in [Keys -> Requests \cup {None}]
    BY <1>1, <1>3, <1>4, LockFrame DEF LockedPcs
  <1>8. SwitchInv'
    <2>1. req[r].part = "model" /\ said[req[r].sid][req[r].target] > req[r].before
      BY <1>3 DEF Inv, ReqInv, Typed, Confirmed, CountSaid
    <2>2. req[r].target \in req[r].reported
      BY <2>1 DEF Inv, SwitchInv
    <2>3. ASSUME NEW x \in Requests
          PROVE  /\ req'[x].part = "model" /\ said[req'[x].sid][req'[x].target] > req'[x].before
                       => req'[x].target \in req'[x].reported
                 /\ req'[x].pc = "record" => req'[x].target \in req'[x].reported
      <3>1. CASE x = r
        BY <1>4, <2>2, <3>1
      <3>2. CASE x # r
        BY <1>2, <1>3, <3>2 DEF Inv, SwitchInv, Moves
      <3>. QED
        BY <3>1, <3>2
    <2>. QED
      BY <1>1, <2>3 DEF SwitchInv
  <1>. QED
    BY <1>1, <1>2, <1>6, <1>7, <1>8, ClaudeSame, RequestCore

LEMMA GiveUpCore ==
  ASSUME Inv, NEW r \in Requests, GiveUp(r)
  PROVE  Core'
  <1>1. /\ UNCHANGED <<terminals, tui, files, said, seen, menu>>
        /\ UNCHANGED <<inbox, store, locks, muddled>>
    BY DEF GiveUp, claude
  <1>2. /\ req \in [Requests -> RequestRec] /\ store' \in [Keys -> Values]
        /\ muddled' \subseteq Wrappers
    BY <1>1 DEF Inv, Types, DaemonTypes
  <1>3. Moves(r) /\ req[r].pc = "wait"
    BY GiveUpMoves
  <1>4. /\ req'[r].pc \in {"error", "count"}
        /\ \/ req'[r].part = None /\ req'[r].ext = None
           \/ /\ req'[r].part = req[r].part /\ req'[r].sid = req[r].sid
              /\ req'[r].target = req[r].target /\ req'[r].before = req[r].before
              /\ req'[r].reported = req[r].reported /\ req'[r].ext = req[r].ext
    <2>1. ASSUME req'[r] = [req[r] EXCEPT !.pc = "count"]
          PROVE  /\ req'[r].part = req[r].part /\ req'[r].sid = req[r].sid
                 /\ req'[r].target = req[r].target /\ req'[r].before = req[r].before
                 /\ req'[r].reported = req[r].reported /\ req'[r].ext = req[r].ext
                 /\ req'[r].pc = "count"
      BY <1>2, <2>1 DEF RequestRec
    <2>. QED
      BY <2>1, GiveUpMoves
  <1>5. StaysKnown /\ (req'[r].ext # None => reg'[req'[r].ext].status # "new")
    BY <1>1, <1>4 DEF Inv, ReqInv, StaysKnown, terminals
  <1>6. ReqInv' /\ req' \in [Requests -> RequestRec]
    BY <1>3, <1>5, ReqMoves
  <1>7. LockInv' /\ locks' \in [Keys -> Requests \cup {None}]
    BY <1>1, <1>3, <1>4, LockFrame DEF LockedPcs
  <1>8. SwitchInv'
    BY <1>1, <1>3, <1>4, SwitchFrame DEF None
  <1>. QED
    BY <1>1, <1>2, <1>6, <1>7, <1>8, ClaudeSame, RequestCore

LEMMA RecordModelCore ==
  ASSUME Inv, NEW r \in Requests, RecordModel(r)
  PROVE  Core'
  <1>1. /\ UNCHANGED <<terminals, tui, files, said, seen, menu>>
        /\ UNCHANGED <<inbox, locks, muddled>>
    BY DEF RecordModel, Quietly
  <1>2. req \in [Requests -> RequestRec] /\ muddled \subseteq Wrappers
    BY DEF Inv, Types, DaemonTypes
  <1>3. /\ Moves(r) /\ req[r].pc = "record" /\ req'[r].pc = "ok"
        /\ req'[r].part = None /\ req'[r].ext = None
    BY RecordModelMoves
  <1>4. StaysKnown
    BY <1>1 DEF StaysKnown, terminals
  <1>5. ReqInv' /\ req' \in [Requests -> RequestRec]
    BY <1>3, <1>4, ReqMoves
  <1>6. LockInv' /\ locks' \in [Keys -> Requests \cup {None}]
    BY <1>1, <1>3, LockFrame DEF LockedPcs
  <1>7. SwitchInv'
    BY <1>1, <1>3, SwitchFrame DEF None
  <1>8. store' \in [Keys -> Values]
    <2>1. Typed(req[r]) /\ Headed(req[r])
      BY DEF Inv, ReqInv
    <2>2. req[r].key \in Keys /\ req[r].ask.model \in Models \cup {None}
      BY <1>3, <2>1 DEF Headed, Typed, EndPcs, OpenPcs
    <2>. DEFINE v == [Unset EXCEPT !.model = req[r].ask.model]
    <2>3. v \in Values /\ v.model = req[r].ask.model
      BY <2>2 DEF Unset, Values, Efforts, None
    <2>4. store' = [store EXCEPT ![req[r].key].model = req[r].ask.model]
      BY DEF RecordModel
    <2>. HIDE DEF v
    <2>. QED
      BY <2>2, <2>3, <2>4, StoreTyped
  <1>. QED
    BY <1>1, <1>2, <1>5, <1>6, <1>7, <1>8, ClaudeSame, RequestCore

-----------------------------------------------------------------------------
(* Types, locks and switches: the terminals                                *)

\* A step that leaves the requests, their locks, and the store.
LEMMA TerminalCore ==
  ASSUME Inv, TermTypes', ClaudeTypes', TermInv', StaysKnown,
         UNCHANGED <<said, locks, menu, req>>, store' \in [Keys -> Values], muddled' \subseteq Wrappers
  PROVE  Core'
  <1>1. ReqInv'
    BY ReqFrame
  <1>2. LockInv' /\ SwitchInv'
    BY DEF Inv, LockInv, SwitchInv
  <1>3. MenuTypes' /\ DaemonTypes'
    BY DEF Inv, Types, MenuTypes, DaemonTypes, menu
  <1>. QED
    BY <1>1, <1>2, <1>3 DEF Core, Types

LEMMA SpawnTerms ==
  ASSUME Inv, NEW d \in Drivers, NEW s \in Sids, Spawn(d, s), tui' = tui
  PROVE  TermTypes' /\ TermInv' /\ StaysKnown
  <1>1. /\ reg \in [Terms -> [status : {"new", "live", "exited", "gone"}, sid : Sids \cup {None}]]
        /\ owner \in [Sids -> Terms \cup {None}] /\ TermInv
    BY DEF Inv, Types, TermTypes
  <1>2. /\ reg' = [reg EXCEPT ![d] = [status |-> "live", sid |-> s]]
        /\ owner' = [owner EXCEPT ![s] = d]
    BY DEF Spawn
  <1>3. d \in Terms /\ d \notin Wrappers
    BY Names
  <1>4. TermTypes' /\ StaysKnown
    BY <1>1, <1>2, <1>3 DEF TermTypes, StaysKnown
  <1>5. \A w \in Wrappers : reg'[w] = reg[w]
    BY <1>1, <1>2, <1>3, Names
  <1>6. TermInv'
    BY <1>1, <1>2, <1>3, <1>5 DEF TermInv
  <1>. QED
    BY <1>4, <1>6

LEMMA SpawnDraftCore ==
  ASSUME Inv, NEW r \in Requests, SpawnDraft(r)
  PROVE  Core'
  <1>1. UNCHANGED <<claude, store, locks, menu, muddled>>
    BY DEF SpawnDraft
  <1>2. req \in [Requests -> RequestRec] /\ store' \in [Keys -> Values] /\ muddled' \subseteq Wrappers
    BY <1>1 DEF Inv, Types, DaemonTypes
  <1>3. /\ Moves(r) /\ req[r].pc = "spawn" /\ req'[r].pc \in {"ok", "error"}
        /\ req'[r].ext = None /\ req'[r].part = None
    BY SpawnDraftMoves
  <1>4. req[r].sid \in Sids
    BY <1>3 DEF Inv, ReqInv, Headed
  <1>5. TermTypes' /\ TermInv' /\ StaysKnown
    <2>1. CASE UNCHANGED terminals
      BY <1>1, <2>1 DEF Inv, Types, TermTypes, TermInv, StaysKnown, terminals, claude
    <2>2. ASSUME NEW d \in Drivers, Spawn(d, req[r].sid) PROVE TermTypes' /\ TermInv' /\ StaysKnown
      BY <1>1, <1>4, <2>2, SpawnTerms DEF claude
    <2>. QED
      BY <2>1, <2>2 DEF SpawnDraft
  <1>6. ReqInv' /\ req' \in [Requests -> RequestRec]
    BY <1>3, <1>5, ReqMoves
  <1>7. LockInv' /\ locks' \in [Keys -> Requests \cup {None}]
    BY <1>1, <1>3, LockFrame DEF LockedPcs
  <1>8. SwitchInv'
    BY <1>1, <1>3, SwitchFrame DEF None, claude
  <1>9. ClaudeTypes' /\ MenuTypes'
    BY <1>1, ClaudeSame DEF Inv, Types, MenuTypes, claude, menu
  <1>. QED
    BY <1>2, <1>5, <1>6, <1>7, <1>8, <1>9 DEF Core, Types, DaemonTypes

LEMMA ResumeCore ==
  ASSUME Inv, NEW d \in Drivers, NEW s \in Sids, Resume(d, s)
  PROVE  Core'
  <1>1. /\ UNCHANGED <<tui, inbox, files, said, seen, locks, menu, req, store, muddled>>
        /\ Spawn(d, s)
    BY DEF Resume, Move, Stays
  <1>2. TermTypes' /\ TermInv' /\ StaysKnown
    BY <1>1, SpawnTerms
  <1>. QED
    BY <1>1, <1>2, ClaudeSame, TerminalCore DEF Inv, Types, DaemonTypes

LEMMA RegisterCore ==
  ASSUME Inv, NEW w \in Wrappers, Register(w)
  PROVE  Core'
  <1>1. /\ UNCHANGED <<inbox, files, said, seen, store, locks, menu, req, owner>>
        /\ reg[w].status = "new" /\ reg' = [reg EXCEPT ![w].status = "live"]
        /\ muddled' \in {muddled, muddled \cup {w}}
    BY DEF Register, Stays
  <1>2. PICK l \in Launches : tui' = [tui EXCEPT ![w] = [mode |-> l.mode, model |-> l.model]]
    BY DEF Register
  <1>3. l \in [model : Models \cup {None}, mode : Known]
    BY SettingsAssumption
  <1>4. w \in Terms
    BY Names
  <1>5. ClaudeTypes'
    <2>1. [mode |-> l.mode, model |-> l.model] \in [mode : Known, model : Models \cup {None}]
      BY <1>3
    <2>. QED
      BY <1>1, <1>2, <2>1 DEF Inv, Types, ClaudeTypes
  <1>6. TermTypes' /\ TermInv' /\ StaysKnown
    <2>1. \A t \in Terms : /\ reg'[t].sid = reg[t].sid
                           /\ t # w => reg'[t].status = reg[t].status
                           /\ reg'[w].status = "live"
      BY <1>1, <1>4 DEF Inv, Types, TermTypes
    <2>2. TermTypes'
      BY <1>1, <1>4 DEF Inv, Types, TermTypes
    <2>3. \A x \in Wrappers : x # w => tui'[x] = tui[x]
      BY <1>2 DEF Inv, Types, ClaudeTypes
    <2>. QED
      BY <1>1, <2>1, <2>2, <2>3, Names DEF Inv, TermInv, StaysKnown
  <1>7. muddled' \subseteq Wrappers
    BY <1>1 DEF Inv, Types, DaemonTypes
  <1>. QED
    BY <1>1, <1>5, <1>6, <1>7, TerminalCore DEF Inv, Types, DaemonTypes

LEMMA BindCore ==
  ASSUME Inv, NEW w \in Wrappers, NEW s \in Sids, Bind(w, s)
  PROVE  Core'
  <1>1. /\ UNCHANGED <<tui, inbox, files, said, seen, locks, menu, req, store, muddled>>
        /\ Live(w) /\ s \notin Headless
        /\ reg' = [reg EXCEPT ![w].sid = s]
        /\ owner' = [u \in Sids |-> IF u \in {s, reg[w].sid} THEN w ELSE owner[u]]
    BY DEF Bind, Stays, Move
  <1>2. w \in Terms /\ reg[w].sid \notin Headless
    BY Names DEF Inv, TermInv
  <1>3. TermTypes' /\ StaysKnown
    BY <1>1, <1>2 DEF Inv, Types, TermTypes, StaysKnown
  <1>4. TermInv'
    <2>1. \A t \in Terms : reg'[t].sid = (IF t = w THEN s ELSE reg[t].sid)
                           /\ reg'[t].status = reg[t].status
      BY <1>1, <1>2 DEF Inv, Types, TermTypes
    <2>. QED
      BY <1>1, <1>2, <2>1, Names DEF Inv, TermInv
  <1>. QED
    BY <1>1, <1>3, <1>4, ClaudeSame, TerminalCore DEF Inv, Types, DaemonTypes

LEMMA ExitCore ==
  ASSUME Inv, NEW t \in Terms, Exit(t)
  PROVE  Core'
  <1>1. /\ UNCHANGED <<owner, tui, files, said, seen, locks, menu, req, store, muddled>>
        /\ Live(t) /\ reg' = [reg EXCEPT ![t].status = "exited"]
        /\ inbox' = IF t \in Wrappers THEN [inbox EXCEPT ![t] = <<>>] ELSE inbox
    BY DEF Exit, Stays, Move
  <1>2. TermTypes' /\ StaysKnown
    BY <1>1 DEF Inv, Types, TermTypes, StaysKnown
  <1>3. TermInv'
    <2>1. \A u \in Terms : reg'[u].sid = reg[u].sid
                           /\ (u # t => reg'[u].status = reg[u].status)
                           /\ reg'[t].status = "exited"
      BY <1>1 DEF Inv, Types, TermTypes
    <2>2. \A w \in Wrappers : w # t => inbox'[w] = inbox[w]
      BY <1>1 DEF Inv, Types, ClaudeTypes
    <2>. QED
      BY <1>1, <2>1, <2>2, Names DEF Inv, TermInv
  <1>4. ClaudeTypes'
    <2>1. /\ inbox \in [Wrappers -> Seq(Inputs)]
          /\ \A w \in Wrappers : Len(inbox[w]) <= InboxCap
      BY DEF Inv, Types, ClaudeTypes
    <2>2. inbox' \in [Wrappers -> Seq(Inputs)] /\ \A w \in Wrappers : Len(inbox'[w]) <= InboxCap
      <3>1. CASE t \notin Wrappers
        BY <1>1, <2>1, <3>1
      <3>2. CASE t \in Wrappers
        <4>1. <<>> \in Seq(Inputs) /\ Len(<<>>) <= InboxCap
          BY Names
        <4>. QED
          BY <1>1, <2>1, <3>2, <4>1
      <3>. QED
        BY <3>1, <3>2
    <2>. QED
      BY <1>1, <2>2 DEF Inv, Types, ClaudeTypes
  <1>. QED
    BY <1>1, <1>2, <1>3, <1>4, TerminalCore DEF Inv, Types, DaemonTypes

LEMMA PurgeCore ==
  ASSUME Inv, NEW t \in Terms, Purge(t)
  PROVE  Core'
  <1>1. /\ UNCHANGED <<tui, inbox, files, said, seen, locks, menu, req, store, muddled>>
        /\ reg' = [reg EXCEPT ![t].status = "gone"]
        /\ owner' = [s \in Sids |-> IF owner[s] = t THEN None ELSE owner[s]]
    BY DEF Purge, claude
  <1>2. TermTypes' /\ StaysKnown
    BY <1>1 DEF Inv, Types, TermTypes, StaysKnown
  <1>3. TermInv'
    <2>1. \A u \in Terms : reg'[u].sid = reg[u].sid
                           /\ (u # t => reg'[u].status = reg[u].status)
                           /\ reg'[t].status = "gone"
      BY <1>1 DEF Inv, Types, TermTypes
    <2>2. None \notin Wrappers
      BY Names
    <2>. QED
      BY <1>1, <2>1, <2>2, Names DEF Inv, TermInv
  <1>. QED
    BY <1>1, <1>2, <1>3, ClaudeSame, TerminalCore DEF Inv, Types, DaemonTypes

LEMMA DeleteCore ==
  ASSUME Inv, NEW s \in Sids, DeleteSession(s)
  PROVE  Core'
  <1>1. /\ UNCHANGED <<terminals, tui, inbox, locks, menu, req, store, muddled>>
        /\ files' = files \ {s}
        /\ said' = [said EXCEPT ![s] = [t \in Models |-> 0]]
        /\ seen' = [seen EXCEPT ![s] = None]
    BY DEF DeleteSession
  <1>2. TermTypes' /\ TermInv' /\ StaysKnown
    BY <1>1 DEF Inv, Types, TermTypes, TermInv, StaysKnown, terminals
  <1>3. ReqInv'
    BY <1>1, <1>2, ReqFrame
  <1>4. ClaudeTypes' /\ MenuTypes' /\ DaemonTypes'
    BY <1>1 DEF Inv, Types, ClaudeTypes, MenuTypes, DaemonTypes, menu
  <1>5. LockInv'
    BY <1>1 DEF Inv, LockInv
  <1>6. SwitchInv'
    <2>1. ASSUME NEW r \in Requests, req[r].part = "model",
                 said'[req[r].sid][req[r].target] > req[r].before
          PROVE  req[r].target \in req[r].reported
      <3>1. req[r].sid \in Sids /\ req[r].before \in Nat
        BY <2>1 DEF Inv, ReqInv, Typed, Types, DaemonTypes, RequestRec
      <3>2. CASE req[r].pc \in OpenPcs
        <4>1. req[r].target \in Models
          BY <2>1, <3>2 DEF Inv, ReqInv, Typed
        <4>2. said'[req[r].sid][req[r].target] \in {0, said[req[r].sid][req[r].target]}
          BY <1>1, <3>1, <4>1 DEF Inv, Types, ClaudeTypes
        <4>. QED
          BY <2>1, <3>1, <4>2 DEF Inv, SwitchInv
      <3>3. CASE req[r].pc \notin OpenPcs
        BY <2>1, <3>1, <3>3 DEF Inv, ReqInv, Typed
      <3>. QED
        BY <3>2, <3>3
    <2>. QED
      BY <1>1, <2>1 DEF Inv, SwitchInv
  <1>. QED
    BY <1>2, <1>3, <1>4, <1>5, <1>6 DEF Core, Types

-----------------------------------------------------------------------------
(* Types, locks and switches: Claude's TUI                                 *)

LEMMA NextModeIs ==
  ASSUME NEW m
  PROVE  /\ NextMode(m) \in {"default", "acceptEdits", "plan"} /\ NextMode(m) \in Known
         /\ InCycle(m) => Index(NextMode(m)) = (Index(m) % 3) + 1
  <1>1. NextMode(m) \in {"default", "acceptEdits", "plan"}
        /\ (InCycle(m) => Index(NextMode(m)) = (Index(m) % 3) + 1)
    <2>1. CASE InCycle(m)
      <3>1. Index(m) \in {1, 2, 3}
        BY <2>1, CycleFacts
      <3>2. NextMode(m) = Cycle[(Index(m) % 3) + 1]
        BY <2>1, CycleFacts DEF NextMode
      <3>3. (Index(m) % 3) + 1 \in {1, 2, 3}
        BY <3>1
      <3>4. NextMode(m) \in {"default", "acceptEdits", "plan"}
            /\ Index(NextMode(m)) = (Index(m) % 3) + 1
        BY <3>2, <3>3, CycleFacts
      <3>. QED
        BY <3>4
    <2>2. CASE ~InCycle(m)
      BY <2>2, CycleFacts DEF NextMode
    <2>. QED
      BY <2>1, <2>2
  <1>. QED
    BY <1>1 DEF Known, Native

\* The inputs once the TUI has taken the first one.
LEMMA TakesIs ==
  ASSUME Inv, NEW w \in Wrappers, Takes(w)
  PROVE  /\ inbox' \in [Wrappers -> Seq(Inputs)] /\ \A x \in Wrappers : Len(inbox'[x]) <= InboxCap
         /\ inbox'[w] = Tail(inbox[w]) /\ \A x \in Wrappers : x # w => inbox'[x] = inbox[x]
         /\ Head(inbox[w]) \in Inputs /\ inbox[w] \in Seq(Inputs) /\ inbox[w] # <<>>
         /\ Live(w) /\ w \in Terms
  <1>1. /\ inbox \in [Wrappers -> Seq(Inputs)]
        /\ \A x \in Wrappers : Len(inbox[x]) <= InboxCap
    BY DEF Inv, Types, ClaudeTypes
  <1>2. inbox[w] # <<>> /\ inbox' = [inbox EXCEPT ![w] = Tail(inbox[w])] /\ Live(w)
    BY DEF Takes
  <1>3. inbox[w] \in Seq(Inputs)
    BY <1>1
  <1>. HIDE DEF Inputs
  <1>4. /\ Tail(inbox[w]) \in Seq(Inputs) /\ Head(inbox[w]) \in Inputs
        /\ Len(Tail(inbox[w])) = Len(inbox[w]) - 1 /\ Len(inbox[w]) \in Nat
    BY <1>2, <1>3
  <1>5. Len(Tail(inbox[w])) <= InboxCap
    BY <1>1, <1>4, Names
  <1>. QED
    BY <1>1, <1>2, <1>3, <1>4, <1>5, Names

\* A step of Claude's or its user's at a live terminal.
LEMMA LiveCore ==
  ASSUME Inv, NEW w \in Wrappers, Live(w), ClaudeTypes', UNCHANGED <<terminals, store, locks, menu>>,
         UNCHANGED <<said, req>>, muddled' \subseteq Wrappers,
         \A x \in Wrappers : x # w => tui'[x] = tui[x]
  PROVE  Core'
  <1>1. TermTypes' /\ StaysKnown
    BY DEF Inv, Types, TermTypes, StaysKnown, terminals
  <1>2. TermInv'
    BY DEF Inv, TermInv, terminals, Live
  <1>. QED
    BY <1>1, <1>2, TerminalCore DEF Inv, Types, DaemonTypes

LEMMA CyclesIs ==
  ASSUME Inv, NEW w \in Wrappers, Cycles(w)
  PROVE  /\ tui' \in [Wrappers -> [mode : Known, model : Models \cup {None}]]
         /\ tui'[w].mode = NextMode(tui[w].mode)
         /\ \A x \in Wrappers : x # w => tui'[x] = tui[x]
  <1>. DEFINE m == NextMode(tui[w].mode)
  <1>1. tui \in [Wrappers -> [mode : Known, model : Models \cup {None}]]
    BY DEF Inv, Types, ClaudeTypes
  <1>2. m \in Known
    BY NextModeIs
  <1>3. tui' = [tui EXCEPT ![w].mode = m]
    BY <1>1 DEF Cycles
  <1>. HIDE DEF m, Known
  <1>4. tui' \in [Wrappers -> [mode : Known, model : Models \cup {None}]] /\ tui'[w].mode = m
    BY <1>1, <1>2, <1>3
  <1>5. \A x \in Wrappers : x # w => tui'[x] = tui[x]
    BY <1>1, <1>3
  <1>. QED
    BY <1>4, <1>5 DEF m

LEMMA TakeTabCore ==
  ASSUME Inv, NEW w \in Wrappers, TakeTab(w)
  PROVE  Core'
  <1>1. /\ Takes(w) /\ Cycles(w) /\ UNCHANGED <<terminals, store, locks, menu>>
        /\ UNCHANGED <<files, said, seen, req, muddled>>
    BY DEF TakeTab, Outside
  <1>2. ClaudeTypes'
    BY <1>1, TakesIs, CyclesIs DEF Inv, Types, ClaudeTypes
  <1>. QED
    BY <1>1, <1>2, TakesIs, CyclesIs, LiveCore DEF Inv, Types, DaemonTypes

LEMMA UserTabCore ==
  ASSUME Inv, NEW w \in Wrappers, UserTab(w)
  PROVE  Core'
  <1>1. /\ Live(w) /\ inbox' = inbox /\ Cycles(w) /\ UNCHANGED <<terminals, store, locks, menu>>
        /\ UNCHANGED <<files, said, seen, req>> /\ muddled' \in {muddled, muddled \cup {w}}
    BY DEF UserTab, User, Outside
  <1>2. ClaudeTypes'
    BY <1>1, CyclesIs DEF Inv, Types, ClaudeTypes
  <1>3. muddled' \subseteq Wrappers
    BY <1>1 DEF Inv, Types, DaemonTypes
  <1>. QED
    BY <1>1, <1>2, <1>3, CyclesIs, LiveCore

LEMMA TakeEffortCore ==
  ASSUME Inv, NEW w \in Wrappers, TakeEffort(w) \/ Swallow(w)
  PROVE  Core'
  <1>1. /\ Takes(w) /\ UNCHANGED <<terminals, store, locks, menu>>
        /\ UNCHANGED <<tui, files, said, seen, req>> /\ muddled' \in {muddled, muddled \cup {w}}
    BY DEF TakeEffort, Swallow, Outside
  <1>2. ClaudeTypes'
    BY <1>1, TakesIs DEF Inv, Types, ClaudeTypes
  <1>3. muddled' \subseteq Wrappers
    BY <1>1 DEF Inv, Types, DaemonTypes
  <1>. QED
    BY <1>1, <1>2, <1>3, TakesIs, LiveCore

LEMMA TurnCore ==
  ASSUME Inv, NEW w \in Wrappers, Turn(w)
  PROVE  Core'
  <1>1. /\ Live(w) /\ UNCHANGED <<terminals, store, locks, menu>>
        /\ UNCHANGED <<tui, inbox, said, req, muddled>>
        /\ reg[w].sid # None /\ tui[w].model # None
        /\ seen' = [seen EXCEPT ![reg[w].sid] = tui[w].model]
        /\ files' = files \cup {reg[w].sid}
    BY DEF Turn, User, Outside
  <1>2. reg[w].sid \in Sids
    BY <1>1, Names DEF Inv, Types, TermTypes
  <1>3. ClaudeTypes'
    BY <1>1, <1>2 DEF Inv, Types, ClaudeTypes
  <1>. QED
    BY <1>1, <1>3, LiveCore DEF Inv, Types, DaemonTypes

Reported(r, s, m) ==
    /\ req'[r].pc = req[r].pc /\ req'[r].key = req[r].key /\ req'[r].ext = req[r].ext
    /\ req'[r].sid = req[r].sid /\ req'[r].part = req[r].part /\ req'[r].ask = req[r].ask
    /\ req'[r].path = req[r].path /\ req'[r].tries = req[r].tries
    /\ req'[r].target = req[r].target /\ req'[r].before = req[r].before
    /\ req'[r].presses = req[r].presses
    /\ req'[r].reported = IF req[r].sid = s /\ s # None
                          THEN req[r].reported \cup {m} ELSE req[r].reported

\* The session reports that it runs a model: nothing else of a request changes.
LEMMA ReportsIs ==
  ASSUME Inv, NEW s \in Sids \cup {None}, NEW m \in Models, Reports(s, m)
  PROVE  /\ files' \subseteq Sids /\ said' \in [Sids -> [Models -> Nat]]
         /\ seen' \in [Sids -> Models \cup {None}]
         /\ \A x \in Sids, y \in Models : said'[x][y] = said[x][y] \/ (x = s /\ y = m)
         /\ req' \in [Requests -> RequestRec]
         /\ \A r \in Requests : Reported(r, s, m)
  <1>1. req \in [Requests -> RequestRec]
    BY DEF Inv, Types, DaemonTypes
  <1>2. req' = [r \in Requests |-> IF req[r].sid = s /\ s # None
                                  THEN [req[r] EXCEPT !.reported = @ \cup {m}] ELSE req[r]]
    BY DEF Reports
  <1>3. ASSUME NEW r \in Requests
        PROVE  req'[r] \in RequestRec /\ Reported(r, s, m)
    <2>1. req[r] \in RequestRec
      BY <1>1
    <2>2. CASE req[r].sid = s /\ s # None
      <3>1. req'[r] = [req[r] EXCEPT !.reported = @ \cup {m}]
        BY <1>2, <2>2
      <3>. QED
        BY <2>1, <2>2, <3>1 DEF RequestRec, Reported
    <2>3. CASE ~(req[r].sid = s /\ s # None)
      BY <1>2, <2>1, <2>3 DEF Reported
    <2>. QED
      BY <2>2, <2>3
  <1>4. req' \in [Requests -> RequestRec]
    BY <1>2, <1>3
  <1>5. files' \subseteq Sids /\ seen' \in [Sids -> Models \cup {None}]
    BY DEF Reports, Inv, Types, ClaudeTypes
  <1>6. /\ said' \in [Sids -> [Models -> Nat]]
        /\ \A x \in Sids, y \in Models : said'[x][y] = said[x][y] \/ (x = s /\ y = m)
    <2>1. said \in [Sids -> [Models -> Nat]]
      BY DEF Inv, Types, ClaudeTypes
    <2>2. CASE s = None
      BY <2>1, <2>2 DEF Reports
    <2>3. CASE s \in Sids
      <3>1. said' = [said EXCEPT ![s] = [said[s] EXCEPT ![m] = said[s][m] + 1]]
        BY <2>1, <2>3, Names DEF Reports
      <3>2. [said[s] EXCEPT ![m] = said[s][m] + 1] \in [Models -> Nat]
        BY <2>1, <2>3
      <3>. QED
        BY <2>1, <2>3, <3>1, <3>2
    <2>. QED
      BY <2>2, <2>3
  <1>. QED
    BY <1>3, <1>4, <1>5, <1>6

LEMMA ReportsCore ==
  ASSUME Inv, NEW w \in Wrappers, NEW m \in Models, Live(w), Switches(w, m),
         UNCHANGED <<terminals, store, locks, menu, muddled>>,
         inbox' \in [Wrappers -> Seq(Inputs)], \A x \in Wrappers : Len(inbox'[x]) <= InboxCap,
         \A x \in Wrappers : x # w => inbox'[x] = inbox[x]
  PROVE  Core'
  <1>. DEFINE s == reg[w].sid
              t == Concrete(m)
  <1>1. s \in Sids \cup {None} /\ t \in Models
    BY ConcreteTyped, Names DEF Inv, Types, TermTypes
  <1>2. Reports(s, t) /\ tui' = [tui EXCEPT ![w].model = t]
    BY DEF Switches
  <1>. HIDE DEF s, t
  <1>3. /\ files' \subseteq Sids /\ said' \in [Sids -> [Models -> Nat]]
        /\ seen' \in [Sids -> Models \cup {None}] /\ req' \in [Requests -> RequestRec]
    BY <1>1, <1>2, ReportsIs
  <1>4. \A r \in Requests : Reported(r, s, t) /\ Part(req'[r]) = Part(req[r])
    <2>1. \A r \in Requests : Reported(r, s, t)
      BY <1>1, <1>2, ReportsIs
    <2>2. \A r \in Requests : Reported(r, s, t) => Part(req'[r]) = Part(req[r])
      BY PartSame DEF Reported
    <2>. QED
      BY <2>1, <2>2
  <1>5. TermTypes' /\ TermInv'
    <2>1. \A x \in Wrappers : tui'[x].mode = tui[x].mode
      BY DEF Switches, Inv, Types, ClaudeTypes
    <2>. QED
      BY <2>1 DEF Inv, Types, TermTypes, TermInv, terminals
  <1>6. ClaudeTypes'
    BY <1>1, <1>2, <1>3 DEF Inv, Types, ClaudeTypes
  <1>7. MenuTypes' /\ DaemonTypes'
    BY <1>3 DEF Inv, Types, MenuTypes, DaemonTypes, menu
  <1>8. ReqInv'
    <2>1. ASSUME NEW r \in Requests
          PROVE  /\ Headed(req'[r]) /\ Typed(req'[r])
                 /\ req'[r].ext # None => reg'[req'[r].ext].status # "new"
      <3>1. /\ Headed(req[r]) /\ Typed(req[r])
            /\ req[r].ext # None => reg[req[r].ext].status # "new"
        BY DEF Inv, ReqInv
      <3>2. Headed(req'[r])
        BY <1>4, <3>1 DEF Headed, Reported
      <3>3. Typed(req'[r])
        BY <1>4, <3>1 DEF Typed, Reported
      <3>. QED
        BY <1>4, <3>1, <3>2, <3>3 DEF terminals, Reported
    <2>. QED
      BY <2>1 DEF ReqInv, Headed, Typed
  <1>9. LockInv'
    <2>1. LockInv /\ locks \in [Keys -> Requests \cup {None}] /\ locks' = locks
      BY DEF Inv, Types, DaemonTypes
    <2>2. ASSUME NEW r \in Requests, req'[r].pc \in LockedPcs PROVE locks'[req'[r].key] = r
      <3>1. req'[r].pc = req[r].pc /\ req'[r].key = req[r].key
        BY <1>4 DEF Reported
      <3>2. locks[req[r].key] = r
        BY <2>1, <2>2, <3>1 DEF LockInv
      <3>. QED
        BY <2>1, <3>1, <3>2
    <2>3. ASSUME NEW k \in Keys, locks'[k] # None
          PROVE  req'[locks'[k]].key = k /\ req'[locks'[k]].pc \in LockedPcs
      <3>1. locks'[k] = locks[k] /\ locks[k] \in Requests
        BY <2>1, <2>3
      <3>2. req[locks[k]].key = k /\ req[locks[k]].pc \in LockedPcs
        BY <2>1, <2>3, <3>1 DEF LockInv
      <3>. QED
        BY <1>4, <3>1, <3>2 DEF Reported
    <2>. QED
      BY <2>2, <2>3 DEF LockInv
  <1>10. SwitchInv'
    <2>1. ASSUME NEW r \in Requests
          PROVE  /\ req'[r].part = "model" /\ said'[req'[r].sid][req'[r].target] > req'[r].before
                       => req'[r].target \in req'[r].reported
                 /\ req'[r].pc = "record" => req'[r].target \in req'[r].reported
      <3>1. ASSUME req[r].part = "model", said'[req[r].sid][req[r].target] > req[r].before,
                   req[r].target \notin req'[r].reported
            PROVE  FALSE
        <4>1. req[r].sid \in Sids /\ req[r].target \in Models
          BY <3>1 DEF Inv, ReqInv, Typed
        <4>2. said'[req[r].sid][req[r].target] = said[req[r].sid][req[r].target]
              \/ (s = req[r].sid /\ req[r].target = t)
          <5>1. \A x \in Sids, y \in Models : said'[x][y] = said[x][y] \/ (x = s /\ y = t)
            BY <1>1, <1>2, ReportsIs
          <5>. QED
            BY <4>1, <5>1
        <4>3. CASE s = req[r].sid /\ req[r].target = t
          BY <1>4, <3>1, <4>1, <4>3, Names DEF Reported
        <4>4. CASE said'[req[r].sid][req[r].target] = said[req[r].sid][req[r].target]
          <5>1. req[r].target \in req[r].reported
            BY <3>1, <4>4 DEF Inv, SwitchInv
          <5>. QED
            BY <1>4, <3>1, <5>1 DEF Reported
        <4>. QED
          BY <4>2, <4>3, <4>4
      <3>. QED
        BY <1>4, <3>1 DEF Inv, SwitchInv, Reported
    <2>. QED
      BY <2>1 DEF SwitchInv
  <1>. QED
    BY <1>5, <1>6, <1>7, <1>8, <1>9, <1>10 DEF Core, Types

LEMMA TakeModelCore ==
  ASSUME Inv, NEW w \in Wrappers, TakeModel(w)
  PROVE  Core'
  <1>1. /\ Takes(w) /\ Head(inbox[w]).kind = "model" /\ Switches(w, Head(inbox[w]).arg)
        /\ UNCHANGED <<terminals, store, locks, menu, muddled>>
    BY DEF TakeModel, Outside
  <1>2. Head(inbox[w]).arg \in Models
    BY <1>1, TakesIs DEF Inputs
  <1>. QED
    BY <1>1, <1>2, TakesIs, ReportsCore

LEMMA UserModelCore ==
  ASSUME Inv, NEW w \in Wrappers, UserModel(w)
  PROVE  Core'
  <1>1. /\ Live(w) /\ inbox' = inbox /\ UNCHANGED <<terminals, store, locks, menu, muddled>>
    BY DEF UserModel, User, Outside
  <1>2. PICK m \in Models : Switches(w, m)
    BY DEF UserModel
  <1>3. inbox' \in [Wrappers -> Seq(Inputs)] /\ \A x \in Wrappers : Len(inbox'[x]) <= InboxCap
    BY <1>1 DEF Inv, Types, ClaudeTypes
  <1>. QED
    BY <1>1, <1>2, <1>3, ReportsCore

LEMMA MenuCore ==
  ASSUME Inv, QueryCLI \/ LineupExpires \/ Configure
  PROVE  Core'
  <1>1. UNCHANGED <<terminals, claude, store, locks, req, muddled>>
    BY DEF QueryCLI, LineupExpires, Configure, Change
  <1>2. MenuTypes'
    <2>1. MenuTypes
      BY DEF Inv, Types
    <2>2. CASE QueryCLI
      BY <2>1, <2>2 DEF QueryCLI, MenuTypes
    <2>3. CASE LineupExpires
      BY <2>1, <2>3 DEF LineupExpires, MenuTypes
    <2>4. CASE Configure
      BY <2>1, <2>4 DEF Configure, MenuTypes
    <2>. QED
      BY <2>2, <2>3, <2>4
  <1>3. ClaudeTypes'
    BY <1>1, ClaudeSame DEF claude
  <1>4. TermTypes' /\ TermInv' /\ StaysKnown
    BY <1>1 DEF Inv, Types, TermTypes, TermInv, StaysKnown, terminals, claude
  <1>5. ReqInv'
    BY <1>1, <1>4, ReqFrame
  <1>6. DaemonTypes' /\ LockInv' /\ SwitchInv'
    BY <1>1 DEF Inv, Types, DaemonTypes, LockInv, SwitchInv, claude
  <1>. QED
    BY <1>2, <1>3, <1>4, <1>5, <1>6 DEF Core, Types


-----------------------------------------------------------------------------
(* Back-tabs in a terminal's channel                                       *)

LEMMA TabsFinite ==
  ASSUME NEW seq \in Seq(Inputs)
  PROVE  /\ IsFiniteSet(TabsIn(seq)) /\ Cardinality(TabsIn(seq)) \in Nat
         /\ Cardinality(TabsIn(seq)) = 0 <=> TabsIn(seq) = {}
         /\ TabsIn(seq) \subseteq 1..Len(seq) /\ Len(seq) \in Nat
  <1>1. TabsIn(seq) \subseteq 1..Len(seq) /\ Len(seq) \in Nat
    BY DEF TabsIn
  <1>2. IsFiniteSet(1..Len(seq))
    BY <1>1, FS_Interval
  <1>3. IsFiniteSet(TabsIn(seq))
    BY <1>1, <1>2, FS_Subset
  <1>. QED
    BY <1>1, <1>3, FS_CardinalityType, FS_EmptySet

LEMMA TabsAppend ==
  ASSUME NEW seq \in Seq(Inputs), NEW in \in Inputs
  PROVE  Cardinality(TabsIn(Append(seq, in)))
           = IF in.kind = "tab" THEN Cardinality(TabsIn(seq)) + 1 ELSE Cardinality(TabsIn(seq))
  <1>. DEFINE n == Len(seq) + 1
  <1>1. Len(seq) \in Nat /\ TabsIn(seq) \subseteq 1..Len(seq) /\ IsFiniteSet(TabsIn(seq))
    BY TabsFinite
  <1>2. TabsIn(Append(seq, in)) = IF in.kind = "tab" THEN TabsIn(seq) \cup {n} ELSE TabsIn(seq)
    <2>1. /\ DOMAIN Append(seq, in) = 1..n /\ DOMAIN seq = 1..Len(seq)
          /\ \A i \in 1..Len(seq) : Append(seq, in)[i] = seq[i]
          /\ Append(seq, in)[n] = in /\ 1..n = (1..Len(seq)) \cup {n} /\ n \notin 1..Len(seq)
      <3>. HIDE DEF Inputs
      <3>. QED
        BY <1>1
    <2>. HIDE DEF n
    <2>. QED
      BY <2>1 DEF TabsIn
  <1>3. n \notin TabsIn(seq)
    BY <1>1
  <1>. HIDE DEF n
  <1>4. Cardinality(TabsIn(seq) \cup {n}) = Cardinality(TabsIn(seq)) + 1
    BY <1>1, <1>3, FS_AddElement
  <1>. QED
    BY <1>2, <1>4

LEMMA TabsTail ==
  ASSUME NEW seq \in Seq(Inputs), seq # <<>>
  PROVE  Cardinality(TabsIn(seq)) = IF Head(seq).kind = "tab"
                                    THEN Cardinality(TabsIn(Tail(seq))) + 1
                                    ELSE Cardinality(TabsIn(Tail(seq)))
  <1>. DEFINE U == TabsIn(Tail(seq))
              T == TabsIn(seq) \ {1}
              f == [i \in U |-> i + 1]
  <1>. HIDE DEF Inputs
  <1>1. /\ Tail(seq) \in Seq(Inputs) /\ Len(seq) \in Nat \ {0} /\ Len(Tail(seq)) = Len(seq) - 1
        /\ Head(seq) = seq[1] /\ \A i \in 1..(Len(seq) - 1) : Tail(seq)[i] = seq[i + 1]
        /\ DOMAIN seq = 1..Len(seq) /\ DOMAIN Tail(seq) = 1..(Len(seq) - 1)
    OBVIOUS
  <1>2. /\ IsFiniteSet(U) /\ IsFiniteSet(TabsIn(seq)) /\ U \subseteq 1..(Len(seq) - 1)
        /\ TabsIn(seq) \subseteq 1..Len(seq)
    BY <1>1, TabsFinite
  <1>3. f \in Bijection(U, T)
    <2>1. \A i \in 1..(Len(seq) - 1) : i \in U <=> i + 1 \in T
      BY <1>1 DEF TabsIn
    <2>2. f \in [U -> T]
      BY <1>2, <2>1
    <2>3. \A i, j \in U : f[i] = f[j] => i = j
      BY <1>2
    <2>4. ASSUME NEW j \in T PROVE \E i \in U : f[i] = j
      <3>1. j \in 2..Len(seq)
        BY <1>1, <1>2
      <3>2. j - 1 \in 1..(Len(seq) - 1) /\ (j - 1) + 1 = j
        BY <1>1, <3>1
      <3>3. j - 1 \in U
        BY <2>1, <3>2
      <3>. QED
        BY <3>2, <3>3
    <2>. HIDE DEF U, T, f
    <2>. QED
      BY <2>2, <2>3, <2>4, Fun_IsBij
  <1>4. IsFiniteSet(T) /\ Cardinality(T) = Cardinality(U)
    <2>. HIDE DEF U, T, f
    <2>1. ExistsBijection(U, T)
      BY <1>3 DEF ExistsBijection
    <2>. QED
      BY <1>2, <2>1, FS_Bijection
  <1>5. TabsIn(seq) = IF Head(seq).kind = "tab" THEN T \cup {1} ELSE T
    <2>1. 1 \in TabsIn(seq) <=> Head(seq).kind = "tab"
      BY <1>1 DEF TabsIn
    <2>. QED
      BY <2>1
  <1>6. Cardinality(T \cup {1}) = Cardinality(T) + 1
    <2>1. 1 \notin T
      OBVIOUS
    <2>. HIDE DEF T
    <2>. QED
      BY <1>4, <2>1, FS_AddElement
  <1>. QED
    BY <1>4, <1>5, <1>6

-----------------------------------------------------------------------------
(* Keys: the steps that leave the mode alone                               *)

\* The requests that type keys into a terminal go on as they were.
TypingSameAt(w) ==
    \A r \in Requests :
       /\ Typing(r, w)' <=> Typing(r, w)
       /\ Typing(r, w) => /\ req'[r].ext = req[r].ext /\ req'[r].key = req[r].key
                          /\ req'[r].presses = req[r].presses
                          /\ Part(req'[r]).mode = Part(req[r]).mode
\* So do its keys, and the mode the pills show, if it is followed after all.
ModesSameAt(w) ==
    /\ w \in muddled => w \in muddled'
    /\ Followed(w)' => /\ Coming(w) /\ tui'[w].mode = tui[w].mode
                       /\ Tabs(w)' = Tabs(w) /\ Base(Ts(w))' = Base(Ts(w))
TypingSame == \A w \in Wrappers : TypingSameAt(w)
ModesSame  == \A w \in Wrappers : ModesSameAt(w)

FollowAt(w) ==
    /\ \A r \in Requests : Typing(r, w) /\ w \notin muddled => req[r].ext = w /\ req[r].key = Ts(w)
    /\ \A r \in Requests : Followed(w) /\ Typing(r, w) => Arrives(r, w)
    /\ Followed(w) /\ ~ModeTyping(w) => Arrived(w)

LEMMA FollowsAt ==
  /\ FollowInv <=> \A w \in Wrappers : FollowAt(w)
  /\ FollowInv' <=> \A w \in Wrappers : FollowAt(w)'
  BY DEF FollowInv, FollowAt, TypingInv, PressInv, ModeInv

\* A terminal that a step leaves alone.
LEMMA FrameAt ==
  ASSUME Inv, NEW w \in Wrappers, ModesSameAt(w), TypingSameAt(w)
  PROVE  FollowAt(w)'
  <1>1. FollowAt(w)
    BY FollowsAt DEF Inv
  <1>2. ASSUME NEW r \in Requests, Typing(r, w)', w \notin muddled'
        PROVE  req'[r].ext = w /\ req'[r].key = Ts(w)
    <2>1. Typing(r, w) /\ w \notin muddled
      BY <1>2 DEF TypingSameAt, ModesSameAt
    <2>2. req[r].ext = w /\ req[r].key = Ts(w)
      BY <1>1, <2>1 DEF FollowAt
    <2>. QED
      BY <2>1, <2>2 DEF TypingSameAt
  <1>3. ASSUME Followed(w)'
        PROVE  /\ Followed(w) /\ Tabs(w)' = Tabs(w) /\ Base(Ts(w))' = Base(Ts(w))
               /\ tui'[w].mode = tui[w].mode
    BY <1>3 DEF ModesSameAt, Followed
  <1>4. ASSUME NEW r \in Requests, Followed(w)', Typing(r, w)'
        PROVE  Arrives(r, w)'
    <2>1. Followed(w) /\ Typing(r, w) /\ Tabs(w)' = Tabs(w) /\ tui'[w].mode = tui[w].mode
      BY <1>3, <1>4 DEF TypingSameAt
    <2>2. Arrives(r, w)
      BY <1>1, <2>1 DEF FollowAt
    <2>3. req'[r].presses = req[r].presses /\ Part(req'[r]).mode = Part(req[r]).mode
      BY <2>1 DEF TypingSameAt
    <2>. HIDE DEF Part, Index, InCycle, Tabs
    <2>. QED
      BY <2>1, <2>2, <2>3 DEF Arrives
  <1>5. ASSUME Followed(w)', ~ModeTyping(w)'
        PROVE  Arrived(w)'
    <2>1. /\ Followed(w) /\ Tabs(w)' = Tabs(w) /\ Base(Ts(w))' = Base(Ts(w))
          /\ tui'[w].mode = tui[w].mode
      BY <1>3, <1>5
    <2>2. ModeTyping(w)' <=> ModeTyping(w)
      BY DEF ModeTyping, TypingSameAt, Typing
    <2>3. Arrived(w)
      BY <1>1, <1>5, <2>1, <2>2 DEF FollowAt
    <2>. HIDE DEF Index, InCycle, Tabs, Base
    <2>. QED
      BY <2>1, <2>3 DEF Arrived
  <1>. QED
    BY <1>2, <1>4, <1>5 DEF FollowAt

\* Of a terminal whose mode the daemon does not follow nothing is said.
LEMMA MuddledAt ==
  ASSUME NEW w \in Wrappers, w \in muddled'
  PROVE  FollowAt(w)'
  BY DEF FollowAt, Followed

LEMMA FollowFrame ==
  ASSUME Inv, ModesSame, TypingSame
  PROVE  FollowInv'
  BY FrameAt, FollowsAt DEF ModesSame, TypingSame

LEMMA RequestFollow ==
  ASSUME Inv, NEW r \in Requests, Moves(r), req[r].pc # "press", req'[r].pc # "press",
         UNCHANGED <<tui, muddled>>,
         \A w \in Wrappers : Coming(w)' => Coming(w),
         \A w \in Wrappers : Tabs(w)' = Tabs(w) /\ Base(Ts(w))' = Base(Ts(w))
  PROVE  FollowInv'
  <1>1. req \in [Requests -> RequestRec]
    BY DEF Inv, Types, DaemonTypes
  <1>2. \A x \in Requests : x # r => req'[x] = req[x]
    BY <1>1 DEF Moves
  <1>3. TypingSame
    BY <1>2 DEF TypingSame, TypingSameAt, Typing
  <1>4. ModesSame
    BY DEF ModesSame, ModesSameAt, Followed, Coming
  <1>. QED
    BY <1>3, <1>4, FollowFrame

\* A step that leaves the requests.
LEMMA TerminalFollow ==
  ASSUME Inv, ModesSame, req' = req
  PROVE  FollowInv'
  <1>1. TypingSame
    BY DEF TypingSame, TypingSameAt, Typing
  <1>. QED
    BY <1>1, FollowFrame

\* The mode is neither the model nor the effort, nor another key's.
LEMMA BaseSame ==
  ASSUME Inv, NEW k \in Keys, NEW f \in Fields, NEW v,
         store' = [store EXCEPT ![k][f] = v],
         f \in {"model", "effort"} \/ \A w \in Wrappers : k # Ts(w)
  PROVE  \A w \in Wrappers : Base(Ts(w))' = Base(Ts(w))
  <1>1. ASSUME NEW w \in Wrappers PROVE store'[Ts(w)].mode = store[Ts(w)].mode
    <2>1. Ts(w) \in Keys /\ store \in [Keys -> Values]
      BY Names DEF Inv, Types, DaemonTypes
    <2>2. CASE k # Ts(w)
      BY <2>1, <2>2
    <2>3. CASE k = Ts(w)
      <3>1. store'[Ts(w)] = [store[Ts(w)] EXCEPT ![f] = v] /\ store[Ts(w)] \in Values
        BY <2>1, <2>3
      <3>. QED
        BY <2>3, <3>1 DEF Values
    <2>. QED
      BY <2>2, <2>3
  <1>. QED
    BY <1>1 DEF Base

\* What is not a back-tab leaves them, and so does what no channel takes.
LEMMA DeliveredTabs ==
  ASSUME ClaudeTypes, NEW t \in Terms, NEW in \in Inputs, inbox' = Delivered(t, in)
  PROVE  \A w \in Wrappers :
            Tabs(w)' = IF w = t /\ Len(inbox[t]) < InboxCap /\ in.kind = "tab"
                       THEN Tabs(w) + 1 ELSE Tabs(w)
  <1>1. inbox \in [Wrappers -> Seq(Inputs)]
    BY DEF ClaudeTypes
  <1>2. ASSUME NEW w \in Wrappers
        PROVE  inbox'[w] = IF w = t /\ Len(inbox[t]) < InboxCap
                           THEN Append(inbox[w], in) ELSE inbox[w]
    BY <1>1, <1>2 DEF Delivered
  <1>3. ASSUME NEW w \in Wrappers
        PROVE  Cardinality(TabsIn(Append(inbox[w], in)))
                 = IF in.kind = "tab" THEN Tabs(w) + 1 ELSE Tabs(w)
    <2>1. inbox[w] \in Seq(Inputs)
      BY <1>1
    <2>. QED
      BY <2>1, TabsAppend DEF Tabs
  <1>. QED
    BY <1>2, <1>3 DEF Tabs

LEMMA BeginFollow ==
  ASSUME Inv, NEW r \in Requests, Begin(r)
  PROVE  FollowInv'
  <1>1. UNCHANGED <<reg, tui, inbox, store, muddled>> /\ req[r].pc = "new"
    BY DEF Begin, Quietly, terminals
  <1>2. Moves(r) /\ req'[r].pc # "press"
    BY BeginMoves
  <1>3. \A w \in Wrappers : Tabs(w)' = Tabs(w) /\ Base(Ts(w))' = Base(Ts(w))
    BY <1>1 DEF Tabs, Base
  <1>. QED
    BY <1>1, <1>2, <1>3, RequestFollow DEF Coming

LEMMA StoreFieldFollow ==
  ASSUME Inv, NEW r \in Requests, StoreField(r)
  PROVE  FollowInv'
  <1>1. UNCHANGED <<reg, tui, inbox, muddled>>
    BY DEF StoreField, Quietly, terminals
  <1>2. Moves(r) /\ req[r].pc = "store" /\ req'[r].pc # "press"
    BY StoreFieldMoves
  <1>3. \A w \in Wrappers : Base(Ts(w))' = Base(Ts(w))
    <2>1. req[r].key \in Keys /\ \A w \in Wrappers : req[r].key # Ts(w)
      <3>1. Headed(req[r])
        BY DEF Inv, ReqInv
      <3>. QED
        BY <1>2, <3>1 DEF Headed, EndPcs
    <2>2. store' = store \/ \E f \in Fields : store' = [store EXCEPT ![req[r].key][f] = req[r].ask[f]]
      BY DEF StoreField, Fields
    <2>3. CASE store' = store
      BY <2>3 DEF Base
    <2>4. ASSUME NEW f \in Fields, store' = [store EXCEPT ![req[r].key][f] = req[r].ask[f]]
          PROVE  \A w \in Wrappers : Base(Ts(w))' = Base(Ts(w))
      BY <2>1, <2>4, BaseSame
    <2>. QED
      BY <2>2, <2>3, <2>4
  <1>4. \A w \in Wrappers : Tabs(w)' = Tabs(w)
    BY <1>1 DEF Tabs
  <1>. QED
    BY <1>1, <1>2, <1>3, <1>4, RequestFollow DEF Coming

LEMMA SpawnDraftFollow ==
  ASSUME Inv, NEW r \in Requests, SpawnDraft(r)
  PROVE  FollowInv'
  <1>1. UNCHANGED <<tui, inbox, store, muddled>>
    BY DEF SpawnDraft, claude
  <1>2. Moves(r) /\ req[r].pc = "spawn" /\ req'[r].pc # "press"
    BY SpawnDraftMoves
  <1>3. \A w \in Wrappers : reg'[w] = reg[w]
    <2>1. ASSUME NEW d \in Drivers, Spawn(d, req[r].sid) PROVE \A w \in Wrappers : reg'[w] = reg[w]
      BY <2>1, Names DEF Spawn, Inv, Types, TermTypes
    <2>. QED
      BY <2>1 DEF SpawnDraft, terminals
  <1>4. \A w \in Wrappers : Tabs(w)' = Tabs(w) /\ Base(Ts(w))' = Base(Ts(w))
    BY <1>1 DEF Tabs, Base
  <1>. QED
    BY <1>1, <1>2, <1>3, <1>4, RequestFollow DEF Coming

LEMMA TakeFollow ==
  ASSUME Inv, NEW r \in Requests, Take(r)
  PROVE  FollowInv'
  <1>1. UNCHANGED <<reg, tui, inbox, store, muddled>>
    BY DEF Take, Quietly, terminals
  <1>2. Moves(r) /\ req[r].pc = "take"
    BY TakeMoves
  <1>3. req'[r].pc # "press"
    <2>1. req[r] \in RequestRec
      BY DEF Inv, Types, DaemonTypes
    <2>. QED
      BY <2>1, TakeMoves DEF RequestRec
  <1>4. \A w \in Wrappers : Tabs(w)' = Tabs(w) /\ Base(Ts(w))' = Base(Ts(w))
    BY <1>1 DEF Tabs, Base
  <1>. QED
    BY <1>1, <1>2, <1>3, <1>4, RequestFollow DEF Coming

LEMMA SendModelFollow ==
  ASSUME Inv, NEW r \in Requests, SendModel(r)
  PROVE  FollowInv'
  <1>1. UNCHANGED <<reg, tui, store, muddled>>
    BY DEF SendModel, Quietly, terminals
  <1>2. Moves(r) /\ req[r].pc = "line" /\ req[r] \in RequestRec
    BY SendModelMoves DEF Inv, Types, DaemonTypes
  <1>3. req'[r].pc # "press"
    BY <1>2, SendModelMoves DEF RequestRec
  <1>4. \A w \in Wrappers : Tabs(w)' = Tabs(w)
    <2>1. CASE inbox' = inbox
      BY <2>1 DEF Tabs
    <2>2. CASE /\ Part(req[r]).model # None
               /\ inbox' = Delivered(req[r].ext, Slash("model", Part(req[r]).model))
      <3>1. Typed(req[r]) /\ Headed(req[r])
        BY DEF Inv, ReqInv
      <3>2. /\ req[r].ext \in Terms /\ req[r].part \in {"all", "modes", "model"}
            /\ req[r].ask.model \in Models \cup {None}
        BY <1>2, <3>1 DEF Typed, Headed, LockedPcs, OpenPcs, EndPcs, RequestRec
      <3>3. Part(req[r]).model \in Models
        BY <1>2, <2>2, <3>2, PartFields
      <3>4. Slash("model", Part(req[r]).model) \in Inputs
            /\ Slash("model", Part(req[r]).model).kind # "tab"
        BY <3>3 DEF Slash, Inputs
      <3>. QED
        BY <2>2, <3>2, <3>4, DeliveredTabs DEF Inv, Types
    <2>. QED
      BY <2>1, <2>2, SendModelMoves
  <1>5. \A w \in Wrappers : Base(Ts(w))' = Base(Ts(w))
    BY <1>1 DEF Base
  <1>. QED
    BY <1>1, <1>2, <1>3, <1>4, <1>5, RequestFollow DEF Coming

LEMMA SendEffortFollow ==
  ASSUME Inv, NEW r \in Requests, SendEffort(r)
  PROVE  FollowInv'
  <1>1. UNCHANGED <<reg, tui, muddled>>
    BY DEF SendEffort, Quietly, terminals
  <1>2. /\ Moves(r) /\ req[r].pc = "effort" /\ req[r] \in RequestRec /\ req'[r].pc # "press"
    BY SendEffortMoves DEF Inv, Types, DaemonTypes
  <1>3. Typed(req[r]) /\ Headed(req[r])
    BY DEF Inv, ReqInv
  <1>4. req[r].ext \in Terms /\ req[r].key \in Keys
    BY <1>2, <1>3 DEF Typed, Headed, LockedPcs, EndPcs
  <1>5. \A w \in Wrappers : Tabs(w)' = Tabs(w)
    <2>. DEFINE e == Part(req[r]).effort
    <2>1. inbox' = inbox \/ (e \in Efforts /\ inbox' = Delivered(req[r].ext, Slash("effort", e)))
      BY DEF SendEffort
    <2>. HIDE DEF e
    <2>2. CASE inbox' = inbox
      BY <2>2 DEF Tabs
    <2>3. CASE e \in Efforts /\ inbox' = Delivered(req[r].ext, Slash("effort", e))
      <3>1. Slash("effort", e) \in Inputs /\ Slash("effort", e).kind # "tab"
        BY <2>3 DEF Slash, Inputs
      <3>. QED
        BY <1>4, <2>3, <3>1, DeliveredTabs DEF Inv, Types
    <2>. QED
      BY <2>1, <2>2, <2>3
  <1>6. \A w \in Wrappers : Base(Ts(w))' = Base(Ts(w))
    <2>1. CASE store' = store
      BY <2>1 DEF Base
    <2>2. CASE store' = [store EXCEPT ![req[r].key].effort = Part(req[r]).effort]
      BY <1>4, <2>2, BaseSame DEF Fields
    <2>. QED
      BY <2>1, <2>2 DEF SendEffort
  <1>. QED
    BY <1>1, <1>2, <1>5, <1>6, RequestFollow DEF Coming

LEMMA CountFollow ==
  ASSUME Inv, NEW r \in Requests, CountBefore(r) \/ Confirm(r)
  PROVE  FollowInv'
  <1>1. UNCHANGED <<reg, tui, inbox, store, muddled>>
    BY DEF CountBefore, Confirm, Quietly, terminals
  <1>2. req[r] \in RequestRec
    BY DEF Inv, Types, DaemonTypes
  <1>3. Moves(r) /\ req[r].pc # "press" /\ req'[r].pc # "press"
    <2>1. CASE CountBefore(r)
      BY <1>2, <2>1, CountMoves DEF RequestRec
    <2>2. CASE Confirm(r)
      BY <1>2, <2>2, ConfirmMoves DEF RequestRec
    <2>. QED
      BY <2>1, <2>2
  <1>4. \A w \in Wrappers : Tabs(w)' = Tabs(w) /\ Base(Ts(w))' = Base(Ts(w))
    BY <1>1 DEF Tabs, Base
  <1>. QED
    BY <1>1, <1>3, <1>4, RequestFollow DEF Coming

LEMMA GiveUpFollow ==
  ASSUME Inv, NEW r \in Requests, GiveUp(r)
  PROVE  FollowInv'
  <1>1. UNCHANGED <<reg, tui, inbox, store, muddled>>
    BY DEF GiveUp, terminals, claude
  <1>2. req[r] \in RequestRec
    BY DEF Inv, Types, DaemonTypes
  <1>3. Moves(r) /\ req[r].pc # "press" /\ req'[r].pc # "press"
    BY <1>2, GiveUpMoves DEF RequestRec
  <1>4. \A w \in Wrappers : Tabs(w)' = Tabs(w) /\ Base(Ts(w))' = Base(Ts(w))
    BY <1>1 DEF Tabs, Base
  <1>. QED
    BY <1>1, <1>3, <1>4, RequestFollow DEF Coming

LEMMA RecordModelFollow ==
  ASSUME Inv, NEW r \in Requests, RecordModel(r)
  PROVE  FollowInv'
  <1>1. UNCHANGED <<reg, tui, inbox, muddled>>
        /\ store' = [store EXCEPT ![req[r].key].model = req[r].ask.model]
    BY DEF RecordModel, Quietly, terminals
  <1>2. Moves(r) /\ req[r].pc = "record" /\ req'[r].pc # "press"
    BY RecordModelMoves
  <1>3. req[r].key \in Keys
    BY <1>2 DEF Inv, ReqInv, Headed, EndPcs
  <1>4. \A w \in Wrappers : Base(Ts(w))' = Base(Ts(w))
    BY <1>1, <1>3, BaseSame DEF Fields
  <1>5. \A w \in Wrappers : Tabs(w)' = Tabs(w)
    BY <1>1 DEF Tabs
  <1>. QED
    BY <1>1, <1>2, <1>4, <1>5, RequestFollow DEF Coming

LEMMA TakesTabs ==
  ASSUME Inv, NEW w \in Wrappers, Takes(w)
  PROVE  /\ Tabs(w) = IF Head(inbox[w]).kind = "tab" THEN Tabs(w)' + 1 ELSE Tabs(w)'
         /\ Tabs(w)' \in Nat
         /\ \A x \in Wrappers : x # w => Tabs(x)' = Tabs(x)
  <1>1. /\ inbox' \in [Wrappers -> Seq(Inputs)] /\ inbox'[w] = Tail(inbox[w])
        /\ \A x \in Wrappers : x # w => inbox'[x] = inbox[x]
        /\ inbox[w] \in Seq(Inputs) /\ inbox[w] # <<>>
    BY TakesIs
  <1>2. inbox'[w] \in Seq(Inputs)
    BY <1>1
  <1>. HIDE DEF Inputs
  <1>3. Cardinality(TabsIn(inbox[w])) = IF Head(inbox[w]).kind = "tab"
           THEN Cardinality(TabsIn(Tail(inbox[w]))) + 1 ELSE Cardinality(TabsIn(Tail(inbox[w])))
    BY <1>1, TabsTail
  <1>4. Cardinality(TabsIn(inbox'[w])) \in Nat
    BY <1>2, TabsFinite
  <1>. QED
    BY <1>1, <1>3, <1>4 DEF Tabs

LEMMA TakeEffortFollow ==
  ASSUME Inv, NEW w \in Wrappers, TakeEffort(w) \/ Swallow(w)
  PROVE  FollowInv'
  <1>1. /\ Takes(w) /\ UNCHANGED <<reg, tui, store, req>>
        /\ muddled' = IF Head(inbox[w]).kind = "tab" THEN muddled \cup {w} ELSE muddled
    BY DEF TakeEffort, Swallow, Outside, terminals
  <1>2. Head(inbox[w]).kind = "tab" \/ Tabs(w)' = Tabs(w)
    BY <1>1, TakesTabs
  <1>3. \A x \in Wrappers : x # w => Tabs(x)' = Tabs(x)
    BY <1>1, TakesTabs
  <1>4. ModesSame
    BY <1>1, <1>2, <1>3 DEF ModesSame, ModesSameAt, Followed, Coming, Base
  <1>. QED
    BY <1>1, <1>4, TerminalFollow

LEMMA OutsideFollow ==
  ASSUME Inv, \/ QueryCLI \/ LineupExpires \/ Configure
              \/ \E w \in Wrappers : Turn(w) \/ \E s \in Sids : Bind(w, s)
              \/ \E t \in Terms : Purge(t)
              \/ \E s \in Sids : DeleteSession(s) \/ \E d \in Drivers : Resume(d, s)
  PROVE  FollowInv'
  <1>1. UNCHANGED <<tui, inbox, store, req, muddled>>
    BY DEF QueryCLI, LineupExpires, Configure, Change, Turn, User, Outside, Bind, Stays, Move,
           Purge, DeleteSession, Resume, claude
  <1>2. reg \in [Terms -> [status : {"new", "live", "exited", "gone"}, sid : Sids \cup {None}]]
    BY DEF Inv, Types, TermTypes
  <1>3. \A x \in Wrappers : Coming(x)' => Coming(x)
    <2>1. CASE reg' = reg
      BY <2>1 DEF Coming
    <2>2. ASSUME NEW w \in Wrappers, NEW s \in Sids, Bind(w, s)
          PROVE  \A x \in Wrappers : Coming(x)' => Coming(x)
      BY <1>2, <2>2, Names DEF Bind, Coming
    <2>3. ASSUME NEW t \in Terms, Purge(t)
          PROVE  \A x \in Wrappers : Coming(x)' => Coming(x)
      BY <1>2, <2>3, Names DEF Purge, Coming
    <2>4. ASSUME NEW d \in Drivers, NEW s \in Sids, Resume(d, s)
          PROVE  \A x \in Wrappers : Coming(x)' => Coming(x)
      BY <1>2, <2>4, Names DEF Resume, Spawn, Coming
    <2>. QED
      BY <2>1, <2>2, <2>3, <2>4 DEF QueryCLI, LineupExpires, Configure, Change, Turn, Outside,
           DeleteSession, terminals
  <1>4. ModesSame
    BY <1>1, <1>3 DEF ModesSame, ModesSameAt, Followed, Coming, Base, Tabs
  <1>. QED
    BY <1>1, <1>4, TerminalFollow

LEMMA ExitFollow ==
  ASSUME Inv, NEW t \in Terms, Exit(t)
  PROVE  FollowInv'
  <1>1. /\ UNCHANGED <<tui, store, req, muddled>>
        /\ reg' = [reg EXCEPT ![t].status = "exited"]
        /\ inbox' = IF t \in Wrappers THEN [inbox EXCEPT ![t] = <<>>] ELSE inbox
    BY DEF Exit, Move, Stays
  <1>2. \A w \in Wrappers : /\ Coming(w)' => w # t /\ Coming(w)
                            /\ w # t => inbox'[w] = inbox[w]
    BY <1>1, Names DEF Inv, Types, TermTypes, ClaudeTypes, Coming
  <1>3. ModesSame
    BY <1>1, <1>2 DEF ModesSame, ModesSameAt, Followed, Coming, Base, Tabs
  <1>. QED
    BY <1>1, <1>3, TerminalFollow

\* A model that the TUI reports changes no mode.
LEMMA ReportsFollow ==
  ASSUME Inv, NEW w \in Wrappers, NEW m \in Models, Switches(w, m),
         UNCHANGED <<terminals, store, muddled>>,
         \A x \in Wrappers : Tabs(x)' = Tabs(x)
  PROVE  FollowInv'
  <1>. DEFINE s == reg[w].sid
              t == Concrete(m)
  <1>1. s \in Sids \cup {None} /\ t \in Models
    BY ConcreteTyped, Names DEF Inv, Types, TermTypes
  <1>2. Reports(s, t) /\ tui' = [tui EXCEPT ![w].model = t]
    BY DEF Switches
  <1>. HIDE DEF s, t
  <1>3. \A r \in Requests : Reported(r, s, t)
    BY <1>1, <1>2, ReportsIs
  <1>4. \A r \in Requests : Reported(r, s, t) => Part(req'[r]) = Part(req[r])
    BY PartSame DEF Reported
  <1>5. TypingSame
    BY <1>3, <1>4 DEF TypingSame, TypingSameAt, Typing, Reported
  <1>6. \A x \in Wrappers : tui'[x].mode = tui[x].mode
    BY <1>2 DEF Inv, Types, ClaudeTypes
  <1>7. ModesSame
    BY <1>6 DEF ModesSame, ModesSameAt, Followed, Coming, Base, terminals
  <1>. QED
    BY <1>5, <1>7, FollowFrame

LEMMA TakeModelFollow ==
  ASSUME Inv, NEW w \in Wrappers, TakeModel(w)
  PROVE  FollowInv'
  <1>1. /\ Takes(w) /\ Head(inbox[w]).kind = "model" /\ Switches(w, Head(inbox[w]).arg)
        /\ UNCHANGED <<terminals, store, muddled>>
    BY DEF TakeModel, Outside
  <1>2. Head(inbox[w]).arg \in Models
    BY <1>1, TakesIs DEF Inputs
  <1>3. \A x \in Wrappers : Tabs(x)' = Tabs(x)
    BY <1>1, TakesTabs
  <1>. QED
    BY <1>1, <1>2, <1>3, ReportsFollow

LEMMA UserModelFollow ==
  ASSUME Inv, NEW w \in Wrappers, UserModel(w)
  PROVE  FollowInv'
  <1>1. inbox' = inbox /\ UNCHANGED <<terminals, store, muddled>>
    BY DEF UserModel, User, Outside
  <1>2. PICK m \in Models : Switches(w, m)
    BY DEF UserModel
  <1>3. \A x \in Wrappers : Tabs(x)' = Tabs(x)
    BY <1>1 DEF Tabs
  <1>. QED
    BY <1>1, <1>2, <1>3, ReportsFollow

-----------------------------------------------------------------------------
(* Keys: the TUI cycles                                                    *)

LEMMA ArrivesNearer ==
  ASSUME NEW i \in 1..3, NEW n \in Nat, NEW p \in 0..2
  PROVE  ((i - 1 + (n + 1) + p) % 3) + 1 = (((i % 3) + 1 - 1 + n + p) % 3) + 1
  OBVIOUS

LEMMA ArrivesBeyond ==
  ASSUME NEW i \in 1..3, NEW n \in Nat, NEW p \in 0..2
  PROVE  ((((i - 1 + n) % 3) + 1 - 1 + p) % 3) + 1 = ((i - 1 + n + p) % 3) + 1
  OBVIOUS

LEMMA TakeTabFollow ==
  ASSUME Inv, NEW w \in Wrappers, TakeTab(w)
  PROVE  FollowInv'
  <1>1. /\ Takes(w) /\ Cycles(w) /\ Head(inbox[w]).kind = "tab"
        /\ UNCHANGED <<reg, store, req, muddled>>
    BY DEF TakeTab, Outside, terminals
  <1>2. /\ tui'[w].mode = NextMode(tui[w].mode)
        /\ \A x \in Wrappers : x # w => tui'[x] = tui[x]
    BY <1>1, CyclesIs
  <1>3. /\ Tabs(w) = Tabs(w)' + 1 /\ Tabs(w)' \in Nat
        /\ \A x \in Wrappers : x # w => Tabs(x)' = Tabs(x)
    BY <1>1, TakesTabs
  <1>4. ASSUME NEW x \in Wrappers, x # w PROVE FollowAt(x)'
    <2>1. ModesSameAt(x) /\ TypingSameAt(x)
      BY <1>1, <1>2, <1>3, <1>4 DEF ModesSameAt, TypingSameAt, Typing, Followed, Coming, Base
    <2>. QED
      BY <2>1, FrameAt
  <1>5. FollowAt(w)'
    <2>1. FollowAt(w)
      BY FollowsAt DEF Inv
    <2>2. /\ \A r \in Requests : Typing(r, w)' <=> Typing(r, w)
          /\ ModeTyping(w)' <=> ModeTyping(w)
      BY <1>1 DEF Typing, ModeTyping
    <2>3. Followed(w)' <=> Followed(w)
      BY <1>1 DEF Followed, Coming
    \* one key fewer is on its way, and the TUI is one mode further
    <2>4. ASSUME InCycle(tui[w].mode), NEW p \in 0..2
          PROVE  /\ InCycle(tui'[w].mode) /\ Index(tui'[w].mode) \in 1..3 /\ Index(tui[w].mode) \in 1..3
                 /\ ((Index(tui[w].mode) - 1 + Tabs(w) + p) % 3) + 1
                       = ((Index(tui'[w].mode) - 1 + Tabs(w)' + p) % 3) + 1
      <3>1. Index(tui[w].mode) \in 1..3 /\ InCycle(tui[w].mode)
        BY <2>4, CycleFacts
      <3>2. InCycle(tui'[w].mode) /\ Index(tui'[w].mode) = (Index(tui[w].mode) % 3) + 1
        BY <1>2, <3>1, NextModeIs, CycleFacts
      <3>3. ((Index(tui[w].mode) - 1 + (Tabs(w)' + 1) + p) % 3) + 1
              = (((Index(tui[w].mode) % 3) + 1 - 1 + Tabs(w)' + p) % 3) + 1
        BY <1>3, <3>1, ArrivesNearer
      <3>. HIDE DEF Tabs, Index, InCycle
      <3>. QED
        BY <1>3, <3>1, <3>2, <3>3
    <2>5. ASSUME NEW r \in Requests, Followed(w), Typing(r, w) PROVE Arrives(r, w)'
      <3>1. Arrives(r, w)
        BY <2>1, <2>5 DEF FollowAt
      <3>2. req[r].presses \in 0..2
        BY DEF Inv, Types, DaemonTypes, RequestRec
      <3>3. req'[r] = req[r]
        BY <1>1
      <3>. HIDE DEF Tabs, Index, Part, InCycle
      <3>. QED
        BY <2>4, <3>1, <3>2, <3>3 DEF Arrives
    <2>6. ASSUME Followed(w), ~ModeTyping(w) PROVE Arrived(w)'
      <3>1. Arrived(w)
        BY <2>1, <2>6 DEF FollowAt
      <3>2. Base(Ts(w))' = Base(Ts(w))
        BY <1>1 DEF Base
      <3>3. Tabs(w) \in Nat
        BY <1>3
      <3>4. 0 \in 0..2
        OBVIOUS
      <3>. HIDE DEF Tabs, Index, Base, InCycle
      <3>. QED
        BY <1>3, <2>4, <3>1, <3>2, <3>3, <3>4 DEF Arrived
    <2>. QED
      BY <1>1, <2>1, <2>2, <2>3, <2>5, <2>6 DEF FollowAt
  <1>. QED
    BY <1>4, <1>5, FollowsAt

LEMMA UserTabFollow ==
  ASSUME Inv, NEW w \in Wrappers, UserTab(w)
  PROVE  FollowInv'
  <1>1. Cycles(w) /\ UNCHANGED <<reg, store, req, inbox>> /\ muddled' = muddled \cup {w}
    BY DEF UserTab, User, Outside, terminals
  <1>2. \A x \in Wrappers : x # w => tui'[x] = tui[x]
    BY <1>1, CyclesIs
  <1>3. ASSUME NEW x \in Wrappers, x # w PROVE FollowAt(x)'
    <2>1. ModesSameAt(x) /\ TypingSameAt(x)
      BY <1>1, <1>2, <1>3 DEF ModesSameAt, TypingSameAt, Typing, Followed, Coming, Base, Tabs
    <2>. QED
      BY <2>1, FrameAt
  <1>4. FollowAt(w)'
    BY <1>1, MuddledAt
  <1>. QED
    BY <1>3, <1>4, FollowsAt

LEMMA RegisterFollow ==
  ASSUME Inv, NEW w \in Wrappers, Register(w)
  PROVE  FollowInv'
  <1>1. /\ UNCHANGED <<inbox, store, req>>
        /\ reg[w].status = "new" /\ reg' = [reg EXCEPT ![w].status = "live"]
    BY DEF Register, Stays
  <1>2. PICK l \in Launches :
          /\ tui' = [tui EXCEPT ![w] = [mode |-> l.mode, model |-> l.model]]
          /\ muddled' = IF l.mode = "default" THEN muddled ELSE muddled \cup {w}
    BY DEF Register
  <1>3. tui'[w].mode = l.mode /\ \A x \in Wrappers : x # w => tui'[x] = tui[x]
    BY <1>2 DEF Inv, Types, ClaudeTypes
  <1>4. TypingSame
    BY <1>1 DEF TypingSame, TypingSameAt, Typing
  <1>5. ASSUME NEW x \in Wrappers PROVE ModesSameAt(x)
    <2>1. Coming(x)' => Coming(x)
      BY <1>1, Names DEF Coming, Inv, Types, TermTypes
    <2>2. Base(Ts(x))' = Base(Ts(x)) /\ Tabs(x)' = Tabs(x)
      BY <1>1 DEF Base, Tabs
    <2>3. Followed(x)' => tui'[x].mode = tui[x].mode
      BY <1>1, <1>2, <1>3 DEF Followed, Inv, TermInv
    <2>. QED
      BY <1>2, <2>1, <2>2, <2>3 DEF ModesSameAt, Followed
  <1>. QED
    BY <1>4, <1>5, FollowFrame DEF ModesSame

-----------------------------------------------------------------------------
(* Keys: a request presses                                                 *)

\* The lock of the key admits one request to it.
LEMMA OnePresser ==
  ASSUME Inv, NEW w \in Wrappers, w \notin muddled,
         NEW r \in Requests, NEW q \in Requests, Typing(r, w), Typing(q, w)
  PROVE  q = r
  <1>1. req[r].key = Ts(w) /\ req[q].key = Ts(w)
    BY DEF Inv, FollowInv, TypingInv
  <1>2. req[r].pc \in LockedPcs /\ req[q].pc \in LockedPcs
    BY DEF Typing, LockedPcs
  <1>. QED
    BY <1>1, <1>2 DEF Inv, LockInv

LEMMA FailFollow ==
  ASSUME Inv, NEW r \in Requests, Fail(r), UNCHANGED <<reg, tui, inbox, store, muddled>>,
         req[r].pc = "press" => ~Live(req[r].ext)
  PROVE  FollowInv'
  <1>1. Moves(r) /\ req'[r].pc = "error" /\ req \in [Requests -> RequestRec]
    BY FailMoves DEF Inv, Types, DaemonTypes
  <1>2. \A x \in Requests : x # r => req'[x] = req[x]
    BY <1>1 DEF Moves
  <1>3. ASSUME NEW w \in Wrappers PROVE FollowAt(w)'
    <2>1. CASE w \in muddled
      BY <2>1, MuddledAt
    <2>2. CASE ~Typing(r, w)
      <3>1. TypingSameAt(w)
        BY <1>1, <1>2, <2>2 DEF TypingSameAt, Typing
      <3>2. ModesSameAt(w)
        BY DEF ModesSameAt, Followed, Coming, Base, Tabs
      <3>. QED
        BY <3>1, <3>2, FrameAt
    <2>3. CASE Typing(r, w) /\ w \notin muddled
      <3>1. FollowAt(w)
        BY FollowsAt DEF Inv
      <3>2. ~Live(w) /\ reg[w].status # "new"
        BY <2>3, <3>1, Names DEF FollowAt, Typing, Inv, ReqInv
      <3>3. ~Followed(w)'
        BY <3>2 DEF Followed, Coming, Live
      <3>4. \A q \in Requests : Typing(q, w)' => q # r /\ req'[q] = req[q] /\ Typing(q, w)
        BY <1>1, <1>2 DEF Typing
      <3>. QED
        BY <2>3, <3>1, <3>3, <3>4 DEF FollowAt
    <2>. QED
      BY <2>1, <2>2, <2>3
  <1>. QED
    BY <1>3, FollowsAt

LEMMA PlanFollow ==
  ASSUME Inv, NEW r \in Requests, PlanPresses(r)
  PROVE  FollowInv'
  <1>1. UNCHANGED <<reg, tui, inbox, store>>
    BY DEF PlanPresses, Quietly, terminals
  <1>2. Moves(r) /\ req[r].pc = "mode" /\ req \in [Requests -> RequestRec]
    BY PlanMoves DEF Inv, Types, DaemonTypes
  <1>3. CASE Fail(r) /\ muddled' = muddled
    BY <1>1, <1>2, <1>3, FailFollow
  <1>4. CASE req'[r] = [req[r] EXCEPT !.pc = "line"] /\ muddled' = muddled
    <2>1. req'[r].pc # "press"
      BY <1>2, <1>4 DEF RequestRec
    <2>2. \A w \in Wrappers : Tabs(w)' = Tabs(w) /\ Base(Ts(w))' = Base(Ts(w))
      BY <1>1 DEF Tabs, Base
    <2>. QED
      BY <1>1, <1>2, <1>4, <2>1, <2>2, RequestFollow DEF Coming
  <1>. DEFINE n == CycleDistance(Base(req[r].key), Part(req[r]).mode)
              Sure == req[r].ext \in Wrappers /\ req[r].key = Ts(req[r].ext)
  <1>5. CASE /\ InCycle(Part(req[r]).mode)
             /\ req'[r] = [req[r] EXCEPT !.pc = "press", !.presses = n]
             /\ muddled' = IF Sure THEN muddled
                           ELSE muddled \cup ({req[r].ext} \cap Wrappers)
                                  \cup {w \in Wrappers : Ts(w) = req[r].key}
    <2>1. /\ req'[r].pc = "press" /\ req'[r].presses = n /\ req'[r].ext = req[r].ext
          /\ req'[r].key = req[r].key /\ Part(req'[r]) = Part(req[r])
      <3>. HIDE DEF n
      <3>1. /\ req'[r].pc = "press" /\ req'[r].presses = n /\ req'[r].ext = req[r].ext
            /\ req'[r].key = req[r].key /\ req'[r].part = req[r].part /\ req'[r].ask = req[r].ask
        BY <1>2, <1>5 DEF RequestRec
      <3>. QED
        BY <3>1, PartSame
    <2>2. \A x \in Requests : x # r => req'[x] = req[x]
      BY <1>2 DEF Moves
    <2>3. ASSUME NEW w \in Wrappers, ~Typing(r, w)' PROVE FollowAt(w)'
      <3>1. TypingSameAt(w)
        BY <1>2, <2>1, <2>2, <2>3 DEF TypingSameAt, Typing
      <3>2. (w \in muddled => w \in muddled')
        BY <1>5
      <3>3. ModesSameAt(w)
        BY <1>1, <3>2 DEF ModesSameAt, Followed, Coming, Base, Tabs
      <3>. QED
        BY <3>1, <3>3, FrameAt
    <2>4. ASSUME NEW w \in Wrappers, w \in muddled' PROVE FollowAt(w)'
      BY <1>1, <2>4, MuddledAt
    <2>5. ASSUME NEW w \in Wrappers, Typing(r, w)', w \notin muddled' PROVE FollowAt(w)'
      <3>1. Sure /\ req[r].ext = w /\ req[r].key = Ts(w)
        BY <1>5, <2>1, <2>5, Names DEF Typing
      <3>2. ~ModeTyping(w) /\ w \notin muddled
        <4>1. w \notin muddled
          BY <1>5, <2>5
        <4>2. ASSUME NEW q \in Requests, Typing(q, w) PROVE FALSE
          <5>1. req[q].key = req[r].key /\ req[q].pc = "press"
            BY <3>1, <4>1, <4>2 DEF Inv, FollowInv, TypingInv, Typing
          <5>2. req[q].pc \in LockedPcs /\ req[r].pc \in LockedPcs
            BY <1>2, <5>1 DEF LockedPcs
          <5>3. q = r
            BY <5>1, <5>2 DEF Inv, LockInv
          <5>. QED
            BY <1>2, <5>1, <5>3
        <4>. QED
          BY <4>1, <4>2 DEF ModeTyping, Typing
      <3>3. \A q \in Requests : Typing(q, w)' => q = r
        BY <2>2, <3>2 DEF Typing, ModeTyping
      <3>4. ASSUME Followed(w)' PROVE Arrives(r, w)'
        <4>1. Arrived(w)
          BY <1>1, <3>2, <3>4 DEF Followed, Coming, Inv, FollowInv, ModeInv
        <4>2. /\ InCycle(tui[w].mode) /\ InCycle(Base(Ts(w))) /\ InCycle(Part(req[r]).mode)
              /\ n = CycleDistance(Base(Ts(w)), Part(req[r]).mode)
              /\ Index(Base(Ts(w))) = ((Index(tui[w].mode) - 1 + Tabs(w)) % 3) + 1
          BY <1>5, <3>1, <4>1 DEF Arrived
        <4>. HIDE DEF n
        <4>3. n \in 0..2 /\ Index(Part(req[r]).mode) = ((Index(Base(Ts(w))) - 1 + n) % 3) + 1
          BY <4>2, DistanceIs
        <4>4. Index(tui[w].mode) \in 1..3
          BY <4>2, CycleFacts
        <4>5. Tabs(w)' = Tabs(w) /\ tui' = tui /\ Tabs(w) \in Nat
          <5>1. inbox[w] \in Seq(Inputs)
            BY DEF Inv, Types, ClaudeTypes
          <5>. QED
            BY <1>1, <5>1, TabsFinite DEF Tabs
        <4>6. Index(Part(req[r]).mode) = ((Index(tui[w].mode) - 1 + Tabs(w) + n) % 3) + 1
          <5>1. ((((Index(tui[w].mode) - 1 + Tabs(w)) % 3) + 1 - 1 + n) % 3) + 1
                  = ((Index(tui[w].mode) - 1 + Tabs(w) + n) % 3) + 1
            BY <4>3, <4>4, <4>5, ArrivesBeyond
          <5>. HIDE DEF Tabs, Index, Part, Base, InCycle
          <5>. QED
            BY <4>2, <4>3, <4>4, <4>5, <5>1
        <4>7. Index(Part(req'[r]).mode) = ((Index(tui'[w].mode) - 1 + Tabs(w)' + req'[r].presses) % 3) + 1
          <5>. HIDE DEF Tabs, Index, Part, InCycle
          <5>. QED
            BY <2>1, <4>5, <4>6
        <4>. QED
          BY <4>2, <4>5, <4>7 DEF Arrives
      <3>5. ModeTyping(w)'
        BY <2>5 DEF ModeTyping, Typing
      <3>. QED
        BY <1>1, <2>1, <3>1, <3>3, <3>4, <3>5 DEF FollowAt
    <2>. QED
      BY <2>3, <2>4, <2>5, FollowsAt
  <1>. QED
    BY <1>3, <1>4, <1>5, PlanMoves

LEMMA PressFollow ==
  ASSUME Inv, NEW r \in Requests, Press(r)
  PROVE  FollowInv'
  <1>1. UNCHANGED <<reg, tui, store>>
    BY DEF Press, Quietly, terminals
  <1>2. Moves(r) /\ req[r].pc = "press" /\ req \in [Requests -> RequestRec]
    BY PressMoves DEF Inv, Types, DaemonTypes
  <1>3. CASE Fail(r) /\ ~Live(req[r].ext) /\ muddled' = muddled /\ inbox' = inbox
    BY <1>1, <1>2, <1>3, FailFollow
  <1>4. CASE /\ req[r].presses \in 1..2
             /\ req'[r] = [req[r] EXCEPT !.presses = @ - 1]
             /\ inbox' = Delivered(req[r].ext, Tab)
             /\ muddled' = IF DropsTab(req[r].ext) THEN muddled \cup {req[r].ext} ELSE muddled
    <2>1. /\ req'[r].pc = "press" /\ req'[r].presses = req[r].presses - 1 /\ req'[r].ext = req[r].ext
          /\ req'[r].key = req[r].key /\ Part(req'[r]) = Part(req[r])
      <3>1. /\ req'[r].pc = "press" /\ req'[r].presses = req[r].presses - 1
            /\ req'[r].ext = req[r].ext /\ req'[r].key = req[r].key
            /\ req'[r].part = req[r].part /\ req'[r].ask = req[r].ask
        BY <1>2, <1>4 DEF RequestRec
      <3>. QED
        BY <3>1, PartSame
    <2>2. \A x \in Requests : x # r => req'[x] = req[x]
      BY <1>2 DEF Moves
    <2>3. /\ req[r].ext \in Terms /\ Tab \in Inputs /\ Tab.kind = "tab" /\ ClaudeTypes
          /\ inbox \in [Wrappers -> Seq(Inputs)] /\ \A w \in Wrappers : Len(inbox[w]) <= InboxCap
      <3>1. req[r].ext \in Terms
        BY <1>2 DEF Inv, ReqInv, Typed, LockedPcs
      <3>. QED
        BY <3>1 DEF Tab, Inputs, Inv, Types, ClaudeTypes
    <2>4. \A w \in Wrappers :
             Tabs(w)' = IF w = req[r].ext /\ Len(inbox[req[r].ext]) < InboxCap
                        THEN Tabs(w) + 1 ELSE Tabs(w)
      BY <1>4, <2>3, DeliveredTabs
    <2>5. \A w \in Wrappers : w \in muddled => w \in muddled'
      BY <1>4
    <2>6. ASSUME NEW w \in Wrappers, w \in muddled' PROVE FollowAt(w)'
      BY <1>1, <2>6, MuddledAt
    <2>7. ASSUME NEW w \in Wrappers, ~Typing(r, w) PROVE FollowAt(w)'
      <3>1. w # req[r].ext
        BY <1>2, <2>7 DEF Typing
      <3>2. TypingSameAt(w)
        BY <1>2, <2>1, <2>2, <2>7 DEF TypingSameAt, Typing
      <3>3. ModesSameAt(w)
        BY <1>1, <2>4, <2>5, <3>1 DEF ModesSameAt, Followed, Coming, Base
      <3>. QED
        BY <3>2, <3>3, FrameAt
    <2>8. ASSUME NEW w \in Wrappers, Typing(r, w), w \notin muddled' PROVE FollowAt(w)'
      <3>1. FollowAt(w) /\ w \notin muddled
        BY <2>5, <2>8, FollowsAt DEF Inv
      <3>2. req[r].ext = w /\ req[r].key = Ts(w)
        BY <2>8, <3>1 DEF FollowAt
      <3>3. Len(inbox[w]) < InboxCap
        <4>1. Len(inbox[w]) # InboxCap
          BY <1>4, <2>8, <3>2 DEF DropsTab
        <4>2. inbox[w] \in Seq(Inputs) /\ Len(inbox[w]) <= InboxCap
          BY <2>3
        <4>3. Len(inbox[w]) \in Nat
          BY <4>2
        <4>. QED
          BY <4>1, <4>2, <4>3, Names
      <3>4. Tabs(w)' = Tabs(w) + 1 /\ Tabs(w) \in Nat
        <4>1. inbox[w] \in Seq(Inputs)
          BY <2>3
        <4>2. Tabs(w) \in Nat
          BY <4>1, TabsFinite DEF Tabs
        <4>. QED
          BY <2>4, <3>2, <3>3, <4>2
      <3>5. \A q \in Requests : Typing(q, w)' => q = r
        <4>1. ASSUME NEW q \in Requests, Typing(q, w)', q # r PROVE FALSE
          <5>1. Typing(q, w)
            BY <2>2, <4>1 DEF Typing
          <5>. QED
            BY <2>8, <3>1, <4>1, <5>1, OnePresser
        <4>. QED
          BY <4>1
      <3>6. ASSUME Followed(w)' PROVE Arrives(r, w)'
        <4>1. Arrives(r, w)
          BY <1>1, <2>8, <3>1, <3>6 DEF FollowAt, Followed, Coming
        <4>2. InCycle(tui[w].mode) /\ Index(tui[w].mode) \in 1..3
              /\ Index(Part(req[r]).mode) = ((Index(tui[w].mode) - 1 + Tabs(w) + req[r].presses) % 3) + 1
          BY <4>1, CycleFacts DEF Arrives
        <4>3. Tabs(w) + req[r].presses = Tabs(w)' + req'[r].presses
          BY <1>4, <2>1, <3>4
        <4>4. Index(tui[w].mode) - 1 + Tabs(w) + req[r].presses
                = Index(tui'[w].mode) - 1 + Tabs(w)' + req'[r].presses
          <5>. HIDE DEF Tabs, Index
          <5>. QED
            BY <1>1, <1>4, <2>1, <3>4, <4>2
        <4>5. Index(Part(req'[r]).mode) = ((Index(tui'[w].mode) - 1 + Tabs(w)' + req'[r].presses) % 3) + 1
          BY <2>1, <4>2, <4>4
        <4>. QED
          BY <1>1, <4>2, <4>5 DEF Arrives
      <3>7. ModeTyping(w)'
        BY <1>2, <2>1, <3>2 DEF ModeTyping
      <3>. QED
        BY <1>1, <2>1, <3>1, <3>2, <3>5, <3>6, <3>7 DEF FollowAt
    <2>. QED
      BY <2>6, <2>7, <2>8, FollowsAt
  <1>. QED
    BY <1>3, <1>4, PressMoves

LEMMA RecordModeFollow ==
  ASSUME Inv, NEW r \in Requests, RecordMode(r)
  PROVE  FollowInv'
  <1>1. /\ UNCHANGED <<reg, tui, inbox, muddled>>
        /\ store' = [store EXCEPT ![req[r].key].mode = Part(req[r]).mode]
    BY DEF RecordMode, Quietly, terminals
  <1>2. /\ Moves(r) /\ req[r].pc = "press" /\ req[r].presses = 0
        /\ req \in [Requests -> RequestRec] /\ store \in [Keys -> Values]
    BY RecordModeMoves DEF Inv, Types, DaemonTypes
  <1>3. req'[r].pc = "line"
    <2>1. req'[r] = [req[r] EXCEPT !.pc = "line"] /\ req[r] \in RequestRec
      BY <1>2, RecordModeMoves
    <2>. QED
      BY <2>1 DEF RequestRec
  <1>4. \A x \in Requests : x # r => req'[x] = req[x]
    BY <1>2 DEF Moves
  <1>5. ASSUME NEW w \in Wrappers, w \in muddled PROVE FollowAt(w)'
    BY <1>1, <1>5, MuddledAt
  <1>6. ASSUME NEW w \in Wrappers, ~Typing(r, w) PROVE FollowAt(w)'
    <2>1. req[r].key # Ts(w) /\ Ts(w) \in Keys
      BY <1>2, <1>6, Names DEF Typing
    <2>2. store'[Ts(w)] = store[Ts(w)]
      BY <1>1, <1>2, <2>1
    <2>3. TypingSameAt(w)
      BY <1>2, <1>3, <1>4, <1>6 DEF TypingSameAt, Typing
    <2>4. ModesSameAt(w)
      <3>1. UNCHANGED <<reg, tui, inbox, muddled>>
        BY <1>1
      <3>2. Base(Ts(w))' = Base(Ts(w))
        BY <2>2 DEF Base
      <3>. QED
        BY <3>1, <3>2 DEF ModesSameAt, Followed, Coming, Tabs
    <2>. QED
      BY <2>3, <2>4, FrameAt
  <1>7. ASSUME NEW w \in Wrappers, Typing(r, w), w \notin muddled PROVE FollowAt(w)'
    <2>1. FollowAt(w)
      BY FollowsAt DEF Inv
    <2>2. req[r].ext = w /\ req[r].key = Ts(w) /\ Ts(w) \in Keys
      BY <1>7, <2>1, Names DEF FollowAt
    <2>3. \A q \in Requests : ~Typing(q, w)'
      <3>1. ASSUME NEW q \in Requests, Typing(q, w)' PROVE FALSE
        <4>1. q # r /\ Typing(q, w)
          BY <1>3, <1>4, <3>1 DEF Typing
        <4>. QED
          BY <1>7, <4>1, OnePresser
      <3>. QED
        BY <3>1
    <2>4. ASSUME Followed(w)' PROVE Arrived(w)'
      <3>1. Arrives(r, w)
        BY <1>1, <1>7, <2>1, <2>4 DEF FollowAt, Followed, Coming
      <3>2. InCycle(Part(req[r]).mode)
        BY <1>2 DEF Inv, ReqInv, Typed
      <3>3. store'[Ts(w)].mode = Part(req[r]).mode
        <4>1. store[Ts(w)] \in Values
          BY <1>2, <2>2
        <4>2. store'[Ts(w)] = [store[Ts(w)] EXCEPT !.mode = Part(req[r]).mode]
          BY <1>1, <1>2, <2>2
        <4>. HIDE DEF Part
        <4>. QED
          BY <4>1, <4>2 DEF Values
      <3>4. Part(req[r]).mode # None
        BY <3>2, CycleFacts DEF None
      <3>5. Base(Ts(w))' = Part(req[r]).mode
        BY <3>3, <3>4 DEF Base
      <3>6. tui' = tui /\ Tabs(w)' = Tabs(w) /\ Tabs(w) \in Nat /\ Index(tui[w].mode) \in 1..3
        <4>1. inbox[w] \in Seq(Inputs)
          BY DEF Inv, Types, ClaudeTypes
        <4>2. Index(tui[w].mode) \in 1..3
          BY <3>1, CycleFacts DEF Arrives
        <4>. QED
          BY <1>1, <4>1, <4>2, TabsFinite DEF Tabs
      <3>. HIDE DEF Tabs, Index, InCycle, Part, Base
      <3>. QED
        BY <1>2, <3>1, <3>2, <3>5, <3>6 DEF Arrives, Arrived
    <2>. QED
      BY <1>1, <2>1, <2>3, <2>4 DEF FollowAt
  <1>. QED
    BY <1>5, <1>6, <1>7, FollowsAt

-----------------------------------------------------------------------------
(* The invariant holds                                                     *)

LEMMA InitInv == Init => Inv
  <1>. SUFFICES ASSUME Init PROVE Inv
    OBVIOUS
  <1>1. TermTypes
    BY DEF Init, TermTypes
  <1>2. ClaudeTypes
    <2>1. tui \in [Wrappers -> [mode : Known, model : Models \cup {None}]]
      BY DEF Init, Known, Native
    <2>2. /\ inbox \in [Wrappers -> Seq(Inputs)] /\ \A w \in Wrappers : Len(inbox[w]) <= InboxCap
      <3>1. <<>> \in Seq(Inputs) /\ Len(<<>>) <= InboxCap
        BY Names
      <3>. HIDE DEF Inputs
      <3>. QED
        BY <3>1 DEF Init
    <2>3. files \subseteq Sids /\ said \in [Sids -> [Models -> Nat]] /\ seen \in [Sids -> Models \cup {None}]
      BY SettingsAssumption DEF Init
    <2>. QED
      BY <2>1, <2>2, <2>3 DEF ClaudeTypes
  <1>3. MenuTypes
    BY DEF Init, MenuTypes
  <1>4. \A r \in Requests : req[r] = Idle
    BY DEF Init
  <1>5. Good(Idle) /\ Idle.pc = "new" /\ Idle.part = None /\ Idle.ext = None
    <2>1. Idle = [Idle EXCEPT !.pc = "new"]
      BY DEF Idle
    <2>. QED
      BY <2>1, IdleGood DEF EndPcs, Idle
  <1>6. DaemonTypes
    <2>1. req \in [Requests -> RequestRec]
      <3>. HIDE DEF Idle, RequestRec
      <3>. QED
        BY IdleTyped DEF Init
    <2>2. Unset \in Values
      BY DEF Unset, Values
    <2>3. store \in [Keys -> Values]
      BY <2>2 DEF Init
    <2>. QED
      BY <2>1, <2>3 DEF Init, DaemonTypes
  <1>7. TermInv
    BY Names, SettingsAssumption DEF Init, TermInv
  <1>8. ReqInv
    BY <1>4, <1>5 DEF ReqInv, Good
  <1>9. LockInv
    BY <1>4, <1>5 DEF Init, LockInv, LockedPcs
  <1>10. SwitchInv
    BY <1>4, <1>5 DEF SwitchInv, None
  <1>11. FollowInv
    <2>1. \A w \in Wrappers, r \in Requests : ~Typing(r, w)
      BY <1>4, <1>5 DEF Typing
    <2>2. ASSUME NEW w \in Wrappers PROVE Arrived(w)
      <3>1. tui[w].mode = "default" /\ Base(Ts(w)) = "default"
        BY Names DEF Init, Base, Unset
      <3>2. Tabs(w) = 0
        <4>1. TabsIn(<<>>) = {} /\ inbox[w] = <<>>
          BY DEF TabsIn, Init
        <4>. QED
          BY <4>1, FS_EmptySet DEF Tabs
      <3>3. InCycle("default") /\ Index("default") = 1
        BY CycleFacts
      <3>. HIDE DEF Tabs, Base, Index, InCycle
      <3>. QED
        BY <3>1, <3>2, <3>3 DEF Arrived
    <2>. QED
      BY <2>1, <2>2 DEF FollowInv, TypingInv, PressInv, ModeInv
  <1>. QED
    BY <1>1, <1>2, <1>3, <1>6, <1>7, <1>8, <1>9, <1>10, <1>11 DEF Inv, Types

LEMMA RequestInv ==
  ASSUME Inv, NEW r \in Requests, Begin(r) \/ RequestStep(r)
  PROVE  Inv'
  <1>1. CASE Begin(r)
    BY <1>1, BeginCore, BeginFollow DEF Core, Inv
  <1>2. CASE StoreField(r)
    BY <1>2, StoreFieldCore, StoreFieldFollow DEF Core, Inv
  <1>3. CASE SpawnDraft(r)
    BY <1>3, SpawnDraftCore, SpawnDraftFollow DEF Core, Inv
  <1>4. CASE Take(r)
    BY <1>4, TakeCore, TakeFollow DEF Core, Inv
  <1>5. CASE PlanPresses(r)
    BY <1>5, PlanCore, PlanFollow DEF Core, Inv
  <1>6. CASE Press(r)
    BY <1>6, PressCore, PressFollow DEF Core, Inv
  <1>7. CASE RecordMode(r)
    BY <1>7, RecordModeCore, RecordModeFollow DEF Core, Inv
  <1>8. CASE SendModel(r)
    BY <1>8, SendModelCore, SendModelFollow DEF Core, Inv
  <1>9. CASE SendEffort(r)
    BY <1>9, SendEffortCore, SendEffortFollow DEF Core, Inv
  <1>10. CASE CountBefore(r)
    BY <1>10, CountCore, CountFollow DEF Core, Inv
  <1>11. CASE Confirm(r)
    BY <1>11, ConfirmCore, CountFollow DEF Core, Inv
  <1>12. CASE GiveUp(r)
    BY <1>12, GiveUpCore, GiveUpFollow DEF Core, Inv
  <1>13. CASE RecordModel(r)
    BY <1>13, RecordModelCore, RecordModelFollow DEF Core, Inv
  <1>. QED
    BY <1>1, <1>2, <1>3, <1>4, <1>5, <1>6, <1>7, <1>8, <1>9, <1>10, <1>11, <1>12, <1>13
       DEF RequestStep

LEMMA TuiInv ==
  ASSUME Inv, NEW w \in Wrappers,
         \/ TakeTab(w) \/ TakeModel(w) \/ TakeEffort(w) \/ Swallow(w)
         \/ UserTab(w) \/ UserModel(w) \/ Turn(w)
  PROVE  Inv'
  <1>1. CASE TakeTab(w)
    BY <1>1, TakeTabCore, TakeTabFollow DEF Core, Inv
  <1>2. CASE TakeModel(w)
    BY <1>2, TakeModelCore, TakeModelFollow DEF Core, Inv
  <1>3. CASE TakeEffort(w) \/ Swallow(w)
    BY <1>3, TakeEffortCore, TakeEffortFollow DEF Core, Inv
  <1>4. CASE UserTab(w)
    BY <1>4, UserTabCore, UserTabFollow DEF Core, Inv
  <1>5. CASE UserModel(w)
    BY <1>5, UserModelCore, UserModelFollow DEF Core, Inv
  <1>6. CASE Turn(w)
    BY <1>6, TurnCore, OutsideFollow DEF Core, Inv
  <1>. QED
    BY <1>1, <1>2, <1>3, <1>4, <1>5, <1>6

LEMMA RegistryInv ==
  ASSUME Inv, \/ \E w \in Wrappers : Register(w) \/ \E s \in Sids : Bind(w, s)
              \/ \E t \in Terms : Exit(t) \/ Purge(t)
              \/ \E d \in Drivers, s \in Sids : Resume(d, s)
              \/ \E s \in Sids : DeleteSession(s)
  PROVE  Inv'
  <1>1. ASSUME NEW w \in Wrappers, Register(w) PROVE Inv'
    BY <1>1, RegisterCore, RegisterFollow DEF Core, Inv
  <1>2. ASSUME NEW w \in Wrappers, NEW s \in Sids, Bind(w, s) PROVE Inv'
    BY <1>2, BindCore, OutsideFollow DEF Core, Inv
  <1>3. ASSUME NEW t \in Terms, Exit(t) PROVE Inv'
    BY <1>3, ExitCore, ExitFollow DEF Core, Inv
  <1>4. ASSUME NEW t \in Terms, Purge(t) PROVE Inv'
    BY <1>4, PurgeCore, OutsideFollow DEF Core, Inv
  <1>5. ASSUME NEW d \in Drivers, NEW s \in Sids, Resume(d, s) PROVE Inv'
    BY <1>5, ResumeCore, OutsideFollow DEF Core, Inv
  <1>6. ASSUME NEW s \in Sids, DeleteSession(s) PROVE Inv'
    BY <1>6, DeleteCore, OutsideFollow DEF Core, Inv
  <1>. QED
    BY <1>1, <1>2, <1>3, <1>4, <1>5, <1>6

LEMMA NextInv == Inv /\ [Next]_vars => Inv'
  <1>. SUFFICES ASSUME Inv, [Next]_vars PROVE Inv'
    OBVIOUS
  <1>1. CASE QueryCLI \/ LineupExpires \/ Configure
    BY <1>1, MenuCore, OutsideFollow DEF Core, Inv
  <1>2. CASE \E r \in Requests : Begin(r) \/ RequestStep(r)
    BY <1>2, RequestInv
  <1>3. CASE \E w \in Wrappers : \/ TakeTab(w) \/ TakeModel(w) \/ TakeEffort(w) \/ Swallow(w)
                                 \/ UserTab(w) \/ UserModel(w) \/ Turn(w)
    BY <1>3, TuiInv
  <1>4. CASE \/ \E w \in Wrappers : Register(w) \/ \E s \in Sids : Bind(w, s)
             \/ \E t \in Terms : Exit(t) \/ Purge(t)
             \/ \E d \in Drivers, s \in Sids : Resume(d, s)
             \/ \E s \in Sids : DeleteSession(s)
    BY <1>4, RegistryInv
  <1>5. CASE UNCHANGED vars
    <2>1. Core'
      BY <1>5 DEF Inv, Core, vars, Types, TermTypes, ClaudeTypes, MenuTypes, DaemonTypes, TermInv,
                  ReqInv, Headed, Typed, LockInv, SwitchInv
    <2>2. ModesSame
      BY <1>5 DEF vars, ModesSame, ModesSameAt, Followed, Coming, Base, Tabs
    <2>3. FollowInv'
      BY <1>5, <2>2, TerminalFollow DEF vars
    <2>. QED
      BY <2>1, <2>3 DEF Core, Inv
  <1>. QED
    BY <1>1, <1>2, <1>3, <1>4, <1>5 DEF Next

LEMMA InvAlways == Spec => []Inv
  BY InitInv, NextInv, PTL DEF Spec

-----------------------------------------------------------------------------
(* The results                                                             *)

\* The keys of the requests bring a TUI to the mode the daemon stores and the
\* pills show: once those on their way are taken, a TUI that registered in the
\* default mode and was cycled by the daemon's keys alone, none of them lost or
\* counted under another terminal's settings, is in the stored mode
\* (Store.Apply, cycleDistance and Store.SetPermissionMode).
THEOREM ModeIsCurrentAlways == Spec => []ModeIsCurrent
  <1>1. Inv => ModeIsCurrent
    <2>. SUFFICES ASSUME Inv PROVE ModeIsCurrent
      OBVIOUS
    <2>1. TypeOK
      <3>1. \A r \in Requests : req[r].presses \in 0..2 /\ req[r].tries \in 0..MaxAttempts
        BY DEF Inv, Types, DaemonTypes, RequestRec
      <3>. QED
        BY <3>1 DEF Inv, Types, TermTypes, ClaudeTypes, DaemonTypes, LockInv, TypeOK
    <2>2. ASSUME NEW w \in Wrappers, Live(w), Quiet(w), w \notin muddled
          PROVE  Base(Ts(w)) = tui[w].mode
      <3>1. inbox[w] \in Seq(Inputs)
        BY DEF Inv, Types, ClaudeTypes
      <3>2. Tabs(w) = 0 /\ ~ModeTyping(w) /\ Followed(w)
        BY <2>2, <3>1, TabsFinite DEF Quiet, Tabs, Followed, Coming, Live
      <3>3. Arrived(w)
        BY <3>2 DEF Inv, FollowInv, ModeInv
      <3>4. /\ Index(tui[w].mode) \in 1..3 /\ Cycle[Index(tui[w].mode)] = tui[w].mode
            /\ Cycle[Index(Base(Ts(w)))] = Base(Ts(w))
        BY <3>3, CycleFacts DEF Arrived
      <3>5. Index(Base(Ts(w))) = ((Index(tui[w].mode) - 1 + 0) % 3) + 1
        BY <3>2, <3>3 DEF Arrived
      <3>6. Index(Base(Ts(w))) = Index(tui[w].mode)
        <4>. HIDE DEF Index, Base
        <4>. QED
          BY <3>4, <3>5
      <3>. QED
        BY <3>4, <3>6
    <2>. QED
      BY <2>1, <2>2 DEF ModeIsCurrent
  <1>. QED
    BY <1>1, InvAlways, PTL

\* A model that the menu of a Get offers is one that a Set takes, whatever the
\* configuration files and the CLI's lineup have become, unless it is the pick
\* stored before they changed (the menu of ensureModelsPresent against
\* ValidateModelForCwd).
THEOREM OfferedIsAcceptedAlways == Spec => []OfferedIsAccepted
  <1>1. ASSUME NEW s \in Sids, NEW key, NEW m \in AvailableModels(key, s),
               m \notin {store[key].model, ResolveModelAlias(store[key].model)}
        PROVE  ValidModel(m, {CurrentRunningModel(s)})
    <2>1. CASE m \in ReadModelOptions
      BY <2>1 DEF ValidModel
    <2>2. CASE m = DisplayModel(key, s)
      BY <1>1, <2>2 DEF DisplayModel, ValidModel
    <2>3. CASE m = ResolvedModel(key, s) /\ m # None
      <3>1. CASE m = CurrentRunningModel(s)
        BY <3>1 DEF ValidModel
      <3>2. CASE m # CurrentRunningModel(s)
        <4>1. m = ResolveModelAlias(DisplayModel(key, s))
          BY <2>3, <3>2 DEF ResolvedModel, CurrentRunningModel
        <4>2. m = ResolveModelAlias(CurrentRunningModel(s))
          BY <1>1, <4>1 DEF DisplayModel
        <4>3. m = config.target
          BY <2>3, <3>2, <4>2 DEF ResolveModelAlias
        <4>. QED
          BY <2>3, <4>3 DEF ValidModel, ReadModelOptions
      <3>. QED
        BY <3>1, <3>2
    <2>. QED
      BY <1>1, <2>1, <2>2, <2>3 DEF AvailableModels
  <1>2. OfferedIsAccepted
    BY <1>1 DEF OfferedIsAccepted
  <1>. QED
    BY <1>2, PTL

\* The model of another key, or another setting, is not the terminal's model.
LEMMA ModelKept ==
  ASSUME Inv, NEW w \in Wrappers, NEW k \in Keys, NEW f \in Fields, NEW v,
         store' = [store EXCEPT ![k][f] = v], k # Ts(w) \/ f # "model"
  PROVE  store'[Ts(w)].model = store[Ts(w)].model
  <1>1. Ts(w) \in Keys /\ store \in [Keys -> Values]
    BY Names DEF Inv, Types, DaemonTypes
  <1>2. CASE k # Ts(w)
    BY <1>1, <1>2
  <1>3. CASE k = Ts(w) /\ f # "model"
    <2>1. store'[Ts(w)] = [store[Ts(w)] EXCEPT ![f] = v] /\ store[Ts(w)] \in Values
      BY <1>1, <1>3
    <2>. QED
      BY <1>3, <2>1 DEF Values
  <1>. QED
    BY <1>2, <1>3

\* A model enters the settings of a wrapper's terminal only after its session
\* reported the switch that the request had typed
\* (waitForModelCommandConfirmation).
THEOREM RecordedModelWasConfirmedAlways == Spec => RecordedModelWasConfirmed
  <1>. DEFINE Reason(w) ==
         store'[Ts(w)].model # store[Ts(w)].model =>
          \E r \in Requests : /\ req[r].key = Ts(w) /\ req[r].ask.model = store'[Ts(w)].model
                              /\ req[r].target \in req[r].reported
  <1>1. ASSUME Inv, [Next]_vars, NEW w \in Wrappers PROVE Reason(w)
    <2>1. Ts(w) \in Keys /\ store \in [Keys -> Values]
      BY <1>1, Names DEF Inv, Types, DaemonTypes
    <2>2. CASE store' = store
      BY <2>2
    <2>3. ASSUME NEW r \in Requests, StoreField(r) PROVE Reason(w)
      <3>1. req[r].key \in Keys /\ req[r].key # Ts(w)
        <4>1. Headed(req[r]) /\ req[r].pc = "store"
          BY <1>1, <2>3 DEF Inv, ReqInv, StoreField
        <4>. QED
          BY <4>1 DEF Headed, EndPcs
      <3>2. store' = store \/ \E f \in Fields : store' = [store EXCEPT ![req[r].key][f] = req[r].ask[f]]
        BY <2>3 DEF StoreField, Fields
      <3>3. ASSUME NEW f \in Fields, store' = [store EXCEPT ![req[r].key][f] = req[r].ask[f]]
            PROVE  Reason(w)
        BY <1>1, <3>1, <3>3, ModelKept
      <3>. QED
        BY <3>2, <3>3
    <2>4. ASSUME NEW r \in Requests, RecordMode(r) PROVE Reason(w)
      <3>1. req[r].key \in Keys
        BY <1>1, <2>4 DEF Inv, ReqInv, RecordMode, Headed, EndPcs
      <3>2. store' = [store EXCEPT ![req[r].key].mode = Part(req[r]).mode]
        BY <2>4 DEF RecordMode
      <3>. QED
        BY <1>1, <3>1, <3>2, ModelKept DEF Fields
    <2>5. ASSUME NEW r \in Requests, SendEffort(r) PROVE Reason(w)
      <3>1. req[r].key \in Keys
        BY <1>1, <2>5 DEF Inv, ReqInv, SendEffort, Headed, EndPcs
      <3>2. store' = store \/ store' = [store EXCEPT ![req[r].key].effort = Part(req[r]).effort]
        BY <2>5 DEF SendEffort
      <3>. QED
        BY <1>1, <3>1, <3>2, ModelKept DEF Fields
    <2>6. ASSUME NEW r \in Requests, RecordModel(r) PROVE Reason(w)
      <3>1. /\ req[r].key \in Keys /\ req[r].target \in req[r].reported
            /\ store' = [store EXCEPT ![req[r].key].model = req[r].ask.model]
        BY <1>1, <2>6 DEF Inv, ReqInv, SwitchInv, RecordModel, Headed, EndPcs
      <3>2. CASE req[r].key # Ts(w)
        BY <1>1, <3>1, <3>2, ModelKept DEF Fields
      <3>3. CASE req[r].key = Ts(w)
        <4>1. store'[Ts(w)] = [store[Ts(w)] EXCEPT !.model = req[r].ask.model]
              /\ store[Ts(w)] \in Values
          BY <2>1, <3>1, <3>3
        <4>2. store'[Ts(w)].model = req[r].ask.model
          BY <4>1 DEF Values
        <4>. QED
          BY <3>1, <3>3, <4>2
      <3>. QED
        BY <3>2, <3>3
    <2>7. \/ store' = store
          \/ \E r \in Requests : StoreField(r) \/ RecordMode(r) \/ SendEffort(r) \/ RecordModel(r)
      <3>1. CASE UNCHANGED vars
        BY <3>1 DEF vars
      <3>2. ASSUME NEW r \in Requests,
                   \/ Begin(r) \/ SpawnDraft(r) \/ Take(r) \/ PlanPresses(r) \/ Press(r)
                   \/ SendModel(r) \/ CountBefore(r) \/ Confirm(r) \/ GiveUp(r)
            PROVE  store' = store
        BY <3>2 DEF Begin, SpawnDraft, Take, PlanPresses, Press, SendModel, CountBefore, Confirm, GiveUp
      <3>3. ASSUME NEW x \in Wrappers,
                   \/ TakeTab(x) \/ TakeModel(x) \/ TakeEffort(x) \/ Swallow(x)
                   \/ UserTab(x) \/ UserModel(x) \/ Turn(x) \/ Register(x)
                   \/ \E s \in Sids : Bind(x, s)
            PROVE  store' = store
        BY <3>3 DEF Register, TakeTab, TakeModel, TakeEffort, Swallow, UserTab, UserModel, Turn, Bind, Outside
      <3>4. ASSUME \/ QueryCLI \/ LineupExpires \/ Configure
                   \/ \E t \in Terms : Exit(t) \/ Purge(t)
                   \/ \E d \in Drivers, s \in Sids : Resume(d, s)
                   \/ \E s \in Sids : DeleteSession(s)
            PROVE  store' = store
        BY <3>4 DEF QueryCLI, LineupExpires, Configure, Change, Exit, Purge, Resume, DeleteSession
      <3>. QED
        BY <1>1, <3>1, <3>2, <3>3, <3>4 DEF Next, RequestStep
    <2>. QED
      BY <2>2, <2>3, <2>4, <2>5, <2>6, <2>7
  <1>2. Inv /\ [Next]_vars => [\A w \in Wrappers : Reason(w)]_vars
    BY <1>1
  <1>. QED
    BY <1>2, InvAlways, PTL DEF Spec, RecordedModelWasConfirmed
=============================================================================
