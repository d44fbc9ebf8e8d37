----------------------------- MODULE CodexDriver -----------------------------
(***************************************************************************)
(* The Codex half of sdkdriver.Driver and the codexapp.Client below it.    *)
(* One driver takes prompts from its session, keeps one Codex app-server   *)
(* process, loads the thread on it and starts one turn per prompt. What    *)
(* ends a turn is a turn/completed notification, the failure of the        *)
(* turn/start call, the turn's own watchdog or the manager's reaper, each  *)
(* on a goroutine of its own; the app-server may answer late, stay silent  *)
(* or exit. Steps under one mutex are one action.                          *)
(***************************************************************************)
EXTENDS Naturals, Sequences, FiniteSets

CONSTANTS
    MaxPrompts,        \* bound: prompts sent to the session, each starts at most one turn
    MaxApps,           \* bound: app-server processes that get through initialize
    MaxLines,          \* bound: lines of an app-server that are written and not read
    Tells,             \* prompt -> the notes its turn may send
    Transport,         \* Config.Transport, normalized
    AllowDaemonStart   \* Config.AllowDaemonStart

Prompts == 1 .. MaxPrompts
NoPrompt == 0
Apps == 1 .. MaxApps

\* The goroutines that call closeCodexApp: the watchdog of each turn and these three.
Reaper == MaxPrompts + 1
Pump == MaxPrompts + 2
Stopper == MaxPrompts + 3
Closers == 1 .. Stopper

ASSUME CodexAssumption ==
    /\ MaxPrompts \in Nat \ {0} /\ MaxApps \in Nat \ {0} /\ MaxLines \in Nat \ {0}
    /\ Transport \in {"auto", "proxy", "stdio"}
    /\ AllowDaemonStart \in BOOLEAN
    /\ Tells \in [1 .. MaxPrompts -> SUBSET {"delta", "item", "tool_started", "approval", "completed"}]

VARIABLES
    sent,      \* the prompts sent so far are 1 .. sent
    inbox,     \* the input channel of pumpCodexInputs
    pump,      \* the goroutine of Start and then of pumpCodexInputs
    codex,     \* Driver.codex, 0 is nil
    thread,    \* Driver.codexThreadID is set
    turn,      \* turnInFlight, and the prompt whose turn has the current codexTurnID
    item,      \* Driver.codexItems: one message and one tool item per turn; rows, toolRows and
               \* over (its turn/completed has been handled) are history
    app,       \* the codexapp.Client objects, each with its process
    closer,    \* who is on its way through closeCodexApp
    aged,      \* prompts whose turn was set up codexTurnTimeout ago
    stopped,   \* procCtx is cancelled
    awaiting,  \* history: prompts taken and not followed by a prompt_ready yet
    ends       \* history: prompt -> how often its turn was ended

vars == <<sent, inbox, pump, codex, thread, turn, item, app, closer, aged, stopped,
          awaiting, ends>>

Attempts == {"proxy", "daemon_start", "proxy_again", "stdio", "none"}

\* codexapp.Start: what is tried first, and what after a failed attempt.
FirstAttempt == IF Transport = "stdio" THEN "stdio" ELSE "proxy"

AfterFailure(try) ==
    CASE try = "proxy" /\ Transport = "proxy" -> "none"
      [] try = "proxy" /\ Transport # "proxy" -> IF AllowDaemonStart THEN "daemon_start" ELSE "stdio"
      [] try \in {"daemon_start", "proxy_again"} -> "stdio"
      [] OTHER -> "none"

AtRest == [pc |-> "idle", prompt |-> NoPrompt, app |-> 0, try |-> "none"]

\* A call of the pump, named by the prompt it is made for; each has an id of its own.
Calls == [what : {"thread", "turn"}, prompt : Prompts]
NoCall == [what |-> "none", prompt |-> NoPrompt]

NoApp == [proc |-> "none", closed |-> FALSE, done |-> FALSE, reading |-> FALSE, pending |-> NoCall,
          reply |-> "none", asked |-> {}, loaded |-> FALSE, running |-> [p \in Prompts |-> 0],
          out |-> <<>>, ending |-> FALSE]

NewItem == [text |-> FALSE, emitted |-> FALSE, rows |-> 0, toolUsed |-> FALSE, toolRows |-> 0,
            approval |-> FALSE, over |-> FALSE]

\* What a turn tells, in this order, each at most once and any of them left out.
NoteOrder == <<"delta", "item", "tool_started", "approval", "completed">>
Lines == [kind : {"note"}, n : 1 .. Len(NoteOrder), text : BOOLEAN, prompt : Prompts]
           \cup [kind : {"reply"}, ok : BOOLEAN, to : Calls]

PumpPcs == {"probe", "install", "idle", "thread", "thread_wait", "turn", "turn_ask", "turn_wait",
            "turn_err", "turn_late", "closing", "exited", "failed", "crashed"}

AppRec == [proc : {"none", "live", "dead"}, closed : BOOLEAN, done : BOOLEAN, reading : BOOLEAN,
           pending : Calls \cup {NoCall}, reply : {"none", "ok", "err"}, asked : SUBSET Calls,
           loaded : BOOLEAN, running : [Prompts -> 0 .. Len(NoteOrder) + 1],
           out : Seq(Lines), ending : BOOLEAN]

TypeOK ==
    /\ sent \in 0 .. MaxPrompts /\ inbox \in Seq(Prompts)
    /\ pump \in [pc : PumpPcs, prompt : Prompts \cup {NoPrompt}, app : Apps \cup {0}, try : Attempts]
    /\ codex \in Apps \cup {0}
    /\ thread \in BOOLEAN /\ stopped \in BOOLEAN
    /\ turn \in [inFlight : BOOLEAN, cur : Prompts \cup {NoPrompt}]
    /\ item \in [Prompts -> [text : BOOLEAN, emitted : BOOLEAN, rows : Nat, toolUsed : BOOLEAN,
                             toolRows : Nat, approval : BOOLEAN, over : BOOLEAN]]
    /\ app \in [Apps -> AppRec]
    /\ closer \in [Closers -> [pc : {"off", "armed", "take", "close"}, app : Apps \cup {0}]]
    /\ aged \subseteq Prompts /\ awaiting \subseteq Prompts
    /\ ends \in [Prompts -> Nat]

\* Start is about to call startCodexApp; no prompt has been sent.
Init ==
    /\ sent = 0 /\ inbox = <<>>
    /\ pump = [AtRest EXCEPT !.pc = "probe", !.try = FirstAttempt]
    /\ codex = 0 /\ thread = FALSE /\ stopped = FALSE
    /\ turn = [inFlight |-> FALSE, cur |-> NoPrompt]
    /\ item = [p \in Prompts |-> NewItem]
    /\ app = [a \in Apps |-> NoApp]
    /\ closer = [c \in Closers |-> [pc |-> "off", app |-> 0]]
    /\ aged = {} /\ awaiting = {}
    /\ ends = [p \in Prompts |-> 0]

-----------------------------------------------------------------------------
(* The client: what happens to an app-server record *)

\* A pending call gets an error on its channel.
Refuse(r) == [r EXCEPT !.pending = NoCall, !.reply = IF r.pending = NoCall THEN @ ELSE "err"]

\* The process is gone, and with it what it was doing.
Dead(r) == IF r.proc # "live" THEN r
           ELSE [r EXCEPT !.proc = "dead", !.asked = {}, !.loaded = FALSE, !.running = [p \in Prompts |-> 0]]

\* The process is gone and the client's goroutines have seen it.
Gone(r) == [Dead(Refuse(r)) EXCEPT !.closed = TRUE, !.done = TRUE, !.reading = FALSE,
                                   !.out = <<>>, !.ending = FALSE]

\* Client.Close: only the first call answers the pending call and kills the process.
Closed(r) == IF r.closed THEN r
             ELSE [Dead(Refuse(r)) EXCEPT !.closed = TRUE]

\* Client.Request: register and write, or fail at once when the client is closed.
Asked(r, call) == IF r.closed THEN [r EXCEPT !.reply = "err"]
                  ELSE [r EXCEPT !.pending = call, !.reply = "none",
                                 !.asked = IF r.proc = "live" THEN @ \cup {call} ELSE @]

\* The caller has its answer, or has given up and removed the pending call.
Taken(r) == [r EXCEPT !.pending = NoCall, !.reply = "none"]

\* A call returns an error: answered with one, the process is gone, or the context is.
CallFailed(r) == r.reply = "err" \/ r.done \/ stopped

-----------------------------------------------------------------------------
(* Events the driver emits *)

\* agent_error and prompt_ready, or prompt_ready alone.
PromptReady == awaiting' = {}

\* A turn ends under the mutex: the flag falls and codexTurnID moves on, to an id no turn has.
EndTurn == turn' = [inFlight |-> FALSE, cur |-> NoPrompt]
Ended(p) == ends' = [ends EXCEPT ![p] = @ + 1]

-----------------------------------------------------------------------------
(* pumpCodexInputs and runCodexTurn *)

\* Driver.Start has not returned.
Starting == pump.pc \in {"probe", "install"} /\ pump.prompt = NoPrompt

\* SendInput reaches the subscribed pump; empty prompts are not sent, and none is sent to a
\* driver that was stopped.
Send(p) ==
    /\ p = sent + 1 /\ sent' = p
    /\ pump.pc # "failed" /\ ~Starting /\ ~stopped
    /\ inbox' = Append(inbox, p)
    /\ UNCHANGED <<pump, codex, thread, turn, item, app, closer, aged, stopped, awaiting, ends>>

\* The pump receives a prompt and looks at d.codex.
PumpTake ==
    /\ pump.pc = "idle" /\ inbox # <<>>
    /\ inbox' = Tail(inbox)
    /\ pump' = [pump EXCEPT !.prompt = Head(inbox),
                            !.pc = IF codex = 0 THEN "probe" ELSE "thread",
                            !.try = IF codex = 0 THEN FirstAttempt ELSE "none"]
    /\ awaiting' = awaiting \cup {Head(inbox)}
    /\ UNCHANGED <<sent, codex, thread, turn, item, app, closer, aged, stopped, ends>>

PumpExit ==
    /\ pump.pc = "idle" /\ stopped
    /\ pump' = [pump EXCEPT !.pc = "exited"]
    /\ UNCHANGED <<sent, inbox, codex, thread, turn, item, app, closer, aged, stopped, awaiting, ends>>

\* startWithCommand succeeds: spawned and initialized; a cancelled context prevents it.
ProbeOk(a) ==
    /\ pump.pc = "probe" /\ pump.try # "daemon_start" /\ ~stopped
    /\ app[a].proc = "none" /\ \A b \in 1 .. (a - 1) : app[b].proc # "none"
    /\ app' = [app EXCEPT ![a] = [@ EXCEPT !.proc = "live", !.reading = TRUE]]
    /\ pump' = [pump EXCEPT !.pc = "install", !.app = a]
    /\ UNCHANGED <<sent, inbox, codex, thread, turn, item, closer, aged, stopped, awaiting, ends>>

\* runDaemonStart succeeds: the proxy is tried again.
DaemonStarted ==
    /\ pump.pc = "probe" /\ pump.try = "daemon_start" /\ ~stopped
    /\ pump' = [pump EXCEPT !.try = "proxy_again"]
    /\ UNCHANGED <<sent, inbox, codex, thread, turn, item, app, closer, aged, stopped, awaiting, ends>>

\* The prompt fails before its turn: an error and prompt_ready, and the pump goes on;
\* while Start itself is running the driver is given up instead.
FailPrompt ==
    IF pump.prompt = NoPrompt
    THEN pump' = [AtRest EXCEPT !.pc = "failed"] /\ UNCHANGED awaiting
    ELSE pump' = AtRest /\ PromptReady

\* An attempt fails: no binary, no answer within its time, the process exits. What was
\* spawned is closed before the next attempt.
ProbeFail ==
    /\ pump.pc = "probe"
    /\ IF AfterFailure(pump.try) = "none"
       THEN FailPrompt
       ELSE pump' = [pump EXCEPT !.try = AfterFailure(@)] /\ UNCHANGED awaiting
    /\ UNCHANGED <<sent, inbox, codex, thread, turn, item, app, closer, aged, stopped, ends>>

\* The end of startCodexApp, under the mutex.
Install ==
    /\ pump.pc = "install"
    /\ codex' = IF codex = 0 THEN pump.app ELSE codex
    /\ app' = IF codex = 0 THEN app ELSE [app EXCEPT ![pump.app] = Closed(@)]
    /\ pump' = [pump EXCEPT !.pc = IF pump.prompt = NoPrompt THEN "idle" ELSE "thread",
                            !.app = 0, !.try = "none"]
    /\ UNCHANGED <<sent, inbox, thread, turn, item, closer, aged, stopped, awaiting, ends>>

\* ensureCodexThread: nothing to ask when this app-server has the thread already.
ThreadReady ==
    /\ pump.pc = "thread" /\ codex # 0 /\ thread
    /\ pump' = [pump EXCEPT !.pc = "turn"]
    /\ UNCHANGED <<sent, inbox, codex, thread, turn, item, app, closer, aged, stopped, awaiting, ends>>

ThreadNoApp ==
    /\ pump.pc = "thread" /\ codex = 0
    /\ FailPrompt
    /\ UNCHANGED <<sent, inbox, codex, thread, turn, item, app, closer, aged, stopped, ends>>

ThreadAsk ==
    /\ pump.pc = "thread" /\ codex # 0 /\ ~thread
    /\ app' = [app EXCEPT ![codex] = Asked(@, [what |-> "thread", prompt |-> pump.prompt])]
    /\ pump' = [pump EXCEPT !.pc = "thread_wait", !.app = codex]
    /\ UNCHANGED <<sent, inbox, codex, thread, turn, item, closer, aged, stopped, awaiting, ends>>

ThreadLoaded ==
    /\ pump.pc = "thread_wait" /\ app[pump.app].reply = "ok"
    /\ app' = [app EXCEPT ![pump.app] = Taken(@)]
    /\ thread' = TRUE
    /\ pump' = [pump EXCEPT !.pc = "turn", !.app = 0]
    /\ UNCHANGED <<sent, inbox, codex, turn, item, closer, aged, stopped, awaiting, ends>>

ThreadFails ==
    /\ pump.pc = "thread_wait" /\ CallFailed(app[pump.app])
    /\ app' = [app EXCEPT ![pump.app] = Taken(@)]
    /\ FailPrompt
    /\ UNCHANGED <<sent, inbox, codex, thread, turn, item, closer, aged, stopped, ends>>

\* The locked part of runCodexTurn, the user_input event and the turn's watchdog.
TurnSetup ==
    /\ pump.pc = "turn"
    /\ turn' = [inFlight |-> TRUE, cur |-> pump.prompt]
    /\ closer' = [closer EXCEPT ![pump.prompt].pc = "armed"]
    /\ pump' = [pump EXCEPT !.pc = "turn_ask", !.app = codex]
    /\ UNCHANGED <<sent, inbox, codex, thread, item, app, aged, stopped, awaiting, ends>>

\* app.TurnStart on the app that was read under the mutex; a nil app panics. The panic ends the
\* daemon; the other goroutines go on here, which only adds behaviours.
TurnAsk ==
    /\ pump.pc = "turn_ask"
    /\ IF pump.app = 0
       THEN pump' = [pump EXCEPT !.pc = "crashed"] /\ UNCHANGED app
       ELSE /\ app' = [app EXCEPT ![pump.app] = Asked(@, [what |-> "turn", prompt |-> pump.prompt])]
            /\ pump' = [pump EXCEPT !.pc = "turn_wait"]
    /\ UNCHANGED <<sent, inbox, codex, thread, turn, item, closer, aged, stopped, awaiting, ends>>

TurnAccepted ==
    /\ pump.pc = "turn_wait" /\ app[pump.app].reply = "ok"
    /\ app' = [app EXCEPT ![pump.app] = Taken(@)]
    /\ pump' = AtRest
    /\ UNCHANGED <<sent, inbox, codex, thread, turn, item, closer, aged, stopped, awaiting, ends>>

TurnFails ==
    /\ pump.pc = "turn_wait"
    /\ \/ CallFailed(app[pump.app]) /\ pump' = [pump EXCEPT !.pc = "turn_err", !.app = 0]
       \/ pump.prompt \in aged /\ pump' = [pump EXCEPT !.pc = "turn_late", !.app = 0]
    /\ app' = [app EXCEPT ![pump.app] = Taken(@)]
    /\ UNCHANGED <<sent, inbox, codex, thread, turn, item, closer, aged, stopped, awaiting, ends>>

\* A failed turn/start ends the turn unless somebody else has; only a deadline closes the app.
TurnErrorIgnored ==
    /\ pump.pc \in {"turn_err", "turn_late"} /\ turn.cur # pump.prompt
    /\ pump' = AtRest
    /\ UNCHANGED <<sent, inbox, codex, thread, turn, item, app, closer, aged, stopped, awaiting, ends>>

TurnErrorEnds ==
    /\ pump.pc \in {"turn_err", "turn_late"} /\ turn.cur = pump.prompt
    /\ EndTurn /\ Ended(pump.prompt)
    /\ IF pump.pc = "turn_late"
       THEN /\ closer' = [closer EXCEPT ![Pump].pc = "take"]
            /\ pump' = [pump EXCEPT !.pc = "closing"] /\ UNCHANGED awaiting
       ELSE pump' = AtRest /\ PromptReady /\ UNCHANGED closer
    /\ UNCHANGED <<sent, inbox, codex, thread, item, app, aged, stopped>>

-----------------------------------------------------------------------------
(* The watchdog of a turn, the reaper and closeCodexApp *)

\* codexTurnTimeout passes since the turn was set up; it no longer matters once the context is
\* cancelled, which the watchdog and turn/start both see.
Age(p) ==
    /\ closer[p].pc = "armed" /\ p \notin aged /\ ~stopped
    /\ aged' = aged \cup {p}
    /\ UNCHANGED <<sent, inbox, pump, codex, thread, turn, item, app, closer, stopped, awaiting, ends>>

\* Mutant: the turn is given up without closing the app and telling the web.
WatchdogGivesUp(p) ==
    /\ closer[p].pc = "armed" /\ p \in aged
    /\ turn.inFlight /\ turn.cur = p
    /\ EndTurn /\ Ended(p)
    /\ closer' = [closer EXCEPT ![p].pc = "off"]
    /\ UNCHANGED <<sent, inbox, pump, codex, thread, item, app, aged, stopped, awaiting>>

\* watchCodexTurnCompletion after its timer: the turn is ended if it is still the current one.
WatchdogEnds(p) ==
    /\ closer[p].pc = "armed" /\ p \in aged
    /\ turn.inFlight /\ turn.cur = p
    /\ EndTurn /\ Ended(p)
    /\ closer' = [closer EXCEPT ![p].pc = "take"]
    /\ UNCHANGED <<sent, inbox, pump, codex, thread, item, app, aged, stopped, awaiting>>

WatchdogSkips(p) ==
    /\ closer[p].pc = "armed"
    /\ stopped \/ (p \in aged /\ ~(turn.inFlight /\ turn.cur = p))
    /\ closer' = [closer EXCEPT ![p].pc = "off"]
    /\ UNCHANGED <<sent, inbox, pump, codex, thread, turn, item, app, aged, stopped, awaiting, ends>>

\* timeoutCodexTurnFromReaper: lastActivity is the time the turn was set up.
ReaperEnds ==
    /\ closer[Reaper].pc = "off"
    /\ turn.inFlight /\ turn.cur \in aged
    /\ EndTurn /\ Ended(turn.cur)
    /\ closer' = [closer EXCEPT ![Reaper].pc = "take"]
    /\ UNCHANGED <<sent, inbox, pump, codex, thread, item, app, aged, stopped, awaiting>>

\* Mutants: the client is forgotten and not closed; the thread id stays.
CloseTakeForgets(c) ==
    /\ closer[c].pc = "take"
    /\ closer' = [closer EXCEPT ![c] = [pc |-> "close", app |-> 0]]
    /\ codex' = 0
    /\ thread' = FALSE
    /\ UNCHANGED <<sent, inbox, pump, turn, item, app, aged, stopped, awaiting, ends>>

CloseTakeKeepsThread(c) ==
    /\ closer[c].pc = "take"
    /\ closer' = [closer EXCEPT ![c] = [pc |-> "close", app |-> codex]]
    /\ codex' = 0
    /\ UNCHANGED <<sent, inbox, pump, thread, turn, item, app, aged, stopped, awaiting, ends>>

\* closeCodexApp, under the mutex; the client is closed after it.
CloseTake(c) ==
    /\ closer[c].pc = "take"
    /\ closer' = [closer EXCEPT ![c] = [pc |-> "close", app |-> codex]]
    /\ codex' = 0
    /\ thread' = FALSE
    /\ UNCHANGED <<sent, inbox, pump, turn, item, app, aged, stopped, awaiting, ends>>

\* Client.Close, and then the error and the prompt_ready of a time-out.
CloseApp(c) ==
    /\ closer[c].pc = "close"
    /\ app' = IF closer[c].app = 0 THEN app ELSE [app EXCEPT ![closer[c].app] = Closed(@)]
    /\ closer' = [closer EXCEPT ![c] = [pc |-> "off", app |-> 0]]
    /\ pump' = IF c = Pump THEN AtRest ELSE pump
    /\ IF c = Stopper THEN UNCHANGED awaiting ELSE PromptReady
    /\ UNCHANGED <<sent, inbox, codex, thread, turn, item, aged, stopped, ends>>

\* Driver.Stop: the context is cancelled, which kills the processes spawned under it, ends the
\* watchdogs whose timer is running and wakes the goroutine that closes the app. The clients'
\* goroutines see the dead processes at once: what they still read would only add rows to a
\* session that is closed.
Stop ==
    /\ ~stopped /\ pump.pc # "failed" /\ ~Starting
    /\ stopped' = TRUE
    /\ closer' = [c \in Closers |->
                    IF c = Stopper THEN [closer[c] EXCEPT !.pc = "take"]
                    ELSE IF closer[c].pc = "armed" /\ c \notin aged THEN [closer[c] EXCEPT !.pc = "off"]
                    ELSE closer[c]]
    /\ app' = [a \in Apps |-> IF app[a].proc = "none" THEN app[a] ELSE Gone(app[a])]
    /\ UNCHANGED <<sent, inbox, pump, codex, thread, turn, item, aged, awaiting, ends>>

-----------------------------------------------------------------------------
(* The app-server process *)

Write(r, line) == [r EXCEPT !.out = Append(@, line)]
CanWrite(a) == app[a].proc = "live" /\ Len(app[a].out) < MaxLines

\* It answers a call it was sent; a turn it accepts runs from then on.
ServerReplies(a, call, ok) ==
    /\ CanWrite(a) /\ call \in app[a].asked
    /\ ok /\ call.what = "turn" => app[a].loaded
    /\ LET r == Write(app[a], [kind |-> "reply", ok |-> ok, to |-> call]) IN
       app' = [app EXCEPT ![a] =
                 [r EXCEPT !.asked = @ \ {call},
                           !.loaded = @ \/ (ok /\ call.what = "thread"),
                           !.running[call.prompt] = IF ok /\ call.what = "turn" THEN 1 ELSE @]]
    /\ UNCHANGED <<sent, inbox, pump, codex, thread, turn, item, closer, aged, stopped, awaiting, ends>>

\* A running turn tells what it does; running is the first note it may still send.
ServerTells(a, p, n, text) ==
    /\ CanWrite(a) /\ app[a].running[p] \in 1 .. n
    /\ NoteOrder[n] \in Tells[p] /\ (text => NoteOrder[n] = "item")
    /\ LET r == Write(app[a], [kind |-> "note", n |-> n, text |-> text, prompt |-> p]) IN
       app' = [app EXCEPT ![a] = [r EXCEPT !.running[p] = n + 1]]
    /\ UNCHANGED <<sent, inbox, pump, codex, thread, turn, item, closer, aged, stopped, awaiting, ends>>

ServerExits(a) ==
    /\ app[a].proc = "live"
    /\ app' = [app EXCEPT ![a] = Dead(@)]
    /\ UNCHANGED <<sent, inbox, pump, codex, thread, turn, item, closer, aged, stopped, awaiting, ends>>

-----------------------------------------------------------------------------
(* The client's goroutines: readLoop with handleCodexNotification, and wait *)

Line(a) == Head(app[a].out)
Read(a) == [app[a] EXCEPT !.out = Tail(@)]
HasLine(a) == app[a].reading /\ ~app[a].ending /\ app[a].out # <<>>

\* A reply is given to the pending call, or dropped when nobody waits for it.
HandleReply(a) ==
    /\ HasLine(a) /\ Line(a).kind = "reply"
    /\ app' = [app EXCEPT ![a] = [Read(a) EXCEPT
                 !.pending = IF @ = Line(a).to THEN NoCall ELSE @,
                 !.reply = IF app[a].pending # Line(a).to THEN @ ELSE IF Line(a).ok THEN "ok" ELSE "err"]]
    /\ UNCHANGED <<sent, inbox, pump, codex, thread, turn, item, closer, aged, stopped, awaiting, ends>>

\* A tool use is shown once per item id.
UseTool(r) == IF r.toolUsed THEN r ELSE [r EXCEPT !.toolUsed = TRUE, !.toolRows = @ + 1]

\* A message row: the text of the completed item, or else the streamed deltas.
Finish(r, text) == [r EXCEPT !.emitted = TRUE, !.rows = IF text \/ r.text THEN @ + 1 ELSE @]

AfterNote(r, n, text) ==
    CASE n = "delta"        -> [r EXCEPT !.text = TRUE]
      [] n = "item"         -> Finish(r, text)
      [] n = "tool_started" -> UseTool(r)
      [] n = "approval"     -> [r EXCEPT !.approval = TRUE]
      [] OTHER              -> r

NoteOf(a) == NoteOrder[Line(a).n]

HandleNote(a) ==
    /\ HasLine(a) /\ Line(a).kind = "note" /\ NoteOf(a) # "completed"
    /\ item' = [item EXCEPT ![Line(a).prompt] = AfterNote(@, NoteOf(a), Line(a).text)]
    /\ app' = [app EXCEPT ![a] = Read(a)]
    /\ UNCHANGED <<sent, inbox, pump, codex, thread, turn, closer, aged, stopped, awaiting, ends>>

\* handleCodexServerRequest runs on its own goroutine; before it asks for the decision
\* (Permission) it shows the tool use it is about.
ShowApproval(p) ==
    /\ item[p].approval
    /\ item' = [item EXCEPT ![p] = [UseTool(@) EXCEPT !.approval = FALSE]]
    /\ UNCHANGED <<sent, inbox, pump, codex, thread, turn, app, closer, aged, stopped, awaiting, ends>>

\* The streamed messages without a row.
Unemitted == {p \in Prompts : item[p].text /\ ~item[p].emitted}

\* Mutant: turn/completed without the flush.
FlushNothing(a) ==
    /\ HasLine(a) /\ Line(a).kind = "note" /\ NoteOf(a) = "completed"
    /\ item' = [item EXCEPT ![Line(a).prompt].over = TRUE]
    /\ app' = [app EXCEPT ![a] = [Read(a) EXCEPT !.ending = TRUE]]
    /\ UNCHANGED <<sent, inbox, pump, codex, thread, turn, closer, aged, stopped, awaiting, ends>>

\* flushUnemittedCodexAgentText, the first half of turn/completed.
FlushCompleted(a) ==
    /\ HasLine(a) /\ Line(a).kind = "note" /\ NoteOf(a) = "completed"
    /\ item' = [p \in Prompts |->
                  LET r == [item[p] EXCEPT !.over = @ \/ p = Line(a).prompt] IN
                  IF p \in Unemitted THEN [r EXCEPT !.emitted = TRUE, !.rows = @ + 1] ELSE r]
    /\ app' = [app EXCEPT ![a] = [Read(a) EXCEPT !.ending = TRUE]]
    /\ UNCHANGED <<sent, inbox, pump, codex, thread, turn, closer, aged, stopped, awaiting, ends>>

\* The rest of turn/completed: whatever turn is current ends. An agent_error before the
\* prompt_ready says that the turn left no durable row.
EndCompleted(a) ==
    /\ app[a].ending
    /\ app' = [app EXCEPT ![a].ending = FALSE]
    /\ EndTurn
    /\ ends' = IF turn.inFlight THEN [ends EXCEPT ![turn.cur] = @ + 1] ELSE ends
    /\ PromptReady
    /\ UNCHANGED <<sent, inbox, pump, codex, thread, item, closer, aged, stopped>>

\* The process is gone: cmd.Wait closes the pipe, so lines that were not read yet are lost.
ReadEnds(a) ==
    /\ app[a].reading /\ ~app[a].ending /\ app[a].proc = "dead"
    /\ app' = [app EXCEPT ![a] = [Refuse(app[a]) EXCEPT !.reading = FALSE, !.out = <<>>]]
    /\ UNCHANGED <<sent, inbox, pump, codex, thread, turn, item, closer, aged, stopped, awaiting, ends>>

WaitEnds(a) ==
    /\ app[a].proc = "dead" /\ ~app[a].done
    /\ app' = [app EXCEPT ![a] = [Refuse(app[a]) EXCEPT !.closed = TRUE, !.done = TRUE]]
    /\ UNCHANGED <<sent, inbox, pump, codex, thread, turn, item, closer, aged, stopped, awaiting, ends>>

-----------------------------------------------------------------------------

Next ==
    \/ PumpTake \/ PumpExit \/ DaemonStarted \/ ProbeFail \/ Install
    \/ \E a \in Apps : ProbeOk(a)
    \/ ThreadReady \/ ThreadNoApp \/ ThreadAsk \/ ThreadLoaded \/ ThreadFails
    \/ TurnSetup \/ TurnAsk \/ TurnAccepted \/ TurnFails \/ TurnErrorIgnored \/ TurnErrorEnds
    \/ \E c \in Closers : CloseTake(c) \/ CloseApp(c)
    \/ \E p \in Prompts : Send(p) \/ Age(p) \/ WatchdogEnds(p) \/ WatchdogSkips(p) \/ ShowApproval(p)
    \/ ReaperEnds \/ Stop
    \/ \E a \in Apps :
         \/ HandleReply(a) \/ HandleNote(a) \/ FlushCompleted(a) \/ EndCompleted(a)
         \/ ReadEnds(a) \/ WaitEnds(a) \/ ServerExits(a)
         \/ \E call \in Calls, ok \in BOOLEAN : ServerReplies(a, call, ok)
         \/ \E p \in Prompts, n \in 1 .. Len(NoteOrder), text \in BOOLEAN : ServerTells(a, p, n, text)

Spec == Init /\ [][Next]_vars

-----------------------------------------------------------------------------
(* Properties *)

\* Every app-server process that is still running can be reached: it is the one the driver
\* holds, the one being installed, or one that a closer has taken and is about to close.
NoOrphanApp ==
    /\ TypeOK
    /\ \A a \in Apps : app[a].proc = "live" =>
        \/ a = codex
        \/ pump.pc = "install" /\ pump.app = a
        \/ \E c \in Closers : closer[c].pc = "close" /\ closer[c].app = a

\* A turn is ended once, whichever of the completion, the failed call, the watchdog and the
\* reaper comes first.
EndedOnce == \A p \in Prompts : ends[p] <= 1

\* The web may send again only after a prompt_ready, so one is always owed to a prompt the pump
\* has taken: the pump is still on it, its turn is in flight and watched, or somebody has ended
\* the turn and is about to say so.
ReadyIsOwed ==
    awaiting # {} /\ ~stopped =>
        \/ pump.pc # "idle"
        \/ turn.inFlight /\ closer[turn.cur].pc = "armed"
        \/ \E c \in Closers : closer[c].pc \in {"take", "close"}
        \/ \E a \in Apps : app[a].ending

\* However the watchdog, the reaper, the failed call and the completion race, a turn is ended
\* at most once and its prompt is never left without the prompt_ready that answers it.
EndsAsOwed == EndedOnce /\ ReadyIsOwed

\* turn/start is only sent to an app-server that has loaded the thread.
TurnNeedsThread ==
    \A a \in Apps : (\E call \in app[a].asked : call.what = "turn") => app[a].loaded

\* A streamed reply that has no durable row is still there for the next turn/completed to
\* flush, and is of a turn whose own has not been handled: nothing marks it as emitted without
\* a row. A turn that the watchdog, the reaper or a failed call ends leaves its reply in this
\* state, until a later turn of the driver completes, if one does.
UnkeptAwaitsFlush ==
    \A p \in Prompts : item[p].text /\ item[p].rows = 0 => p \in Unemitted /\ ~item[p].over

\* A tool use has one row, though the item and the approval request both show it.
ToolUseOnce == \A p \in Prompts : item[p].toolRows <= 1

\* An answer reaches the call it belongs to, not a later one on the same app-server: a pump
\* that is told its call succeeded is on a server that has done what was asked.
ReplyIsToCall ==
    \A a \in Apps : app[a].reply = "ok" /\ app[a].proc = "live" =>
        /\ pump.app = a /\ pump.pc \in {"thread_wait", "turn_wait"}
        /\ IF pump.pc = "thread_wait" THEN app[a].loaded ELSE app[a].running[pump.prompt] # 0

\* What the app-server writes reaches the session as it was meant: a late answer is not taken
\* for that of a later call, a streamed reply has a row once the turn/completed of its turn is
\* handled and until then waits for a flush, and a tool use that two lines show has one row.
LinesAreApplied == ReplyIsToCall /\ UnkeptAwaitsFlush /\ ToolUseOnce
==============================================================================
