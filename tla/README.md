# A TLA+ development for Pockly

Pockly lets a browser work with Claude Code and Codex sessions that run on the
user's own computer. A *daemon* (Go) on that computer owns the agents; *Nexus*
(Node.js) is the relay the daemon dials and the browsers talk to; the *web* app
runs in the browser; a *wrapper* (Go) runs Claude in the user's own terminal and
reports to the daemon. What can go wrong is in the middle: requests, decisions,
transcripts and terminal output cross processes that restart and reconnect
independently, and in each process they meet goroutines that share maps,
channels and timers. This directory models that middle.

| file | what it is |
| --- | --- |
| `Permission`, `PermissionProofs` | the broker where approvals meet decisions |
| `SDKManager`, `SDKManagerProofs` | the headless Claude drivers and their idle reaper |
| `TerminalStream`, `TerminalStreamProofs` | a terminal's output from the daemon to its watchers |
| `RequestLife` | what the control hub promises its clients (abstract) |
| `ControlHub`, `ControlHubProofs` | the control connection and the requests over it |
| `CodexDriver`, `CodexDriverProofs` | the Codex half of a driver and its app-server client |
| `WrapperBridge`, `WrapperBridgeProofs` | a wrapper and the daemon's registry of terminal sessions |
| `IndexState`, `SessionIndex` | the index of the transcripts on disk; proofs in `NexusSyncProofs` |
| `NexusSync`, `NexusSyncProofs` | the sync loop, hints, and the copies Nexus keeps |
| `AgentSettings`, `AgentSettingsProofs` | model, mode and effort, typed into a terminal or stored |
| `PromptState`, `PromptWatcher` | the wrapper's view of Claude's permission prompts; proofs in `PermissionProofs` |
| `MC*.tla`, `MC*.cfg` | the instances that TLC checks |
| `PROJECT.json` | components, runs, mutants, map from definitions to source lines, findings, hazards, theorems |

`tlc -config MCx.cfg MCx` repeats a run, `tlapm xProofs.tla` checks proofs.
Source paths below are relative to `src/`.

## 1. Inventory

### Components and their state

| component | state | operations | talks to |
| --- | --- | --- | --- |
| Permission broker, `daemon/internal/permission/store.go` | `pending`: id -> one-slot channel | Register, Await, Decide, Cancel | mcp-permission process (local HTTP), Codex driver, wrapper, control runner |
| SDK driver manager, `daemon/internal/agent/sdkdriver/manager.go` | `drivers`: session id -> (driver, external session); idle times | EnsureDriver, exit watcher, idle reaper, StopAll | drivers, terminal manager, control runner, recovery hook |
| SDK driver, `sdkdriver/driver.go` | subprocess, stdin pump, `turnInFlight`, context | Start, pump, readStdout, Wait, Stop | subprocess, external session |
| Codex driver, `sdkdriver/codex_app.go`, `agent/codexapp/client.go` | app-server client, thread, turn, items, pending calls | start app, load thread, run turn, approve, close | app-server, broker, external session |
| Terminal sessions, `terminal/{manager,external,session}.go` | sessions, session-id index, history ring, subscribers, PTY | register, bind, send input, emit, close, reap | drivers, wrapper, control runner |
| Control runner, `control/control.go` | connection, `active`, `activeInjects`, `terminalSubscribers` | dial loop, read loop, one goroutine per request, feeder | everything above; Nexus |
| Terminal batcher, `control/terminal_batcher.go` | pending batch and timer, replay ring, `deliveredSeq` | Add, FlushTerminal, snapshot, DropTerminal | control runner |
| Control hub, `nexus/src/control.js` | `daemons`, `pending`, `streams`, `browserCommandStreams`, terminal streams, browser sockets | register and close connections, request, stream, cancel, deliver, broadcast | daemons, browsers |
| Wrapper bridge, `daemon/cmd/pockly-claude-wrapper/main.go` | terminal id, session id, `pending` events | register, emit with retries, drain, keepalive, input stream, exit intent | daemon's local API |
| Prompt watcher, same file | screen buffer, active and recent signatures, fallback timers | feed, observe a row, start and finish a handler | Claude's TUI and transcript, broker |
| Session index, `daemon/internal/index`, `agent/{claude,codex}` readers | snapshot, turn counts, watcher, debounce, `changes` | refresh, count, publish, watch | files, sync loop |
| Nexus sync loop, `daemon/cmd/pockly-daemon/main.go`, `relay/sync.go`, `pair/client.go` | last signatures, `lastHistorySync`, pushed hints | catalog, probes, windows, retries | index, Nexus HTTP |
| Nexus application and store, `nexus/src/{app,store}.js` | SQL rows: devices, sessions, turns, hints | daemonSync: reconcile, upsert, prune, answer windows | hub, database, daemons |
| Agent settings, `agentsettings/`, adapter in `pockly-daemon/main.go` | settings per terminal or session, apply locks, lineup of models | validate, apply, confirm, get | terminal sessions, drivers, control runner, local API |
| Redis hub, `nexus/src/node/redis-control-hub.js` | owner keys with a TTL, pending remote requests, remote streams | forward between Nexus instances | Redis, control hub |
| Tab leader, `web/src/workspace-tab-leader.ts` | lease in local storage | claim, renew, release, broadcast | other tabs |
| Web app, CLI, pairing, telemetry, launcher | user interface, files, configuration | - | - |

### What is hard here

* Interleavings: `Store.Decide`, the batcher and `drainPending` work on what they
  took after they have released the mutex; the reaper, the exit watcher and
  `EnsureDriver` edit one map; four goroutines may end one Codex turn.
* Processes that fail separately: a connection can die without either end
  knowing, a daemon restarts with an empty registry under a wrapper that runs
  on, a POST whose answer is lost is processed, repeated, or processed late.
* Time: await, flush, hub, fallback and debounce timers, watchdogs and the idle
  reaper race what they guard.
* What is remembered about another party: the daemon's turn signatures about
  Nexus, the stored mode about a TUI that its user also drives, a handler's keys
  about a prompt that may have been answered, a cached size about a file that
  grows while it is read.
* Counting across a protocol: SSE streams and browser sockets unsubscribe in
  different ways from one counter.

`PROJECT.json` lists the main hazards at their lines, with the properties that
would catch each. What each component must guarantee is in section 3.

## 2. Plan

Done: the models `Permission`, `SDKManager`, `ControlHub` with `RequestLife`,
`TerminalStream`, `CodexDriver`, `WrapperBridge`, `SessionIndex`, `NexusSync`,
`AgentSettings` and `PromptWatcher`, and proofs of every safety property that a
passing run checks. Next:

1. `StreamOverHub`: subscriptions across reconnects, composing `TerminalStream`
   and `ControlHub`.
2. An abstract specification of `WrapperBridge`: a channel that delivers each
   event once unless the daemon crashes, and the refinement.
3. `TabLeader`: the lease between browser tabs, which is read and written without
   a lock (`workspace-tab-leader.ts:71`), abstractly one leader at a time.
4. The history ring and sequence numbers of external sessions; the Redis hub;
   the PTY session; Codex exec calls.

## 3. The modules

Each action is the part of a function that runs under one mutex or, on Nexus, to
the end of one event handler. Texts, prompts, ids and sessions are members of
small sets. Definitions that a comment calls *mutant*, or that follow the name of
the definition they spoil, are plausible bugs; each property is shown to fail
when its mutant takes the place of the definition.

### Permission

A request (`wpc`) registers, looks its entry up, selects, deletes and returns; a
decide or cancel call (`cpc`) looks the entry up and then sends without the
mutex. The entry's channel holds one outcome and a full channel drops the next
(`Send`). An mcp-permission request has a timer, a Codex request has none
(`HasTimer`) and ignores a conflict (`ConflictIgnored`). Request ids are chosen
in `Init` in every possible way, because Codex uses the JSON-RPC ids of its
connection.

* `AnswerIsForTheRequest`, `FirstDecisionWins`, `LateDecisionIsRefused`: for a
  request whose id is its own, the agent is told what was chosen on its own card,
  the first choice that reached the broker, and a decision that comes after the
  await has returned is refused. After a *disconnect* it is not: Await's ctx.Done
  branch leaves the entry, and the property says so.
* `DecisionResolves`: an mcp-permission call is answered in the end, and a Codex
  request, which has no timer, once somebody decides.

### SDKManager

A caller (an inject, of which the control runner handles one at a time, or a
recovery call) goes through lookup, `EnsureDriver`, `Start` up to the pump's
ready signal, and the two steps of `SendInput`. A driver record holds its
subprocess, pump, queued prompts, prompts being worked on, `turnInFlight` and
`idle`. The subprocess may answer, fork to another session id or exit at any
time; the reaper takes idle drivers out under the mutex (`ReapScan`) and stops
them after it (`ReapStop`); the web may stop the terminal sessions in `WebStops`
(`TerminalStop`).

* `SubprocessIsOwned`: no running subprocess is without an entry, unless it is
  being torn down.
* `NoClosedSessionPinned`: no entry refers to a session that the manager closed.
* `DeliveredOnce`, `AcceptedUnlessDriverGone`: a prompt reaches one subprocess,
  and an inject reported as completed is not lost while its driver lives, the
  web does not stop the session, no recovery call is still starting it, and the
  pump's channel has room (`full`, a history variable: `SendInput` drops the
  prompt otherwise, and reports nothing).

### TerminalStream

One terminal over one connection. A batch is the set of the text events in it;
the goroutine that took a batch holds it in `todo` while it is checked, sent and
marked as delivered, since all that happens outside the mutex. The feeder, each
flush timer that fired and the connection's reader are such goroutines. Nexus is
the set of watchers and the subscription messages it sends.

* `GapIsMarked`: text that is neither kept nor forwarded went with a truncation
  that the ring records.
* `ForwardedOnce`: no numbered text goes out twice on either path.
* `FlushedBeforeOther`: an event that is no text does not overtake the batch being
  collected.
* `WatcherIsForwarded`: the daemon's count is not below the number of watchers,
  save by the unsubscribes that HTTP clients posted (`dismissed`, a history
  variable). The routes `subscribe` and `unsubscribe` of a terminal
  (`app.js:3499-3504`) send the same messages as a stream or a socket and register
  nothing: a browser that polls for events posts them, and Nexus does not check
  that they pair up. An unsubscribe while one stream watches takes the count to 0,
  in the code and in the model; the property says that this is the only way a
  watcher is left uncovered, and one watcher at most for each such post.
* `PendingIsForwarded`: liveness.

### RequestLife and ControlHub

`RequestLife` is the promise: a request is new, then refused or accepted, and an
accepted one ends once. `ControlHub` models the hub's registry (`online`), the
last presence browsers were told (`announced`), what the hub knows of each
socket (`stage`), the entries of its three tables with their timers, and how
each client was told its request ended (`told`). The daemon's side is the dial
loop (`end`), the goroutine of each request (`work`, `via`), the slot injects
and syncs share (`Active`) and the injects whose end is taken from terminal
events (`mirrors`). Frames travel in order on a connection (`down`, `up`) and
are lost when the link dies. `via` keeps the connection a goroutine answers on,
which may be gone when it does.

Faults: a handshake given up by the daemon that Nexus completes later
(`GiveUp`), a link that dies silently (`LinkDies`), a daemon that restarts
(`Restart`), a send on a closed socket (`AskFails`), a browser that leaves
(`Leave`). `CancelInject` carries no id, because the hub sends it in a place
where the daemon does not look.

* `DeviceIsCurrent`: the registry is the connection neither replaced nor closed,
  and browsers were told what it says.
* `OneAtATime`: the slot is exclusive, also across connections.
* `EntryIsTimed`: entries and running timers are the same requests, none ended.
* `RequestsLive`: the hub implements `RequestLife` (refinement mapping `Phase`).
* `Recovers`: every accepted request ends, and the device comes back (liveness).

### CodexDriver

The pump (`pump`) starts an app-server through the attempts of `codexapp.Start`
(proxy, starting the daemon of Codex, proxy again, stdio), loads the thread and
starts a turn. An app-server record holds its process, the client's pending
call and its answer, what it was asked and is running, and the lines it wrote
that nobody has read. The watchdog of each turn, the idle reaper, the pump and
Stop are `closer`s of the app: they take it from the driver under the mutex
(`CloseTake`) and close it after (`CloseApp`). The app-server answers late,
stays silent, exits or reports what its turns do, in order.

* `NoOrphanApp`: a running app-server is held by the driver or by somebody about
  to install or close it.
* `EndsAsOwed`: a turn ends at most once, and a prompt the pump took is followed
  by `prompt_ready`, whoever wins.
* `TurnNeedsThread`: `turn/start` goes only to a server that loaded the thread.
* `LinesAreApplied`: a late answer is not taken for the next call's, a tool use has
  one row, and a streamed reply has a row once the `turn/completed` of its turn is
  handled, whether that reports success or an error. Until then it waits for a
  flush (`UnkeptAwaitsFlush`). A turn that the watchdog, the reaper or a failed call
  ends flushes nothing: its reply keeps no row unless a later turn of the driver
  completes (section 6).

### WrapperBridge

A goroutine of the wrapper is a stack of frames, because `reregister` emits
`session_started`, which drains the backlog, which may re-register. A POST is
two steps: it is built with the terminal id and session id of the moment, and
it is served by the daemon, or fails. The daemon's side is `Manager`'s registry with
`sidIndex`, the reaper of stale sessions, recovery after an exit nobody
announced, and injected prompts. Faults: the daemon crashes at any step,
including after it handled an event and before it answered (`CrashBeforeAnswer`), and
is restarted with an empty registry; the wrapper may be killed.

* `EventHeldOnce`: until the daemon has taken it, an event is in exactly one place
  of the wrapper, or it left a full queue.
* `RepeatsNeedCrash`: an event is delivered again only if a crash hid its answer.
* `QueuedIsRead`: a prompt waits only in a session whose input stream is read.

### SessionIndex

The loop of `Index.Start` (`indexer`, `debounce`, `refreshCh`), one scan at a time
under `refreshMu` (`scan`) that lists, stats, counts and publishes while
transcripts change, the sync loop, which scans for itself and then reads, and the
local API, any request of which may scan (`ApiRefresh`) and whose block streams
receive from the channel of changes that the sync loop waits for (`StreamTakes`).
A transcript is its length in half lines. Faults: unreadable projects, failed
scans, lost events, a watcher that closes.

* `ChangeIsSignalled`: a change of the snapshot wakes the waiting sync loop, unless
  the loop's last run failed or a block stream took the only token (`taken`).
* `CatalogWasScanned`: what the sync loop publishes is from a good scan and lists
  every session that was there and readable.
* `CountCoversLines`: counting on from the last size loses no line. It leaves out
  (`removed`) an id whose transcript was deleted and written anew, for which the
  cached size is that of the old file.

### NexusSync

The sync loop posts a catalog, probes known windows and uploads windows of turns;
sync requests of the control connection upload by themselves; Nexus
reconciles, upserts and prunes. A POST may be processed and its answer lost,
repeated, given up, and processed late (`late`). A turn has one of two
versions, since a Codex tool call is rewritten when its output arrives, and a
window hash is the content of the window.

* `SyncedTailIsStored`: turns the loop remembers as synced are stored at Nexus, or
  gave way there to newer ones.
* `CatalogIsCurrent`: when the loop rests with the current catalog pushed, Nexus
  lists those sessions.
* `DeletedWasGone`: a session that Nexus deletes was not in the index when the
  catalog was built.
* `HintIsNoticed`: a hint nobody looked at wakes the loop.

The history variables `excused` and `touched` hold the sessions that these leave
out. `excused`: those Nexus dropped or declined, and those of which trimming left
turns out (`LeavesGap`, section 6), until a whole window is stored while no hint
vouches for more (`Repairs`). `touched`: those changed by an upload or by a request
without an answer, of which the loop cannot know.

### AgentSettings

Requests of four paths (Nexus, local API, a draft, Codex) are validated, resolved
to a terminal or driver, and typed into the TUI as back-tabs and `/model` lines,
or stored for the next spawn. The TUI takes, swallows or delays what is typed, and
is driven by its user too. The daemon never hears its mode: the wrapper sends no meta
event, so that `Store.Observe` has no action (section 6). `Register` puts a TUI in any
mode of `Launches` under a key that the store does not have: a user's
`--permission-mode`, or a wrapper that registers again after the daemon restarted.

* `ModeIsCurrent`: once the keys on their way are taken, a TUI that registered in the
  default mode and that the daemon's keys alone have cycled is in the stored mode, also
  when one request counted from a mode the keys of another had not yet brought about.
  Of other terminals (`muddled`, for good) it says nothing: registered in another mode,
  pressed by the user, a key lost, or keys typed into one terminal and counted under
  another's settings. There the pills may show any mode, and nothing corrects them.
* `RecordedModelWasConfirmed`: a model is recorded only if the session reported it.
* `OfferedIsAccepted`: what a Get offers, a Set accepts.

### PromptWatcher

A prompt is found on the screen, in a row of the transcript, or presumed when a
tool use has no result after a while (`StartScheduledFallback`). Each way has a
signature of its own, and a handler per signature asks the web and types a key.

* `ActiveIsHandled`: a signature is active exactly while one handler works on it.
* `EveryCardCloses`: a card of the web closes in the end (liveness).
* `OneTimeGrantOnly`: a decision never chooses an option that persists a rule.
  *Violated by the code*, run `prompts_persist`.

## 4. The runs

| run | distinct states | result |
| --- | --- | --- |
| `permission` | 59 862 | the broker, one request of each agent, ids equal or not |
| `sdk` | 1 248 369 | two injects and a recovery on two sessions that may fork, one terminal that the web may stop |
| `stream` | 310 063 | numbered events, an SSE stream, a browser socket and HTTP clients |
| `hub` | 234 519 | two of a call, an inject over SSE and a sync over a browser socket, three connections |
| `codex` | 1 352 976 | two prompts, two app-servers, every way to end a turn |
| `bridge` | 1 006 877 | a wrapper with four goroutines, a daemon crash, a prompt |
| `index` | 4 900 497 | a Claude and a Codex transcript, one unreadable read, the local API |
| `sync` | 1 773 696 | two sessions, a catalog with room for one, two faults |
| `settings` | 663 384 | a wrapper, an SDK driver, three sessions, two requests |
| `prompts` | 693 418 | two tools, two handlers |
| `index_events` | - | **violation**: after the first debounced refresh, events no longer refresh the index |
| `prompts_persist` | - | **violation**: a denial is typed into the next prompt, where its key is "always allow" |

The two violations are behaviours of the code that a comment of the repository
rules out; `findings` quotes the lines. The remaining runs hold. Three findings have no
run: `Apply` records no model although its comment says that the store is updated,
which is visible in the one line that is missing; the wrapper sends none of the meta
events from which the store is said to learn a terminal's mode; and a Codex turn that a timeout or
a failed call ends keeps no row of its streamed reply although two comments promise
one, which `UnkeptAwaitsFlush` leaves out by its wording.

### Bounds and why they are enough

* `permission`: two requests and two calls are the smallest numbers with a
  collision, with two tabs deciding one card, and with a decision that is late
  for one request and in time for the other. Three outcomes.
* `sdk`: two drivers and two sessions allow a driver to be replaced while its
  predecessor is still being watched, which is where ownership can break; two
  prompts are the shortest queue. `InputBuffer = 1` stands for 8: the second
  prompt meets a full channel. Sessions and injects are symmetric. The one state
  constraint of the project, `CallsAfterStop`, cuts a behaviour once the web has
  stopped a session and all three calls have begun: a stop is met by the calls
  that are running and by one that begins after it. The theorems have no such
  bound.
* `stream`: two texts with `BatchMax = 2` and `RingMax = 1` fill a batch, or begin
  two, and truncate the ring either way. One flush timer at a time may have fired
  and not run yet. `MaxMessages = 4` lets a subscriber come, go and come back
  while another one or an HTTP client sends a message of its own;
  `MaxDismissed = 2` lets HTTP clients take away more than one. The four safety
  properties are proved for all sizes.
* `hub`: three connections are a dial that is given up, a good one, and the one
  that replaces what the late handshake broke. One request of each table, any two
  of the three at once. `MayFail` stops faults while the daemon still has the dials
  to recover, as any liveness claim about a bounded number of connections needs; it
  does not restrict the order of events.
* `codex`: the first turn streams a message and completes, the second asks for an
  approval and does not (`MessageThenTool`); a second prompt meets what is late
  of the first. `MaxApps = 2` replaces an app-server once, `MaxLines = 1` lets
  one line be unread.
* `bridge`: one emitting goroutine beside the wrapper's own three, whose notices
  fill `PendingMax = 1`; `MaxTries = 2` is a failure and a retry; one crash makes
  every goroutine meet a forgotten id; `MaxIds = 2` and `MaxSids = 2` allow a
  re-registration and a rotation, two prompts meet one stream, and `MaxStalls = 1`
  lets the reaper forget the session of a suspended wrapper.
* `index`: sizes up to two half lines are a line and a line being written; the
  transcripts that are there at the start end in the middle of their first line
  (`BootSizes`), those created later are empty; the theorems are for all sizes.
  `index_events` has two changes, the second of which is missed, with the
  ticker off, so that nothing hides it.
* `sync`: a window of one turn, hinted to two, over sessions of three turns that
  Nexus keeps two of; a catalog of one session makes the second not fit.
  `MaxEvents = 3` bounds changes, faults and openings together. A gap left by
  trimming needs windows of three turns and four events: the theorem covers it, the
  run does not.
* `settings`: one disturbance of any kind (`MaxEvents = 1`) between and during two
  requests, which is enough for one to count from the mode another's keys are still
  bringing about. The asks cover every path, a custom model and an alias; the TUI
  registers in the default mode or outside the cycle.
* `prompts`: two tools overlap in every order; the refusal of the edit cannot be
  read, which is the third way to a handler. `prompts_persist` adds a question,
  whose "no" is the key of another prompt's "always".

`CHECK_DEADLOCK FALSE` everywhere: requests, prompts, texts, tools and changes
are finite, and when they are used up the system rightly rests. Only `sdk` has a
state constraint.

### Fairness

Only what the runtimes provide: goroutines that can run are scheduled, timers
fire, `exec` returns, a subprocess whose context is cancelled is killed, a
failed read is noticed within `controlReadWait`, the daemon dials again, and the
Node process completes a handshake. Nothing is assumed of users, agents,
browsers or of handlers that wait for an agent, nor that Nexus notices a dead
link: the first half of `Recovers` rests on the hub's timers alone, the second on
the daemon's pings, its dial loop and the registration. A read fails in the model
when the link is dead, not on a healthy idle one, which the pongs keep alive.
`EveryCardCloses` rests on the handler's own steps and the daemon's timeout of a
decision (504). `EventRefreshes` is refuted under strong fairness of the loop's
select cases, so that the counterexample is not a loop that never gets a turn.

## 5. The proofs

All proofs are for arbitrary sets of requests, calls, sessions, drivers,
connections, prompts, app-servers and terminals, from the `ASSUME`s of the modules only
(disjointness and finiteness of the sets, sentinels outside them, natural bounds). They use `Spec` without fairness. Two
components are proved in the module of the one they feed, whose steps they do not
share: `PermissionProofs` has `Watcher == INSTANCE PromptWatcher` and `NexusSyncProofs` has
`Index == INSTANCE SessionIndex`. Their constants, variables and invariants are in
`PromptState` and `IndexState`, which these modules extend, so that the theorems
(`Watcher!Spec => []ActiveIsHandled`) state the very definitions that TLC checks.

**PermissionProofs.** `TypeCorrect`; `AnswerCorrect` and `FirstDecisionCorrect`
from the invariant `Inv`: entries, the channels that requests select on and the
targets of calls agree in their *key* (not their request: keys may collide);
what is in the channel of a request with its own id was asked for on its card;
and it is the first outcome sent there, unless that was already received.
`LateDecisionCorrect` adds `LateInv`: a request that returned otherwise than by
a disconnect has no entry any more, which is why a late lookup finds nothing.

**PermissionProofs, PromptWatcher.** `WatcherInv` is the full types, where a handler at
work has a signature (`WatcherTypes`), and `Handled`: the active signatures are those of the
handlers at work, two of them never share one, and none that is active is among the
recent. All ways to start a handler go through one lemma (`Started`), all ways to
end one through another (`Finished`), and a handler that goes on keeps its signature
(`Advanced`); that the screen, the row and the fallback timer find the same prompt
in any order then makes no difference. What is read off the screen needs `Painted` to be
well typed first: the last prompt of the buffer and the first key of an option exist
because the buffer is a finite sequence. Gives `ActiveIsHandledAlways`.

**SDKManagerProofs.** `TypeCorrect` and `OwnedCorrect` from `Inv`: which phases
of a driver and of a caller go together, that a driver being started is the
entry of its session, and that one caller starts it. Without the last two an
exit watcher or a failing start could clear the entry of another driver.
`PinnedCorrect` adds `PinInv`: an entry's session is registered under the key of
the entry unless the web may stop it, and a caller whose start failed has taken
the entry out before it closes the session. It holds for every `WebStops`.

`DeliveredOnceAlways` and `AcceptedAlways` are from `DeliveryInv`. One subprocess runs
on a terminal session and it is that of the entry (`OneRunner`, `EntryRuns`), so
that a broadcast has one receiver; a prompt that was queued or received is of an
inject that was told it completed and is with one driver (`Broadcast`); and a
completed inject's prompt is with the subprocess or in the queue of its driver's
running pump, unless the driver was cancelled or is gone, its pump is off or had no
room, the web stops the session, or a recovery call had its hands on the driver
(`Accepted`). The last two need `OneInject`: no two injects are at work, hence none
uses a driver another one is starting. The case of the full channel showed in the proof
only: with `InputBuffer = 2` and two prompts TLC cannot meet it, therefore `full`
and the bound 1.

**ControlHubProofs.** `TypeCorrect`. `EveryEntryIsTimed` and `HubImplementsLife`
rest on one lemma (`NextLedger`): whatever action is taken, the hub's tables
change in one of four ways, that is not at all, some of the entries are
concluded, or one request that is neither entered nor ended is refused or
entered. With `EntryIsTimed` (an entry was told nothing, so concluding it is its
first end; a timer that fires belongs to an entry) each maps to a step of
`RequestLife` or a stutter. `DeviceStaysCurrent` joins `RegistryStaysCurrent`,
which needs `Undialed`, that the hub knows nothing of connections not yet dialed,
and `PresenceStaysCurrent`. The latter and `SlotIsExclusive` are inductive with
the types.

**TerminalStreamProofs.** `Recorded` (what was added is pending or in the ring until a
truncation) gives `GapIsMarkedAlways`. Text in the hands of a goroutine is neither
pending nor with another one (`HeldOnce`), hence emitted once (`LiveOnce`); text that
was replayed lies in batches that count as delivered, or will when the reader has
marked its snapshot, which no later snapshot sends again (`ReplayedOnce`); these give
`ForwardedOnceAlways`. `FlushedBeforeOtherAlways` is inductive with them. For
`WatcherIsForwardedAlways` the invariant looks ahead (`WatchersWillCount`): the count that
the daemon reaches when it has read every message on its way, and the unsubscribes
of HTTP clients together, are not below the number of watchers. The count clamps at zero, so that it is no sum, but a
chain of intermediate counts along the queue.

**CodexDriverProofs.** The invariant `CodexInv` has eight parts, each inductive with
those before it. `Base` (types, prompts are taken in order, which app-servers were
made) and `Turns` (what the closers hold; nobody has ended or watches a turn that was
not set up, the current one has not ended, and none ended twice) support the others. `Reachable`: a running app-server is the driver's,
the pump's that installs it, or a closer's; gives `NoOrphanAppAlways`. `Owed`:
each prompt the pump took has somebody who will send its `prompt_ready`; gives
`EndsAsOwedAlways`. `Waits`: only the app-server the pump waits for has a pending call
or an answer, the call is the pump's, and a server that said "ok", or has said it in a
line not read yet, has done it. `Threads`: a thread id stands for a thread its
app-server has loaded, unless the pump is past its check and the app was taken
away, which is where `TurnAsk` meets nil; with `Waits` it gives
`TurnNeedsThreadAlways`. `ToldInOrder`: a turn belongs to one app-server, whose unread
lines of it are in the order it told them and before what it may still tell, so that a
streamed delta meets an untouched item; with `ItemsKeptRows` it gives
`LinesAreAppliedAlways`.

**WrapperBridgeProofs.** Events move between the backlog and the frames of stacks of any
depth, so the proof is about sequences first: where an event is in a concatenation
(`SeqCat`, `StackCat`), and that a call, however it ends, only moves what its goroutine
and the backlog hold, drops the head of a full queue, or gives away the event that was
sent (`Moves`, `Goes`). `BridgeInv` is the types and which frames are where: only
the lowest frame of a stack is not an emit, and a stream is of the input loop. On
it rest two invariants. `InputInv`: the one subscription that is open is the one
the input loop's frame names, and only it holds prompts; it gives
`QueuedIsReadAlways`. `EventInv` counts for each event: it has at most one place; a
held one is in the sink at most as often as the daemon crashed and any other at
most once more; one without a place was dropped or is in the sink. The difference
between held and not held is what makes `RepeatsNeedCrash` inductive: an event
that was answered is not held, so nobody can send it again. It gives
`RepeatsNeedCrashAlways` and `EventHeldOnceAlways`.

**NexusSyncProofs.** What Nexus does to its store is proved first: a request leaves
what is stored of a session in place unless it drops the session (`Effect`), and what
pruning takes away gave way to newer turns that are kept (`PruningKeeps`; of the turns
that are newer, look at the newest that was not kept). `TailInv`: all that can
make the loop skip an upload or send less than the window tells of turns that Nexus
stores, for a session not excused: the windows it remembers as synced, the hints, the
run's copy of the hints, the windows Nexus reported in this run, and what a trimmed
request on its way leaves out. It gives `SyncedTailIsStoredAlways`. The attempt showed
that the property was false beyond the bounds of the run, for two reasons that are now
excused and described in section 6 (gaps left by trimming, stale hints).
`CatalogIsCurrentAlways` is from `Listing`, the same without regard to what the loop
does; `HintIsNoticedAlways` from `Woken`; `DeletedWasGoneAlways`, an action property,
from the types, which say that a catalog on its way lists only what its index listed,
all of it when it is complete, and none of its tombstones.

**NexusSyncProofs, SessionIndex.** `IndexInv`: `Counted` (the size of a count and the one taken
before a file is read are at most the file's, which only grows), `Settled` (what
is expected of a scan is in its listing) and `Signalled` (a run of the sync loop
that has read leaves the next token, or a block stream has it; nothing is signalled
before the first scan).
They give `CountCoversLinesAlways`, by a lemma on reading from an offset that ends a
line (`CountsCover`), `CatalogWasScannedAlways` and `ChangeIsSignalledAlways`. The proof
showed that `CountCoversLines` is false of a transcript that is removed and
written anew, which takes four changes on disk; the run allows one.

**AgentSettingsProofs.** `ModeIsCurrent` speaks of quiet terminals only; to be
inductive it must say what will be shown once they are. `Inv` has four supports:
`TermInv` (a TUI not registered yet is in the default mode, and no wrapper opens a headless
session), `ReqInv` (what is known of a request at each of its steps: its key, the part
of the settings it carries, that it was validated), `LockInv` (a request that types
holds the lock of its key, and who is named by a lock types) and `SwitchInv` (a
count above the one taken before the switch means that the session reported the target).
On them rests `FollowInv`, about terminals that are to come or live and not muddled.
`PressInv`: the TUI's mode advanced by the back-tabs on their way and the presses still
to be made is the mode the request asks for, which is arithmetic modulo the cycle of
three. `ModeInv`: with nobody pressing, the TUI's mode advanced by the back-tabs on their
way is the stored mode. `TypingInv`: a request presses keys into the terminal whose
settings it locked, so that at most one presses (`OnePresser`). A step changes one terminal, mostly by appending to or taking from
its inbox, therefore each action has a lemma on the types and locks (`...Core`) and
one on a single terminal (`...Follow`), and all others are framed (`FrameAt`,
`MuddledAt`). It gives `ModeIsCurrentAlways`; the types alone give `OfferedIsAcceptedAlways`;
`RecordedModelWasConfirmedAlways`, an action property, is from `SwitchInv`. The proof showed
what the model left to its instance and `SettingsAssumption` now states: sentinels are not
names of models, Claude has an official model, a TUI registers with models and modes
that exist, a request of the local API names a terminal (its URL does), and one for a draft
names a session. TLC found all of `Inv` to hold on the instance of the run `settings`
before it was proved.

**Only model-checked:** liveness under fairness (`DecisionResolves`, `PendingIsForwarded`,
`Recovers`, `EveryCardCloses`) and `ENABLED`, which are beyond the prover. That a theorem is not
empty, because its hypotheses are met by states the program reaches, is likewise shown by
TLC: each property fails when its mutant takes the place of a definition.

## 6. Not modelled, and observations

Left out because they are data, files or user interface: the text formats of
transcripts and of stream-json, the reading of settings files, pairing and key
files, the CLI, installation and update, telemetry, most routes and SQL of
Nexus, the web app. Left for later: section 2. Inside the modelled components:
`StopAll` at shutdown, the loading of pending recoveries, back-off delays, Codex
exec calls, what the answering handlers compute, notification fan-out, GetDiff,
Reveal and the settings snapshot of a Codex session, the SDK driver's parsing,
and a restart of Nexus itself, which empties the tables of the hub.

Met while modelling. The models contain these behaviours; no property forbids
them, or a property leaves them out and says so:

* *Codex without an app.* `closeCodexApp` may clear the client after
  `ensureCodexThread` has returned (`codex_app.go:195`): `runCodexTurn` then calls
  `TurnStart` on nil and the daemon panics (`TurnAsk`, `pump.pc = "crashed"`).
* *Codex ids.* Request ids are unique within one app-server but key a broker
  shared by all drivers, and `ErrAlreadyExists` is ignored (`codex_app.go:611`): a
  decision on one card can answer another request.
* *Codex processes.* `thread/resume` has no deadline (`codex_app.go:160`), and an
  app-server that exits by itself stays in `d.codex` (`client.go:668`).
* *Turns cut short.* One `turnInFlight` stands for a queue of prompts
  (`driver.go:627`): the reaper takes a driver in the middle of the second turn,
  against `driver.go:821`.
* *Stopped sessions.* `TERMINAL_STOP` (`control.go:2207`) closes a session and
  leaves the manager's entry: every later inject fails.
* *Prompts lost at a start.* An inject that finds the driver a recovery call is
  starting (`manager.go:483`) broadcasts before the pump has subscribed and is
  reported as completed. So is the ninth prompt of a full channel
  (`external.go:199`).
* *Abandoned approvals.* An await that ends by context keeps its entry
  (`permission/store.go:107`) and a later decision is reported as accepted.
* *Reaped sessions.* The reaper says it closes the external session, but `Stop`
  only cancels (`manager.go:330`, `driver.go:375`).
* *Forks.* When an agent forks to a new session id the entry keeps the old one,
  so that an inject on the new id starts a second driver.
* *Subscriptions.* After two subscriptions of browser sockets and the single
  unsubscribe the daemon forwards to nobody (`nexus/src/control.js:490`); a
  subscription is dropped while the daemon is offline (786). An unsubscribe over
  HTTP (764) takes away a subscription that may be a stream's, whose text then
  stops: the web's own polling client pairs its two posts (`web/src/api.ts:1599`,
  1627), but even a paired one does harm when a socket's unsubscribe had already
  taken the poller's share.
* *Replay.* Codex text has no sequence numbers, so each new subscriber is sent the
  whole ring again (`terminal_batcher.go:211`); a batch sent between a subscription
  and its snapshot hides older ring entries (`control.go:930`); batches of two
  goroutines can be sent out of order (`terminal_batcher.go:328`).
* *Stale close.* The close event of a replaced connection fails the streams of its
  successor (`nexus/src/control.js:203`).
* *Cancel.* The id of a cancel is sent as `cancel_inject.request_id`
  (`nexus/src/control.js:557`) and read as `request_id` (`control.go:913`): the
  inject goes on.
* *Dead links on Nexus.* A comment speaks of a read deadline of 60 s and of pings
  on Nexus's side (`control.go:673-675`); nothing under `nexus/src` has them.
* *Injects.* The daemon forgets one after 10 minutes, the hub waits 35; a terminal
  event ends whichever inject of the session the map yields (`control.go:1985`);
  its end is sent before the slot is freed (1175).
* *Shared ids.* Permission decisions are pending calls under the permission's id,
  which two browsers may use at once (`nexus/src/control.js:901`).
* *Wrapper queue.* `drainPending` puts back without looking at the cap
  (`pockly-claude-wrapper/main.go:1609`).
* *Cut-off turns.* Only `turn/completed` flushes streamed text. The watchdog, the reaper
  and a failed `turn/start` (`codex_app.go:216-233`, 255-263, 278-286) emit an error
  and `prompt_ready` without a flush, so that a reply streamed by a turn they end has
  no row, against the comments at 39 and 372, until a later turn of the driver
  completes.
* *Change tokens.* `Changes()` is one channel of one token with two readers, the sync
  loop (`pockly-daemon/main.go:2426`) and every block stream of the local API
  (`api/server.go:443`): while a session is watched locally, the stream may take the
  token of a change, and the loop learns of it at its ticker (15 s by default).
* *Turn counts.* Lines appended while a transcript is counted are counted twice
  (`index.go:398`). A project that cannot be read for a moment is missing from a
  scan that counts as good (`claude/reader.go:93`), and Nexus deletes its sessions.
* *Rewritten turns.* `trimKnownUploadedTurns` (`pockly-daemon/main.go:3008`) sends
  only turns after the last one Nexus has, and the whole window counts as synced: a
  Codex tool call whose output arrived in between stays without it, against the
  comment at 2962. `SyncedTailIsStored` is about turns, not their versions.
* *Gaps left by trimming.* `trimKnownUploadedTurns` looks only at the end of Nexus's
  window. When that window also begins after the daemon's (20 turns were uploaded,
  then a hint widens the limit to 100), the older turns are trimmed too and count
  as synced, against the comment at 3001, until a run finds nothing new to send
  and posts the whole window.
* *Stale hints.* A hint keeps its hash for a day while Nexus may drop the session: a
  window that matches it is then skipped and counts as synced (`main.go:2949`).
* *Two reads for one catalog.* The daemon reads the projects and the deleted sessions
  under two acquisitions of the index's lock (`relay/sync.go:129`, 131): a scan may
  publish in between, and the catalog then names a session in neither or both.
  `CatalogReq` takes one snapshot.
* *Late catalogs.* A catalog POST processed after a newer one deletes a session;
  its turns come back only when it changes or the daemon restarts. One that fails
  after it was processed leaves the old signature (`main.go:2354`).
* *Uploads.* A sync request, or a hint beyond the cap of the catalog, uploads a
  session that a catalog has removed or will not remove (`control.go:2325`,
  `main.go:2785`). A hint whose hash no longer matches is uploaded every minute
  for a day (2975).
* *Modes.* `extractMessageEvents` (`pockly-claude-wrapper/jsonl_watch.go:174`) lets no
  permission-mode row pass and no `Emit` has the kind "meta", so `Store.Observe`
  never hears a mode, against the comments at `agentsettings/store.go:112` and
  `pockly-daemon/main.go:940`. `RecordInitial` (`control.go:1455`) writes under the id of
  the daemon's own PTY session, which `resolve` never looks up, and runs only
  without an SDK driver, which `main.go:1181` always sets. A wrapper's settings thus
  start empty, at every registration, and only changes made through the daemon
  move them.
* *Settings.* A target counted from a mode that is not in the cycle would be
  recorded unpressed (`agentsettings/store.go:451`); `Set` looks the session up
  twice and may type to an SDK driver (`main.go:4538`); two switches are recorded
  in another order than they were confirmed (4543); a Set answers with the model
  that ran before it, which is then no longer accepted (4570).
* *Prompts.* An old frame in the screen buffer supplies the keys of another layout
  (`pockly-claude-wrapper/main.go:1972`); the screen and the transcript name one
  prompt by two signatures, hence two cards (1840). `parseTUIYesNoOptions` (1972)
  scans every numbered line, those of a question's options too; `FirstKey` in the
  model passes over frames of questions, and no passing property depends on it.
  `EveryCardCloses` assumes that the wrapper lives and that the event that closes a
  card arrives. A line beyond the scanner's
  buffer keeps the offset, and its rows are observed at every tick
  (`jsonl_watch.go:119`).
