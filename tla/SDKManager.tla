----------------------------- MODULE SDKManager -----------------------------
(***************************************************************************)
(* The headless Claude drivers of the daemon: sdkdriver.Manager, which     *)
(* keeps one entry per session id, the Driver that owns one subprocess,    *)
(* the ExternalSession through which prompts reach it, the terminal        *)
(* manager's session index, and the callers: the control runner, which     *)
(* handles one inject at a time, and the recovery hook, which calls        *)
(* EnsureDriver from a goroutine of its own.                               *)
(*                                                                         *)
(* Steps taken under one mutex are one action. Between them run the stdin  *)
(* pump, the exit watcher, the idle reaper, the subprocess itself, and the *)
(* web, which may stop a terminal session.                                 *)
(***************************************************************************)
EXTENDS Naturals, Sequences, FiniteSets, Functions

CONSTANTS
    Sids,        \* agent session ids
    Injects,     \* resume_session injects from the web; each is also its prompt
    Recoveries,  \* wrapper-recovery calls of EnsureDriver
    Drivers,     \* Driver objects that may be created, a set of numbers from 1
    Exts,        \* ExternalSession objects that may be created, likewise
    InputBuffer, \* capacity of a pump's input channel (8 in the code)
    WebStops,    \* the ExternalSession objects that the web stops at some time
    NoSid

Callers == Injects \cup Recoveries

ASSUME SDKAssumption ==
    /\ Injects \cap Recoveries = {}
    /\ NoSid \notin Sids
    /\ Drivers \subseteq Nat \ {0} /\ Exts \subseteq Nat \ {0}
    /\ InputBuffer \in Nat \ {0}
    /\ WebStops \subseteq Exts

VARIABLES
    drivers,   \* Manager.drivers: sid -> [driver, ext]; ext = 0 is no entry
    drv,       \* the Driver objects
    ext,       \* the ExternalSession objects
    sidIndex,  \* terminal.Manager.sidIndex: sid -> ext
    victims,   \* drivers the reaper has taken out and not stopped yet
    cl,        \* the callers
    got        \* history: prompt -> the drivers whose running subprocess it was written to

vars == <<drivers, drv, ext, sidIndex, victims, cl, got>>

NoEntry == [driver |-> 0, ext |-> 0]

Unused == [sid |-> NoSid, ext |-> 0, proc |-> "none", cancelled |-> FALSE, done |-> FALSE,
           watched |-> FALSE, pump |-> "none", queue |-> <<>>, work |-> <<>>,
           inFlight |-> FALSE, idle |-> FALSE]

NoExt == [key |-> NoSid, cur |-> NoSid, status |-> "unused"]

\* full is history: the pump's channel had no room for the prompt.
Idle == [pc |-> "idle", sid |-> NoSid, drv |-> 0, ext |-> 0, reuse |-> FALSE, ans |-> "none",
         full |-> FALSE]

PumpStates == {"none", "on", "off"}
Pcs == {"idle", "lookup", "ensure", "start", "subscribe", "failed", "send", "broadcast", "done"}
Answers == {"none", "completed", "busy", "drifted", "start_failed", "send_failed"}

DriverRec == [sid : Sids \cup {NoSid}, ext : Exts \cup {0}, proc : {"none", "running", "exited"},
              cancelled : BOOLEAN, done : BOOLEAN, watched : BOOLEAN, pump : PumpStates,
              queue : Seq(Injects), work : Seq(Injects), inFlight : BOOLEAN, idle : BOOLEAN]

ExtRec == [key : Sids \cup {NoSid}, cur : Sids \cup {NoSid},
           status : {"unused", "live", "closed", "purged"}]

CallerRec == [pc : Pcs, sid : Sids \cup {NoSid}, drv : Drivers \cup {0}, ext : Exts \cup {0},
              reuse : BOOLEAN, ans : Answers, full : BOOLEAN]

\* Types, and that an entry agrees with the driver it holds.
TypeOK ==
    /\ drivers \in [Sids -> [driver : Drivers \cup {0}, ext : Exts \cup {0}]]
    /\ drv \in [Drivers -> DriverRec]
    /\ ext \in [Exts -> ExtRec]
    /\ sidIndex \in [Sids -> Exts \cup {0}]
    /\ victims \subseteq Drivers
    /\ cl \in [Callers -> CallerRec]
    /\ got \in [Injects -> SUBSET Drivers]
    /\ \A s \in Sids : LET d == drivers[s].driver IN
         d # 0 => drv[d].sid = s /\ drv[d].ext = drivers[s].ext /\ drv[d].ext # 0

Init ==
    /\ drivers = [s \in Sids |-> NoEntry]
    /\ drv = [d \in Drivers |-> Unused]
    /\ ext = [e \in Exts |-> NoExt]
    /\ sidIndex = [s \in Sids |-> 0]
    /\ victims = {}
    /\ cl = [c \in Callers |-> Idle]
    /\ got = [p \in Injects |-> {}]

-----------------------------------------------------------------------------
(* ExternalSession and terminal.Manager *)

Live(e) == ext[e].status = "live"

\* Stop: the session_exited event closes the session, if it is not yet.
Close(e) == ext' = [ext EXCEPT ![e].status = IF @ = "live" THEN "closed" ELSE @]

\* BindSessionMetadata and the rebind listener: the index gets the new sid and
\* keeps the previous one as a drifted anchor.
Bind(e, s) ==
    sidIndex' = IF ext[e].cur = s THEN sidIndex
                ELSE [t \in Sids |-> IF t \in {s, ext[e].cur} THEN e ELSE sidIndex[t]]

\* The goroutine of RegisterExternal: once the session is closed its index
\* entries go.
Purge(e) ==
    /\ ext[e].status = "closed"
    /\ ext' = [ext EXCEPT ![e].status = "purged"]
    /\ sidIndex' = [s \in Sids |-> IF sidIndex[s] = e THEN 0 ELSE sidIndex[s]]
    /\ UNCHANGED <<drivers, drv, victims, cl, got>>

\* TERMINAL_STOP, or a stop from the local API, for a registered session.
TerminalStop(e) ==
    /\ e \in WebStops
    /\ Live(e)
    /\ Close(e)
    /\ UNCHANGED <<drivers, drv, sidIndex, victims, cl, got>>

-----------------------------------------------------------------------------
(* The callers *)

Step(c, pc) == cl' = [cl EXCEPT ![c].pc = pc]
Answer(c, a) == cl' = [cl EXCEPT ![c].pc = "done", ![c].ans = a]

\* An inject goes on to send its prompt, a recovery is finished.
Handed(c, d, e, reuse) ==
    cl' = [cl EXCEPT ![c] = [@ EXCEPT !.drv = d, !.ext = e, !.reuse = reuse,
                                      !.pc = IF c \in Injects THEN "send" ELSE "done",
                                      !.ans = IF c \in Injects THEN "none" ELSE "completed"]]

Active(c) == cl[c].pc \notin {"idle", "done"}

\* handle: an inject is refused while another one is active.
InjectBegin(c, s) ==
    /\ cl[c].pc = "idle"
    /\ c \in Injects
    /\ IF \E b \in Injects : Active(b)
       THEN Answer(c, "busy")
       ELSE cl' = [cl EXCEPT ![c].pc = "lookup", ![c].sid = s]
    /\ UNCHANGED <<drivers, drv, ext, sidIndex, victims, got>>

\* The recovery hook calls EnsureDriver directly.
RecoverBegin(c, s) ==
    /\ cl[c].pc = "idle"
    /\ c \in Recoveries
    /\ cl' = [cl EXCEPT ![c].pc = "ensure", ![c].sid = s]
    /\ UNCHANGED <<drivers, drv, ext, sidIndex, victims, got>>

\* routeResume: an inject on a prior sid of a live session is turned back.
Lookup(c) ==
    /\ cl[c].pc = "lookup"
    /\ LET e == sidIndex[cl[c].sid] IN
       IF e # 0 /\ Live(e) /\ ext[e].cur # cl[c].sid
       THEN Answer(c, "drifted")
       ELSE Step(c, "ensure")
    /\ UNCHANGED <<drivers, drv, ext, sidIndex, victims, got>>

\* Mutant: a driver is respawned without asking whether the old one is done.
RespawnAlways(s) == FALSE

\* ensureDriver: whether the entry's subprocess is still running.
Reusable(s) == drivers[s].driver # 0 /\ ~drv[drivers[s].driver].done

\* ensureDriver, existing driver: its session is returned as it is.
EnsureExisting(c) ==
    /\ cl[c].pc = "ensure"
    /\ Reusable(cl[c].sid)
    /\ Handed(c, drivers[cl[c].sid].driver, drivers[cl[c].sid].ext, TRUE)
    /\ UNCHANGED <<drivers, drv, ext, sidIndex, victims, got>>

\* ensureDriver, no cwd or no claude binary.
EnsureRefused(c) ==
    /\ cl[c].pc = "ensure"
    /\ ~Reusable(cl[c].sid)
    /\ Answer(c, "start_failed")
    /\ UNCHANGED <<drivers, drv, ext, sidIndex, victims, got>>

\* The session a fresh driver for s is attached to: the entry's, or a new one.
Attach(s, e) ==
    IF drivers[s].ext # 0
    THEN e = drivers[s].ext /\ UNCHANGED ext
    ELSE /\ ext[e].status = "unused" /\ \A f \in Exts : ext[f].status = "unused" => e <= f
         /\ ext' = [ext EXCEPT ![e] = [@ EXCEPT !.key = s, !.status = "live"]]

\* ensureDriver, spawn: a new Driver and its entry, still under the mutex.
EnsureNew(c) ==
    /\ cl[c].pc = "ensure"
    /\ LET s == cl[c].sid IN
       /\ ~Reusable(s)
       /\ \E d \in Drivers, e \in Exts :
            /\ drv[d] = Unused /\ \A f \in Drivers : drv[f] = Unused => d <= f
            /\ Attach(s, e)
            /\ drv' = [drv EXCEPT ![d] = [@ EXCEPT !.sid = s, !.ext = e]]
            /\ drivers' = [drivers EXCEPT ![s] = [driver |-> d, ext |-> e]]
            /\ cl' = [cl EXCEPT ![c] = [@ EXCEPT !.pc = "start", !.drv = d, !.ext = e,
                                                !.reuse = drivers[s].ext # 0]]
    /\ UNCHANGED <<sidIndex, victims, got>>

\* Start, the subprocess is spawned and the session bound to the sid.
StartSpawn(c) ==
    /\ cl[c].pc = "start"
    /\ LET d == cl[c].drv
           e == cl[c].ext IN
       /\ drv' = [drv EXCEPT ![d].proc = "running"]
       /\ Bind(e, cl[c].sid)
       /\ ext' = [ext EXCEPT ![e].cur = cl[c].sid]
    /\ Step(c, "subscribe")
    /\ UNCHANGED <<drivers, victims, got>>

\* Mutant: Start returns before the pump has subscribed.
StartReadyEarly(c) ==
    /\ cl[c].pc = "subscribe"
    /\ drv' = [drv EXCEPT ![cl[c].drv].watched = TRUE]
    /\ Handed(c, cl[c].drv, cl[c].ext, cl[c].reuse)
    /\ UNCHANGED <<drivers, ext, sidIndex, victims, got>>

\* Start, the ready handshake: pumpStdin has subscribed. On a closed session the
\* subscription is a closed channel and the pump is over at once.
StartReady(c) ==
    /\ cl[c].pc = "subscribe"
    /\ drv' = [drv EXCEPT ![cl[c].drv].pump = IF Live(cl[c].ext) THEN "on" ELSE "off",
                          ![cl[c].drv].watched = TRUE]
    /\ Handed(c, cl[c].drv, cl[c].ext, cl[c].reuse)
    /\ UNCHANGED <<drivers, ext, sidIndex, victims, got>>

\* Mutant: a failed first start leaves the entry behind.
FailedEntryKept(s, d, reuse) ==
    IF drivers[s].driver = d THEN [drivers[s] EXCEPT !.driver = 0] ELSE drivers[s]

\* Mutant: a failed start drops the session of the entry and keeps its driver.
FailedEntryHalf(s, d, reuse) == [drivers[s] EXCEPT !.ext = 0]

\* The entry of s after driver d failed to start: kept without a driver if the
\* session predates d, deleted if it does not.
FailedEntry(s, d, reuse) ==
    IF drivers[s].driver # d THEN drivers[s]
    ELSE IF reuse THEN [drivers[s] EXCEPT !.driver = 0] ELSE NoEntry

\* Start, the spawn fails.
StartFails(c) ==
    /\ cl[c].pc = "start"
    /\ LET s == cl[c].sid IN
       drivers' = [drivers EXCEPT ![s] = FailedEntry(s, cl[c].drv, cl[c].reuse)]
    /\ IF cl[c].reuse THEN Answer(c, "start_failed") ELSE Step(c, "failed")
    /\ UNCHANGED <<drv, ext, sidIndex, victims, got>>

\* ... and, after the mutex is released, the session made for it is closed.
StartFailsClose(c) ==
    /\ cl[c].pc = "failed"
    /\ Close(cl[c].ext)
    /\ Answer(c, "start_failed")
    /\ UNCHANGED <<drivers, drv, sidIndex, victims, got>>

\* SendInput: the liveness check and the user_input event ...
SendCheck(c) ==
    /\ cl[c].pc = "send"
    /\ IF Live(cl[c].ext) THEN Step(c, "broadcast") ELSE Answer(c, "send_failed")
    /\ UNCHANGED <<drivers, drv, ext, sidIndex, victims, got>>

\* ... and the non-blocking broadcast to the pumps subscribed by then. The
\* inject is reported completed whoever was listening.
SendBroadcast(c) ==
    /\ cl[c].pc = "broadcast"
    /\ drv' = [d \in Drivers |->
                 IF /\ Live(cl[c].ext) /\ drv[d].ext = cl[c].ext
                    /\ drv[d].pump = "on" /\ Len(drv[d].queue) < InputBuffer
                 THEN [drv[d] EXCEPT !.queue = Append(@, c)]
                 ELSE drv[d]]
    /\ cl' = [cl EXCEPT ![c] = [@ EXCEPT !.pc = "done", !.ans = "completed",
                                   !.full = Len(drv[cl[c].drv].queue) >= InputBuffer]]
    /\ UNCHANGED <<drivers, ext, sidIndex, victims, got>>

-----------------------------------------------------------------------------
(* The driver's goroutines and its subprocess *)

\* pumpStdin: one prompt is taken and written. A write to a subprocess that is
\* gone ends the pump.
PumpTake(d) ==
    /\ drv[d].pump = "on" /\ drv[d].queue # <<>>
    /\ LET p == Head(drv[d].queue)
           taken == [drv[d] EXCEPT !.queue = Tail(@), !.inFlight = TRUE, !.idle = FALSE] IN
       IF drv[d].proc = "running"
       THEN /\ drv' = [drv EXCEPT ![d] = [taken EXCEPT !.work = Append(@, p)]]
            /\ got' = [got EXCEPT ![p] = @ \cup {d}]
       ELSE /\ drv' = [drv EXCEPT ![d] = [taken EXCEPT !.pump = "off"]]
            /\ UNCHANGED got
    /\ UNCHANGED <<drivers, ext, sidIndex, victims, cl>>

\* pumpStdin ends: its context is cancelled (whatever is still queued), or the
\* session was closed and its channel is drained.
PumpExit(d) ==
    /\ drv[d].pump = "on"
    /\ drv[d].cancelled \/ (~Live(drv[d].ext) /\ drv[d].queue = <<>>)
    /\ drv' = [drv EXCEPT ![d].pump = "off"]
    /\ UNCHANGED <<drivers, ext, sidIndex, victims, cl, got>>

\* handleStreamLine on a result record: the turn is over for the reaper.
TurnEnds(r) == [r EXCEPT !.inFlight = FALSE, !.idle = FALSE]

\* The agent finishes the oldest prompt it was given.
AgentResult(d) ==
    /\ drv[d].proc = "running" /\ drv[d].work # <<>>
    /\ drv' = [drv EXCEPT ![d] = TurnEnds([@ EXCEPT !.work = Tail(drv[d].work)])]
    /\ UNCHANGED <<drivers, ext, sidIndex, victims, cl, got>>

\* claude --resume forks: its init record names another session id. At most
\* once per session here.
AgentFork(d, s) ==
    /\ drv[d].proc = "running"
    /\ LET e == drv[d].ext IN
       /\ ext[e].cur = ext[e].key /\ s # ext[e].cur
       /\ Bind(e, s)
       /\ ext' = [ext EXCEPT ![e].cur = s]
    /\ UNCHANGED <<drivers, drv, victims, cl, got>>

\* The subprocess ends: killed through its context, at end of input, or by itself.
ProcExit(d) ==
    /\ drv[d].proc = "running"
    /\ drv' = [drv EXCEPT ![d].proc = "exited"]
    /\ UNCHANGED <<drivers, ext, sidIndex, victims, cl, got>>

\* wait: cancel the goroutines of the subprocess, emit prompt_ready, and close
\* subprocessDone. The session stays live for the next inject.
Wait(d) ==
    /\ drv[d].proc = "exited" /\ ~drv[d].done
    /\ drv[d].pump # "none"
    /\ drv' = [drv EXCEPT ![d].cancelled = TRUE, ![d].done = TRUE]
    /\ UNCHANGED <<drivers, ext, sidIndex, victims, cl, got>>

\* Mutant: the watcher clears the entry's driver whichever it is.
ForgetAny(s, d) == [drivers[s] EXCEPT !.driver = 0]

\* The entry of s once driver d is done: without a driver if it is still d's.
Forget(s, d) == IF drivers[s].driver = d THEN [drivers[s] EXCEPT !.driver = 0] ELSE drivers[s]

\* The goroutine that watches subprocessDone.
Watch(d) ==
    /\ drv[d].done /\ drv[d].watched
    /\ drivers' = [drivers EXCEPT ![drv[d].sid] = Forget(drv[d].sid, d)]
    /\ drv' = [drv EXCEPT ![d].watched = FALSE]
    /\ UNCHANGED <<ext, sidIndex, victims, cl, got>>

-----------------------------------------------------------------------------
(* The idle reaper *)

\* idleTimeout passes since the last submit or result. Five minutes is longer
\* than a goroutine waits to be scheduled, so no prompt is waiting in the pump
\* and no caller is between EnsureDriver and SendInput.
GoIdle(d) ==
    /\ \A c \in Callers : Active(c) => cl[c].drv # d
    /\ drv[d].proc = "running" /\ drv[d].pump # "none" /\ ~drv[d].idle
    /\ drv[d].queue = <<>>
    /\ drv' = [drv EXCEPT ![d].idle = TRUE]
    /\ UNCHANGED <<drivers, ext, sidIndex, victims, cl, got>>

\* A driver the reaper may take: no turn in flight, and idle for long enough.
Reapable(d) == d # 0 /\ ~drv[d].inFlight /\ drv[d].idle

\* reapIdleDrivers under the mutex: drop the entries ...
ReapScan ==
    /\ victims = {}
    /\ LET V == {s \in Sids : Reapable(drivers[s].driver)} IN
       /\ V # {}
       /\ victims' = {drivers[s].driver : s \in V}
       /\ drivers' = [s \in Sids |-> IF s \in V THEN NoEntry ELSE drivers[s]]
    /\ UNCHANGED <<drv, ext, sidIndex, cl, got>>

\* Driver.Stop: cancel, and nothing else.
Stop(r) == [r EXCEPT !.cancelled = TRUE]

\* ... and stop their drivers after it.
ReapStop(d) ==
    /\ d \in victims
    /\ victims' = victims \ {d}
    /\ drv' = [drv EXCEPT ![d] = Stop(@)]
    /\ UNCHANGED <<drivers, ext, sidIndex, cl, got>>

-----------------------------------------------------------------------------
CallerStep(c) ==
    \/ Lookup(c)
    \/ EnsureExisting(c) \/ EnsureRefused(c) \/ EnsureNew(c)
    \/ StartSpawn(c) \/ StartReady(c) \/ StartFails(c) \/ StartFailsClose(c)
    \/ SendCheck(c) \/ SendBroadcast(c)

DriverStep(d) ==
    \/ PumpTake(d) \/ PumpExit(d) \/ Wait(d) \/ Watch(d) \/ ReapStop(d)

Subprocess(d) == AgentResult(d) \/ ProcExit(d) \/ \E s \in Sids : AgentFork(d, s)

Next ==
    \/ \E c \in Callers : \/ \E s \in Sids : InjectBegin(c, s) \/ RecoverBegin(c, s)
                          \/ CallerStep(c)
    \/ \E d \in Drivers : DriverStep(d) \/ Subprocess(d) \/ GoIdle(d)
    \/ \E e \in Exts : Purge(e) \/ TerminalStop(e)
    \/ ReapScan

Spec == Init /\ [][Next]_vars

-----------------------------------------------------------------------------
(* Properties *)

Running(d) == drv[d].proc = "running"
Queued(p) == \E d \in Drivers : drv[d].pump = "on" /\ p \in Range(drv[d].queue)
Completed(p) == cl[p].ans = "completed"

\* No orphan: a running subprocess is the one its session's entry names, unless
\* it has been cancelled or the reaper is about to (manager.go ensureDriver,
\* the exit watcher and reapIdleDrivers all edit the entry).
SubprocessIsOwned ==
    \A d \in Drivers : Running(d) /\ ~drv[d].cancelled =>
        d \in victims \/ drivers[drv[d].sid].driver = d

\* A session is never pinned to an ExternalSession that the manager closed, from
\* which every later inject would fail (manager.go, failure branch of
\* ensureDriver).  A session that the web stops does stay pinned.
NoClosedSessionPinned ==
    \A s \in Sids : drivers[s].ext \notin WebStops \cup {0} => Live(drivers[s].ext)

\* A prompt is written to at most one subprocess, although SendInput is a
\* broadcast and sessions are reused by one driver after another.
DeliveredOnce == \A p \in Injects : Cardinality(got[p]) <= 1

\* An inject reported completed reaches the subprocess, unless the driver it was
\* handed is cancelled or gone, its input channel had no room, the web stopped
\* its session, or a recovery call, which nothing keeps from starting that driver
\* meanwhile, has its hands on it: Start's handshake loses no first prompt.
AcceptedUnlessDriverGone ==
    \A p \in Injects : Completed(p) =>
        \/ got[p] # {} \/ Queued(p)
        \/ drv[cl[p].drv].cancelled \/ ~Running(cl[p].drv) \/ drv[cl[p].drv].pump = "off"
        \/ cl[p].full \/ cl[p].ext \in WebStops
        \/ \E r \in Recoveries : cl[r].drv = cl[p].drv

=============================================================================
