----------------------------- MODULE ControlHub -----------------------------
(***************************************************************************)
(* The control connection between one daemon and Nexus, and the requests   *)
(* that travel over it. On Nexus: InMemoryControlHub, with its registry of *)
(* daemons, its pending calls, SSE streams and browser command streams and *)
(* their timers. On the daemon: control.Run, which dials again whenever    *)
(* runOnce returns, the handlers it starts, the slot they share            *)
(* (runner.active) and the injects whose end the agent's terminal events   *)
(* announce (runner.activeInjects).                                        *)
(*                                                                         *)
(* A handler of the hub runs to its end before the next one, a handler of  *)
(* the daemon is a goroutine of several steps and answers on the           *)
(* connection that brought its request, if that is still there. Events     *)
(* that do not end a request (started, progress) are left out. The injects *)
(* of the model all go to one agent session.                               *)
(***************************************************************************)
EXTENDS Naturals, Sequences, FiniteSets

CONSTANTS
    Calls,      \* requests answered by one envelope (requestResponse)
    Injects,    \* INJECT_REQUESTs
    Syncs,      \* SYNC_SESSION_REQUESTs
    Sockets,    \* the injects and syncs a browser socket asked for; the
                \* others are SSE streams
    NoRequest,  \* the request id of an envelope that has none
    MaxConns,   \* bound: connections the daemon dials
    MaxAsked    \* bound: requests that clients make

Streams == Injects \cup Syncs
Requests == Calls \cup Streams
Conns == 1..MaxConns
None == 0

ASSUME HubAssumption ==
    /\ Calls \cap Streams = {} /\ Injects \cap Syncs = {}
    /\ Sockets \subseteq Streams
    /\ NoRequest \notin Requests
    /\ MaxConns \in Nat /\ MaxAsked \in Nat

VARIABLES
    online,     \* hub.daemons: the connection registered for the device
    announced,  \* what the last HOST_STATUS said: control_connected
    stage,      \* connection -> what the hub knows of its socket
    entries,    \* hub.pending, hub.streams and hub.browserCommandStreams
    timers,     \* requests whose timer is running
    told,       \* request -> how it ended, as its client was told
    sentOn,     \* history: entry -> the connection it was sent on
    dialed,     \* connections dialed so far
    end,        \* connection -> the daemon's end of it
    linked,     \* connections over which frames still pass
    down, up,   \* connection -> frames on their way to the daemon, to the hub
    work,       \* request -> how far its goroutine on the daemon is
    via,        \* request -> the connection its goroutine answers on
    mirrors     \* runner.activeInjects

hub == <<online, announced, stage>>
ledger == <<entries, timers, told, sentOn>>
link == <<dialed, end, linked>>
daemon == <<work, via, mirrors>>
vars == <<hub, ledger, link, down, up, daemon>>

Ends == {"done", "failed", "offline", "lost", "timeout", "left"}

Init ==
    /\ online = None /\ announced = FALSE
    /\ stage = [c \in Conns |-> "none"]
    /\ entries = {} /\ timers = {}
    /\ told = [r \in Requests |-> "none"]
    /\ sentOn = [r \in Requests |-> None]
    /\ dialed = 0
    /\ end = [c \in Conns |-> "none"]
    /\ linked = {}
    /\ down = [c \in Conns |-> <<>>] /\ up = [c \in Conns |-> <<>>]
    /\ work = [r \in Requests |-> "idle"]
    /\ via = [r \in Requests |-> None]
    /\ mirrors = {}

-----------------------------------------------------------------------------
(* The daemon's connection loop *)

\* Registrations the hub may still make for a dial that was given up; each can
\* take the place of a good connection and cost another dial.
Late == {c \in Conns : stage[c] = "asked" /\ end[c] = "gone"}

\* Faults stop while the daemon has the dials it may need to recover from them.
MayFail(cost) == dialed + Cardinality(Late) + cost <= MaxConns

\* Run starts the next runOnce when the last one has returned.
Dial ==
    /\ dialed < MaxConns
    /\ \A c \in Conns : end[c] \in {"none", "gone"}
    /\ dialed' = dialed + 1
    /\ end' = [end EXCEPT ![dialed + 1] = "dialing"]
    /\ stage' = [stage EXCEPT ![dialed + 1] = "asked"]
    /\ UNCHANGED <<online, announced, ledger, linked, down, up, daemon>>

\* The handshake times out on the daemon; Nexus may still complete it.
GiveUp(c) ==
    /\ MayFail(2)
    /\ end[c] = "dialing"
    /\ end' = [end EXCEPT ![c] = "gone"]
    /\ UNCHANGED <<hub, ledger, dialed, linked, down, up, daemon>>

\* The network drops the connection without telling either end, with what was
\* on its way.
LinkDies(c) ==
    /\ MayFail(1)
    /\ end[c] = "open" /\ c \in linked
    /\ linked' = linked \ {c}
    /\ down' = [down EXCEPT ![c] = <<>>]
    /\ up' = [up EXCEPT ![c] = <<>>]
    /\ UNCHANGED <<hub, ledger, dialed, end, daemon>>

\* A read or a ping fails, or nothing was read for controlReadWait: runOnce
\* returns.
ReadFails(c) ==
    /\ end[c] = "open" /\ c \notin linked
    /\ end' = [end EXCEPT ![c] = "gone"]
    /\ UNCHANGED <<hub, ledger, dialed, linked, down, up, daemon>>

\* The daemon's process ends and is started again: its goroutines and tables
\* are gone, its socket is closed.
Restart ==
    /\ MayFail(1)
    /\ \E c \in Conns : end[c] = "open"
    /\ end' = [c \in Conns |-> IF end[c] = "open" THEN "gone" ELSE end[c]]
    /\ linked' = linked \ {c \in Conns : end[c] = "open"}
    /\ down' = [c \in Conns |-> IF end[c] = "open" THEN <<>> ELSE down[c]]
    /\ work' = [r \in Requests |-> IF work[r] = "idle" THEN "idle" ELSE "over"]
    /\ via' = [r \in Requests |-> None]
    /\ mirrors' = {}
    /\ UNCHANGED <<hub, ledger, dialed, up>>

-----------------------------------------------------------------------------
(* The hub's registry *)

Frame(type, id) == [type |-> type, id |-> id]

\* The connection that is replaced is closed before the new one is set; its
\* close frame follows what was sent on it before.
RegisterDaemonConnection(c) ==
    /\ stage[c] = "asked"
    /\ online' = c /\ announced' = TRUE
    /\ stage' = [d \in Conns |-> IF d = c THEN "registered"
                                 ELSE IF d = online THEN "closing" ELSE stage[d]]
    /\ down' = [d \in Conns |-> IF d = online /\ d \in linked
                                THEN Append(down[d], Frame("close", NoRequest))
                                ELSE down[d]]
    /\ end' = [end EXCEPT ![c] = IF @ = "dialing" THEN "open" ELSE @]
    /\ linked' = IF end[c] = "dialing" THEN linked \cup {c} ELSE linked
    /\ UNCHANGED <<ledger, dialed, up, daemon>>

\* Mutant: the timer is not cleared.
ConcludeTimed(S, how) ==
    /\ entries' = entries \ S
    /\ told' = [r \in Requests |-> IF r \in S THEN how ELSE told[r]]
    /\ sentOn' = [r \in Requests |-> IF r \in S THEN None ELSE sentOn[r]]
    /\ UNCHANGED timers

\* The requests S end as how says: entries removed, timers cleared.
Conclude(S, how) ==
    /\ entries' = entries \ S
    /\ timers' = timers \ S
    /\ told' = [r \in Requests |-> IF r \in S THEN how ELSE told[r]]
    /\ sentOn' = [r \in Requests |-> IF r \in S THEN None ELSE sentOn[r]]

\* A socket closes after what was received on it has been handled: the other
\* end is gone, or the closing handshake is over or has timed out.
SocketCloses(c) ==
    /\ stage[c] \in {"registered", "closing"}
    /\ stage[c] = "closing" \/ end[c] = "gone" \/ c \notin linked
    /\ up[c] = <<>>
    /\ stage' = [stage EXCEPT ![c] = "closed"]

\* Mutant: whichever connection closes, the device is dropped.
DropAny(c) == online' = None /\ announced' = FALSE

\* hub.daemons.delete, for the connection that is still the registered one
DropConnection(c) ==
    /\ online' = IF online = c THEN None ELSE online
    /\ announced' = IF online = c THEN FALSE ELSE announced

OnDaemonConnectionClosed(c) ==
    /\ SocketCloses(c)
    /\ DropConnection(c)
    /\ Conclude(entries \cap Streams, "lost")
    /\ down' = [down EXCEPT ![c] = <<>>]
    /\ linked' = linked \ {c}
    /\ UNCHANGED <<dialed, end, up, daemon>>

-----------------------------------------------------------------------------
(* The hub's requests *)

Send(c, frame) ==
    down' = [down EXCEPT ![c] = IF c \in linked THEN Append(@, frame) ELSE @]

\* Mutant: no timer is started.
EnterUntimed(r) ==
    /\ entries' = entries \cup {r}
    /\ sentOn' = [sentOn EXCEPT ![r] = online]
    /\ UNCHANGED timers

\* The entry of hub.pending, hub.streams or hub.browserCommandStreams
Enter(r) ==
    /\ entries' = entries \cup {r}
    /\ timers' = timers \cup {r}
    /\ sentOn' = [sentOn EXCEPT ![r] = online]

\* Bound: which requests are made is open, but not more than MaxAsked.
MayAsk == Cardinality({r \in Requests : told[r] # "none" \/ r \in entries}) < MaxAsked

\* requestResponse, streamRequest and startBrowserCommandStream: refused while
\* the daemon is offline, else entered with a timer and sent.
Ask(r) ==
    /\ told[r] = "none" /\ r \notin entries /\ MayAsk
    /\ \/ /\ online = None
          /\ told' = [told EXCEPT ![r] = "offline"]
          /\ UNCHANGED <<entries, timers, sentOn, down>>
       \/ /\ online # None
          /\ Enter(r)
          /\ Send(online, Frame("request", r))
          /\ UNCHANGED told
    /\ UNCHANGED <<hub, link, up, daemon>>

\* sendEnvelope throws on a socket that is no longer open: the entry is taken
\* back and the client told so.
AskFails(r) ==
    /\ told[r] = "none" /\ r \notin entries /\ MayAsk
    /\ online # None /\ online \notin linked
    /\ told' = [told EXCEPT ![r] = "failed"]
    /\ UNCHANGED <<hub, entries, timers, sentOn, link, down, up, daemon>>

\* cancelInject knows SSE streams only. It puts the id under cancel_inject,
\* where the daemon's envelope has no field: what arrives has no request id.
\* Bound: one cancel is on its way at a time.
CancelInject(r) ==
    /\ r \in entries \cap Injects /\ r \notin Sockets
    /\ online # None
    /\ \A i \in 1..Len(down[online]) : down[online][i].type # "cancel"
    /\ Send(online, Frame("cancel", NoRequest))
    /\ UNCHANGED <<hub, ledger, link, up, daemon>>

TimeOut(r) ==
    /\ r \in timers
    /\ Conclude({r}, "timeout")
    /\ UNCHANGED <<hub, link, down, up, daemon>>

\* The browser cancels its SSE stream or its socket closes; a call that nobody
\* waits for any more stays pending.
Leave(r) ==
    /\ r \in entries \cap Streams
    /\ Conclude({r}, "left")
    /\ UNCHANGED <<hub, link, down, up, daemon>>

\* Mutant: an answer is handed on though nobody waits for it.
ReceiveLate(c) ==
    /\ stage[c] \in {"registered", "closing"} /\ up[c] # <<>>
    /\ up' = [up EXCEPT ![c] = Tail(@)]
    /\ Conclude({Head(up[c]).id}, Head(up[c]).type)
    /\ UNCHANGED <<hub, link, down, daemon>>

\* An answer ends the request it names, on whatever connection it comes.
ReceiveDaemonEnvelope(c) ==
    /\ stage[c] \in {"registered", "closing"}
    /\ up[c] # <<>>
    /\ up' = [up EXCEPT ![c] = Tail(@)]
    /\ Conclude({Head(up[c]).id} \cap entries, Head(up[c]).type)
    /\ UNCHANGED <<hub, link, down, daemon>>

-----------------------------------------------------------------------------
(* The daemon's handlers *)

Active == {r \in Streams : work[r] \in {"active", "leaving"}}

\* The write of a goroutine whose connection is gone fails and is ignored.
Reply(r, c, how) ==
    up' = [up EXCEPT ![c] = IF end[c] = "open" /\ c \in linked
                            THEN Append(@, Frame(how, r)) ELSE @]

\* The read loop: a request gets a goroutine, a close frame ends runOnce, a
\* cancel is looked up in runner.active.
Receive(c) ==
    /\ end[c] = "open" /\ down[c] # <<>>
    /\ LET frame == Head(down[c]) IN
       /\ down' = [down EXCEPT ![c] = IF frame.type = "close" THEN <<>> ELSE Tail(@)]
       /\ end' = [end EXCEPT ![c] = IF frame.type = "close" THEN "gone" ELSE @]
       /\ linked' = IF frame.type = "close" THEN linked \ {c} ELSE linked
       /\ work' = [r \in Requests |-> IF frame = Frame("request", r) THEN "spawned"
                                      ELSE work[r]]
       /\ via' = [r \in Requests |-> IF frame = Frame("request", r) THEN c ELSE via[r]]
    /\ UNCHANGED <<hub, ledger, dialed, up, mirrors>>

\* The goroutine ends.
Exit(r) ==
    /\ work' = [work EXCEPT ![r] = "over"]
    /\ via' = [via EXCEPT ![r] = None]

\* A handler that only answers
Answer(r) ==
    /\ r \in Calls /\ work[r] = "spawned"
    /\ Exit(r)
    /\ Reply(r, via[r], "done")
    /\ UNCHANGED <<hub, ledger, link, down, mirrors>>

\* Mutant: a slot for every connection
BusyHere(r) == \E q \in Active : via[q] = via[r]

\* len(r.active) > 0: daemon_busy, whichever connection the other came over
Busy(r) == Active # {}

\* Mutant: a sync is entered among the injects.
BeginAll(r) ==
    /\ r \in Streams /\ work[r] = "spawned" /\ ~Busy(r)
    /\ work' = [work EXCEPT ![r] = "active"]
    /\ mirrors' = mirrors \cup {r}
    /\ UNCHANGED <<hub, ledger, link, down, up, via>>

\* runner.handle and handleSyncSession up to the lock's release
Begin(r) ==
    /\ r \in Streams /\ work[r] = "spawned"
    /\ \/ /\ Busy(r)
          /\ Exit(r)
          /\ Reply(r, via[r], "failed")
          /\ UNCHANGED mirrors
       \/ /\ ~Busy(r)
          /\ work' = [work EXCEPT ![r] = "active"]
          /\ mirrors' = mirrors \cup ({r} \cap Injects)
          /\ UNCHANGED <<up, via>>
    /\ UNCHANGED <<hub, ledger, link, down>>

\* routeInject fails, or the prompt is with the agent, whose terminal events
\* will end the request.
InjectRouted(r) ==
    /\ r \in Injects /\ work[r] = "active"
    /\ work' = [work EXCEPT ![r] = "leaving"]
    /\ \/ /\ mirrors' = mirrors \ {r}
          /\ Reply(r, via[r], "failed")
       \/ UNCHANGED <<mirrors, up>>
    /\ UNCHANGED <<hub, ledger, link, down, via>>

\* The window was sent or uploaded, or could not be.
SyncFinished(r) ==
    /\ r \in Syncs /\ work[r] = "active"
    /\ work' = [work EXCEPT ![r] = "leaving"]
    /\ \E how \in {"done", "failed"} : Reply(r, via[r], how)
    /\ UNCHANGED <<hub, ledger, link, down, via, mirrors>>

\* the deferred delete from runner.active
Release(r) ==
    /\ work[r] = "leaving"
    /\ Exit(r)
    /\ UNCHANGED <<hub, ledger, link, down, up, mirrors>>

\* The session's terminal reports the end of a turn or an error, and the feeder
\* of the current connection ends one of the session's injects with it,
\* whichever the map yields first.
MirrorTerminalEventToInject(c) ==
    /\ end[c] = "open"
    /\ \E r \in mirrors, how \in {"done", "failed"} :
           /\ mirrors' = mirrors \ {r}
           /\ Reply(r, c, how)
    /\ UNCHANGED <<hub, ledger, link, down, work, via>>

\* pruneExpiredActiveInjectsLocked, after activeInjectMirrorTTL
Expire(r) ==
    /\ r \in mirrors
    /\ mirrors' = mirrors \ {r}
    /\ UNCHANGED <<hub, ledger, link, down, up, work, via>>

-----------------------------------------------------------------------------
Connection(c) ==
    \/ GiveUp(c) \/ LinkDies(c) \/ ReadFails(c)
    \/ RegisterDaemonConnection(c) \/ OnDaemonConnectionClosed(c)
    \/ ReceiveDaemonEnvelope(c) \/ Receive(c) \/ MirrorTerminalEventToInject(c)

Request(r) ==
    \/ Ask(r) \/ AskFails(r) \/ CancelInject(r) \/ TimeOut(r) \/ Leave(r)
    \/ Answer(r) \/ Begin(r) \/ InjectRouted(r) \/ SyncFinished(r)
    \/ Release(r) \/ Expire(r)

Next ==
    \/ Dial \/ Restart
    \/ \E c \in Conns : Connection(c)
    \/ \E r \in Requests : Request(r)

Fairness ==
    /\ WF_vars(Dial)
    /\ \A c \in Conns :
           /\ WF_vars(ReadFails(c)) /\ WF_vars(Receive(c))
           /\ WF_vars(RegisterDaemonConnection(c))
    /\ \A r \in Requests : WF_vars(TimeOut(r))

Spec == Init /\ [][Next]_vars /\ Fairness
-----------------------------------------------------------------------------
(* Properties *)

Frames(types) == [type : types, id : Requests \cup {NoRequest}]

\* The types of the variables
TypeOK ==
    /\ online \in Conns \cup {None} /\ announced \in BOOLEAN
    /\ stage \in [Conns -> {"none", "asked", "registered", "closing", "closed"}]
    /\ entries \subseteq Requests /\ timers \subseteq Requests
    /\ told \in [Requests -> Ends \cup {"none"}]
    /\ sentOn \in [Requests -> Conns \cup {None}]
    /\ dialed \in 0..MaxConns
    /\ end \in [Conns -> {"none", "dialing", "open", "gone"}]
    /\ linked \subseteq Conns
    /\ down \in [Conns -> Seq(Frames({"request", "cancel", "close"}))]
    /\ up \in [Conns -> Seq(Frames({"done", "failed"}))]
    /\ work \in [Requests -> {"idle", "spawned", "active", "leaving", "over"}]
    /\ via \in [Requests -> Conns \cup {None}]
    /\ mirrors \subseteq Injects

\* The registry holds the one connection that was neither replaced nor closed:
\* the close event of a socket that was replaced, which may come long after,
\* does not take its successor out (onDaemonConnectionClosed).
RegistryIsCurrent == \A c \in Conns : stage[c] = "registered" <=> online = c

\* What browsers were told last of the device is what the registry says, in
\* whatever order connections are opened, replaced and closed.
PresenceIsCurrent == announced <=> online # None

\* Both: what the hub knows, and tells, of the device follows its connections.
DeviceIsCurrent == RegistryIsCurrent /\ PresenceIsCurrent

\* The daemon works on one inject or sync at a time, also while the handler of
\* one that came over a connection that is gone is still at work.
OneAtATime == \A q, r \in Active : q = r

\* A request the hub still holds has a timer running and its client was told
\* no end; no timer runs for a request that has ended (closeStream,
\* closeBrowserCommandStream, clearPending).
EntryIsTimed == timers = entries /\ \A r \in entries : told[r] = "none"

\* A request as its client sees it
Phase ==
    [r \in Requests |-> IF told[r] # "none" THEN told[r]
                        ELSE IF r \in entries THEN "open" ELSE "new"]

Life == INSTANCE RequestLife WITH Outcomes <- Ends, phase <- Phase

\* The hub implements RequestLife: an accepted request ends once, and nothing
\* that comes later (an answer, a timer, a close event) ends it again.
RequestsLive == Life!Spec

\* Every request the hub accepted ends, whatever becomes of the daemon and of
\* the connection (the timers of requestResponse and the streams).
EveryRequestEnds == \A r \in Requests : r \in entries ~> r \notin entries

\* When the network and the daemon stop failing, the connection the hub has
\* registered is one the daemon has open, also if the hub completed handshakes
\* in another order than the daemon dialed (previous.close, control.Run).
DaemonComesBack ==
    <>[](\E c \in Conns : online = c /\ end[c] = "open" /\ c \in linked)

\* Both: neither a request nor a device is left hanging.
Recovers == EveryRequestEnds /\ DaemonComesBack

=============================================================================
