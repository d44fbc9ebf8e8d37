--------------------------- MODULE TerminalStream ---------------------------
(***************************************************************************)
(* The output of one terminal on its way to the web, over one control      *)
(* connection. On the daemon: terminalEventBatcher, which collects text    *)
(* and keeps a replay ring, with the goroutines that use it (the feeder,   *)
(* one goroutine per flush timer that fired, the connection's reader), and *)
(* runner.terminalSubscribers, which gates the text. On Nexus: the SSE     *)
(* streams and browser sockets that watch the terminal, the HTTP routes    *)
(* that subscribe without watching, and what they all make                 *)
(* InMemoryControlHub send to the daemon.                                  *)
(*                                                                         *)
(* The batcher sends outside its mutex, so a batch spends time in the      *)
(* hands of the goroutine that took it: todo. A batch of text is the set   *)
(* of its events' numbers; the empty set stands for an event that is no    *)
(* text and is never held back.                                            *)
(***************************************************************************)
EXTENDS Naturals, Sequences, FiniteSets, FiniteSetsExt, Functions

CONSTANTS
    Feeder, Reader,  \* the goroutines of runOnce
    Timers,          \* goroutines of flush timers that fired
    Streams,         \* SSE streams (streamTerminalSession)
    Sockets,         \* browser sockets
    MaxText,         \* bound: text events the terminal produces
    MaxMessages,     \* bound: subscription messages Nexus sends
    MaxDismissed,    \* bound: those that HTTP unsubscribes make it send
    BatchMax,        \* terminalBatchMaxBytes, in events
    RingMax,         \* terminalBatchRingMaxBytes, in events
    Numbered,        \* whether events carry a seq (a Codex terminal's do not)
    SocketsFail      \* whether writing to a browser socket may fail

Workers == {Feeder, Reader} \cup Timers
Texts == 1..MaxText

ASSUME StreamAssumption ==
    /\ Feeder # Reader /\ Feeder \notin Timers /\ Reader \notin Timers
    /\ Streams \cap Sockets = {}
    /\ MaxText \in Nat /\ MaxMessages \in Nat /\ MaxDismissed \in Nat
    /\ BatchMax \in Nat \ {0} /\ RingMax \in Nat \ {0}
    /\ Numbered \in BOOLEAN /\ SocketsFail \in BOOLEAN

VARIABLES
    added,      \* text events added so far
    pending,    \* batcher.pending: the batch being collected
    armed,      \* whether its flush timer is running
    ring,       \* batcher.rings
    truncated,  \* batcher.ringTruncated
    delivered,  \* batcher.deliveredSeq
    fired,      \* timers that fired and wait for the mutex
    todo,       \* worker -> the events it has to emit
    stage,      \* worker -> how far the first of them is
    reader,     \* what the reader does with the message it has read
    subs,       \* runner.terminalSubscribers
    watching,   \* Nexus: the streams and sockets that watch
    toDaemon,   \* subscription messages on their way
    messages,   \* how many were sent
    dismissed,  \* history: how many of them an HTTP client's unsubscribe made Nexus send
    live,       \* history: text -> times it was forwarded by emit
    replayed    \* history: text -> times it was replayed to a subscriber

batcher == <<pending, armed, ring, truncated>>
nexus == <<watching, toDaemon, messages, dismissed>>
vars == <<added, batcher, delivered, fired, todo, stage, reader, subs, nexus, live, replayed>>

TypeOK ==
    /\ added \in 0..MaxText
    /\ pending \subseteq Texts /\ (armed => pending # {})
    /\ ring \in Seq((SUBSET Texts) \ {{}})
    /\ armed \in BOOLEAN /\ truncated \in BOOLEAN
    /\ delivered \in 0..MaxText
    /\ fired \subseteq Timers
    /\ todo \in [Workers -> Seq(SUBSET Texts)]
    /\ stage \in [Workers -> {"check", "send", "mark"}]
    /\ reader \in {"idle", "snapshot", "drop"}
    /\ subs \in Nat
    /\ watching \subseteq Streams \cup Sockets
    /\ toDaemon \in Seq({"subscribe", "unsubscribe"})
    /\ messages \in 0..MaxMessages /\ dismissed \in 0..MaxDismissed
    /\ live \in [Texts -> Nat] /\ replayed \in [Texts -> Nat]

Init ==
    /\ added = 0
    /\ pending = {} /\ armed = FALSE /\ ring = <<>> /\ truncated = FALSE
    /\ delivered = 0
    /\ fired = {}
    /\ todo = [w \in Workers |-> <<>>]
    /\ stage = [w \in Workers |-> "check"]
    /\ reader = "idle"
    /\ subs = 0
    /\ watching = {} /\ toDaemon = <<>> /\ messages = 0 /\ dismissed = 0
    /\ live = [n \in Texts |-> 0] /\ replayed = [n \in Texts |-> 0]

-----------------------------------------------------------------------------
(* terminalEventBatcher under its mutex *)

SeqEnd(b) == IF Numbered /\ b # {} THEN Max(b) ELSE 0

Bytes(r) == Cardinality(UNION Range(r))

\* What recordRingLocked may leave of ring r: the oldest entries go while there
\* are too many bytes, and those that are too old go with them. Only an entry
\* that is too big by itself takes the newest along.
Trimmed(r) ==
    LET fits == {k \in 0..Len(r) : Bytes(SubSeq(r, k + 1, Len(r))) <= RingMax} IN
    {SubSeq(r, k + 1, Len(r)) : k \in {j \in fits : j < Len(r) \/ j = Min(fits)}}

\* Mutant: the batch is handed out and not recorded in the ring.
TakeUnrecorded(p) ==
    /\ pending' = {} /\ armed' = FALSE
    /\ UNCHANGED <<ring, truncated>>

\* Mutant: the batch is handed out and stays pending.
TakeAndKeep(p) ==
    /\ pending' = p /\ armed' = FALSE
    /\ \E r \in IF p = {} THEN {ring} ELSE Trimmed(Append(ring, p)) : ring' = r
    /\ UNCHANGED truncated

\* takeLocked on the batch p: its timer is stopped, and it goes into the ring.
TakeLocked(p) ==
    /\ pending' = {} /\ armed' = FALSE
    /\ IF p = {}
       THEN UNCHANGED <<ring, truncated>>
       ELSE LET r == Append(ring, p) IN
            /\ ring' \in Trimmed(r)
            /\ truncated' = (truncated \/ Len(ring') < Len(r))

\* Worker w has to emit the batch p, if there is one, and then the events es.
Hand(w, p, es) ==
    /\ todo' = [todo EXCEPT ![w] = IF p = {} THEN es ELSE <<p>> \o es]
    /\ UNCHANGED stage

\* Mutant: only the first batch gets a timer.
ArmOnce == armed' = (added = 0 \/ armed)

\* A batch is given its timer when it is begun.
Arm == armed' = (pending = {} \/ armed)

\* Add of a text event: it begins or joins a batch, which is taken once full.
AddText ==
    /\ todo[Feeder] = <<>>
    /\ added < MaxText
    /\ added' = added + 1
    /\ LET p == pending \cup {added + 1} IN
       IF Cardinality(p) >= BatchMax
       THEN TakeLocked(p) /\ Hand(Feeder, p, <<>>)
       ELSE /\ pending' = p /\ Arm
            /\ UNCHANGED <<ring, truncated, todo, stage>>
    /\ UNCHANGED <<delivered, fired, reader, subs, nexus, live, replayed>>

\* Mutant: an event that is no text is sent without flushing.
AddOtherUnflushed ==
    /\ todo[Feeder] = <<>>
    /\ Hand(Feeder, {}, <<{}>>)
    /\ UNCHANGED <<added, batcher, delivered, fired, reader, subs, nexus, live, replayed>>

\* Add of any other event: FlushTerminal, then the event itself.
AddOther ==
    /\ todo[Feeder] = <<>>
    /\ TakeLocked(pending) /\ Hand(Feeder, pending, <<{}>>)
    /\ UNCHANGED <<added, delivered, fired, reader, subs, nexus, live, replayed>>

\* The flush timer fires; its goroutine has yet to get the mutex.
TimerFires(t) ==
    /\ armed
    /\ t \notin fired /\ todo[t] = <<>>
    /\ armed' = FALSE
    /\ fired' = fired \cup {t}
    /\ UNCHANGED <<added, pending, ring, truncated, delivered, todo, stage, reader, subs, nexus,
                   live, replayed>>

\* FlushTerminal in a timer's goroutine: whatever is pending by now.
TimerFlush(t) ==
    /\ t \in fired
    /\ fired' = fired \ {t}
    /\ TakeLocked(pending) /\ Hand(t, pending, <<>>)
    /\ UNCHANGED <<added, delivered, reader, subs, nexus, live, replayed>>

-----------------------------------------------------------------------------
(* Sending, without the mutex *)

\* The first event of w is dealt with.
Done(w) ==
    /\ todo' = [todo EXCEPT ![w] = Tail(@)]
    /\ stage' = [stage EXCEPT ![w] = "check"]

\* emit: shouldForwardTerminalEvent holds text back that nobody subscribed to.
ShouldSend(w) ==
    /\ todo[w] # <<>> /\ stage[w] = "check"
    /\ IF Head(todo[w]) = {} \/ subs > 0
       THEN stage' = [stage EXCEPT ![w] = "send"] /\ UNCHANGED todo
       ELSE Done(w)
    /\ UNCHANGED <<added, batcher, delivered, fired, reader, subs, nexus, live, replayed>>

\* rawSendTerminal: the event is written to the connection.
Send(w) ==
    /\ todo[w] # <<>> /\ stage[w] = "send"
    /\ LET b == Head(todo[w])
           Counted(f) == [n \in Texts |-> IF n \in b THEN f[n] + 1 ELSE f[n]] IN
       IF w = Reader
       THEN replayed' = Counted(replayed) /\ UNCHANGED live
       ELSE live' = Counted(live) /\ UNCHANGED replayed
    /\ stage' = [stage EXCEPT ![w] = "mark"]
    /\ UNCHANGED <<added, batcher, delivered, fired, todo, reader, subs, nexus>>

\* MarkDelivered: the high-water mark of what was sent.
Mark(b) == IF SeqEnd(b) > delivered THEN SeqEnd(b) ELSE delivered

MarkDelivered(w) ==
    /\ todo[w] # <<>> /\ stage[w] = "mark"
    /\ delivered' = Mark(Head(todo[w]))
    /\ Done(w)
    /\ UNCHANGED <<added, batcher, fired, reader, subs, nexus, live, replayed>>

-----------------------------------------------------------------------------
(* The connection's reader *)

\* Mutant: an unsubscribe forgets every subscriber.
UnsubscribedAll(n) == 0

\* setTerminalSubscribed(false) on a count of n.
Unsubscribed(n) == IF n <= 1 THEN 0 ELSE n - 1

\* TERMINAL_SUBSCRIBE and TERMINAL_UNSUBSCRIBE: the count changes first.
Receive ==
    /\ reader = "idle" /\ todo[Reader] = <<>>
    /\ toDaemon # <<>>
    /\ toDaemon' = Tail(toDaemon)
    /\ IF Head(toDaemon) = "subscribe"
       THEN /\ subs' = subs + 1
            /\ reader' = IF subs' = 1 THEN "snapshot" ELSE "idle"
       ELSE /\ subs' = Unsubscribed(subs)
            /\ reader' = IF subs' = 0 THEN "drop" ELSE "idle"
    /\ UNCHANGED <<added, batcher, delivered, fired, todo, stage, watching, messages, dismissed,
                   live, replayed>>

\* The ring's entries that a snapshot replays.
Undelivered(r) == {b \in Range(r) : SeqEnd(b) = 0 \/ SeqEnd(b) > delivered}

\* SnapshotUndeliveredTerminal: seal what is pending and copy what is not marked
\* delivered. It is sent by the reader itself, past shouldSend.
Snapshot ==
    /\ reader = "snapshot"
    /\ reader' = "idle"
    /\ TakeLocked(pending)
    /\ LET s == UNION Undelivered(ring') IN
       /\ todo' = [todo EXCEPT ![Reader] = IF s = {} THEN <<>> ELSE <<s>>]
       /\ stage' = [stage EXCEPT ![Reader] = IF s = {} THEN "check" ELSE "send"]
    /\ UNCHANGED <<added, delivered, fired, subs, nexus, live, replayed>>

\* DropTerminal: what is pending is sealed into the ring and not sent.
DropTerminal ==
    /\ reader = "drop"
    /\ reader' = "idle"
    /\ TakeLocked(pending)
    /\ UNCHANGED <<added, delivered, fired, todo, stage, subs, nexus, live, replayed>>

-----------------------------------------------------------------------------
(* Nexus: InMemoryControlHub *)

\* sendTerminalSubscription.
Tell(ms) ==
    /\ messages + Len(ms) <= MaxMessages
    /\ messages' = messages + Len(ms)
    /\ toDaemon' = toDaemon \o ms

daemon == <<added, batcher, delivered, fired, todo, stage, reader, subs, live, replayed>>

\* streamTerminalSession.
StreamOpens(v) ==
    /\ v \notin watching
    /\ watching' = watching \cup {v}
    /\ Tell(<<"subscribe">>)
    /\ UNCHANGED <<daemon, dismissed>>

\* Its cancel: always an unsubscribe.
StreamCancelled(v) ==
    /\ v \in watching
    /\ watching' = watching \ {v}
    /\ Tell(<<"unsubscribe">>)
    /\ UNCHANGED <<daemon, dismissed>>

\* subscribeBrowserTerminal: the socket's set has the terminal at most once, the
\* message is sent each time.
SocketSubscribes(s) ==
    /\ watching' = watching \cup {s}
    /\ Tell(<<"subscribe">>)
    /\ UNCHANGED <<daemon, dismissed>>

\* hasTerminalSubscribers: the daemon is told when nobody is left.
LastLeaves(w) == IF w = {} THEN <<"unsubscribe">> ELSE <<>>

\* unsubscribeBrowserTerminal, of a socket that watches or one that does not, and
\* unregisterBrowserSocket when it closes.
SocketUnsubscribes(s) ==
    /\ watching' = watching \ {s}
    /\ Tell(LastLeaves(watching'))
    /\ UNCHANGED <<daemon, dismissed>>

\* broadcastTerminalEvent cannot write to the socket: it is dropped from the
\* registry, and the daemon is not told.
SocketFails(s) ==
    /\ SocketsFail
    /\ s \in watching
    /\ watching' = watching \ {s}
    /\ UNCHANGED <<daemon, toDaemon, messages, dismissed>>

\* subscribeTerminalSession and unsubscribeTerminalSession: a browser that polls
\* /events posts them before and after. Nexus keeps nothing of it and asks nobody
\* whether the terminal is watched.
HttpSubscribes ==
    /\ Tell(<<"subscribe">>)
    /\ UNCHANGED <<daemon, watching, dismissed>>

HttpUnsubscribes ==
    /\ dismissed < MaxDismissed
    /\ Tell(<<"unsubscribe">>)
    /\ dismissed' = dismissed + 1
    /\ UNCHANGED <<daemon, watching>>

-----------------------------------------------------------------------------
Emit(w) == ShouldSend(w) \/ Send(w) \/ MarkDelivered(w)

Next ==
    \/ AddText \/ AddOther
    \/ \E t \in Timers : TimerFires(t) \/ TimerFlush(t)
    \/ \E w \in Workers : Emit(w)
    \/ Receive \/ Snapshot \/ DropTerminal
    \/ \E v \in Streams : StreamOpens(v) \/ StreamCancelled(v)
    \/ \E s \in Sockets : SocketSubscribes(s) \/ SocketUnsubscribes(s) \/ SocketFails(s)
    \/ HttpSubscribes \/ HttpUnsubscribes

Spec == Init /\ [][Next]_vars

(***************************************************************************)
(* The daemon's timers fire, and each of its goroutines is scheduled while *)
(* it has something to do: one of a timer that fired, the feeder, the      *)
(* reader. Nothing is assumed of the terminal or of the web.               *)
(***************************************************************************)
Fairness ==
    /\ WF_vars(\E t \in Timers : TimerFires(t))
    /\ \A t \in Timers : WF_vars(TimerFlush(t) \/ Emit(t))
    /\ WF_vars(Emit(Feeder))
    /\ WF_vars(Receive \/ Snapshot \/ DropTerminal \/ Emit(Reader))

FairSpec == Spec /\ Fairness

-----------------------------------------------------------------------------
(* Properties *)

InHand == UNION {UNION Range(todo[w]) : w \in Workers}
Kept == pending \cup UNION Range(ring) \cup InHand

\* No text disappears silently: what was neither written to the connection nor
\* kept for a replay went with a truncation of the ring, and the ring says so
\* (terminal_batcher.go recordRingLocked).
GapIsMarked ==
    /\ TypeOK
    /\ \A n \in 1..added : n \in Kept \/ live[n] + replayed[n] > 0 \/ truncated

\* The feeder, the timers and the reader take a batch from the same place: none
\* is forwarded twice (terminal_batcher.go takeLocked).  And a snapshot replays
\* "only the bytes that were never forwarded" (terminal_batcher.go:156): numbered
\* text is not replayed twice, however often subscribers come and go.
ForwardedOnce == \A n \in Texts : live[n] <= 1 /\ (Numbered => replayed[n] <= 1)

\* An event that is no text is not sent while text that came before it is still
\* being collected (terminal_batcher.go Add).
FlushedBeforeOther ==
    (\E i \in DOMAIN todo[Feeder] : todo[Feeder][i] = {}) => pending = {}

\* SSE streams and browser sockets count their subscriptions differently, and
\* none of them takes another's away: once the daemon has read all messages its
\* count is not below the number of watchers, save for what HTTP clients took
\* away, one watcher at most for each unsubscribe they posted. While none was
\* posted, whoever watches is forwarded to (control.js, control.go).
WatcherIsForwarded == toDaemon = <<>> => subs + dismissed >= Cardinality(watching)

\* Text that is collected while somebody subscribes reaches the connection,
\* unless the subscription ends first.
PendingIsForwarded ==
    \A n \in Texts : (n \in pending /\ subs > 0) ~> (live[n] + replayed[n] > 0 \/ subs = 0)

=============================================================================
