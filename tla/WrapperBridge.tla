---------------------------- MODULE WrapperBridge ----------------------------
(***************************************************************************)
(* The bridge between one Claude wrapper and the daemon's local API: the   *)
(* wrapper registers a terminal session, posts its events, pings, streams  *)
(* the prompts of the web into the PTY, and survives a daemon that         *)
(* restarts and has forgotten it.  The daemon's side is the registry of    *)
(* terminal sessions with its index from Claude session ids.               *)
(*                                                                         *)
(* A goroutine of the wrapper is a stack of frames, because re-registering *)
(* emits an event, which drains the backlog, which may re-register.  One   *)
(* HTTP call is two steps: the request is built (it captures the terminal  *)
(* id and the Claude session id of that moment), and it is served.         *)
(***************************************************************************)
EXTENDS Naturals, Sequences, FiniteSets

CONSTANTS
    Emitters,        \* goroutines that emit: PTY reader, stdin, JSONL watcher
    MaxEvents,       \* events they emit
    MaxTries,        \* attempts of emitWithRetry (4 in the code)
    PendingMax,      \* pendingEmitMax (200 in the code)
    InputBuffer,     \* room of an input subscription (32 in the code)
    MaxIds,          \* terminal sessions ever registered (a bound of the model)
    MaxSids,         \* Claude session ids the wrapper is bound to in turn
    MaxPrompts,      \* prompts the web injects
    MaxCrashes,      \* crashes of the daemon while the wrapper runs
    MaxStalls,       \* times a suspended wrapper misses its keepalives
    AllowKill,       \* the wrapper may be killed with no chance to report
    MayBeDown        \* the daemon may be down when the wrapper starts

ASSUME BridgeAssumption ==
    /\ {MaxEvents, MaxSids, MaxPrompts, MaxCrashes, MaxStalls} \subseteq Nat
    /\ {MaxTries, PendingMax, InputBuffer, MaxIds} \subseteq Nat \ {0}
    /\ MaxSids > 0
    /\ {AllowKill, MayBeDown} \subseteq BOOLEAN
    /\ Emitters \cap {"main", "ka", "in"} = {}

VARIABLES
    up,        \* the daemon process is running
    crashes,   \* crashes so far
    stalls,    \* reaps of a session the wrapper still uses
    sess,      \* the terminal sessions ever registered; an id is an index
    sidIndex,  \* Manager.sidIndex: Claude session id -> terminal session (0: none)
    recover,   \* Claude session id whose recovery goroutine has not run (0: none)
    sunk,      \* events handed to TerminalEventSink, in order
    phase,     \* of the wrapper: "boot", "run", "exit", "off" (no bridge), "gone"
    id,        \* daemonBridge.id (0 before the first registration)
    sid,       \* daemonBridge.sessionID
    pending,   \* daemonBridge.pending
    dropped,   \* events that left a full queue
    emitted,   \* events emitted so far: event n is the n-th
    stack,     \* goroutine -> its frames, the running one first
    prompt     \* where each prompt of the web is: "new", "queued" or "done"

daemonVars == <<up, crashes, stalls, sess, sidIndex, recover, sunk>>
vars == <<daemonVars, phase, id, sid, pending, dropped, emitted, stack, prompt>>

Threads   == Emitters \cup {"main", "ka", "in"}

\* An event is of a goroutine of the session (numbered) or a notice of the
\* bridge itself (number 0).
Event(n)  == [kind |-> "user", n |-> n]
Notice(k) == [kind |-> k, n |-> 0]
NoEvent   == Notice("none")
Notices   == {Notice(k) : k \in {"started", "exited"}}
Events    == {Event(n) : n \in 1..MaxEvents} \cup Notices
PromptIds == 1..MaxPrompts

Running(t) == stack[t] # <<>>
Top(t)     == Head(stack[t])

-----------------------------------------------------------------------------
(* The daemon's registry of terminal sessions.                             *)

Fresh(driver, s) == [known |-> TRUE, live |-> TRUE, sid |-> s, sub |-> FALSE,
                     driver |-> driver, buf |-> <<>>]

\* POST terminal-sessions: RegisterExternal with an id of its own.
RegisterExternal(ss) == Append(ss, Fresh("pty", 0))

Known(s) == s \in DOMAIN sess /\ sess[s].known

\* BindSessionMetadata and the rebind listener: the session takes the id its
\* wrapper reports, and the index resolves the new and the old id to it.
BindSession(ss, s, x) ==
    IF x = 0 \/ x = ss[s].sid THEN ss ELSE [ss EXCEPT ![s].sid = x]

BindIndex(ix, ss, s, x) ==
    IF x = 0 \/ x = ss[s].sid THEN ix
    ELSE [y \in DOMAIN ix |-> IF y \in {x, ss[s].sid} THEN s ELSE ix[y]]

\* close(): the session ends; what its input channel still holds can be read.
Close(ss, s) == [ss EXCEPT ![s].live = FALSE]

Forget(ss, s) == [ss EXCEPT ![s].known = FALSE, ![s].sid = 0]

Purge(ix, s) == [y \in DOMAIN ix |-> IF ix[y] = s THEN 0 ELSE ix[y]]

\* The goroutine of RegisterExternal that waits for the session to end.
SessionEnded(s) ==
    /\ Known(s) /\ ~sess[s].live
    /\ sess' = Forget(sess, s)
    /\ sidIndex' = Purge(sidIndex, s)
    /\ UNCHANGED <<up, crashes, stalls, recover, sunk, phase, id, sid, pending,
                   dropped, emitted, stack, prompt>>

\* The reaper's ticker finds a session without an event or a keepalive for 35 s:
\* one the wrapper no longer uses, or that of a suspended wrapper.
InUse(s) == s = id /\ phase \in {"run", "exit"}

Stale(s) ==
    /\ InUse(s) => stalls < MaxStalls
    /\ \A t \in Threads : Running(t) => Top(t).id # s \/ Top(t).st = "stream"

ReapStale(s) ==
    /\ Known(s) /\ sess[s].live /\ sess[s].driver = "pty"
    /\ Stale(s)
    /\ stalls' = IF InUse(s) THEN stalls + 1 ELSE stalls
    /\ sess' = Forget(Close(sess, s), s)
    /\ sidIndex' = Purge(sidIndex, s)
    /\ UNCHANGED <<up, crashes, recover, sunk, phase, id, sid, pending, dropped,
                   emitted, stack, prompt>>

\* OnWrapperUnexpectedExit: an SDK driver takes over the crashed session.
RecoverySpawn ==
    /\ up /\ recover # 0
    /\ Len(sess) < MaxIds
    /\ sess' = Append(sess, Fresh("sdk", recover))
    /\ sidIndex' = [sidIndex EXCEPT ![recover] = Len(sess) + 1]
    /\ recover' = 0
    /\ UNCHANGED <<up, crashes, stalls, sunk, phase, id, sid, pending, dropped,
                   emitted, stack, prompt>>

\* Mutant of Deliverable: a prompt is queued although no stream reads it.
DeliverableUnread(s) == Len(sess[s].buf) < InputBuffer

\* SendInput hands a prompt to the input subscription that has room for it.
Deliverable(s) == sess[s].sub /\ Len(sess[s].buf) < InputBuffer

\* A prompt of the web for a Claude session: LookupExternalForInject finds the
\* live session bound to it, SendInput hands it to the input subscription and
\* drops it, though accepted, when there is none or its channel is full.
InjectPrompt(p, x) ==
    LET s == sidIndex[x]
        found == s # 0 /\ sess[s].live /\ sess[s].sid = x
        room  == found /\ Deliverable(s)
    IN /\ up /\ prompt[p] = "new"
       /\ \A q \in PromptIds : q < p => prompt[q] # "new"
       /\ prompt' = [prompt EXCEPT ![p] = IF room THEN "queued" ELSE "done"]
       /\ sess' = IF room THEN [sess EXCEPT ![s].buf = Append(@, p)] ELSE sess
       /\ UNCHANGED <<up, crashes, stalls, sidIndex, recover, sunk, phase, id, sid,
                      pending, dropped, emitted, stack>>

-----------------------------------------------------------------------------
(* Frames of the wrapper's goroutines.                                     *)

\* k: "emit" (Emit, or drainPending alone when own is NoEvent), "ka", "in",
\* "exit" or "boot".  st: "send", "wire" (request built), "reg" (registering),
\* "nest" (waiting for the session_started of a re-registration), "stream".
Frame(k, st, batch, own) ==
    [k |-> k, st |-> st, batch |-> batch, own |-> own, try |-> 1,
     re |-> FALSE, id |-> 0, sid |-> 0]

\* Emit: takes the whole backlog in front of its own event.
EmitFrame(q, e) == Frame("emit", "wire", q, e)

\* emitOnce builds its request with the terminal id and the Claude session id of
\* this moment; a frame that sends nothing keeps neither, but for an open stream.
Build(s, i) ==
    IF s = <<>> \/ Head(s).st = "stream" THEN s
    ELSE <<IF Head(s).st = "wire" THEN [Head(s) EXCEPT !.id = i, !.sid = sid]
           ELSE [Head(s) EXCEPT !.id = 0, !.sid = 0]>> \o Tail(s)

\* A finished call returns to the frame below it: reregister() succeeded.
Pop(s) ==
    IF Len(s) < 2 \/ s[2].st # "nest" THEN Tail(s)
    ELSE <<[s[2] EXCEPT !.st = IF s[2].k = "emit" THEN "wire" ELSE "send",
                        !.re = (s[2].k # "in")]>> \o SubSeq(s, 3, Len(s))

Current(f) == IF f.batch # <<>> THEN Head(f.batch) ELSE f.own

\* Mutant of Sent: the event that was sent stays at the head of the batch.
SentAgain(s) ==
    LET f == Head(s)
    IN IF f.batch = <<>> THEN Pop(s)
       ELSE <<[f EXCEPT !.try = 1, !.re = FALSE, !.st = "wire"]>> \o Tail(s)

\* emitWithRetry returned TRUE: the next of the backlog, or the event itself.
Sent(s) ==
    LET f == Head(s)
        b == IF f.batch = <<>> THEN <<>> ELSE Tail(f.batch)
    IN IF f.batch = <<>> \/ (b = <<>> /\ f.own = NoEvent) THEN Pop(s)
       ELSE <<[f EXCEPT !.batch = b, !.try = 1, !.re = FALSE, !.st = "wire"]>>
            \o Tail(s)

\* Mutant of PutBack: only what comes after the failed event goes back.
PutBackRest(f, q) == Tail(f.batch) \o q

\* emitWithRetry returned FALSE while draining: the event and all after it go
\* back to the front, and Emit goes on with its own event.
PutBack(f, q) == f.batch \o q

\* queuePending: the oldest leaves a full queue.
QueuePending(q, e) == Append(IF Len(q) >= PendingMax THEN Tail(q) ELSE q, e)

Overflow(q) == IF Len(q) >= PendingMax THEN {Head(q)} ELSE {}

\* The thread continues with stack s, queue q and d more dropped events.
Continue(t, s, q, d) ==
    /\ stack' = [stack EXCEPT ![t] = Build(s, id)]
    /\ pending' = q
    /\ dropped' = dropped \cup {e.n : e \in {x \in d : x.kind = "user"}}

Failed(t) ==
    LET s == stack[t]
        f == Head(s)
    IN IF f.batch # <<>>
       THEN Continue(t, IF f.own = NoEvent THEN Pop(s)
                        ELSE <<[f EXCEPT !.batch = <<>>, !.try = 1, !.re = FALSE,
                                         !.st = "wire"]>> \o Tail(s),
                     PutBack(f, pending), {})
       ELSE Continue(t, Pop(s), QueuePending(pending, f.own), Overflow(pending))

\* One attempt of emitWithRetry failed: the next one, or the end.
TryFailed(t) ==
    LET f == Head(stack[t])
    IN IF f.try >= MaxTries THEN Failed(t)
       ELSE Continue(t, <<[f EXCEPT !.try = @ + 1, !.re = FALSE, !.st = "send"]>>
                        \o Tail(stack[t]), pending, {})

\* The keepalive tick: sendKeepalive, then drainPending.
AfterKeepalive(t) ==
    IF pending = <<>>
    THEN Continue(t, Tail(stack[t]), pending, {})
    ELSE Continue(t, <<EmitFrame(pending, NoEvent)>> \o Tail(stack[t]), <<>>, {})

\* After the exit intent, whatever came of it, session_exited is emitted.
AfterExitIntent(t) ==
    Continue(t, <<EmitFrame(pending, Notice("exited"))>>, <<>>, {})

SetHead(t, f) == Continue(t, <<f>> \o Tail(stack[t]), pending, {})

-----------------------------------------------------------------------------
(* Answers to the calls of the wrapper.                                    *)

\* A call that got no answer: a transport error.
NoAnswer(t) ==
    LET f == Head(stack[t])
    IN CASE f.k = "emit" -> TryFailed(t)
         [] f.k = "ka"   -> AfterKeepalive(t)
         [] f.k = "exit" -> AfterExitIntent(t)
         [] f.k = "in"   -> SetHead(t, [f EXCEPT !.st = "send"])
         [] f.k = "boot" -> Continue(t, <<>>, pending, {})

\* 404: the daemon forgot the session.  Every caller but the exit report and a
\* second attempt re-registers.
NotFound(t) ==
    LET f == Head(stack[t])
    IN CASE f.k = "emit" /\ f.re -> TryFailed(t)
         [] f.k = "ka" /\ f.re   -> AfterKeepalive(t)
         [] f.k = "exit"         -> AfterExitIntent(t)
         [] OTHER                -> SetHead(t, [f EXCEPT !.st = "reg"])

Accepted(t, f) ==
    CASE f.k = "emit" -> Continue(t, Sent(stack[t]), pending, {})
      [] f.k = "ka"   -> AfterKeepalive(t)
      [] f.k = "exit" -> AfterExitIntent(t)
      [] f.k = "in"   -> SetHead(t, [f EXCEPT !.st = IF sess[f.id].live
                                                     THEN "stream" ELSE "send"])

\* TerminalEventSink: the event goes on to Nexus.
Sink(q, e) == IF e.kind = "user" THEN Append(q, e.n) ELSE q

\* What the handler of the call does to the daemon.  handleDevTerminalEvent
\* binds, emits (which closes the session on session_exited) and feeds the
\* sink; handleDevTerminalExitIntent asks for a recovery and stops the session.
EventEffect(f) ==
    LET bound == BindSession(sess, f.id, f.sid)
        e == Current(f)
    IN /\ sess' = IF e.kind = "exited" THEN Close(bound, f.id) ELSE bound
       /\ sidIndex' = BindIndex(sidIndex, sess, f.id, f.sid)
       /\ sunk' = Sink(sunk, e)
       /\ UNCHANGED recover

ExitIntentEffect(f, clean) ==
    /\ recover' = IF clean THEN recover ELSE sess[f.id].sid
    /\ sess' = Close(sess, f.id)
    /\ UNCHANGED <<sidIndex, sunk>>

InputStreamEffect(f) ==
    /\ sess' = IF sess[f.id].live THEN [sess EXCEPT ![f.id].sub = TRUE] ELSE sess
    /\ UNCHANGED <<sidIndex, recover, sunk>>

Effect(f) ==
    CASE f.k = "emit" -> EventEffect(f)
      [] f.k = "exit" -> \E clean \in BOOLEAN : ExitIntentEffect(f, clean)
      [] f.k = "in"   -> InputStreamEffect(f)
      [] f.k = "ka"   -> UNCHANGED <<sess, sidIndex, recover, sunk>>

-----------------------------------------------------------------------------
(* Steps of the wrapper's goroutines.                                      *)

\* The backoff of emitWithRetry is over: the next attempt.
Retry(t) ==
    /\ Running(t) /\ Top(t).st = "send" /\ Top(t).k = "emit"
    /\ stack' = [stack EXCEPT ![t][1].st = "wire", ![t][1].id = id, ![t][1].sid = sid]
    /\ UNCHANGED <<daemonVars, phase, id, sid, pending, dropped, emitted, prompt>>

\* The call reaches the daemon.  The other calls carry no Claude session id, and
\* are built and served in one step.
Serve(t) ==
    LET f == IF Top(t).k = "emit" THEN Top(t) ELSE [Top(t) EXCEPT !.id = id]
    IN /\ Running(t) /\ up
       /\ Top(t).st = IF Top(t).k = "emit" THEN "wire" ELSE "send"
       /\ Top(t).k # "boot"
       /\ IF Known(f.id)
          THEN Effect(f) /\ Accepted(t, f)
          ELSE NotFound(t) /\ UNCHANGED <<sess, sidIndex, recover, sunk>>
       /\ UNCHANGED <<up, crashes, stalls, phase, id, sid, emitted, prompt>>

Unreachable(t) ==
    /\ Running(t) /\ ~up
    /\ \/ Top(t).st \in {"wire", "reg"}
       \/ Top(t).st = "send" /\ Top(t).k \in {"ka", "exit"}
    /\ NoAnswer(t)
    /\ phase' = IF Top(t).k = "boot" THEN "off" ELSE phase
    /\ UNCHANGED <<daemonVars, id, sid, emitted, prompt>>

\* registerTerminalSession answers; reregister() stores the id and emits
\* session_started before it returns.
Register(t) ==
    /\ Running(t) /\ Top(t).st = "reg" /\ up
    /\ Len(sess) < MaxIds
    /\ sess' = RegisterExternal(sess)
    /\ id' = Len(sess) + 1
    /\ stack' = [stack EXCEPT ![t] =
           Build(<<EmitFrame(pending, Notice("started")), [Top(t) EXCEPT !.st = "nest"]>>
                 \o Tail(@), Len(sess) + 1)]
    /\ pending' = <<>>
    /\ UNCHANGED <<up, crashes, stalls, sidIndex, recover, sunk, phase, sid, dropped,
                   emitted, prompt>>

\* maybeStartDaemonBridge returned: readInputs and keepaliveLoop run (the
\* session_ready that run() emits next is one of the events of the emitters).
Booted ==
    /\ phase = "boot" /\ Running("main") /\ Top("main").k = "boot"
    /\ Top("main").st = "send"
    /\ phase' = "run"
    /\ stack' = [stack EXCEPT !["main"] = <<>>,
                              !["in"] = <<Frame("in", "send", <<>>, NoEvent)>>]
    /\ UNCHANGED <<daemonVars, id, sid, pending, dropped, emitted, prompt>>

Emit(t) ==
    /\ phase = "run" /\ ~Running(t) /\ emitted < MaxEvents
    /\ emitted' = emitted + 1
    /\ stack' = [stack EXCEPT ![t] = Build(<<EmitFrame(pending, Event(emitted + 1))>>, id)]
    /\ pending' = <<>>
    /\ UNCHANGED <<daemonVars, phase, id, sid, dropped, prompt>>

Keepalive ==
    /\ phase = "run" /\ ~Running("ka")
    /\ stack' = [stack EXCEPT !["ka"] = <<Frame("ka", "send", <<>>, NoEvent)>>]
    /\ UNCHANGED <<daemonVars, phase, id, sid, pending, dropped, emitted, prompt>>

\* updateClaudeSessionID: Claude went on in another transcript.
Rotate ==
    /\ phase = "run" /\ sid < MaxSids
    /\ sid' = sid + 1
    /\ UNCHANGED <<daemonVars, phase, id, pending, dropped, emitted, stack, prompt>>

\* The input stream delivers a prompt, which writeRemoteInput types.
TypePrompt ==
    LET f == Top("in")
        b == sess[f.id].buf
    IN /\ Running("in") /\ f.st = "stream" /\ b # <<>>
       /\ sess' = [sess EXCEPT ![f.id].buf = Tail(b)]
       /\ prompt' = [prompt EXCEPT ![Head(b)] = "done"]
       /\ UNCHANGED <<up, crashes, stalls, sidIndex, recover, sunk, phase, id, sid,
                      pending, dropped, emitted, stack>>

\* The stream ended: the daemon is gone, or the session closed and was drained.
StreamEnds ==
    LET f == Top("in")
    IN /\ Running("in") /\ f.st = "stream"
       /\ ~up \/ ~sess[f.id].live
       /\ sess[f.id].buf = <<>>
       /\ SetHead("in", [f EXCEPT !.st = "send"])
       /\ sess' = [sess EXCEPT ![f.id].sub = FALSE]
       /\ UNCHANGED <<up, crashes, stalls, sidIndex, recover, sunk, phase, id, sid,
                      emitted, prompt>>

\* Claude exits: the exit intent is reported, then session_exited is emitted.
ClaudeExits ==
    /\ phase = "run" /\ ~Running("main")
    /\ phase' = "exit"
    /\ stack' = [stack EXCEPT !["main"] = <<Frame("exit", "send", <<>>, NoEvent)>>]
    /\ UNCHANGED <<daemonVars, id, sid, pending, dropped, emitted, prompt>>

\* What a daemon sees of a wrapper that is gone: its streams are closed.
Detached(ss) == [s \in DOMAIN ss |-> [ss[s] EXCEPT !.sub = FALSE, !.buf = <<>>]]

LosePrompts == [p \in PromptIds |-> IF prompt[p] = "queued" THEN "done" ELSE prompt[p]]

WrapperGone ==
    /\ \/ phase = "exit" /\ ~Running("main")
       \/ AllowKill /\ phase \in {"run", "exit"}
    /\ phase' = "gone"
    /\ stack' = [t \in Threads |-> <<>>]
    /\ sess' = Detached(sess)
    /\ pending' = <<>>
    /\ prompt' = LosePrompts
    /\ UNCHANGED <<up, crashes, stalls, sidIndex, recover, sunk, id, sid,
                   dropped, emitted>>

-----------------------------------------------------------------------------
(* The daemon process.                                                     *)

Crashed(ss) == [s \in DOMAIN ss |-> [ss[s] EXCEPT !.known = FALSE, !.live = FALSE,
                                                  !.sid = 0, !.sub = FALSE, !.buf = <<>>]]

Crash ==
    /\ up /\ crashes < MaxCrashes /\ phase # "gone"
    /\ up' = FALSE /\ crashes' = crashes + 1
    /\ sess' = Crashed(sess)
    /\ sidIndex' = [x \in DOMAIN sidIndex |-> 0]
    /\ recover' = 0
    /\ prompt' = LosePrompts
    /\ UNCHANGED <<stalls, sunk, phase, id, sid, pending, dropped, emitted, stack>>

\* The daemon handled an event and died before its answer was written.
CrashBeforeAnswer(t) ==
    /\ Running(t) /\ Top(t).st = "wire" /\ Current(Top(t)).kind = "user"
    /\ up /\ crashes < MaxCrashes /\ Known(Top(t).id)
    /\ up' = FALSE /\ crashes' = crashes + 1
    /\ sess' = Crashed(sess)
    /\ sidIndex' = [x \in DOMAIN sidIndex |-> 0]
    /\ recover' = 0
    /\ sunk' = Sink(sunk, Current(Top(t)))
    /\ prompt' = LosePrompts
    /\ UNCHANGED <<stalls, phase, id, sid, pending, dropped, emitted, stack>>

Restart ==
    /\ ~up
    /\ up' = TRUE
    /\ UNCHANGED <<crashes, stalls, sess, sidIndex, recover, sunk, phase, id, sid,
                   pending, dropped, emitted, stack, prompt>>

Init ==
    /\ up \in IF MayBeDown THEN BOOLEAN ELSE {TRUE}
    /\ crashes = 0 /\ stalls = 0
    /\ sess = <<>> /\ sidIndex = [x \in 1..MaxSids |-> 0]
    /\ recover = 0 /\ sunk = <<>>
    /\ phase = "boot" /\ id = 0 /\ sid = 1
    /\ pending = <<>> /\ dropped = {} /\ emitted = 0
    /\ stack = [t \in Threads |-> IF t = "main"
                                  THEN <<Frame("boot", "reg", <<>>, NoEvent)>> ELSE <<>>]
    /\ prompt = [p \in PromptIds |-> "new"]

Next ==
    \/ \E t \in Threads : Retry(t) \/ Serve(t) \/ Unreachable(t) \/ Register(t)
    \/ \E t \in Emitters : Emit(t)
    \/ Booted \/ Keepalive \/ Rotate \/ TypePrompt \/ StreamEnds
    \/ ClaudeExits \/ WrapperGone
    \/ \E s \in DOMAIN sess : SessionEnded(s) \/ ReapStale(s)
    \/ RecoverySpawn
    \/ \E p \in PromptIds, x \in 1..MaxSids : InjectPrompt(p, x)
    \/ Crash \/ Restart
    \/ \E t \in Threads : CrashBeforeAnswer(t)

Spec == Init /\ [][Next]_vars

-----------------------------------------------------------------------------
(* Properties.                                                             *)

FrameType ==
    [k : {"emit", "ka", "in", "exit", "boot"},
     st : {"send", "wire", "reg", "nest", "stream"},
     batch : Seq(Events), own : Events \cup {NoEvent},
     try : 1..MaxTries, re : BOOLEAN, id : 0..Len(sess), sid : 0..MaxSids]

TypeOK ==
    /\ up \in BOOLEAN /\ crashes \in 0..MaxCrashes /\ stalls \in 0..MaxStalls
    /\ sess \in Seq([known : BOOLEAN, live : BOOLEAN, sid : 0..MaxSids, sub : BOOLEAN,
                     driver : {"pty", "sdk"}, buf : Seq(PromptIds)])
    /\ sidIndex \in [1..MaxSids -> 0..Len(sess)]
    /\ recover \in 0..MaxSids /\ sunk \in Seq(1..MaxEvents)
    /\ phase \in {"boot", "run", "exit", "off", "gone"}
    /\ id \in 0..Len(sess) /\ sid \in 1..MaxSids
    /\ pending \in Seq(Events) /\ dropped \subseteq 1..MaxEvents
    /\ emitted \in 0..MaxEvents
    /\ \A t \in Threads : \A i \in DOMAIN stack[t] : stack[t][i] \in FrameType
    /\ prompt \in [PromptIds -> {"new", "queued", "done"}]

\* What a frame is sending: its event, and the rest of the backlog it drains.
InHand(fr) == <<fr.own>> \o fr.batch

\* The frames that are sending something, and the places of event n in a sequence.
Senders == UNION {{<<t, f>> : f \in DOMAIN stack[t]} : t \in {u \in Threads : Running(u)}}
Places(n, events) == Cardinality({i \in DOMAIN events : events[i].n = n})

\* No event disappears or multiplies in the wrapper while it runs: through
\* retries, drains that put the rest back, and nested re-registrations each
\* event is held in exactly one place until the daemon took it or it left a full
\* queue (emitWithRetry, drainPending, queuePending).
EventHeldOnce ==
    /\ TypeOK
    /\ phase \in {"run", "exit"} => \A n \in 1..emitted :
        LET holders == {x \in Senders : Places(n, InHand(stack[x[1]][x[2]])) > 0} IN
        /\ Places(n, pending) + Cardinality(holders) <= 1
        /\ \A x \in holders : Places(n, InHand(stack[x[1]][x[2]])) = 1
        /\ Places(n, pending) = 0 /\ holders = {} => n \in dropped \/ \E i \in DOMAIN sunk : sunk[i] = n

Sinks(n) == Cardinality({i \in DOMAIN sunk : sunk[i] = n})

\* Nexus sees an event twice only when the daemon died between handling it and
\* answering: a retry never follows an answer that was received.
RepeatsNeedCrash == \A n \in 1..MaxEvents : Sinks(n) <= 1 + crashes

\* A prompt waits only where a stream reads: in a session whose input stream the
\* wrapper is reading, so that it is not stranded in an abandoned session.
QueuedIsRead ==
    \A p \in PromptIds : prompt[p] = "queued" =>
        /\ phase \in {"run", "exit"}
        /\ Running("in") /\ Top("in").st = "stream"
        /\ \E i \in DOMAIN sess[Top("in").id].buf : sess[Top("in").id].buf[i] = p

=============================================================================
