-------------------------- MODULE ControlHubProofs --------------------------
(***************************************************************************)
(* Proofs about ControlHub, for any sets of requests and any number of     *)
(* connections.                                                            *)
(***************************************************************************)
EXTENDS ControlHub, SequenceTheorems, TLAPS

ToDaemon == Frames({"request", "cancel", "close"})
ToHub == Frames({"done", "failed"})

\* Appending to one of a family of queues keeps their type.
LEMMA AppendTyped ==
    ASSUME NEW S, NEW C, NEW q \in [C -> Seq(S)], NEW c \in C, NEW e \in S,
           NEW p \in BOOLEAN
    PROVE  [q EXCEPT ![c] = IF p THEN Append(@, e) ELSE @] \in [C -> Seq(S)]
  <1>1. Append(q[c], e) \in Seq(S)
    BY AppendProperties
  <1> QED BY <1>1

\* So does removing the first element of one of them.
LEMMA TailTyped ==
    ASSUME NEW S, NEW C, NEW q \in [C -> Seq(S)], NEW c \in C, q[c] # <<>>
    PROVE  /\ [q EXCEPT ![c] = Tail(@)] \in [C -> Seq(S)]
           /\ Head(q[c]) \in S
  <1>1. Tail(q[c]) \in Seq(S) /\ Head(q[c]) \in S
    BY HeadTailProperties
  <1> QED BY <1>1

\* Emptying one of them keeps their type.
LEMMA EmptyTyped ==
    ASSUME NEW S, NEW C, NEW q \in [C -> Seq(S)], NEW c \in C
    PROVE  [q EXCEPT ![c] = <<>>] \in [C -> Seq(S)]
  <1>1. <<>> \in Seq(S)
    BY EmptySeq
  <1> QED BY <1>1

-----------------------------------------------------------------------------
LEMMA InitTyped == Init => TypeOK
  <1> SUFFICES ASSUME Init PROVE TypeOK
    OBVIOUS
  <1>1. down \in [Conns -> Seq(ToDaemon)] /\ up \in [Conns -> Seq(ToHub)]
    <2>1. \A S : <<>> \in Seq(S)
      BY EmptySeq
    <2> QED BY <2>1 DEF Init
  <1>2. MaxConns \in Nat
    BY HubAssumption
  <1>3. announced \in BOOLEAN
    BY Zenon DEF Init
  <1>4. /\ online \in Conns \cup {None}
        /\ dialed \in 0..MaxConns
    BY <1>2 DEF Init, None
  <1>5. /\ stage \in [Conns -> {"none", "asked", "registered", "closing", "closed"}]
        /\ end \in [Conns -> {"none", "dialing", "open", "gone"}]
        /\ told \in [Requests -> Ends \cup {"none"}]
        /\ work \in [Requests -> {"idle", "spawned", "active", "leaving", "over"}]
    BY DEF Init
  <1>6. /\ sentOn \in [Requests -> Conns \cup {None}]
        /\ via \in [Requests -> Conns \cup {None}]
        /\ entries \subseteq Requests /\ timers \subseteq Requests
        /\ linked \subseteq Conns /\ mirrors \subseteq Injects
    BY DEF Init
  <1> QED BY <1>1, <1>3, <1>4, <1>5, <1>6 DEF TypeOK, ToDaemon, ToHub

(* The type invariant, part by part *)

HubTyped ==
    /\ online \in Conns \cup {None}
    /\ stage \in [Conns -> {"none", "asked", "registered", "closing", "closed"}]
LedgerTyped ==
    /\ entries \subseteq Requests /\ timers \subseteq Requests
    /\ told \in [Requests -> Ends \cup {"none"}]
    /\ sentOn \in [Requests -> Conns \cup {None}]
LinkTyped ==
    /\ dialed \in 0..MaxConns
    /\ end \in [Conns -> {"none", "dialing", "open", "gone"}]
    /\ linked \subseteq Conns
DaemonTyped ==
    /\ work \in [Requests -> {"idle", "spawned", "active", "leaving", "over"}]
    /\ via \in [Requests -> Conns \cup {None}]
    /\ mirrors \subseteq Injects
DownTyped == down \in [Conns -> Seq(ToDaemon)]
UpTyped == up \in [Conns -> Seq(ToHub)]

LEMMA TypeParts ==
    /\ TypeOK <=> /\ HubTyped /\ LedgerTyped /\ LinkTyped /\ DaemonTyped
                  /\ DownTyped /\ UpTyped /\ announced \in BOOLEAN
    /\ TypeOK' <=> /\ HubTyped' /\ LedgerTyped' /\ LinkTyped' /\ DaemonTyped'
                   /\ DownTyped' /\ UpTyped' /\ announced' \in BOOLEAN
  BY DEF TypeOK, HubTyped, LedgerTyped, LinkTyped, DaemonTyped, DownTyped, UpTyped,
         ToDaemon, ToHub

LEMMA ConcludeTyped ==
    ASSUME LedgerTyped, NEW S, NEW how \in Ends, Conclude(S, how)
    PROVE  LedgerTyped'
  BY DEF LedgerTyped, Conclude, None

LEMMA SendTyped ==
    ASSUME DownTyped, NEW c \in Conns, NEW f \in ToDaemon, Send(c, f)
    PROVE  DownTyped'
  <1>1. (c \in linked) \in BOOLEAN
    OBVIOUS
  <1> QED BY <1>1, AppendTyped DEF DownTyped, Send

LEMMA ReplyTyped ==
    ASSUME UpTyped, NEW r \in Requests, NEW c, NEW how \in {"done", "failed"},
           Reply(r, c, how)
    PROVE  UpTyped'
  <1>1. Frame(how, r) \in ToHub
    BY DEF Frame, ToHub, Frames
  <1>2. CASE c \in Conns
    <2> DEFINE p == end[c] = "open" /\ c \in linked
    <2>1. p \in BOOLEAN
      OBVIOUS
    <2>2. up' = [up EXCEPT ![c] = IF p THEN Append(@, Frame(how, r)) ELSE @]
      BY DEF Reply
    <2> QED BY <1>1, <1>2, <2>1, <2>2, AppendTyped DEF UpTyped
  <1>3. CASE c \notin Conns
    BY <1>3 DEF Reply, UpTyped
  <1> QED BY <1>2, <1>3

LEMMA FrameTyped ==
    /\ \A r \in Requests : Frame("request", r) \in ToDaemon
    /\ \A t \in {"cancel", "close"} : Frame(t, NoRequest) \in ToDaemon
  BY DEF Frame, ToDaemon, Frames

-----------------------------------------------------------------------------
(* Each group of actions keeps the types. *)

LEMMA LoopTyped ==
    ASSUME TypeOK,
           \/ Dial \/ Restart
           \/ \E c \in Conns : GiveUp(c) \/ LinkDies(c) \/ ReadFails(c)
    PROVE  TypeOK'
  <1> USE TypeParts
  <1>0. MaxConns \in Nat
    BY HubAssumption
  <1>1. CASE Dial
    <2>1. HubTyped' /\ LinkTyped'
      BY <1>0, <1>1 DEF Dial, HubTyped, LinkTyped, Conns
    <2>2. /\ LedgerTyped' /\ DaemonTyped' /\ DownTyped' /\ UpTyped'
          /\ announced' = announced
      BY <1>1 DEF Dial, ledger, daemon, LedgerTyped, DaemonTyped, DownTyped, UpTyped
    <2> QED BY <2>1, <2>2
  <1>2. CASE Restart
    <2>1. LinkTyped' /\ DaemonTyped'
      BY <1>2 DEF Restart, LinkTyped, DaemonTyped, None
    <2>2. DownTyped'
      <3>1. <<>> \in Seq(ToDaemon)
        BY EmptySeq
      <3> QED BY <1>2, <3>1 DEF Restart, DownTyped
    <2>3. /\ HubTyped' /\ LedgerTyped' /\ UpTyped' /\ announced' = announced
      BY <1>2 DEF Restart, hub, ledger, HubTyped, LedgerTyped, UpTyped
    <2> QED BY <2>1, <2>2, <2>3
  <1>3. ASSUME NEW c \in Conns, GiveUp(c) \/ ReadFails(c) PROVE TypeOK'
    <2>1. LinkTyped'
      BY <1>3 DEF GiveUp, ReadFails, LinkTyped
    <2>2. /\ HubTyped' /\ LedgerTyped' /\ DaemonTyped' /\ DownTyped' /\ UpTyped'
          /\ announced' = announced
      BY <1>3 DEF GiveUp, ReadFails, hub, ledger, daemon, HubTyped, LedgerTyped,
                  DaemonTyped, DownTyped, UpTyped
    <2> QED BY <2>1, <2>2
  <1>4. ASSUME NEW c \in Conns, LinkDies(c) PROVE TypeOK'
    <2>1. DownTyped' /\ UpTyped'
      BY <1>4, EmptyTyped DEF LinkDies, DownTyped, UpTyped
    <2>2. /\ LinkTyped' /\ HubTyped' /\ LedgerTyped' /\ DaemonTyped'
          /\ announced' = announced
      BY <1>4 DEF LinkDies, hub, ledger, daemon, LinkTyped, HubTyped, LedgerTyped,
                  DaemonTyped
    <2> QED BY <2>1, <2>2
  <1> QED BY <1>1, <1>2, <1>3, <1>4

LEMMA RegistryTyped ==
    ASSUME TypeOK, NEW c \in Conns,
           RegisterDaemonConnection(c) \/ OnDaemonConnectionClosed(c)
    PROVE  TypeOK'
  <1> USE TypeParts
  <1>1. CASE RegisterDaemonConnection(c)
    <2>1. HubTyped' /\ LinkTyped'
      BY <1>1 DEF RegisterDaemonConnection, HubTyped, LinkTyped
    <2>2. DownTyped'
      <3>1. \A d \in Conns : Append(down[d], Frame("close", NoRequest)) \in Seq(ToDaemon)
        BY FrameTyped, AppendProperties DEF DownTyped
      <3> QED BY <1>1, <3>1 DEF RegisterDaemonConnection, DownTyped
    <2>3. announced' \in BOOLEAN
      BY <1>1, Zenon DEF RegisterDaemonConnection
    <2>4. LedgerTyped' /\ DaemonTyped' /\ UpTyped'
      BY <1>1 DEF RegisterDaemonConnection, ledger, daemon, LedgerTyped, DaemonTyped,
                  UpTyped
    <2> QED BY <2>1, <2>2, <2>3, <2>4
  <1>2. CASE OnDaemonConnectionClosed(c)
    <2>1. HubTyped' /\ LinkTyped'
      BY <1>2 DEF OnDaemonConnectionClosed, SocketCloses, DropConnection, HubTyped,
                  LinkTyped, None
    <2>2. LedgerTyped'
      BY <1>2, ConcludeTyped DEF OnDaemonConnectionClosed, Ends
    <2>3. announced' \in BOOLEAN
      BY <1>2, Zenon DEF OnDaemonConnectionClosed, DropConnection
    <2>4. DownTyped'
      BY <1>2, EmptyTyped DEF OnDaemonConnectionClosed, DownTyped
    <2>5. DaemonTyped' /\ UpTyped'
      BY <1>2 DEF OnDaemonConnectionClosed, daemon, DaemonTyped, UpTyped
    <2> QED BY <2>1, <2>2, <2>3, <2>4, <2>5
  <1> QED BY <1>1, <1>2

LEMMA RequestsTyped ==
    ASSUME TypeOK,
           \/ \E r \in Requests : \/ Ask(r) \/ AskFails(r) \/ CancelInject(r)
                                  \/ TimeOut(r) \/ Leave(r)
           \/ \E c \in Conns : ReceiveDaemonEnvelope(c)
    PROVE  TypeOK'
  <1> USE TypeParts
  <1>1. ASSUME NEW r \in Requests, Ask(r) PROVE TypeOK'
    <2>1. LedgerTyped'
      BY <1>1 DEF Ask, Enter, LedgerTyped, HubTyped, Ends
    <2>2. DownTyped'
      <3>1. CASE online = None
        BY <1>1, <3>1 DEF Ask, DownTyped
      <3>2. CASE online # None
        <4>1. Send(online, Frame("request", r)) /\ online \in Conns
          BY <1>1, <3>2 DEF Ask, HubTyped
        <4> QED BY <4>1, FrameTyped, SendTyped
      <3> QED BY <3>1, <3>2
    <2>3. HubTyped' /\ LinkTyped' /\ DaemonTyped' /\ UpTyped' /\ announced' = announced
      BY <1>1 DEF Ask, hub, link, daemon, HubTyped, LinkTyped, DaemonTyped, UpTyped
    <2> QED BY <2>1, <2>2, <2>3
  <1>2. ASSUME NEW r \in Requests, AskFails(r) PROVE TypeOK'
    <2>1. LedgerTyped' /\ DownTyped'
      BY <1>2 DEF AskFails, LedgerTyped, DownTyped, Ends
    <2>2. HubTyped' /\ LinkTyped' /\ DaemonTyped' /\ UpTyped' /\ announced' = announced
      BY <1>2 DEF AskFails, hub, link, daemon, HubTyped, LinkTyped, DaemonTyped, UpTyped
    <2> QED BY <2>1, <2>2
  <1>3. ASSUME NEW r \in Requests, CancelInject(r) PROVE TypeOK'
    <2>1. DownTyped'
      <3>1. Send(online, Frame("cancel", NoRequest)) /\ online \in Conns
        BY <1>3 DEF CancelInject, HubTyped
      <3> QED BY <3>1, FrameTyped, SendTyped
    <2>2. /\ LedgerTyped' /\ HubTyped' /\ LinkTyped' /\ DaemonTyped' /\ UpTyped'
          /\ announced' = announced
      BY <1>3 DEF CancelInject, hub, ledger, link, daemon, LedgerTyped, HubTyped,
                  LinkTyped, DaemonTyped, UpTyped
    <2> QED BY <2>1, <2>2
  <1>4. ASSUME NEW r \in Requests, TimeOut(r) \/ Leave(r) PROVE TypeOK'
    <2>1. LedgerTyped'
      BY <1>4, ConcludeTyped DEF TimeOut, Leave, Ends
    <2>2. /\ HubTyped' /\ LinkTyped' /\ DaemonTyped' /\ DownTyped' /\ UpTyped'
          /\ announced' = announced
      BY <1>4 DEF TimeOut, Leave, hub, link, daemon, HubTyped, LinkTyped, DaemonTyped,
                  DownTyped, UpTyped
    <2> QED BY <2>1, <2>2
  <1>5. ASSUME NEW c \in Conns, ReceiveDaemonEnvelope(c) PROVE TypeOK'
    <2>1. UpTyped' /\ Head(up[c]) \in ToHub
      BY <1>5, TailTyped DEF ReceiveDaemonEnvelope, UpTyped
    <2>2. Head(up[c]).type \in Ends
      BY <2>1 DEF ToHub, Frames, Ends
    <2>3. LedgerTyped'
      BY <1>5, <2>2, ConcludeTyped DEF ReceiveDaemonEnvelope
    <2>4. /\ HubTyped' /\ LinkTyped' /\ DaemonTyped' /\ DownTyped'
          /\ announced' = announced
      BY <1>5 DEF ReceiveDaemonEnvelope, hub, link, daemon, HubTyped, LinkTyped,
                  DaemonTyped, DownTyped
    <2> QED BY <2>1, <2>3, <2>4
  <1> QED BY <1>1, <1>2, <1>3, <1>4, <1>5

LEMMA HandlersTyped ==
    ASSUME TypeOK,
           \/ \E c \in Conns : Receive(c) \/ MirrorTerminalEventToInject(c)
           \/ \E r \in Requests : \/ Answer(r) \/ Begin(r) \/ InjectRouted(r)
                                  \/ SyncFinished(r) \/ Release(r) \/ Expire(r)
    PROVE  TypeOK'
  <1> USE TypeParts
  <1>1. ASSUME NEW c \in Conns, Receive(c) PROVE TypeOK'
    <2> DEFINE frame == Head(down[c])
    <2>1. DownTyped'
      BY <1>1, TailTyped, EmptyTyped DEF Receive, DownTyped
    <2>2. LinkTyped'
      BY <1>1 DEF Receive, LinkTyped
    <2>3. DaemonTyped'
      BY <1>1 DEF Receive, DaemonTyped
    <2>4. HubTyped' /\ LedgerTyped' /\ UpTyped' /\ announced' = announced
      BY <1>1 DEF Receive, hub, ledger, HubTyped, LedgerTyped, UpTyped
    <2> QED BY <2>1, <2>2, <2>3, <2>4
  <1>2. ASSUME NEW c \in Conns, MirrorTerminalEventToInject(c) PROVE TypeOK'
    <2>1. PICK r \in mirrors, how \in {"done", "failed"} :
              mirrors' = mirrors \ {r} /\ Reply(r, c, how)
      BY <1>2 DEF MirrorTerminalEventToInject
    <2>2. UpTyped'
      BY <2>1, ReplyTyped DEF DaemonTyped, Requests, Streams
    <2>3. DaemonTyped'
      BY <1>2, <2>1 DEF MirrorTerminalEventToInject, DaemonTyped
    <2>4. HubTyped' /\ LedgerTyped' /\ LinkTyped' /\ DownTyped' /\ announced' = announced
      BY <1>2 DEF MirrorTerminalEventToInject, hub, ledger, link, HubTyped, LedgerTyped,
                  LinkTyped, DownTyped
    <2> QED BY <2>2, <2>3, <2>4
  <1>3. ASSUME NEW r \in Requests,
               Answer(r) \/ Begin(r) \/ InjectRouted(r) \/ SyncFinished(r) \/ Release(r)
               \/ Expire(r)
        PROVE  TypeOK'
    <2>1. HubTyped' /\ LedgerTyped' /\ LinkTyped' /\ DownTyped' /\ announced' = announced
      BY <1>3 DEF Answer, Begin, InjectRouted, SyncFinished, Release, Expire,
                  hub, ledger, link, HubTyped, LedgerTyped, LinkTyped, DownTyped
    <2>2. DaemonTyped'
      BY <1>3 DEF Answer, Begin, InjectRouted, SyncFinished, Release, Expire, Exit,
                  DaemonTyped, None
    <2>3. UpTyped'
      <3>1. \/ UNCHANGED up
            \/ \E how \in {"done", "failed"} : Reply(r, via[r], how)
        BY <1>3 DEF Answer, Begin, InjectRouted, SyncFinished, Release, Expire
      <3> QED BY <3>1, ReplyTyped DEF UpTyped
    <2> QED BY <2>1, <2>2, <2>3
  <1> QED BY <1>1, <1>2, <1>3

LEMMA NextTyped == TypeOK /\ [Next]_vars => TypeOK'
  <1> SUFFICES ASSUME TypeOK, [Next]_vars PROVE TypeOK'
    OBVIOUS
  <1>1. CASE UNCHANGED vars
    BY <1>1 DEF vars, hub, ledger, link, daemon, TypeOK
  <1>2. CASE Next
    <2>1. CASE Dial \/ Restart
      BY <2>1, LoopTyped
    <2>2. ASSUME NEW c \in Conns, Connection(c) PROVE TypeOK'
      BY <2>2, LoopTyped, RegistryTyped, RequestsTyped, HandlersTyped DEF Connection
    <2>3. ASSUME NEW r \in Requests, Request(r) PROVE TypeOK'
      BY <2>3, RequestsTyped, HandlersTyped DEF Request
    <2> QED BY <1>2, <2>1, <2>2, <2>3 DEF Next
  <1> QED BY <1>1, <1>2

\* The variables keep their types: what the hub and the daemon send each other
\* names a request or none, on a connection that was dialed.
THEOREM TypeCorrect == Spec => []TypeOK
  BY InitTyped, NextTyped, PTL DEF Spec

-----------------------------------------------------------------------------
(* The requests. All that any action does to the hub's entries is one of    *)
(* four things.                                                             *)

Refused(r) ==
    /\ told[r] = "none" /\ r \notin entries
    /\ \E how \in Ends : told' = [told EXCEPT ![r] = how]
    /\ UNCHANGED <<entries, timers>>

Entered(r) ==
    /\ told[r] = "none" /\ r \notin entries
    /\ Enter(r) /\ UNCHANGED told

LedgerStep ==
    \/ UNCHANGED <<entries, timers, told>>
    \/ \E S \in SUBSET Requests, how \in Ends : S \subseteq entries /\ Conclude(S, how)
    \/ \E r \in Requests : Refused(r) \/ Entered(r)

LEMMA NextLedger ==
    ASSUME TypeOK, EntryIsTimed, [Next]_vars
    PROVE  LedgerStep
  <1>0. entries \subseteq Requests /\ timers = entries
    BY DEF TypeOK, EntryIsTimed
  <1>1. CASE UNCHANGED vars
    BY <1>1 DEF vars, ledger, LedgerStep
  <1>2. CASE Dial \/ Restart
    BY <1>2 DEF Dial, Restart, ledger, LedgerStep
  <1>3. ASSUME NEW c \in Conns, Connection(c) PROVE LedgerStep
    <2>1. CASE OnDaemonConnectionClosed(c)
      <3>1. Conclude(entries \cap Streams, "lost") /\ "lost" \in Ends
        BY <2>1 DEF OnDaemonConnectionClosed, Ends
      <3> QED BY <1>0, <3>1 DEF LedgerStep
    <2>2. CASE ReceiveDaemonEnvelope(c)
      <3>1. Head(up[c]) \in ToHub
        BY <2>2, TailTyped DEF ReceiveDaemonEnvelope, TypeOK, ToHub
      <3>2. Head(up[c]).type \in Ends
        BY <3>1 DEF ToHub, Frames, Ends
      <3>3. Conclude({Head(up[c]).id} \cap entries, Head(up[c]).type)
        BY <2>2 DEF ReceiveDaemonEnvelope
      <3> QED BY <1>0, <3>2, <3>3 DEF LedgerStep
    <2>3. CASE GiveUp(c) \/ LinkDies(c) \/ ReadFails(c) \/ RegisterDaemonConnection(c)
               \/ Receive(c) \/ MirrorTerminalEventToInject(c)
      BY <2>3 DEF GiveUp, LinkDies, ReadFails, RegisterDaemonConnection, Receive,
                  MirrorTerminalEventToInject, ledger, LedgerStep
    <2> QED BY <1>3, <2>1, <2>2, <2>3 DEF Connection
  <1>4. ASSUME NEW r \in Requests, Request(r) PROVE LedgerStep
    <2>1. CASE Ask(r)
      <3>1. Refused(r) \/ Entered(r)
        BY <2>1 DEF Ask, Refused, Entered, Ends
      <3> QED BY <3>1 DEF LedgerStep
    <2>2. CASE AskFails(r)
      <3>1. Refused(r)
        BY <2>2 DEF AskFails, Refused, Ends
      <3> QED BY <3>1 DEF LedgerStep
    <2>3. CASE TimeOut(r) \/ Leave(r)
      <3>1. r \in entries /\ \E how \in Ends : Conclude({r}, how)
        BY <1>0, <2>3 DEF TimeOut, Leave, Ends
      <3> QED BY <3>1 DEF LedgerStep
    <2>4. CASE CancelInject(r) \/ Answer(r) \/ Begin(r) \/ InjectRouted(r)
               \/ SyncFinished(r) \/ Release(r) \/ Expire(r)
      BY <2>4 DEF CancelInject, Answer, Begin, InjectRouted, SyncFinished, Release,
                  Expire, ledger, LedgerStep
    <2> QED BY <1>4, <2>1, <2>2, <2>3, <2>4 DEF Request
  <1> QED BY <1>1, <1>2, <1>3, <1>4 DEF Next

LEMMA NextTimed ==
    ASSUME TypeOK, EntryIsTimed, [Next]_vars
    PROVE  EntryIsTimed'
  <1>1. CASE UNCHANGED <<entries, timers, told>>
    BY <1>1 DEF EntryIsTimed
  <1>2. ASSUME NEW S \in SUBSET Requests, NEW how \in Ends, S \subseteq entries,
               Conclude(S, how)
        PROVE  EntryIsTimed'
    BY <1>2 DEF EntryIsTimed, Conclude, TypeOK
  <1>3. ASSUME NEW r \in Requests, Refused(r) PROVE EntryIsTimed'
    BY <1>3 DEF EntryIsTimed, Refused, TypeOK
  <1>4. ASSUME NEW r \in Requests, Entered(r) PROVE EntryIsTimed'
    BY <1>4 DEF EntryIsTimed, Entered, Enter, TypeOK
  <1> QED BY <1>1, <1>2, <1>3, <1>4, NextLedger DEF LedgerStep

\* A request the hub still holds has its timer running and was told no end,
\* however the answers, the timers, the browsers and the connections interleave.
THEOREM EveryEntryIsTimed == Spec => []EntryIsTimed
  <1>1. Init => EntryIsTimed
    BY DEF Init, EntryIsTimed
  <1>2. TypeOK /\ EntryIsTimed /\ [Next]_vars => EntryIsTimed'
    BY NextTimed
  <1> QED BY <1>1, <1>2, TypeCorrect, PTL DEF Spec

Phases == {"new", "open"} \cup Ends

LEMMA PhaseTyped ==
    /\ TypeOK => Phase \in [Requests -> Phases]
    /\ TypeOK' => Phase' \in [Requests -> Phases]
  BY DEF TypeOK, Phase, Phases

LEMMA PhaseOf ==
    \A r \in Requests :
        /\ told[r] # "none" => Phase[r] = told[r]
        /\ told[r] = "none" /\ r \in entries => Phase[r] = "open"
        /\ told[r] = "none" /\ r \notin entries => Phase[r] = "new"
        /\ told'[r] # "none" => Phase'[r] = told'[r]
        /\ told'[r] = "none" /\ r \in entries' => Phase'[r] = "open"
        /\ told'[r] = "none" /\ r \notin entries' => Phase'[r] = "new"
  BY DEF Phase

LEMMA StepLives ==
    ASSUME TypeOK, TypeOK', EntryIsTimed, [Next]_vars
    PROVE  [Life!Next]_Phase
  <1> SUFFICES ASSUME NEW r \in Requests
               PROVE  Phase'[r] = Phase[r] \/ Life!Accept(r) \/ Life!End(r)
    BY PhaseTyped DEF Life!Next, Phases
  <1>0. told[r] \in Ends \cup {"none"} /\ "none" \notin Ends /\ told \in [Requests -> Ends \cup {"none"}]
    BY DEF TypeOK, Ends
  <1>1. CASE UNCHANGED <<entries, timers, told>>
    BY <1>1 DEF Phase
  <1>2. ASSUME NEW S \in SUBSET Requests, NEW how \in Ends, S \subseteq entries,
               Conclude(S, how)
        PROVE  Phase'[r] = Phase[r] \/ Life!End(r)
    <2>1. CASE r \in S
      <3>1. Phase[r] = "open"
        BY <1>2, <2>1, PhaseOf DEF EntryIsTimed
      <3>2. Phase'[r] = how
        BY <1>0, <1>2, <2>1, PhaseOf DEF Conclude
      <3> QED BY <3>1, <3>2 DEF Life!End
    <2>2. CASE r \notin S
      <3>1. told'[r] = told[r] /\ (r \in entries' <=> r \in entries)
        BY <1>2, <2>2 DEF Conclude
      <3> QED BY <3>1, PhaseOf
    <2> QED BY <2>1, <2>2
  <1>3. ASSUME NEW q \in Requests, Refused(q)
        PROVE  Phase'[r] = Phase[r] \/ Life!End(r)
    <2>1. CASE r = q
      <3>1. Phase[r] = "new"
        BY <1>3, <2>1, PhaseOf DEF Refused
      <3>2. Phase'[r] \in Ends
        BY <1>0, <1>3, <2>1, PhaseOf DEF Refused
      <3> QED BY <3>1, <3>2 DEF Life!End
    <2>2. CASE r # q
      <3>1. told'[r] = told[r] /\ (r \in entries' <=> r \in entries)
        BY <1>0, <1>3, <2>2 DEF Refused
      <3> QED BY <3>1, PhaseOf
    <2> QED BY <2>1, <2>2
  <1>4. ASSUME NEW q \in Requests, Entered(q)
        PROVE  Phase'[r] = Phase[r] \/ Life!Accept(r)
    <2>1. CASE r = q
      <3>1. Phase[r] = "new" /\ Phase'[r] = "open"
        BY <1>4, <2>1, PhaseOf DEF Entered, Enter
      <3> QED BY <3>1 DEF Life!Accept
    <2>2. CASE r # q
      <3>1. told'[r] = told[r] /\ (r \in entries' <=> r \in entries)
        BY <1>4, <2>2 DEF Entered, Enter
      <3> QED BY <3>1, PhaseOf
    <2> QED BY <2>1, <2>2
  <1> QED BY <1>1, <1>2, <1>3, <1>4, NextLedger DEF LedgerStep

\* The hub implements RequestLife: what a client was told of its request is
\* final, and an entry ends in one outcome, whatever is late or lost.
THEOREM HubImplementsLife == Spec => RequestsLive
  <1>1. Init => Life!Init
    BY DEF Init, Life!Init, Phase
  <1>2. TypeOK /\ TypeOK' /\ EntryIsTimed /\ [Next]_vars => [Life!Next]_Phase
    BY StepLives
  <1> QED BY <1>1, <1>2, TypeCorrect, EveryEntryIsTimed, PTL
          DEF Spec, RequestsLive, Life!Spec

-----------------------------------------------------------------------------
(* The registry. That the connections not yet dialed are unknown to the hub *)
(* is what makes RegistryIsCurrent inductive.                               *)

Undialed == \A c \in Conns : c > dialed => stage[c] = "none"

Registry == RegistryIsCurrent /\ Undialed

LEMMA NextRegistry ==
    ASSUME TypeOK, Registry, [Next]_vars
    PROVE  Registry'
  <1> USE HubAssumption DEF Registry, RegistryIsCurrent, Undialed, Conns, None
  <1>0. /\ dialed \in 0..MaxConns /\ online \in Conns \cup {None}
        /\ stage \in [Conns -> {"none", "asked", "registered", "closing", "closed"}]
    BY DEF TypeOK
  <1>1. CASE UNCHANGED <<online, stage, dialed>>
    BY <1>1
  <1>2. CASE Dial
    BY <1>0, <1>2 DEF Dial
  <1>3. ASSUME NEW c \in Conns, RegisterDaemonConnection(c) PROVE Registry'
    <2>1. /\ stage[c] = "asked" /\ online' = c /\ dialed' = dialed
          /\ stage' = [d \in Conns |-> IF d = c THEN "registered"
                                       ELSE IF d = online THEN "closing" ELSE stage[d]]
      BY <1>3 DEF RegisterDaemonConnection
    <2> QED BY <1>0, <2>1
  <1>4. ASSUME NEW c \in Conns, OnDaemonConnectionClosed(c) PROVE Registry'
    <2>1. /\ stage[c] \in {"registered", "closing"} /\ dialed' = dialed
          /\ stage' = [stage EXCEPT ![c] = "closed"]
          /\ online' = IF online = c THEN None ELSE online
      BY <1>4 DEF OnDaemonConnectionClosed, SocketCloses, DropConnection
    <2> QED BY <1>0, <2>1
  <1>5. ASSUME NEW c \in Conns,
               \/ GiveUp(c) \/ LinkDies(c) \/ ReadFails(c) \/ ReceiveDaemonEnvelope(c)
               \/ Receive(c) \/ MirrorTerminalEventToInject(c)
        PROVE  Registry'
    BY <1>1, <1>5 DEF GiveUp, LinkDies, ReadFails, ReceiveDaemonEnvelope, Receive,
                      MirrorTerminalEventToInject, hub, link
  <1>6. ASSUME NEW r \in Requests, Request(r) PROVE Registry'
    BY <1>1, <1>6 DEF Request, Ask, AskFails, CancelInject, TimeOut, Leave, Answer, Begin,
                      InjectRouted, SyncFinished, Release, Expire, hub, link
  <1>7. CASE Restart
    BY <1>1, <1>7 DEF Restart, hub
  <1>8. CASE UNCHANGED vars
    BY <1>1, <1>8 DEF vars, hub, link
  <1> QED BY <1>2, <1>3, <1>4, <1>5, <1>6, <1>7, <1>8 DEF Next, Connection

\* The registry holds the connection that was neither replaced nor closed, in
\* whatever order handshakes and close events come.
THEOREM RegistryStaysCurrent == Spec => []RegistryIsCurrent
  <1>1. Init => Registry
    BY HubAssumption DEF Init, Registry, RegistryIsCurrent, Undialed, Conns, None
  <1>2. TypeOK /\ Registry /\ [Next]_vars => Registry'
    BY NextRegistry
  <1>3. Registry => RegistryIsCurrent
    BY DEF Registry
  <1> QED BY <1>1, <1>2, <1>3, TypeCorrect, PTL DEF Spec

LEMMA NextPresence ==
    ASSUME TypeOK, PresenceIsCurrent, [Next]_vars
    PROVE  PresenceIsCurrent'
  <1>1. CASE UNCHANGED <<online, announced>>
    BY <1>1, Zenon DEF PresenceIsCurrent
  <1>2. ASSUME NEW c \in Conns, RegisterDaemonConnection(c) PROVE PresenceIsCurrent'
    <2>1. online' # None
      BY <1>2, HubAssumption DEF RegisterDaemonConnection, Conns, None
    <2>2. announced'
      BY <1>2, Zenon DEF RegisterDaemonConnection
    <2> QED BY <2>1, <2>2, Zenon DEF PresenceIsCurrent
  <1>3. ASSUME NEW c \in Conns, OnDaemonConnectionClosed(c) PROVE PresenceIsCurrent'
    BY <1>3, Zenon DEF OnDaemonConnectionClosed, DropConnection, PresenceIsCurrent
  <1>4. \/ UNCHANGED <<online, announced>>
        \/ \E c \in Conns : RegisterDaemonConnection(c) \/ OnDaemonConnectionClosed(c)
    <2>1. ASSUME NEW c \in Conns,
                 \/ GiveUp(c) \/ LinkDies(c) \/ ReadFails(c) \/ ReceiveDaemonEnvelope(c)
                 \/ Receive(c) \/ MirrorTerminalEventToInject(c)
          PROVE  UNCHANGED <<online, announced>>
      BY <2>1 DEF GiveUp, LinkDies, ReadFails, ReceiveDaemonEnvelope, Receive,
                  MirrorTerminalEventToInject, hub
    <2>2. ASSUME NEW r \in Requests, Request(r) PROVE UNCHANGED <<online, announced>>
      BY <2>2 DEF Request, Ask, AskFails, CancelInject, TimeOut, Leave, Answer, Begin,
                  InjectRouted, SyncFinished, Release, Expire, hub
    <2>3. CASE Dial \/ Restart
      BY <2>3 DEF Dial, Restart, hub
    <2>4. CASE UNCHANGED vars
      BY <2>4 DEF vars, hub
    <2> QED BY <2>1, <2>2, <2>3, <2>4 DEF Next, Connection
  <1> QED BY <1>1, <1>2, <1>3, <1>4

\* Browsers are told the device is connected exactly while the hub has a
\* connection of it.
THEOREM PresenceStaysCurrent == Spec => []PresenceIsCurrent
  <1>1. Init => PresenceIsCurrent
    BY Zenon DEF Init, PresenceIsCurrent
  <1>2. TypeOK /\ PresenceIsCurrent /\ [Next]_vars => PresenceIsCurrent'
    BY NextPresence
  <1> QED BY <1>1, <1>2, TypeCorrect, PTL DEF Spec

\* What the hub knows of the device, and what browsers were told of it, follow
\* its connections.
THEOREM DeviceStaysCurrent == Spec => []DeviceIsCurrent
  <1>1. RegistryIsCurrent /\ PresenceIsCurrent => DeviceIsCurrent
    BY DEF DeviceIsCurrent
  <1> QED BY <1>1, RegistryStaysCurrent, PresenceStaysCurrent, PTL

-----------------------------------------------------------------------------
(* The daemon's slot *)

\* No action but Begin, on a free slot, makes a request active.
LEMMA NextActive ==
    ASSUME TypeOK, [Next]_vars
    PROVE  \/ Active' \subseteq Active
           \/ Active = {} /\ \E r \in Streams : Active' \subseteq {r}
  <1>0. work \in [Requests -> {"idle", "spawned", "active", "leaving", "over"}]
        /\ Streams \subseteq Requests
    BY DEF TypeOK, Requests
  <1>1. CASE UNCHANGED work
    BY <1>1 DEF Active
  <1>2. CASE Restart
    BY <1>0, <1>2 DEF Restart, Active
  <1>3. ASSUME NEW c \in Conns, Receive(c) PROVE Active' \subseteq Active
    BY <1>0, <1>3 DEF Receive, Active
  <1>4. ASSUME NEW r \in Requests, Begin(r)
        PROVE  \/ Active' \subseteq Active
               \/ Active = {} /\ \E q \in Streams : Active' \subseteq {q}
    <2>1. CASE Busy(r)
      BY <1>0, <1>4, <2>1 DEF Begin, Exit, Active
    <2>2. CASE ~Busy(r)
      <3>1. Active = {} /\ r \in Streams /\ work' = [work EXCEPT ![r] = "active"]
        BY <1>4, <2>2 DEF Begin, Busy
      <3>2. Active' \subseteq {r}
        BY <1>0, <3>1 DEF Active
      <3> QED BY <3>1, <3>2
    <2> QED BY <2>1, <2>2
  <1>5. ASSUME NEW r \in Requests,
               \/ Answer(r) \/ InjectRouted(r) \/ SyncFinished(r) \/ Release(r)
        PROVE  Active' \subseteq Active
    BY <1>0, <1>5 DEF Answer, InjectRouted, SyncFinished, Release, Exit, Active
  <1>6. ASSUME NEW r \in Requests,
               \/ Ask(r) \/ AskFails(r) \/ CancelInject(r) \/ TimeOut(r) \/ Leave(r)
               \/ Expire(r)
        PROVE  UNCHANGED work
    BY <1>6 DEF Ask, AskFails, CancelInject, TimeOut, Leave, Expire, daemon
  <1>7. ASSUME NEW c \in Conns,
               \/ GiveUp(c) \/ LinkDies(c) \/ ReadFails(c) \/ ReceiveDaemonEnvelope(c)
               \/ RegisterDaemonConnection(c) \/ OnDaemonConnectionClosed(c)
               \/ MirrorTerminalEventToInject(c)
        PROVE  UNCHANGED work
    BY <1>7 DEF GiveUp, LinkDies, ReadFails, ReceiveDaemonEnvelope,
                RegisterDaemonConnection, OnDaemonConnectionClosed,
                MirrorTerminalEventToInject, daemon
  <1>8. CASE Dial \/ UNCHANGED vars
    BY <1>1, <1>8 DEF Dial, vars, daemon
  <1> QED BY <1>1, <1>2, <1>3, <1>4, <1>5, <1>6, <1>7, <1>8 DEF Next, Connection, Request

\* The daemon works on one inject or sync at a time, also across reconnects and
\* restarts.
THEOREM SlotIsExclusive == Spec => []OneAtATime
  <1>1. Init => OneAtATime
    BY DEF Init, OneAtATime, Active, Requests
  <1>2. TypeOK /\ OneAtATime /\ [Next]_vars => OneAtATime'
    BY NextActive DEF OneAtATime
  <1> QED BY <1>1, <1>2, TypeCorrect, PTL DEF Spec
=============================================================================
