-------------------------- MODULE SDKManagerProofs --------------------------
(***************************************************************************)
(* Proofs for SDKManager: whatever the order in which EnsureDriver, the    *)
(* exit watcher, a failing Start and the reaper edit Manager.drivers, no   *)
(* running subprocess is orphaned and, while the web stops no session, no  *)
(* entry is pinned to a closed one; a prompt reaches at most one           *)
(* subprocess, and one reported completed reaches its driver unless        *)
(* something the daemon does not control took that driver away.            *)
(***************************************************************************)
EXTENDS SDKManager, SequenceTheorems, FiniteSetTheorems, TLAPS

-----------------------------------------------------------------------------
(* The inductive invariant *)

\* What is known of a driver from the state of its subprocess.
DriverPhases ==
    \A d \in Drivers :
        /\ drv[d].done => drv[d].proc = "exited"
        /\ drv[d].idle => drv[d].proc # "none"
        /\ drv[d].proc # "none" => drv[d].sid \in Sids

\* What a caller holds while it is at work.
CallerPhases ==
    \A c \in Callers :
        /\ Active(c) => cl[c].sid \in Sids
        /\ cl[c].pc \in {"start", "subscribe"} => cl[c].drv # 0 /\ cl[c].ext # 0
        /\ cl[c].pc \in {"failed", "send", "broadcast"} => cl[c].ext # 0
        /\ cl[c].pc \in {"send", "broadcast"} => c \in Injects

\* A driver whose Start has not spawned yet is its session's, and nobody else
\* is starting it: it is neither done nor idle, so it is not replaced, forgotten
\* or reaped.
StartingIsEntered ==
    \A c \in Callers : cl[c].pc = "start" =>
        /\ drv[cl[c].drv].sid = cl[c].sid
        /\ drv[cl[c].drv].proc = "none"
        /\ drivers[cl[c].sid].driver = cl[c].drv
        /\ drivers[cl[c].sid].ext = cl[c].ext

OneStarter ==
    \A b, c \in Callers :
        cl[b].pc = "start" /\ cl[c].pc = "start" /\ cl[b].drv = cl[c].drv => b = c

Inv ==
    /\ TypeOK
    /\ DriverPhases /\ CallerPhases /\ StartingIsEntered /\ OneStarter
    /\ SubprocessIsOwned

LEMMA InvInit == Init => Inv
  BY SDKAssumption
  DEF Init, Inv, TypeOK, DriverPhases, CallerPhases, StartingIsEntered, OneStarter,
      SubprocessIsOwned, NoEntry, Unused, NoExt, Idle, Pcs, Answers, PumpStates, Active, Running,
      DriverRec, ExtRec, CallerRec

-----------------------------------------------------------------------------
(* What the actions other than EnsureNew may do to the invariant's parts *)

TypeParts ==
    /\ drivers' \in [Sids -> [driver : Drivers \cup {0}, ext : Exts \cup {0}]]
    /\ drv' \in [Drivers -> DriverRec]
    /\ ext' \in [Exts -> ExtRec]
    /\ sidIndex' \in [Sids -> Exts \cup {0}]
    /\ victims' \subseteq Drivers
    /\ cl' \in [Callers -> CallerRec]
    /\ got' \in [Injects -> SUBSET Drivers]

\* A caller stays, or moves to a place that is not the beginning of Start.
CallersMove ==
    \A c \in Callers :
        \/ cl'[c] = cl[c]
        \/ /\ cl'[c].pc # "start"
           /\ cl'[c].pc \notin {"idle", "done"} => cl'[c].sid \in Sids
           /\ cl'[c].pc = "subscribe" => cl'[c].drv # 0 /\ cl'[c].ext # 0
           /\ cl'[c].pc \in {"failed", "send", "broadcast"} => cl'[c].ext # 0
           /\ cl'[c].pc \in {"send", "broadcast"} => c \in Injects

Starting(d) == \E c \in Callers : cl[c].pc = "start" /\ cl[c].drv = d

\* A driver keeps its session.
SessionsKept == \A d \in Drivers : drv'[d].sid = drv[d].sid /\ drv'[d].ext = drv[d].ext

\* A driver comes to run only as its session's driver.
DriversMove ==
    \A d \in Drivers :
        /\ drv'[d].done => drv'[d].proc = "exited"
        /\ drv'[d].idle => drv'[d].proc # "none"
        /\ drv'[d].proc # "none" => drv[d].sid \in Sids /\ (drv[d].proc # "none" \/ ~Starting(d)')
        /\ drv'[d].proc = "running" /\ ~drv'[d].cancelled =>
             \/ drv[d].proc = "running" /\ ~drv[d].cancelled /\ (d \in victims => d \in victims')
             \/ drivers'[drv[d].sid].driver = d

\* An entry stays, or loses a driver that is not running and not starting, or
\* that the reaper has in hand.
EntriesMove ==
    \A s \in Sids :
        \/ drivers'[s].driver = drivers[s].driver /\ drivers'[s].ext = drivers[s].ext
        \/ /\ drivers'[s].driver = 0
           /\ \A d \in Drivers : drivers[s].driver = d => d \in victims' \/ drv'[d].proc # "running"
           /\ \A c \in Callers : ~(cl'[c].pc = "start" /\ cl'[c].sid = s)

LEMMA Moves ==
  ASSUME Inv, TypeParts, CallersMove, SessionsKept, DriversMove, EntriesMove
  PROVE  Inv'
  <1> USE SDKAssumption DEF Inv, TypeOK, TypeParts
  <1>1. TypeOK'
    <2>1. ASSUME NEW s \in Sids, drivers'[s].driver # 0
          PROVE  LET d == drivers'[s].driver IN
                 drv'[d].sid = s /\ drv'[d].ext = drivers'[s].ext /\ drv'[d].ext # 0
      <3>1. drivers'[s].driver = drivers[s].driver /\ drivers'[s].ext = drivers[s].ext
        BY <2>1 DEF EntriesMove
      <3>2. drivers[s].driver \in Drivers
        BY <2>1, <3>1
      <3>3. /\ drv'[drivers[s].driver].sid = drv[drivers[s].driver].sid
            /\ drv'[drivers[s].driver].ext = drv[drivers[s].driver].ext
        BY <3>2 DEF SessionsKept
      <3>4. /\ drv[drivers[s].driver].sid = s
            /\ drv[drivers[s].driver].ext = drivers[s].ext
            /\ drv[drivers[s].driver].ext # 0
        BY <2>1, <3>1
      <3>5. QED
        BY <3>1, <3>3, <3>4
    <2>2. QED
      BY <2>1
  <1>2. DriverPhases'
    BY DEF SessionsKept, DriversMove, DriverPhases
  <1>3. CallerPhases'
    BY DEF CallersMove, CallerPhases, Active
  <1>4. \A c \in Callers : cl'[c].pc = "start" => cl'[c] = cl[c]
    BY DEF CallersMove
  <1>5. OneStarter'
    BY <1>4 DEF OneStarter
  <1>6. StartingIsEntered'
    <2> SUFFICES ASSUME NEW c \in Callers, cl'[c].pc = "start"
                 PROVE  /\ drv'[cl'[c].drv].sid = cl'[c].sid
                        /\ drv'[cl'[c].drv].proc = "none"
                        /\ drivers'[cl'[c].sid].driver = cl'[c].drv
                        /\ drivers'[cl'[c].sid].ext = cl'[c].ext
      BY DEF StartingIsEntered
    <2>1. /\ cl'[c] = cl[c] /\ cl[c].sid \in Sids /\ cl[c].drv \in Drivers
          /\ drv[cl[c].drv].sid = cl[c].sid
          /\ drv[cl[c].drv].proc = "none"
          /\ drivers[cl[c].sid].driver = cl[c].drv
          /\ drivers[cl[c].sid].ext = cl[c].ext
      BY <1>4 DEF CallerRec, StartingIsEntered, CallerPhases, Active
    <2>2. /\ drivers'[cl[c].sid].driver = drivers[cl[c].sid].driver
          /\ drivers'[cl[c].sid].ext = drivers[cl[c].sid].ext
      BY <2>1 DEF EntriesMove
    <2>3. drv'[cl[c].drv].proc = "none"
      <3>1. Starting(cl[c].drv)'
        BY <2>1 DEF Starting
      <3>2. QED
        BY <2>1, <3>1 DEF DriversMove
    <2>4. drv'[cl[c].drv].sid = drv[cl[c].drv].sid
      BY <2>1 DEF SessionsKept
    <2>5. QED
      BY <2>1, <2>2, <2>3, <2>4
  <1>7. SubprocessIsOwned'
    <2> SUFFICES ASSUME NEW d \in Drivers, drv'[d].proc = "running", ~drv'[d].cancelled,
                        drivers'[drv[d].sid].driver # d
                 PROVE  d \in victims'
      BY DEF SubprocessIsOwned, Running, SessionsKept
    <2>1. /\ drv[d].sid \in Sids /\ drv[d].proc = "running" /\ ~drv[d].cancelled
          /\ d \in victims => d \in victims'
      BY Zenon DEF DriversMove
    <2>2. d \in victims \/ drivers[drv[d].sid].driver = d
      BY <2>1 DEF SubprocessIsOwned, Running
    <2>3. ASSUME drivers[drv[d].sid].driver = d PROVE d \in victims'
      <3>1. drivers'[drv[d].sid].driver # drivers[drv[d].sid].driver
        BY <2>3
      <3>2. \A f \in Drivers : drivers[drv[d].sid].driver = f => f \in victims' \/ drv'[f].proc # "running"
        BY <2>1, <3>1 DEF EntriesMove
      <3>3. QED
        BY <2>3, <3>2
    <2>4. QED
      BY <2>1, <2>2, <2>3
  <1>8. QED
    BY <1>1, <1>2, <1>3, <1>5, <1>6, <1>7

\* Updates of a driver record keep its type.
LEMMA DriverUpdates ==
  ASSUME NEW r \in DriverRec
  PROVE  /\ \A v \in {"running", "exited"} : [r EXCEPT !.proc = v] \in DriverRec
         /\ \A v \in {"on", "off"} : [r EXCEPT !.pump = v, !.watched = TRUE] \in DriverRec
         /\ [r EXCEPT !.pump = "off"] \in DriverRec
         /\ [r EXCEPT !.watched = FALSE] \in DriverRec
         /\ [r EXCEPT !.idle = TRUE] \in DriverRec
         /\ [r EXCEPT !.cancelled = TRUE] \in DriverRec
         /\ [r EXCEPT !.cancelled = TRUE, !.done = TRUE] \in DriverRec
         /\ \A q \in Seq(Injects) :
              /\ [r EXCEPT !.queue = q] \in DriverRec
              /\ [r EXCEPT !.work = q, !.inFlight = FALSE, !.idle = FALSE] \in DriverRec
              /\ [r EXCEPT !.queue = q, !.inFlight = TRUE, !.idle = FALSE] \in DriverRec
  BY DEF DriverRec, PumpStates

\* Updates of a caller record keep its type.
LEMMA CallerUpdates ==
  ASSUME NEW r \in CallerRec
  PROVE  /\ \A v \in Pcs : [r EXCEPT !.pc = v] \in CallerRec
         /\ \A v \in Pcs, a \in Answers : [r EXCEPT !.pc = v, !.ans = a] \in CallerRec
  BY DEF CallerRec

Readied(r, v) == [r EXCEPT !.pump = v, !.watched = TRUE]

LEMMA DriverReady ==
  ASSUME NEW r \in DriverRec, NEW v \in {"on", "off"}
  PROVE  /\ Readied(r, v) \in DriverRec
         /\ Readied(r, v).sid = r.sid /\ Readied(r, v).ext = r.ext
         /\ Readied(r, v).proc = r.proc /\ Readied(r, v).cancelled = r.cancelled
         /\ Readied(r, v).done = r.done /\ Readied(r, v).idle = r.idle
  BY DEF Readied, DriverRec, PumpStates

\* The driver ensureDriver makes.
Fresh(s, e) == [Unused EXCEPT !.sid = s, !.ext = e]

LEMMA FreshDriver ==
  ASSUME NEW s \in Sids, NEW e \in Exts
  PROVE  /\ Fresh(s, e) \in DriverRec /\ Fresh(s, e).sid = s /\ Fresh(s, e).ext = e
         /\ Fresh(s, e).proc = "none" /\ Fresh(s, e).done = FALSE /\ Fresh(s, e).idle = FALSE
  <1>1. Unused \in DriverRec
    BY DEF DriverRec, PumpStates, Unused
  <1>2. ASSUME NEW r \in DriverRec
        PROVE  LET q == [r EXCEPT !.sid = s, !.ext = e]
               IN  /\ q \in DriverRec /\ q.sid = s /\ q.ext = e /\ q.proc = r.proc
                   /\ q.done = r.done /\ q.idle = r.idle
    BY DEF DriverRec
  <1>3. Unused.proc = "none" /\ Unused.done = FALSE /\ Unused.idle = FALSE
    BY DEF Unused
  <1>4. QED
    BY <1>1, <1>2, <1>3 DEF Fresh

LEMMA FreshStep ==
  ASSUME drv \in [Drivers -> DriverRec], NEW d \in Drivers, NEW s \in Sids, NEW e \in Exts,
         drv' = [drv EXCEPT ![d] = Fresh(s, e)]
  PROVE  /\ drv'[d].sid = s /\ drv'[d].ext = e /\ drv'[d].proc = "none"
         /\ drv'[d].done = FALSE /\ drv'[d].idle = FALSE
         /\ drv' \in [Drivers -> DriverRec]
         /\ \A f \in Drivers \ {d} : drv'[f] = drv[f]
  <1>1. PICK r \in DriverRec : /\ r = Fresh(s, e) /\ r.sid = s /\ r.ext = e /\ r.proc = "none"
                               /\ r.done = FALSE /\ r.idle = FALSE
    BY FreshDriver
  <1>2. QED
    BY <1>1

\* The fields of a driver that the invariant speaks of, but for idle.
Same(x, r) ==
    /\ x \in DriverRec /\ x.sid = r.sid /\ x.ext = r.ext /\ x.proc = r.proc
    /\ x.cancelled = r.cancelled /\ x.done = r.done

LEMMA PumpStops ==
  ASSUME NEW r \in DriverRec
  PROVE  Same([r EXCEPT !.pump = "off"], r) /\ [r EXCEPT !.pump = "off"].idle = r.idle
  BY DEF Same, DriverRec, PumpStates

LEMMA Unwatched ==
  ASSUME NEW r \in DriverRec
  PROVE  Same([r EXCEPT !.watched = FALSE], r) /\ [r EXCEPT !.watched = FALSE].idle = r.idle
  BY DEF Same, DriverRec

LEMMA PumpTaken ==
  ASSUME NEW r \in DriverRec, NEW q \in Seq(Injects)
  PROVE  LET t == [r EXCEPT !.queue = q, !.inFlight = TRUE, !.idle = FALSE]
         IN  Same(t, r) /\ t.idle = FALSE /\ t.work = r.work
  BY DEF Same, DriverRec

LEMMA WorkGrows ==
  ASSUME NEW r \in DriverRec, NEW q \in Seq(Injects)
  PROVE  Same([r EXCEPT !.work = q], r) /\ [r EXCEPT !.work = q].idle = r.idle
  BY DEF Same, DriverRec

LEMMA CallerHanded ==
  ASSUME NEW r \in CallerRec, NEW c
  PROVE  LET q == [r EXCEPT !.pc = IF c \in Injects THEN "send" ELSE "done",
                            !.ans = IF c \in Injects THEN "none" ELSE "completed"]
         IN  /\ q \in CallerRec /\ q.sid = r.sid /\ q.ext = r.ext
             /\ q.pc = "done" \/ (q.pc = "send" /\ c \in Injects)
  BY DEF CallerRec, Pcs, Answers

LEMMA CloseTyped ==
  ASSUME ext \in [Exts -> ExtRec], NEW e \in Exts, Close(e)
  PROVE  ext' \in [Exts -> ExtRec]
  <1> DEFINE r == [ext[e] EXCEPT !.status = IF ext[e].status = "live" THEN "closed" ELSE ext[e].status]
  <1>1. ext' = [ext EXCEPT ![e] = r]
    BY DEF Close
  <1>2. ext[e] \in ExtRec
    OBVIOUS
  <1>3. r \in ExtRec
    BY <1>2 DEF ExtRec
  <1>4. QED
    BY <1>1, <1>3

\* Only a caller moves.
LEMMA CallerMoves ==
  ASSUME Inv, NEW c \in Callers, NEW r \in CallerRec,
         cl' = [cl EXCEPT ![c] = r],
         r.pc \notin {"idle", "done"} => r.sid \in Sids,
         r.pc \in {"failed", "send", "broadcast"} => r.ext # 0,
         r.pc \in {"send", "broadcast"} => c \in Injects,
         r.pc \notin {"start", "subscribe"},
         UNCHANGED <<drivers, drv, ext, sidIndex, victims, got>>
  PROVE  Inv'
  <1> USE DEF Inv, TypeOK
  <1>1. \A b \in Callers : cl'[b] = IF b = c THEN r ELSE cl[b]
    OBVIOUS
  <1>2. TypeParts
    BY DEF TypeParts
  <1>3. CallersMove
    BY <1>1 DEF CallersMove
  <1>4. SessionsKept /\ EntriesMove
    BY DEF SessionsKept, EntriesMove
  <1>5. DriversMove
    BY DEF DriversMove, DriverPhases
  <1>6. QED
    BY <1>2, <1>3, <1>4, <1>5, Moves

\* Only a driver moves, and it does not begin to run.
LEMMA DriverMoves ==
  ASSUME Inv, NEW d \in Drivers, NEW r \in DriverRec,
         drv' = [drv EXCEPT ![d] = r],
         r.sid = drv[d].sid, r.ext = drv[d].ext,
         r.done => r.proc = "exited",
         r.idle => r.proc # "none",
         r.proc # "none" => drv[d].proc # "none",
         r.proc = "running" /\ ~r.cancelled => drv[d].proc = "running" /\ ~drv[d].cancelled,
         r.cancelled \/ victims' = victims,
         victims' \subseteq victims, victims \subseteq victims' \cup {d},
         got' \in [Injects -> SUBSET Drivers],
         UNCHANGED <<drivers, ext, sidIndex, cl>>
  PROVE  Inv'
  <1> USE DEF Inv, TypeOK
  <1>1. drv'[d] = r /\ \A f \in Drivers \ {d} : drv'[f] = drv[f]
    OBVIOUS
  <1>2. TypeParts
    BY DEF TypeParts
  <1>3. CallersMove /\ EntriesMove
    BY DEF CallersMove, EntriesMove
  <1>4. SessionsKept
    BY <1>1 DEF SessionsKept
  <1>5. DriversMove
    <2>1. ASSUME NEW f \in Drivers \ {d} PROVE DriversMove!(f)
      BY <1>1 DEF DriverPhases
    <2>2. DriversMove!(d)
      BY <1>1 DEF DriverPhases
    <2>3. QED
      BY <2>1, <2>2 DEF DriversMove
  <1>6. QED
    BY <1>2, <1>3, <1>4, <1>5, Moves

-----------------------------------------------------------------------------
(* The callers *)

LEMMA InvBegin ==
  ASSUME Inv, NEW c \in Callers, NEW s \in Sids, InjectBegin(c, s) \/ RecoverBegin(c, s)
  PROVE  Inv'
  <1> USE DEF Inv, TypeOK, CallerRec, Pcs, Answers
  <1>1. cl[c] \in CallerRec
    OBVIOUS
  <1>2. CASE cl' = [cl EXCEPT ![c] = [cl[c] EXCEPT !.pc = "done", !.ans = "busy"]]
    BY <1>1, <1>2, CallerMoves DEF InjectBegin, RecoverBegin
  <1>3. CASE cl' = [cl EXCEPT ![c] = [cl[c] EXCEPT !.pc = "lookup", !.sid = s]]
    BY <1>1, <1>3, CallerMoves DEF InjectBegin, RecoverBegin
  <1>4. CASE cl' = [cl EXCEPT ![c] = [cl[c] EXCEPT !.pc = "ensure", !.sid = s]]
    BY <1>1, <1>4, CallerMoves DEF InjectBegin, RecoverBegin
  <1>5. QED
    BY <1>2, <1>3, <1>4 DEF InjectBegin, RecoverBegin, Answer

LEMMA InvLookup == ASSUME Inv, NEW c \in Callers, Lookup(c) PROVE Inv'
  <1> USE DEF Inv, TypeOK, CallerRec, Pcs, Answers
  <1>1. cl[c] \in CallerRec /\ cl[c].sid \in Sids
    BY DEF Lookup, CallerPhases, Active
  <1>2. CASE cl' = [cl EXCEPT ![c] = [cl[c] EXCEPT !.pc = "done", !.ans = "drifted"]]
    BY <1>1, <1>2, CallerMoves DEF Lookup
  <1>3. CASE cl' = [cl EXCEPT ![c] = [cl[c] EXCEPT !.pc = "ensure"]]
    BY <1>1, <1>3, CallerMoves DEF Lookup
  <1>4. QED
    BY <1>2, <1>3 DEF Lookup, Answer, Step

LEMMA InvEnsureOld ==
  ASSUME Inv, NEW c \in Callers, EnsureExisting(c) \/ EnsureRefused(c)
  PROVE  Inv'
  <1> USE DEF Inv, TypeOK, CallerRec, Pcs, Answers
  <1>1. cl[c] \in CallerRec /\ cl[c].sid \in Sids
    BY DEF EnsureExisting, EnsureRefused, CallerPhases, Active
  <1>2. CASE EnsureRefused(c)
    <2>1. cl' = [cl EXCEPT ![c] = [cl[c] EXCEPT !.pc = "done", !.ans = "start_failed"]]
      BY <1>2 DEF EnsureRefused, Answer
    <2>2. QED
      BY <1>1, <1>2, <2>1, CallerMoves DEF EnsureRefused
  <1>3. CASE EnsureExisting(c)
    <2> DEFINE e == drivers[cl[c].sid]
               r == [cl[c] EXCEPT !.drv = e.driver, !.ext = e.ext, !.reuse = TRUE,
                                  !.pc = IF c \in Injects THEN "send" ELSE "done",
                                  !.ans = IF c \in Injects THEN "none" ELSE "completed"]
    <2>1. e.driver \in Drivers /\ e.ext \in Exts
      BY <1>1, <1>3 DEF EnsureExisting, Reusable
    <2>2. /\ r \in CallerRec /\ r.sid = cl[c].sid /\ r.ext = e.ext /\ r.pc \in {"send", "done"}
          /\ r.pc = "send" => c \in Injects
      BY <1>1, <2>1
    <2>3. cl' = [cl EXCEPT ![c] = r]
      BY <1>3 DEF EnsureExisting, Handed
    <2>4. UNCHANGED <<drivers, drv, ext, sidIndex, victims, got>>
      BY <1>3 DEF EnsureExisting
    <2> HIDE DEF r
    <2>5. QED
      BY <1>1, <2>1, <2>2, <2>3, <2>4, SDKAssumption, CallerMoves
  <1>4. QED
    BY <1>2, <1>3

LEMMA InvSendCheck == ASSUME Inv, NEW c \in Callers, SendCheck(c) PROVE Inv'
  <1> USE DEF Inv, TypeOK, CallerRec, Pcs, Answers
  <1>1. cl[c] \in CallerRec /\ cl[c].sid \in Sids /\ cl[c].ext # 0 /\ c \in Injects
    BY DEF SendCheck, CallerPhases, Active
  <1>2. CASE cl' = [cl EXCEPT ![c] = [cl[c] EXCEPT !.pc = "done", !.ans = "send_failed"]]
    BY <1>1, <1>2, CallerMoves DEF SendCheck
  <1>3. CASE cl' = [cl EXCEPT ![c] = [cl[c] EXCEPT !.pc = "broadcast"]]
    BY <1>1, <1>3, CallerMoves DEF SendCheck
  <1>4. QED
    BY <1>2, <1>3 DEF SendCheck, Answer, Step

LEMMA InvSendBroadcast == ASSUME Inv, NEW c \in Callers, SendBroadcast(c) PROVE Inv'
  <1> USE DEF Inv, TypeOK
  <1>1. c \in Injects
    BY DEF SendBroadcast, CallerPhases
  <1>2. ASSUME NEW d \in Drivers
        PROVE  /\ drv'[d] \in DriverRec
               /\ drv'[d].sid = drv[d].sid /\ drv'[d].ext = drv[d].ext
               /\ drv'[d].proc = drv[d].proc /\ drv'[d].cancelled = drv[d].cancelled
               /\ drv'[d].done = drv[d].done /\ drv'[d].idle = drv[d].idle
    <2>1. drv[d] \in DriverRec /\ Append(drv[d].queue, c) \in Seq(Injects)
      BY <1>1 DEF DriverRec
    <2>2. drv'[d] = drv[d] \/ drv'[d] = [drv[d] EXCEPT !.queue = Append(drv[d].queue, c)]
      BY DEF SendBroadcast
    <2>3. QED
      BY <2>1, <2>2 DEF DriverRec
  <1>3. DOMAIN drv' = Drivers /\ drv' = [d \in Drivers |-> drv'[d]]
    BY DEF SendBroadcast
  <1>4. drv' \in [Drivers -> DriverRec]
    BY <1>2, <1>3
  <1>5. PICK full \in BOOLEAN :
          cl' = [cl EXCEPT ![c] = [cl[c] EXCEPT !.pc = "done", !.ans = "completed", !.full = full]]
    <2>1. (Len(drv[cl[c].drv].queue) >= InputBuffer) \in BOOLEAN
      OBVIOUS
    <2>2. QED
      BY <2>1, Zenon DEF SendBroadcast
  <1>6. [cl[c] EXCEPT !.pc = "done", !.ans = "completed", !.full = full] \in CallerRec
    <2>1. cl[c] \in CallerRec
      OBVIOUS
    <2>2. QED
      BY <2>1 DEF CallerRec, Pcs, Answers
  <1>7. UNCHANGED <<drivers, ext, sidIndex, victims, got>>
    BY DEF SendBroadcast
  <1>8. TypeParts
    BY <1>4, <1>5, <1>6, <1>7 DEF TypeParts
  <1>9. CallersMove
    <2>1. cl'[c].pc = "done" /\ \A b \in Callers \ {c} : cl'[b] = cl[b]
      BY <1>5 DEF CallerRec
    <2>2. QED
      BY <2>1 DEF CallersMove
  <1>10. SessionsKept /\ EntriesMove
    BY <1>2, <1>7 DEF SessionsKept, EntriesMove
  <1>11. DriversMove
    BY <1>2, <1>7 DEF DriversMove, DriverPhases
  <1>12. QED
    BY <1>8, <1>9, <1>10, <1>11, Moves

LEMMA InvStartSpawn == ASSUME Inv, NEW c \in Callers, StartSpawn(c) PROVE Inv'
  <1> USE DEF Inv, TypeOK
  <1> DEFINE d == cl[c].drv
             e == cl[c].ext
  <1>1. /\ d \in Drivers /\ e \in Exts /\ cl[c].sid \in Sids
        /\ drv[d].sid = cl[c].sid /\ drv[d].proc = "none" /\ drivers[cl[c].sid].driver = d
    BY DEF StartSpawn, StartingIsEntered, CallerPhases, Active, CallerRec
  <1>2. /\ drv' = [drv EXCEPT ![d] = [drv[d] EXCEPT !.proc = "running"]]
        /\ cl' = [cl EXCEPT ![c] = [cl[c] EXCEPT !.pc = "subscribe"]]
        /\ UNCHANGED <<drivers, victims, got>>
    BY DEF StartSpawn, Step
  <1>3. drv'[d].proc = "running" /\ drv'[d].sid = drv[d].sid /\ drv'[d].ext = drv[d].ext
    BY <1>1, <1>2 DEF DriverRec
  <1>4. drv'[d].done = drv[d].done /\ drv'[d].idle = drv[d].idle
    BY <1>1, <1>2 DEF DriverRec
  <1>5. \A f \in Drivers \ {d} : drv'[f] = drv[f]
    BY <1>2
  <1>6. TypeParts
    <2>1. [drv[d] EXCEPT !.proc = "running"] \in DriverRec
      BY <1>1, DriverUpdates
    <2>2. [cl[c] EXCEPT !.pc = "subscribe"] \in CallerRec
      BY CallerUpdates DEF Pcs
    <2>3. ext' \in [Exts -> ExtRec]
      <3>1. ext' = [ext EXCEPT ![e] = [ext[e] EXCEPT !.cur = cl[c].sid]]
        BY DEF StartSpawn
      <3>2. [ext[e] EXCEPT !.cur = cl[c].sid] \in ExtRec
        BY <1>1 DEF ExtRec
      <3>3. QED
        BY <3>1, <3>2
    <2>4. sidIndex' \in [Sids -> Exts \cup {0}]
      BY <1>1 DEF StartSpawn, Bind
    <2>5. QED
      BY <1>1, <1>2, <2>1, <2>2, <2>3, <2>4 DEF TypeParts
  <1>7. /\ cl'[c].pc = "subscribe" /\ cl'[c].drv = d /\ cl'[c].ext = e /\ cl'[c].sid = cl[c].sid
        /\ \A b \in Callers \ {c} : cl'[b] = cl[b]
    BY <1>2 DEF CallerRec
  <1>8. CallersMove
    BY <1>1, <1>7, SDKAssumption DEF CallersMove
  <1>9. SessionsKept /\ EntriesMove
    BY <1>2, <1>3, <1>5 DEF SessionsKept, EntriesMove
  <1>10. ~Starting(d)'
    BY <1>7, StartSpawn(c) DEF Starting, OneStarter, StartSpawn
  <1>11. DriversMove
    <2> SUFFICES ASSUME NEW f \in Drivers PROVE DriversMove!(f)
      BY DEF DriversMove
    <2>1. CASE f # d
      BY <1>2, <1>5, <2>1 DEF DriverPhases
    <2>2. CASE f = d
      BY <1>1, <1>2, <1>3, <1>4, <1>10, <2>2 DEF DriverPhases
    <2>3. QED
      BY <2>1, <2>2
  <1>12. QED
    BY <1>6, <1>8, <1>9, <1>11, Moves

LEMMA InvStartReady == ASSUME Inv, NEW c \in Callers, StartReady(c) PROVE Inv'
  <1> USE DEF Inv, TypeOK
  <1> DEFINE d == cl[c].drv
             p == IF Live(cl[c].ext) THEN "on" ELSE "off"
             q == Readied(drv[d], p)
             r == [cl[c] EXCEPT !.pc = IF c \in Injects THEN "send" ELSE "done",
                                !.ans = IF c \in Injects THEN "none" ELSE "completed"]
  <1>1. d \in Drivers /\ cl[c].ext \in Exts /\ cl[c].sid \in Sids
    BY DEF StartReady, CallerPhases, Active, CallerRec
  <1>2. /\ q \in DriverRec /\ q.sid = drv[d].sid /\ q.ext = drv[d].ext /\ q.proc = drv[d].proc
        /\ q.cancelled = drv[d].cancelled /\ q.done = drv[d].done /\ q.idle = drv[d].idle
    <2>1. drv[d] \in DriverRec
      BY <1>1
    <2>2. p \in {"on", "off"}
      OBVIOUS
    <2> HIDE DEF p
    <2>3. QED
      BY <2>1, <2>2, DriverReady
  <1>3. drv' = [drv EXCEPT ![d] = q]
    BY DEF StartReady, Readied
  <1>4. /\ r \in CallerRec /\ r.sid = cl[c].sid /\ r.ext = cl[c].ext
        /\ r.pc = "done" \/ (r.pc = "send" /\ c \in Injects)
    <2>1. cl[c] \in CallerRec
      OBVIOUS
    <2>2. QED
      BY <2>1, CallerHanded
  <1>5. cl' = [cl EXCEPT ![c] = r]
    BY <1>1 DEF StartReady, Handed, CallerRec
  <1>6. UNCHANGED <<drivers, ext, sidIndex, victims, got>>
    BY DEF StartReady
  <1> HIDE DEF q, r
  <1>7. \A f \in Drivers : drv'[f] = IF f = d THEN q ELSE drv[f]
    BY <1>1, <1>3
  <1>8. \A b \in Callers : cl'[b] = IF b = c THEN r ELSE cl[b]
    BY <1>5
  <1>9. TypeParts
    BY <1>2, <1>3, <1>4, <1>5, <1>6 DEF TypeParts
  <1>10. CallersMove
    BY <1>1, <1>4, <1>8, SDKAssumption DEF CallersMove
  <1>11. SessionsKept /\ EntriesMove
    BY <1>2, <1>6, <1>7 DEF SessionsKept, EntriesMove
  <1>12. DriversMove
    <2> SUFFICES ASSUME NEW f \in Drivers PROVE DriversMove!(f)
      BY DEF DriversMove
    <2>1. CASE f # d
      BY <1>6, <1>7, <2>1 DEF DriverPhases
    <2>2. CASE f = d
      BY <1>1, <1>2, <1>6, <1>7, <2>2 DEF DriverPhases
    <2>3. QED
      BY <2>1, <2>2
  <1>13. QED
    BY <1>9, <1>10, <1>11, <1>12, Moves

LEMMA InvStartFails == ASSUME Inv, NEW c \in Callers, StartFails(c) PROVE Inv'
  <1> USE DEF Inv, TypeOK
  <1> DEFINE d == cl[c].drv
             s == cl[c].sid
  <1>1. /\ d \in Drivers /\ cl[c].ext \in Exts /\ s \in Sids /\ cl[c].ext # 0
        /\ drv[d].proc = "none" /\ drivers[s].driver = d /\ cl[c].pc = "start"
    BY DEF StartFails, StartingIsEntered, CallerPhases, Active, CallerRec
  <1>2. UNCHANGED <<drv, ext, sidIndex, victims, got>>
    BY DEF StartFails
  <1>3. /\ drivers' \in [Sids -> [driver : Drivers \cup {0}, ext : Exts \cup {0}]]
        /\ drivers'[s].driver = 0
        /\ \A t \in Sids \ {s} : drivers'[t] = drivers[t]
    <2>1. FailedEntry(s, d, cl[c].reuse) = NoEntry
            \/ FailedEntry(s, d, cl[c].reuse) = [drivers[s] EXCEPT !.driver = 0]
      BY <1>1 DEF FailedEntry
    <2>2. QED
      BY <1>1, <2>1 DEF StartFails, NoEntry
  <1>4. \/ cl' = [cl EXCEPT ![c] = [cl[c] EXCEPT !.pc = "done", !.ans = "start_failed"]]
        \/ cl' = [cl EXCEPT ![c] = [cl[c] EXCEPT !.pc = "failed"]]
    BY DEF StartFails, Answer, Step
  <1>5. cl[c] \in CallerRec
    OBVIOUS
  <1>6. cl' \in [Callers -> CallerRec]
    BY <1>4, <1>5, CallerUpdates DEF Pcs, Answers
  <1>7. /\ cl'[c].pc \in {"done", "failed"} /\ cl'[c].sid = s /\ cl'[c].ext = cl[c].ext
        /\ \A b \in Callers \ {c} : cl'[b] = cl[b]
    <2>1. ASSUME NEW r, cl' = [cl EXCEPT ![c] = r]
          PROVE  cl'[c] = r /\ \A b \in Callers \ {c} : cl'[b] = cl[b]
      BY <2>1
    <2>2. CASE cl' = [cl EXCEPT ![c] = [cl[c] EXCEPT !.pc = "failed"]]
      BY <1>5, <2>1, <2>2 DEF CallerRec
    <2>3. CASE cl' = [cl EXCEPT ![c] = [cl[c] EXCEPT !.pc = "done", !.ans = "start_failed"]]
      BY <1>5, <2>1, <2>3 DEF CallerRec
    <2>4. QED
      BY <1>4, <2>2, <2>3
  <1>8. TypeParts
    BY <1>2, <1>3, <1>6 DEF TypeParts
  <1>9. CallersMove
    BY <1>1, <1>7 DEF CallersMove
  <1>10. SessionsKept /\ DriversMove
    BY <1>2 DEF SessionsKept, DriversMove, DriverPhases
  <1>11. ASSUME NEW b \in Callers, cl'[b].pc = "start" PROVE cl'[b].sid # s
    <2>1. b # c /\ cl[b].pc = "start" /\ cl'[b].sid = cl[b].sid
      BY <1>7, <1>11
    <2>2. cl[b].drv # d
      BY <1>1, <2>1 DEF OneStarter
    <2>3. drivers[cl[b].sid].driver = cl[b].drv
      BY <2>1 DEF StartingIsEntered
    <2>4. QED
      BY <1>1, <2>1, <2>2, <2>3
  <1>12. EntriesMove
    <2> SUFFICES ASSUME NEW t \in Sids PROVE EntriesMove!(t)
      BY DEF EntriesMove
    <2>1. CASE t # s
      BY <1>3, <2>1
    <2>2. CASE t = s
      BY <1>1, <1>2, <1>3, <1>11, <2>2
    <2>3. QED
      BY <2>1, <2>2
  <1>13. QED
    BY <1>8, <1>9, <1>10, <1>12, Moves

LEMMA InvStartFailsClose == ASSUME Inv, NEW c \in Callers, StartFailsClose(c) PROVE Inv'
  <1> USE DEF Inv, TypeOK
  <1>1. cl[c] \in CallerRec /\ cl[c].ext \in Exts
    BY DEF StartFailsClose, CallerPhases, CallerRec
  <1>2. ext' \in [Exts -> ExtRec]
    BY <1>1, CloseTyped DEF StartFailsClose
  <1>3. cl' = [cl EXCEPT ![c] = [cl[c] EXCEPT !.pc = "done", !.ans = "start_failed"]]
    BY DEF StartFailsClose, Answer
  <1>4. cl' \in [Callers -> CallerRec]
    BY <1>1, <1>3, CallerUpdates DEF Pcs, Answers
  <1>5. cl'[c].pc = "done" /\ \A b \in Callers \ {c} : cl'[b] = cl[b]
    BY <1>1, <1>3 DEF CallerRec
  <1>6. UNCHANGED <<drivers, drv, sidIndex, victims, got>>
    BY DEF StartFailsClose
  <1>7. TypeParts
    BY <1>2, <1>4, <1>6 DEF TypeParts
  <1>8. CallersMove /\ SessionsKept /\ EntriesMove
    BY <1>5, <1>6 DEF CallersMove, SessionsKept, EntriesMove
  <1>9. DriversMove
    BY <1>6 DEF DriversMove, DriverPhases
  <1>10. QED
    BY <1>7, <1>8, <1>9, Moves

\* A fresh driver takes the place of one that is done: no running subprocess
\* loses its entry, and no other caller was starting the one that goes.
LEMMA InvEnsureNew == ASSUME Inv, NEW c \in Callers, EnsureNew(c) PROVE Inv'
  <1> USE DEF Inv, TypeOK
  <1> DEFINE s == cl[c].sid
  <1>1. s \in Sids /\ ~Reusable(s) /\ cl[c] \in CallerRec
    BY DEF EnsureNew, CallerPhases, Active
  <1>2. PICK d \in Drivers, e \in Exts :
            /\ drv[d] = Unused /\ Attach(s, e)
            /\ drv' = [drv EXCEPT ![d] = [drv[d] EXCEPT !.sid = s, !.ext = e]]
            /\ drivers' = [drivers EXCEPT ![s] = [driver |-> d, ext |-> e]]
            /\ cl' = [cl EXCEPT ![c] = [cl[c] EXCEPT !.pc = "start", !.drv = d, !.ext = e,
                                                     !.reuse = drivers[s].ext # 0]]
    BY DEF EnsureNew
  <1>3. UNCHANGED <<sidIndex, victims, got>>
    BY DEF EnsureNew
  <1>4. /\ cl'[c].pc = "start" /\ cl'[c].sid = s /\ cl'[c].drv = d /\ cl'[c].ext = e
        /\ cl' \in [Callers -> CallerRec]
        /\ \A b \in Callers \ {c} : cl'[b] = cl[b]
    <2> DEFINE r == [cl[c] EXCEPT !.pc = "start", !.drv = d, !.ext = e, !.reuse = drivers[s].ext # 0]
    <2>1. r \in CallerRec /\ r.pc = "start" /\ r.sid = s /\ r.drv = d /\ r.ext = e
      BY <1>1 DEF CallerRec, Pcs
    <2> HIDE DEF r
    <2>2. cl' = [cl EXCEPT ![c] = r]
      BY <1>2 DEF r
    <2>3. QED
      BY <2>1, <2>2
  <1>5. /\ drv'[d].sid = s /\ drv'[d].ext = e /\ drv'[d].proc = "none"
        /\ drv'[d].done = FALSE /\ drv'[d].idle = FALSE
        /\ drv' \in [Drivers -> DriverRec]
        /\ \A f \in Drivers \ {d} : drv'[f] = drv[f]
    <2>1. s \in Sids /\ drv \in [Drivers -> DriverRec]
      BY <1>1
    <2>2. drv' = [drv EXCEPT ![d] = Fresh(s, e)]
      BY <1>2 DEF Fresh
    <2>3. QED
      BY <2>1, <2>2, FreshStep
  <1>6. /\ drivers' \in [Sids -> [driver : Drivers \cup {0}, ext : Exts \cup {0}]]
        /\ drivers'[s].driver = d /\ drivers'[s].ext = e
        /\ \A t \in Sids \ {s} : drivers'[t].driver = drivers[t].driver /\ drivers'[t].ext = drivers[t].ext
    BY <1>1, <1>2
  <1>7. ext' \in [Exts -> ExtRec]
    <2>1. CASE ext' = ext
      BY <2>1
    <2>2. CASE ext' = [ext EXCEPT ![e] = [ext[e] EXCEPT !.key = s, !.status = "live"]]
      <3>1. ext[e] \in ExtRec
        OBVIOUS
      <3>2. [ext[e] EXCEPT !.key = s, !.status = "live"] \in ExtRec
        BY <1>1, <3>1 DEF ExtRec
      <3>3. QED
        BY <2>2, <3>2
    <2>3. QED
      BY <1>2, <2>1, <2>2 DEF Attach
  <1>8. drv[d].sid = NoSid /\ drv[d].proc = "none" /\ NoSid \notin Sids /\ 0 \notin Drivers \cup Exts
    BY <1>2, SDKAssumption DEF Unused
  <1>9. \A t \in Sids : drivers[t].driver # d
    BY <1>8
  <1>10. TypeOK'
    <2>1. ASSUME NEW t \in Sids, drivers'[t].driver # 0
          PROVE  LET f == drivers'[t].driver IN
                 drv'[f].sid = t /\ drv'[f].ext = drivers'[t].ext /\ drv'[f].ext # 0
      <3>1. CASE t = s
        BY <1>5, <1>6, <1>8, <3>1
      <3>2. CASE t # s
        <4>1. drivers'[t].driver = drivers[t].driver /\ drivers[t].driver \in Drivers \ {d}
          BY <1>6, <1>9, <2>1, <3>2
        <4>2. drv'[drivers[t].driver] = drv[drivers[t].driver]
          BY <1>5, <4>1
        <4>3. drv[drivers[t].driver].sid = t /\ drv[drivers[t].driver].ext = drivers[t].ext
                /\ drv[drivers[t].driver].ext # 0
          BY <1>8, <4>1
        <4>4. QED
          BY <1>6, <3>2, <4>1, <4>2, <4>3
      <3>3. QED
        BY <3>1, <3>2
    <2>2. QED
      BY <1>3, <1>4, <1>5, <1>6, <1>7, <2>1
  <1>11. DriverPhases'
    BY <1>5 DEF DriverPhases
  <1>12. CallerPhases'
    BY <1>1, <1>4, <1>8 DEF CallerPhases, Active
  <1>13. ASSUME NEW b \in Callers, b # c, cl[b].pc = "start"
         PROVE  cl[b].sid \in Sids \ {s} /\ cl[b].drv \in Drivers \ {d}
    <2>1. /\ cl[b].sid \in Sids /\ cl[b].drv \in Drivers /\ drv[cl[b].drv].sid = cl[b].sid
          /\ drv[cl[b].drv].proc = "none" /\ drivers[cl[b].sid].driver = cl[b].drv
      BY <1>13 DEF StartingIsEntered, CallerPhases, Active, CallerRec
    <2>2. cl[b].sid # s
      BY <1>1, <1>8, <2>1 DEF Reusable, DriverPhases
    <2>3. QED
      BY <1>8, <2>1, <2>2
  <1>14. OneStarter'
    BY <1>4, <1>13 DEF OneStarter
  <1>15. StartingIsEntered'
    <2> SUFFICES ASSUME NEW b \in Callers, cl'[b].pc = "start"
                 PROVE  /\ drv'[cl'[b].drv].sid = cl'[b].sid
                        /\ drv'[cl'[b].drv].proc = "none"
                        /\ drivers'[cl'[b].sid].driver = cl'[b].drv
                        /\ drivers'[cl'[b].sid].ext = cl'[b].ext
      BY DEF StartingIsEntered
    <2>1. CASE b = c
      BY <1>4, <1>5, <1>6, <2>1
    <2>2. CASE b # c
      <3>1. cl'[b] = cl[b] /\ cl[b].sid \in Sids \ {s} /\ cl[b].drv \in Drivers \ {d}
        BY <1>4, <1>13, <2>2
      <3>2. drv'[cl[b].drv] = drv[cl[b].drv]
        BY <1>5, <3>1
      <3>3. /\ drv[cl[b].drv].sid = cl[b].sid /\ drv[cl[b].drv].proc = "none"
            /\ drivers[cl[b].sid].driver = cl[b].drv /\ drivers[cl[b].sid].ext = cl[b].ext
        BY <3>1 DEF StartingIsEntered
      <3>4. QED
        BY <1>6, <3>1, <3>2, <3>3
    <2>3. QED
      BY <2>1, <2>2
  <1>16. SubprocessIsOwned'
    <2> SUFFICES ASSUME NEW f \in Drivers, drv'[f].proc = "running", ~drv'[f].cancelled
                 PROVE  f \in victims' \/ drivers'[drv'[f].sid].driver = f
      BY DEF SubprocessIsOwned, Running
    <2>1. f # d /\ drv'[f] = drv[f]
      BY <1>5
    <2>2. drv[f].sid \in Sids /\ ~drv[f].done /\ (f \in victims \/ drivers[drv[f].sid].driver = f)
      BY <2>1 DEF DriverPhases, SubprocessIsOwned, Running
    <2>3. drivers[drv[f].sid].driver = f => drv[f].sid # s
      BY <1>1, <1>8, <2>2 DEF Reusable
    <2>4. QED
      BY <1>3, <1>6, <2>1, <2>2, <2>3
  <1>17. QED
    BY <1>10, <1>11, <1>12, <1>14, <1>15, <1>16

-----------------------------------------------------------------------------
(* Drivers, subprocesses and the terminal sessions *)

LEMMA InvPumpTake == ASSUME Inv, NEW d \in Drivers, PumpTake(d) PROVE Inv'
  <1> USE DEF Inv, TypeOK
  <1> DEFINE t == [drv[d] EXCEPT !.queue = Tail(drv[d].queue), !.inFlight = TRUE, !.idle = FALSE]
             x == Head(drv[d].queue)
  <1>1. /\ drv[d] \in DriverRec /\ drv[d].queue \in Seq(Injects) /\ drv[d].queue # <<>>
        /\ drv[d].work \in Seq(Injects)
    BY DEF PumpTake, DriverRec
  <1>2. x \in Injects /\ Tail(drv[d].queue) \in Seq(Injects) /\ Append(drv[d].work, x) \in Seq(Injects)
    BY <1>1
  <1>3. Same(t, drv[d]) /\ t.idle = FALSE /\ t.work = drv[d].work
    BY <1>1, <1>2, PumpTaken
  <1>4. UNCHANGED <<drivers, ext, sidIndex, victims, cl>>
    BY DEF PumpTake
  <1>5. \/ drv' = [drv EXCEPT ![d] = [t EXCEPT !.work = Append(t.work, x)]]
           /\ got' = [got EXCEPT ![x] = got[x] \cup {d}]
        \/ drv' = [drv EXCEPT ![d] = [t EXCEPT !.pump = "off"]] /\ got' = got
    BY DEF PumpTake
  <1> HIDE DEF t, x
  <1>6. PICK r \in DriverRec : drv' = [drv EXCEPT ![d] = r] /\ Same(r, drv[d]) /\ r.idle = FALSE
    <2>1. Same([t EXCEPT !.pump = "off"], t) /\ [t EXCEPT !.pump = "off"].idle = t.idle
      BY <1>3, PumpStops DEF Same
    <2>2. /\ Same([t EXCEPT !.work = Append(t.work, x)], t)
          /\ [t EXCEPT !.work = Append(t.work, x)].idle = t.idle
      BY <1>2, <1>3, WorkGrows DEF Same
    <2>3. QED
      BY <1>3, <1>5, <2>1, <2>2 DEF Same
  <1>7. got' \in [Injects -> SUBSET Drivers]
    <2>1. got[x] \cup {d} \in SUBSET Drivers
      BY <1>2
    <2>2. got' = got \/ got' = [got EXCEPT ![x] = got[x] \cup {d}]
      BY <1>5
    <2>3. QED
      BY <1>2, <2>1, <2>2
  <1>8. QED
    BY <1>4, <1>6, <1>7, DriverMoves DEF Same, DriverPhases

LEMMA InvPumpExit == ASSUME Inv, NEW d \in Drivers, PumpExit(d) PROVE Inv'
  <1> USE DEF Inv, TypeOK
  <1> DEFINE r == [drv[d] EXCEPT !.pump = "off"]
  <1>1. Same(r, drv[d]) /\ r.idle = drv[d].idle
    BY PumpStops
  <1>2. drv' = [drv EXCEPT ![d] = r] /\ UNCHANGED <<drivers, ext, sidIndex, victims, cl, got>>
    BY DEF PumpExit
  <1> HIDE DEF r
  <1>3. QED
    BY <1>1, <1>2, DriverMoves DEF Same, DriverPhases

LEMMA TurnOver ==
  ASSUME NEW r \in DriverRec, NEW q \in Seq(Injects)
  PROVE  LET t == TurnEnds([r EXCEPT !.work = q]) IN Same(t, r) /\ t.idle = FALSE
  BY DEF Same, DriverRec, TurnEnds

LEMMA InvAgentResult == ASSUME Inv, NEW d \in Drivers, AgentResult(d) PROVE Inv'
  <1> USE DEF Inv, TypeOK
  <1> DEFINE q == Tail(drv[d].work)
             r == TurnEnds([drv[d] EXCEPT !.work = q])
  <1>1. drv[d] \in DriverRec /\ drv[d].work \in Seq(Injects) /\ drv[d].work # <<>>
    BY DEF AgentResult, DriverRec
  <1>2. q \in Seq(Injects)
    BY <1>1
  <1>3. drv' = [drv EXCEPT ![d] = r] /\ UNCHANGED <<drivers, ext, sidIndex, victims, cl, got>>
    BY DEF AgentResult
  <1>4. Same(r, drv[d]) /\ r.idle = FALSE
    BY <1>1, <1>2, TurnOver
  <1> HIDE DEF r
  <1>5. QED
    BY <1>3, <1>4, DriverMoves DEF Same, DriverPhases

LEMMA Exited ==
  ASSUME NEW r \in DriverRec
  PROVE  LET t == [r EXCEPT !.proc = "exited"]
         IN  t \in DriverRec /\ t.sid = r.sid /\ t.ext = r.ext /\ t.proc = "exited"
  BY DEF DriverRec

LEMMA InvProcExit == ASSUME Inv, NEW d \in Drivers, ProcExit(d) PROVE Inv'
  <1> USE DEF Inv, TypeOK
  <1> DEFINE r == [drv[d] EXCEPT !.proc = "exited"]
  <1>1. /\ drv' = [drv EXCEPT ![d] = r] /\ UNCHANGED <<drivers, ext, sidIndex, victims, cl, got>>
        /\ drv[d].proc = "running"
    BY DEF ProcExit
  <1>2. r \in DriverRec /\ r.sid = drv[d].sid /\ r.ext = drv[d].ext /\ r.proc = "exited"
    BY Exited
  <1> HIDE DEF r
  <1>3. QED
    BY <1>1, <1>2, DriverMoves

LEMMA Waited ==
  ASSUME NEW r \in DriverRec
  PROVE  LET t == [r EXCEPT !.cancelled = TRUE, !.done = TRUE]
         IN  /\ t \in DriverRec /\ t.sid = r.sid /\ t.ext = r.ext /\ t.proc = r.proc
             /\ t.cancelled = TRUE /\ t.idle = r.idle
  BY DEF DriverRec

LEMMA InvWait == ASSUME Inv, NEW d \in Drivers, Wait(d) PROVE Inv'
  <1> USE DEF Inv, TypeOK
  <1> DEFINE r == [drv[d] EXCEPT !.cancelled = TRUE, !.done = TRUE]
  <1>1. /\ drv' = [drv EXCEPT ![d] = r] /\ UNCHANGED <<drivers, ext, sidIndex, victims, cl, got>>
        /\ drv[d].proc = "exited"
    BY DEF Wait
  <1>2. /\ r \in DriverRec /\ r.sid = drv[d].sid /\ r.ext = drv[d].ext /\ r.proc = drv[d].proc
        /\ r.cancelled = TRUE
    BY Waited
  <1> HIDE DEF r
  <1>3. QED
    BY <1>1, <1>2, DriverMoves

LEMMA WentIdle ==
  ASSUME NEW r \in DriverRec
  PROVE  Same([r EXCEPT !.idle = TRUE], r)
  BY DEF Same, DriverRec

LEMMA InvGoIdle == ASSUME Inv, NEW d \in Drivers, GoIdle(d) PROVE Inv'
  <1> USE DEF Inv, TypeOK
  <1> DEFINE r == [drv[d] EXCEPT !.idle = TRUE]
  <1>1. /\ drv' = [drv EXCEPT ![d] = r] /\ UNCHANGED <<drivers, ext, sidIndex, victims, cl, got>>
        /\ drv[d].proc = "running"
    BY DEF GoIdle
  <1>2. Same(r, drv[d])
    BY WentIdle
  <1> HIDE DEF r
  <1>3. QED
    BY <1>1, <1>2, DriverMoves DEF Same, DriverPhases

LEMMA Stopped ==
  ASSUME NEW r \in DriverRec
  PROVE  LET t == Stop(r)
         IN  /\ t \in DriverRec /\ t.sid = r.sid /\ t.ext = r.ext /\ t.proc = r.proc
             /\ t.cancelled = TRUE /\ t.done = r.done /\ t.idle = r.idle
  BY DEF DriverRec, Stop

LEMMA InvReapStop == ASSUME Inv, NEW d \in Drivers, ReapStop(d) PROVE Inv'
  <1> USE DEF Inv, TypeOK
  <1> DEFINE r == Stop(drv[d])
  <1>1. /\ drv' = [drv EXCEPT ![d] = r] /\ UNCHANGED <<drivers, ext, sidIndex, cl, got>>
        /\ victims' = victims \ {d}
    BY DEF ReapStop
  <1>2. /\ r \in DriverRec /\ r.sid = drv[d].sid /\ r.ext = drv[d].ext /\ r.proc = drv[d].proc
        /\ r.cancelled = TRUE /\ r.done = drv[d].done /\ r.idle = drv[d].idle
    BY Stopped
  <1> HIDE DEF r
  <1>3. QED
    BY <1>1, <1>2, DriverMoves DEF DriverPhases

\* The session's index and its closing do not touch what the invariant is about.
LEMMA InvSession ==
  ASSUME Inv,
         \/ \E d \in Drivers, s \in Sids : AgentFork(d, s)
         \/ \E e \in Exts : Purge(e) \/ TerminalStop(e)
  PROVE  Inv'
  <1> USE DEF Inv, TypeOK
  <1>1. UNCHANGED <<drivers, drv, victims, cl, got>>
    BY DEF AgentFork, Purge, TerminalStop
  <1>2. ext' \in [Exts -> ExtRec] /\ sidIndex' \in [Sids -> Exts \cup {0}]
    <2>1. ASSUME NEW d \in Drivers, NEW s \in Sids, AgentFork(d, s)
          PROVE  ext' \in [Exts -> ExtRec] /\ sidIndex' \in [Sids -> Exts \cup {0}]
      <3> DEFINE e == drv[d].ext
                 r == [ext[e] EXCEPT !.cur = s]
      <3>1. e \in Exts \cup {0}
        BY DEF DriverRec
      <3>2. ext' = [ext EXCEPT ![e] = r]
        BY <2>1 DEF AgentFork
      <3>3. e \in Exts => r \in ExtRec
        <4>1. e \in Exts => ext[e] \in ExtRec
          OBVIOUS
        <4>2. QED
          BY <4>1 DEF ExtRec
      <3>4. sidIndex' \in [Sids -> Exts \cup {0}]
        BY <2>1, <3>1 DEF AgentFork, Bind
      <3> HIDE DEF r
      <3>5. QED
        BY <3>2, <3>3, <3>4
    <2>2. ASSUME NEW e \in Exts, Purge(e)
          PROVE  ext' \in [Exts -> ExtRec] /\ sidIndex' \in [Sids -> Exts \cup {0}]
      BY <2>2 DEF Purge, ExtRec
    <2>3. ASSUME NEW e \in Exts, TerminalStop(e)
          PROVE  ext' \in [Exts -> ExtRec] /\ sidIndex' \in [Sids -> Exts \cup {0}]
      BY <2>3, CloseTyped DEF TerminalStop
    <2>4. QED
      BY <2>1, <2>2, <2>3
  <1>3. TypeParts
    BY <1>1, <1>2 DEF TypeParts
  <1>4. CallersMove /\ SessionsKept /\ EntriesMove
    BY <1>1 DEF CallersMove, SessionsKept, EntriesMove
  <1>5. DriversMove
    BY <1>1 DEF DriversMove, DriverPhases
  <1>6. QED
    BY <1>3, <1>4, <1>5, Moves

\* The watcher clears an entry only if it still holds its own, dead, driver.
LEMMA InvWatch == ASSUME Inv, NEW d \in Drivers, Watch(d) PROVE Inv'
  <1> USE DEF Inv, TypeOK
  <1> DEFINE s == drv[d].sid
             r == [drv[d] EXCEPT !.watched = FALSE]
  <1>1. drv[d].done /\ drv[d].proc = "exited" /\ s \in Sids
    BY DEF Watch, DriverPhases
  <1>2. Same(r, drv[d]) /\ r.idle = drv[d].idle
    BY Unwatched
  <1>3. /\ drv' = [drv EXCEPT ![d] = r]
        /\ drivers' = [drivers EXCEPT ![s] = Forget(s, d)]
        /\ UNCHANGED <<ext, sidIndex, victims, cl, got>>
    BY DEF Watch
  <1> HIDE DEF r
  <1>4. drv' \in [Drivers -> DriverRec] /\ \A f \in Drivers : drv'[f] = IF f = d THEN r ELSE drv[f]
    BY <1>2, <1>3 DEF Same
  <1>5. Forget(s, d) \in [driver : Drivers \cup {0}, ext : Exts \cup {0}]
    BY <1>1 DEF Forget
  <1>6. TypeParts
    BY <1>1, <1>3, <1>4, <1>5 DEF TypeParts
  <1>7. CallersMove
    BY <1>3 DEF CallersMove
  <1>8. SessionsKept
    BY <1>2, <1>4 DEF SessionsKept, Same
  <1>9. DriversMove
    <2> SUFFICES ASSUME NEW f \in Drivers PROVE DriversMove!(f)
      BY DEF DriversMove
    <2>1. CASE f # d
      BY <1>3, <1>4, <2>1 DEF DriverPhases
    <2>2. CASE f = d
      BY <1>1, <1>2, <1>3, <1>4, <2>2 DEF DriverPhases, Same
    <2>3. QED
      BY <2>1, <2>2
  <1>10. EntriesMove
    <2> SUFFICES ASSUME NEW t \in Sids PROVE EntriesMove!(t)
      BY DEF EntriesMove
    <2>1. CASE t # s \/ drivers[s].driver # d
      BY <1>1, <1>3, <2>1 DEF Forget
    <2>2. CASE t = s /\ drivers[s].driver = d
      <3>1. drivers'[s].driver = 0
        BY <1>1, <1>3, <2>2 DEF Forget
      <3>2. ASSUME NEW c \in Callers, cl'[c].pc = "start" PROVE cl'[c].sid # s
        BY <1>1, <1>3, <2>2, <3>2 DEF StartingIsEntered
      <3>3. drv'[d].proc # "running"
        BY <1>1, <1>2, <1>4 DEF Same
      <3>4. QED
        BY <2>2, <3>1, <3>2, <3>3
    <2>3. QED
      BY <2>1, <2>2
  <1>11. QED
    BY <1>6, <1>7, <1>8, <1>9, <1>10, Moves

\* The reaper takes idle drivers only, which are not starting, and holds on to
\* what it takes until it has cancelled it.
LEMMA InvReapScan == ASSUME Inv, ReapScan PROVE Inv'
  <1> USE DEF Inv, TypeOK
  <1> DEFINE V == {s \in Sids : Reapable(drivers[s].driver)}
  <1>1. /\ victims = {} /\ victims' = {drivers[s].driver : s \in V}
        /\ drivers' = [s \in Sids |-> IF s \in V THEN NoEntry ELSE drivers[s]]
        /\ UNCHANGED <<drv, ext, sidIndex, cl, got>>
    BY DEF ReapScan
  <1>2. \A s \in V : drivers[s].driver \in Drivers /\ drv[drivers[s].driver].idle
    BY DEF Reapable
  <1>3. TypeParts
    <2>1. victims' \subseteq Drivers
      BY <1>1, <1>2
    <2>2. drivers' \in [Sids -> [driver : Drivers \cup {0}, ext : Exts \cup {0}]]
      BY <1>1 DEF NoEntry
    <2>3. QED
      BY <1>1, <2>1, <2>2 DEF TypeParts
  <1>4. CallersMove /\ SessionsKept
    BY <1>1 DEF CallersMove, SessionsKept
  <1>5. DriversMove
    BY <1>1 DEF DriversMove, DriverPhases
  <1>6. EntriesMove
    <2> SUFFICES ASSUME NEW t \in Sids PROVE EntriesMove!(t)
      BY DEF EntriesMove
    <2>1. CASE t \notin V
      BY <1>1, <2>1
    <2>2. CASE t \in V
      <3>1. drivers'[t].driver = 0 /\ drivers[t].driver \in victims'
        BY <1>1, <2>2 DEF NoEntry
      <3>2. ASSUME NEW c \in Callers, cl'[c].pc = "start" PROVE cl'[c].sid # t
        BY <1>1, <1>2, <2>2, <3>2 DEF StartingIsEntered, DriverPhases
      <3>3. QED
        BY <3>1, <3>2
    <2>3. QED
      BY <2>1, <2>2
  <1>7. QED
    BY <1>3, <1>4, <1>5, <1>6, Moves

-----------------------------------------------------------------------------
(* The theorems *)

LEMMA InvNext == Inv /\ [Next]_vars => Inv'
  <1> SUFFICES ASSUME Inv, [Next]_vars PROVE Inv'
    OBVIOUS
  <1>1. CASE UNCHANGED vars
    BY <1>1 DEF vars, Inv, TypeOK, DriverPhases, CallerPhases, StartingIsEntered, OneStarter,
                SubprocessIsOwned, Running, Active
  <1>2. ASSUME NEW c \in Callers, CallerStep(c) PROVE Inv'
    BY <1>2, InvLookup, InvEnsureOld, InvEnsureNew, InvStartSpawn, InvStartReady, InvStartFails,
       InvStartFailsClose, InvSendCheck, InvSendBroadcast DEF CallerStep
  <1>3. ASSUME NEW d \in Drivers, DriverStep(d) \/ Subprocess(d) \/ GoIdle(d) PROVE Inv'
    BY <1>3, InvPumpTake, InvPumpExit, InvWait, InvWatch, InvReapStop, InvAgentResult,
       InvProcExit, InvSession, InvGoIdle DEF DriverStep, Subprocess
  <1>4. QED
    BY <1>1, <1>2, <1>3, InvBegin, InvSession, InvReapScan DEF Next

(* Types, and that an entry of Manager.drivers agrees with the driver it    *)
(* holds, for any number of sessions, injects, recoveries and drivers.      *)
THEOREM TypeCorrect == Spec => []TypeOK
  <1>1. Inv => TypeOK
    BY DEF Inv
  <1>2. QED
    BY <1>1, InvInit, InvNext, PTL DEF Spec

(* No interleaving of EnsureDriver, a failing Start, the exit watcher and   *)
(* the reaper (manager.go) leaves a running subprocess that no entry names. *)
THEOREM OwnedCorrect == Spec => []SubprocessIsOwned
  <1>1. Inv => SubprocessIsOwned
    BY DEF Inv
  <1>2. QED
    BY <1>1, InvInit, InvNext, PTL DEF Spec

-----------------------------------------------------------------------------
(* Pinned sessions *)

\* The session of an entry is its own, and live unless TERMINAL_STOP, which
\* closes sessions that the map still holds, may have closed it; the session a
\* failed start is about to close has already left the map.
Kept(e) == ext[e].status # "unused" /\ (e \notin WebStops => ext[e].status = "live")

EntryIsKeyed ==
    \A s \in Sids : drivers[s].ext # 0 => ext[drivers[s].ext].key = s /\ Kept(drivers[s].ext)

FailedIsOut ==
    \A c \in Callers : cl[c].pc = "failed" =>
        /\ ext[cl[c].ext].status # "unused"
        /\ \A s \in Sids : drivers[s].ext # cl[c].ext

PinInv == Inv /\ EntryIsKeyed /\ FailedIsOut

LEMMA PinInit == Init => PinInv
  <1> SUFFICES ASSUME Init PROVE PinInv
    OBVIOUS
  <1>1. Inv
    BY InvInit
  <1>2. QED
    BY <1>1 DEF Init, PinInv, EntryIsKeyed, FailedIsOut, NoEntry, Idle

\* Steps that put no session into the map and close none.
LEMMA PinMoves ==
  ASSUME PinInv, Inv',
         \A s \in Sids : drivers'[s].ext \in {0, drivers[s].ext},
         \A e \in Exts : /\ ext'[e].key = ext[e].key
                         /\ e \notin WebStops /\ ext[e].status = "live" => ext'[e].status = "live"
                         /\ ext[e].status # "unused" => ext'[e].status # "unused",
         \A c \in Callers : cl'[c].pc = "failed" => cl[c].pc = "failed" /\ cl'[c].ext = cl[c].ext
  PROVE  PinInv'
  <1> USE SDKAssumption DEF PinInv
  <1>1. \A s \in Sids : drivers[s].ext \in Exts \cup {0}
    BY DEF Inv, TypeOK
  <1>2. \A c \in Callers : cl[c].pc = "failed" => cl[c].ext \in Exts
    BY DEF Inv, TypeOK, CallerPhases, CallerRec
  <1>3. EntryIsKeyed'
    <2> SUFFICES ASSUME NEW s \in Sids, drivers'[s].ext # 0
                 PROVE  ext'[drivers'[s].ext].key = s /\ Kept(drivers[s].ext)'
      BY <1>1 DEF EntryIsKeyed, Kept
    <2>1. drivers'[s].ext = drivers[s].ext /\ drivers[s].ext \in Exts
      BY <1>1
    <2>2. ext[drivers[s].ext].key = s /\ Kept(drivers[s].ext)
      BY <2>1 DEF EntryIsKeyed
    <2>3. /\ ext'[drivers[s].ext].key = ext[drivers[s].ext].key
          /\ Kept(drivers[s].ext)'
      BY <2>1, <2>2 DEF Kept
    <2>4. QED
      BY <2>1, <2>2, <2>3
  <1>4. FailedIsOut'
    <2> SUFFICES ASSUME NEW c \in Callers, cl'[c].pc = "failed"
                 PROVE  /\ ext'[cl'[c].ext].status # "unused"
                        /\ \A s \in Sids : drivers'[s].ext # cl'[c].ext
      BY DEF FailedIsOut
    <2>1. cl'[c].ext = cl[c].ext /\ cl[c].ext \in Exts
      BY <1>2
    <2>2. ext[cl[c].ext].status # "unused" /\ \A s \in Sids : drivers[s].ext # cl[c].ext
      BY DEF FailedIsOut
    <2>3. ext'[cl[c].ext].status # "unused"
      BY <2>1, <2>2
    <2>4. QED
      BY <2>1, <2>2, <2>3
  <1>5. QED
    BY <1>3, <1>4

LEMMA PinCaller ==
  ASSUME PinInv, Inv', NEW c \in Callers, NEW s \in Sids,
         \/ InjectBegin(c, s) \/ RecoverBegin(c, s) \/ Lookup(c) \/ EnsureExisting(c)
         \/ EnsureRefused(c) \/ StartReady(c) \/ SendCheck(c) \/ SendBroadcast(c)
  PROVE  PinInv'
  <1>1. UNCHANGED <<drivers, ext>>
    BY DEF InjectBegin, RecoverBegin, Lookup, EnsureExisting, EnsureRefused, StartReady, SendCheck,
           SendBroadcast
  <1>2. cl \in [Callers -> CallerRec]
    BY DEF PinInv, Inv, TypeOK
  <1>3. \A b \in Callers : cl'[b] = cl[b] \/ cl'[b].pc # "failed"
    <2>1. CASE \E pc \in Pcs \ {"failed"} : Step(c, pc)
      BY <1>2, <2>1 DEF Step, CallerRec
    <2>2. CASE \E a \in Answers : Answer(c, a)
      BY <1>2, <2>2 DEF Answer, CallerRec
    <2>3. CASE \E d, e, reuse : Handed(c, d, e, reuse)
      BY <1>2, <2>3 DEF Handed, CallerRec
    <2>4. CASE cl' = [cl EXCEPT ![c].pc = "lookup", ![c].sid = s]
      BY <1>2, <2>4 DEF CallerRec
    <2>5. CASE cl' = [cl EXCEPT ![c].pc = "ensure", ![c].sid = s]
      BY <1>2, <2>5 DEF CallerRec
    <2>6. CASE SendBroadcast(c)
      BY <1>2, <2>6 DEF SendBroadcast, CallerRec
    <2>7. QED
      BY <2>1, <2>2, <2>3, <2>4, <2>5, <2>6
      DEF InjectBegin, RecoverBegin, Lookup, EnsureExisting, EnsureRefused, StartReady, SendCheck,
          Pcs, Answers
  <1>4. QED
    BY <1>1, <1>3, PinMoves

LEMMA PinDriver ==
  ASSUME PinInv, Inv', NEW d \in Drivers,
         \/ PumpTake(d) \/ PumpExit(d) \/ Wait(d) \/ ReapStop(d) \/ AgentResult(d) \/ ProcExit(d)
         \/ GoIdle(d)
  PROVE  PinInv'
  <1>1. UNCHANGED <<drivers, ext, cl>>
    BY DEF PumpTake, PumpExit, Wait, ReapStop, AgentResult, ProcExit, GoIdle
  <1>2. QED
    BY <1>1, PinMoves

LEMMA PinEntries ==
  ASSUME PinInv, Inv', (\E d \in Drivers : Watch(d)) \/ ReapScan
  PROVE  PinInv'
  <1>1. UNCHANGED <<ext, cl>>
    BY DEF Watch, ReapScan
  <1>2. drivers \in [Sids -> [driver : Drivers \cup {0}, ext : Exts \cup {0}]]
    BY DEF PinInv, Inv, TypeOK
  <1>3. ASSUME NEW s \in Sids PROVE drivers'[s].ext \in {0, drivers[s].ext}
    <2>1. ASSUME NEW d \in Drivers, Watch(d) PROVE drivers'[s].ext \in {0, drivers[s].ext}
      <3>1. drv[d].sid \in Sids
        BY <2>1 DEF Watch, PinInv, Inv, DriverPhases
      <3>2. drivers'[s] = drivers[s] \/ drivers'[s] = [drivers[s] EXCEPT !.driver = 0]
        BY <1>2, <2>1, <3>1 DEF Watch, Forget
      <3>3. QED
        BY <1>2, <3>2
    <2>2. CASE ReapScan
      BY <1>2, <2>2 DEF ReapScan, NoEntry
    <2>3. QED
      BY <2>1, <2>2
  <1>4. QED
    BY <1>1, <1>3, PinMoves

\* What may become of a session outside a failed start.
SessionLives(e) ==
    /\ ext'[e].key = ext[e].key
    /\ e \notin WebStops /\ ext[e].status = "live" => ext'[e].status = "live"
    /\ ext[e].status # "unused" => ext'[e].status # "unused"

LEMMA SessionsLive ==
  ASSUME Inv,
         \/ \E c \in Callers : StartSpawn(c)
         \/ \E d \in Drivers, s \in Sids : AgentFork(d, s)
         \/ \E e \in Exts : Purge(e) \/ TerminalStop(e)
  PROVE  \A e \in Exts : SessionLives(e)
  <1>1. ext \in [Exts -> ExtRec]
    BY DEF Inv, TypeOK
  <1>2. ASSUME NEW f, NEW s, ext' = [ext EXCEPT ![f].cur = s]
        PROVE  \A e \in Exts : SessionLives(e)
    BY <1>1, <1>2 DEF ExtRec, SessionLives
  <1>3. ASSUME NEW f \in Exts, Purge(f) PROVE \A e \in Exts : SessionLives(e)
    <2>1. ext[f].status = "closed" /\ ext' = [ext EXCEPT ![f].status = "purged"]
      BY <1>3 DEF Purge
    <2>2. QED
      BY <1>1, <2>1 DEF ExtRec, SessionLives
  <1>4. ASSUME NEW f \in Exts, TerminalStop(f) PROVE \A e \in Exts : SessionLives(e)
    <2>1. /\ f \in WebStops
          /\ ext' = [ext EXCEPT ![f].status = IF ext[f].status = "live" THEN "closed" ELSE ext[f].status]
      BY <1>4 DEF TerminalStop, Close
    <2>2. QED
      BY <1>1, <2>1 DEF ExtRec, SessionLives
  <1>5. ASSUME NEW c \in Callers, StartSpawn(c) PROVE \A e \in Exts : SessionLives(e)
    <2>1. ext' = [ext EXCEPT ![cl[c].ext].cur = cl[c].sid]
      BY <1>5 DEF StartSpawn
    <2>2. QED
      BY <2>1, <1>2
  <1>6. ASSUME NEW d \in Drivers, NEW s \in Sids, AgentFork(d, s)
        PROVE  \A e \in Exts : SessionLives(e)
    <2>1. ext' = [ext EXCEPT ![drv[d].ext].cur = s]
      BY <1>6 DEF AgentFork
    <2>2. QED
      BY <2>1, <1>2
  <1>7. QED
    BY <1>3, <1>4, <1>5, <1>6

LEMMA PinSession ==
  ASSUME PinInv, Inv',
         \/ \E c \in Callers : StartSpawn(c)
         \/ \E d \in Drivers, s \in Sids : AgentFork(d, s)
         \/ \E e \in Exts : Purge(e) \/ TerminalStop(e)
  PROVE  PinInv'
  <1>1. drivers' = drivers
    BY DEF StartSpawn, AgentFork, Purge, TerminalStop
  <1>2. cl \in [Callers -> CallerRec]
    BY DEF PinInv, Inv, TypeOK
  <1>3. \A e \in Exts : SessionLives(e)
    BY SessionsLive DEF PinInv
  <1>4. \A c \in Callers : cl'[c] = cl[c] \/ cl'[c].pc # "failed"
    <2>1. ASSUME NEW b \in Callers, StartSpawn(b)
          PROVE  \A c \in Callers : cl'[c] = cl[c] \/ cl'[c].pc # "failed"
      <3>1. cl' = [cl EXCEPT ![b].pc = "subscribe"]
        BY <2>1 DEF StartSpawn, Step
      <3>2. QED
        BY <1>2, <3>1 DEF CallerRec
    <2>2. CASE cl' = cl
      BY <2>2
    <2>3. QED
      BY <2>1, <2>2 DEF AgentFork, Purge, TerminalStop
  <1>5. QED
    BY <1>1, <1>3, <1>4, PinMoves DEF SessionLives

\* A fresh entry holds the session of the entry before it, or one that was
\* unused and so is in no other entry and in no failed start's hands.
LEMMA PinEnsureNew ==
  ASSUME PinInv, Inv', NEW c \in Callers, EnsureNew(c)
  PROVE  PinInv'
  <1> DEFINE s == cl[c].sid
  <1>1. /\ s \in Sids
        /\ ext \in [Exts -> ExtRec] /\ cl \in [Callers -> CallerRec]
        /\ drivers \in [Sids -> [driver : Drivers \cup {0}, ext : Exts \cup {0}]]
    BY DEF PinInv, Inv, TypeOK, EnsureNew, CallerPhases, Active
  <1>2. PICK d \in Drivers, e \in Exts :
            /\ drv[d] = Unused /\ Attach(s, e)
            /\ drv' = [drv EXCEPT ![d] = [drv[d] EXCEPT !.sid = s, !.ext = e]]
            /\ drivers' = [drivers EXCEPT ![s] = [driver |-> d, ext |-> e]]
            /\ cl' = [cl EXCEPT ![c] = [cl[c] EXCEPT !.pc = "start", !.drv = d, !.ext = e,
                                                     !.reuse = drivers[s].ext # 0]]
    BY DEF EnsureNew
  <1>3. \A b \in Callers : cl'[b].pc = "failed" => cl'[b] = cl[b]
    BY <1>1, <1>2 DEF CallerRec
  <1>4. drivers'[s].ext = e /\ \A t \in Sids \ {s} : drivers'[t].ext = drivers[t].ext
    BY <1>1, <1>2
  <1>5. CASE drivers[s].ext # 0
    <2>1. ext' = ext /\ e = drivers[s].ext
      BY <1>2, <1>5 DEF Attach
    <2>2. \A t \in Sids : drivers'[t].ext = drivers[t].ext
      BY <1>4, <2>1
    <2>3. QED
      BY <1>3, <2>1, <2>2, PinMoves
  <1>6. CASE drivers[s].ext = 0
    <2>1. ext[e].status = "unused" /\ ext' = [ext EXCEPT ![e] = [ext[e] EXCEPT !.key = s, !.status = "live"]]
      BY <1>2, <1>6 DEF Attach
    <2>2. /\ ext'[e].key = s /\ ext'[e].status = "live"
          /\ \A f \in Exts \ {e} : ext'[f] = ext[f]
      BY <1>1, <2>1 DEF ExtRec
    <2>3. ASSUME NEW t \in Sids \ {s}, drivers'[t].ext # 0
          PROVE  /\ ext'[drivers'[t].ext].key = t /\ ext'[drivers'[t].ext].status # "unused"
                 /\ drivers'[t].ext \notin WebStops => ext'[drivers'[t].ext].status = "live"
      <3>1. drivers'[t].ext = drivers[t].ext /\ drivers[t].ext \in Exts
        BY <1>1, <1>4, <2>3
      <3>2. ext[drivers[t].ext].key = t /\ Kept(drivers[t].ext)
        BY <2>3, <3>1 DEF PinInv, EntryIsKeyed
      <3>3. ext'[drivers[t].ext] = ext[drivers[t].ext]
        BY <2>1, <2>2, <3>1, <3>2 DEF Kept
      <3>4. QED
        BY <3>1, <3>2, <3>3 DEF Kept
    <2>4. EntryIsKeyed'
      BY <1>4, <2>2, <2>3 DEF EntryIsKeyed, Kept
    <2>5. ASSUME NEW b \in Callers, cl'[b].pc = "failed"
          PROVE  /\ ext'[cl'[b].ext].status # "unused"
                 /\ \A t \in Sids : drivers'[t].ext # cl'[b].ext
      <3>1. cl'[b] = cl[b]
        BY <1>3, <2>5
      <3>2. cl[b].ext \in Exts
        BY <1>1, <2>5, <3>1 DEF PinInv, Inv, CallerPhases, CallerRec
      <3>3. ext[cl[b].ext].status # "unused" /\ \A t \in Sids : drivers[t].ext # cl[b].ext
        BY <2>5, <3>1 DEF PinInv, FailedIsOut
      <3>4. cl[b].ext # e /\ ext'[cl[b].ext] = ext[cl[b].ext]
        BY <2>1, <2>2, <3>2, <3>3
      <3>5. QED
        BY <1>4, <3>1, <3>3, <3>4
    <2>6. FailedIsOut'
      BY <2>5 DEF FailedIsOut
    <2>7. QED
      BY <2>4, <2>6 DEF PinInv
  <1>7. QED
    BY <1>5, <1>6

\* A start that fails gives up the entry before the session it made is closed.
LEMMA PinStartFails ==
  ASSUME PinInv, Inv', NEW c \in Callers, StartFails(c)
  PROVE  PinInv'
  <1> DEFINE s == cl[c].sid
  <1>1. /\ s \in Sids /\ cl[c].pc = "start" /\ cl[c].ext # 0 /\ cl[c].ext \in Exts
        /\ drivers[s].driver = cl[c].drv /\ drivers[s].ext = cl[c].ext
        /\ cl \in [Callers -> CallerRec]
        /\ drivers \in [Sids -> [driver : Drivers \cup {0}, ext : Exts \cup {0}]]
    BY DEF PinInv, Inv, TypeOK, StartFails, CallerPhases, StartingIsEntered, Active, CallerRec
  <1>2. ext' = ext /\ drivers' = [drivers EXCEPT ![s] = FailedEntry(s, cl[c].drv, cl[c].reuse)]
    BY DEF StartFails
  <1>3. \A t \in Sids \ {s} : drivers'[t] = drivers[t]
    BY <1>1, <1>2
  <1>4. CASE cl[c].reuse
    <2>1. drivers'[s].ext = drivers[s].ext
      BY <1>1, <1>2, <1>4 DEF FailedEntry
    <2>2. \A b \in Callers : cl'[b].pc = "failed" => cl'[b] = cl[b]
      BY <1>1, <1>4 DEF StartFails, Answer, CallerRec
    <2>3. \A t \in Sids : drivers'[t].ext = drivers[t].ext
      BY <1>3, <2>1
    <2>4. QED
      BY <1>2, <2>2, <2>3, PinMoves
  <1>5. CASE ~cl[c].reuse
    <2>1. drivers'[s].ext = 0
      BY <1>1, <1>2, <1>5 DEF FailedEntry, NoEntry
    <2>2. cl'[c].ext = cl[c].ext /\ \A b \in Callers \ {c} : cl'[b] = cl[b]
      BY <1>1, <1>5 DEF StartFails, Step, CallerRec
    <2>3. \A t \in Sids : drivers'[t].ext = 0 \/ drivers'[t].ext = drivers[t].ext
      BY <1>3, <2>1
    <2>4. EntryIsKeyed'
      BY <1>2, <2>3 DEF PinInv, EntryIsKeyed, Kept
    <2>5. ext[cl[c].ext].key = s /\ ext[cl[c].ext].status # "unused"
      BY <1>1 DEF PinInv, EntryIsKeyed, Kept
    <2>6. ASSUME NEW t \in Sids PROVE drivers'[t].ext # cl[c].ext
      <3>1. CASE t = s
        BY <1>1, <2>1, <3>1
      <3>2. CASE t # s
        BY <1>1, <1>3, <2>5, <3>2 DEF PinInv, EntryIsKeyed
      <3>3. QED
        BY <3>1, <3>2
    <2>7. ASSUME NEW b \in Callers, cl'[b].pc = "failed"
          PROVE  /\ ext'[cl'[b].ext].status # "unused"
                 /\ \A t \in Sids : drivers'[t].ext # cl'[b].ext
      <3>1. CASE b = c
        BY <1>2, <2>2, <2>5, <2>6, <3>1
      <3>2. CASE b # c
        <4>1. cl'[b] = cl[b]
          BY <2>2, <3>2
        <4>2. cl[b].ext # 0
          BY <2>7, <4>1 DEF PinInv, Inv, CallerPhases
        <4>3. ext[cl[b].ext].status # "unused" /\ \A t \in Sids : drivers[t].ext # cl[b].ext
          BY <2>7, <4>1 DEF PinInv, FailedIsOut
        <4>4. QED
          BY <1>2, <2>3, <4>1, <4>2, <4>3
      <3>3. QED
        BY <3>1, <3>2
    <2>8. FailedIsOut'
      BY <2>7 DEF FailedIsOut
    <2>9. QED
      BY <2>4, <2>8 DEF PinInv
  <1>6. QED
    BY <1>4, <1>5

LEMMA PinStartFailsClose ==
  ASSUME PinInv, Inv', NEW c \in Callers, StartFailsClose(c)
  PROVE  PinInv'
  <1> DEFINE e == cl[c].ext
  <1>1. /\ cl[c].pc = "failed" /\ drivers' = drivers
        /\ ext \in [Exts -> ExtRec] /\ cl \in [Callers -> CallerRec]
        /\ drivers \in [Sids -> [driver : Drivers \cup {0}, ext : Exts \cup {0}]]
    BY DEF PinInv, Inv, TypeOK, StartFailsClose
  <1>2. \A s \in Sids : drivers[s].ext # e
    BY <1>1 DEF PinInv, FailedIsOut
  <1>3. /\ \A f \in Exts \ {e} : ext'[f] = ext[f]
        /\ \A f \in Exts : ext[f].status # "unused" => ext'[f].status # "unused"
    BY <1>1 DEF StartFailsClose, Close, ExtRec
  <1>4. \A b \in Callers : cl'[b].pc = "failed" => cl'[b] = cl[b]
    BY <1>1 DEF StartFailsClose, Answer, CallerRec
  <1>5. ASSUME NEW s \in Sids, drivers'[s].ext # 0
        PROVE  ext'[drivers'[s].ext].key = s /\ Kept(drivers[s].ext)'
    <2>1. drivers[s].ext \in Exts \ {e}
      BY <1>1, <1>2, <1>5
    <2>2. ext[drivers[s].ext].key = s /\ Kept(drivers[s].ext)
      BY <1>1, <1>5 DEF PinInv, EntryIsKeyed
    <2>3. ext'[drivers[s].ext] = ext[drivers[s].ext]
      BY <1>3, <2>1
    <2>4. QED
      BY <1>1, <2>2, <2>3 DEF Kept
  <1>6. ASSUME NEW b \in Callers, cl'[b].pc = "failed"
        PROVE  /\ ext'[cl'[b].ext].status # "unused"
               /\ \A s \in Sids : drivers'[s].ext # cl'[b].ext
    <2>1. cl'[b] = cl[b]
      BY <1>4, <1>6
    <2>2. cl[b].ext \in Exts
      BY <1>1, <1>6, <2>1 DEF PinInv, Inv, CallerPhases, CallerRec
    <2>3. ext[cl[b].ext].status # "unused" /\ \A s \in Sids : drivers[s].ext # cl[b].ext
      BY <1>6, <2>1 DEF PinInv, FailedIsOut
    <2>4. QED
      BY <1>1, <1>3, <2>1, <2>2, <2>3
  <1>7. QED
    BY <1>5, <1>6 DEF PinInv, EntryIsKeyed, FailedIsOut

LEMMA PinNext ==
  PinInv /\ [Next]_vars => PinInv'
  <1> SUFFICES ASSUME PinInv, [Next]_vars PROVE PinInv'
    OBVIOUS
  <1>1. Inv'
    BY InvNext DEF PinInv
  <1>2. CASE UNCHANGED vars
    BY <1>1, <1>2, PinMoves DEF vars
  <1>3. ASSUME NEW c \in Callers, CallerStep(c) PROVE PinInv'
    <2>1. cl[c].sid \in Sids
      <3>1. Active(c)
        <4>1. CASE EnsureNew(c)
          BY <4>1 DEF Active, EnsureNew
        <4>2. CASE StartSpawn(c) \/ StartReady(c) \/ StartFails(c) \/ StartFailsClose(c)
          BY <4>2 DEF Active, StartSpawn, StartReady, StartFails, StartFailsClose
        <4>3. CASE Lookup(c) \/ EnsureExisting(c) \/ EnsureRefused(c) \/ SendCheck(c) \/ SendBroadcast(c)
          BY <4>3 DEF Active, Lookup, EnsureExisting, EnsureRefused, SendCheck, SendBroadcast
        <4>4. QED
          BY <1>3, <4>1, <4>2, <4>3 DEF CallerStep
      <3>2. QED
        BY <3>1 DEF PinInv, Inv, CallerPhases
    <2>2. QED
      BY <1>1, <1>3, <2>1, PinCaller, PinEnsureNew, PinSession, PinStartFails, PinStartFailsClose
      DEF CallerStep
  <1>4. ASSUME NEW d \in Drivers, DriverStep(d) \/ Subprocess(d) \/ GoIdle(d) PROVE PinInv'
    BY <1>1, <1>4, PinDriver, PinEntries, PinSession DEF DriverStep, Subprocess
  <1>5. ASSUME NEW c \in Callers, NEW s \in Sids, InjectBegin(c, s) \/ RecoverBegin(c, s)
        PROVE  PinInv'
    BY <1>1, <1>5, PinCaller
  <1>6. ASSUME NEW e \in Exts, Purge(e) \/ TerminalStop(e) PROVE PinInv'
    BY <1>1, <1>6, PinSession
  <1>7. CASE ReapScan
    BY <1>1, <1>7, PinEntries
  <1>8. QED
    BY <1>2, <1>3, <1>4, <1>5, <1>6, <1>7 DEF Next

(* No entry is left on a session that the manager closed: the failure branch *)
(* of ensureDriver (manager.go) deletes the entry before it closes the       *)
(* session it made, and never closes one it found.  Sessions that the web    *)
(* stops are left out, as in the property.                                   *)
THEOREM PinnedCorrect == Spec => []NoClosedSessionPinned
  <1>1. PinInv => NoClosedSessionPinned
    BY DEF PinInv, EntryIsKeyed, Kept, NoClosedSessionPinned, Live
  <1>2. PinInv /\ [Next]_vars => PinInv'
    BY PinNext
  <1>3. QED
    BY <1>1, <1>2, PinInit, PTL DEF Spec

-----------------------------------------------------------------------------
(* A prompt reaches one subprocess: the inductive invariant *)

\* At most one subprocess runs on a session, and it is the entry's if there is
\* an entry on that session.
OneRunner ==
    \A d, f \in Drivers : Running(d) /\ Running(f) /\ drv[d].ext = drv[f].ext => d = f

EntryRuns ==
    \A s \in Sids, d \in Drivers :
        Running(d) /\ drivers[s].ext = drv[d].ext => drivers[s].driver = d

\* What is known of a driver and its pump.
PumpPhase(d) ==
    /\ drv[d].ext # 0 => ext[drv[d].ext].status # "unused"
    /\ drv[d].proc # "none" => drv[d].ext # 0
    /\ drv[d].proc = "none" => drv[d].pump = "none"
    /\ drv[d].pump = "none" => drv[d].queue = <<>>

\* A caller waits for the handshake with d's pump.
Subscribing(d) == \E c \in Callers : cl[c].pc = "subscribe" /\ cl[c].drv = d

PumpPhases ==
    \A d \in Drivers :
        /\ PumpPhase(d)
        /\ drv[d].proc # "none" /\ drv[d].pump = "none" => Subscribing(d)

\* What a caller knows of its driver.
CallerHeld(c) ==
    /\ cl[c].pc \in {"idle", "lookup", "ensure"} => cl[c].drv = 0
    /\ cl[c].pc # "done" => cl[c].ans = "none"
    /\ cl[c].drv # 0 => drv[cl[c].drv].ext # 0 /\ drv[cl[c].drv].ext = cl[c].ext
    /\ cl[c].pc \in {"start", "subscribe", "failed", "send", "broadcast"}
          \/ cl[c].ans = "completed" => cl[c].drv # 0
    /\ cl[c].pc = "subscribe" => drv[cl[c].drv].proc # "none" /\ drv[cl[c].drv].pump = "none"
    /\ cl[c].pc = "failed" => ~cl[c].reuse

CallerHolds == \A c \in Callers : CallerHeld(c)

\* The session made for a start that may still fail has no other driver.
SessionIsNew ==
    \A c \in Callers : cl[c].pc \in {"start", "failed"} /\ ~cl[c].reuse =>
        \A d \in Drivers : drv[d].ext = cl[c].ext => d = cl[c].drv

OneSubscriber ==
    \A b, c \in Callers :
        cl[b].pc = "subscribe" /\ cl[c].pc = "subscribe" /\ cl[b].drv = cl[c].drv => b = c

\* The runner handles one inject at a time, so no inject holds a driver that
\* another one is starting.
OneInject == \A b, c \in Injects : Active(b) /\ Active(c) => b = c

OwnStart ==
    \A p, c \in Injects :
        cl[c].pc \in {"start", "subscribe", "failed"} /\ cl[p].drv = cl[c].drv => p = c

\* A recovery call has its hands on the driver of inject p.
Shared(p) == \E r \in Recoveries : cl[r].drv = cl[p].drv

\* The session an inject is about to use is live.
SessionWaits ==
    \A p \in Injects :
        cl[p].pc \in {"start", "subscribe", "send", "broadcast"} /\ cl[p].ext \notin WebStops =>
            Live(cl[p].ext) \/ Shared(p)

\* The drivers that a prompt reached or will reach.
Holders(p) == got[p] \cup {d \in Drivers : Running(d) /\ p \in Range(drv[d].queue)}

Broadcast ==
    \A p \in Injects :
        /\ got[p] # {} \/ (\E d \in Drivers : p \in Range(drv[d].queue)) => cl[p].ans = "completed"
        /\ \A d, f \in Holders(p) : d = f

Accepted ==
    \A p \in Injects : Completed(p) =>
        \/ got[p] # {}
        \/ drv[cl[p].drv].pump = "on" /\ p \in Range(drv[cl[p].drv].queue)
        \/ drv[cl[p].drv].cancelled \/ ~Running(cl[p].drv) \/ drv[cl[p].drv].pump = "off"
        \/ cl[p].full \/ cl[p].ext \in WebStops
        \/ Shared(p)

DeliveryInv ==
    /\ PinInv
    /\ OneRunner /\ EntryRuns /\ PumpPhases
    /\ CallerHolds /\ SessionIsNew /\ OneSubscriber /\ OneInject /\ OwnStart /\ SessionWaits
    /\ Broadcast /\ Accepted

LEMMA DeliveryInit == Init => DeliveryInv
  <1> SUFFICES ASSUME Init PROVE DeliveryInv
    OBVIOUS
  <1>1. PinInv
    BY PinInit
  <1>2. \A d \in Drivers : /\ drv[d].ext = 0 /\ drv[d].proc = "none" /\ drv[d].pump = "none"
                           /\ drv[d].queue = <<>>
    BY DEF Init, Unused
  <1>3. \A c \in Callers : cl[c].pc = "idle" /\ cl[c].drv = 0 /\ cl[c].ans = "none"
    BY DEF Init, Idle
  <1>4. \A p \in Injects : got[p] = {}
    BY DEF Init
  <1>5. Range(<<>>) = {}
    BY DEF Range
  <1>6. Injects \subseteq Callers
    BY DEF Callers
  <1>7. OneRunner /\ EntryRuns /\ PumpPhases
    BY <1>2 DEF OneRunner, EntryRuns, PumpPhases, PumpPhase, Running
  <1>8. CallerHolds /\ SessionIsNew /\ OneSubscriber
    BY <1>3 DEF CallerHolds, CallerHeld, SessionIsNew, OneSubscriber
  <1>9. OneInject /\ OwnStart /\ SessionWaits /\ Accepted
    BY <1>3, <1>6 DEF OneInject, OwnStart, SessionWaits, Accepted, Active, Completed
  <1>10. Broadcast
    BY <1>2, <1>4, <1>5 DEF Broadcast, Holders, Running
  <1>11. QED
    BY <1>1, <1>7, <1>8, <1>9, <1>10 DEF DeliveryInv

-----------------------------------------------------------------------------
(* What the steps do to the parts of the invariant *)

\* A driver keeps its session and its queue; its subprocess may end, its pump
\* may end and it may be cancelled.
DriverRests(d) ==
    /\ drv'[d].ext = drv[d].ext /\ drv'[d].queue = drv[d].queue
    /\ drv'[d].proc = drv[d].proc \/ (drv[d].proc = "running" /\ drv'[d].proc = "exited")
    /\ drv'[d].pump = drv[d].pump \/ (drv[d].pump = "on" /\ drv'[d].pump = "off")
    /\ drv[d].cancelled => drv'[d].cancelled

\* An entry stays, is dropped, or loses a driver that is not running.
EntryRests(s) ==
    \/ drivers'[s] = drivers[s]
    \/ drivers'[s].ext = 0
    \/ /\ drivers'[s].ext = drivers[s].ext
       /\ \A d \in Drivers : Running(d) => drivers[s].driver # d

\* No prompt moves, no subprocess begins.
Quiet ==
    /\ got' = got
    /\ \A d \in Drivers : DriverRests(d)
    /\ \A s \in Sids : EntryRests(s)

Lives == \A e \in Exts : SessionLives(e)

Others(c) == \A b \in Callers \ {c} : cl'[b] = cl[b]

\* The caller keeps what it holds.
Holds(c) == cl'[c].drv = cl[c].drv /\ cl'[c].ext = cl[c].ext /\ cl'[c].reuse = cl[c].reuse

Rests == Quiet /\ Lives /\ cl' = cl

Advances(c) ==
    /\ Quiet /\ Lives /\ Others(c) /\ Holds(c) /\ cl'[c].full = cl[c].full
    /\ cl[c].ans = "none" \/ cl'[c].ans = cl[c].ans
    /\ \/ /\ cl[c].pc \in {"idle", "lookup", "ensure", "send", "start"}
          /\ cl'[c].pc = "done" /\ cl'[c].ans \notin {"none", "completed"}
       \/ /\ cl'[c].ans = cl[c].ans /\ cl[c].pc = "idle" /\ cl'[c].pc \in {"lookup", "ensure"}
          /\ c \in Injects => \A b \in Injects : ~Active(b)
       \/ cl'[c].ans = cl[c].ans /\ cl[c].pc = "lookup" /\ cl'[c].pc = "ensure"
       \/ cl'[c].ans = cl[c].ans /\ cl[c].pc = "send" /\ cl'[c].pc = "broadcast"
       \/ /\ cl'[c].ans = cl[c].ans /\ cl[c].pc = "start" /\ cl'[c].pc = "failed"
          /\ ~cl[c].reuse

\* The caller goes on with driver d: an inject to send its prompt, a recovery
\* to its end.
HandedTo(c, d, e) ==
    /\ cl'[c].drv = d /\ cl'[c].ext = e
    /\ c \in Injects => cl'[c].pc = "send" /\ cl'[c].ans = "none"
    /\ c \notin Injects => cl'[c].pc = "done" /\ cl'[c].ans = "completed"

Joins(c) ==
    /\ Quiet /\ Lives /\ Others(c)
    /\ cl[c].pc = "ensure"
    /\ LET s == cl[c].sid IN
       /\ drivers[s].driver # 0
       /\ HandedTo(c, drivers[s].driver, drivers[s].ext)

Makes(c) ==
    /\ cl[c].pc = "ensure" /\ Others(c) /\ got' = got
    /\ LET s == cl[c].sid IN
       /\ ~Reusable(s)
       /\ \E d \in Drivers, e \in Exts :
            /\ drv[d] = Unused /\ Attach(s, e)
            /\ \A f \in Drivers \ {d} : drv'[f] = drv[f]
            /\ drv'[d].ext = e /\ drv'[d].proc = "none" /\ drv'[d].pump = "none"
            /\ drv'[d].queue = <<>>
            /\ drivers'[s].driver = d /\ drivers'[s].ext = e
            /\ \A t \in Sids \ {s} : drivers'[t] = drivers[t]
            /\ cl'[c].pc = "start" /\ cl'[c].drv = d /\ cl'[c].ext = e
            /\ cl'[c].ans = cl[c].ans /\ (~cl'[c].reuse => drivers[s].ext = 0)

Spawns(c) ==
    /\ cl[c].pc = "start" /\ Lives /\ Others(c) /\ Holds(c) /\ got' = got /\ drivers' = drivers
    /\ cl'[c].pc = "subscribe" /\ cl'[c].ans = cl[c].ans
    /\ \A f \in Drivers \ {cl[c].drv} : drv'[f] = drv[f]
    /\ LET d == cl[c].drv IN
       /\ drv'[d].proc = "running" /\ drv'[d].ext = drv[d].ext
       /\ drv'[d].pump = drv[d].pump /\ drv'[d].queue = drv[d].queue

Readies(c) ==
    /\ cl[c].pc = "subscribe" /\ Lives /\ Others(c) /\ got' = got /\ drivers' = drivers
    /\ HandedTo(c, cl[c].drv, cl[c].ext)
    /\ \A f \in Drivers \ {cl[c].drv} : drv'[f] = drv[f]
    /\ LET d == cl[c].drv IN
       /\ drv'[d].pump \in {"on", "off"} /\ drv'[d].ext = drv[d].ext
       /\ drv'[d].proc = drv[d].proc /\ drv'[d].queue = drv[d].queue
       /\ drv'[d].cancelled = drv[d].cancelled

Closes(c) ==
    /\ cl[c].pc = "failed" /\ Quiet /\ Others(c) /\ Holds(c)
    /\ cl'[c].pc = "done" /\ cl'[c].ans = "start_failed"
    /\ ext'[cl[c].ext].status # "unused"
    /\ \A e \in Exts \ {cl[c].ext} : ext'[e] = ext[e]

Broadcasts(c) ==
    /\ cl[c].pc = "broadcast" /\ Others(c) /\ Holds(c) /\ UNCHANGED <<drivers, ext, got>>
    /\ cl'[c].pc = "done" /\ cl'[c].ans = "completed"
    /\ Len(drv[cl[c].drv].queue) >= InputBuffer => cl'[c].full
    /\ \A d \in Drivers :
         /\ drv'[d].ext = drv[d].ext /\ drv'[d].proc = drv[d].proc /\ drv'[d].pump = drv[d].pump
         /\ drv'[d].cancelled = drv[d].cancelled
         /\ drv'[d].queue = IF /\ Live(cl[c].ext) /\ drv[d].ext = cl[c].ext
                               /\ drv[d].pump = "on" /\ Len(drv[d].queue) < InputBuffer
                            THEN Append(drv[d].queue, c) ELSE drv[d].queue

Takes(d) ==
    /\ UNCHANGED <<drivers, ext, cl>>
    /\ drv[d].pump = "on" /\ drv[d].queue # <<>>
    /\ \A f \in Drivers \ {d} : drv'[f] = drv[f]
    /\ drv'[d].ext = drv[d].ext /\ drv'[d].proc = drv[d].proc
    /\ drv'[d].cancelled = drv[d].cancelled /\ drv'[d].queue = Tail(drv[d].queue)
    /\ LET p == Head(drv[d].queue) IN
       \/ /\ drv[d].proc = "running" /\ drv'[d].pump = "on"
          /\ got' = [got EXCEPT ![p] = @ \cup {d}]
       \/ drv[d].proc # "running" /\ drv'[d].pump = "off" /\ got' = got

Effects ==
    \/ Rests
    \/ \E c \in Callers : \/ Advances(c) \/ Joins(c) \/ Makes(c) \/ Spawns(c) \/ Readies(c)
                          \/ Closes(c) \/ Broadcasts(c)
    \/ \E d \in Drivers : Takes(d)
-----------------------------------------------------------------------------
(* Every step has one of these effects *)

LEMMA Unaltered ==
  /\ got' = got /\ drv' = drv /\ drivers' = drivers => Quiet
  /\ ext' = ext => Lives
  BY DEF Quiet, DriverRests, EntryRests, Lives, SessionLives

\* A step of one driver that leaves the entries alone.
LEMMA OneRests ==
  ASSUME drv \in [Drivers -> DriverRec], NEW d \in Drivers, NEW r \in DriverRec,
         drv' = [drv EXCEPT ![d] = r], got' = got,
         \A s \in Sids : EntryRests(s),
         r.ext = drv[d].ext, r.queue = drv[d].queue,
         r.proc = drv[d].proc \/ (drv[d].proc = "running" /\ r.proc = "exited"),
         r.pump = drv[d].pump \/ (drv[d].pump = "on" /\ r.pump = "off"),
         drv[d].cancelled => r.cancelled
  PROVE  Quiet
  <1>1. drv'[d] = r /\ \A f \in Drivers \ {d} : drv'[f] = drv[f]
    OBVIOUS
  <1>2. DriverRests(d)
    BY <1>1 DEF DriverRests
  <1>3. \A f \in Drivers \ {d} : DriverRests(f)
    BY <1>1 DEF DriverRests
  <1>4. QED
    BY <1>2, <1>3 DEF Quiet

LEMMA DriverStepRests ==
  ASSUME Inv, NEW d \in Drivers,
         \/ PumpExit(d) \/ Wait(d) \/ ReapStop(d) \/ Watch(d)
         \/ AgentResult(d) \/ ProcExit(d) \/ GoIdle(d)
  PROVE  Rests
  <1>1. drv \in [Drivers -> DriverRec] /\ drv[d] \in DriverRec
    BY DEF Inv, TypeOK
  <1>2. Lives /\ cl' = cl /\ got' = got
    BY Unaltered DEF PumpExit, Wait, ReapStop, Watch, AgentResult, ProcExit, GoIdle
  <1>3. \A s \in Sids : EntryRests(s)
    <2>1. CASE Watch(d)
      <3>1. /\ drivers' = [drivers EXCEPT ![drv[d].sid] = Forget(drv[d].sid, d)]
            /\ drv[d].proc = "exited"
        BY <2>1 DEF Watch, Inv, DriverPhases
      <3>2. drivers \in [Sids -> [driver : Drivers \cup {0}, ext : Exts \cup {0}]]
        BY DEF Inv, TypeOK
      <3>3. \A s \in Sids : \/ drivers'[s] = drivers[s]
                            \/ /\ drivers'[s].ext = drivers[s].ext
                               /\ drivers[s].driver = d
        BY <3>1, <3>2 DEF Forget
      <3>4. QED
        BY <3>1, <3>3 DEF EntryRests, Running
    <2>2. CASE drivers' = drivers
      BY <2>2 DEF EntryRests
    <2>3. QED
      BY <2>1, <2>2 DEF PumpExit, Wait, ReapStop, AgentResult, ProcExit, GoIdle
  <1>4. Quiet
    <2>1. CASE PumpExit(d)
      <3>1. drv' = [drv EXCEPT ![d] = [drv[d] EXCEPT !.pump = "off"]] /\ drv[d].pump = "on"
        BY <2>1 DEF PumpExit
      <3>2. QED
        BY <1>1, <1>2, <1>3, <3>1, OneRests DEF DriverRec, PumpStates
    <2>2. CASE Wait(d)
      <3>1. drv' = [drv EXCEPT ![d] = [drv[d] EXCEPT !.cancelled = TRUE, !.done = TRUE]]
        BY <2>2 DEF Wait
      <3>2. QED
        BY <1>1, <1>2, <1>3, <3>1, OneRests DEF DriverRec
    <2>3. CASE ReapStop(d)
      <3>1. drv' = [drv EXCEPT ![d] = [drv[d] EXCEPT !.cancelled = TRUE]]
        BY <2>3 DEF ReapStop, Stop
      <3>2. QED
        BY <1>1, <1>2, <1>3, <3>1, OneRests DEF DriverRec
    <2>4. CASE Watch(d)
      <3>1. drv' = [drv EXCEPT ![d] = [drv[d] EXCEPT !.watched = FALSE]]
        BY <2>4 DEF Watch
      <3>2. QED
        BY <1>1, <1>2, <1>3, <3>1, OneRests DEF DriverRec
    <2>5. CASE AgentResult(d)
      <3>1. /\ drv' = [drv EXCEPT ![d] = TurnEnds([drv[d] EXCEPT !.work = Tail(drv[d].work)])]
            /\ Tail(drv[d].work) \in Seq(Injects)
        BY <1>1, <2>5 DEF AgentResult, DriverRec
      <3>2. QED
        BY <1>1, <1>2, <1>3, <3>1, OneRests DEF DriverRec, TurnEnds
    <2>6. CASE ProcExit(d)
      <3>1. /\ drv' = [drv EXCEPT ![d] = [drv[d] EXCEPT !.proc = "exited"]]
            /\ drv[d].proc = "running"
        BY <2>6 DEF ProcExit
      <3>2. QED
        BY <1>1, <1>2, <1>3, <3>1, OneRests DEF DriverRec
    <2>7. CASE GoIdle(d)
      <3>1. drv' = [drv EXCEPT ![d] = [drv[d] EXCEPT !.idle = TRUE]]
        BY <2>7 DEF GoIdle
      <3>2. QED
        BY <1>1, <1>2, <1>3, <3>1, OneRests DEF DriverRec
    <2>8. QED
      BY <2>1, <2>2, <2>3, <2>4, <2>5, <2>6, <2>7
  <1>5. QED
    BY <1>2, <1>4 DEF Rests

LEMMA OtherStepRests ==
  ASSUME Inv,
         \/ ReapScan \/ UNCHANGED vars
         \/ \E d \in Drivers, s \in Sids : AgentFork(d, s)
         \/ \E e \in Exts : Purge(e) \/ TerminalStop(e)
  PROVE  Rests
  <1>1. CASE ReapScan
    <2>1. /\ \A s \in Sids : drivers'[s] = drivers[s] \/ drivers'[s].ext = 0
          /\ UNCHANGED <<drv, ext, cl, got>>
      BY <1>1 DEF ReapScan, NoEntry
    <2>2. QED
      BY <2>1, Unaltered DEF Rests, Quiet, DriverRests, EntryRests
  <1>2. CASE UNCHANGED vars
    BY <1>2, Unaltered DEF vars, Rests
  <1>3. CASE \/ \E d \in Drivers, s \in Sids : AgentFork(d, s)
             \/ \E e \in Exts : Purge(e) \/ TerminalStop(e)
    <2>1. Lives
      BY <1>3, SessionsLive DEF Lives
    <2>2. UNCHANGED <<drivers, drv, cl, got>>
      BY <1>3 DEF AgentFork, Purge, TerminalStop
    <2>3. QED
      BY <2>1, <2>2, Unaltered DEF Rests
  <1>4. QED
    BY <1>1, <1>2, <1>3
\* What the updates of a caller's record leave alone.
LEMMA CallerSteps ==
  ASSUME cl \in [Callers -> CallerRec], NEW c \in Callers
  PROVE  /\ \A pc : Step(c, pc) =>
              /\ Others(c) /\ Holds(c) /\ cl'[c].full = cl[c].full
              /\ cl'[c].pc = pc /\ cl'[c].ans = cl[c].ans
         /\ \A a : Answer(c, a) =>
              /\ Others(c) /\ Holds(c) /\ cl'[c].full = cl[c].full
              /\ cl'[c].pc = "done" /\ cl'[c].ans = a
         /\ \A pc, s : cl' = [cl EXCEPT ![c].pc = pc, ![c].sid = s] =>
              /\ Others(c) /\ Holds(c) /\ cl'[c].full = cl[c].full
              /\ cl'[c].pc = pc /\ cl'[c].ans = cl[c].ans
         /\ \A d, e, reuse : Handed(c, d, e, reuse) => Others(c) /\ HandedTo(c, d, e)
  <1>1. cl[c] \in CallerRec
    OBVIOUS
  <1>2. ASSUME NEW pc, Step(c, pc)
        PROVE  /\ Others(c) /\ Holds(c) /\ cl'[c].full = cl[c].full
               /\ cl'[c].pc = pc /\ cl'[c].ans = cl[c].ans
    BY <1>1, <1>2 DEF Step, Others, Holds, CallerRec
  <1>3. ASSUME NEW a, Answer(c, a)
        PROVE  /\ Others(c) /\ Holds(c) /\ cl'[c].full = cl[c].full
               /\ cl'[c].pc = "done" /\ cl'[c].ans = a
    BY <1>1, <1>3 DEF Answer, Others, Holds, CallerRec
  <1>4. ASSUME NEW pc, NEW s, cl' = [cl EXCEPT ![c].pc = pc, ![c].sid = s]
        PROVE  /\ Others(c) /\ Holds(c) /\ cl'[c].full = cl[c].full
               /\ cl'[c].pc = pc /\ cl'[c].ans = cl[c].ans
    BY <1>1, <1>4 DEF Others, Holds, CallerRec
  <1>5. ASSUME NEW d, NEW e, NEW reuse, Handed(c, d, e, reuse)
        PROVE  Others(c) /\ HandedTo(c, d, e)
    BY <1>1, <1>5 DEF Handed, Others, HandedTo, CallerRec
  <1>6. QED
    BY <1>2, <1>3, <1>4, <1>5

LEMMA BeginAdvances ==
  ASSUME Inv, CallerHolds, NEW c \in Callers, NEW s \in Sids, InjectBegin(c, s) \/ RecoverBegin(c, s)
  PROVE  Advances(c)
  <1>1. cl \in [Callers -> CallerRec]
    BY DEF Inv, TypeOK
  <1>2. Quiet /\ Lives /\ cl[c].pc = "idle" /\ cl[c].ans = "none"
    BY Unaltered DEF InjectBegin, RecoverBegin, CallerHolds, CallerHeld
  <1>3. CASE Answer(c, "busy")
    <2>1. Others(c) /\ Holds(c) /\ cl'[c].full = cl[c].full /\ cl'[c].pc = "done" /\ cl'[c].ans = "busy"
      BY <1>1, <1>3, CallerSteps
    <2>2. QED
      BY <1>2, <2>1 DEF Advances
  <1>4. CASE /\ \E pc \in {"lookup", "ensure"} : cl' = [cl EXCEPT ![c].pc = pc, ![c].sid = s]
             /\ c \in Injects => \A b \in Injects : ~Active(b)
    <2>1. PICK pc \in {"lookup", "ensure"} : cl' = [cl EXCEPT ![c].pc = pc, ![c].sid = s]
      BY <1>4
    <2>2. Others(c) /\ Holds(c) /\ cl'[c].full = cl[c].full /\ cl'[c].pc = pc /\ cl'[c].ans = cl[c].ans
      BY <1>1, <2>1, CallerSteps
    <2>3. QED
      BY <1>2, <1>4, <2>1, <2>2 DEF Advances
  <1>5. QED
    BY <1>3, <1>4, SDKAssumption DEF InjectBegin, RecoverBegin

LEMMA CallerAdvances ==
  ASSUME Inv, CallerHolds, NEW c \in Callers,
         Lookup(c) \/ EnsureRefused(c) \/ SendCheck(c) \/ StartFails(c)
  PROVE  Advances(c)
  <1>1. cl \in [Callers -> CallerRec]
    BY DEF Inv, TypeOK
  <1>2. cl[c].pc \in {"lookup", "ensure", "send", "start"} /\ cl[c].ans = "none"
    BY DEF Lookup, EnsureRefused, SendCheck, StartFails, CallerHolds, CallerHeld
  <1>3. Lives /\ got' = got /\ drv' = drv
    BY Unaltered DEF Lookup, EnsureRefused, SendCheck, StartFails
  <1>4. Quiet
    <2>1. CASE StartFails(c)
      <3>1. /\ drivers' = [drivers EXCEPT ![cl[c].sid] = FailedEntry(cl[c].sid, cl[c].drv, cl[c].reuse)]
            /\ drv[cl[c].drv].proc = "none" /\ drivers[cl[c].sid].driver = cl[c].drv
            /\ cl[c].sid \in Sids
        BY <2>1 DEF StartFails, Inv, StartingIsEntered, CallerPhases, Active
      <3>2. drivers \in [Sids -> [driver : Drivers \cup {0}, ext : Exts \cup {0}]]
        BY DEF Inv, TypeOK
      <3>3. \A s \in Sids : \/ drivers'[s] = drivers[s]
                            \/ drivers'[s].ext = 0
                            \/ drivers'[s].ext = drivers[s].ext /\ drivers[s].driver = cl[c].drv
        BY <3>1, <3>2 DEF FailedEntry, NoEntry
      <3>4. \A s \in Sids : EntryRests(s)
        BY <3>1, <3>3 DEF EntryRests, Running
      <3>5. QED
        BY <1>3, <3>4 DEF Quiet, DriverRests
    <2>2. CASE drivers' = drivers
      BY <1>3, <2>2, Unaltered
    <2>3. QED
      BY <2>1, <2>2 DEF Lookup, EnsureRefused, SendCheck
  <1>5. CASE \E a \in Answers \ {"none", "completed"} : Answer(c, a)
    <2>1. PICK a \in Answers \ {"none", "completed"} : Answer(c, a)
      BY <1>5
    <2>2. Others(c) /\ Holds(c) /\ cl'[c].full = cl[c].full /\ cl'[c].pc = "done" /\ cl'[c].ans = a
      BY <1>1, <2>1, CallerSteps
    <2>3. QED
      BY <1>2, <1>3, <1>4, <2>1, <2>2 DEF Advances
  <1>6. CASE \E pc : /\ Step(c, pc)
                     /\ \/ cl[c].pc = "lookup" /\ pc = "ensure"
                        \/ cl[c].pc = "send" /\ pc = "broadcast"
                        \/ cl[c].pc = "start" /\ pc = "failed" /\ ~cl[c].reuse
    <2>1. PICK pc : /\ Step(c, pc)
                    /\ \/ cl[c].pc = "lookup" /\ pc = "ensure"
                       \/ cl[c].pc = "send" /\ pc = "broadcast"
                       \/ cl[c].pc = "start" /\ pc = "failed" /\ ~cl[c].reuse
      BY <1>6
    <2>2. Others(c) /\ Holds(c) /\ cl'[c].full = cl[c].full /\ cl'[c].pc = pc /\ cl'[c].ans = cl[c].ans
      BY <1>1, <2>1, CallerSteps
    <2>3. QED
      BY <1>2, <1>3, <1>4, <2>1, <2>2 DEF Advances
  <1>7. QED
    BY <1>5, <1>6 DEF Lookup, EnsureRefused, SendCheck, StartFails, Answers
LEMMA ExistingJoins == ASSUME Inv, NEW c \in Callers, EnsureExisting(c) PROVE Joins(c)
  <1>1. cl \in [Callers -> CallerRec]
    BY DEF Inv, TypeOK
  <1>2. Quiet /\ Lives /\ cl[c].pc = "ensure"
    BY Unaltered DEF EnsureExisting
  <1>3. /\ drivers[cl[c].sid].driver # 0
        /\ Handed(c, drivers[cl[c].sid].driver, drivers[cl[c].sid].ext, TRUE)
    BY DEF EnsureExisting, Reusable
  <1>4. Others(c) /\ HandedTo(c, drivers[cl[c].sid].driver, drivers[cl[c].sid].ext)
    BY <1>1, <1>3, CallerSteps
  <1>5. QED
    BY <1>2, <1>3, <1>4 DEF Joins

LEMMA NewMakes == ASSUME Inv, NEW c \in Callers, EnsureNew(c) PROVE Makes(c)
  <1> DEFINE s == cl[c].sid
  <1>1. /\ cl[c] \in CallerRec /\ cl \in [Callers -> CallerRec] /\ s \in Sids
        /\ drv \in [Drivers -> DriverRec]
        /\ drivers \in [Sids -> [driver : Drivers \cup {0}, ext : Exts \cup {0}]]
    BY DEF Inv, TypeOK, CallerPhases, Active, EnsureNew
  <1>2. PICK d \in Drivers, e \in Exts :
            /\ drv[d] = Unused /\ Attach(s, e)
            /\ drv' = [drv EXCEPT ![d] = [drv[d] EXCEPT !.sid = s, !.ext = e]]
            /\ drivers' = [drivers EXCEPT ![s] = [driver |-> d, ext |-> e]]
            /\ cl' = [cl EXCEPT ![c] = [cl[c] EXCEPT !.pc = "start", !.drv = d, !.ext = e,
                                                     !.reuse = drivers[s].ext # 0]]
    BY DEF EnsureNew
  <1>3. ~Reusable(s) /\ cl[c].pc = "ensure" /\ got' = got
    BY DEF EnsureNew
  <1>4. Unused.proc = "none" /\ Unused.pump = "none" /\ Unused.queue = <<>>
    BY DEF Unused
  <1>5. /\ drv'[d].ext = e /\ drv'[d].proc = "none" /\ drv'[d].pump = "none" /\ drv'[d].queue = <<>>
        /\ \A f \in Drivers \ {d} : drv'[f] = drv[f]
    <2>1. drv[d] \in DriverRec
      BY <1>1
    <2>2. QED
      BY <1>1, <1>2, <1>4, <2>1 DEF DriverRec
  <1>6. /\ drivers'[s].driver = d /\ drivers'[s].ext = e
        /\ \A t \in Sids \ {s} : drivers'[t] = drivers[t]
    BY <1>1, <1>2
  <1>7. /\ cl'[c].pc = "start" /\ cl'[c].drv = d /\ cl'[c].ext = e /\ cl'[c].ans = cl[c].ans
        /\ Others(c)
    BY <1>1, <1>2 DEF CallerRec, Others
  <1>8. ~cl'[c].reuse => drivers[s].ext = 0
    BY <1>1, <1>2 DEF CallerRec
  <1>9. QED
    BY <1>2, <1>3, <1>5, <1>6, <1>7, <1>8 DEF Makes

LEMMA SpawnSpawns == ASSUME Inv, NEW c \in Callers, StartSpawn(c) PROVE Spawns(c)
  <1> DEFINE d == cl[c].drv
  <1>1. /\ cl \in [Callers -> CallerRec] /\ drv \in [Drivers -> DriverRec]
        /\ d \in Drivers /\ drv[d] \in DriverRec
    BY DEF Inv, TypeOK, StartSpawn, CallerPhases, CallerRec
  <1>2. Lives
    BY SessionsLive DEF Lives
  <1>3. /\ drv' = [drv EXCEPT ![d] = [drv[d] EXCEPT !.proc = "running"]]
        /\ Step(c, "subscribe") /\ cl[c].pc = "start" /\ UNCHANGED <<drivers, got>>
    BY DEF StartSpawn
  <1>4. Others(c) /\ Holds(c) /\ cl'[c].pc = "subscribe" /\ cl'[c].ans = cl[c].ans
    BY <1>1, <1>3, CallerSteps
  <1>5. /\ drv'[d].proc = "running" /\ drv'[d].ext = drv[d].ext
        /\ drv'[d].pump = drv[d].pump /\ drv'[d].queue = drv[d].queue
        /\ \A f \in Drivers \ {d} : drv'[f] = drv[f]
    BY <1>1, <1>3 DEF DriverRec
  <1>6. QED
    BY <1>2, <1>3, <1>4, <1>5 DEF Spawns

LEMMA ReadyReadies == ASSUME Inv, NEW c \in Callers, StartReady(c) PROVE Readies(c)
  <1> DEFINE d == cl[c].drv
  <1>1. /\ cl \in [Callers -> CallerRec] /\ drv \in [Drivers -> DriverRec]
        /\ d \in Drivers /\ drv[d] \in DriverRec
    BY DEF Inv, TypeOK, StartReady, CallerPhases, CallerRec
  <1>2. PICK v \in {"on", "off"} : drv' = [drv EXCEPT ![d] = [drv[d] EXCEPT !.pump = v, !.watched = TRUE]]
    BY DEF StartReady
  <1>3. /\ Handed(c, d, cl[c].ext, cl[c].reuse) /\ cl[c].pc = "subscribe"
        /\ UNCHANGED <<drivers, ext, got>>
    BY DEF StartReady
  <1>4. Others(c) /\ HandedTo(c, d, cl[c].ext)
    BY <1>1, <1>3, CallerSteps
  <1>5. /\ drv'[d].pump \in {"on", "off"} /\ drv'[d].ext = drv[d].ext
        /\ drv'[d].proc = drv[d].proc /\ drv'[d].queue = drv[d].queue
        /\ drv'[d].cancelled = drv[d].cancelled
        /\ \A f \in Drivers \ {d} : drv'[f] = drv[f]
    BY <1>1, <1>2 DEF DriverRec
  <1>6. QED
    BY <1>3, <1>4, <1>5, Unaltered DEF Readies

LEMMA FailedCloses == ASSUME PinInv, NEW c \in Callers, StartFailsClose(c) PROVE Closes(c)
  <1> DEFINE e == cl[c].ext
  <1>1. cl \in [Callers -> CallerRec] /\ ext \in [Exts -> ExtRec] /\ e \in Exts
    BY DEF PinInv, Inv, TypeOK, StartFailsClose, CallerPhases, CallerRec
  <1>2. ext[e].status # "unused" /\ cl[c].pc = "failed"
    BY DEF PinInv, FailedIsOut, StartFailsClose
  <1>3. Answer(c, "start_failed") /\ UNCHANGED <<drivers, drv, got>> /\ Close(e)
    BY DEF StartFailsClose
  <1>4. Quiet
    BY <1>3, Unaltered
  <1>5. Others(c) /\ Holds(c) /\ cl'[c].pc = "done" /\ cl'[c].ans = "start_failed"
    BY <1>1, <1>3, CallerSteps
  <1>6. ext'[e].status # "unused" /\ \A f \in Exts \ {e} : ext'[f] = ext[f]
    BY <1>1, <1>2, <1>3 DEF Close, ExtRec
  <1>7. QED
    BY <1>2, <1>4, <1>5, <1>6 DEF Closes

LEMMA BroadcastBroadcasts == ASSUME Inv, NEW c \in Callers, SendBroadcast(c) PROVE Broadcasts(c)
  <1>1. /\ cl[c] \in CallerRec /\ cl \in [Callers -> CallerRec] /\ cl[c].pc = "broadcast"
        /\ UNCHANGED <<drivers, ext, got>>
    BY DEF Inv, TypeOK, SendBroadcast
  <1>2. PICK full \in BOOLEAN :
          /\ cl' = [cl EXCEPT ![c] = [cl[c] EXCEPT !.pc = "done", !.ans = "completed", !.full = full]]
          /\ Len(drv[cl[c].drv].queue) >= InputBuffer => full
    <2>1. (Len(drv[cl[c].drv].queue) >= InputBuffer) \in BOOLEAN
      OBVIOUS
    <2>2. QED
      BY <2>1, Zenon DEF SendBroadcast
  <1>3. /\ Others(c) /\ Holds(c) /\ cl'[c].pc = "done" /\ cl'[c].ans = "completed"
        /\ cl'[c].full = full
    BY <1>1, <1>2 DEF CallerRec, Others, Holds
  <1>4. ASSUME NEW d \in Drivers
        PROVE  /\ drv'[d].ext = drv[d].ext /\ drv'[d].proc = drv[d].proc
               /\ drv'[d].pump = drv[d].pump /\ drv'[d].cancelled = drv[d].cancelled
               /\ drv'[d].queue = IF /\ Live(cl[c].ext) /\ drv[d].ext = cl[c].ext
                                     /\ drv[d].pump = "on" /\ Len(drv[d].queue) < InputBuffer
                                  THEN Append(drv[d].queue, c) ELSE drv[d].queue
    <2>1. drv[d] \in DriverRec
      BY DEF Inv, TypeOK
    <2>2. drv'[d] = IF /\ Live(cl[c].ext) /\ drv[d].ext = cl[c].ext
                       /\ drv[d].pump = "on" /\ Len(drv[d].queue) < InputBuffer
                    THEN [drv[d] EXCEPT !.queue = Append(drv[d].queue, c)] ELSE drv[d]
      BY DEF SendBroadcast
    <2>3. QED
      BY <2>1, <2>2 DEF DriverRec
  <1>5. Len(drv[cl[c].drv].queue) >= InputBuffer => cl'[c].full
    BY <1>2, <1>3, Zenon
  <1>6. QED
    BY <1>1, <1>3, <1>4, <1>5, Zenon DEF Broadcasts

LEMMA PumpTakes == ASSUME Inv, NEW d \in Drivers, PumpTake(d) PROVE Takes(d)
  <1> DEFINE q == drv[d].queue
             t == [drv[d] EXCEPT !.queue = Tail(q), !.inFlight = TRUE, !.idle = FALSE]
  <1>1. drv \in [Drivers -> DriverRec] /\ drv[d] \in DriverRec
    BY DEF Inv, TypeOK
  <1>2. /\ drv[d].pump = "on" /\ q # <<>> /\ UNCHANGED <<drivers, ext, cl>>
        /\ \/ /\ drv[d].proc = "running"
              /\ drv' = [drv EXCEPT ![d] = [t EXCEPT !.work = Append(t.work, Head(q))]]
              /\ got' = [got EXCEPT ![Head(q)] = got[Head(q)] \cup {d}]
           \/ /\ drv[d].proc # "running"
              /\ drv' = [drv EXCEPT ![d] = [t EXCEPT !.pump = "off"]] /\ got' = got
    BY DEF PumpTake
  <1>3. CASE /\ drv[d].proc = "running"
             /\ drv' = [drv EXCEPT ![d] = [t EXCEPT !.work = Append(t.work, Head(q))]]
    BY <1>1, <1>2, <1>3 DEF Takes, DriverRec
  <1>4. CASE drv[d].proc # "running" /\ drv' = [drv EXCEPT ![d] = [t EXCEPT !.pump = "off"]]
    BY <1>1, <1>2, <1>4 DEF Takes, DriverRec
  <1>5. QED
    BY <1>2, <1>3, <1>4

LEMMA StepEffects == ASSUME PinInv, CallerHolds, [Next]_vars PROVE Effects
  <1>1. Inv
    BY DEF PinInv
  <1>2. ASSUME NEW c \in Callers, CallerStep(c) PROVE Effects
    BY <1>1, <1>2, CallerAdvances, ExistingJoins, NewMakes, SpawnSpawns, ReadyReadies,
       FailedCloses, BroadcastBroadcasts DEF CallerStep, Effects
  <1>3. ASSUME NEW c \in Callers, NEW s \in Sids, InjectBegin(c, s) \/ RecoverBegin(c, s)
        PROVE  Effects
    BY <1>1, <1>3, BeginAdvances DEF Effects
  <1>4. ASSUME NEW d \in Drivers, DriverStep(d) \/ Subprocess(d) \/ GoIdle(d) PROVE Effects
    BY <1>1, <1>4, PumpTakes, DriverStepRests, OtherStepRests DEF DriverStep, Subprocess, Effects
  <1>5. CASE \/ ReapScan \/ UNCHANGED vars
             \/ \E e \in Exts : Purge(e) \/ TerminalStop(e)
    BY <1>1, <1>5, OtherStepRests DEF Effects
  <1>6. QED
    BY <1>2, <1>3, <1>4, <1>5 DEF Next
-----------------------------------------------------------------------------
(* One subprocess runs on a session *)

LEMMA Typed ==
  ASSUME PinInv
  PROVE  /\ drivers \in [Sids -> [driver : Drivers \cup {0}, ext : Exts \cup {0}]]
         /\ drv \in [Drivers -> DriverRec] /\ ext \in [Exts -> ExtRec]
         /\ cl \in [Callers -> CallerRec] /\ got \in [Injects -> SUBSET Drivers]
         /\ 0 \notin Drivers /\ 0 \notin Exts /\ Injects \subseteq Callers
         /\ \A c \in Callers : /\ cl[c].drv \in Drivers \cup {0} /\ cl[c].ext \in Exts \cup {0}
                               /\ cl[c].pc # "idle" /\ cl[c].pc # "done" => cl[c].sid \in Sids
         /\ \A d \in Drivers : drv[d].ext \in Exts \cup {0} /\ drv[d].queue \in Seq(Injects)
  BY SDKAssumption DEF PinInv, Inv, TypeOK, Callers, CallerRec, DriverRec, CallerPhases, Active

LEMMA RunnersQuiet ==
  ASSUME PinInv, OneRunner, EntryRuns, PumpPhases, Quiet
  PROVE  OneRunner' /\ EntryRuns'
  <1>1. \A d \in Drivers : drv'[d].ext = drv[d].ext /\ (drv'[d].proc = "running" => Running(d))
    BY DEF Quiet, DriverRests, Running
  <1>2. OneRunner'
    BY <1>1 DEF OneRunner, Running
  <1>3. ASSUME NEW s \in Sids, NEW d \in Drivers, drv'[d].proc = "running",
               drivers'[s].ext = drv'[d].ext
        PROVE  drivers'[s].driver = d
    <2>1. Running(d) /\ drv[d].ext # 0 /\ drivers'[s].ext = drv[d].ext
      BY <1>1, <1>3 DEF PumpPhases, PumpPhase, Running
    <2>2. EntryRests(s)
      BY DEF Quiet
    <2>3. QED
      BY <2>1, <2>2 DEF EntryRests, EntryRuns
  <1>4. QED
    BY <1>2, <1>3 DEF EntryRuns, Running

\* Steps that change neither the entries nor what runs.
LEMMA RunnersSame ==
  ASSUME OneRunner, EntryRuns, drivers' = drivers,
         \A d \in Drivers : drv'[d].ext = drv[d].ext /\ drv'[d].proc = drv[d].proc
  PROVE  OneRunner' /\ EntryRuns'
  BY DEF OneRunner, EntryRuns, Running

\* A starting driver's session is that of no other driver that runs: its entry
\* would name that one.
LEMMA StarterAlone ==
  ASSUME PinInv, EntryRuns, CallerHolds, NEW c \in Callers, cl[c].pc = "start"
  PROVE  /\ cl[c].drv \in Drivers /\ drv[cl[c].drv].proc = "none"
         /\ drv[cl[c].drv].ext = cl[c].ext /\ cl[c].ext # 0
         /\ \A f \in Drivers : drv[f].ext = cl[c].ext => ~Running(f)
         /\ \A s \in Sids : drivers[s].ext = cl[c].ext => drivers[s].driver = cl[c].drv
  <1>1. /\ cl[c].drv \in Drivers /\ cl[c].ext # 0 /\ cl[c].sid \in Sids
        /\ drv[cl[c].drv].proc = "none"
        /\ drivers[cl[c].sid].driver = cl[c].drv /\ drivers[cl[c].sid].ext = cl[c].ext
    BY Typed DEF PinInv, Inv, CallerPhases, StartingIsEntered
  <1>2. drv[cl[c].drv].ext = cl[c].ext
    BY <1>1, Typed DEF CallerHolds, CallerHeld
  <1>3. \A f \in Drivers : drv[f].ext = cl[c].ext => ~Running(f)
    BY <1>1 DEF EntryRuns, Running
  <1>4. \A s \in Sids : drivers[s].ext = cl[c].ext => s = cl[c].sid
    BY <1>1 DEF PinInv, EntryIsKeyed
  <1>5. QED
    BY <1>1, <1>2, <1>3, <1>4

LEMMA RunnersSpawns ==
  ASSUME PinInv, OneRunner, EntryRuns, CallerHolds, NEW c \in Callers, Spawns(c)
  PROVE  OneRunner' /\ EntryRuns'
  <1> DEFINE x == cl[c].drv
  <1>1. /\ x \in Drivers /\ drv[x].ext = cl[c].ext
        /\ \A f \in Drivers : drv[f].ext = cl[c].ext => ~Running(f)
        /\ \A s \in Sids : drivers[s].ext = cl[c].ext => drivers[s].driver = x
    BY StarterAlone DEF Spawns
  <1>2. /\ drivers' = drivers /\ drv'[x].ext = drv[x].ext
        /\ \A f \in Drivers \ {x} : drv'[f] = drv[f]
    BY DEF Spawns
  <1> HIDE DEF x
  <1>3. QED
    BY <1>1, <1>2 DEF OneRunner, EntryRuns, Running

\* A driver that ensureDriver replaces is done, so it does not run.
LEMMA ReplacedIsOver ==
  ASSUME PinInv, EntryRuns, NEW s \in Sids, ~Reusable(s), drivers[s].ext # 0, NEW f \in Drivers,
         drv[f].ext = drivers[s].ext
  PROVE  ~Running(f)
  BY Typed DEF EntryRuns, Running, Reusable, PinInv, Inv, DriverPhases

LEMMA RunnersMakes ==
  ASSUME PinInv, OneRunner, EntryRuns, PumpPhases, NEW c \in Callers, Makes(c)
  PROVE  OneRunner' /\ EntryRuns'
  <1> DEFINE s == cl[c].sid
  <1>1. s \in Sids /\ ~Reusable(s)
    BY Typed DEF Makes
  <1>2. PICK d \in Drivers, e \in Exts :
            /\ drv[d] = Unused /\ Attach(s, e)
            /\ \A f \in Drivers \ {d} : drv'[f] = drv[f]
            /\ drv'[d].proc = "none"
            /\ drivers'[s].driver = d /\ drivers'[s].ext = e
            /\ \A t \in Sids \ {s} : drivers'[t] = drivers[t]
    BY DEF Makes
  <1>3. ASSUME NEW f \in Drivers, Running(f)' PROVE f # d /\ drv'[f] = drv[f] /\ Running(f)
    BY <1>2, <1>3 DEF Running
  <1>4. OneRunner'
    BY <1>3 DEF OneRunner, Running
  <1>5. ASSUME NEW f \in Drivers, Running(f) PROVE drv[f].ext # e
    <2>1. CASE drivers[s].ext # 0
      BY <1>1, <1>2, <1>5, <2>1, ReplacedIsOver DEF Attach
    <2>2. CASE drivers[s].ext = 0
      <3>1. ext[e].status = "unused"
        BY <1>2, <2>2 DEF Attach
      <3>2. QED
        BY <1>5, <3>1 DEF PumpPhases, PumpPhase, Running
    <2>3. QED
      BY <2>1, <2>2
  <1>6. ASSUME NEW t \in Sids, NEW f \in Drivers, Running(f)', drivers'[t].ext = drv'[f].ext
        PROVE  drivers'[t].driver = f
    <2>1. drv'[f] = drv[f] /\ Running(f) /\ drv[f].ext # e
      BY <1>3, <1>5, <1>6
    <2>2. t # s
      BY <1>2, <1>6, <2>1
    <2>3. QED
      BY <1>2, <1>6, <2>1, <2>2 DEF EntryRuns
  <1>7. QED
    BY <1>4, <1>6 DEF EntryRuns, Running

LEMMA RunnersNext ==
  ASSUME PinInv, OneRunner, EntryRuns, PumpPhases, CallerHolds, Effects
  PROVE  OneRunner' /\ EntryRuns'
  <1>1. CASE Quiet
    BY <1>1, RunnersQuiet
  <1>2. ASSUME NEW c \in Callers, Spawns(c) PROVE OneRunner' /\ EntryRuns'
    BY <1>2, RunnersSpawns
  <1>3. ASSUME NEW c \in Callers, Makes(c) PROVE OneRunner' /\ EntryRuns'
    BY <1>3, RunnersMakes
  <1>4. ASSUME NEW c \in Callers, Readies(c) \/ Broadcasts(c) PROVE OneRunner' /\ EntryRuns'
    BY <1>4, RunnersSame DEF Readies, Broadcasts
  <1>5. ASSUME NEW d \in Drivers, Takes(d) PROVE OneRunner' /\ EntryRuns'
    BY <1>5, RunnersSame DEF Takes
  <1>6. QED
    BY <1>1, <1>2, <1>3, <1>4, <1>5 DEF Effects, Rests, Advances, Joins, Closes
-----------------------------------------------------------------------------
(* The driver and its pump *)

LEMMA StatusKept ==
  ASSUME PinInv, Effects, NEW e \in Exts, ext[e].status # "unused"
  PROVE  ext'[e].status # "unused"
  <1>1. CASE Lives
    BY <1>1 DEF Lives, SessionLives
  <1>2. CASE ext' = ext
    BY <1>2
  <1>3. ASSUME NEW c \in Callers, Closes(c) PROVE ext'[e].status # "unused"
    BY <1>3 DEF Closes
  <1>4. ASSUME NEW c \in Callers, Makes(c) PROVE ext'[e].status # "unused"
    <2>1. PICK f \in Exts : Attach(cl[c].sid, f)
      BY <1>4 DEF Makes
    <2>2. QED
      BY <2>1, Typed DEF Attach, ExtRec
  <1>5. QED
    BY <1>1, <1>2, <1>3, <1>4 DEF Effects, Rests, Advances, Joins, Spawns, Readies, Broadcasts, Takes

\* A caller that waits for the pump's handshake stays there until it is over.
LEMMA SubscriberStays ==
  ASSUME Effects, NEW b \in Callers, cl[b].pc = "subscribe", ~Readies(b)
  PROVE  cl'[b].pc = "subscribe" /\ cl'[b].drv = cl[b].drv
  <1>1. ASSUME NEW c \in Callers,
               Advances(c) \/ Joins(c) \/ Makes(c) \/ Spawns(c) \/ Closes(c) \/ Broadcasts(c)
        PROVE  cl'[b] = cl[b]
    BY <1>1 DEF Advances, Joins, Makes, Spawns, Closes, Broadcasts, Others
  <1>2. ASSUME NEW c \in Callers, Readies(c) PROVE cl'[b] = cl[b]
    BY <1>2 DEF Readies, Others
  <1>3. CASE cl' = cl
    BY <1>3
  <1>4. QED
    BY <1>1, <1>2, <1>3 DEF Effects, Rests, Takes

LEMMA SubscribingStays ==
  ASSUME Effects, NEW d \in Drivers, Subscribing(d), \A c \in Callers : Readies(c) => cl[c].drv # d
  PROVE  Subscribing(d)'
  <1>1. PICK b \in Callers : cl[b].pc = "subscribe" /\ cl[b].drv = d
    BY DEF Subscribing
  <1>2. cl'[b].pc = "subscribe" /\ cl'[b].drv = d
    BY <1>1, SubscriberStays
  <1>3. QED
    BY <1>2 DEF Subscribing

\* A driver that rests or is not touched.
LEMMA PumpSame ==
  ASSUME PinInv, PumpPhases, Effects, NEW d \in Drivers,
         \/ DriverRests(d) \/ drv'[d] = drv[d]
         \/ /\ drv'[d].ext = drv[d].ext /\ drv'[d].proc = drv[d].proc
            /\ drv'[d].pump = drv[d].pump
            /\ drv[d].pump # "on" => drv'[d].queue = drv[d].queue,
         \A c \in Callers : Readies(c) => cl[c].drv # d
  PROVE  PumpPhase(d)' /\ (drv'[d].proc # "none" /\ drv'[d].pump = "none" => Subscribing(d)')
  <1>1. PumpPhase(d) /\ (drv[d].proc # "none" /\ drv[d].pump = "none" => Subscribing(d))
    BY DEF PumpPhases
  <1>2. /\ drv'[d].ext = drv[d].ext
        /\ drv'[d].proc = "none" <=> drv[d].proc = "none"
        /\ drv'[d].pump = "none" <=> drv[d].pump = "none"
        /\ drv[d].pump = "none" => drv'[d].queue = drv[d].queue
    BY DEF DriverRests
  <1>3. drv[d].ext # 0 => ext'[drv[d].ext].status # "unused"
    BY <1>1, StatusKept, Typed DEF PumpPhase
  <1>4. PumpPhase(d)'
    BY <1>1, <1>2, <1>3 DEF PumpPhase
  <1>5. QED
    BY <1>1, <1>2, <1>4, SubscribingStays

LEMMA PumpNext ==
  ASSUME PinInv, PumpPhases, CallerHolds, EntryRuns, Effects
  PROVE  PumpPhases'
  <1> DEFINE Good(d) == PumpPhase(d)' /\ (drv'[d].proc # "none" /\ drv'[d].pump = "none" => Subscribing(d)')
  <1>1. CASE Quiet /\ \A c \in Callers : ~Readies(c)
    BY <1>1, PumpSame DEF Quiet, PumpPhases
  <1>2. ASSUME NEW c \in Callers, Spawns(c) PROVE PumpPhases'
    <2>1. PICK x \in Drivers : /\ x = cl[c].drv /\ drv[x].proc = "none" /\ drv[x].ext # 0
                               /\ cl[c].pc = "start"
      BY <1>2, StarterAlone DEF Spawns
    <2>2. \A b \in Callers : ~Readies(b)
      BY <1>2, <2>1 DEF Spawns, Readies, Others
    <2>3. \A d \in Drivers \ {x} : Good(d)
      BY <1>2, <2>1, <2>2, PumpSame DEF Spawns
    <2>4. PumpPhase(x)
      BY DEF PumpPhases
    <2>5. ext'[drv[x].ext].status # "unused"
      BY <2>1, <2>4, StatusKept, Typed DEF PumpPhase
    <2>6. PumpPhase(x)'
      BY <1>2, <2>1, <2>4, <2>5 DEF PumpPhase, Spawns
    <2>7. Subscribing(x)'
      BY <1>2, <2>1 DEF Spawns, Subscribing, Holds
    <2>8. QED
      BY <2>1, <2>3, <2>6, <2>7 DEF PumpPhases
  <1>3. ASSUME NEW c \in Callers, Makes(c) PROVE PumpPhases'
    <2>1. PICK d \in Drivers, e \in Exts :
            /\ Attach(cl[c].sid, e)
            /\ \A f \in Drivers \ {d} : drv'[f] = drv[f]
            /\ drv'[d].ext = e /\ drv'[d].proc = "none" /\ drv'[d].pump = "none"
            /\ drv'[d].queue = <<>>
      BY <1>3 DEF Makes
    <2>2. \A b \in Callers : ~Readies(b)
      BY <1>3 DEF Makes, Readies, Others
    <2>3. \A f \in Drivers \ {d} : Good(f)
      BY <2>1, <2>2, PumpSame
    <2>4. ext'[e].status # "unused"
      <3>1. CASE drivers[cl[c].sid].ext # 0
        <4>1. cl[c].sid \in Sids /\ e = drivers[cl[c].sid].ext /\ ext' = ext
          BY <1>3, <2>1, <3>1, Typed DEF Makes, Attach
        <4>2. QED
          BY <3>1, <4>1 DEF PinInv, EntryIsKeyed, Kept
      <3>2. CASE drivers[cl[c].sid].ext = 0
        <4>1. ext' = [ext EXCEPT ![e] = [ext[e] EXCEPT !.key = cl[c].sid, !.status = "live"]]
          BY <2>1, <3>2 DEF Attach
        <4>2. ext[e] \in ExtRec /\ ext \in [Exts -> ExtRec]
          BY Typed
        <4>3. QED
          BY <4>1, <4>2 DEF ExtRec
      <3>3. QED
        BY <3>1, <3>2
    <2>5. Good(d)
      BY <2>1, <2>4 DEF PumpPhase
    <2>6. QED
      BY <2>3, <2>5 DEF PumpPhases
  <1>4. ASSUME NEW c \in Callers, Readies(c) PROVE PumpPhases'
    <2>1. PICK x \in Drivers : /\ x = cl[c].drv /\ drv[x].proc # "none" /\ drv[x].pump = "none"
                               /\ drv[x].ext # 0
      BY <1>4, Typed DEF Readies, CallerHolds, CallerHeld
    <2>2. ASSUME NEW b \in Callers, Readies(b) PROVE cl[b].drv = x
      BY <1>4, <2>1, <2>2 DEF Readies, Others, HandedTo
    <2>3. ASSUME NEW d \in Drivers \ {x} PROVE Good(d)
      <3>1. drv'[d] = drv[d]
        BY <1>4, <2>1 DEF Readies
      <3>2. QED
        BY <2>2, <3>1, PumpSame
    <2>4. PumpPhase(x)
      BY DEF PumpPhases
    <2>5. ext'[drv[x].ext].status # "unused"
      BY <2>1, <2>4, StatusKept, Typed DEF PumpPhase
    <2>6. Good(x)
      BY <1>4, <2>1, <2>4, <2>5 DEF PumpPhase, Readies
    <2>7. QED
      BY <2>3, <2>6 DEF PumpPhases
  <1>5. ASSUME NEW c \in Callers, Broadcasts(c) PROVE PumpPhases'
    <2>1. \A b \in Callers : ~Readies(b)
      BY <1>5 DEF Broadcasts, Readies, Others
    <2>2. \A d \in Drivers : Good(d)
      BY <1>5, <2>1, PumpSame DEF Broadcasts
    <2>3. QED
      BY <2>2 DEF PumpPhases
  <1>6. ASSUME NEW x \in Drivers, Takes(x) PROVE PumpPhases'
    <2>1. \A b \in Callers : ~Readies(b)
      BY <1>6 DEF Takes, Readies, HandedTo
    <2>2. \A d \in Drivers \ {x} : Good(d)
      BY <1>6, <2>1, PumpSame DEF Takes
    <2>3. PumpPhase(x)
      BY DEF PumpPhases
    <2>4. drv[x].ext # 0 => ext'[drv[x].ext].status # "unused"
      BY <2>3, StatusKept, Typed DEF PumpPhase
    <2>5. Good(x)
      BY <1>6, <2>3, <2>4 DEF PumpPhase, Takes
    <2>6. QED
      BY <2>2, <2>5 DEF PumpPhases
  <1>7. CASE Quiet /\ \E c \in Callers : Advances(c) \/ Joins(c) \/ Closes(c)
    <2>1. ASSUME NEW b \in Callers, Readies(b) PROVE FALSE
      <3>1. PICK c \in Callers : Advances(c) \/ Joins(c) \/ Closes(c)
        BY <1>7
      <3>2. cl'[c].pc # cl[c].pc /\ cl[c].pc # "subscribe"
        BY <3>1 DEF Advances, Joins, Closes, HandedTo
      <3>3. QED
        BY <2>1, <3>2 DEF Readies, Others
    <2>2. QED
      BY <1>1, <1>7, <2>1
  <1>8. CASE Rests
    <2>1. \A b \in Callers : ~Readies(b)
      BY <1>8 DEF Rests, Readies, HandedTo
    <2>2. QED
      BY <1>1, <1>8, <2>1 DEF Rests
  <1>9. QED
    BY <1>2, <1>3, <1>4, <1>5, <1>6, <1>7, <1>8 DEF Effects, Advances, Joins, Closes
-----------------------------------------------------------------------------
(* What the callers hold *)

MovesBy(c) ==
    \/ Advances(c) \/ Joins(c) \/ Makes(c) \/ Spawns(c) \/ Readies(c) \/ Closes(c) \/ Broadcasts(c)

\* A caller that a step changes is the one that takes it.
LEMMA WhoMoves ==
  ASSUME Effects, NEW b \in Callers, cl'[b] # cl[b]
  PROVE  MovesBy(b)
  <1>1. ASSUME NEW c \in Callers, MovesBy(c) PROVE c = b
    <2>1. Others(c)
      BY <1>1 DEF MovesBy, Advances, Joins, Makes, Spawns, Readies, Closes, Broadcasts
    <2>2. QED
      BY <2>1 DEF Others
  <1>2. \E c \in Callers : MovesBy(c)
    BY DEF Effects, MovesBy, Rests, Takes
  <1>3. QED
    BY <1>1, <1>2

\* A driver that has a session keeps it.
LEMMA ExtKept ==
  ASSUME Effects, NEW d \in Drivers, drv[d].ext # 0
  PROVE  drv'[d].ext = drv[d].ext
  <1>1. CASE Quiet
    BY <1>1 DEF Quiet, DriverRests
  <1>2. ASSUME NEW c \in Callers, Makes(c) PROVE drv'[d].ext = drv[d].ext
    <2>1. PICK x \in Drivers : drv[x] = Unused /\ \A f \in Drivers \ {x} : drv'[f] = drv[f]
      BY <1>2 DEF Makes
    <2>2. drv[x].ext = 0
      BY <2>1 DEF Unused
    <2>3. QED
      BY <2>1, <2>2
  <1>3. ASSUME NEW c \in Callers, Spawns(c) \/ Readies(c) \/ Broadcasts(c)
        PROVE  drv'[d].ext = drv[d].ext
    BY <1>3 DEF Spawns, Readies, Broadcasts
  <1>4. ASSUME NEW x \in Drivers, Takes(x) PROVE drv'[d].ext = drv[d].ext
    BY <1>4 DEF Takes
  <1>5. QED
    BY <1>1, <1>2, <1>3, <1>4 DEF Effects, Rests, Advances, Joins, Closes

\* The driver of a caller that waits for the handshake is spawned and has no
\* pump, whoever else takes a step.
LEMMA HandshakeWaits ==
  ASSUME PinInv, CallerHolds, OneSubscriber, Effects,
         NEW b \in Callers, cl[b].pc = "subscribe", ~Readies(b)
  PROVE  drv'[cl[b].drv].proc # "none" /\ drv'[cl[b].drv].pump = "none"
  <1> DEFINE x == cl[b].drv
  <1>1. x \in Drivers /\ drv[x].proc # "none" /\ drv[x].pump = "none"
    BY Typed DEF CallerHolds, CallerHeld
  <1>2. CASE Quiet
    BY <1>1, <1>2 DEF Quiet, DriverRests
  <1>3. ASSUME NEW c \in Callers, Makes(c) PROVE drv'[x] = drv[x]
    <2>1. PICK d \in Drivers : drv[d] = Unused /\ \A f \in Drivers \ {d} : drv'[f] = drv[f]
      BY <1>3 DEF Makes
    <2>2. drv[d].proc = "none"
      BY <2>1 DEF Unused
    <2>3. QED
      BY <1>1, <2>1, <2>2
  <1>4. ASSUME NEW c \in Callers, Readies(c) PROVE drv'[x] = drv[x]
    <2>1. c # b /\ cl[c].pc = "subscribe" /\ \A f \in Drivers \ {cl[c].drv} : drv'[f] = drv[f]
      BY <1>4 DEF Readies
    <2>2. QED
      BY <1>1, <2>1 DEF OneSubscriber
  <1>5. ASSUME NEW c \in Callers, Spawns(c) \/ Broadcasts(c)
        PROVE  drv'[x].proc # "none" /\ drv'[x].pump = "none"
    BY <1>1, <1>5 DEF Spawns, Broadcasts
  <1>6. ASSUME NEW d \in Drivers, Takes(d) PROVE drv'[x] = drv[x]
    BY <1>1, <1>6 DEF Takes
  <1>7. QED
    BY <1>1, <1>2, <1>3, <1>4, <1>5, <1>6 DEF Effects, Rests, Advances, Joins, Closes

LEMMA HeldStays ==
  ASSUME PinInv, CallerHolds, OneSubscriber, Effects, NEW b \in Callers, cl'[b] = cl[b]
  PROVE  CallerHeld(b)'
  <1>1. CallerHeld(b)
    BY DEF CallerHolds
  <1>2. cl[b].drv # 0 => drv'[cl[b].drv].ext = drv[cl[b].drv].ext
    BY <1>1, ExtKept, Typed DEF CallerHeld
  <1>3. ~Readies(b)
    BY DEF Readies, HandedTo
  <1>4. cl[b].pc = "subscribe" => drv'[cl[b].drv].proc # "none" /\ drv'[cl[b].drv].pump = "none"
    BY <1>3, HandshakeWaits
  <1>5. QED
    BY <1>1, <1>2, <1>4 DEF CallerHeld

LEMMA HeldNext ==
  ASSUME PinInv, PumpPhases, EntryRuns, CallerHolds, OneSubscriber, Effects
  PROVE  CallerHolds'
  <1> SUFFICES ASSUME NEW b \in Callers, cl'[b] # cl[b] PROVE CallerHeld(b)'
    BY HeldStays DEF CallerHolds
  <1>1. CallerHeld(b)
    BY DEF CallerHolds
  <1>2. cl[b].drv # 0 => /\ drv'[cl[b].drv].ext = drv[cl[b].drv].ext
                         /\ drv[cl[b].drv].ext # 0 /\ drv[cl[b].drv].ext = cl[b].ext
    BY <1>1, ExtKept, Typed DEF CallerHeld
  <1>3. CASE Advances(b)
    BY <1>1, <1>2, <1>3 DEF Advances, Holds, CallerHeld
  <1>4. CASE Closes(b) \/ Broadcasts(b)
    BY <1>1, <1>2, <1>4 DEF Closes, Broadcasts, Holds, CallerHeld
  <1>5. CASE Joins(b)
    <2>1. PICK s \in Sids : s = cl[b].sid
      BY <1>5, Typed DEF Joins
    <2>2. PICK d \in Drivers : /\ d = drivers[s].driver /\ drv[d].ext = drivers[s].ext
                               /\ drv[d].ext # 0
      BY <1>5, <2>1, Typed DEF Joins, PinInv, Inv, TypeOK
    <2>3. drv'[d].ext = drv[d].ext
      BY <2>2, ExtKept
    <2>4. HandedTo(b, d, drv[d].ext)
      BY <1>5, <2>1, <2>2 DEF Joins
    <2>5. d # 0
      BY Typed
    <2>6. QED
      BY <2>2, <2>3, <2>4, <2>5 DEF HandedTo, CallerHeld
  <1>6. CASE Makes(b)
    <2>1. PICK d \in Drivers, e \in Exts :
             /\ drv'[d].ext = e /\ cl'[b].pc = "start" /\ cl'[b].drv = d /\ cl'[b].ext = e
             /\ cl'[b].ans = cl[b].ans
      BY <1>6 DEF Makes
    <2>2. cl[b].ans = "none" /\ d # 0 /\ e # 0
      BY <1>1, <1>6, Typed DEF Makes, CallerHeld
    <2>3. QED
      BY <2>1, <2>2 DEF CallerHeld
  <1>7. CASE Spawns(b)
    <2>1. /\ cl[b].drv \in Drivers /\ drv[cl[b].drv].proc = "none"
      BY <1>7, StarterAlone DEF Spawns
    <2>2. drv[cl[b].drv].pump = "none"
      BY <2>1 DEF PumpPhases, PumpPhase
    <2>3. QED
      BY <1>1, <1>2, <1>7, <2>1, <2>2 DEF Spawns, Holds, CallerHeld
  <1>8. CASE Readies(b)
    BY <1>1, <1>2, <1>8 DEF Readies, HandedTo, CallerHeld
  <1>9. QED
    BY <1>3, <1>4, <1>5, <1>6, <1>7, <1>8, WhoMoves DEF MovesBy
LEMMA ExtSame ==
  ASSUME Effects, \A c \in Callers : ~Makes(c), NEW d \in Drivers
  PROVE  drv'[d].ext = drv[d].ext
  <1>1. CASE Quiet
    BY <1>1 DEF Quiet, DriverRests
  <1>2. ASSUME NEW c \in Callers, Spawns(c) \/ Readies(c) \/ Broadcasts(c)
        PROVE  drv'[d].ext = drv[d].ext
    BY <1>2 DEF Spawns, Readies, Broadcasts
  <1>3. ASSUME NEW x \in Drivers, Takes(x) PROVE drv'[d].ext = drv[d].ext
    BY <1>3 DEF Takes
  <1>4. QED
    BY <1>1, <1>2, <1>3 DEF Effects, Rests, Advances, Joins, Closes

\* A fresh driver's session is not that of a start that may still fail.
LEMMA NewIsElsewhere ==
  ASSUME PinInv, PumpPhases, EntryRuns, CallerHolds,
         NEW s \in Sids, ~Reusable(s), NEW e \in Exts, Attach(s, e),
         NEW b \in Callers, cl[b].pc \in {"start", "failed"}
  PROVE  cl[b].ext # e
  <1>1. CASE drivers[s].ext = 0
    <2>1. ext[e].status = "unused"
      BY <1>1 DEF Attach
    <2>2. PICK d \in Drivers : drv[d].ext = cl[b].ext /\ drv[d].ext # 0
      BY Typed DEF CallerHolds, CallerHeld
    <2>3. QED
      BY <2>1, <2>2 DEF PumpPhases, PumpPhase
  <1>2. CASE drivers[s].ext # 0 /\ cl[b].pc = "failed"
    BY <1>2 DEF Attach, PinInv, FailedIsOut
  <1>3. CASE drivers[s].ext # 0 /\ cl[b].pc = "start"
    <2>1. ASSUME cl[b].ext = e PROVE FALSE
      <3>1. drivers[s].driver = cl[b].drv /\ cl[b].drv \in Drivers /\ drv[cl[b].drv].proc = "none"
        BY <1>3, <2>1, StarterAlone DEF Attach
      <3>2. ~drv[cl[b].drv].done /\ cl[b].drv # 0
        BY <3>1, Typed DEF PinInv, Inv, DriverPhases
      <3>3. QED
        BY <3>1, <3>2 DEF Reusable
    <2>2. QED
      BY <2>1
  <1>4. QED
    BY <1>1, <1>2, <1>3

LEMMA NewNext ==
  ASSUME PinInv, PumpPhases, EntryRuns, CallerHolds, SessionIsNew, Effects
  PROVE  SessionIsNew'
  <1> SUFFICES ASSUME NEW b \in Callers, cl'[b].pc \in {"start", "failed"}, ~cl'[b].reuse,
                      NEW f \in Drivers, drv'[f].ext = cl'[b].ext
               PROVE  f = cl'[b].drv
    BY DEF SessionIsNew
  <1>1. CASE Makes(b)
    <2>1. PICK d \in Drivers, e \in Exts :
             /\ Attach(cl[b].sid, e) /\ drivers[cl[b].sid].ext = 0
             /\ \A g \in Drivers \ {d} : drv'[g] = drv[g]
             /\ cl'[b].drv = d /\ cl'[b].ext = e
      BY <1>1 DEF Makes
    <2>2. ext[e].status = "unused"
      BY <2>1 DEF Attach
    <2>3. QED
      BY <2>1, <2>2, Typed DEF PumpPhases, PumpPhase
  <1>2. CASE ~Makes(b)
    <2>1. /\ cl[b].pc \in {"start", "failed"} /\ ~cl[b].reuse
          /\ cl'[b].drv = cl[b].drv /\ cl'[b].ext = cl[b].ext
      <3>1. CASE cl'[b] = cl[b]
        BY <3>1
      <3>2. CASE MovesBy(b)
        BY <1>2, <3>2
        DEF MovesBy, Advances, Joins, Spawns, Readies, Closes, Broadcasts, HandedTo, Holds
      <3>3. QED
        BY <3>1, <3>2, WhoMoves
    <2>2. CASE drv'[f].ext = drv[f].ext
      BY <2>1, <2>2 DEF SessionIsNew
    <2>3. CASE \E c \in Callers : Makes(c)
      <3>1. PICK c \in Callers : Makes(c)
        BY <2>3
      <3>2. PICK d \in Drivers, e \in Exts :
               /\ Attach(cl[c].sid, e) /\ \A g \in Drivers \ {d} : drv'[g] = drv[g]
               /\ drv'[d].ext = e
        BY <3>1 DEF Makes
      <3>3. cl[c].sid \in Sids /\ ~Reusable(cl[c].sid)
        BY <3>1, Typed DEF Makes
      <3>4. cl[b].ext # e
        BY <2>1, <3>2, <3>3, NewIsElsewhere
      <3>5. QED
        BY <2>1, <2>2, <3>2, <3>4
    <2>4. QED
      BY <2>2, <2>3, ExtSame
  <1>3. QED
    BY <1>1, <1>2

LEMMA SubscriberNext ==
  ASSUME PinInv, EntryRuns, CallerHolds, OneSubscriber, Effects
  PROVE  OneSubscriber'
  <1>1. ASSUME NEW b \in Callers, cl'[b].pc = "subscribe", cl'[b] # cl[b] PROVE Spawns(b)
    <2>1. MovesBy(b)
      BY <1>1, WhoMoves
    <2>2. QED
      BY <1>1, <2>1 DEF MovesBy, Advances, Joins, Makes, Spawns, Readies, Closes, Broadcasts, HandedTo
  <1>2. ASSUME NEW b \in Callers, NEW c \in Callers, Spawns(b), b # c,
               cl'[c].pc = "subscribe", cl'[b].drv = cl'[c].drv
        PROVE  FALSE
    <2>1. cl'[c] = cl[c] /\ cl'[b].drv = cl[b].drv
      BY <1>2 DEF Spawns, Others, Holds
    <2>2. drv[cl[b].drv].proc = "none"
      BY <1>2, StarterAlone DEF Spawns
    <2>3. QED
      BY <1>2, <2>1, <2>2 DEF CallerHolds, CallerHeld
  <1>3. QED
    BY <1>1, <1>2 DEF OneSubscriber

LEMMA InjectNext ==
  ASSUME PinInv, OneInject, Effects
  PROVE  OneInject'
  <1>1. ASSUME NEW c \in Injects, NEW b \in Injects, Active(c)', ~Active(c), Active(b)'
        PROVE  b = c
    <2>1. MovesBy(c)
      <3>1. cl'[c] # cl[c] /\ c \in Callers
        BY <1>1, Typed DEF Active
      <3>2. QED
        BY <3>1, WhoMoves
    <2>2. Others(c) /\ \A a \in Injects : ~Active(a)
      BY <1>1, <2>1 DEF MovesBy, Advances, Joins, Makes, Spawns, Readies, Closes, Broadcasts, Active
    <2>3. QED
      BY <1>1, <2>2, Typed DEF Others, Active
  <1>2. QED
    BY <1>1 DEF OneInject

LEMMA OwnStartNext ==
  ASSUME PinInv, CallerHolds, OneInject, OwnStart, Effects
  PROVE  OwnStart'
  <1> SUFFICES ASSUME NEW p \in Injects, NEW c \in Injects, p # c,
                      cl'[c].pc \in {"start", "subscribe", "failed"}, cl'[p].drv = cl'[c].drv
               PROVE  FALSE
    BY DEF OwnStart
  <1>1. p \in Callers /\ c \in Callers
    BY Typed
  <1>2. CASE Makes(c)
    <2>1. PICK d \in Drivers : drv[d] = Unused /\ cl'[c].drv = d /\ Others(c)
      BY <1>2 DEF Makes
    <2>2. cl[p].drv = d /\ drv[d].ext = 0 /\ d # 0
      BY <1>1, <2>1, Typed DEF Unused, Others
    <2>3. QED
      BY <1>1, <2>2 DEF CallerHolds, CallerHeld
  <1>3. CASE ~Makes(c)
    <2>1. cl[c].pc \in {"start", "subscribe", "failed"} /\ cl'[c].drv = cl[c].drv
      <3>1. CASE cl'[c] = cl[c]
        BY <3>1
      <3>2. CASE MovesBy(c)
        BY <1>3, <3>2 DEF MovesBy, Advances, Joins, Spawns, Readies, Closes, Broadcasts, HandedTo, Holds
      <3>3. QED
        BY <1>1, <3>1, <3>2, WhoMoves
    <2>2. ~Active(p)
      BY <2>1 DEF OneInject, Active
    <2>3. cl'[p].drv = cl[p].drv
      <3>1. CASE cl'[p] = cl[p]
        BY <3>1
      <3>2. CASE MovesBy(p)
        BY <2>2, <3>2
        DEF MovesBy, Advances, Joins, Makes, Spawns, Readies, Closes, Broadcasts, Active, Holds
      <3>3. QED
        BY <1>1, <3>1, <3>2, WhoMoves
    <2>4. QED
      BY <2>1, <2>3 DEF OwnStart
  <1>4. QED
    BY <1>2, <1>3
-----------------------------------------------------------------------------
(* The session an inject is about to use *)

\* A recovery call keeps the driver it has.
LEMMA SharedKept ==
  ASSUME PinInv, CallerHolds, Effects, NEW p \in Injects, cl[p].drv # 0, Shared(p),
         cl'[p].drv = cl[p].drv
  PROVE  Shared(p)'
  <1>1. PICK r \in Recoveries : cl[r].drv = cl[p].drv
    BY DEF Shared
  <1>2. r \in Callers /\ CallerHeld(r)
    BY DEF Callers, CallerHolds
  <1>3. cl'[r].drv = cl[r].drv
    <2>1. CASE cl'[r] = cl[r]
      BY <2>1
    <2>2. CASE MovesBy(r)
      BY <1>1, <1>2, <2>2 DEF MovesBy, Advances, Joins, Makes, Spawns, Readies, Closes, Broadcasts,
                              HandedTo, Holds, CallerHeld
    <2>3. QED
      BY <1>2, <2>1, <2>2, WhoMoves
  <1>4. QED
    BY <1>1, <1>3 DEF Shared

LEMMA LiveKept ==
  ASSUME PinInv, Effects, NEW e \in Exts \ WebStops, Live(e),
         \A c \in Callers : Closes(c) => cl[c].ext # e
  PROVE  Live(e)'
  <1>1. CASE Lives
    BY <1>1 DEF Lives, SessionLives, Live
  <1>2. CASE ext' = ext
    BY <1>2 DEF Live
  <1>3. ASSUME NEW c \in Callers, Closes(c) PROVE Live(e)'
    BY <1>3 DEF Closes, Live
  <1>4. ASSUME NEW c \in Callers, Makes(c) PROVE Live(e)'
    <2>1. PICK f \in Exts : Attach(cl[c].sid, f)
      BY <1>4 DEF Makes
    <2>2. ext' = ext \/ (e # f /\ ext'[e] = ext[e])
      BY <2>1, Typed DEF Attach, Live
    <2>3. QED
      BY <2>2 DEF Live
  <1>5. QED
    BY <1>1, <1>2, <1>3, <1>4 DEF Effects, Rests, Advances, Joins, Spawns, Readies, Broadcasts, Takes

\* The session that a failed start closes is in use elsewhere only if a recovery
\* call had its hands on that start.
LEMMA ClosedIsShared ==
  ASSUME PinInv, CallerHolds, SessionIsNew, OwnStart, NEW c \in Callers, Closes(c),
         NEW p \in Injects, p # c, cl[p].drv # 0, cl[p].ext = cl[c].ext, cl'[p] = cl[p]
  PROVE  Shared(p)'
  <1>1. p \in Callers /\ cl[p].drv \in Drivers
    BY Typed
  <1>2. drv[cl[p].drv].ext = cl[c].ext
    BY <1>1 DEF CallerHolds, CallerHeld
  <1>3. cl[c].pc = "failed" /\ ~cl[c].reuse
    BY DEF Closes, CallerHolds, CallerHeld
  <1>4. cl[p].drv = cl[c].drv
    BY <1>1, <1>2, <1>3 DEF SessionIsNew
  <1>5. c \notin Injects
    BY <1>3, <1>4 DEF OwnStart
  <1>6. c \in Recoveries /\ cl'[c].drv = cl[c].drv
    BY <1>5 DEF Callers, Closes, Holds
  <1>7. QED
    BY <1>4, <1>6 DEF Shared

LEMMA WaitsNext ==
  ASSUME PinInv, CallerHolds, SessionIsNew, OwnStart, SessionWaits, Effects
  PROVE  SessionWaits'
  <1> SUFFICES ASSUME NEW p \in Injects, cl'[p].pc \in {"start", "subscribe", "send", "broadcast"},
                      cl'[p].ext \notin WebStops
               PROVE  Live(cl[p].ext)' \/ Shared(p)'
    BY DEF SessionWaits
  <1>1. p \in Callers /\ CallerHeld(p)
    BY Typed DEF CallerHolds
  <1>2. ASSUME cl[p].pc \in {"start", "subscribe", "send", "broadcast"},
               cl'[p].ext = cl[p].ext, cl'[p].drv = cl[p].drv,
               \A c \in Callers : Closes(c) => p # c /\ cl'[p] = cl[p]
        PROVE  Live(cl[p].ext)' \/ Shared(p)'
    <2>1. /\ cl[p].drv # 0 /\ cl[p].ext \in Exts \ WebStops
          /\ Live(cl[p].ext) \/ Shared(p)
      BY <1>1, <1>2, Typed DEF CallerHeld, SessionWaits
    <2>2. CASE Shared(p)
      BY <1>2, <2>1, <2>2, SharedKept
    <2>3. CASE \E c \in Callers : Closes(c) /\ cl[c].ext = cl[p].ext
      BY <1>2, <2>1, <2>3, ClosedIsShared
    <2>4. CASE Live(cl[p].ext) /\ \A c \in Callers : Closes(c) => cl[c].ext # cl[p].ext
      <3>1. PICK e \in Exts \ WebStops : e = cl[p].ext
        BY <2>1
      <3>2. Live(e)'
        BY <2>4, <3>1, LiveKept
      <3>3. QED
        BY <1>2, <3>1, <3>2 DEF Live
    <2>5. QED
      BY <2>1, <2>2, <2>3, <2>4
  <1>3. CASE cl'[p] = cl[p]
    <2>1. ASSUME NEW c \in Callers, Closes(c) PROVE p # c
      BY <1>3, <2>1 DEF Closes
    <2>2. QED
      BY <1>2, <1>3, <2>1
  <1>4. ASSUME MovesBy(p), NEW c \in Callers, Closes(c) PROVE FALSE
    <2>1. c = p
      BY <1>1, <1>4
      DEF MovesBy, Advances, Joins, Makes, Spawns, Readies, Closes, Broadcasts, Others, HandedTo
    <2>2. QED
      BY <1>4, <2>1 DEF Closes
  <1>5. CASE Advances(p) \/ Spawns(p) \/ Readies(p)
    <2>1. /\ cl[p].pc \in {"start", "subscribe", "send", "broadcast"}
          /\ cl'[p].ext = cl[p].ext /\ cl'[p].drv = cl[p].drv
      BY <1>5 DEF Advances, Spawns, Readies, HandedTo, Holds
    <2>2. QED
      BY <1>2, <1>4, <1>5, <2>1 DEF MovesBy
  <1>6. CASE Joins(p)
    <2>1. PICK s \in Sids : s = cl[p].sid
      BY <1>1, <1>6, Typed DEF Joins
    <2>2. cl'[p].ext = drivers[s].ext /\ drivers[s].ext # 0 /\ Lives
      BY <1>6, <2>1, Typed DEF Joins, HandedTo, PinInv, Inv, TypeOK
    <2>3. PICK e \in Exts \ WebStops : e = drivers[s].ext /\ ext[e].status = "live"
      BY <2>2, Typed DEF PinInv, EntryIsKeyed, Kept
    <2>4. ext'[e].status = "live"
      BY <2>2, <2>3 DEF Lives, SessionLives
    <2>5. QED
      BY <2>2, <2>3, <2>4 DEF Live
  <1>7. CASE Makes(p)
    <2>1. PICK s \in Sids : s = cl[p].sid
      BY <1>1, <1>7, Typed DEF Makes
    <2>2. PICK e \in Exts : cl'[p].ext = e /\ Attach(s, e)
      BY <1>7, <2>1 DEF Makes
    <2>3. CASE drivers[s].ext # 0
      <3>1. ext' = ext /\ e = drivers[s].ext /\ ext[e].status = "live"
        BY <2>2, <2>3 DEF Attach, PinInv, EntryIsKeyed, Kept
      <3>2. QED
        BY <2>2, <3>1 DEF Live
    <2>4. CASE drivers[s].ext = 0
      <3>1. ext' = [ext EXCEPT ![e] = [ext[e] EXCEPT !.key = s, !.status = "live"]]
        BY <2>2, <2>4 DEF Attach
      <3>2. ext[e] \in ExtRec /\ ext \in [Exts -> ExtRec]
        BY Typed
      <3>3. ext'[e].status = "live"
        BY <3>1, <3>2 DEF ExtRec
      <3>4. QED
        BY <2>2, <3>3 DEF Live
    <2>5. QED
      BY <2>3, <2>4
  <1>8. CASE Closes(p) \/ Broadcasts(p)
    BY <1>8 DEF Closes, Broadcasts
  <1>9. QED
    BY <1>1, <1>3, <1>5, <1>6, <1>7, <1>8, WhoMoves DEF MovesBy
-----------------------------------------------------------------------------
(* Prompts *)

LEMMA QueueRange ==
  ASSUME NEW q \in Seq(Injects)
  PROVE  /\ Range(<<>>) = {}
         /\ \A c \in Injects : Range(Append(q, c)) = Range(q) \cup {c}
         /\ q # <<>> => Head(q) \in Injects /\ Range(q) = {Head(q)} \cup Range(Tail(q))
  <1>1. Range(<<>>) = {}
    BY DEF Range
  <1>2. ASSUME NEW c \in Injects PROVE Range(Append(q, c)) = Range(q) \cup {c}
    BY AppendProperties DEF Range
  <1>3. ASSUME q # <<>> PROVE Head(q) \in Injects /\ Range(q) = {Head(q)} \cup Range(Tail(q))
    <2>1. /\ Tail(q) \in Seq(Injects) /\ Len(Tail(q)) = Len(q) - 1 /\ Head(q) = q[1]
          /\ \A i \in 1 .. Len(Tail(q)) : Tail(q)[i] = q[i + 1]
      BY <1>3, HeadTailProperties
    <2>2. Len(q) \in Nat /\ Len(q) > 0 /\ DOMAIN q = 1 .. Len(q) /\ DOMAIN Tail(q) = 1 .. Len(Tail(q))
      BY <1>3, <2>1, LenProperties, EmptySeq
    <2>3. ASSUME NEW i \in 1 .. Len(q) PROVE q[i] \in {Head(q)} \cup Range(Tail(q))
      <3>1. CASE i = 1
        BY <2>1, <3>1
      <3>2. CASE i # 1
        <4>1. i - 1 \in 1 .. Len(Tail(q)) /\ Tail(q)[i - 1] = q[i]
          BY <2>1, <2>2, <3>2
        <4>2. QED
          BY <2>2, <4>1 DEF Range
      <3>3. QED
        BY <3>1, <3>2
    <2>4. Range(q) \subseteq {Head(q)} \cup Range(Tail(q))
      BY <2>2, <2>3 DEF Range
    <2>5. ASSUME NEW i \in 1 .. Len(Tail(q)) PROVE Tail(q)[i] \in Range(q)
      <3>1. i + 1 \in 1 .. Len(q) /\ Tail(q)[i] = q[i + 1]
        BY <2>1, <2>2
      <3>2. QED
        BY <2>2, <3>1 DEF Range
    <2>6. Range(Tail(q)) \subseteq Range(q)
      BY <2>2, <2>5 DEF Range
    <2>7. Head(q) \in Range(q) /\ Head(q) \in Injects
      <3>1. 1 \in DOMAIN q
        BY <2>2
      <3>2. QED
        BY <2>1, <2>2, <3>1 DEF Range
    <2>8. QED
      BY <2>4, <2>6, <2>7
  <1>4. QED
    BY <1>1, <1>2, <1>3

Moved(p) == got[p] # {} \/ \E d \in Drivers : p \in Range(drv[d].queue)

\* A finished caller stays so.
LEMMA DoneStays ==
  ASSUME CallerHolds, Effects, NEW c \in Callers, cl[c].ans # "none"
  PROVE  cl'[c] = cl[c]
  <1>1. ASSUME MovesBy(c) PROVE cl[c].pc # "done"
    BY <1>1 DEF MovesBy, Advances, Joins, Makes, Spawns, Readies, Closes, Broadcasts
  <1>2. QED
    BY <1>1, WhoMoves DEF CallerHolds, CallerHeld

\* Steps that move no prompt.
QueuesStay ==
    /\ got' = got
    /\ \A d \in Drivers : /\ drv'[d].queue = drv[d].queue
                          /\ drv'[d].proc = "running" => Running(d) \/ drv[d].queue = <<>>

LEMMA QueuesKept ==
  ASSUME PinInv, PumpPhases, EntryRuns, CallerHolds, Effects,
         \A c \in Callers : ~Broadcasts(c), \A d \in Drivers : ~Takes(d)
  PROVE  QueuesStay
  <1> USE DEF QueuesStay
  <1>1. CASE Quiet
    BY <1>1 DEF Quiet, DriverRests, Running
  <1>2. ASSUME NEW c \in Callers, Spawns(c) PROVE QueuesStay
    <2>1. PICK x \in Drivers : x = cl[c].drv /\ drv[x].proc = "none"
      BY <1>2, StarterAlone DEF Spawns
    <2>2. drv[x].queue = <<>>
      BY <2>1 DEF PumpPhases, PumpPhase
    <2>3. QED
      BY <1>2, <2>1, <2>2 DEF Spawns, Running
  <1>3. ASSUME NEW c \in Callers, Makes(c) PROVE QueuesStay
    <2>1. PICK d \in Drivers : /\ drv[d] = Unused /\ \A f \in Drivers \ {d} : drv'[f] = drv[f]
                               /\ drv'[d].queue = <<>> /\ drv'[d].proc = "none" /\ got' = got
      BY <1>3 DEF Makes
    <2>2. drv[d].queue = <<>>
      BY <2>1 DEF Unused
    <2>3. QED
      BY <2>1, <2>2 DEF Running
  <1>4. ASSUME NEW c \in Callers, Readies(c) PROVE QueuesStay
    BY <1>4 DEF Readies, Running
  <1>5. QED
    BY <1>1, <1>2, <1>3, <1>4 DEF Effects, Rests, Advances, Joins, Closes

LEMMA BroadcastKept ==
  ASSUME PinInv, PumpPhases, EntryRuns, CallerHolds, Broadcast, Effects,
         \A c \in Callers : ~Broadcasts(c), \A d \in Drivers : ~Takes(d)
  PROVE  Broadcast'
  <1> SUFFICES ASSUME NEW p \in Injects
               PROVE  /\ Moved(p)' => cl'[p].ans = "completed"
                      /\ \A d, f \in Holders(p)' : d = f
    BY DEF Broadcast, Moved
  <1>1. /\ got' = got
        /\ \A d \in Drivers : /\ drv'[d].queue = drv[d].queue
                              /\ drv'[d].proc = "running" => Running(d) \/ drv[d].queue = <<>>
    BY QueuesKept DEF QueuesStay
  <1>2. Moved(p)' => Moved(p)
    BY <1>1 DEF Moved
  <1>3. Moved(p) => cl[p].ans = "completed" /\ cl'[p] = cl[p]
    BY DoneStays, Typed DEF Broadcast, Moved
  <1>4. Holders(p)' \subseteq Holders(p)
    <2>1. Range(<<>>) = {}
      BY DEF Range
    <2>2. \A d \in Drivers : drv'[d].proc = "running" /\ p \in Range(drv'[d].queue) => Running(d)
      BY <1>1, <2>1
    <2>3. QED
      BY <1>1, <2>2 DEF Holders, Running
  <1>5. QED
    BY <1>2, <1>3, <1>4 DEF Broadcast

LEMMA BroadcastTakes ==
  ASSUME PinInv, Broadcast, NEW d \in Drivers, Takes(d)
  PROVE  Broadcast'
  <1> SUFFICES ASSUME NEW p \in Injects
               PROVE  /\ Moved(p)' => cl'[p].ans = "completed"
                      /\ \A e, f \in Holders(p)' : e = f
    BY DEF Broadcast, Moved
  <1> DEFINE q == drv[d].queue
  <1>1. /\ q \in Seq(Injects) /\ q # <<>> /\ Head(q) \in Injects
        /\ Range(q) = {Head(q)} \cup Range(Tail(q))
    BY QueueRange, Typed DEF Takes
  <1>2. /\ cl' = cl /\ drv'[d].queue = Tail(q) /\ drv'[d].proc = drv[d].proc
        /\ \A f \in Drivers \ {d} : drv'[f] = drv[f]
        /\ \/ drv[d].proc = "running" /\ got' = [got EXCEPT ![Head(q)] = got[Head(q)] \cup {d}]
           \/ got' = got
    BY DEF Takes
  <1> HIDE DEF q
  <1>3. got'[p] = got[p] \/ (p = Head(q) /\ drv[d].proc = "running" /\ got'[p] = got[p] \cup {d})
    BY <1>1, <1>2, Typed
  <1>4. \A f \in Drivers : p \in Range(drv'[f].queue) => p \in Range(drv[f].queue)
    BY <1>1, <1>2 DEF q
  <1>5. p = Head(q) => p \in Range(drv[d].queue)
    BY <1>1 DEF q
  <1>6. Moved(p)' => Moved(p)
    BY <1>3, <1>4, <1>5 DEF Moved
  <1>7. \A f \in Drivers : drv'[f].proc = drv[f].proc
    BY <1>2
  <1>8. Holders(p)' \subseteq Holders(p)
    BY <1>3, <1>4, <1>5, <1>7 DEF Holders, Running
  <1>9. QED
    BY <1>2, <1>6, <1>8 DEF Broadcast, Moved

LEMMA BroadcastBroadcast ==
  ASSUME PinInv, OneRunner, CallerHolds, Broadcast, Effects, NEW c \in Callers, Broadcasts(c)
  PROVE  Broadcast'
  <1> SUFFICES ASSUME NEW p \in Injects
               PROVE  /\ Moved(p)' => cl'[p].ans = "completed"
                      /\ \A e, f \in Holders(p)' : e = f
    BY DEF Broadcast, Moved
  <1>1. c \in Injects /\ got' = got /\ cl[c].ans = "none" /\ cl'[c].ans = "completed"
    BY DEF Broadcasts, PinInv, Inv, CallerPhases, CallerHolds, CallerHeld
  <1>2. \A d \in Drivers : /\ drv'[d].proc = drv[d].proc /\ drv'[d].ext = drv[d].ext
                           /\ \/ drv'[d].queue = drv[d].queue
                              \/ /\ drv'[d].queue = Append(drv[d].queue, c)
                                 /\ drv[d].ext = cl[c].ext
    BY DEF Broadcasts
  <1>3. CASE p # c
    <2>1. ASSUME NEW d \in Drivers, p \in Range(drv'[d].queue) PROVE p \in Range(drv[d].queue)
      <3>1. Range(Append(drv[d].queue, c)) = Range(drv[d].queue) \cup {c}
        BY <1>1, QueueRange, Typed
      <3>2. QED
        BY <1>2, <1>3, <2>1, <3>1
    <2>2. Moved(p)' => Moved(p)
      BY <1>1, <2>1 DEF Moved
    <2>3. Holders(p)' \subseteq Holders(p)
      BY <1>1, <1>2, <2>1 DEF Holders, Running
    <2>4. cl'[p] = cl[p]
      BY <1>3, Typed DEF Broadcasts, Others
    <2>5. QED
      BY <2>2, <2>3, <2>4 DEF Broadcast, Moved
  <1>4. CASE p = c
    <2>1. got[c] = {} /\ \A d \in Drivers : c \notin Range(drv[d].queue)
      BY <1>1 DEF Broadcast
    <2>2. \A d \in Holders(c)' : d \in Drivers /\ Running(d) /\ drv[d].ext = cl[c].ext
      BY <1>1, <1>2, <2>1 DEF Holders, Running
    <2>3. QED
      BY <1>1, <1>4, <2>2 DEF OneRunner
  <1>5. QED
    BY <1>3, <1>4

LEMMA BroadcastNext ==
  ASSUME PinInv, OneRunner, EntryRuns, PumpPhases, CallerHolds, Broadcast, Effects
  PROVE  Broadcast'
  BY BroadcastKept, BroadcastTakes, BroadcastBroadcast
-----------------------------------------------------------------------------
(* An accepted prompt reaches its driver *)

\* What may become of the prompt p that driver x, which the inject was handed,
\* has or has not taken.
Reached(p, x) ==
    \/ got[p] # {}
    \/ drv[x].pump = "on" /\ p \in Range(drv[x].queue)
    \/ drv[x].cancelled \/ ~Running(x) \/ drv[x].pump = "off"

Excused(p) == cl[p].full \/ cl[p].ext \in WebStops \/ Shared(p)

LEMMA AcceptedParts == Accepted <=> \A p \in Injects : Completed(p) => Reached(p, cl[p].drv) \/ Excused(p)
  BY DEF Accepted, Reached, Excused

\* A prompt that reached its driver, is on its way to it, or never will, while
\* nobody starts that driver.
LEMMA ReachedStays ==
  ASSUME PinInv, PumpPhases, CallerHolds, Effects, NEW p \in Injects, NEW x \in Drivers,
         drv[x].ext # 0, Reached(p, x), \A c \in Callers : Spawns(c) => cl[c].drv # x
  PROVE  Reached(p, x)'
  <1>1. CASE Quiet
    BY <1>1 DEF Quiet, DriverRests, Reached, Running
  <1>2. CASE got' = got /\ drv'[x] = drv[x]
    BY <1>2 DEF Reached, Running
  <1>3. ASSUME NEW c \in Callers, Spawns(c) PROVE got' = got /\ drv'[x] = drv[x]
    BY <1>3 DEF Spawns
  <1>4. ASSUME NEW c \in Callers, Makes(c) PROVE got' = got /\ drv'[x] = drv[x]
    <2>1. PICK d \in Drivers : drv[d] = Unused /\ \A f \in Drivers \ {d} : drv'[f] = drv[f]
      BY <1>4 DEF Makes
    <2>2. drv[d].ext = 0
      BY <2>1 DEF Unused
    <2>3. QED
      BY <1>4, <2>1, <2>2 DEF Makes
  <1>5. ASSUME NEW c \in Callers, Readies(c) PROVE Reached(p, x)'
    <2>1. CASE cl[c].drv = x
      <3>1. drv[x].pump = "none"
        BY <1>5, <2>1 DEF Readies, CallerHolds, CallerHeld
      <3>2. got' = got /\ drv'[x].proc = drv[x].proc /\ drv'[x].cancelled = drv[x].cancelled
        BY <1>5, <2>1 DEF Readies
      <3>3. QED
        BY <3>1, <3>2 DEF Reached, Running
    <2>2. CASE cl[c].drv # x
      BY <1>2, <1>5, <2>2 DEF Readies
    <2>3. QED
      BY <2>1, <2>2
  <1>6. ASSUME NEW c \in Callers, Broadcasts(c) PROVE Reached(p, x)'
    <2>1. /\ got' = got /\ drv'[x].proc = drv[x].proc /\ drv'[x].pump = drv[x].pump
          /\ drv'[x].cancelled = drv[x].cancelled
          /\ drv'[x].queue \in {drv[x].queue, Append(drv[x].queue, c)}
      BY <1>6 DEF Broadcasts
    <2>2. c \in Injects
      BY <1>6 DEF Broadcasts, PinInv, Inv, CallerPhases
    <2>3. Range(Append(drv[x].queue, c)) = Range(drv[x].queue) \cup {c}
      BY <2>2, QueueRange, Typed
    <2>4. QED
      BY <2>1, <2>3 DEF Reached, Running
  <1>7. ASSUME NEW d \in Drivers, Takes(d) PROVE Reached(p, x)'
    <2>1. CASE d # x
      <3>1. drv'[x] = drv[x] /\ (got[p] # {} => got'[p] # {})
        BY <1>7, <2>1, Typed DEF Takes
      <3>2. QED
        BY <3>1 DEF Reached, Running
    <2>2. CASE d = x
      <3> DEFINE q == drv[x].queue
      <3>1. /\ q \in Seq(Injects) /\ q # <<>> /\ Head(q) \in Injects
            /\ Range(q) = {Head(q)} \cup Range(Tail(q))
        BY <1>7, <2>2, QueueRange, Typed DEF Takes
      <3>2. /\ drv[x].pump = "on" /\ drv'[x].queue = Tail(q) /\ drv'[x].proc = drv[x].proc
            /\ drv'[x].cancelled = drv[x].cancelled
            /\ \/ drv'[x].pump = "on" /\ got' = [got EXCEPT ![Head(q)] = got[Head(q)] \cup {x}]
               \/ drv'[x].pump = "off"
        BY <1>7, <2>2 DEF Takes
      <3> HIDE DEF q
      <3>3. CASE drv'[x].pump = "off"
        BY <3>3 DEF Reached
      <3>4. CASE drv'[x].pump = "on" /\ got' = [got EXCEPT ![Head(q)] = got[Head(q)] \cup {x}]
        <4>1. /\ got[p] # {} => got'[p] # {}
              /\ p = Head(q) => got'[p] # {}
          BY <3>1, <3>4, Typed
        <4>2. p \in Range(drv[x].queue) => p = Head(q) \/ p \in Range(drv'[x].queue)
          BY <3>1, <3>2 DEF q
        <4>3. QED
          BY <3>2, <3>4, <4>1, <4>2 DEF Reached, Running
      <3>5. QED
        BY <3>2, <3>3, <3>4
    <2>3. QED
      BY <2>1, <2>2
  <1>8. QED
    BY <1>1, <1>2, <1>3, <1>4, <1>5, <1>6, <1>7 DEF Effects, Rests, Advances, Joins, Closes

LEMMA AcceptedStays ==
  ASSUME PinInv, PumpPhases, CallerHolds, OwnStart, Effects, NEW p \in Injects, Completed(p),
         Reached(p, cl[p].drv) \/ Excused(p)
  PROVE  Reached(p, cl[p].drv)' \/ Excused(p)'
  <1>1. p \in Callers /\ cl'[p] = cl[p]
    BY DoneStays, Typed DEF Completed
  <1>2. PICK x \in Drivers : x = cl[p].drv /\ drv[x].ext # 0
    BY <1>1, Typed DEF CallerHolds, CallerHeld, Completed
  <1>3. CASE cl[p].full \/ cl[p].ext \in WebStops
    BY <1>1, <1>3, Zenon DEF Excused
  <1>4. CASE Shared(p)
    <2>1. Shared(p)'
      BY <1>1, <1>2, <1>4, SharedKept, Typed
    <2>2. QED
      BY <2>1 DEF Excused
  <1>5. CASE Reached(p, x) /\ \A c \in Callers : Spawns(c) => cl[c].drv # x
    <2>1. Reached(p, x)'
      BY <1>2, <1>5, ReachedStays
    <2>2. QED
      BY <1>1, <1>2, <2>1 DEF Reached, Running
  <1>6. ASSUME NEW c \in Callers, Spawns(c), cl[c].drv = x PROVE Excused(p)'
    <2>1. c # p
      BY <1>6 DEF Spawns, Completed, CallerHolds, CallerHeld
    <2>2. c \in Recoveries
      BY <1>2, <1>6, <2>1 DEF OwnStart, Spawns, Callers
    <2>3. cl'[c].drv = cl'[p].drv
      BY <1>1, <1>2, <1>6 DEF Spawns, Holds
    <2>4. QED
      BY <2>2, <2>3 DEF Excused, Shared
  <1>7. QED
    BY <1>2, <1>3, <1>4, <1>5, <1>6 DEF Excused

LEMMA AcceptedBroadcasts ==
  ASSUME PinInv, PumpPhases, CallerHolds, OwnStart, SessionWaits, Effects,
         NEW p \in Injects, Broadcasts(p)
  PROVE  Reached(p, cl[p].drv)' \/ Excused(p)'
  <1>1. p \in Callers /\ cl[p].pc = "broadcast" /\ cl'[p].drv = cl[p].drv /\ cl'[p].ext = cl[p].ext
    BY Typed DEF Broadcasts, Holds
  <1>2. PICK x \in Drivers : x = cl[p].drv /\ drv[x].ext = cl[p].ext /\ drv[x].ext # 0
    BY <1>1, Typed DEF CallerHolds, CallerHeld
  <1>3. CASE cl[p].ext \in WebStops
    BY <1>1, <1>3 DEF Excused
  <1>4. CASE Shared(p)
    <2>1. Shared(p)'
      BY <1>1, <1>2, <1>4, SharedKept, Typed
    <2>2. QED
      BY <2>1 DEF Excused
  <1>5. CASE cl[p].ext \notin WebStops /\ ~Shared(p)
    <2>1. Live(cl[p].ext)
      BY <1>1, <1>5 DEF SessionWaits
    <2>2. /\ drv'[x].pump = drv[x].pump /\ drv'[x].proc = drv[x].proc
          /\ Len(drv[x].queue) >= InputBuffer => cl'[p].full
          /\ drv[x].pump = "on" /\ Len(drv[x].queue) < InputBuffer =>
               drv'[x].queue = Append(drv[x].queue, p)
      BY <1>2, <2>1 DEF Broadcasts
    <2>3. Len(drv[x].queue) \in Nat /\ InputBuffer \in Nat
      BY Typed, LenProperties, SDKAssumption
    <2>4. CASE Len(drv[x].queue) >= InputBuffer
      BY <2>2, <2>4, Zenon DEF Excused
    <2>5. CASE drv[x].proc # "running" \/ drv[x].pump = "off"
      <3>1. ~Running(x)' \/ drv'[x].pump = "off"
        BY <2>2, <2>5 DEF Running
      <3>2. QED
        BY <1>1, <1>2, <3>1 DEF Reached, Running
    <2>6. CASE drv[x].proc # "none" /\ drv[x].pump = "none"
      <3>1. PICK b \in Callers : cl[b].pc = "subscribe" /\ cl[b].drv = x
        BY <2>6 DEF PumpPhases, Subscribing
      <3>2. b \notin Injects
        BY <1>1, <1>2, <3>1 DEF OwnStart
      <3>3. QED
        BY <1>2, <1>5, <3>1, <3>2 DEF Shared, Callers
    <2>7. CASE drv[x].pump = "on" /\ Len(drv[x].queue) < InputBuffer
      <3>1. p \in Range(drv'[x].queue)
        <4>1. Range(Append(drv[x].queue, p)) = Range(drv[x].queue) \cup {p}
          BY QueueRange, Typed
        <4>2. QED
          BY <2>2, <2>7, <4>1
      <3>2. QED
        BY <1>1, <1>2, <2>2, <2>7, <3>1 DEF Reached
    <2>8. drv[x].pump \in {"none", "on", "off"}
      BY Typed DEF DriverRec, PumpStates
    <2>9. Len(drv[x].queue) >= InputBuffer \/ Len(drv[x].queue) < InputBuffer
      BY <2>3
    <2>10. QED
      BY <2>4, <2>5, <2>6, <2>7, <2>8, <2>9
  <1>6. QED
    BY <1>3, <1>4, <1>5

LEMMA AcceptedNext ==
  ASSUME PinInv, PumpPhases, CallerHolds, OwnStart, SessionWaits, Accepted, Effects
  PROVE  Accepted'
  <1> SUFFICES ASSUME NEW p \in Injects, Completed(p)'
               PROVE  Reached(p, cl[p].drv)' \/ Excused(p)'
    BY DEF Accepted, Reached, Excused
  <1>1. CASE Completed(p)
    <2>1. Reached(p, cl[p].drv) \/ Excused(p)
      BY <1>1, AcceptedParts
    <2>2. QED
      BY <1>1, <2>1, AcceptedStays
  <1>2. CASE ~Completed(p)
    <2>1. cl'[p] # cl[p] /\ p \in Callers
      BY <1>2, Typed DEF Completed
    <2>2. MovesBy(p)
      BY <2>1, WhoMoves
    <2>3. Broadcasts(p)
      BY <1>2, <2>2
      DEF MovesBy, Advances, Joins, Makes, Spawns, Readies, Closes, HandedTo, Completed
    <2>4. QED
      BY <2>3, AcceptedBroadcasts
  <1>3. QED
    BY <1>1, <1>2

-----------------------------------------------------------------------------
(* The theorems *)

LEMMA DeliveryNext == DeliveryInv /\ [Next]_vars => DeliveryInv'
  <1> SUFFICES ASSUME DeliveryInv, [Next]_vars PROVE DeliveryInv'
    OBVIOUS
  <1> USE DEF DeliveryInv
  <1>1. PinInv'
    BY PinNext
  <1>2. Effects
    BY StepEffects
  <1>3. OneRunner' /\ EntryRuns' /\ PumpPhases'
    BY <1>2, RunnersNext, PumpNext
  <1>4. CallerHolds' /\ SessionIsNew' /\ OneSubscriber'
    BY <1>2, HeldNext, NewNext, SubscriberNext
  <1>5. OneInject' /\ OwnStart' /\ SessionWaits'
    BY <1>2, InjectNext, OwnStartNext, WaitsNext
  <1>6. Broadcast' /\ Accepted'
    BY <1>2, BroadcastNext, AcceptedNext
  <1>7. QED
    BY <1>1, <1>3, <1>4, <1>5, <1>6

(* A prompt is written to at most one subprocess, although SendInput is a     *)
(* broadcast to every pump on the session (external.go) and ensureDriver      *)
(* hands one session from driver to driver: only one of them ever runs.       *)
THEOREM DeliveredOnceAlways == Spec => []DeliveredOnce
  <1>1. DeliveryInv => DeliveredOnce
    <2> SUFFICES ASSUME DeliveryInv, NEW p \in Injects PROVE Cardinality(got[p]) <= 1
      BY DEF DeliveredOnce
    <2>1. \A d, f \in got[p] : d = f
      BY DEF DeliveryInv, Broadcast, Holders
    <2>2. CASE got[p] = {}
      BY <2>2, FS_EmptySet
    <2>3. CASE got[p] # {}
      <3>1. PICK d : got[p] = {d}
        BY <2>1, <2>3
      <3>2. Cardinality({d}) = 1
        BY FS_Singleton
      <3>3. QED
        BY <3>1, <3>2
    <2>4. QED
      BY <2>2, <2>3
  <1>2. QED
    BY <1>1, DeliveryInit, DeliveryNext, PTL DEF Spec

(* Start's handshake loses no first prompt: one reported completed has been   *)
(* written or waits for a pump that reads it, unless its driver is cancelled, *)
(* gone or shared with a recovery call, its channel was full, or the web      *)
(* stopped its session (driver.go Start, external.go broadcast).              *)
THEOREM AcceptedAlways == Spec => []AcceptedUnlessDriverGone
  <1>1. DeliveryInv => AcceptedUnlessDriverGone
    <2> SUFFICES ASSUME DeliveryInv, NEW p \in Injects, Completed(p)
                 PROVE  \/ got[p] # {} \/ Queued(p)
                        \/ drv[cl[p].drv].cancelled \/ ~Running(cl[p].drv)
                        \/ drv[cl[p].drv].pump = "off"
                        \/ cl[p].full \/ cl[p].ext \in WebStops
                        \/ \E r \in Recoveries : cl[r].drv = cl[p].drv
      BY DEF AcceptedUnlessDriverGone
    <2>1. cl[p].drv \in Drivers
      BY Typed DEF DeliveryInv, CallerHolds, CallerHeld, Completed
    <2>2. Reached(p, cl[p].drv) \/ Excused(p)
      BY AcceptedParts DEF DeliveryInv
    <2>3. QED
      BY <2>1, <2>2 DEF Reached, Excused, Shared, Queued
  <1>2. QED
    BY <1>1, DeliveryInit, DeliveryNext, PTL DEF Spec

=============================================================================
