----------------------------- MODULE NexusSync -----------------------------
(***************************************************************************)
(* The copies that Nexus keeps of a daemon's sessions.  The daemon's sync  *)
(* loop posts the catalog and the last turns of the sessions somebody      *)
(* watches; the control connection brings hints, which wake the loop, and  *)
(* explicit sync requests, which upload by themselves.  Both post over a   *)
(* network that loses requests and answers and delivers requests late, and *)
(* retry.                                                                  *)
(*                                                                         *)
(* A turn is absent or one of two versions: a Codex tool call is rewritten *)
(* in place when its result appears further down the file.  A window hash  *)
(* is the window's content.                                                *)
(***************************************************************************)
EXTENDS Integers, Sequences, FiniteSets, FiniteSetsExt

CONSTANTS
    Sessions,     \* ids of sessions
    Initial,      \* those on disk at first
    Mutable,      \* those whose earlier turns can change (Codex)
    MaxTurns,     \* turns of a session (a bound of the model)
    InitialLimit, \* turns of a window, POCKLY_INITIAL_TURN_LIMIT
    HintLimit,    \* turns of the window of a hinted session
    HotTurns,     \* turns Nexus keeps of a session
    CatalogCap,   \* sessions that fit a catalog
    MaxOps,       \* changes on disk (a bound of the model)
    MaxFaults,    \* lost answers, errors, crashes and restarts (a bound)
    MaxOpens,     \* sessions the browser opens (a bound)
    MaxUploads,   \* sync requests over the control connection (a bound)
    MaxEvents     \* all of these together (a bound)

ASSUME SyncAssumption ==
    /\ Initial \cup Mutable \subseteq Sessions
    /\ {MaxTurns, InitialLimit, HintLimit, HotTurns, CatalogCap} \subseteq Nat \ {0}
    /\ InitialLimit <= HintLimit /\ HintLimit <= HotTurns
    /\ {MaxOps, MaxFaults, MaxOpens, MaxUploads, MaxEvents} \subseteq Nat

Seqs    == 1..MaxTurns
Absent  == -1
NoTurns == [q \in Seqs |-> Absent]
NoWin   == [min |-> 0, max |-> 0, turns |-> NoTurns]
NoSync  == [NoWin EXCEPT !.min = -1]
None    == "none"

VARIABLES
    disk,       \* session -> place, turns (versions) and title
    idx,        \* the index's snapshot: sessions listed, tombstones, titles
    hints,      \* pushedHintStore: the server windows of the hinted sessions
    wake,       \* a token is in syncWake
    waking,     \* the control read loop is between Add and wakeSync
    loop,       \* the sync loop
    lastCat,    \* lastCatalogSyncSignature and the like, or none
    synced,     \* lastHistorySync: session -> window, or NoSync
    calls,      \* the calls of SyncHistory, by caller
    nexus,      \* Nexus's store: known sessions, their turns, open hints
    late,       \* requests given up that Nexus may still process
    ops, faults, opens, uploads,
    unseen,     \* hints added since the loop last looked
    excused,    \* sessions whose turns Nexus dropped or declined, or was not sent
    touched     \* sessions changed at Nexus without the loop's catalog knowing

vars == <<disk, idx, hints, wake, waking, loop, lastCat, synced, calls,
          nexus, late, ops, faults, opens, uploads, unseen, excused, touched>>
memory  == <<lastCat, synced>>
budgets == <<ops, faults, opens, uploads>>
ghosts  == <<unseen, excused, touched>>

Callers == {"loop", "control"}
NoReq   == [kind |-> None]
NoCat   == [full |-> FALSE, sessions |-> {None}, deleted |-> {}, title |-> <<>>]
Idle    == [pc |-> "idle", todo |-> {}, hints |-> <<>>, known |-> <<>>, failed |-> FALSE]
\* A run without sessions left to look at is over.
Continue(l) == IF l.todo = {} THEN Idle ELSE [l EXCEPT !.pc = "windows"]

-----------------------------------------------------------------------------
(* The disk and the index.                                                 *)

OnDisk(s)  == disk[s].place # None
Listed     == {s \in Sessions : disk[s].place = "live"}
Tombstones == {s \in Sessions : disk[s].place = "archived"}

\* One refresh of the index, see SessionIndex.
Snapshot == [listed |-> Listed, deleted |-> Tombstones,
             title |-> [s \in Sessions |-> IF s \in Listed THEN disk[s].title ELSE 0]]

Init ==
    /\ disk = [s \in Sessions |-> [place |-> IF s \in Initial THEN "live" ELSE None,
                                   turns |-> IF s \in Initial THEN <<0>> ELSE <<>>, title |-> 0]]
    /\ idx = Snapshot
    /\ hints = <<>> /\ wake = FALSE /\ waking = FALSE
    /\ loop = Idle
    /\ lastCat = NoCat
    /\ synced = [s \in Sessions |-> NoSync]
    /\ calls = [c \in Callers |-> NoReq]
    /\ nexus = [known |-> {}, turns |-> [s \in Sessions |-> NoTurns], opened |-> {}]
    /\ late = {}
    /\ ops = 0 /\ faults = 0 /\ opens = 0 /\ uploads = 0
    /\ unseen = {} /\ excused = {} /\ touched = {}

Budget == ops + faults + opens + uploads < MaxEvents

DiskChange ==
    /\ Budget /\ ops < MaxOps /\ ops' = ops + 1
    /\ UNCHANGED <<idx, hints, wake, waking, loop, memory, calls, nexus, late,
                   faults, opens, uploads, ghosts>>

Create(s)  == /\ DiskChange /\ ~OnDisk(s)
              /\ \E first \in {<<>>, <<0>>} :
                    disk' = [disk EXCEPT ![s].place = "live", ![s].turns = first]
Append_(s) == /\ DiskChange /\ disk[s].place = "live" /\ Len(disk[s].turns) < MaxTurns
              /\ disk' = [disk EXCEPT ![s].turns = Append(@, 0)]
\* The output of a function call arrives: the call's block is fused with it.
Fuse(s)    == /\ DiskChange /\ s \in Mutable
              /\ \E q \in 1..Len(disk[s].turns) :
                    /\ disk[s].turns[q] = 0
                    /\ disk' = [disk EXCEPT ![s].turns[q] = 1]
Retitle(s) == /\ DiskChange /\ OnDisk(s) /\ disk[s].title = 0
              /\ disk' = [disk EXCEPT ![s].title = 1]
Delete(s)  == /\ DiskChange /\ OnDisk(s)
              /\ disk' = [disk EXCEPT ![s] = [place |-> "gone", turns |-> <<>>, title |-> 0]]
Archive(s) == /\ DiskChange /\ s \in Mutable
              /\ disk[s].place \in {"live", "archived"}
              /\ disk' = [disk EXCEPT ![s].place = IF @ = "live" THEN "archived" ELSE "live"]

IndexRefresh ==
    /\ idx # Snapshot /\ idx' = Snapshot
    /\ UNCHANGED <<disk, hints, wake, waking, loop, memory, calls, nexus, late,
                   budgets, ghosts>>

-----------------------------------------------------------------------------
(* Requests.                                                               *)

\* BuildCatalogSyncRequest: tombstones first, then the newest sessions that
\* fit.  `base' is a ghost: what the index listed.
CatalogSessions(snap) ==
    IF Cardinality(snap.listed) <= CatalogCap THEN {snap.listed}
    ELSE kSubset(CatalogCap, snap.listed)
CatalogReqAlwaysFull(snap, emitted, ids) ==
    [kind |-> "catalog", sessions |-> emitted, deleted |-> snap.deleted,
     full |-> TRUE, title |-> [s \in emitted |-> snap.title[s]],
     ids |-> ids, base |-> snap.listed]
CatalogReq(snap, emitted, ids) ==
    [kind |-> "catalog", sessions |-> emitted, deleted |-> snap.deleted,
     full |-> emitted = snap.listed, title |-> [s \in emitted |-> snap.title[s]],
     ids |-> ids, base |-> snap.listed]

ProbeReq(ids) == [kind |-> "probe", ids |-> ids]

\* The turns extracted from the file of a session, one per block.
Blocks(s) == disk[s].turns

\* selectBlockWindow and the payloads of the selected blocks.
Window(s, limit) ==
    LET n  == Len(Blocks(s))
        lo == Max({1, n - limit + 1})
    IN IF n = 0 THEN NoWin
       ELSE [min |-> lo, max |-> n,
             turns |-> [q \in Seqs |-> IF lo <= q /\ q <= n THEN Blocks(s)[q] ELSE Absent]]

\* FindSession and the extraction of the blocks succeed.
Readable(s) == s \in idx.listed /\ disk[s].place \in {"live", "archived"}

WindowReq(s, w) == [kind |-> "window", s |-> s, win |-> w, sig |-> w]

\* What the daemon remembers of a catalog, and what decides over the next.
Signature(r)  == [full |-> r.full, sessions |-> r.sessions, deleted |-> r.deleted, title |-> r.title]
Membership(g) == <<g.sessions, g.deleted>>

-----------------------------------------------------------------------------
(* Nexus: daemonSync.                                                      *)

Stored(nx, s) == {q \in Seqs : nx.turns[s][q] # Absent}

\* The newest turns of a session are kept.
Pruned(turns) ==
    LET kept == {q \in Seqs : turns[q] # Absent
                     /\ Cardinality({r \in Seqs : r > q /\ turns[r] # Absent}) < HotTurns}
    IN [q \in Seqs |-> IF q \in kept THEN turns[q] ELSE Absent]

\* Sessions a catalog request removes: its tombstones, and what a complete
\* catalog does not list.
RemovedTombstones(nx, r) == r.deleted
Removed(nx, r) == (r.deleted \cup (IF r.full THEN nx.known \ r.sessions ELSE {}))

AfterCatalog(nx, r) ==
    LET gone == Removed(nx, r) IN
    [nx EXCEPT !.known = (@ \ gone) \cup r.sessions,
               !.turns = [s \in Sessions |-> IF s \in gone THEN NoTurns ELSE @[s]],
               !.opened = @ \ gone]

\* The tail of an opened session of which only the catalog entry is known is
\* not made durable, and the open hint is used up.
OpenedBackfill(nx, r) == r.s \in nx.known \cap nx.opened /\ Stored(nx, r.s) = {}

AfterWindow(nx, r) ==
    IF OpenedBackfill(nx, r) THEN [nx EXCEPT !.opened = @ \ {r.s}]
    ELSE [nx EXCEPT !.known = @ \cup {r.s},
                    !.turns[r.s] = Pruned([q \in Seqs |-> IF r.win.turns[q] # Absent
                                                          THEN r.win.turns[q] ELSE @[q]])]

Processed(nx, r) == CASE r.kind = "catalog" -> AfterCatalog(nx, r)
                      [] r.kind = "window"  -> AfterWindow(nx, r)
                      [] OTHER              -> nx

\* latestContiguousTurnTail, with the hash of what is stored.
ServerWindow(nx, s) ==
    IF Stored(nx, s) = {} THEN NoWin
    ELSE LET max == Max(Stored(nx, s))
             min == Min({q \in 1..max : q..max \subseteq Stored(nx, s)})
         IN [min |-> min, max |-> max,
             turns |-> [q \in Seqs |-> IF q \in min..max THEN nx.turns[s][q] ELSE Absent]]

\* A response without turns returns the windows of the sessions asked for.
KnownWindows(nx, r) ==
    IF r.kind = "window" THEN <<>>
    ELSE [s \in {t \in r.ids \cap nx.known : Stored(nx, t) # {}} |-> ServerWindow(nx, s)]

\* Of these turns, Nexus stores those that it does not keep newer ones instead of.
Backed(nx, s, turns) ==
    \A q \in Seqs : turns[q] # Absent =>
        q \in Stored(nx, s) \/ Cardinality({r \in Stored(nx, s) : r > q}) >= HotTurns

\* Turns that disappear from Nexus, or never reach its store.
Lost(nx, r) == CASE r.kind = "catalog" -> Removed(nx, r)
                 [] r.kind = "window"  -> IF OpenedBackfill(nx, r) THEN {r.s} ELSE {}
                 [] OTHER              -> {}

\* Nexus processes a request.
Process(r) == /\ nexus' = Processed(nexus, r)
              /\ excused' = excused \cup Lost(nexus, r)
Changes(r) == CASE r.kind = "catalog" -> Removed(nexus, r) \cup r.sessions
                [] r.kind = "window"  -> {r.s}
                [] OTHER              -> {}

-----------------------------------------------------------------------------
(* One run of the sync loop.                                               *)

Hinted(s) == s \in DOMAIN loop.hints

\* The catalog is posted at once when sessions come or go; titles and the rest
\* wait for their own minimum intervals, which are over or not.
CatalogChanged(g)    == g # lastCat
MembershipChanged(g) == Membership(g) # Membership(lastCat)
TitlesChanged(g)     == g.title # lastCat.title
MayPush(g)           == CatalogChanged(g)
MayWait(g)           == ~MembershipChanged(g)
\* A run that holds back changed titles is repeated soon and skips the probe.
RetryLater(g)        == MayWait(g) /\ TitlesChanged(g)

\* Nexus is asked for its windows of sessions never synced, and of hinted ones
\* whose hint came without a window.
ShouldProbe(ids, hs) == \E s \in ids : synced[s] = NoSync \/ (s \in DOMAIN hs /\ hs[s].max = 0)

\* recentNexusSessions: the hinted sessions and the active or recent ones, all
\* of them with POCKLY_PROACTIVE_HISTORY_SYNC.
Candidates == {(DOMAIN hints \cap idx.listed) \cup active : active \in SUBSET idx.listed}

Begin(c, r) == calls' = [calls EXCEPT ![c] = r]

\* A run reads the catalog and then the hints, and posts the catalog, probes
\* for windows if the interval between probes is over, or goes straight to the
\* windows.
StartRun(byWake, ids, emitted) ==
    /\ loop.pc = "idle" /\ (byWake => wake)
    /\ wake' = (wake /\ ~byWake)
    /\ unseen' = {}
    /\ LET req == CatalogReq(idx, emitted, ids)
           g   == Signature(req)
           run == [Idle EXCEPT !.todo = ids, !.hints = hints]
       IN \/ /\ MayPush(g)
             /\ loop' = [run EXCEPT !.pc = "catalog"] /\ Begin("loop", req)
          \/ /\ MayWait(g) /\ ~RetryLater(g) /\ ShouldProbe(ids, hints)
             /\ loop' = [run EXCEPT !.pc = "probe"] /\ Begin("loop", ProbeReq(ids))
          \/ /\ MayWait(g)
             /\ loop' = Continue(run) /\ UNCHANGED calls
    /\ UNCHANGED <<disk, idx, hints, waking, memory, nexus, late, budgets, excused, touched>>

\* The refresh of a stale index fails: the run is over.
RunFails(byWake) ==
    /\ loop.pc = "idle" /\ (byWake => wake)
    /\ Budget /\ faults < MaxFaults /\ faults' = faults + 1
    /\ wake' = (wake /\ ~byWake)
    /\ loop' = [Idle EXCEPT !.failed = TRUE]
    /\ UNCHANGED <<disk, idx, hints, waking, memory, calls, nexus, late, ops, opens, uploads, ghosts>>

\* Does a window that Nexus reported, in a hint or in a response, make the
\* upload superfluous?
MatchesEnd(k, w) == k.max > 0 /\ k.max = w.max
Matches(k, w) == k.max > 0 /\ k.min = w.min /\ k.max = w.max /\ k.turns = w.turns
Covers(k, w)  == /\ k.min > 0 /\ w.min > 0 /\ ~(k.min = w.min /\ k.max = w.max)
                 /\ k.min <= w.min /\ k.max >= w.max
KnownWindow(s) == IF s \in DOMAIN loop.known THEN loop.known[s] ELSE NoWin

SkipUpload(s, w) ==
    \/ Hinted(s) /\ Matches(loop.hints[s], w)
    \/ IF s \in DOMAIN loop.known
       THEN Matches(loop.known[s], w) \/ (~Hinted(s) /\ Covers(loop.known[s], w))
       ELSE ~Hinted(s) /\ synced[s] = w

\* Turns up to the last one Nexus has are left out, if the windows overlap.
Trimmed(w, k) ==
    LET rest == {q \in Seqs : w.turns[q] # Absent /\ q > k.max} IN
    IF k.max = 0 \/ k.max < w.min \/ rest = {} THEN w
    ELSE [min |-> Min(rest), max |-> Max(rest),
          turns |-> [q \in Seqs |-> IF q \in rest THEN w.turns[q] ELSE Absent]]

\* UpdateAfterSync: the hint grows by the window; it stays, and keeps its hash.
MergedHints(s, w) ==
    IF s \in DOMAIN hints
    THEN [hints EXCEPT ![s].min = IF w.min > 0 /\ (@ = 0 \/ w.min < @) THEN w.min ELSE @,
                       ![s].max = Max({@, w.max})]
    ELSE hints

Limit(s) == IF Hinted(s) THEN HintLimit ELSE InitialLimit

Done(s)      == loop' = Continue([loop EXCEPT !.todo = @ \ {s}])
Record(s, w) == synced' = [synced EXCEPT ![s] = w] /\ UNCHANGED lastCat

\* The interval of the session is not over, its entry in the index looks
\* unchanged since it was recorded, or its file cannot be read.
PassOver(s) ==
    /\ loop.pc = "windows" /\ s \in loop.todo
    /\ Done(s)
    /\ UNCHANGED <<disk, idx, hints, wake, waking, memory, calls, nexus, late, budgets, ghosts>>

Consider(s) ==
    /\ loop.pc = "windows" /\ s \in loop.todo
    /\ Readable(s)
    /\ LET w == Window(s, Limit(s)) IN
       IF w = NoWin \/ SkipUpload(s, w)
       THEN /\ Done(s) /\ Record(s, w)
            /\ hints' = IF w # NoWin /\ Hinted(s) THEN MergedHints(s, w) ELSE hints
            /\ UNCHANGED calls
       ELSE LET t == Trimmed(w, KnownWindow(s)) IN
            /\ loop' = [loop EXCEPT !.pc = "window"]
            /\ Begin("loop", [WindowReq(s, t) EXCEPT !.sig = w])
            /\ UNCHANGED <<memory, hints>>
    /\ UNCHANGED <<disk, idx, wake, waking, nexus, late, budgets, ghosts>>

-----------------------------------------------------------------------------
(* The calls of SyncHistory.                                               *)

Calling(c) == calls[c] # NoReq

\* What the loop does with an answer, and with an error.
Answered(r, nx) ==
    CASE r.kind = "catalog" ->
           /\ lastCat' = Signature(r)
           /\ loop' = Continue([loop EXCEPT !.known = KnownWindows(nx, r)])
           /\ touched' = {}
           /\ UNCHANGED <<synced, hints>>
      [] r.kind = "probe" ->
           /\ loop' = Continue([loop EXCEPT !.known = KnownWindows(nx, r)])
           /\ UNCHANGED <<memory, hints, touched>>
      [] r.kind = "window" ->
           /\ Done(r.s) /\ Record(r.s, r.sig)
           /\ hints' = MergedHints(r.s, r.win)
           /\ touched' = touched \cup ({r.s} \ lastCat.sessions)
Failed(r) ==
    CASE r.kind = "catalog" -> loop' = [Idle EXCEPT !.failed = TRUE]
      [] r.kind = "probe"   -> loop' = Continue(loop)
      [] r.kind = "window"  -> Done(r.s)

\* Trimming looks at the end of Nexus's window alone: turns from before its
\* beginning are left out too, and count as synced with the others.
LeavesGap(r)  == r.win # r.sig /\ KnownWindow(r.s).min > r.sig.min
Skipped(c, r) == IF c = "loop" /\ r.kind = "window" /\ LeavesGap(r) THEN {r.s} ELSE {}

\* A whole window that Nexus stores makes good what was lost before, unless a
\* hint still vouches for more.
Repairs(r, nx) == /\ r.kind = "window" /\ r.win = r.sig /\ Lost(nexus, r) = {}
                  /\ r.s \in DOMAIN hints => Backed(nx, r.s, hints[r.s].turns)

\* Nexus processes the request and the answer arrives.
Answer(c) ==
    /\ Calling(c)
    /\ LET r == calls[c] IN
       /\ nexus' = Processed(nexus, r)
       /\ excused' = IF c = "loop" /\ Repairs(r, nexus')
                     THEN excused \ {r.s} ELSE excused \cup Lost(nexus, r) \cup Skipped(c, r)
       /\ IF c = "loop" THEN Answered(r, nexus')
          ELSE touched' = touched \cup Changes(r) /\ UNCHANGED <<loop, memory, hints>>
    /\ Begin(c, NoReq)
    /\ UNCHANGED <<disk, idx, wake, waking, late, budgets, unseen>>

\* The answer is lost: doJSON posts the same body again.
LoseAnswer(c) ==
    /\ Calling(c) /\ Budget /\ faults < MaxFaults /\ faults' = faults + 1
    /\ Process(calls[c])
    /\ touched' = touched \cup Changes(calls[c])
    /\ UNCHANGED <<disk, idx, hints, wake, waking, loop, memory, calls, late, ops, opens, uploads,
                   unseen>>

\* The attempts are used up.  An attempt that timed out may arrive later.
GiveUp(c, lag) ==
    /\ Calling(c) /\ Budget /\ faults < MaxFaults /\ faults' = faults + 1
    /\ late' = IF lag THEN late \cup {calls[c]} ELSE late
    /\ IF c = "loop" THEN Failed(calls[c]) ELSE UNCHANGED loop
    /\ Begin(c, NoReq)
    /\ UNCHANGED <<disk, idx, hints, wake, waking, memory, nexus, ops, opens, uploads, ghosts>>

ArrivesLate(r) ==
    /\ r \in late /\ late' = late \ {r}
    /\ Process(r)
    /\ touched' = touched \cup Changes(r)
    /\ UNCHANGED <<disk, idx, hints, wake, waking, loop, memory, calls, budgets, unseen>>

-----------------------------------------------------------------------------
(* The control connection.                                                 *)

\* handleSyncSession uploads the last turns of a session that is found.
SyncSession(s) ==
    /\ Budget /\ uploads < MaxUploads /\ uploads' = uploads + 1
    /\ ~Calling("control") /\ Readable(s)
    /\ LET w == Window(s, HintLimit) IN Begin("control", WindowReq(s, w))
    /\ UNCHANGED <<disk, idx, hints, wake, waking, loop, memory, nexus, late, ops, faults, opens,
                   ghosts>>

\* The browser opens a session: Nexus remembers it and pushes a hint, which the
\* daemon adds to the store; a daemon that is offline never hears of it.
AddHint(s) == /\ hints' = [t \in DOMAIN hints \cup {s} |->
                             IF t = s THEN ServerWindow(nexus, s) ELSE hints[t]]
              /\ unseen' = unseen \cup {s}

OpenSession(s, heard) ==
    /\ Budget /\ opens < MaxOpens /\ opens' = opens + 1
    /\ s \in nexus.known
    /\ nexus' = [nexus EXCEPT !.opened = @ \cup {s}]
    /\ IF heard THEN ~waking /\ AddHint(s) /\ waking' = TRUE ELSE UNCHANGED <<hints, waking, unseen>>
    /\ UNCHANGED <<disk, idx, wake, loop, memory, calls, late, ops, faults, uploads, excused, touched>>

WakeWhenIdle ==
    /\ waking /\ waking' = FALSE /\ wake' = (wake \/ loop.pc = "idle")
    /\ UNCHANGED <<disk, idx, hints, loop, memory, calls, nexus, late, budgets, ghosts>>
WakeSync ==
    /\ waking /\ waking' = FALSE /\ wake' = TRUE
    /\ UNCHANGED <<disk, idx, hints, loop, memory, calls, nexus, late, budgets, ghosts>>

\* A hint lives for a day.
HintExpires(s) ==
    /\ s \in DOMAIN hints
    /\ hints' = [t \in DOMAIN hints \ {s} |-> hints[t]]
    /\ unseen' = unseen \ {s}
    /\ UNCHANGED <<disk, idx, wake, waking, loop, memory, calls, nexus, late, budgets, excused,
                   touched>>

\* The daemon restarts; what it had sent may still arrive.
Restart(lag) ==
    /\ Budget /\ faults < MaxFaults /\ faults' = faults + 1
    /\ idx' = Snapshot
    /\ hints' = <<>> /\ wake' = FALSE /\ waking' = FALSE
    /\ loop' = Idle
    /\ lastCat' = NoCat
    /\ synced' = [s \in Sessions |-> NoSync]
    /\ calls' = [c \in Callers |-> NoReq]
    /\ late' = IF lag THEN late \cup ({calls[c] : c \in Callers} \ {NoReq}) ELSE late
    /\ unseen' = {}
    /\ UNCHANGED <<disk, nexus, ops, opens, uploads, excused, touched>>

-----------------------------------------------------------------------------
RunStep ==
    \/ \E byWake \in BOOLEAN, ids \in Candidates, emitted \in CatalogSessions(idx) :
          StartRun(byWake, ids, emitted)
    \/ \E s \in Sessions : PassOver(s) \/ Consider(s)
    \/ \E byWake \in BOOLEAN : RunFails(byWake)
CallStep ==
    \/ \E c \in Callers : \/ Answer(c) \/ LoseAnswer(c)
                          \/ \E lag \in BOOLEAN : GiveUp(c, lag)
    \/ \E r \in late : ArrivesLate(r)
ControlStep ==
    \/ \E s \in Sessions : \/ SyncSession(s) \/ HintExpires(s)
                           \/ \E heard \in BOOLEAN : OpenSession(s, heard)
    \/ WakeSync
DiskStep ==
    \/ \E s \in Sessions : \/ Create(s) \/ Append_(s) \/ Fuse(s)
                           \/ Retitle(s) \/ Delete(s) \/ Archive(s)
    \/ IndexRefresh

Next == RunStep \/ CallStep \/ ControlStep \/ DiskStep \/ \E lag \in BOOLEAN : Restart(lag)

Spec == Init /\ [][Next]_vars

-----------------------------------------------------------------------------
(* Properties.                                                             *)

Wins == [min : 0..MaxTurns, max : 0..MaxTurns, turns : [Seqs -> {Absent, 0, 1}]]

\* The types of the variables; the loop waits for a call exactly when it has one.
TypeOK ==
    /\ \A s \in Sessions : /\ disk[s].place \in {None, "live", "archived", "gone"}
                           /\ Len(disk[s].turns) <= MaxTurns
    /\ idx.listed \subseteq Sessions /\ idx.deleted \subseteq Sessions
    /\ DOMAIN hints \subseteq Sessions /\ \A s \in DOMAIN hints : hints[s] \in Wins
    /\ {wake, waking, loop.failed} \subseteq BOOLEAN
    /\ loop.pc \in {"idle", "catalog", "probe", "windows", "window"}
    /\ loop.pc \in {"idle", "windows"} <=> ~Calling("loop")
    /\ \A s \in Sessions : synced[s] = NoSync \/ synced[s] \in Wins
    /\ nexus.known \subseteq Sessions /\ nexus.opened \subseteq nexus.known
    /\ \A s \in Sessions : Stored(nexus, s) # {} => s \in nexus.known

\* A turn of a window the loop remembers as synced, and will not upload again,
\* is stored at Nexus or gave way to newer ones (syncChangedNexusSessions,
\* shouldSkipWindowUpload), unless Nexus dropped the session or declined its
\* tail since, or trimming left turns out.
SyncedTailIsStored ==
    /\ TypeOK
    /\ \A s \in Sessions \ excused : synced[s] # NoSync => Backed(nexus, s, synced[s].turns)

\* When the loop rests and remembers having pushed the catalog the index has
\* now, complete, Nexus lists exactly those sessions, but for the ones an upload
\* over the control connection or a request without an answer changed since
\* (runSync, catalogSyncSignature).
CatalogIsCurrent ==
    LET g == Signature(CatalogReq(idx, idx.listed, {})) IN
    loop.pc = "idle" /\ lastCat = g => nexus.known \ touched = idx.listed \ touched

\* A session that a complete catalog removes at Nexus was not in the index when
\* the catalog was built (CatalogComplete, FullReconcile).
DeletedWasGone ==
    [][\A s \in nexus.known \ nexus'.known :
         \E r \in {calls[c] : c \in Callers} \cup late :
            r.kind = "catalog" /\ s \notin r.base]_vars

\* A hint that no run has looked at wakes the loop (SyncHint adds and then
\* wakes), unless the run that took the token failed before it looked.
HintIsNoticed == unseen # {} /\ loop.pc = "idle" => wake \/ waking \/ loop.failed
=============================================================================
