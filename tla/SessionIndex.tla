---------------------------- MODULE SessionIndex ----------------------------
(***************************************************************************)
(* The daemon's index of the transcripts on disk: a background goroutine   *)
(* that scans the Claude and Codex homes, is woken by file system events   *)
(* through a debounce timer and by a fallback ticker, the Nexus sync loop, *)
(* which refreshes a stale index itself and reads the catalog, and the     *)
(* local API, whose block streams listen to the same channel of changes.   *)
(*                                                                         *)
(* Agents write while a scan runs.  A scan lists the homes, then stats and *)
(* counts each transcript, and publishes the whole at the end.  A          *)
(* transcript is its length in half lines: an odd length ends in a line    *)
(* that is still being written.                                            *)
(***************************************************************************)
EXTENDS IndexState

diskVars  == <<place, size, edits, removed>>
watchVars == <<events, watched, mode, indexer, why, refreshCh, debounce, debounceC>>
snapVars  == <<snap, lastErr, scanned, firstDone, changes, unread, taken, settled>>
vars == <<diskVars, errors, watchVars, scan, turnCounts, snapVars, sync, failed>>

Exists(s)   == place[s] # "none"
OnDisk      == {s \in Transcripts : Exists(s)}
Live        == {s \in Transcripts : place[s] = "live"}

NoScan == [by |-> "none", step |-> "off", listed |-> {}, deleted |-> {},
           todo |-> {}, cur |-> "none", stat |-> 0, err |-> FALSE, base |-> {},
           stamp |-> [s \in Transcripts |-> 0]]
NoCount == [size |-> -1, count |-> 0]
Stamps(listed) == [s \in Transcripts |-> IF s \in listed THEN size[s] ELSE 0]
NoSnap  == [listed |-> {}, deleted |-> {}, stamp |-> Stamps({}),
            count |-> [s \in Transcripts |-> 0]]

Init ==
    /\ place \in [Transcripts -> {"none", "live"}]
    /\ size \in [Transcripts -> 0..MaxSize]
    /\ \A s \in Transcripts : IF Exists(s) THEN size[s] \in BootSizes ELSE size[s] = 0
    /\ edits = 0 /\ removed = {} /\ errors = 0
    /\ events = {} /\ watched = {}
    /\ mode = "boot" /\ indexer = "refresh" /\ why = "boot"
    /\ refreshCh = FALSE /\ debounce = "nil" /\ debounceC = FALSE
    /\ scan = NoScan
    /\ turnCounts = [s \in Transcripts |-> NoCount]
    /\ snap = NoSnap /\ lastErr = FALSE /\ scanned = FALSE
    /\ firstDone = FALSE /\ changes = FALSE /\ unread = FALSE /\ taken = FALSE
    /\ settled = {}
    /\ sync = "idle" /\ failed = FALSE

-----------------------------------------------------------------------------
(* The agents, and the file system's events.                               *)

\* The kernel reports a change in a watched directory, and the appearance of
\* a directory under a watched root.
Noticed(s, appears) ==
    events' = IF mode = "watch" /\ (s \in watched \/ appears) THEN events \cup {s} ELSE events

DiskChange(s) == edits < MaxEdits /\ edits' = edits + 1

\* A session that leaves the live homes is not expected in the snapshot.
Leaves(s) == /\ scan' = [scan EXCEPT !.base = @ \ {s}]
             /\ settled' = settled \ {s}

Others == UNCHANGED <<errors, watched, mode, indexer, why, refreshCh, debounce, debounceC,
                      turnCounts, snap, lastErr, scanned, firstDone, changes, unread, taken,
                      sync, failed>>

Create(s) == /\ DiskChange(s) /\ ~Exists(s)
             /\ place' = [place EXCEPT ![s] = "live"]
             /\ Noticed(s, TRUE)
             /\ Others /\ UNCHANGED <<size, removed, scan, settled>>
Write(s)  == /\ DiskChange(s) /\ place[s] = "live" /\ size[s] < MaxSize
             /\ size' = [size EXCEPT ![s] = @ + 1]
             /\ Noticed(s, FALSE)
             /\ Others /\ UNCHANGED <<place, removed, scan, settled>>
Remove(s) == /\ DiskChange(s) /\ Exists(s)
             /\ place' = [place EXCEPT ![s] = "none"] /\ size' = [size EXCEPT ![s] = 0]
             /\ removed' = removed \cup {s}
             /\ Noticed(s, FALSE) /\ Leaves(s) /\ Others
Archive(s, how) == /\ DiskChange(s) /\ s \in Codex /\ place[s] = "live"
                   /\ place' = [place EXCEPT ![s] = how]
                   /\ Noticed(s, FALSE) /\ Leaves(s)
                   /\ Others /\ UNCHANGED <<size, removed>>

\* The watcher's queue overflows.
LoseEvent(s) == /\ s \in events /\ events' = events \ {s}
                /\ UNCHANGED <<diskVars, errors, watched, mode, indexer, why, refreshCh, debounce,
                               debounceC, scan, turnCounts, snapVars, sync, failed>>

-----------------------------------------------------------------------------
(* A refresh, under refreshMu.                                             *)

Begin(h) == [NoScan EXCEPT !.by = h, !.step = "list"]

\* Refresh of the background loop takes the lock.
LoopAcquire ==
    /\ indexer = "refresh" /\ scan.by = "none"
    /\ scan' = Begin("loop")
    /\ UNCHANGED <<diskVars, errors, watchVars, turnCounts, snapVars, sync, failed>>

\* A project directory that cannot be read is left out of the listing.
ClaudeListed(unreadable) == {s \in Claude : Exists(s)} \ unreadable

\* Rollouts in sessions and in archived_sessions; the state database flags some
\* of those that have not moved.
CodexListed == {s \in Codex : Exists(s)}
FlaggedInDB == {s \in Codex : place[s] = "flagged"}
Tombstones  == FlaggedInDB \cup {s \in CodexListed : place[s] = "moved"}

\* buildSnapshot.  The size stands for the file's modification time.
ScanHomes(unreadable) ==
    /\ scan.step = "list"
    /\ LET listed == ClaudeListed(unreadable) \cup (CodexListed \ Tombstones) IN
       scan' = [scan EXCEPT !.step = "stat", !.listed = listed, !.todo = listed,
                               !.deleted = Tombstones, !.base = listed, !.stamp = Stamps(listed)]
    /\ errors' = errors + Cardinality(unreadable)
    /\ errors' <= MaxErrors
    /\ UNCHANGED <<diskVars, watchVars, turnCounts, snapVars, sync, failed>>

\* A home that cannot be read fails the scan.
ScanFails ==
    /\ scan.step = "list" /\ errors < MaxErrors
    /\ errors' = errors + 1
    /\ scan' = [scan EXCEPT !.step = "publish", !.err = TRUE]
    /\ UNCHANGED <<diskVars, watchVars, turnCounts, snapVars, sync, failed>>

\* countSessionBlocksCached: the size is taken, and the file is read later.
CountStat(s) ==
    /\ scan.step = "stat" /\ s \in scan.todo
    /\ IF Exists(s)
       THEN /\ scan' = [scan EXCEPT !.step = "read", !.cur = s, !.stat = size[s]]
            /\ UNCHANGED turnCounts
       ELSE /\ scan' = [scan EXCEPT !.todo = @ \ {s}]
            /\ turnCounts' = [turnCounts EXCEPT ![s] = NoCount]
    /\ UNCHANGED <<diskVars, errors, watchVars, snapVars, sync, failed>>

\* Blocks a reader that starts at an offset may count: a line of which only a
\* part is read is taken for a block when the part holds its type.
CountRange(s, from) ==
    LET whole   == (size[s] \div 2) - ((from + 1) \div 2)
        cut     == (IF from % 2 = 1 /\ size[s] > from THEN 1 ELSE 0)
                   + (IF size[s] % 2 = 1 /\ size[s] > from THEN 1 ELSE 0)
    IN {n \in 0..MaxSize : n >= whole /\ n <= whole + cut}

\* A mutant of CanCountAppendedTail.
CanCountAnywhere(s, offset) == TRUE

\* The last byte counted ends a line, so that the count can go on from there.
CanCountAppendedTail(s, offset) == offset = 0 \/ (size[s] >= offset /\ offset % 2 = 0)

CountedBlocks(s, stat) ==
    LET cached == turnCounts[s] IN
    IF cached.size = stat THEN {cached.count}
    ELSE IF cached.size >= 0 /\ stat > cached.size /\ Exists(s)
            /\ CanCountAppendedTail(s, cached.size)
    THEN {cached.count + n : n \in CountRange(s, cached.size)}
    ELSE IF Exists(s) THEN CountRange(s, 0) ELSE {0}

CountRead ==
    /\ scan.step = "read"
    /\ LET s == scan.cur IN
       \E n \in CountedBlocks(s, scan.stat) :
          /\ turnCounts' = [turnCounts EXCEPT ![s] = [size |-> scan.stat, count |-> n]]
          /\ scan' = [scan EXCEPT !.step = "stat", !.todo = @ \ {s}, !.cur = "none",
                                  !.stat = 0]
    /\ UNCHANGED <<diskVars, errors, watchVars, snapVars, sync, failed>>

\* The first user message is cached once it is there, that is when the first
\* line is complete; the empty message of a younger transcript is not.
HasFirstMessage(s) == turnCounts[s].size >= 2

\* The end of populateFirstMessages drops the caches of the vanished sessions
\* that have a first message.
CountEnd ==
    /\ scan.step = "stat" /\ scan.todo = {}
    /\ scan' = [scan EXCEPT !.step = "publish"]
    /\ turnCounts' = [s \in Transcripts |-> IF s \notin scan.listed /\ HasFirstMessage(s)
                                         THEN NoCount ELSE turnCounts[s]]
    /\ UNCHANGED <<diskVars, errors, watchVars, snapVars, sync, failed>>

Returned(err) ==
    /\ indexer' = IF scan.by = "loop" THEN "rewatch" ELSE indexer
    /\ sync' = IF scan.by = "sync" THEN IF err THEN "idle" ELSE "read" ELSE sync
    /\ failed' = IF scan.by = "sync" THEN err ELSE failed

Snapshot(sc) == [listed |-> sc.listed, deleted |-> sc.deleted, stamp |-> sc.stamp,
                 count |-> [s \in Transcripts |-> IF s \in sc.listed THEN turnCounts[s].count ELSE 0]]

\* A failed scan leaves the snapshot; any scan opens the first-scan gate.  The
\* first form is a mutant.
StoredOnError(sc) == Snapshot(sc)
Stored(sc) == IF sc.err THEN snap ELSE Snapshot(sc)

\* refreshLocked, up to the unlock of mu.
Publish ==
    /\ scan.step = "publish"
    /\ snap' = Stored(scan)
    /\ lastErr' = scan.err
    /\ scanned' = (scanned \/ ~scan.err)
    /\ firstDone' = TRUE
    /\ settled' = IF scan.err THEN settled ELSE scan.base
    /\ LET changed == ~scan.err /\ snap' # snap IN
       /\ unread' = (unread \/ changed)
       /\ IF changed
          THEN /\ scan' = [scan EXCEPT !.step = "notify"] /\ UNCHANGED <<indexer, sync, failed>>
          ELSE /\ scan' = NoScan /\ Returned(scan.err)
    /\ UNCHANGED <<diskVars, errors, events, watched, mode, why, refreshCh, debounce, debounceC,
                   turnCounts, changes, taken>>

\* A channel of one token, and the mutant: a channel without a buffer, whose
\* token is dropped unless the sync loop waits for it.
NotifyUnbuffered == changes' = (changes \/ sync = "idle")
NotifyChanged == changes' = TRUE

\* notifyChanged, after the new snapshot is visible.
Notify ==
    /\ scan.step = "notify"
    /\ NotifyChanged /\ taken' = FALSE
    /\ scan' = NoScan /\ Returned(FALSE)
    /\ UNCHANGED <<diskVars, errors, events, watched, mode, why, refreshCh, debounce, debounceC,
                   turnCounts, snap, lastErr, scanned, firstDone, unread, settled>>

-----------------------------------------------------------------------------
(* The select loop of Index.Start.                                         *)

\* After a refresh the roots are watched again; the boot scan chooses between
\* the watcher and polling.
Rewatch(m) ==
    /\ indexer = "rewatch" /\ indexer' = "select" /\ why' = "none"
    /\ mode' = IF mode = "boot" THEN m ELSE mode
    /\ watched' = IF mode' = "watch" THEN watched \cup OnDisk ELSE watched
    /\ debounceC' = (debounceC /\ why # "debounce")
    /\ UNCHANGED <<diskVars, errors, events, refreshCh, debounce, scan, turnCounts, snapVars,
                   sync, failed>>

\* A new directory is watched, a removed one is not; both ask for a refresh.
WatcherEvent(s) ==
    /\ indexer = "select" /\ mode = "watch" /\ s \in events
    /\ events' = events \ {s}
    /\ watched' = IF Exists(s) THEN watched \cup {s} ELSE watched \ {s}
    /\ refreshCh' = TRUE
    /\ UNCHANGED <<diskVars, errors, mode, indexer, why, debounce, debounceC, scan, turnCounts,
                   snapVars, sync, failed>>

\* The first request creates the timer; a later one stops, drains and resets it.
Debounce ==
    /\ indexer = "select" /\ mode = "watch" /\ refreshCh
    /\ refreshCh' = FALSE
    /\ debounce' = "armed"
    /\ debounceC' = IF debounce = "nil" THEN TRUE ELSE debounceC
    /\ UNCHANGED <<diskVars, errors, events, watched, mode, indexer, why, scan, turnCounts, snapVars,
                   sync, failed>>

\* The timer fires into the select, if that listens.
DebouncedRefresh ==
    /\ indexer = "select" /\ mode = "watch" /\ debounceC /\ debounce = "armed"
    /\ debounce' = "idle" /\ indexer' = "refresh" /\ why' = "debounce"
    /\ UNCHANGED <<diskVars, errors, events, watched, mode, refreshCh, debounceC, scan, turnCounts,
                   snapVars, sync, failed>>

Tick ==
    /\ indexer = "select" /\ TickerOn
    /\ indexer' = "refresh" /\ why' = "tick"
    /\ UNCHANGED <<diskVars, errors, events, watched, mode, refreshCh, debounce, debounceC, scan,
                   turnCounts, snapVars, sync, failed>>

\* A closed channel of the watcher: the loop goes on in runPollingOnly.
WatcherCloses ==
    /\ indexer = "select" /\ mode = "watch" /\ mode' = "poll"
    /\ events' = {}
    /\ UNCHANGED <<diskVars, errors, watched, indexer, why, refreshCh, debounce, debounceC, scan,
                   turnCounts, snapVars, sync, failed>>

-----------------------------------------------------------------------------
(* The Nexus sync loop, as far as it touches the index.                    *)

\* A token of changes or the loop's ticker starts a run, which needs the first
\* scan to be over.
SyncWakes(token) ==
    /\ sync = "idle"
    /\ token => changes
    /\ changes' = (changes /\ ~token)
    /\ sync' = IF firstDone THEN "refresh" ELSE "idle"
    /\ UNCHANGED <<diskVars, errors, watchVars, scan, turnCounts, snap, lastErr, scanned,
                   firstDone, unread, taken, failed, settled>>

FreshEnough(young) == ~lastErr /\ scanned /\ young

\* RefreshIfStale under refreshMu: the last scan is young (ten minutes) or not.
SyncRefresh(young) ==
    /\ sync = "refresh" /\ scan.by = "none"
    /\ IF FreshEnough(young)
       THEN sync' = "read" /\ UNCHANGED scan
       ELSE sync' = "scan" /\ scan' = Begin("sync")
    /\ UNCHANGED <<diskVars, errors, watchVars, turnCounts, snapVars, failed>>

\* Projects and DeletedSessions copy the snapshot under mu, which a scan holds
\* while it counts.
SyncRead ==
    /\ sync = "read" /\ scan.step \notin {"stat", "read"}
    /\ sync' = "post" /\ unread' = FALSE /\ taken' = FALSE
    /\ UNCHANGED <<diskVars, errors, watchVars, scan, turnCounts, snap, lastErr, scanned,
                   firstDone, changes, settled, failed>>

\* The rest of the run posts what was read.
SyncPosted ==
    /\ sync = "post" /\ sync' = "idle" /\ failed' = FALSE
    /\ UNCHANGED <<diskVars, errors, watchVars, scan, turnCounts, snapVars>>

-----------------------------------------------------------------------------
(* The local API.                                                          *)

\* Any number of requests refresh the index: a block stream when it connects,
\* every 750 ms and for a token, the list of projects when the last scan is old,
\* a session that is looked up in vain or deleted.
ApiRefresh ==
    /\ scan.by = "none"
    /\ scan' = Begin("api")
    /\ UNCHANGED <<diskVars, errors, watchVars, turnCounts, snapVars, sync, failed>>

\* A block stream receives the token from the channel the sync loop waits for;
\* the ApiRefresh it answers with comes when the lock is free.
StreamTakes ==
    /\ changes /\ changes' = FALSE
    /\ taken' = unread
    /\ UNCHANGED <<diskVars, errors, watchVars, scan, turnCounts, snap, lastErr, scanned,
                   firstDone, unread, settled, sync, failed>>

-----------------------------------------------------------------------------
ScanStep == \/ \E u \in SUBSET Claude : ScanHomes(u)
            \/ ScanFails \/ CountRead \/ CountEnd \/ Publish \/ Notify
            \/ \E s \in Transcripts : CountStat(s)
LoopStep == \/ LoopAcquire \/ Debounce \/ DebouncedRefresh
            \/ \E m \in {"watch", "poll"} : Rewatch(m)
            \/ \E s \in Transcripts : WatcherEvent(s)
SyncStep == (\E young \in BOOLEAN : SyncRefresh(young)) \/ SyncRead \/ SyncPosted
DiskStep == \E s \in Transcripts : \/ Create(s) \/ Write(s) \/ Remove(s)
                                   \/ \E how \in {"flagged", "moved"} : Archive(s, how)

Next == \/ ScanStep \/ LoopStep \/ SyncStep \/ DiskStep
        \/ Tick \/ WatcherCloses
        \/ \E s \in Transcripts : LoseEvent(s)
        \/ \E token \in BOOLEAN : SyncWakes(token)
        \/ ApiRefresh \/ StreamTakes

Spec == Init /\ [][Next]_vars

\* The goroutines run, a refresh ends, and the timers fire.
Fairness == /\ WF_vars(ScanStep) /\ WF_vars(SyncStep)
            /\ SF_vars(LoopAcquire) /\ SF_vars(Tick)
            /\ SF_vars(Debounce) /\ SF_vars(DebouncedRefresh)
            /\ WF_vars(\E m \in {"watch", "poll"} : Rewatch(m))
            /\ SF_vars(\E s \in Transcripts : WatcherEvent(s))
FairSpec == Spec /\ Fairness

-----------------------------------------------------------------------------
(* Properties.                                                             *)

\* An event the watcher delivers makes the loop refresh after the debounce
\* ("The background indexer already refreshes on fsnotify events").
EventRefreshes ==
    (refreshCh /\ mode = "watch") ~> ((why = "debounce" /\ indexer = "refresh") \/ mode = "poll")
=============================================================================
