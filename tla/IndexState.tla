----------------------------- MODULE IndexState -----------------------------
(***************************************************************************)
(* What is on disk, what the index and the sync loop keep of it, and what  *)
(* holds of them whenever they are looked at.  SessionIndex has the steps. *)
(***************************************************************************)
EXTENDS Integers, FiniteSets

CONSTANTS
    Claude,      \* ids of Claude Code sessions, each in a project of its own
    Codex,       \* ids of Codex sessions
    MaxSize,     \* half lines of a transcript (a bound of the model)
    BootSizes,   \* half lines of the transcripts the daemon finds (a bound of the model)
    MaxEdits,    \* changes the agents make on disk (a bound of the model)
    MaxErrors,   \* reads of the disk that fail (a bound of the model)
    TickerOn     \* Config.RefreshInterval > 0

ASSUME IndexAssumption ==
    /\ {MaxSize, MaxEdits, MaxErrors} \subseteq Nat
    /\ BootSizes \subseteq 0..MaxSize
    /\ TickerOn \in BOOLEAN
    /\ IsFiniteSet(Claude)
    /\ Claude \cap Codex = {}

Transcripts == Claude \cup Codex

VARIABLES
    place,     \* session -> "none", "live", "flagged" (archived in the state database) or
               \* "moved" (in archived_sessions)
    size,      \* session -> half lines of its transcript
    edits,     \* changes made on disk
    removed,   \* sessions whose transcript was removed at some time (history)
    errors,    \* reads that failed
    events,    \* sessions with an event in the watcher's channel
    watched,   \* sessions whose directory is watched
    mode,      \* "boot", "watch" or "poll"
    indexer,   \* of Index.Start: "select", "refresh" (in Refresh) or "rewatch"
    why,       \* what the loop refreshes for: "boot", "debounce" or "tick"
    refreshCh, \* a token is in refreshCh
    debounce,  \* the timer: "nil", "armed" or "idle"
    debounceC, \* the loop's select listens to the timer
    scan,      \* the refresh under refreshMu
    turnCounts,\* Index.turnCounts: session -> size and count (none: size -1)
    snap,      \* the published snapshot
    lastErr,   \* the last scan failed
    scanned,   \* lastScan is set
    firstDone, \* firstScanDone is closed
    changes,   \* a token is in Index.changes
    sync,      \* of the sync loop: "idle", "refresh", "scan", "read" or "post"
    unread,    \* the snapshot changed since the sync loop read it
    taken,     \* a block stream took the token of that change (history)
    failed,    \* the last run of the sync loop ended in an error
    settled    \* live since before the last good scan began, and readable in it

-----------------------------------------------------------------------------
\* The types of the variables.
IndexTypeOK ==
    /\ place \in [Transcripts -> {"none", "live", "flagged", "moved"}]
    /\ size \in [Transcripts -> 0..MaxSize]
    /\ edits \in 0..MaxEdits /\ removed \subseteq Transcripts /\ errors \in 0..MaxErrors
    /\ events \subseteq Transcripts /\ watched \subseteq Transcripts
    /\ mode \in {"boot", "watch", "poll"}
    /\ indexer \in {"select", "refresh", "rewatch"} /\ why \in {"none", "boot", "debounce", "tick"}
    /\ {refreshCh, debounceC, lastErr, scanned, firstDone, changes, unread, taken, failed}
         \subseteq BOOLEAN
    /\ debounce \in {"nil", "armed", "idle"}
    /\ scan.by \in {"none", "loop", "sync", "api"}
    /\ scan.step \in {"off", "list", "stat", "read", "publish", "notify"}
    /\ scan.by = "none" <=> scan.step = "off"
    /\ \A s \in Transcripts : turnCounts[s].size \in -1..MaxSize
    /\ snap.listed \subseteq Transcripts /\ snap.deleted \subseteq Transcripts
    /\ sync \in {"idle", "refresh", "scan", "read", "post"}
    /\ sync = "scan" <=> scan.by = "sync"

\* A change of the snapshot is not left to the sync loop's ticker unless a block
\* stream of the local API took its token: while the loop waits and has not read
\* the snapshot, a token is in Changes() or on its way there, or the last one went
\* to a stream, or the run that took it failed (notifyChanged after the snapshot is
\* stored, a channel of one token with two readers).
ChangeIsSignalled ==
    unread /\ sync = "idle" => changes \/ scan.step = "notify" \/ failed \/ taken

\* The catalog the sync loop reads, which Nexus may take for the complete list,
\* comes from a good scan, and lists every session that was live and readable
\* from that scan on: neither the empty snapshot of the boot nor a failed scan
\* is ever published (FirstScanComplete, RefreshIfStale, refreshLocked).
CatalogWasScanned ==
    sync = "read" => scanned /\ settled \subseteq snap.listed

\* A cached turn count covers the lines that were complete at its size: going
\* on from the last size never loses the line that was being written then
\* (countSessionBlocksCached, canCountAppendedTail).  It does not hold of an id
\* whose transcript was removed and written anew: the cached size is that of
\* the old file.
CountCoversLines ==
    /\ IndexTypeOK
    /\ \A s \in Transcripts \ removed : turnCounts[s].size >= 0
         => turnCounts[s].count >= turnCounts[s].size \div 2
=============================================================================
