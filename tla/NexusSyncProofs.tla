-------------------------- MODULE NexusSyncProofs --------------------------
(***************************************************************************)
(* Proofs for NexusSync, for any sessions, limits and numbers of faults:   *)
(* turns that the loop remembers as synced are stored at Nexus, a catalog  *)
(* it remembers is what Nexus lists, Nexus deletes only what was not in    *)
(* the index, and a hint wakes the loop.  The second part is about the     *)
(* index of the transcripts that the loop reads, SessionIndex.             *)
(***************************************************************************)
EXTENDS NexusSync, IndexState, FiniteSetTheorems, SequenceTheorems, WellFoundedInduction, TLAPS

-----------------------------------------------------------------------------
(* Numbers.                                                                *)

LEMMA Least ==
  ASSUME NEW S \in SUBSET Nat, S # {}
  PROVE  Min(S) \in S /\ \A m \in S : Min(S) <= m
  <1>1. IsWellFoundedOn(OpToRel(<, Nat), Nat)
    BY NatLessThanWellFounded
  <1>2. PICK n \in S : \A m \in S : <<m, n>> \notin OpToRel(<, Nat)
    BY <1>1, WFMin
  <1>3. ASSUME NEW m \in S PROVE n <= m
    <2>1. m \in Nat /\ n \in Nat /\ ~(m < n)
      BY <1>2 DEF OpToRel
    <2>. QED
      BY <2>1
  <1>. QED
    BY <1>3 DEF Min

LEMMA Greatest ==
  ASSUME NEW k \in Nat, NEW S \in SUBSET (0..k), S # {}
  PROVE  Max(S) \in S /\ \A m \in S : m <= Max(S)
  <1> DEFINE T == {n \in Nat : k - n \in S}
  <1>1. \A x \in S : x \in Nat /\ x <= k /\ k - x \in T
    OBVIOUS
  <1>2. T \in SUBSET Nat /\ T # {}
    BY <1>1
  <1> HIDE DEF T
  <1>3. Min(T) \in T /\ \A m \in T : Min(T) <= m
    BY <1>2, Least
  <1> DEFINE n == Min(T)
  <1> HIDE DEF n
  <1>4. n \in T /\ \A m \in T : n <= m
    BY <1>3 DEF n
  <1> USE DEF T
  <1>5. k - n \in S /\ \A x \in S : x <= k - n
    BY <1>1, <1>4
  <1>6. \A x \in S : k - n >= x
    BY <1>5
  <1>. QED
    BY <1>5, <1>6 DEF Max

LEMMA Bounds ==
  /\ MaxTurns \in Nat /\ MaxTurns >= 1 /\ HotTurns \in Nat /\ HotTurns >= 1
  /\ InitialLimit \in Nat /\ InitialLimit >= 1 /\ HintLimit \in Nat /\ HintLimit >= 1
  BY SyncAssumption

LEMMA SeqsFinite ==
  ASSUME NEW S \in SUBSET Seqs
  PROVE  IsFiniteSet(S) /\ Cardinality(S) \in Nat
  <1>1. IsFiniteSet(Seqs)
    BY FS_Interval, Bounds DEF Seqs
  <1>. QED
    BY <1>1, FS_Subset, FS_CardinalityType

-----------------------------------------------------------------------------
(* Windows.                                                                *)

Versions == {Absent, 0, 1}
Copies   == [Seqs -> Versions]
HintMaps == UNION {[S -> Wins] : S \in SUBSET Sessions}

\* A window from min to max, without gaps.
Solid(w) == /\ \A q \in Seqs : w.turns[q] # Absent <=> w.min <= q /\ q <= w.max
            /\ w.max # 0 => 1 <= w.min /\ w.min <= w.max

LEMMA NoTurnsType == NoTurns \in Copies /\ NoWin \in Wins /\ Solid(NoWin)
  <1>1. NoTurns \in Copies
    BY DEF NoTurns, Copies, Versions
  <1>2. 0 \in 0..MaxTurns /\ \A q \in Seqs : q \in Int /\ ~(q <= 0)
    BY Bounds DEF Seqs
  <1>. QED
    BY <1>1, <1>2 DEF NoWin, Wins, Copies, Versions, Solid, NoTurns, Absent

LEMMA EmptyMap == <<>> \in HintMaps /\ DOMAIN <<>> = {}
  <1>1. <<>> \in [{} -> Wins]
    OBVIOUS
  <1>. QED
    BY <1>1 DEF HintMaps

LEMMA HintMap ==
  ASSUME NEW h \in HintMaps
  PROVE  /\ DOMAIN h \subseteq Sessions /\ h \in [DOMAIN h -> Wins]
         /\ \A s \in DOMAIN h : h[s] \in Wins
  BY DEF HintMaps

LEMMA HintMapType ==
  ASSUME NEW S \in SUBSET Sessions, NEW h \in [S -> Wins]
  PROVE  h \in HintMaps
  BY DEF HintMaps

Disks == [place : {None, "live", "archived", "gone"}, turns : Seq({0, 1}), title : {0, 1}]
DiskTypes == /\ disk \in [Sessions -> Disks]
             /\ \A s \in Sessions : Len(disk[s].turns) <= MaxTurns

LEMMA WindowType ==
  ASSUME DiskTypes, NEW s \in Sessions, NEW limit \in Nat, limit >= 1
  PROVE  Window(s, limit) \in Wins /\ Solid(Window(s, limit))
  <1> DEFINE n  == Len(Blocks(s))
             lo == Max({1, n - limit + 1})
  <1>1. /\ Blocks(s) \in Seq({0, 1}) /\ n \in Nat /\ n <= MaxTurns
        /\ \A q \in 1..n : Blocks(s)[q] \in {0, 1}
    BY LenProperties, ElementOfSeq DEF DiskTypes, Disks, Blocks
  <1>2. CASE n = 0
    BY <1>2, NoTurnsType DEF Window
  <1>3. CASE n # 0
    <2>1. lo \in 1..n
      <3>1. n \in Nat \ {0}
        BY <1>1, <1>3
      <3> HIDE DEF n
      <3>2. CASE n - limit + 1 >= 1
        <4>1. {1, n - limit + 1} \in SUBSET (0..n) /\ {1, n - limit + 1} # {}
          BY <3>1, <3>2
        <4>2. lo \in {1, n - limit + 1} /\ \A m \in {1, n - limit + 1} : m <= lo
          BY <3>1, <4>1, Greatest
        <4> HIDE DEF lo
        <4>. QED
          BY <3>1, <4>2
      <3>3. CASE n - limit + 1 < 1
        <4>1. \A x \in {1, n - limit + 1} : 1 >= x
          BY <3>1, <3>3
        <4>2. \A y \in {1, n - limit + 1} : (\A x \in {1, n - limit + 1} : y >= x) => y = 1
          BY <3>1, <3>3
        <4>3. lo = 1
          BY <4>1, <4>2 DEF Max
        <4>. QED
          BY <3>1, <4>3
      <3>. QED
        BY <3>1, <3>2, <3>3
    <2>2. Window(s, limit) =
            [min |-> lo, max |-> n,
             turns |-> [q \in Seqs |-> IF lo <= q /\ q <= n THEN Blocks(s)[q] ELSE Absent]]
      BY <1>3 DEF Window
    <2> HIDE DEF lo
    <2> DEFINE ts == [q \in Seqs |-> IF lo <= q /\ q <= n THEN Blocks(s)[q] ELSE Absent]
    <2>3. \A q \in Seqs : /\ ts[q] \in Versions
                          /\ ts[q] # Absent <=> lo <= q /\ q <= n
      BY <1>1, <2>1, Bounds DEF Versions, Absent, Seqs
    <2>4. ts \in Copies
      BY <2>3 DEF Copies
    <2> HIDE DEF ts
    <2>5. Window(s, limit) = [min |-> lo, max |-> n, turns |-> ts]
      BY <2>2 DEF ts
    <2> HIDE DEF n
    <2>6. lo \in 0..MaxTurns /\ n \in 0..MaxTurns /\ 1 <= lo /\ lo <= n
      BY <1>1, <2>1, Bounds
    <2>. QED
      BY <2>3, <2>4, <2>5, <2>6 DEF Wins, Copies, Versions, Solid
  <1>. QED
    BY <1>2, <1>3

LEMMA TrimmedType ==
  ASSUME NEW w \in Wins, Solid(w), NEW k \in Wins
  PROVE  /\ Trimmed(w, k) \in Wins
         /\ \A q \in Seqs : Trimmed(w, k).turns[q] # Absent => Trimmed(w, k).turns[q] = w.turns[q]
         /\ \/ Trimmed(w, k) = w
            \/ /\ Trimmed(w, k) # w
               /\ \A q \in Seqs : w.turns[q] # Absent /\ Trimmed(w, k).turns[q] = Absent =>
                                     q <= k.max
  <1> DEFINE rest == {q \in Seqs : w.turns[q] # Absent /\ q > k.max}
             ts == [q \in Seqs |-> IF q \in rest THEN w.turns[q] ELSE Absent]
             t == [min |-> Min(rest), max |-> Max(rest), turns |-> ts]
  <1>1. CASE k.max = 0 \/ k.max < w.min \/ rest = {}
    <2>1. Trimmed(w, k) = w
      BY <1>1 DEF Trimmed
    <2>. QED
      BY <2>1
  <1>2. CASE ~(k.max = 0 \/ k.max < w.min \/ rest = {})
    <2>1. Trimmed(w, k) = t
      BY <1>2 DEF Trimmed
    <2>2. rest \in SUBSET Nat /\ rest \in SUBSET (0..MaxTurns) /\ rest # {} /\ MaxTurns \in Nat
      BY <1>2, Bounds DEF Seqs
    <2>3. k.max \in Nat /\ w.min \in Nat /\ w.max \in Nat
      BY DEF Wins
    <2>4. \A q \in rest : w.min <= q /\ q > k.max /\ q \in Seqs
      BY <1>2 DEF Solid
    <2>5. \A q \in Seqs : /\ ts[q] \in Versions /\ (ts[q] # Absent => ts[q] = w.turns[q])
                          /\ w.turns[q] # Absent /\ ts[q] = Absent => ~(q > k.max)
      BY DEF Wins, Versions
    <2> HIDE DEF rest
    <2>6. Min(rest) \in rest /\ Max(rest) \in rest
      BY <2>2, Least, Greatest
    <2>7. ts \in Copies
      BY <2>5 DEF Copies
    <2> HIDE DEF ts
    <2>8. t \in Wins
      BY <2>2, <2>6, <2>7 DEF Wins, Copies, Versions
    <2>9. t.min # w.min
      <3>1. ~(k.max < w.min) /\ Min(rest) > k.max
        BY <1>2, <2>4, <2>6
      <3>. QED
        BY <2>3, <3>1
    <2>10. \A q \in Seqs : q \in Nat
      BY Bounds DEF Seqs
    <2>. QED
      BY <2>1, <2>3, <2>5, <2>8, <2>9, <2>10
  <1>. QED
    BY <1>1, <1>2

-----------------------------------------------------------------------------
(* What Nexus stores.                                                      *)

NexusOK(nx) ==
    /\ nx \in [known : SUBSET Sessions, turns : [Sessions -> Copies], opened : SUBSET Sessions]
    /\ nx.opened \subseteq nx.known
    /\ \A s \in Sessions : Stored(nx, s) # {} => s \in nx.known

LEMMA ServerWindowType ==
  ASSUME NEW nx, NexusOK(nx), NEW s \in Sessions
  PROVE  /\ ServerWindow(nx, s) \in Wins /\ Solid(ServerWindow(nx, s))
         /\ \A q \in Seqs : ServerWindow(nx, s).turns[q] # Absent => q \in Stored(nx, s)
  <1> DEFINE stored == Stored(nx, s)
             max == Max(stored)
             starts == {q \in 1..max : q..max \subseteq stored}
             min == Min(starts)
             ts == [q \in Seqs |-> IF q \in min..max THEN nx.turns[s][q] ELSE Absent]
  <1>1. CASE stored = {}
    <2>1. ServerWindow(nx, s) = NoWin
      BY <1>1 DEF ServerWindow
    <2>2. \A q \in Seqs : NoWin.turns[q] = Absent
      BY DEF NoWin, NoTurns
    <2>. QED
      BY <2>1, <2>2, NoTurnsType
  <1>2. CASE stored # {}
    <2>1. ServerWindow(nx, s) = [min |-> min, max |-> max, turns |-> ts]
      BY <1>2 DEF ServerWindow
    <2>2. stored \in SUBSET (0..MaxTurns) /\ stored \subseteq Seqs /\ MaxTurns \in Nat
      BY Bounds DEF Stored, Seqs
    <2>3. /\ nx.turns[s] \in Copies
          /\ \A q \in Seqs : nx.turns[s][q] \in Versions /\ (q \in stored <=> nx.turns[s][q] # Absent)
      BY DEF NexusOK, Stored, Copies
    <2> HIDE DEF stored
    <2>4. max \in stored /\ max \in Seqs
      BY <1>2, <2>2, Greatest
    <2>5. max \in 1..MaxTurns
      BY <2>4 DEF Seqs
    <2> HIDE DEF max
    <2>6. max \in starts /\ starts \in SUBSET Nat
      BY <2>4, <2>5, Bounds
    <2>7. min \in starts
      BY <2>6, Least
    <2>8. min \in 1..max /\ min..max \subseteq stored
      BY <2>7
    <2> HIDE DEF starts, min
    <2>9. \A q \in Seqs : /\ ts[q] \in Versions
                          /\ ts[q] # Absent <=> min <= q /\ q <= max
                          /\ ts[q] # Absent => q \in stored
      <3>1. ASSUME NEW q \in Seqs
            PROVE  /\ ts[q] \in Versions
                   /\ ts[q] # Absent <=> min <= q /\ q <= max
                   /\ ts[q] # Absent => q \in stored
        <4>1. q \in Int /\ min \in Int /\ max \in Int
          BY <2>5, <2>8, Bounds DEF Seqs
        <4>2. CASE q \in min..max
          BY <2>3, <2>8, <4>1, <4>2
        <4>3. CASE q \notin min..max
          BY <4>1, <4>3 DEF Versions
        <4>. QED
          BY <4>2, <4>3
      <3>. QED
        BY <3>1
    <2>10. ts \in Copies
      BY <2>9 DEF Copies
    <2> HIDE DEF ts
    <2>11. min \in 0..MaxTurns /\ max \in 0..MaxTurns /\ 1 <= min /\ min <= max
      BY <2>5, <2>8, Bounds
    <2>. QED
      BY <2>1, <2>9, <2>10, <2>11 DEF Wins, Copies, Versions, Solid, stored
  <1>. QED
    BY <1>1, <1>2

Newer(S, q) == {r \in S : r > q}

LEMMA NewerGrows ==
  ASSUME NEW S \in SUBSET Seqs, NEW T \in SUBSET Seqs, NEW q \in Seqs,
         Newer(S, q) \subseteq T, Cardinality(Newer(S, q)) >= HotTurns
  PROVE  Cardinality(Newer(T, q)) >= HotTurns
  <1>1. Newer(S, q) \subseteq Newer(T, q) /\ Newer(S, q) \in SUBSET Seqs /\ Newer(T, q) \in SUBSET Seqs
    BY DEF Newer
  <1>2. /\ Cardinality(Newer(S, q)) <= Cardinality(Newer(T, q))
        /\ Cardinality(Newer(S, q)) \in Nat /\ Cardinality(Newer(T, q)) \in Nat
    BY <1>1, SeqsFinite, FS_Subset
  <1>. QED
    BY <1>2, Bounds

\* What pruning takes away gave way to newer turns that are kept.
LEMMA PruningKeeps ==
  ASSUME NEW ts \in Copies, NEW M, M = {q \in Seqs : ts[q] # Absent},
         NEW K, K = {q \in Seqs : Pruned(ts)[q] # Absent}
  PROVE  /\ Pruned(ts) \in Copies /\ K \subseteq M
         /\ \A q \in Seqs : q \in M \/ Cardinality(Newer(M, q)) >= HotTurns =>
                               q \in K \/ Cardinality(Newer(K, q)) >= HotTurns
  <1> DEFINE kept == {q \in Seqs : ts[q] # Absent
                        /\ Cardinality({r \in Seqs : r > q /\ ts[r] # Absent}) < HotTurns}
  <1>1. Pruned(ts) = [q \in Seqs |-> IF q \in kept THEN ts[q] ELSE Absent]
    BY DEF Pruned
  <1>2. \A q \in Seqs : ts[q] \in Versions
    BY DEF Copies
  <1>3. Pruned(ts) \in Copies
    <2> HIDE DEF kept
    <2>. QED
      BY <1>1, <1>2 DEF Copies, Versions
  <1>4. K = kept
    BY <1>1
  <1>5. \A q \in Seqs : {r \in Seqs : r > q /\ ts[r] # Absent} = Newer(M, q)
    BY DEF Newer
  <1>6. K \subseteq M /\ M \subseteq Seqs /\ \A q \in M : q \notin K => Cardinality(Newer(M, q)) >= HotTurns
    <2>1. ASSUME NEW q \in M, q \notin K PROVE Cardinality(Newer(M, q)) >= HotTurns
      <3>1. q \in Seqs /\ ~(Cardinality(Newer(M, q)) < HotTurns)
        BY <1>4, <1>5, <2>1
      <3>2. Cardinality(Newer(M, q)) \in Nat
        BY SeqsFinite DEF Newer
      <3>. QED
        BY <3>1, <3>2, Bounds
    <2>. QED
      BY <1>4, <2>1
  <1> HIDE DEF kept
  <1>7. ASSUME NEW q \in Seqs, Cardinality(Newer(M, q)) >= HotTurns
        PROVE  Cardinality(Newer(K, q)) >= HotTurns
    <2> DEFINE gone == Newer(M, q) \ K
    <2>1. CASE gone = {}
      BY <1>6, <1>7, <2>1, NewerGrows
    <2>2. CASE gone # {}
      <3>1. gone \in SUBSET (0..MaxTurns) /\ MaxTurns \in Nat
        BY <1>6, Bounds DEF Newer, Seqs
      <3> HIDE DEF gone
      <3>2. Max(gone) \in gone /\ \A m \in gone : m <= Max(gone)
        BY <2>2, <3>1, Greatest
      <3> DEFINE m == Max(gone)
      <3> HIDE DEF m
      <3>3. m \in gone /\ \A r \in gone : r <= m
        BY <3>2 DEF m
      <3> USE DEF gone
      <3>4. m \in M /\ m \notin K /\ m > q /\ m \in Seqs
        BY <1>6, <3>3 DEF Newer
      <3>5. Cardinality(Newer(M, m)) >= HotTurns
        BY <1>6, <3>4
      <3>6. \A r \in Newer(M, m) : r \in K /\ r > q
        <4>1. ASSUME NEW r \in Newer(M, m) PROVE r \in K /\ r > q
          <5>1. r \in M /\ r > m /\ r \in Int /\ m \in Int /\ q \in Int
            BY <1>6, <3>4, <4>1, Bounds DEF Newer, Seqs
          <5>2. r > q
            BY <3>4, <5>1
          <5>3. r \notin gone
            BY <3>3, <5>1
          <5>. QED
            BY <5>1, <5>2, <5>3 DEF Newer
        <4>. QED
          BY <4>1
      <3>7. Newer(M, m) \subseteq Newer(K, q)
        BY <3>6 DEF Newer
      <3>8. /\ Newer(M, m) \in SUBSET Seqs /\ Newer(K, q) \in SUBSET Seqs
        BY <1>6 DEF Newer
      <3>9. /\ Cardinality(Newer(M, m)) <= Cardinality(Newer(K, q))
            /\ Cardinality(Newer(M, m)) \in Nat /\ Cardinality(Newer(K, q)) \in Nat
        BY <3>7, <3>8, SeqsFinite, FS_Subset
      <3>. QED
        BY <3>5, <3>9, Bounds
    <2>. QED
      BY <2>1, <2>2
  <1>. QED
    BY <1>3, <1>6, <1>7

-----------------------------------------------------------------------------
(* Requests and what they do to what is stored.                            *)

\* A catalog lists sessions of the index, all of them when it is complete, and
\* no tombstone is listed.
IsCatalog(r) == /\ r.kind = "catalog"
                /\ r.base \subseteq Sessions /\ r.sessions \subseteq r.base
                /\ r.deleted \subseteq Sessions /\ r.deleted \cap r.base = {}
                /\ r.full \in BOOLEAN /\ (r.full => r.sessions = r.base)
                /\ r.ids \subseteq Sessions
IsProbe(r)   == r.kind = "probe" /\ r.ids \subseteq Sessions
IsWindow(r)  == r.kind = "window" /\ r.s \in Sessions /\ r.win \in Wins /\ r.sig \in Wins
IsRequest(r) == IsCatalog(r) \/ IsProbe(r) \/ IsWindow(r)

LEMMA BackedNewer ==
  ASSUME NEW nx, NEW s, NEW ts
  PROVE  Backed(nx, s, ts) <=>
            \A q \in Seqs : ts[q] # Absent =>
               q \in Stored(nx, s) \/ Cardinality(Newer(Stored(nx, s), q)) >= HotTurns
  BY DEF Backed, Newer

LEMMA CatalogEffect ==
  ASSUME NEW nx, NexusOK(nx), NEW r, IsCatalog(r), NEW nx2, nx2 = Processed(nx, r)
  PROVE  /\ NexusOK(nx2)
         /\ \A s \in Sessions : s \notin Lost(nx, r) => nx2.turns[s] = nx.turns[s]
         /\ nx2.known = (nx.known \ Removed(nx, r)) \cup r.sessions
         /\ Lost(nx, r) = Removed(nx, r)
  <1> DEFINE gone == Removed(nx, r)
             ts == [s \in Sessions |-> IF s \in gone THEN NoTurns ELSE nx.turns[s]]
  <1>1. Lost(nx, r) = gone /\ Processed(nx, r) = AfterCatalog(nx, r)
    BY DEF Lost, Processed, IsCatalog
  <1>2. /\ nx.turns \in [Sessions -> Copies] /\ nx.known \subseteq Sessions
        /\ nx.opened \subseteq nx.known
        /\ r.sessions \subseteq Sessions
    BY DEF NexusOK, IsCatalog
  <1>3. nx2 = [known |-> (nx.known \ gone) \cup r.sessions, turns |-> ts,
               opened |-> nx.opened \ gone]
    BY <1>1 DEF AfterCatalog, NexusOK
  <1> HIDE DEF gone
  <1>4. ts \in [Sessions -> Copies] /\ \A s \in Sessions : s \notin gone => ts[s] = nx.turns[s]
    BY <1>2, NoTurnsType
  <1>5. \A s \in Sessions : s \in gone => ts[s] = NoTurns
    OBVIOUS
  <1>6. \A q \in Seqs : NoTurns[q] = Absent
    BY DEF NoTurns
  <1> HIDE DEF ts
  <1>7. ASSUME NEW s \in Sessions, Stored(nx2, s) # {} PROVE s \in nx2.known
    <2>1. s \notin gone
      BY <1>3, <1>5, <1>6, <1>7 DEF Stored
    <2>2. Stored(nx, s) # {}
      BY <1>3, <1>4, <1>7, <2>1 DEF Stored
    <2>. QED
      BY <1>3, <2>1, <2>2 DEF NexusOK
  <1>. QED
    BY <1>1, <1>2, <1>3, <1>4, <1>7 DEF NexusOK, gone

LEMMA WindowEffect ==
  ASSUME NEW nx, NexusOK(nx), NEW r, IsWindow(r), NEW nx2, nx2 = Processed(nx, r)
  PROVE  /\ NexusOK(nx2)
         /\ \A s \in Sessions : s # r.s => nx2.turns[s] = nx.turns[s]
         /\ nx2.known = nx.known \/ nx2.known = nx.known \cup {r.s}
         /\ Lost(nx, r) \in {{}, {r.s}}
         /\ Lost(nx, r) = {r.s} => nx2.turns = nx.turns
         /\ Lost(nx, r) = {} => Backed(nx2, r.s, r.win.turns)
         /\ \A ts : Backed(nx, r.s, ts) => Backed(nx2, r.s, ts)
  <1>1. /\ nx.turns \in [Sessions -> Copies] /\ nx.known \subseteq Sessions
        /\ nx.opened \subseteq nx.known
        /\ r.s \in Sessions /\ r.win \in Wins /\ r.win.turns \in Copies
    BY DEF NexusOK, IsWindow, Wins, Copies, Versions
  <1>2. Lost(nx, r) = IF OpenedBackfill(nx, r) THEN {r.s} ELSE {}
    BY DEF Lost, IsWindow
  <1>3. Processed(nx, r) = AfterWindow(nx, r)
    BY DEF Processed, IsWindow
  <1>4. CASE OpenedBackfill(nx, r)
    <2>1. nx2 = [nx EXCEPT !.opened = @ \ {r.s}]
      BY <1>3, <1>4 DEF AfterWindow
    <2>2. nx2.turns = nx.turns /\ nx2.known = nx.known /\ nx2.opened = nx.opened \ {r.s}
      BY <2>1 DEF NexusOK
    <2>3. \A s : Stored(nx2, s) = Stored(nx, s)
      BY <2>2 DEF Stored
    <2>4. NexusOK(nx2)
      BY <2>1, <2>2, <2>3 DEF NexusOK
    <2>5. \A ts : Backed(nx, r.s, ts) => Backed(nx2, r.s, ts)
      BY <2>3 DEF Backed
    <2>. QED
      BY <1>2, <1>4, <2>2, <2>4, <2>5
  <1>5. CASE ~OpenedBackfill(nx, r)
    <2> DEFINE old == nx.turns[r.s]
               all == [q \in Seqs |-> IF r.win.turns[q] # Absent THEN r.win.turns[q] ELSE old[q]]
               M == {q \in Seqs : all[q] # Absent}
               K == {q \in Seqs : Pruned(all)[q] # Absent}
    <2>1. nx2 = [nx EXCEPT !.known = @ \cup {r.s}, !.turns[r.s] = Pruned(all)]
      BY <1>3, <1>5 DEF AfterWindow
    <2>2. all \in Copies
      BY <1>1 DEF Copies
    <2>3. \A q \in Seqs : (q \in Stored(nx, r.s) => q \in M) /\ (r.win.turns[q] # Absent => q \in M)
      BY DEF Stored
    <2> HIDE DEF all
    <2>4. /\ Pruned(all) \in Copies /\ K \subseteq M
          /\ \A q \in Seqs : q \in M \/ Cardinality(Newer(M, q)) >= HotTurns =>
                                q \in K \/ Cardinality(Newer(K, q)) >= HotTurns
      BY <2>2, PruningKeeps
    <2>5. /\ nx2.known = nx.known \cup {r.s} /\ nx2.opened = nx.opened
          /\ nx2.turns = [nx.turns EXCEPT ![r.s] = Pruned(all)]
          /\ nx2 \in [known : SUBSET Sessions, turns : [Sessions -> Copies], opened : SUBSET Sessions]
      <3> DEFINE p == Pruned(all)
                 tt == [nx.turns EXCEPT ![r.s] = p]
      <3>1. p \in Copies
        BY <2>4
      <3> HIDE DEF p
      <3>2. tt \in [Sessions -> Copies]
        BY <1>1, <3>1
      <3> HIDE DEF tt
      <3>3. nx2 = [known |-> nx.known \cup {r.s}, turns |-> tt, opened |-> nx.opened]
        BY <2>1 DEF NexusOK, tt, p
      <3>4. nx.opened \subseteq Sessions
        BY <1>1
      <3>. QED
        BY <1>1, <3>2, <3>3, <3>4 DEF tt, p
    <2>6. nx2.turns[r.s] = Pruned(all) /\ \A s \in Sessions : s # r.s => nx2.turns[s] = nx.turns[s]
      BY <1>1, <2>5
    <2>7. Stored(nx2, r.s) = K
      BY <2>6 DEF Stored
    <2>8. NexusOK(nx2)
      <3>1. ASSUME NEW s \in Sessions, Stored(nx2, s) # {} PROVE s \in nx2.known
        BY <2>5, <2>6, <3>1 DEF NexusOK, Stored
      <3>. QED
        BY <1>1, <2>5, <3>1 DEF NexusOK
    <2>9. ASSUME NEW ts, Backed(nx, r.s, ts) PROVE Backed(nx2, r.s, ts)
      <3>1. ASSUME NEW q \in Seqs, ts[q] # Absent
            PROVE  q \in K \/ Cardinality(Newer(K, q)) >= HotTurns
        <4>1. q \in Stored(nx, r.s) \/ Cardinality(Newer(Stored(nx, r.s), q)) >= HotTurns
          BY <2>9, <3>1, BackedNewer
        <4>2. Stored(nx, r.s) \in SUBSET Seqs /\ M \in SUBSET Seqs
          BY DEF Stored
        <4>3. Newer(Stored(nx, r.s), q) \subseteq M
          BY <2>3, <4>2 DEF Newer
        <4>4. q \in M \/ Cardinality(Newer(M, q)) >= HotTurns
          BY <2>3, <4>1, <4>2, <4>3, NewerGrows
        <4>. QED
          BY <2>4, <4>4
      <3>. QED
        BY <2>7, <3>1, BackedNewer
    <2>10. Backed(nx2, r.s, r.win.turns)
      <3>1. ASSUME NEW q \in Seqs, r.win.turns[q] # Absent
            PROVE  q \in K \/ Cardinality(Newer(K, q)) >= HotTurns
        BY <2>3, <2>4, <3>1
      <3>. QED
        BY <2>7, <3>1, BackedNewer
    <2>. QED
      BY <1>2, <1>5, <2>5, <2>6, <2>8, <2>9, <2>10
  <1>. QED
    BY <1>4, <1>5

\* A request leaves what Nexus has of a session in place, unless it removes it.
LEMMA Effect ==
  ASSUME NEW nx, NexusOK(nx), NEW r, IsRequest(r), NEW nx2, nx2 = Processed(nx, r)
  PROVE  /\ NexusOK(nx2)
         /\ \A s \in Sessions \ Lost(nx, r) : \A ts : Backed(nx, s, ts) => Backed(nx2, s, ts)
  <1>1. CASE IsCatalog(r)
    <2>1. /\ NexusOK(nx2)
          /\ \A s \in Sessions : s \notin Lost(nx, r) => nx2.turns[s] = nx.turns[s]
      BY <1>1, CatalogEffect
    <2>2. \A s \in Sessions \ Lost(nx, r) : Stored(nx2, s) = Stored(nx, s)
      BY <2>1 DEF Stored
    <2>. QED
      BY <2>1, <2>2 DEF Backed
  <1>2. CASE IsProbe(r)
    <2>1. nx2 = nx
      BY <1>2 DEF IsProbe, Processed
    <2>. QED
      BY <2>1
  <1>3. CASE IsWindow(r)
    <2>1. /\ NexusOK(nx2)
          /\ \A s \in Sessions : s # r.s => nx2.turns[s] = nx.turns[s]
          /\ \A ts : Backed(nx, r.s, ts) => Backed(nx2, r.s, ts)
      BY <1>3, WindowEffect
    <2>2. \A s \in Sessions : s # r.s => Stored(nx2, s) = Stored(nx, s)
      BY <2>1 DEF Stored
    <2>3. \A s \in Sessions : \A ts : Backed(nx, s, ts) => Backed(nx2, s, ts)
      BY <2>1, <2>2 DEF Backed
    <2>. QED
      BY <2>1, <2>3
  <1>. QED
    BY <1>1, <1>2, <1>3 DEF IsRequest

-----------------------------------------------------------------------------
(* The types.                                                              *)

Loops == [pc : {"idle", "catalog", "probe", "windows", "window"}, todo : SUBSET Sessions,
          hints : HintMaps, known : HintMaps, failed : BOOLEAN]

IndexOK == /\ idx.listed \subseteq Sessions /\ idx.deleted \subseteq Sessions
           /\ idx.listed \cap idx.deleted = {}

\* The loop waits for the call that its place says.
CallsOK ==
    /\ DOMAIN calls = Callers
    /\ \A c \in Callers : calls[c] = NoReq \/ IsRequest(calls[c])
    /\ \A r \in late : IsRequest(r)
    /\ loop.pc \in {"idle", "windows"} <=> calls["loop"] = NoReq
    /\ loop.pc = "catalog" => IsCatalog(calls["loop"])
    /\ loop.pc = "probe" => IsProbe(calls["loop"])
    /\ loop.pc = "window" => IsWindow(calls["loop"]) /\ calls["loop"].s \in loop.todo

MemoryOK == /\ hints \in HintMaps /\ wake \in BOOLEAN /\ waking \in BOOLEAN
            /\ synced \in [Sessions -> Wins \cup {NoSync}]

Types == /\ DiskTypes /\ IndexOK /\ MemoryOK /\ CallsOK
         /\ loop \in Loops /\ NexusOK(nexus)

LEMMA TypesOK == Types => TypeOK
  <1> SUFFICES ASSUME Types PROVE TypeOK
    OBVIOUS
  <1>1. \A s \in Sessions : /\ disk[s].place \in {None, "live", "archived", "gone"}
                            /\ Len(disk[s].turns) <= MaxTurns
    BY DEF Types, DiskTypes, Disks
  <1>2. DOMAIN hints \subseteq Sessions /\ \A s \in DOMAIN hints : hints[s] \in Wins
    BY HintMap DEF Types, MemoryOK
  <1>3. \A s \in Sessions : synced[s] = NoSync \/ synced[s] \in Wins
    BY DEF Types, MemoryOK
  <1>4. /\ loop.pc \in {"idle", "catalog", "probe", "windows", "window"} /\ loop.failed \in BOOLEAN
        /\ loop.pc \in {"idle", "windows"} <=> ~Calling("loop")
    BY DEF Types, Loops, CallsOK, Calling
  <1>5. /\ nexus.known \subseteq Sessions /\ nexus.opened \subseteq nexus.known
        /\ \A s \in Sessions : Stored(nexus, s) # {} => s \in nexus.known
    BY DEF Types, NexusOK
  <1>. QED
    BY <1>1, <1>2, <1>3, <1>4, <1>5 DEF TypeOK, Types, MemoryOK, IndexOK

LEMMA IdleType == Idle \in Loops /\ Idle.pc = "idle" /\ Idle.todo = {} /\ Idle.failed = FALSE
  BY EmptyMap DEF Idle, Loops

\* Going on with the sessions left keeps what is known of them.
LEMMA ContinueType ==
  ASSUME NEW l \in Loops
  PROVE  /\ Continue(l) \in Loops /\ Continue(l).pc \in {"idle", "windows"}
         /\ Continue(l).todo = l.todo
         /\ l.todo # {} => Continue(l).hints = l.hints /\ Continue(l).known = l.known
  <1>1. CASE l.todo = {}
    BY <1>1, IdleType DEF Continue
  <1>2. CASE l.todo # {}
    <2>1. Continue(l) = [l EXCEPT !.pc = "windows"]
      BY <1>2 DEF Continue
    <2>. QED
      BY <2>1 DEF Loops
  <1>. QED
    BY <1>1, <1>2

LEMMA DoneType ==
  ASSUME loop \in Loops, NEW s, Done(s)
  PROVE  /\ loop' \in Loops /\ loop'.pc \in {"idle", "windows"}
         /\ loop'.todo = loop.todo \ {s}
         /\ loop'.todo # {} => loop'.hints = loop.hints /\ loop'.known = loop.known
  <1> DEFINE l == [loop EXCEPT !.todo = @ \ {s}]
  <1>1. /\ l \in Loops /\ l.todo = loop.todo \ {s} /\ l.hints = loop.hints
        /\ l.known = loop.known
    BY DEF Loops
  <1>2. loop' = Continue(l)
    BY DEF Done
  <1> HIDE DEF l
  <1>. QED
    BY <1>1, <1>2, ContinueType

\* A hint keeps its turns when it grows.
LEMMA MergeType ==
  ASSUME hints \in HintMaps, NEW s \in Sessions, NEW w \in Wins
  PROVE  /\ MergedHints(s, w) \in HintMaps /\ DOMAIN MergedHints(s, w) = DOMAIN hints
         /\ \A t \in DOMAIN hints : MergedHints(s, w)[t].turns = hints[t].turns
  <1>1. CASE s \notin DOMAIN hints
    BY <1>1 DEF MergedHints
  <1>2. CASE s \in DOMAIN hints
    <2> DEFINE lo == IF w.min > 0 /\ (hints[s].min = 0 \/ w.min < hints[s].min)
                     THEN w.min ELSE hints[s].min
               hi == Max({hints[s].max, w.max})
               h  == [hints EXCEPT ![s].min = lo, ![s].max = hi]
    <2>1. hints \in [DOMAIN hints -> Wins] /\ DOMAIN hints \subseteq Sessions /\ hints[s] \in Wins
      BY <1>2, HintMap
    <2>2. lo \in 0..MaxTurns /\ hints[s].max \in 0..MaxTurns /\ w.max \in 0..MaxTurns
      BY <2>1 DEF Wins
    <2>3. hi \in 0..MaxTurns
      <3>1. {hints[s].max, w.max} \in SUBSET (0..MaxTurns) /\ {hints[s].max, w.max} # {}
        BY <2>2
      <3>. QED
        BY <3>1, Greatest, Bounds
    <2>4. MergedHints(s, w) = h
      BY <1>2 DEF MergedHints
    <2> HIDE DEF lo, hi
    <2>5. h \in [DOMAIN hints -> Wins] /\ \A t \in DOMAIN hints : h[t].turns = hints[t].turns
      BY <2>1, <2>2, <2>3 DEF Wins
    <2>. QED
      BY <2>1, <2>4, <2>5, HintMapType
  <1>. QED
    BY <1>1, <1>2

LEMMA SnapshotOK == /\ Snapshot.listed \subseteq Sessions /\ Snapshot.deleted \subseteq Sessions
                    /\ Snapshot.listed \cap Snapshot.deleted = {}
  BY DEF Snapshot, Listed, Tombstones

LEMMA Emitted ==
  ASSUME IndexOK, NEW emitted \in CatalogSessions(idx), NEW ids \in Candidates
  PROVE  /\ ids \subseteq Sessions /\ IsCatalog(CatalogReq(idx, emitted, ids))
         /\ IsProbe(ProbeReq(ids))
  <1>1. emitted \subseteq idx.listed
    BY DEF CatalogSessions, kSubset
  <1>2. ids \subseteq Sessions
    BY DEF Candidates, IndexOK
  <1>. QED
    BY <1>1, <1>2 DEF IsCatalog, CatalogReq, IsProbe, ProbeReq, IndexOK

LEMMA KnownType ==
  ASSUME NEW nx, NexusOK(nx), NEW r, IsCatalog(r) \/ IsProbe(r)
  PROVE  /\ KnownWindows(nx, r) \in HintMaps
         /\ \A s \in DOMAIN KnownWindows(nx, r) :
               s \in Sessions /\ KnownWindows(nx, r)[s] = ServerWindow(nx, s)
  <1> DEFINE S == {t \in r.ids \cap nx.known : Stored(nx, t) # {}}
  <1>1. KnownWindows(nx, r) = [s \in S |-> ServerWindow(nx, s)]
    BY DEF KnownWindows, IsCatalog, IsProbe
  <1>2. S \subseteq Sessions
    BY DEF IsCatalog, IsProbe
  <1>3. \A s \in S : ServerWindow(nx, s) \in Wins
    BY <1>2, ServerWindowType
  <1> HIDE DEF S
  <1>4. [s \in S |-> ServerWindow(nx, s)] \in [S -> Wins]
    BY <1>3
  <1>. QED
    BY <1>1, <1>2, <1>4, HintMapType

LEMMA DiskStepType ==
  ASSUME DiskTypes, NEW s \in Sessions,
         Create(s) \/ Append_(s) \/ Fuse(s) \/ Retitle(s) \/ Delete(s) \/ Archive(s)
  PROVE  DiskTypes'
  <1> DEFINE d == disk[s]
  <1>1. /\ disk \in [Sessions -> Disks] /\ d \in Disks /\ Len(d.turns) <= MaxTurns
        /\ d.turns \in Seq({0, 1}) /\ Len(d.turns) \in Nat
    BY LenProperties DEF DiskTypes, Disks
  <1>2. \A x \in Disks : Len(x.turns) <= MaxTurns /\ disk' = [disk EXCEPT ![s] = x] => DiskTypes'
    BY <1>1 DEF DiskTypes
  <1>3. /\ <<>> \in Seq({0, 1}) /\ Len(<<>>) = 0 /\ <<0>> \in Seq({0, 1}) /\ Len(<<0>>) = 1
        /\ Len(<<>>) <= MaxTurns /\ Len(<<0>>) <= MaxTurns
    BY Bounds
  <1>4. CASE Create(s)
    <2>1. PICK first \in {<<>>, <<0>>} :
             disk' = [disk EXCEPT ![s].place = "live", ![s].turns = first]
      BY <1>4 DEF Create
    <2> DEFINE x == [d EXCEPT !.place = "live", !.turns = first]
    <2>2. x \in Disks /\ x.turns = first
      BY <1>1, <1>3 DEF Disks
    <2>3. disk' = [disk EXCEPT ![s] = x]
      BY <1>1, <2>1
    <2>. QED
      BY <1>2, <1>3, <2>2, <2>3
  <1>5. CASE Append_(s)
    <2> DEFINE ts == Append(d.turns, 0)
               x == [d EXCEPT !.turns = ts]
    <2>1. ts \in Seq({0, 1}) /\ Len(ts) = Len(d.turns) + 1
      BY <1>1, AppendProperties
    <2>2. Len(ts) <= MaxTurns
      BY <1>1, <1>5, <2>1, Bounds DEF Append_
    <2>3. disk' = [disk EXCEPT ![s] = x]
      BY <1>1, <1>5 DEF Append_
    <2> HIDE DEF ts
    <2>4. x \in Disks /\ x.turns = ts
      BY <1>1, <2>1 DEF Disks
    <2>. QED
      BY <1>2, <2>2, <2>3, <2>4
  <1>6. CASE Fuse(s)
    <2>1. PICK q \in 1..Len(d.turns) : disk' = [disk EXCEPT ![s].turns[q] = 1]
      BY <1>6 DEF Fuse
    <2> DEFINE ts == [d.turns EXCEPT ![q] = 1]
               x == [d EXCEPT !.turns = ts]
    <2>2. ts \in Seq({0, 1}) /\ Len(ts) = Len(d.turns)
      BY <1>1, ExceptSeq
    <2>3. disk' = [disk EXCEPT ![s] = x]
      BY <1>1, <2>1
    <2> HIDE DEF ts
    <2>4. x \in Disks /\ x.turns = ts
      BY <1>1, <2>2 DEF Disks
    <2>. QED
      BY <1>1, <1>2, <2>2, <2>3, <2>4
  <1>7. CASE Retitle(s)
    <2> DEFINE x == [d EXCEPT !.title = 1]
    <2>1. x \in Disks /\ x.turns = d.turns
      BY <1>1 DEF Disks
    <2>2. disk' = [disk EXCEPT ![s] = x]
      BY <1>1, <1>7 DEF Retitle
    <2>. QED
      BY <1>1, <1>2, <2>1, <2>2
  <1>8. CASE Delete(s)
    <2> DEFINE x == [place |-> "gone", turns |-> <<>>, title |-> 0]
    <2>1. x \in Disks /\ x.turns = <<>>
      BY <1>3 DEF Disks
    <2>. QED
      BY <1>2, <1>3, <1>8, <2>1 DEF Delete
  <1>9. CASE Archive(s)
    <2> DEFINE p == IF d.place = "live" THEN "archived" ELSE "live"
               x == [d EXCEPT !.place = p]
    <2>1. x \in Disks /\ x.turns = d.turns
      BY <1>1 DEF Disks
    <2>2. disk' = [disk EXCEPT ![s] = x]
      BY <1>1, <1>9 DEF Archive
    <2>. QED
      BY <1>1, <1>2, <2>1, <2>2
  <1>. QED
    BY <1>4, <1>5, <1>6, <1>7, <1>8, <1>9

-----------------------------------------------------------------------------
(* Every step keeps the types.                                             *)

LEMMA TypesInit == Init => Types
  <1> SUFFICES ASSUME Init PROVE Types
    OBVIOUS
  <1>1. DiskTypes
    <2>1. /\ <<>> \in Seq({0, 1}) /\ Len(<<>>) = 0 /\ <<0>> \in Seq({0, 1}) /\ Len(<<0>>) = 1
      OBVIOUS
    <2>2. Initial \subseteq Sessions
      BY SyncAssumption
    <2>3. disk = [s \in Sessions |->
                    [place |-> IF s \in Initial THEN "live" ELSE None,
                     turns |-> IF s \in Initial THEN <<0>> ELSE <<>>, title |-> 0]]
      BY DEF Init
    <2>4. ASSUME NEW s \in Sessions PROVE disk[s] \in Disks /\ Len(disk[s].turns) <= MaxTurns
      <3> DEFINE p  == IF s \in Initial THEN "live" ELSE None
                 ts == IF s \in Initial THEN <<0>> ELSE <<>>
      <3>1. /\ p \in {None, "live", "archived", "gone"} /\ ts \in Seq({0, 1})
            /\ Len(ts) \in {0, 1}
        BY <2>1
      <3>2. disk[s] = [place |-> p, turns |-> ts, title |-> 0]
        BY <2>3
      <3> HIDE DEF p, ts
      <3>3. Len(ts) <= MaxTurns
        BY <3>1, Bounds
      <3>. QED
        BY <3>1, <3>2, <3>3 DEF Disks
    <2>. QED
      BY <2>3, <2>4 DEF DiskTypes
  <1>2. IndexOK
    BY SnapshotOK DEF Init, IndexOK
  <1>3. MemoryOK
    BY EmptyMap DEF Init, MemoryOK
  <1>4. CallsOK
    BY IdleType DEF Init, CallsOK, Callers
  <1>5. loop \in Loops
    BY IdleType DEF Init
  <1>6. NexusOK(nexus)
    <2>1. nexus = [known |-> {}, turns |-> [s \in Sessions |-> NoTurns], opened |-> {}]
      BY DEF Init
    <2>2. \A s \in Sessions : Stored(nexus, s) = {}
      BY <2>1 DEF Stored, NoTurns
    <2>. QED
      BY <2>1, <2>2, NoTurnsType DEF NexusOK
  <1>. QED
    BY <1>1, <1>2, <1>3, <1>4, <1>5, <1>6 DEF Types

\* A call begins or ends.
LEMMA BeginType ==
  ASSUME CallsOK, NEW c \in Callers, NEW r, Begin(c, r)
  PROVE  /\ DOMAIN calls' = Callers /\ calls'[c] = r
         /\ \A e \in Callers \ {c} : calls'[e] = calls[e]
  BY DEF CallsOK, Begin

\* The loop waits for the call it has begun.
LEMMA LoopCallOK ==
  ASSUME CallsOK, NEW r, Begin("loop", r), UNCHANGED late,
         \/ loop'.pc \in {"idle", "windows"} /\ r = NoReq
         \/ loop'.pc = "catalog" /\ IsCatalog(r)
         \/ loop'.pc = "probe" /\ IsProbe(r)
         \/ loop'.pc = "window" /\ IsWindow(r) /\ r.s \in loop'.todo
  PROVE  CallsOK'
  <1>1. "loop" \in Callers
    BY DEF Callers
  <1>2. /\ DOMAIN calls' = Callers /\ calls'["loop"] = r
        /\ \A e \in Callers \ {"loop"} : calls'[e] = calls[e]
    BY <1>1, BeginType
  <1>3. NoReq.kind = "none"
    BY DEF NoReq, None
  <1>4. r = NoReq \/ IsRequest(r)
    BY DEF IsRequest
  <1>5. IsCatalog(r) \/ IsProbe(r) \/ IsWindow(r) => r # NoReq
    BY <1>3 DEF IsCatalog, IsProbe, IsWindow
  <1>6. \A e \in Callers : calls'[e] = NoReq \/ IsRequest(calls'[e])
    BY <1>2, <1>4 DEF CallsOK
  <1>. QED
    BY <1>2, <1>5, <1>6 DEF CallsOK

LEMMA TypesRun ==
  ASSUME Types, RunStep
  PROVE  Types'
  <1> USE DEF Types
  <1>1. ASSUME NEW byWake \in BOOLEAN, NEW ids \in Candidates, NEW emitted \in CatalogSessions(idx),
               StartRun(byWake, ids, emitted)
        PROVE  Types'
    <2> DEFINE req == CatalogReq(idx, emitted, ids)
               run == [Idle EXCEPT !.todo = ids, !.hints = hints]
    <2>1. /\ UNCHANGED <<disk, idx, hints, waking, synced, nexus, late>>
          /\ wake' = (wake /\ ~byWake)
      BY <1>1 DEF StartRun, memory
    <2>2. /\ ids \subseteq Sessions /\ IsCatalog(req) /\ IsProbe(ProbeReq(ids))
      BY Emitted
    <2>3. \/ loop' = [run EXCEPT !.pc = "catalog"] /\ Begin("loop", req)
          \/ loop' = [run EXCEPT !.pc = "probe"] /\ Begin("loop", ProbeReq(ids))
          \/ loop' = Continue(run) /\ UNCHANGED calls
      BY <1>1 DEF StartRun
    <2>4. loop.pc = "idle"
      BY <1>1 DEF StartRun
    <2> HIDE DEF req
    <2>5. run \in Loops
      BY <2>2, IdleType DEF Loops, MemoryOK
    <2> HIDE DEF run
    <2>6. /\ [run EXCEPT !.pc = "catalog"] \in Loops /\ [run EXCEPT !.pc = "catalog"].pc = "catalog"
          /\ [run EXCEPT !.pc = "probe"] \in Loops /\ [run EXCEPT !.pc = "probe"].pc = "probe"
      BY <2>5 DEF Loops
    <2>7. Continue(run) \in Loops /\ Continue(run).pc \in {"idle", "windows"}
      BY <2>5, ContinueType
    <2>8. CallsOK' /\ loop' \in Loops
      <3>1. CASE loop' = [run EXCEPT !.pc = "catalog"] /\ Begin("loop", req)
        BY <2>1, <2>2, <2>6, <3>1, LoopCallOK
      <3>2. CASE loop' = [run EXCEPT !.pc = "probe"] /\ Begin("loop", ProbeReq(ids))
        BY <2>1, <2>2, <2>6, <3>2, LoopCallOK
      <3>3. CASE loop' = Continue(run) /\ UNCHANGED calls
        BY <2>1, <2>4, <2>7, <3>3 DEF CallsOK
      <3>. QED
        BY <2>3, <3>1, <3>2, <3>3
    <2>. QED
      BY <2>1, <2>8 DEF DiskTypes, IndexOK, MemoryOK
  <1>2. ASSUME NEW s \in Sessions, PassOver(s) PROVE Types'
    <2>1. /\ UNCHANGED <<disk, idx, hints, wake, waking, synced, calls, nexus, late>>
          /\ loop.pc = "windows" /\ Done(s)
      BY <1>2 DEF PassOver, memory
    <2>2. loop' \in Loops /\ loop'.pc \in {"idle", "windows"}
      BY <2>1, DoneType
    <2>3. CallsOK'
      BY <2>1, <2>2 DEF CallsOK
    <2>. QED
      BY <2>1, <2>2, <2>3 DEF DiskTypes, IndexOK, MemoryOK
  <1>3. ASSUME NEW s \in Sessions, Consider(s) PROVE Types'
    <2> DEFINE w == Window(s, Limit(s))
               t == Trimmed(w, KnownWindow(s))
               r == [WindowReq(s, t) EXCEPT !.sig = w]
    <2>1. /\ UNCHANGED <<disk, idx, wake, waking, nexus, late>>
          /\ loop.pc = "windows" /\ s \in loop.todo
      BY <1>3 DEF Consider
    <2>2. w \in Wins /\ Solid(w)
      <3>1. Limit(s) \in Nat /\ Limit(s) >= 1
        BY Bounds DEF Limit
      <3>. QED
        BY <3>1, WindowType
    <2>3. \/ /\ Done(s) /\ synced' = [synced EXCEPT ![s] = w] /\ UNCHANGED calls
             /\ hints' \in {hints, MergedHints(s, w)}
          \/ /\ loop' = [loop EXCEPT !.pc = "window"] /\ Begin("loop", r)
             /\ UNCHANGED <<synced, hints>>
      BY <1>3 DEF Consider, Record, memory
    <2> HIDE DEF w
    <2>4. CASE /\ Done(s) /\ synced' = [synced EXCEPT ![s] = w] /\ UNCHANGED calls
               /\ hints' \in {hints, MergedHints(s, w)}
      <3>1. loop' \in Loops /\ loop'.pc \in {"idle", "windows"}
        BY <2>4, DoneType
      <3>2. CallsOK'
        BY <2>1, <2>4, <3>1 DEF CallsOK
      <3>3. MemoryOK'
        BY <2>1, <2>2, <2>4, MergeType DEF MemoryOK
      <3>. QED
        BY <2>1, <3>1, <3>2, <3>3 DEF DiskTypes, IndexOK
    <2>5. CASE /\ loop' = [loop EXCEPT !.pc = "window"] /\ Begin("loop", r)
               /\ UNCHANGED <<synced, hints>>
      <3>1. KnownWindow(s) \in Wins
        BY HintMap, NoTurnsType DEF KnownWindow, Loops
      <3>2. t \in Wins
        BY <2>2, <3>1, TrimmedType
      <3> HIDE DEF t
      <3>3. IsWindow(r) /\ r.s = s
        BY <2>2, <3>2 DEF WindowReq, IsWindow
      <3> HIDE DEF r
      <3>4. loop' \in Loops /\ loop'.pc = "window" /\ loop'.todo = loop.todo
        BY <2>5 DEF Loops
      <3>5. CallsOK'
        BY <2>1, <2>5, <3>3, <3>4, LoopCallOK
      <3>. QED
        BY <2>1, <2>5, <3>4, <3>5 DEF DiskTypes, IndexOK, MemoryOK
    <2>. QED
      BY <2>3, <2>4, <2>5
  <1>4. ASSUME NEW byWake \in BOOLEAN, RunFails(byWake) PROVE Types'
    <2>1. /\ UNCHANGED <<disk, idx, hints, waking, synced, calls, nexus, late>>
          /\ wake' = (wake /\ ~byWake) /\ loop.pc = "idle"
          /\ loop' = [Idle EXCEPT !.failed = TRUE]
      BY <1>4 DEF RunFails, memory
    <2>2. loop' \in Loops /\ loop'.pc = "idle"
      BY <2>1, IdleType DEF Loops
    <2>3. CallsOK'
      BY <2>1, <2>2 DEF CallsOK
    <2>. QED
      BY <2>1, <2>2, <2>3 DEF DiskTypes, IndexOK, MemoryOK
  <1>. QED
    BY <1>1, <1>2, <1>3, <1>4 DEF RunStep

\* What the loop waits for, by the kind of the request.
LEMMA LoopWaits ==
  ASSUME CallsOK, loop \in Loops, Calling("loop")
  PROVE  \/ loop.pc = "catalog" /\ IsCatalog(calls["loop"])
         \/ loop.pc = "probe" /\ IsProbe(calls["loop"])
         \/ loop.pc = "window" /\ IsWindow(calls["loop"]) /\ calls["loop"].s \in loop.todo
  BY DEF CallsOK, Loops, Calling

\* The answer of a catalog or a probe tells what Nexus knows.
LEMMA ToldType ==
  ASSUME loop \in Loops, NEW h \in HintMaps, loop' = Continue([loop EXCEPT !.known = h])
  PROVE  /\ loop' \in Loops /\ loop'.pc \in {"idle", "windows"} /\ loop'.todo = loop.todo
         /\ loop'.todo # {} => loop'.hints = loop.hints /\ loop'.known = h
  <1> DEFINE l == [loop EXCEPT !.known = h]
  <1>1. l \in Loops /\ l.todo = loop.todo /\ l.hints = loop.hints /\ l.known = h
    BY DEF Loops
  <1> HIDE DEF l
  <1>. QED
    BY <1>1, ContinueType DEF l

\* What the loop makes of an answer.
LEMMA AnsweredType ==
  ASSUME Types, Calling("loop"), NexusOK(nexus)', Answered(calls["loop"], nexus')
  PROVE  /\ loop' \in Loops /\ loop'.pc \in {"idle", "windows"} /\ hints' \in HintMaps
         /\ synced' \in [Sessions -> Wins \cup {NoSync}]
  <1> DEFINE r == calls["loop"]
  <1> USE DEF Types
  <1>1. CASE IsCatalog(r) \/ IsProbe(r)
    <2>1. KnownWindows(nexus', r) \in HintMaps
      BY <1>1, KnownType
    <2>2. /\ loop' = Continue([loop EXCEPT !.known = KnownWindows(nexus', r)])
          /\ UNCHANGED <<synced, hints>>
      BY <1>1 DEF Answered, IsCatalog, IsProbe, memory
    <2>. QED
      BY <2>1, <2>2, ToldType DEF MemoryOK
  <1>2. CASE IsWindow(r)
    <2>1. Done(r.s) /\ synced' = [synced EXCEPT ![r.s] = r.sig] /\ hints' = MergedHints(r.s, r.win)
      BY <1>2 DEF Answered, IsWindow, Record
    <2>2. r.s \in Sessions /\ r.sig \in Wins /\ r.win \in Wins
      BY <1>2 DEF IsWindow
    <2> HIDE DEF r
    <2>3. synced' \in [Sessions -> Wins \cup {NoSync}] /\ hints' \in HintMaps
      BY <2>1, <2>2, MergeType DEF MemoryOK
    <2>. QED
      BY <2>1, <2>3, DoneType
  <1>. QED
    BY <1>1, <1>2, LoopWaits

LEMMA TypesCall ==
  ASSUME Types, CallStep
  PROVE  Types'
  <1> USE DEF Types
  <1>1. \A c \in Callers : Calling(c) => IsRequest(calls[c])
    BY DEF CallsOK, Calling
  <1>2. ASSUME NEW c \in Callers, Answer(c) PROVE Types'
    <2> DEFINE r == calls[c]
    <2>1. /\ Calling(c) /\ nexus' = Processed(nexus, r) /\ Begin(c, NoReq)
          /\ UNCHANGED <<disk, idx, wake, waking, late>>
          /\ IF c = "loop" THEN Answered(r, nexus') ELSE UNCHANGED <<loop, synced, hints>>
      BY <1>2 DEF Answer, memory
    <2>2. NexusOK(nexus)'
      BY <1>1, <2>1, Effect
    <2>3. CASE c = "loop"
      <3>1. /\ loop' \in Loops /\ loop'.pc \in {"idle", "windows"} /\ hints' \in HintMaps
            /\ synced' \in [Sessions -> Wins \cup {NoSync}]
        BY <2>1, <2>2, <2>3, AnsweredType
      <3>2. CallsOK'
        BY <2>1, <2>3, <3>1, LoopCallOK
      <3>. QED
        BY <2>1, <2>2, <3>1, <3>2 DEF DiskTypes, IndexOK, MemoryOK
    <2>4. CASE c # "loop"
      <3>1. "loop" \in Callers \ {c}
        BY <2>4 DEF Callers
      <3>2. /\ DOMAIN calls' = Callers /\ calls'[c] = NoReq
            /\ \A e \in Callers \ {c} : calls'[e] = calls[e]
        BY <2>1, BeginType
      <3>3. CallsOK'
        BY <2>1, <2>4, <3>1, <3>2 DEF CallsOK
      <3>. QED
        BY <2>1, <2>2, <2>4, <3>3 DEF DiskTypes, IndexOK, MemoryOK
    <2>. QED
      BY <2>3, <2>4
  <1>3. ASSUME NEW c \in Callers, LoseAnswer(c) PROVE Types'
    <2>1. /\ Calling(c) /\ nexus' = Processed(nexus, calls[c])
          /\ UNCHANGED <<disk, idx, hints, wake, waking, loop, synced, calls, late>>
      BY <1>3 DEF LoseAnswer, Process, memory
    <2>2. NexusOK(nexus)'
      BY <1>1, <2>1, Effect
    <2>. QED
      BY <2>1, <2>2 DEF DiskTypes, IndexOK, MemoryOK, CallsOK
  <1>4. ASSUME NEW c \in Callers, NEW lag \in BOOLEAN, GiveUp(c, lag) PROVE Types'
    <2>1. /\ Calling(c) /\ Begin(c, NoReq)
          /\ UNCHANGED <<disk, idx, hints, wake, waking, synced, nexus>>
          /\ late' = IF lag THEN late \cup {calls[c]} ELSE late
          /\ IF c = "loop" THEN Failed(calls[c]) ELSE UNCHANGED loop
      BY <1>4 DEF GiveUp, memory
    <2>2. \A r \in late' : IsRequest(r)
      BY <1>1, <2>1 DEF CallsOK
    <2>3. /\ DOMAIN calls' = Callers /\ calls'[c] = NoReq
          /\ \A e \in Callers \ {c} : calls'[e] = calls[e]
      BY <2>1, BeginType
    <2>4. CASE c = "loop"
      <3>1. loop' \in Loops /\ loop'.pc \in {"idle", "windows"}
        <4>1. \/ loop' = [Idle EXCEPT !.failed = TRUE]
              \/ loop' = Continue(loop)
              \/ Done(calls[c].s)
          <5>1. calls[c].kind \in {"catalog", "probe", "window"}
            BY <1>1, <2>1 DEF IsRequest, IsCatalog, IsProbe, IsWindow
          <5>. QED
            BY <2>1, <2>4, <5>1 DEF Failed
        <4>2. CASE loop' = [Idle EXCEPT !.failed = TRUE]
          BY <4>2, IdleType DEF Loops
        <4>. QED
          BY <4>1, <4>2, ContinueType, DoneType
      <3>2. CallsOK'
        BY <2>2, <2>3, <2>4, <3>1 DEF CallsOK
      <3>. QED
        BY <2>1, <3>1, <3>2 DEF DiskTypes, IndexOK, MemoryOK
    <2>5. CASE c # "loop"
      <3>1. "loop" \in Callers \ {c}
        BY <2>5 DEF Callers
      <3>2. CallsOK'
        BY <2>1, <2>2, <2>3, <2>5, <3>1 DEF CallsOK
      <3>. QED
        BY <2>1, <2>5, <3>2 DEF DiskTypes, IndexOK, MemoryOK
    <2>. QED
      BY <2>4, <2>5
  <1>5. ASSUME NEW r \in late, ArrivesLate(r) PROVE Types'
    <2>1. /\ late' = late \ {r} /\ nexus' = Processed(nexus, r)
          /\ UNCHANGED <<disk, idx, hints, wake, waking, loop, synced, calls>>
      BY <1>5 DEF ArrivesLate, Process, memory
    <2>2. IsRequest(r)
      BY DEF CallsOK
    <2>3. NexusOK(nexus)'
      BY <2>1, <2>2, Effect
    <2>. QED
      BY <2>1, <2>3 DEF DiskTypes, IndexOK, MemoryOK, CallsOK
  <1>. QED
    BY <1>2, <1>3, <1>4, <1>5 DEF CallStep

\* A hint tells what Nexus has.
LEMMA AddHintType ==
  ASSUME hints \in HintMaps, NexusOK(nexus), NEW s \in Sessions, AddHint(s)
  PROVE  /\ hints' \in HintMaps /\ DOMAIN hints' = DOMAIN hints \cup {s}
         /\ hints'[s] = ServerWindow(nexus, s)
         /\ \A t \in DOMAIN hints \ {s} : hints'[t] = hints[t]
  <1>1. DOMAIN hints \subseteq Sessions /\ \A t \in DOMAIN hints : hints[t] \in Wins
    BY HintMap
  <1>2. ServerWindow(nexus, s) \in Wins
    BY ServerWindowType
  <1> DEFINE S == DOMAIN hints \cup {s}
  <1>3. hints' = [t \in S |-> IF t = s THEN ServerWindow(nexus, s) ELSE hints[t]]
    BY DEF AddHint
  <1>4. S \in SUBSET Sessions /\ hints' \in [S -> Wins]
    BY <1>1, <1>2, <1>3
  <1>. QED
    BY <1>3, <1>4, HintMapType

LEMMA ExpireType ==
  ASSUME hints \in HintMaps, NEW s, HintExpires(s)
  PROVE  /\ hints' \in HintMaps /\ DOMAIN hints' = DOMAIN hints \ {s}
         /\ \A t \in DOMAIN hints' : hints'[t] = hints[t]
  <1>1. DOMAIN hints \subseteq Sessions /\ \A t \in DOMAIN hints : hints[t] \in Wins
    BY HintMap
  <1> DEFINE S == DOMAIN hints \ {s}
  <1>2. hints' = [t \in S |-> hints[t]]
    BY DEF HintExpires
  <1>3. S \in SUBSET Sessions /\ hints' \in [S -> Wins]
    BY <1>1, <1>2
  <1>. QED
    BY <1>2, <1>3, HintMapType

LEMMA TypesControl ==
  ASSUME Types, ControlStep
  PROVE  Types'
  <1> USE DEF Types
  <1>1. ASSUME NEW s \in Sessions, SyncSession(s) PROVE Types'
    <2> DEFINE w == Window(s, HintLimit)
               r == WindowReq(s, w)
    <2>1. /\ Begin("control", r)
          /\ UNCHANGED <<disk, idx, hints, wake, waking, loop, synced, nexus, late>>
      BY <1>1 DEF SyncSession, memory
    <2>2. w \in Wins
      BY Bounds, WindowType
    <2> HIDE DEF w
    <2>3. IsRequest(r)
      BY <2>2 DEF IsRequest, IsWindow, WindowReq
    <2> HIDE DEF r
    <2>4. "control" \in Callers /\ "loop" \in Callers /\ "loop" # "control"
      BY DEF Callers
    <2>5. /\ DOMAIN calls' = Callers /\ calls'["control"] = r
          /\ \A e \in Callers \ {"control"} : calls'[e] = calls[e]
      BY <2>1, <2>4, BeginType
    <2>6. CallsOK'
      BY <2>1, <2>3, <2>4, <2>5 DEF CallsOK
    <2>. QED
      BY <2>1, <2>6 DEF DiskTypes, IndexOK, MemoryOK
  <1>2. ASSUME NEW s \in Sessions, HintExpires(s) PROVE Types'
    <2>1. UNCHANGED <<disk, idx, wake, waking, loop, synced, calls, nexus, late>>
      BY <1>2 DEF HintExpires, memory
    <2>2. hints' \in HintMaps
      BY <1>2, ExpireType DEF MemoryOK
    <2>. QED
      BY <2>1, <2>2 DEF DiskTypes, IndexOK, MemoryOK, CallsOK
  <1>3. ASSUME NEW s \in Sessions, NEW heard \in BOOLEAN, OpenSession(s, heard) PROVE Types'
    <2>1. /\ UNCHANGED <<disk, idx, wake, loop, synced, calls, late>>
          /\ s \in nexus.known /\ nexus' = [nexus EXCEPT !.opened = @ \cup {s}]
          /\ IF heard THEN AddHint(s) /\ waking' = TRUE ELSE UNCHANGED <<hints, waking>>
      BY <1>3 DEF OpenSession, memory
    <2>2. NexusOK(nexus)'
      <3>1. /\ nexus' \in [known : SUBSET Sessions, turns : [Sessions -> Copies],
                           opened : SUBSET Sessions]
            /\ nexus'.known = nexus.known /\ nexus'.turns = nexus.turns
            /\ nexus'.opened = nexus.opened \cup {s}
        BY <2>1 DEF NexusOK
      <3>. QED
        BY <2>1, <3>1 DEF NexusOK, Stored
    <2>3. MemoryOK'
      BY <2>1, AddHintType DEF MemoryOK
    <2>. QED
      BY <2>1, <2>2, <2>3 DEF DiskTypes, IndexOK, CallsOK
  <1>4. CASE WakeSync
    BY <1>4 DEF WakeSync, memory, DiskTypes, IndexOK, MemoryOK, CallsOK
  <1>. QED
    BY <1>1, <1>2, <1>3, <1>4 DEF ControlStep

LEMMA TypesStep == Types /\ [Next]_vars => Types'
  <1> SUFFICES ASSUME Types, [Next]_vars PROVE Types'
    OBVIOUS
  <1> USE DEF Types
  <1>1. CASE DiskStep
    <2>1. ASSUME NEW s \in Sessions,
                 Create(s) \/ Append_(s) \/ Fuse(s) \/ Retitle(s) \/ Delete(s) \/ Archive(s)
          PROVE  Types'
      <3>1. DiskChange
        BY <2>1 DEF Create, Append_, Fuse, Retitle, Delete, Archive
      <3>2. UNCHANGED <<idx, hints, wake, waking, loop, synced, calls, nexus, late>>
        BY <3>1 DEF DiskChange, memory
      <3>3. DiskTypes'
        BY <2>1, DiskStepType
      <3>. QED
        BY <3>2, <3>3 DEF IndexOK, MemoryOK, CallsOK
    <2>2. CASE IndexRefresh
      <3>1. UNCHANGED <<disk, hints, wake, waking, loop, synced, calls, nexus, late>>
        BY <2>2 DEF IndexRefresh, memory
      <3>2. IndexOK'
        BY <2>2, SnapshotOK DEF IndexRefresh, IndexOK
      <3>. QED
        BY <3>1, <3>2 DEF DiskTypes, MemoryOK, CallsOK
    <2>. QED
      BY <1>1, <2>1, <2>2 DEF DiskStep
  <1>2. ASSUME NEW lag \in BOOLEAN, Restart(lag) PROVE Types'
    <2>1. /\ UNCHANGED <<disk, nexus>> /\ idx' = Snapshot
          /\ hints' = <<>> /\ wake' = FALSE /\ waking' = FALSE /\ loop' = Idle
          /\ synced' = [s \in Sessions |-> NoSync]
          /\ calls' = [c \in Callers |-> NoReq]
          /\ late' = IF lag THEN late \cup ({calls[c] : c \in Callers} \ {NoReq}) ELSE late
      BY <1>2 DEF Restart
    <2>2. \A r \in late' : IsRequest(r)
      BY <2>1 DEF CallsOK
    <2>3. CallsOK'
      BY <2>1, <2>2, IdleType DEF CallsOK, Callers
    <2>. QED
      BY <2>1, <2>3, SnapshotOK, EmptyMap, IdleType DEF DiskTypes, IndexOK, MemoryOK
  <1>3. CASE UNCHANGED vars
    BY <1>3 DEF vars, memory, DiskTypes, IndexOK, MemoryOK, CallsOK
  <1>. QED
    BY <1>1, <1>2, <1>3, TypesRun, TypesCall, TypesControl DEF Next

-----------------------------------------------------------------------------
(* A hint wakes the loop.                                                  *)

Woken == unseen # {} => wake \/ waking \/ (loop.pc = "idle" /\ loop.failed)

LEMMA WokenStep == Types /\ Woken /\ [Next]_vars => Woken'
  <1> SUFFICES ASSUME Types, Woken, [Next]_vars PROVE Woken'
    OBVIOUS
  <1>1. UNCHANGED <<unseen, wake, waking, loop>> => Woken'
    BY DEF Woken
  <1>2. CASE RunStep
    <2>1. ASSUME NEW byWake \in BOOLEAN, RunFails(byWake) PROVE Woken'
      <3>1. loop' = [Idle EXCEPT !.failed = TRUE]
        BY <2>1 DEF RunFails
      <3>2. loop'.pc = "idle" /\ loop'.failed
        BY <3>1 DEF Idle
      <3>. QED
        BY <3>2 DEF Woken
    <2>2. ASSUME NEW s, loop.pc = "windows", UNCHANGED <<unseen, wake, waking>> PROVE Woken'
      BY <2>2 DEF Woken
    <2>3. ASSUME NEW s \in Sessions, PassOver(s) \/ Consider(s) PROVE Woken'
      BY <2>2, <2>3 DEF PassOver, Consider, ghosts
    <2>4. ASSUME NEW byWake, NEW ids, NEW emitted, StartRun(byWake, ids, emitted) PROVE Woken'
      BY <2>4 DEF StartRun, Woken
    <2>. QED
      BY <1>2, <2>1, <2>3, <2>4 DEF RunStep
  <1>3. CASE CallStep
    <2>1. ASSUME NEW c \in Callers, Answer(c) \/ \E lag \in BOOLEAN : GiveUp(c, lag) PROVE Woken'
      <3>1. Calling(c) /\ UNCHANGED <<unseen, wake, waking>> /\ (c # "loop" => UNCHANGED loop)
        BY <2>1 DEF Answer, GiveUp, ghosts
      <3>2. c = "loop" => loop.pc # "idle"
        BY <3>1 DEF Types, CallsOK, Calling
      <3>. QED
        BY <3>1, <3>2 DEF Woken
    <2>2. ASSUME NEW c \in Callers, LoseAnswer(c) PROVE Woken'
      BY <1>1, <2>2 DEF LoseAnswer
    <2>3. ASSUME NEW r \in late, ArrivesLate(r) PROVE Woken'
      BY <1>1, <2>3 DEF ArrivesLate
    <2>. QED
      BY <1>3, <2>1, <2>2, <2>3 DEF CallStep
  <1>4. CASE ControlStep
    <2>1. ASSUME NEW s \in Sessions, SyncSession(s) PROVE Woken'
      BY <1>1, <2>1 DEF SyncSession, ghosts
    <2>2. ASSUME NEW s \in Sessions, HintExpires(s) PROVE Woken'
      BY <2>2 DEF HintExpires, Woken
    <2>3. ASSUME NEW s \in Sessions, NEW heard \in BOOLEAN, OpenSession(s, heard) PROVE Woken'
      BY <2>3 DEF OpenSession, Woken
    <2>4. CASE WakeSync
      BY <2>4 DEF WakeSync, Woken
    <2>. QED
      BY <1>4, <2>1, <2>2, <2>3, <2>4 DEF ControlStep
  <1>5. CASE DiskStep
    <2>1. DiskChange \/ IndexRefresh
      BY <1>5 DEF DiskStep, Create, Append_, Fuse, Retitle, Delete, Archive
    <2>. QED
      BY <1>1, <2>1 DEF DiskChange, IndexRefresh, ghosts
  <1>6. ASSUME NEW lag \in BOOLEAN, Restart(lag) PROVE Woken'
    BY <1>6 DEF Restart, Woken
  <1>7. CASE UNCHANGED vars
    BY <1>1, <1>7 DEF vars, ghosts
  <1>. QED
    BY <1>2, <1>3, <1>4, <1>5, <1>6, <1>7 DEF Next

\* However hints, wakes and failing runs interleave, a hint that no run has
\* looked at has woken the loop, or the run that took the token failed
\* (pushedHintStore.Add, wakeSync, startNexusSyncLoop).
THEOREM HintIsNoticedAlways == Spec => []HintIsNoticed
  <1>1. Init => Types /\ Woken
    BY TypesInit DEF Init, Woken
  <1>2. Types /\ Woken /\ [Next]_vars => Types' /\ Woken'
    BY TypesStep, WokenStep
  <1>3. Woken => HintIsNoticed
    BY DEF Woken, HintIsNoticed
  <1>. QED
    BY <1>1, <1>2, <1>3, PTL DEF Spec

-----------------------------------------------------------------------------
(* The catalog.                                                            *)

\* What Nexus lists is what the loop's last catalog listed.
Listing == lastCat.full => nexus.known \ touched = lastCat.sessions \ touched

\* Whatever a request changes is touched when the loop gets no answer.
LEMMA TouchedListing ==
  ASSUME Types, Listing, NEW r, IsRequest(r), nexus' = Processed(nexus, r),
         touched' = touched \cup Changes(r), lastCat' = lastCat
  PROVE  Listing'
  <1> USE DEF Types
  <1>1. CASE IsCatalog(r)
    <2>1. /\ nexus'.known = (nexus.known \ Removed(nexus, r)) \cup r.sessions
          /\ Changes(r) = Removed(nexus, r) \cup r.sessions
      BY <1>1, CatalogEffect DEF Changes, IsCatalog
    <2>. QED
      BY <2>1 DEF Listing
  <1>2. CASE IsProbe(r)
    <2>1. nexus' = nexus /\ Changes(r) = {}
      BY <1>2 DEF IsProbe, Processed, Changes
    <2>. QED
      BY <2>1 DEF Listing
  <1>3. CASE IsWindow(r)
    <2>1. /\ nexus'.known = nexus.known \/ nexus'.known = nexus.known \cup {r.s}
          /\ Changes(r) = {r.s}
      BY <1>3, WindowEffect DEF Changes, IsWindow
    <2>. QED
      BY <2>1 DEF Listing
  <1>. QED
    BY <1>1, <1>2, <1>3 DEF IsRequest

\* A complete catalog leaves at Nexus the sessions it lists.
LEMMA AnsweredListing ==
  ASSUME Types, Listing, Calling("loop"), nexus' = Processed(nexus, calls["loop"]),
         Answered(calls["loop"], nexus')
  PROVE  Listing'
  <1> DEFINE r == calls["loop"]
  <1> USE DEF Types
  <1>1. CASE IsCatalog(r)
    <2>1. /\ nexus'.known = (nexus.known \ Removed(nexus, r)) \cup r.sessions
          /\ lastCat' = Signature(r) /\ touched' = {}
      BY <1>1, CatalogEffect DEF Answered, IsCatalog
    <2>2. lastCat'.full = r.full /\ lastCat'.sessions = r.sessions
      BY <2>1 DEF Signature
    <2>3. r.full => nexus'.known = r.sessions
      BY <2>1 DEF Removed
    <2>. QED
      BY <2>1, <2>2, <2>3 DEF Listing
  <1>2. CASE IsProbe(r)
    <2>1. nexus' = nexus /\ UNCHANGED <<lastCat, touched>>
      BY <1>2 DEF IsProbe, Processed, Answered, memory
    <2>. QED
      BY <2>1 DEF Listing
  <1>3. CASE IsWindow(r)
    <2>1. /\ nexus'.known = nexus.known \/ nexus'.known = nexus.known \cup {r.s}
          /\ lastCat' = lastCat /\ touched' = touched \cup ({r.s} \ lastCat.sessions)
      BY <1>3, WindowEffect DEF Answered, IsWindow, Record
    <2>. QED
      BY <2>1 DEF Listing
  <1>. QED
    BY <1>1, <1>2, <1>3, LoopWaits

LEMMA ListingStep == Types /\ Listing /\ [Next]_vars => Listing'
  <1> SUFFICES ASSUME Types, Listing, [Next]_vars PROVE Listing'
    OBVIOUS
  <1>1. UNCHANGED <<nexus, lastCat, touched>> => Listing'
    BY DEF Listing
  <1>2. CASE RunStep
    <2>1. UNCHANGED <<nexus, lastCat, touched>>
      BY <1>2 DEF RunStep, StartRun, PassOver, Consider, Record, RunFails, memory, ghosts
    <2>. QED
      BY <1>1, <2>1
  <1>3. CASE CallStep
    <2>1. /\ \A c \in Callers : Calling(c) => IsRequest(calls[c])
          /\ \A r \in late : IsRequest(r)
      BY DEF Types, CallsOK, Calling
    <2>2. ASSUME NEW c \in Callers, Answer(c) PROVE Listing'
      <3>1. /\ Calling(c) /\ nexus' = Processed(nexus, calls[c])
            /\ IF c = "loop" THEN Answered(calls[c], nexus')
               ELSE touched' = touched \cup Changes(calls[c]) /\ lastCat' = lastCat
        BY <2>2 DEF Answer, memory
      <3>2. CASE c = "loop"
        BY <3>1, <3>2, AnsweredListing
      <3>3. CASE c # "loop"
        BY <2>1, <3>1, <3>3, TouchedListing
      <3>. QED
        BY <3>2, <3>3
    <2>3. ASSUME NEW c \in Callers, LoseAnswer(c) PROVE Listing'
      BY <2>1, <2>3, TouchedListing DEF LoseAnswer, Process, memory
    <2>4. ASSUME NEW c \in Callers, NEW lag \in BOOLEAN, GiveUp(c, lag) PROVE Listing'
      BY <1>1, <2>4 DEF GiveUp, memory, ghosts
    <2>5. ASSUME NEW r \in late, ArrivesLate(r) PROVE Listing'
      BY <2>1, <2>5, TouchedListing DEF ArrivesLate, Process, memory
    <2>. QED
      BY <1>3, <2>2, <2>3, <2>4, <2>5 DEF CallStep
  <1>4. CASE ControlStep
    <2>1. ASSUME NEW s \in Sessions, SyncSession(s) \/ HintExpires(s) PROVE Listing'
      BY <1>1, <2>1 DEF SyncSession, HintExpires, memory, ghosts
    <2>2. ASSUME NEW s \in Sessions, NEW heard \in BOOLEAN, OpenSession(s, heard) PROVE Listing'
      <3>1. UNCHANGED <<lastCat, touched>> /\ nexus' = [nexus EXCEPT !.opened = @ \cup {s}]
        BY <2>2 DEF OpenSession, memory
      <3>2. nexus'.known = nexus.known
        BY <3>1 DEF Types, NexusOK
      <3>. QED
        BY <3>1, <3>2 DEF Listing
    <2>3. CASE WakeSync
      BY <1>1, <2>3 DEF WakeSync, memory, ghosts
    <2>. QED
      BY <1>4, <2>1, <2>2, <2>3 DEF ControlStep
  <1>5. CASE DiskStep
    <2>1. DiskChange \/ IndexRefresh
      BY <1>5 DEF DiskStep, Create, Append_, Fuse, Retitle, Delete, Archive
    <2>. QED
      BY <1>1, <2>1 DEF DiskChange, IndexRefresh, memory, ghosts
  <1>6. ASSUME NEW lag \in BOOLEAN, Restart(lag) PROVE Listing'
    <2>1. lastCat' = NoCat
      BY <1>6 DEF Restart
    <2>. QED
      BY <2>1 DEF Listing, NoCat
  <1>7. CASE UNCHANGED vars
    BY <1>1, <1>7 DEF vars, memory, ghosts
  <1>. QED
    BY <1>2, <1>3, <1>4, <1>5, <1>6, <1>7 DEF Next

\* Whatever requests are lost, repeated or late, a loop that rests and has
\* pushed the complete catalog of the index knows what Nexus lists, but for the
\* sessions that were touched without its knowing (runSync, daemonSync).
THEOREM CatalogIsCurrentAlways == Spec => []CatalogIsCurrent
  <1>1. Init => Types /\ Listing
    BY TypesInit DEF Init, Listing, NoCat
  <1>2. Types /\ Listing /\ [Next]_vars => Types' /\ Listing'
    BY TypesStep, ListingStep
  <1>3. Listing => CatalogIsCurrent
    <2> DEFINE r == CatalogReq(idx, idx.listed, {})
    <2>1. r.full = TRUE /\ r.sessions = idx.listed
      BY DEF CatalogReq
    <2> HIDE DEF r
    <2>2. Signature(r).full = TRUE /\ Signature(r).sessions = idx.listed
      BY <2>1 DEF Signature
    <2> DEFINE g == Signature(r)
    <2> HIDE DEF g
    <2>3. Listing /\ loop.pc = "idle" /\ lastCat = g =>
             nexus.known \ touched = idx.listed \ touched
      BY <2>2 DEF Listing, g
    <2>. QED
      BY <2>3 DEF CatalogIsCurrent, g, r
  <1>. QED
    BY <1>1, <1>2, <1>3, PTL DEF Spec

\* Only a catalog makes Nexus forget a session, and it was built when the index
\* did not list it (BuildCatalogSyncRequest, daemonSync).
THEOREM DeletedWasGoneAlways == Spec => DeletedWasGone
  <1> DEFINE Gone == \A s \in nexus.known \ nexus'.known :
                       \E r \in {calls[c] : c \in Callers} \cup late :
                          r.kind = "catalog" /\ s \notin r.base
  <1>1. ASSUME Types, [Next]_vars PROVE Gone
    <2>1. /\ \A c \in Callers : Calling(c) => IsRequest(calls[c])
          /\ \A r \in late : IsRequest(r)
      BY <1>1 DEF Types, CallsOK, Calling
    <2>2. ASSUME NEW r \in {calls[c] : c \in Callers} \cup late, IsRequest(r),
                 nexus' = Processed(nexus, r)
          PROVE  Gone
      <3>1. CASE IsCatalog(r)
        <4>1. nexus'.known = (nexus.known \ Removed(nexus, r)) \cup r.sessions
          BY <1>1, <2>2, <3>1, CatalogEffect DEF Types
        <4>2. \A s \in nexus.known \ nexus'.known : s \notin r.base
          BY <3>1, <4>1 DEF Removed, IsCatalog
        <4>. QED
          BY <3>1, <4>2 DEF IsCatalog
      <3>2. CASE IsProbe(r)
        BY <2>2, <3>2 DEF IsProbe, Processed
      <3>3. CASE IsWindow(r)
        <4>1. nexus.known \subseteq nexus'.known
          BY <1>1, <2>2, <3>3, WindowEffect DEF Types
        <4>. QED
          BY <4>1
      <3>. QED
        BY <2>2, <3>1, <3>2, <3>3 DEF IsRequest
    <2>3. nexus'.known = nexus.known => Gone
      OBVIOUS
    <2> HIDE DEF Gone
    <2>4. CASE RunStep
      BY <2>3, <2>4 DEF RunStep, StartRun, PassOver, Consider, RunFails
    <2>5. CASE CallStep
      BY <2>1, <2>2, <2>3, <2>5 DEF CallStep, Answer, LoseAnswer, Process, GiveUp, ArrivesLate
    <2>6. CASE ControlStep
      <3>1. UNCHANGED nexus \/ \E s \in Sessions : nexus' = [nexus EXCEPT !.opened = @ \cup {s}]
        BY <2>6 DEF ControlStep, SyncSession, HintExpires, OpenSession, WakeSync
      <3>2. nexus'.known = nexus.known
        BY <1>1, <3>1 DEF Types, NexusOK
      <3>. QED
        BY <2>3, <3>2
    <2>7. CASE DiskStep
      <3>1. DiskChange \/ IndexRefresh
        BY <2>7 DEF DiskStep, Create, Append_, Fuse, Retitle, Delete, Archive
      <3>. QED
        BY <2>3, <3>1 DEF DiskChange, IndexRefresh
    <2>8. ASSUME NEW lag \in BOOLEAN, Restart(lag) PROVE Gone
      BY <2>3, <2>8 DEF Restart
    <2>9. CASE UNCHANGED vars
      BY <2>3, <2>9 DEF vars
    <2>. QED
      BY <1>1, <2>4, <2>5, <2>6, <2>7, <2>8, <2>9 DEF Next
  <1>2. Types /\ [Next]_vars => [Gone]_vars
    BY <1>1
  <1>3. Spec => [][Gone]_vars
    <2> HIDE DEF Gone
    <2>. QED
      BY <1>2, TypesInit, TypesStep, PTL DEF Spec
  <1>. QED
    BY <1>3 DEF DeletedWasGone

-----------------------------------------------------------------------------
(* The turns that count as synced.                                         *)

\* What a trimmed request leaves out.
LeftOut(r) == [q \in Seqs |-> IF r.win.turns[q] # Absent THEN Absent ELSE r.sig.turns[q]]

\* All that makes the loop skip an upload, or call one whole, tells of turns
\* that Nexus stores: the windows it remembers, the hints, and the windows it
\* was told of in this run.
Sending(s) == loop.pc = "window" /\ calls["loop"].s = s
Vouched(s) ==
    /\ synced[s] # NoSync => Backed(nexus, s, synced[s].turns)
    /\ s \in DOMAIN hints => Backed(nexus, s, hints[s].turns)
    /\ s \in loop.todo /\ s \in DOMAIN loop.hints => Backed(nexus, s, loop.hints[s].turns)
    /\ s \in loop.todo /\ s \in DOMAIN loop.known => Backed(nexus, s, loop.known[s].turns)
    /\ Sending(s) => \/ LeavesGap(calls["loop"])
                     \/ Backed(nexus, s, LeftOut(calls["loop"]))

KnownSolid == loop.todo # {} => \A s \in DOMAIN loop.known : Solid(loop.known[s])
TailInv == KnownSolid /\ \A s \in Sessions \ excused : Vouched(s)

LEMMA TailFrame ==
  ASSUME TailInv, UNCHANGED <<hints, loop, synced, nexus, excused>>,
         calls'["loop"] = calls["loop"]
  PROVE  TailInv'
  BY DEF TailInv, KnownSolid, Vouched, Sending, LeavesGap, KnownWindow, LeftOut

\* Nexus processes a request and the loop hears nothing of it.
LEMMA TailNexus ==
  ASSUME Types, TailInv, NEW r, IsRequest(r), nexus' = Processed(nexus, r),
         excused' = excused \cup Lost(nexus, r), UNCHANGED <<hints, loop, synced>>,
         calls'["loop"] = calls["loop"]
  PROVE  TailInv'
  <1>1. \A s \in Sessions \ Lost(nexus, r) : \A ts : Backed(nexus, s, ts) => Backed(nexus', s, ts)
    BY Effect DEF Types
  <1>2. LeavesGap(calls["loop"])' <=> LeavesGap(calls["loop"])
    BY DEF LeavesGap, KnownWindow
  <1>3. ASSUME NEW s \in Sessions \ excused' PROVE Vouched(s)'
    <2>1. Vouched(s) /\ s \in Sessions \ Lost(nexus, r)
      BY <1>3 DEF TailInv
    <2>2. LeftOut(calls["loop"])' = LeftOut(calls["loop"]) /\ (Sending(s)' <=> Sending(s))
      BY DEF LeftOut, Sending
    <2>. QED
      BY <1>1, <1>2, <2>1, <2>2 DEF Vouched
  <1>. QED
    BY <1>3 DEF TailInv, KnownSolid

\* A run that goes on, without a call, with fewer sessions.
LEMMA TailShrinks ==
  ASSUME TailInv, UNCHANGED <<hints, synced, nexus, excused>>,
         loop'.pc # "window", loop'.todo \subseteq loop.todo,
         loop'.todo # {} => loop'.hints = loop.hints /\ loop'.known = loop.known
  PROVE  TailInv'
  <1>1. ASSUME NEW s \in Sessions \ excused' PROVE Vouched(s)'
    BY <1>1 DEF TailInv, Vouched, Sending
  <1>2. KnownSolid'
    BY DEF TailInv, KnownSolid
  <1>. QED
    BY <1>1, <1>2 DEF TailInv

LEMMA TailStart ==
  ASSUME Types, TailInv, NEW byWake, NEW ids \in Candidates, NEW emitted,
         StartRun(byWake, ids, emitted)
  PROVE  TailInv'
  <1> DEFINE run == [Idle EXCEPT !.todo = ids, !.hints = hints]
  <1>1. UNCHANGED <<hints, synced, nexus, excused>>
    BY DEF StartRun, memory
  <1>2. \/ loop' = [run EXCEPT !.pc = "catalog"]
        \/ loop' = [run EXCEPT !.pc = "probe"]
        \/ loop' = Continue(run)
    BY DEF StartRun
  <1>3. ids \subseteq Sessions
    BY DEF Candidates, Types, IndexOK
  <1>4. run \in Loops /\ run.hints = hints /\ run.known = <<>>
    BY <1>3, IdleType DEF Loops, Types, MemoryOK, Idle
  <1> HIDE DEF run
  <1>5. loop'.pc # "window" /\ (loop'.todo # {} => loop'.hints = hints /\ loop'.known = <<>>)
    <2>1. ASSUME NEW p \in {"catalog", "probe"}
          PROVE  [run EXCEPT !.pc = p].pc = p /\ [run EXCEPT !.pc = p].hints = hints
                 /\ [run EXCEPT !.pc = p].known = <<>>
      BY <1>4 DEF Loops
    <2>2. /\ Continue(run).pc \in {"idle", "windows"} /\ Continue(run).todo = run.todo
          /\ run.todo # {} => Continue(run).hints = hints /\ Continue(run).known = <<>>
      BY <1>4, ContinueType
    <2>. QED
      BY <1>2, <2>1, <2>2
  <1>6. ASSUME NEW s \in Sessions \ excused' PROVE Vouched(s)'
    BY <1>1, <1>5, <1>6, EmptyMap DEF TailInv, Vouched, Sending
  <1>7. KnownSolid'
    BY <1>5, EmptyMap DEF KnownSolid
  <1>. QED
    BY <1>6, <1>7 DEF TailInv

\* What a window that Nexus has made superfluous would have uploaded is stored.
LEMMA SkippedIsBacked ==
  ASSUME Types, TailInv, NEW s \in Sessions \ excused, s \in loop.todo,
         NEW w \in Wins, Solid(w), w = NoWin \/ SkipUpload(s, w)
  PROVE  Backed(nexus, s, w.turns)
  <1>1. Vouched(s)
    BY DEF TailInv
  <1>2. CASE w = NoWin
    <2>1. \A q \in Seqs : w.turns[q] = Absent
      BY <1>2 DEF NoWin, NoTurns
    <2>. QED
      BY <2>1 DEF Backed
  <1>3. CASE Hinted(s) /\ Matches(loop.hints[s], w)
    BY <1>1, <1>3 DEF Vouched, Hinted, Matches
  <1>4. CASE s \in DOMAIN loop.known /\ Matches(loop.known[s], w)
    BY <1>1, <1>4 DEF Vouched, Matches
  <1>5. CASE s \in DOMAIN loop.known /\ Covers(loop.known[s], w)
    <2> DEFINE k == loop.known[s]
    <2>1. k \in Wins /\ Solid(k) /\ Backed(nexus, s, k.turns)
      BY <1>1, <1>5, HintMap DEF Types, Loops, TailInv, KnownSolid, Vouched
    <2>2. k.min <= w.min /\ w.max <= k.max
      BY <1>5, <2>1 DEF Covers, Wins
    <2> HIDE DEF k
    <2>3. ASSUME NEW q \in Seqs, w.turns[q] # Absent PROVE k.turns[q] # Absent
      <3>1. w.min <= q /\ q <= w.max
        BY <2>3 DEF Solid
      <3>2. q \in Nat /\ k.min \in Nat /\ k.max \in Nat /\ w.min \in Nat /\ w.max \in Nat
        BY <2>1, Bounds DEF Wins, Seqs
      <3>3. k.min <= q /\ q <= k.max
        BY <2>2, <3>1, <3>2
      <3>. QED
        BY <2>1, <3>3 DEF Solid
    <2>. QED
      BY <2>1, <2>3 DEF Backed
  <1>6. CASE synced[s] = w /\ w # NoWin
    <2>1. synced[s] # NoSync
      <3>1. NoSync.min = -1 /\ w.min \in Nat
        BY DEF NoSync, NoWin, Wins
      <3>. QED
        BY <1>6, <3>1
    <2>. QED
      BY <1>1, <1>6, <2>1 DEF Vouched
  <1>. QED
    BY <1>2, <1>3, <1>4, <1>5, <1>6 DEF SkipUpload

\* Of a session that nothing is excused for, a trimmed window leaves out only
\* turns that Nexus stores, unless it leaves a gap.
LEMMA TrimmedIsBacked ==
  ASSUME Types, TailInv, NEW s \in Sessions \ excused, s \in loop.todo,
         NEW w \in Wins, Solid(w), NEW r, IsWindow(r), r.s = s, r.sig = w,
         r.win = Trimmed(w, KnownWindow(s))
  PROVE  LeavesGap(r) \/ Backed(nexus, s, LeftOut(r))
  <1> DEFINE k == KnownWindow(s)
  <1>1. k \in Wins /\ Solid(k) /\ Backed(nexus, s, k.turns)
    <2>1. CASE s \in DOMAIN loop.known
      BY <2>1, HintMap DEF KnownWindow, Types, Loops, TailInv, KnownSolid, Vouched
    <2>2. CASE s \notin DOMAIN loop.known
      <3>1. \A q \in Seqs : NoWin.turns[q] = Absent
        BY DEF NoWin, NoTurns
      <3>. QED
        BY <2>2, <3>1, NoTurnsType DEF KnownWindow, Backed
    <2>. QED
      BY <2>1, <2>2
  <1>2. CASE r.win = w
    <2>1. \A q \in Seqs : LeftOut(r)[q] = Absent
      BY <1>2 DEF LeftOut
    <2>. QED
      BY <2>1 DEF Backed
  <1>3. CASE r.win # w /\ ~(k.min > w.min)
    <2> HIDE DEF k
    <2>1. \A q \in Seqs : w.turns[q] # Absent /\ r.win.turns[q] = Absent => q <= k.max
      BY <1>1, <1>3, TrimmedType DEF k
    <2>2. ASSUME NEW q \in Seqs, LeftOut(r)[q] # Absent PROVE k.turns[q] # Absent
      <3>1. w.turns[q] # Absent /\ r.win.turns[q] = Absent
        BY <2>2 DEF LeftOut
      <3>2. w.min <= q /\ q <= k.max
        BY <2>1, <3>1 DEF Solid
      <3>3. q \in Nat /\ k.min \in Nat /\ w.min \in Nat
        BY <1>1, Bounds DEF Wins, Seqs
      <3>4. k.min <= q
        BY <1>3, <3>2, <3>3
      <3>. QED
        BY <1>1, <3>2, <3>4 DEF Solid
    <2>. QED
      BY <1>1, <2>2 DEF Backed
  <1>4. CASE r.win # w /\ k.min > w.min
    BY <1>4 DEF LeavesGap
  <1>. QED
    BY <1>2, <1>3, <1>4

LEMMA TailConsider ==
  ASSUME Types, TailInv, NEW s \in Sessions, Consider(s)
  PROVE  TailInv'
  <1> DEFINE w == Window(s, Limit(s))
             t == Trimmed(w, KnownWindow(s))
             r == [WindowReq(s, t) EXCEPT !.sig = w]
  <1> USE DEF Types
  <1>1. UNCHANGED <<nexus, excused>> /\ loop.pc = "windows" /\ s \in loop.todo
    BY DEF Consider, ghosts
  <1>2. w \in Wins /\ Solid(w)
    <2>1. Limit(s) \in Nat /\ Limit(s) >= 1
      BY Bounds DEF Limit
    <2>. QED
      BY <2>1, WindowType
  <1>3. \/ /\ w = NoWin \/ SkipUpload(s, w)
           /\ Done(s) /\ synced' = [synced EXCEPT ![s] = w]
           /\ hints' \in {hints, MergedHints(s, w)}
        \/ /\ loop' = [loop EXCEPT !.pc = "window"] /\ Begin("loop", r)
           /\ UNCHANGED <<synced, hints>>
    BY DEF Consider, Record, memory
  <1> HIDE DEF w
  <1>4. CASE /\ w = NoWin \/ SkipUpload(s, w)
             /\ Done(s) /\ synced' = [synced EXCEPT ![s] = w]
             /\ hints' \in {hints, MergedHints(s, w)}
    <2>1. /\ loop'.pc \in {"idle", "windows"} /\ loop'.todo = loop.todo \ {s}
          /\ loop'.todo # {} => loop'.hints = loop.hints /\ loop'.known = loop.known
      BY <1>4, DoneType
    <2>2. DOMAIN hints' = DOMAIN hints /\ \A u \in DOMAIN hints : hints'[u].turns = hints[u].turns
      BY <1>2, <1>4, MergeType DEF MemoryOK
    <2>3. synced'[s] = w /\ \A u \in Sessions \ {s} : synced'[u] = synced[u]
      BY <1>4 DEF MemoryOK
    <2>4. s \notin excused => Backed(nexus, s, w.turns)
      BY <1>1, <1>2, <1>4, SkippedIsBacked
    <2>5. ASSUME NEW u \in Sessions \ excused' PROVE Vouched(u)'
      <3>1. Vouched(u) /\ u \notin excused
        BY <1>1, <2>5 DEF TailInv
      <3>2. synced'[u] # NoSync => Backed(nexus, u, synced'[u].turns)
        BY <2>3, <2>4, <3>1 DEF Vouched
      <3>. QED
        BY <1>1, <2>1, <2>2, <3>1, <3>2 DEF Vouched, Sending
    <2>6. KnownSolid'
      BY <2>1 DEF TailInv, KnownSolid
    <2>. QED
      BY <2>5, <2>6 DEF TailInv
  <1>5. CASE /\ loop' = [loop EXCEPT !.pc = "window"] /\ Begin("loop", r)
             /\ UNCHANGED <<synced, hints>>
    <2>1. KnownWindow(s) \in Wins
      BY HintMap, NoTurnsType DEF KnownWindow, Loops
    <2>2. t \in Wins
      BY <1>2, <2>1, TrimmedType
    <2> HIDE DEF t
    <2>3. IsWindow(r) /\ r.s = s /\ r.sig = w /\ r.win = t
      BY <1>2, <2>2 DEF WindowReq, IsWindow
    <2> HIDE DEF r
    <2>4. loop'.todo = loop.todo /\ loop'.hints = loop.hints /\ loop'.known = loop.known
      BY <1>5 DEF Loops
    <2>5. calls'["loop"] = r
      BY <1>5, BeginType DEF CallsOK, Callers
    <2>6. s \notin excused => LeavesGap(r) \/ Backed(nexus, s, LeftOut(r))
      BY <1>1, <1>2, <2>3, TrimmedIsBacked DEF t
    <2>7. ASSUME NEW u \in Sessions \ excused' PROVE Vouched(u)'
      BY <1>1, <1>5, <2>3, <2>4, <2>5, <2>6, <2>7
      DEF TailInv, Vouched, Sending, LeavesGap, KnownWindow, LeftOut
    <2>8. KnownSolid'
      BY <2>4 DEF TailInv, KnownSolid
    <2>. QED
      BY <2>7, <2>8 DEF TailInv
  <1>. QED
    BY <1>3, <1>4, <1>5

LEMMA LeftOutRest ==
  ASSUME NEW nx, NEW r, IsWindow(r), Backed(nx, r.s, r.win.turns), Backed(nx, r.s, LeftOut(r))
  PROVE  Backed(nx, r.s, r.sig.turns)
  <1>1. \A q \in Seqs : r.sig.turns[q] # Absent => r.win.turns[q] # Absent \/ LeftOut(r)[q] # Absent
    BY DEF LeftOut
  <1>. QED
    BY <1>1 DEF Backed

\* The answer of a catalog or a probe tells what Nexus stores.
LEMMA TailTold ==
  ASSUME Types, TailInv, Calling("loop"), NEW r, r = calls["loop"], IsCatalog(r) \/ IsProbe(r),
         nexus' = Processed(nexus, r), excused' = excused \cup Lost(nexus, r),
         Answered(r, nexus')
  PROVE  TailInv'
  <1> DEFINE h == KnownWindows(nexus', r)
  <1> USE DEF Types
  <1>1. /\ NexusOK(nexus')
        /\ \A s \in Sessions \ Lost(nexus, r) : \A ts : Backed(nexus, s, ts) => Backed(nexus', s, ts)
    BY Effect DEF IsRequest
  <1>2. h \in HintMaps /\ \A s \in DOMAIN h : s \in Sessions /\ h[s] = ServerWindow(nexus', s)
    BY <1>1, KnownType
  <1>3. loop' = Continue([loop EXCEPT !.known = h]) /\ UNCHANGED <<synced, hints>>
    BY DEF Answered, IsCatalog, IsProbe, memory
  <1> HIDE DEF h
  <1>4. /\ loop'.pc \in {"idle", "windows"} /\ loop'.todo = loop.todo
        /\ loop'.todo # {} => loop'.hints = loop.hints /\ loop'.known = h
    BY <1>2, <1>3, ToldType
  <1>5. \A s \in DOMAIN h : Solid(h[s]) /\ Backed(nexus', s, h[s].turns)
    <2>1. ASSUME NEW s \in DOMAIN h
          PROVE  Solid(h[s]) /\ \A q \in Seqs : h[s].turns[q] # Absent => q \in Stored(nexus', s)
      BY <1>1, <1>2, ServerWindowType
    <2>. QED
      BY <2>1 DEF Backed
  <1>6. ASSUME NEW s \in Sessions \ excused' PROVE Vouched(s)'
    <2>1. Vouched(s) /\ s \in Sessions \ Lost(nexus, r)
      BY <1>6 DEF TailInv
    <2>. QED
      BY <1>1, <1>3, <1>4, <1>5, <2>1 DEF Vouched, Sending
  <1>7. KnownSolid'
    BY <1>4, <1>5 DEF KnownSolid
  <1>. QED
    BY <1>6, <1>7 DEF TailInv

\* The answer of a window: it counts as synced, and what was excused is good
\* again when the whole window is stored.
LEMMA TailUploaded ==
  ASSUME Types, TailInv, Calling("loop"), NEW r, r = calls["loop"], IsWindow(r),
         nexus' = Processed(nexus, r), Answered(r, nexus'),
         excused' = IF Repairs(r, nexus') THEN excused \ {r.s}
                    ELSE excused \cup Lost(nexus, r) \cup Skipped("loop", r)
  PROVE  TailInv'
  <1> USE DEF Types
  <1>1. /\ \A s \in Sessions : s # r.s => nexus'.turns[s] = nexus.turns[s]
        /\ Lost(nexus, r) \in {{}, {r.s}}
        /\ Lost(nexus, r) = {} => Backed(nexus', r.s, r.win.turns)
        /\ \A ts : Backed(nexus, r.s, ts) => Backed(nexus', r.s, ts)
    BY WindowEffect
  <1>2. \A s \in Sessions : \A ts : Backed(nexus, s, ts) => Backed(nexus', s, ts)
    <2>1. \A s \in Sessions : s # r.s => Stored(nexus', s) = Stored(nexus, s)
      BY <1>1 DEF Stored
    <2>. QED
      BY <1>1, <2>1 DEF Backed
  <1>3. /\ Done(r.s) /\ synced' = [synced EXCEPT ![r.s] = r.sig]
        /\ hints' = MergedHints(r.s, r.win)
        /\ r.s \in Sessions /\ r.sig \in Wins /\ r.win \in Wins
        /\ r.s \in loop.todo /\ loop.pc = "window"
    BY LoopWaits DEF Answered, IsWindow, IsCatalog, IsProbe, Record
  <1>4. /\ loop'.pc \in {"idle", "windows"} /\ loop'.todo = loop.todo \ {r.s}
        /\ loop'.todo # {} => loop'.hints = loop.hints /\ loop'.known = loop.known
    BY <1>3, DoneType
  <1>5. DOMAIN hints' = DOMAIN hints /\ \A u \in DOMAIN hints : hints'[u].turns = hints[u].turns
    BY <1>3, MergeType DEF MemoryOK
  <1>6. synced'[r.s] = r.sig /\ \A u \in Sessions \ {r.s} : synced'[u] = synced[u]
    BY <1>3 DEF MemoryOK
  <1>7. ASSUME NEW s \in Sessions \ excused', s # r.s PROVE Vouched(s)'
    <2>1. Vouched(s)
      BY <1>7 DEF TailInv
    <2>. QED
      BY <1>2, <1>4, <1>5, <1>6, <1>7, <2>1 DEF Vouched, Sending
  <1>8. ASSUME r.s \notin excused' PROVE Vouched(r.s)'
    <2>1. CASE Repairs(r, nexus')
      <3>1. Backed(nexus', r.s, r.sig.turns)
        BY <1>1, <2>1 DEF Repairs
      <3>2. r.s \in DOMAIN hints => Backed(nexus', r.s, hints[r.s].turns)
        BY <2>1 DEF Repairs
      <3>. QED
        BY <1>4, <1>5, <1>6, <3>1, <3>2 DEF Vouched, Sending
    <2>2. CASE ~Repairs(r, nexus')
      <3>1. Lost(nexus, r) = {} /\ ~LeavesGap(r) /\ Vouched(r.s)
        BY <1>1, <1>3, <1>8, <2>2 DEF TailInv, Skipped, IsWindow
      <3>2. Backed(nexus, r.s, LeftOut(r))
        BY <1>3, <3>1 DEF Vouched, Sending
      <3>3. Backed(nexus', r.s, r.sig.turns)
        BY <1>1, <3>1, <3>2, LeftOutRest
      <3>. QED
        BY <1>2, <1>3, <1>4, <1>5, <1>6, <3>1, <3>3 DEF Vouched, Sending
    <2>. QED
      BY <2>1, <2>2
  <1>9. KnownSolid'
    BY <1>4 DEF TailInv, KnownSolid
  <1>. QED
    BY <1>7, <1>8, <1>9 DEF TailInv

LEMMA TailCall ==
  ASSUME Types, TailInv, CallStep
  PROVE  TailInv'
  <1> USE DEF Types
  <1>1. /\ \A c \in Callers : Calling(c) => IsRequest(calls[c])
        /\ \A r \in late : IsRequest(r)
    BY DEF CallsOK, Calling
  <1>2. "loop" \in Callers
    BY DEF Callers
  <1>3. ASSUME NEW c \in Callers, Answer(c) PROVE TailInv'
    <2> DEFINE r == calls[c]
    <2>1. /\ Calling(c) /\ nexus' = Processed(nexus, r) /\ Begin(c, NoReq)
          /\ excused' = IF c = "loop" /\ Repairs(r, nexus')
                        THEN excused \ {r.s}
                        ELSE excused \cup Lost(nexus, r) \cup Skipped(c, r)
          /\ IF c = "loop" THEN Answered(r, nexus') ELSE UNCHANGED <<loop, synced, hints>>
      BY <1>3 DEF Answer, memory
    <2>2. CASE c = "loop" /\ IsWindow(r)
      BY <2>1, <2>2, TailUploaded
    <2>3. CASE c = "loop" /\ ~IsWindow(r)
      <3>1. IsCatalog(r) \/ IsProbe(r)
        BY <1>1, <2>1, <2>3 DEF IsRequest
      <3>2. r.kind # "window"
        BY <3>1 DEF IsCatalog, IsProbe
      <3>3. excused' = excused \cup Lost(nexus, r)
        BY <2>1, <3>2 DEF Repairs, Skipped
      <3>. QED
        BY <2>1, <2>3, <3>1, <3>3, TailTold
    <2>4. CASE c # "loop"
      <3>1. excused' = excused \cup Lost(nexus, r)
        BY <2>1, <2>4 DEF Skipped
      <3>2. calls'["loop"] = calls["loop"]
        BY <1>2, <2>1, <2>4, BeginType
      <3>. QED
        BY <1>1, <2>1, <2>4, <3>1, <3>2, TailNexus
    <2>. QED
      BY <2>2, <2>3, <2>4
  <1>4. ASSUME NEW c \in Callers, LoseAnswer(c) PROVE TailInv'
    BY <1>1, <1>4, TailNexus DEF LoseAnswer, Process, memory
  <1>5. ASSUME NEW c \in Callers, NEW lag \in BOOLEAN, GiveUp(c, lag) PROVE TailInv'
    <2>1. /\ Calling(c) /\ Begin(c, NoReq)
          /\ UNCHANGED <<hints, synced, nexus, excused>>
          /\ IF c = "loop" THEN Failed(calls[c]) ELSE UNCHANGED loop
      BY <1>5 DEF GiveUp, memory, ghosts
    <2>2. CASE c = "loop"
      <3>1. \/ loop' = [Idle EXCEPT !.failed = TRUE]
            \/ loop' = Continue(loop)
            \/ Done(calls[c].s)
        <4>1. calls[c].kind \in {"catalog", "probe", "window"}
          BY <1>1, <2>1 DEF IsRequest, IsCatalog, IsProbe, IsWindow
        <4>. QED
          BY <2>1, <2>2, <4>1 DEF Failed
      <3>2. /\ loop'.pc \in {"idle", "windows"} /\ loop'.todo \subseteq loop.todo
            /\ loop'.todo # {} => loop'.hints = loop.hints /\ loop'.known = loop.known
        <4>1. CASE loop' = [Idle EXCEPT !.failed = TRUE]
          BY <4>1, IdleType DEF Loops
        <4>. QED
          BY <3>1, <4>1, ContinueType, DoneType
      <3>. QED
        BY <2>1, <3>2, TailShrinks
    <2>3. CASE c # "loop"
      <3>1. calls'["loop"] = calls["loop"]
        BY <1>2, <2>1, <2>3, BeginType
      <3>. QED
        BY <2>1, <2>3, <3>1, TailFrame
    <2>. QED
      BY <2>2, <2>3
  <1>6. ASSUME NEW r \in late, ArrivesLate(r) PROVE TailInv'
    BY <1>1, <1>6, TailNexus DEF ArrivesLate, Process, memory
  <1>. QED
    BY <1>3, <1>4, <1>5, <1>6 DEF CallStep

LEMMA TailControl ==
  ASSUME Types, TailInv, ControlStep
  PROVE  TailInv'
  <1> USE DEF Types
  <1>1. ASSUME NEW s \in Sessions, SyncSession(s) PROVE TailInv'
    <2>1. UNCHANGED <<hints, loop, synced, nexus, excused>> /\ \E r : Begin("control", r)
      BY <1>1 DEF SyncSession, memory, ghosts
    <2>2. calls'["loop"] = calls["loop"]
      BY <2>1, BeginType DEF Callers
    <2>. QED
      BY <2>1, <2>2, TailFrame
  <1>2. ASSUME NEW s \in Sessions, HintExpires(s) PROVE TailInv'
    <2>1. UNCHANGED <<loop, synced, calls, nexus, excused>>
      BY <1>2 DEF HintExpires, memory
    <2>2. DOMAIN hints' = DOMAIN hints \ {s} /\ \A t \in DOMAIN hints' : hints'[t] = hints[t]
      BY <1>2, ExpireType DEF MemoryOK
    <2>3. LeavesGap(calls["loop"])' <=> LeavesGap(calls["loop"])
      BY <2>1 DEF LeavesGap, KnownWindow
    <2>4. ASSUME NEW t \in Sessions \ excused' PROVE Vouched(t)'
      BY <2>1, <2>2, <2>3, <2>4 DEF TailInv, Vouched, Sending, LeftOut
    <2>. QED
      BY <2>1, <2>4 DEF TailInv, KnownSolid
  <1>3. ASSUME NEW s \in Sessions, NEW heard \in BOOLEAN, OpenSession(s, heard) PROVE TailInv'
    <2>1. /\ UNCHANGED <<loop, synced, calls, excused>>
          /\ nexus' = [nexus EXCEPT !.opened = @ \cup {s}]
          /\ AddHint(s) \/ UNCHANGED hints
      BY <1>3 DEF OpenSession, memory
    <2>2. \A t : Stored(nexus', t) = Stored(nexus, t)
      BY <2>1 DEF NexusOK, Stored
    <2>3. \A t, ts : Backed(nexus, t, ts) => Backed(nexus', t, ts)
      BY <2>2 DEF Backed
    <2>4. Backed(nexus, s, ServerWindow(nexus, s).turns)
      BY ServerWindowType DEF Backed
    <2>5. \A t \in DOMAIN hints' : \/ t \in DOMAIN hints /\ hints'[t] = hints[t]
                                   \/ t = s /\ hints'[t] = ServerWindow(nexus, s)
      BY <2>1, AddHintType DEF MemoryOK
    <2>6. LeavesGap(calls["loop"])' <=> LeavesGap(calls["loop"])
      BY <2>1 DEF LeavesGap, KnownWindow
    <2>7. ASSUME NEW t \in Sessions \ excused' PROVE Vouched(t)'
      BY <2>1, <2>3, <2>4, <2>5, <2>6, <2>7 DEF TailInv, Vouched, Sending, LeftOut
    <2>. QED
      BY <2>1, <2>7 DEF TailInv, KnownSolid
  <1>4. CASE WakeSync
    BY <1>4, TailFrame DEF WakeSync, memory, ghosts
  <1>. QED
    BY <1>1, <1>2, <1>3, <1>4 DEF ControlStep

LEMMA TailStep == Types /\ TailInv /\ [Next]_vars => TailInv'
  <1> SUFFICES ASSUME Types, TailInv, [Next]_vars PROVE TailInv'
    OBVIOUS
  <1>1. CASE RunStep
    <2>1. ASSUME NEW s \in Sessions, PassOver(s) PROVE TailInv'
      <3>1. Done(s) /\ UNCHANGED <<hints, synced, nexus, excused>>
        BY <2>1 DEF PassOver, memory, ghosts
      <3>2. /\ loop'.pc \in {"idle", "windows"} /\ loop'.todo \subseteq loop.todo
            /\ loop'.todo # {} => loop'.hints = loop.hints /\ loop'.known = loop.known
        BY <3>1, DoneType DEF Types
      <3>. QED
        BY <3>1, <3>2, TailShrinks
    <2>2. ASSUME NEW byWake \in BOOLEAN, RunFails(byWake) PROVE TailInv'
      <3>1. loop' = [Idle EXCEPT !.failed = TRUE] /\ UNCHANGED <<hints, synced, nexus, excused>>
        BY <2>2 DEF RunFails, memory, ghosts
      <3>2. loop'.pc = "idle" /\ loop'.todo = {}
        BY <3>1, IdleType DEF Loops
      <3>. QED
        BY <3>1, <3>2, TailShrinks
    <2>. QED
      BY <1>1, <2>1, <2>2, TailStart, TailConsider DEF RunStep
  <1>2. CASE DiskStep
    <2>1. DiskChange \/ IndexRefresh
      BY <1>2 DEF DiskStep, Create, Append_, Fuse, Retitle, Delete, Archive
    <2>. QED
      BY <2>1, TailFrame DEF DiskChange, IndexRefresh, memory, ghosts
  <1>3. ASSUME NEW lag \in BOOLEAN, Restart(lag) PROVE TailInv'
    <2>1. /\ hints' = <<>> /\ loop' = Idle /\ synced' = [s \in Sessions |-> NoSync]
      BY <1>3 DEF Restart
    <2>2. ASSUME NEW s \in Sessions \ excused' PROVE Vouched(s)'
      BY <2>1, IdleType, EmptyMap DEF Vouched, Sending
    <2>. QED
      BY <2>1, <2>2, IdleType DEF TailInv, KnownSolid
  <1>4. CASE UNCHANGED vars
    BY <1>4, TailFrame DEF vars, memory, ghosts
  <1>. QED
    BY <1>1, <1>2, <1>3, <1>4, TailCall, TailControl DEF Next

\* Through lost answers, repeated and late requests, restarts, hints and
\* uploads from two sides, a turn that the loop counts as synced is stored at
\* Nexus or gave way to newer ones, but for sessions that Nexus dropped or
\* declined and for the gaps of trimming (syncChangedNexusSessions).
THEOREM SyncedTailIsStoredAlways == Spec => []SyncedTailIsStored
  <1>1. Init => Types /\ TailInv
    <2> SUFFICES ASSUME Init PROVE Types /\ TailInv
      OBVIOUS
    <2>1. hints = <<>> /\ loop = Idle /\ synced = [s \in Sessions |-> NoSync]
      BY DEF Init
    <2>2. ASSUME NEW s \in Sessions PROVE Vouched(s)
      BY <2>1, IdleType, EmptyMap DEF Vouched, Sending
    <2>. QED
      BY <2>1, <2>2, TypesInit, IdleType DEF TailInv, KnownSolid
  <1>2. Types /\ TailInv /\ [Next]_vars => Types' /\ TailInv'
    BY TypesStep, TailStep
  <1>3. Types /\ TailInv => SyncedTailIsStored
    BY TypesOK DEF TailInv, Vouched, SyncedTailIsStored
  <1>. QED
    BY <1>1, <1>2, <1>3, PTL DEF Spec

-----------------------------------------------------------------------------
(***************************************************************************)
(* The index of the transcripts that the loop reads (SessionIndex): a      *)
(* change of the snapshot is signalled, the catalog is from a good scan,   *)
(* and the counts cover the lines, for any sessions and any number of      *)
(* changes on disk and failed reads.                                       *)
(***************************************************************************)
Index == INSTANCE SessionIndex

ScanRec ==
    [by : {"none", "loop", "sync", "api"},
     step : {"off", "list", "stat", "read", "publish", "notify"},
     listed : SUBSET Index!Transcripts, deleted : SUBSET Index!Transcripts,
          todo : SUBSET Index!Transcripts,
     cur : Index!Transcripts \cup {"none"}, stat : 0..MaxSize, err : BOOLEAN,
          base : SUBSET Index!Transcripts,
     stamp : [Index!Transcripts -> 0..MaxSize]]
CountRec == [size : -1..MaxSize, count : Nat]

\* The full types: of the disk, of the loops, and of the scan and the snapshot.
IndexDiskTypes ==
    /\ place \in [Index!Transcripts -> {"none", "live", "flagged", "moved"}]
    /\ size \in [Index!Transcripts -> 0..MaxSize]
    /\ edits \in 0..MaxEdits /\ removed \subseteq Index!Transcripts

IndexLoopTypes ==
    /\ events \subseteq Index!Transcripts /\ watched \subseteq Index!Transcripts
    /\ mode \in {"boot", "watch", "poll"}
    /\ indexer \in {"select", "refresh", "rewatch"} /\ why \in {"none", "boot", "debounce", "tick"}
    /\ refreshCh \in BOOLEAN /\ debounceC \in BOOLEAN
    /\ debounce \in {"nil", "armed", "idle"}

IndexScanTypes ==
    /\ errors \in 0..MaxErrors
    /\ scan \in ScanRec
    /\ turnCounts \in [Index!Transcripts -> CountRec]
    /\ snap.listed \subseteq Index!Transcripts /\ snap.deleted \subseteq Index!Transcripts
    /\ settled \subseteq Index!Transcripts

IndexSyncTypes ==
    /\ lastErr \in BOOLEAN /\ scanned \in BOOLEAN /\ firstDone \in BOOLEAN /\ changes \in BOOLEAN
    /\ unread \in BOOLEAN /\ taken \in BOOLEAN /\ failed \in BOOLEAN
    /\ sync \in {"idle", "refresh", "scan", "read", "post"}
    /\ scan.by = "none" <=> scan.step = "off"
    /\ sync = "scan" <=> scan.by = "sync"

IndexTypes == IndexDiskTypes /\ IndexLoopTypes /\ IndexScanTypes /\ IndexSyncTypes

\* Unless it was removed, a transcript only grows: the size of a count, and the
\* one that was taken before the file is read, are not above the file's.
Counted ==
    /\ scan.step = "read" => scan.cur \in Index!Transcripts
    /\ \A s \in Index!Transcripts \ removed :
         /\ turnCounts[s].size <= size[s]
         /\ turnCounts[s].size >= 0 => turnCounts[s].count >= turnCounts[s].size \div 2
         /\ scan.step = "read" /\ scan.cur = s => Index!Exists(s) /\ scan.stat <= size[s]

\* What was live and readable from the beginning of a scan on is in its listing.
Settled == settled \subseteq snap.listed /\ scan.base \subseteq scan.listed

\* Who waits and who signals: a run of the sync loop that has read the snapshot
\* leaves the next token, unless a block stream takes it, and nothing is signalled
\* before the first scan is over.
Signalled ==
    /\ Index!ChangeIsSignalled
    /\ unread /\ sync = "post" => changes \/ scan.step = "notify" \/ taken
    /\ unread \/ changes \/ scan.step = "notify" => firstDone
    /\ sync = "read" \/ scan.step = "notify" => scanned

IndexInv == IndexTypes /\ Counted /\ Settled /\ Signalled

-----------------------------------------------------------------------------
(* What the steps of the agents and of the loop may touch *)

\* A step of the agents.
Grows(s) ==
    /\ s \in removed => s \in removed'
    /\ s \notin removed' => size'[s] >= size[s] /\ (Index!Exists(s) => Index!Exists(s)')

LEMMA DiskFrame ==
  ASSUME IndexTypes, Index!DiskStep
  PROVE  /\ IndexDiskTypes' /\ events' \subseteq Index!Transcripts /\ \A s \in Index!Transcripts : Grows(s)
         /\ scan' \in ScanRec /\ scan'.by = scan.by /\ scan'.step = scan.step
         /\ scan'.listed = scan.listed /\ scan'.cur = scan.cur /\ scan'.stat = scan.stat
         /\ scan'.base \subseteq scan.base /\ settled' \subseteq settled
         /\ Index!Others
  <1> USE DEF IndexTypes, IndexDiskTypes, IndexLoopTypes, IndexScanTypes
  <1>1. ASSUME NEW s \in Index!Transcripts, Index!Create(s) \/ Index!Write(s)
        PROVE  /\ IndexDiskTypes' /\ events' \subseteq Index!Transcripts /\ \A t \in Index!Transcripts : Grows(t)
               /\ UNCHANGED <<scan, settled>> /\ Index!Others
    <2>1. CASE Index!Create(s)
      BY <2>1, IndexAssumption DEF Index!Create, Index!DiskChange, Index!Noticed, Grows,
           Index!Exists, Index!Others
    <2>2. CASE Index!Write(s)
      BY <2>2, IndexAssumption DEF Index!Write, Index!DiskChange, Index!Noticed, Grows,
           Index!Exists, Index!Others
    <2>3. QED
      BY <1>1, <2>1, <2>2
  <1>2. ASSUME NEW s \in Index!Transcripts, Index!Remove(s) \/ \E how \in {"flagged",
       "moved"} : Index!Archive(s, how)
        PROVE  /\ IndexDiskTypes' /\ events' \subseteq Index!Transcripts /\ \A t \in Index!Transcripts : Grows(t)
               /\ Index!Leaves(s) /\ Index!Others
    <2>1. CASE Index!Remove(s)
      BY <2>1, IndexAssumption DEF Index!Remove, Index!DiskChange, Index!Noticed, Grows,
           Index!Exists, Index!Others
    <2>2. CASE \E how \in {"flagged", "moved"} : Index!Archive(s, how)
      BY <2>2, IndexAssumption DEF Index!Archive, Index!DiskChange, Index!Noticed, Grows,
           Index!Exists, Index!Others
    <2>3. QED
      BY <1>2, <2>1, <2>2
  <1>3. ASSUME NEW s \in Index!Transcripts, Index!Leaves(s)
        PROVE  /\ scan' \in ScanRec /\ scan'.by = scan.by /\ scan'.step = scan.step
               /\ scan'.listed = scan.listed /\ scan'.cur = scan.cur /\ scan'.stat = scan.stat
               /\ scan'.base \subseteq scan.base /\ settled' \subseteq settled
    BY <1>3 DEF Index!Leaves, ScanRec
  <1>4. QED
    BY <1>1, <1>2, <1>3 DEF Index!DiskStep

\* A step of the select loop, or of the watcher, that is no refresh.
LoopMoves ==
    \/ Index!Debounce \/ Index!DebouncedRefresh \/ Index!Tick \/ Index!WatcherCloses
    \/ \E m \in {"watch", "poll"} : Index!Rewatch(m)
    \/ \E s \in Index!Transcripts : Index!WatcherEvent(s) \/ Index!LoseEvent(s)

LEMMA LoopFrame ==
  ASSUME IndexLoopTypes, LoopMoves
  PROVE  /\ IndexLoopTypes'
         /\ UNCHANGED <<Index!diskVars, errors, scan, turnCounts, Index!snapVars, sync, failed>>
  BY DEF IndexLoopTypes, LoopMoves, Index!Debounce, Index!DebouncedRefresh, Index!Tick,
       Index!WatcherCloses, Index!Rewatch,
         Index!WatcherEvent, Index!LoseEvent, Index!OnDisk

LEMMA Groups ==
  ASSUME [Index!Next]_Index!vars
  PROVE  \/ Index!DiskStep \/ LoopMoves \/ Index!LoopAcquire
         \/ \E u \in SUBSET Claude : Index!ScanHomes(u)
         \/ Index!ScanFails \/ Index!CountRead \/ Index!CountEnd \/ Index!Publish \/ Index!Notify
         \/ \E s \in Index!Transcripts : Index!CountStat(s)
         \/ \E young \in BOOLEAN : Index!SyncRefresh(young)
         \/ Index!SyncRead \/ Index!SyncPosted
         \/ \E token \in BOOLEAN : Index!SyncWakes(token)
         \/ Index!ApiRefresh \/ Index!StreamTakes
         \/ UNCHANGED Index!vars
  BY DEF Index!Next, Index!ScanStep, Index!LoopStep, Index!SyncStep, LoopMoves

-----------------------------------------------------------------------------
(* Types *)

LEMMA ScanStarts ==
  /\ Index!NoScan \in ScanRec
  /\ \A h \in {"loop", "sync", "api"} : Index!Begin(h) \in ScanRec
  /\ Index!NoScan.by = "none" /\ Index!NoScan.step = "off" /\ Index!NoScan.base = {}
  /\ \A h \in {"loop", "sync", "api"} : /\ Index!Begin(h).by = h /\ Index!Begin(h).step = "list"
                                        /\ Index!Begin(h).base = {}
  <1>1. 0 \in 0..MaxSize
    BY IndexAssumption
  <1>2. Index!NoScan \in ScanRec
    BY <1>1 DEF Index!NoScan, ScanRec
  <1>3. QED
    BY <1>2 DEF Index!NoScan, Index!Begin, ScanRec

\* The listing, and what of it is a tombstone.
LEMMA ListingTyped ==
  ASSUME IndexTypes, NEW u \in SUBSET Claude
  PROVE  /\ Index!ClaudeListed(u) \cup (Index!CodexListed \ Index!Tombstones) \in SUBSET Index!Transcripts
         /\ Index!Tombstones \in SUBSET Index!Transcripts
         /\ \A listed \in SUBSET Index!Transcripts : Index!Stamps(listed) \in [Index!Transcripts -> 0..MaxSize]
  BY IndexAssumption
  DEF IndexTypes, IndexDiskTypes, Index!ClaudeListed, Index!CodexListed, Index!Tombstones,
       Index!FlaggedInDB, Index!Stamps, Index!Transcripts

\* Counts are numbers; the rest of a refresh stays within its types.
LEMMA ScanTypesKept ==
  ASSUME IndexTypes, Counted, [Index!Next]_Index!vars
  PROVE  IndexScanTypes'
  <1> USE DEF IndexTypes, IndexScanTypes
  <1>1. CASE Index!DiskStep
    BY <1>1, DiskFrame DEF Index!Others
  <1>2. CASE LoopMoves
    BY <1>2, LoopFrame DEF Index!snapVars
  <1>3. CASE Index!LoopAcquire \/ Index!ApiRefresh
    BY <1>3, ScanStarts DEF Index!LoopAcquire, Index!ApiRefresh, Index!snapVars
  <1>4. ASSUME NEW u \in SUBSET Claude, Index!ScanHomes(u)
        PROVE  IndexScanTypes'
    <2> DEFINE listed == Index!ClaudeListed(u) \cup (Index!CodexListed \ Index!Tombstones)
    <2>1. /\ listed \in SUBSET Index!Transcripts /\ Index!Tombstones \in SUBSET Index!Transcripts
          /\ Index!Stamps(listed) \in [Index!Transcripts -> 0..MaxSize]
      BY ListingTyped
    <2>2. scan' = [scan EXCEPT !.step = "stat", !.listed = listed, !.todo = listed,
                               !.deleted = Index!Tombstones, !.base = listed,
                                    !.stamp = Index!Stamps(listed)]
      BY <1>4 DEF Index!ScanHomes
    <2> HIDE DEF listed
    <2>3. scan' \in ScanRec
      BY <2>1, <2>2 DEF ScanRec
    <2>4. Index!Cardinality(u) \in Nat
      <3>1. Cardinality(u) \in Nat
        BY IndexAssumption, FS_Subset, FS_CardinalityType
      <3>2. Index!Cardinality(u) = Cardinality(u)
        BY DEF Index!Cardinality, Cardinality
      <3>3. QED
        BY <3>1, <3>2
    <2>5. errors' \in 0..MaxErrors
      BY <1>4, <2>4, IndexAssumption DEF Index!ScanHomes
    <2>6. QED
      BY <1>4, <2>3, <2>5 DEF Index!ScanHomes, Index!snapVars
  <1>5. CASE Index!ScanFails
    <2>1. scan' \in ScanRec
      BY <1>5 DEF Index!ScanFails, ScanRec
    <2>2. errors' \in 0..MaxErrors
      BY <1>5, IndexAssumption DEF Index!ScanFails
    <2>3. QED
      BY <1>5, <2>1, <2>2 DEF Index!ScanFails, Index!snapVars
  <1>6. ASSUME NEW s \in Index!Transcripts, Index!CountStat(s)
        PROVE  IndexScanTypes'
    <2>1. scan' \in ScanRec
      <3>1. size[s] \in 0..MaxSize /\ scan.todo \ {s} \in SUBSET Index!Transcripts
        BY DEF IndexDiskTypes, ScanRec
      <3>2. CASE Index!Exists(s)
        <4>1. scan' = [scan EXCEPT !.step = "read", !.cur = s, !.stat = size[s]]
          BY <1>6, <3>2 DEF Index!CountStat
        <4>2. QED
          BY <3>1, <4>1 DEF ScanRec
      <3>3. CASE ~Index!Exists(s)
        BY <1>6, <3>1, <3>3 DEF Index!CountStat, ScanRec
      <3>4. QED
        BY <3>2, <3>3
    <2>2. Index!NoCount \in CountRec
      BY IndexAssumption DEF Index!NoCount, CountRec
    <2>3. turnCounts' \in [Index!Transcripts -> CountRec]
      BY <1>6, <2>2 DEF Index!CountStat
    <2>4. QED
      BY <1>6, <2>1, <2>3 DEF Index!CountStat, Index!snapVars
  <1>7. CASE Index!CountRead
    <2>1. scan.cur \in Index!Transcripts /\ turnCounts[scan.cur] \in CountRec
      BY <1>7 DEF Index!CountRead, Counted
    <2>2. \A from \in Int : Index!CountRange(scan.cur, from) \subseteq Nat
      BY IndexAssumption DEF Index!CountRange
    <2>3. turnCounts[scan.cur].size \in Int /\ turnCounts[scan.cur].count \in Nat
      BY <2>1, IndexAssumption DEF CountRec
    <2>4. Index!CountedBlocks(scan.cur, scan.stat) \subseteq Nat
      BY <2>2, <2>3 DEF Index!CountedBlocks
    <2>5. PICK n \in Index!CountedBlocks(scan.cur, scan.stat) :
            /\ turnCounts' = [turnCounts EXCEPT ![scan.cur] = [size |-> scan.stat, count |-> n]]
            /\ scan' = [scan EXCEPT !.step = "stat", !.todo = @ \ {scan.cur}, !.cur = "none",
                                    !.stat = 0]
      BY <1>7 DEF Index!CountRead
    <2>6. [size |-> scan.stat, count |-> n] \in CountRec
      BY <2>4, IndexAssumption DEF CountRec, ScanRec
    <2>7. turnCounts' \in [Index!Transcripts -> CountRec]
      BY <2>1, <2>5, <2>6
    <2>8. scan' \in ScanRec
      <3>1. 0 \in 0..MaxSize /\ scan.todo \ {scan.cur} \in SUBSET Index!Transcripts
        BY IndexAssumption DEF ScanRec
      <3>2. QED
        BY <2>5, <3>1 DEF ScanRec
    <2>9. QED
      BY <1>7, <2>7, <2>8 DEF Index!CountRead, Index!snapVars
  <1>8. CASE Index!CountEnd
    <2>1. scan' \in ScanRec
      BY <1>8 DEF Index!CountEnd, ScanRec
    <2>2. Index!NoCount \in CountRec
      BY IndexAssumption DEF Index!NoCount, CountRec
    <2>3. turnCounts' \in [Index!Transcripts -> CountRec]
      BY <1>8, <2>2 DEF Index!CountEnd
    <2>4. QED
      BY <1>8, <2>1, <2>3 DEF Index!CountEnd, Index!snapVars
  <1>9. CASE Index!Publish
    <2>1. scan' \in ScanRec
      BY <1>9, ScanStarts DEF Index!Publish, ScanRec
    <2>2. scan.listed \subseteq Index!Transcripts /\ scan.deleted \subseteq Index!Transcripts /\ scan.base \subseteq Index!Transcripts
      BY DEF ScanRec
    <2>3. snap'.listed \subseteq Index!Transcripts /\ snap'.deleted \subseteq Index!Transcripts
      BY <1>9, <2>2 DEF Index!Publish, Index!Stored, Index!Snapshot
    <2>4. QED
      BY <1>9, <2>1, <2>2, <2>3 DEF Index!Publish
  <1>10. CASE Index!Notify
    BY <1>10, ScanStarts DEF Index!Notify
  <1>11. ASSUME NEW young \in BOOLEAN, Index!SyncRefresh(young)
         PROVE  IndexScanTypes'
    BY <1>11, ScanStarts DEF Index!SyncRefresh, Index!snapVars
  <1>12. CASE \/ Index!SyncRead \/ Index!SyncPosted \/ Index!StreamTakes
              \/ \E token \in BOOLEAN : Index!SyncWakes(token)
    BY <1>12 DEF Index!SyncRead, Index!SyncPosted, Index!StreamTakes, Index!SyncWakes,
         Index!snapVars
  <1>13. CASE UNCHANGED Index!vars
    BY <1>13 DEF Index!vars, Index!snapVars
  <1>14. QED
    BY <1>1, <1>2, <1>3, <1>4, <1>5, <1>6, <1>7, <1>8, <1>9, <1>10, <1>11, <1>12, <1>13, Groups

\* The loop's variables are touched by the loop, and by a refresh that returns.
LEMMA OtherTypesKept ==
  ASSUME IndexTypes, [Index!Next]_Index!vars
  PROVE  IndexDiskTypes' /\ IndexLoopTypes'
  <1>1. CASE Index!DiskStep
    BY <1>1, DiskFrame DEF Index!Others, IndexTypes, IndexLoopTypes
  <1>2. CASE LoopMoves
    BY <1>2, LoopFrame DEF IndexTypes, IndexDiskTypes, Index!diskVars
  <1>3. CASE UNCHANGED <<Index!diskVars, events, watched, mode, why, refreshCh, debounce, debounceC>>
             /\ indexer' \in {indexer, "rewatch"}
    BY <1>3 DEF IndexTypes, IndexDiskTypes, IndexLoopTypes, Index!diskVars
  <1>4. CASE UNCHANGED <<Index!diskVars, Index!watchVars>>
    BY <1>3, <1>4 DEF Index!watchVars
  <1>5. CASE Index!Publish \/ Index!Notify
    BY <1>3, <1>5 DEF Index!Publish, Index!Notify, Index!Returned
  <1>6. QED
    BY <1>1, <1>2, <1>4, <1>5, Groups
    DEF Index!LoopAcquire, Index!ScanHomes, Index!ScanFails, Index!CountStat, Index!CountRead,
         Index!CountEnd, Index!SyncRefresh, Index!SyncRead,
        Index!SyncPosted, Index!SyncWakes, Index!ApiRefresh, Index!StreamTakes, Index!vars

\* The refresh that runs is the loop's, that of the sync loop or one of the local API.
LEMMA SyncTypesKept ==
  ASSUME IndexTypes, [Index!Next]_Index!vars
  PROVE  IndexSyncTypes'
  <1> USE DEF IndexTypes, IndexSyncTypes
  <1>1. scan \in ScanRec
    BY DEF IndexScanTypes
  <1>2. CASE Index!DiskStep
    BY <1>2, DiskFrame DEF Index!Others
  <1>3. CASE LoopMoves
    BY <1>3, LoopFrame DEF Index!snapVars
  <1>4. CASE Index!LoopAcquire \/ Index!ApiRefresh
    BY <1>4, ScanStarts DEF Index!LoopAcquire, Index!ApiRefresh, Index!snapVars
  <1>5. ASSUME UNCHANGED <<Index!snapVars, sync, failed>>, scan'.by = scan.by,
               scan.step # "off", scan'.step # "off"
        PROVE  IndexSyncTypes'
    BY <1>5 DEF Index!snapVars
  <1>6. ASSUME NEW u \in SUBSET Claude, Index!ScanHomes(u)
        PROVE  IndexSyncTypes'
    BY <1>1, <1>5, <1>6 DEF Index!ScanHomes, ScanRec
  <1>7. CASE Index!ScanFails \/ Index!CountEnd
    BY <1>1, <1>5, <1>7 DEF Index!ScanFails, Index!CountEnd, ScanRec
  <1>8. ASSUME NEW s \in Index!Transcripts, Index!CountStat(s)
        PROVE  IndexSyncTypes'
    BY <1>1, <1>5, <1>8 DEF Index!CountStat, ScanRec
  <1>9. CASE Index!CountRead
    BY <1>1, <1>5, <1>9 DEF Index!CountRead, ScanRec
  <1>10. CASE Index!Publish
    <2>1. scan.err \in BOOLEAN
      BY <1>1 DEF ScanRec
    <2>2. /\ lastErr' \in BOOLEAN /\ scanned' \in BOOLEAN /\ firstDone' \in BOOLEAN
          /\ changes' \in BOOLEAN /\ unread' \in BOOLEAN /\ taken' \in BOOLEAN
      BY <1>10, <2>1 DEF Index!Publish
    <2>3. CASE scan' = [scan EXCEPT !.step = "notify"] /\ UNCHANGED <<indexer, sync, failed>>
      BY <1>1, <1>10, <2>2, <2>3 DEF Index!Publish, ScanRec
    <2>4. CASE scan' = Index!NoScan /\ Index!Returned(scan.err)
      <3>1. sync' \in {"idle", "refresh", "read", "post"} /\ failed' \in BOOLEAN
        BY <2>1, <2>4 DEF Index!Returned
      <3>2. QED
        BY <2>2, <2>4, <3>1, ScanStarts
    <2>5. QED
      BY <1>10, <2>3, <2>4 DEF Index!Publish
  <1>11. CASE Index!Notify
    <2>1. /\ scan' = Index!NoScan /\ failed' \in BOOLEAN /\ changes' \in BOOLEAN
          /\ sync' \in {"idle", "refresh", "read", "post"}
      BY <1>11 DEF Index!Notify, Index!NotifyChanged, Index!Returned
    <2>2. QED
      BY <1>11, <2>1, ScanStarts DEF Index!Notify
  <1>12. ASSUME NEW young \in BOOLEAN, Index!SyncRefresh(young)
         PROVE  IndexSyncTypes'
    BY <1>12, ScanStarts DEF Index!SyncRefresh, Index!snapVars
  <1>13. CASE \/ Index!SyncRead \/ Index!SyncPosted \/ Index!StreamTakes
              \/ \E token \in BOOLEAN : Index!SyncWakes(token)
    BY <1>13 DEF Index!SyncRead, Index!SyncPosted, Index!StreamTakes, Index!SyncWakes,
         Index!snapVars
  <1>14. CASE UNCHANGED Index!vars
    BY <1>14 DEF Index!vars, Index!snapVars
  <1>15. QED
    BY <1>2, <1>3, <1>4, <1>6, <1>7, <1>8, <1>9, <1>10, <1>11, <1>12, <1>13, <1>14, Groups

-----------------------------------------------------------------------------
(* Counts *)

\* A reader that begins at the end of a line counts every line that is complete
\* in the part it reads; a cached count goes on only from there.
LEMMA CountsCover ==
  ASSUME IndexTypes, NEW s \in Index!Transcripts, Index!Exists(s), NEW stat \in 0..MaxSize,
       stat <= size[s],
         turnCounts[s].size >= 0 => turnCounts[s].count >= turnCounts[s].size \div 2,
         NEW n \in Index!CountedBlocks(s, stat)
  PROVE  n >= stat \div 2
  <1> DEFINE from == turnCounts[s].size
  <1>1. from \in Int /\ turnCounts[s].count \in Nat /\ size[s] \in Nat /\ stat \in Nat
    BY IndexAssumption DEF IndexTypes, IndexScanTypes, IndexDiskTypes, CountRec
  <1>2. stat \div 2 <= size[s] \div 2
    BY <1>1
  <1>3. ASSUME n \in Index!CountRange(s, 0)
        PROVE  n >= size[s] \div 2
    BY <1>1, <1>3, IndexAssumption DEF Index!CountRange
  <1>4. CASE n = turnCounts[s].count /\ from = stat
    BY <1>1, <1>4
  <1>5. ASSUME from >= 0, Index!CanCountAppendedTail(s, from), NEW m \in Index!CountRange(s, from),
               n = turnCounts[s].count + m
        PROVE  n >= size[s] \div 2
    <2>1. from % 2 = 0
      BY <1>5 DEF Index!CanCountAppendedTail
    <2>2. (from + 1) \div 2 = from \div 2
      BY <1>1, <1>5, <2>1
    <2>3. m \in Nat /\ m >= (size[s] \div 2) - ((from + 1) \div 2)
      BY <1>5, IndexAssumption DEF Index!CountRange
    <2>4. size[s] \div 2 \in Int /\ from \div 2 \in Int /\ turnCounts[s].count >= from \div 2
      BY <1>1, <1>5
    <2>5. QED
      BY <1>1, <1>5, <2>2, <2>3, <2>4
  <1>6. n \in Nat
    <2>1. \A f \in Int : Index!CountRange(s, f) \subseteq Nat
      BY IndexAssumption DEF Index!CountRange
    <2>2. QED
      BY <1>1, <2>1 DEF Index!CountedBlocks
  <1>7. \/ n = turnCounts[s].count /\ from = stat
        \/ from >= 0 /\ Index!CanCountAppendedTail(s, from)
             /\ \E m \in Index!CountRange(s, from) : n = turnCounts[s].count + m
        \/ n \in Index!CountRange(s, 0)
    BY DEF Index!CountedBlocks
  <1>8. n >= size[s] \div 2 => n >= stat \div 2
    BY <1>1, <1>2, <1>6
  <1> HIDE DEF from
  <1>9. QED
    BY <1>3, <1>4, <1>5, <1>7, <1>8

LEMMA CountedKept ==
  ASSUME IndexTypes, Counted, [Index!Next]_Index!vars
  PROVE  Counted'
  <1>1. /\ scan \in ScanRec /\ size \in [Index!Transcripts -> 0..MaxSize] /\ removed \subseteq Index!Transcripts
        /\ turnCounts \in [Index!Transcripts -> CountRec]
        /\ \A s \in Index!Transcripts : turnCounts[s].size \in Int /\ size[s] \in Int
    BY IndexAssumption DEF IndexTypes, IndexDiskTypes, IndexScanTypes, CountRec
  <1>2. scan.stat \in Int
    BY <1>1, IndexAssumption DEF ScanRec
  <1>3. CASE Index!DiskStep
    <2>1. /\ \A s \in Index!Transcripts : Grows(s)
          /\ scan'.step = scan.step /\ scan'.cur = scan.cur /\ scan'.stat = scan.stat
          /\ turnCounts' = turnCounts /\ size' \in [Index!Transcripts -> 0..MaxSize]
      BY <1>3, DiskFrame DEF Index!Others, IndexDiskTypes
    <2>2. \A s \in Index!Transcripts : size'[s] \in Int
      BY <2>1, IndexAssumption
    <2>3. QED
      BY <1>1, <1>2, <2>1, <2>2 DEF Counted, Grows
  <1>4. CASE UNCHANGED <<Index!diskVars, turnCounts>> /\ (scan' = scan \/ scan'.step # "read")
    BY <1>4 DEF Counted, Index!diskVars, Index!Exists
  <1>5. ASSUME NEW s \in Index!Transcripts, Index!CountStat(s)
        PROVE  Counted'
    <2>1. CASE Index!Exists(s)
      <3>1. /\ scan'.step = "read" /\ scan'.cur = s /\ scan'.stat = size[s]
            /\ UNCHANGED <<turnCounts, Index!diskVars>>
        BY <1>1, <1>5, <2>1 DEF Index!CountStat, ScanRec
      <3>2. QED
        BY <1>1, <2>1, <3>1 DEF Counted, Index!diskVars, Index!Exists
    <2>2. CASE ~Index!Exists(s)
      <3>1. /\ scan'.step = "stat" /\ UNCHANGED Index!diskVars
            /\ \A t \in Index!Transcripts : turnCounts'[t] = IF t = s THEN Index!NoCount ELSE turnCounts[t]
        BY <1>1, <1>5, <2>2 DEF Index!CountStat, ScanRec
      <3>2. Index!NoCount.size = -1 /\ \A t \in Index!Transcripts : size[t] >= -1
        BY <1>1, IndexAssumption DEF Index!NoCount
      <3>3. QED
        BY <1>1, <3>1, <3>2 DEF Counted, Index!diskVars
    <2>3. QED
      BY <2>1, <2>2
  <1>6. CASE Index!CountRead
    <2>1. PICK n \in Index!CountedBlocks(scan.cur, scan.stat) :
            /\ turnCounts' = [turnCounts EXCEPT ![scan.cur] = [size |-> scan.stat, count |-> n]]
            /\ scan' = [scan EXCEPT !.step = "stat", !.todo = @ \ {scan.cur}, !.cur = "none",
                                    !.stat = 0]
      BY <1>6 DEF Index!CountRead
    <2>2. scan.cur \in Index!Transcripts /\ scan.step = "read" /\ UNCHANGED Index!diskVars /\ scan'.step = "stat"
      BY <1>1, <1>6, <2>1 DEF Counted, Index!CountRead, ScanRec
    <2>3. ASSUME scan.cur \notin removed
          PROVE  scan.stat <= size[scan.cur] /\ n >= scan.stat \div 2
      <3>1. /\ Index!Exists(scan.cur) /\ scan.stat <= size[scan.cur]
            /\ turnCounts[scan.cur].size >= 0 =>
                 turnCounts[scan.cur].count >= turnCounts[scan.cur].size \div 2
        BY <2>2, <2>3 DEF Counted
      <3>2. scan.stat \in 0..MaxSize
        BY <1>1 DEF ScanRec
      <3>3. QED
        BY <2>1, <2>2, <3>1, <3>2, CountsCover
    <2>4. \A s \in Index!Transcripts :
            turnCounts'[s] = IF s = scan.cur THEN [size |-> scan.stat, count |-> n]
                                             ELSE turnCounts[s]
      BY <1>1, <2>1
    <2>5. QED
      BY <1>1, <2>2, <2>3, <2>4 DEF Counted, Index!diskVars
  <1>7. CASE Index!CountEnd
    <2>1. /\ scan'.step = "publish" /\ UNCHANGED Index!diskVars
          /\ \A t \in Index!Transcripts : turnCounts'[t] \in {Index!NoCount, turnCounts[t]}
      BY <1>1, <1>7 DEF Index!CountEnd, ScanRec
    <2>2. Index!NoCount.size = -1 /\ \A t \in Index!Transcripts : size[t] >= -1
      BY <1>1, IndexAssumption DEF Index!NoCount
    <2>3. QED
      BY <1>1, <2>1, <2>2 DEF Counted, Index!diskVars
  <1>8. CASE LoopMoves
    BY <1>4, <1>8, LoopFrame DEF IndexTypes
  <1>9. CASE Index!LoopAcquire \/ Index!ApiRefresh \/ \E young \in BOOLEAN : Index!SyncRefresh(young)
    BY <1>4, <1>9, ScanStarts DEF Index!LoopAcquire, Index!ApiRefresh, Index!SyncRefresh
  <1>10. CASE Index!ScanFails \/ \E u \in SUBSET Claude : Index!ScanHomes(u)
    BY <1>1, <1>4, <1>10 DEF Index!ScanFails, Index!ScanHomes, ScanRec
  <1>11. CASE Index!Publish \/ Index!Notify
    BY <1>1, <1>4, <1>11, ScanStarts DEF Index!Publish, Index!Notify, ScanRec
  <1>12. CASE \/ Index!SyncRead \/ Index!SyncPosted \/ Index!StreamTakes \/ UNCHANGED Index!vars
              \/ \E token \in BOOLEAN : Index!SyncWakes(token)
    BY <1>4, <1>12 DEF Index!SyncRead, Index!SyncPosted, Index!StreamTakes, Index!SyncWakes,
         Index!vars
  <1>13. QED
    BY <1>3, <1>5, <1>6, <1>7, <1>8, <1>9, <1>10, <1>11, <1>12, Groups

-----------------------------------------------------------------------------
(* The catalog and its token *)

\* What a refresh does at its end.
LEMMA PublishDoes ==
  ASSUME IndexTypes, Index!Publish
  PROVE  /\ snap' = Index!Stored(scan) /\ scanned' = (scanned \/ ~scan.err) /\ firstDone'
         /\ settled' = (IF scan.err THEN settled ELSE scan.base)
         /\ changes' = changes /\ taken' = taken /\ scan.step = "publish"
         /\ \/ /\ scan' = [scan EXCEPT !.step = "notify"] /\ ~scan.err
               /\ UNCHANGED <<sync, failed>>
            \/ scan' = Index!NoScan /\ Index!Returned(scan.err) /\ unread' = unread
  <1>1. unread \in BOOLEAN /\ scan.err \in BOOLEAN
    BY DEF IndexTypes, IndexSyncTypes, IndexScanTypes, ScanRec
  <1>2. CASE ~scan.err /\ snap' # snap
    BY <1>1, <1>2 DEF Index!Publish
  <1>3. CASE ~(~scan.err /\ snap' # snap)
    BY <1>1, <1>3 DEF Index!Publish
  <1>4. QED
    BY <1>2, <1>3

LEMMA SettledKept ==
  ASSUME IndexTypes, Settled, [Index!Next]_Index!vars
  PROVE  Settled'
  <1>1. scan \in ScanRec
    BY DEF IndexTypes, IndexScanTypes
  <1>2. CASE Index!DiskStep
    BY <1>2, DiskFrame DEF Settled, Index!Others
  <1>3. CASE Index!Publish
    <2>1. ~scan.err => snap'.listed = scan.listed
      BY <1>3, PublishDoes DEF Index!Stored, Index!Snapshot
    <2>2. scan.err => snap' = snap
      BY <1>3, PublishDoes DEF Index!Stored
    <2>3. settled' \subseteq snap'.listed
      BY <1>3, <2>1, <2>2, PublishDoes DEF Settled
    <2>4. scan'.base \subseteq scan'.listed
      BY <1>1, <1>3, ScanStarts, PublishDoes DEF Settled, ScanRec
    <2>5. QED
      BY <2>3, <2>4 DEF Settled
  <1>4. CASE UNCHANGED <<snap,
       settled>> /\ (scan' = scan \/ scan'.base = {} \/ scan'.base = scan'.listed)
    BY <1>4 DEF Settled
  <1>5. ASSUME NEW u \in SUBSET Claude, Index!ScanHomes(u)
        PROVE  Settled'
    BY <1>1, <1>4, <1>5 DEF Index!ScanHomes, ScanRec, Index!snapVars
  <1>6. CASE Index!ScanFails \/ Index!CountRead \/ Index!CountEnd \/ \E s \in Index!Transcripts : Index!CountStat(s)
    <2>1. scan'.base = scan.base /\ scan'.listed = scan.listed /\ UNCHANGED <<snap, settled>>
      BY <1>1, <1>6 DEF Index!ScanFails, Index!CountRead, Index!CountEnd, Index!CountStat, ScanRec,
           Index!snapVars
    <2>2. QED
      BY <2>1 DEF Settled
  <1>7. CASE LoopMoves
    BY <1>4, <1>7, LoopFrame DEF IndexTypes, Index!snapVars
  <1>8. CASE \/ Index!LoopAcquire \/ Index!ApiRefresh \/ Index!Notify
             \/ \E young \in BOOLEAN : Index!SyncRefresh(young)
    BY <1>4, <1>8, ScanStarts
    DEF Index!LoopAcquire, Index!ApiRefresh, Index!Notify, Index!SyncRefresh, Index!snapVars
  <1>9. CASE \/ Index!SyncRead \/ Index!SyncPosted \/ Index!StreamTakes \/ UNCHANGED Index!vars
             \/ \E token \in BOOLEAN : Index!SyncWakes(token)
    BY <1>4, <1>9 DEF Index!SyncRead, Index!SyncPosted, Index!StreamTakes, Index!SyncWakes,
         Index!snapVars, Index!vars
  <1>10. QED
    BY <1>2, <1>3, <1>5, <1>6, <1>7, <1>8, <1>9, Groups

LEMMA SignalledKept ==
  ASSUME IndexTypes, Signalled, [Index!Next]_Index!vars
  PROVE  Signalled'
  <1> USE DEF Signalled, Index!ChangeIsSignalled
  <1>1. scan \in ScanRec /\ IndexSyncTypes
    BY DEF IndexTypes, IndexScanTypes
  <1>2. CASE UNCHANGED <<unread, changes, taken, failed, firstDone, scanned, sync>>
             /\ (scan'.step = scan.step \/ (scan.step # "notify" /\ scan'.step # "notify"))
    BY <1>2
  <1>3. CASE Index!DiskStep
    BY <1>2, <1>3, DiskFrame DEF Index!Others
  <1>4. CASE LoopMoves
    BY <1>2, <1>4, LoopFrame DEF IndexTypes, Index!snapVars
  <1>5. CASE Index!LoopAcquire \/ Index!ApiRefresh
    BY <1>1, <1>2, <1>5, ScanStarts
    DEF Index!LoopAcquire, Index!ApiRefresh, Index!snapVars, IndexSyncTypes
  <1>6. CASE \E u \in SUBSET Claude : Index!ScanHomes(u)
    BY <1>1, <1>2, <1>6 DEF Index!ScanHomes, ScanRec, Index!snapVars
  <1>7. CASE Index!ScanFails \/ Index!CountRead \/ Index!CountEnd \/ \E s \in Index!Transcripts : Index!CountStat(s)
    <2>1. scan.step # "notify" /\ scan'.step # "notify"
      BY <1>1, <1>7 DEF Index!ScanFails, Index!CountRead, Index!CountEnd, Index!CountStat, ScanRec
    <2>2. QED
      BY <1>2, <1>7, <2>1 DEF Index!ScanFails, Index!CountRead, Index!CountEnd, Index!CountStat,
           Index!snapVars
  <1>8. CASE Index!Publish
    <2>1. /\ firstDone' /\ changes' = changes /\ taken' = taken /\ scan.step = "publish"
          /\ scanned' = (scanned \/ ~scan.err)
      BY <1>8, PublishDoes
    <2>2. CASE scan' = [scan EXCEPT !.step = "notify"] /\ ~scan.err /\ UNCHANGED <<sync, failed>>
      <3>1. scan'.step = "notify"
        BY <1>1, <2>2 DEF ScanRec
      <3>2. QED
        BY <2>1, <2>2, <3>1
    <2>3. CASE scan' = Index!NoScan /\ Index!Returned(scan.err) /\ unread' = unread
      <3>1. scan'.step = "off"
        BY <2>3, ScanStarts
      <3>2. sync' = "idle" => (sync = "idle" /\ failed' = failed) \/ failed'
        BY <1>1, <2>3 DEF Index!Returned, IndexSyncTypes
      <3>3. sync' = "post" => sync = "post"
        BY <2>3 DEF Index!Returned
      <3>4. sync' = "read" => sync = "read" \/ ~scan.err
        BY <2>3 DEF Index!Returned
      <3>5. QED
        BY <2>1, <2>3, <3>1, <3>2, <3>3, <3>4
    <2>4. QED
      BY <1>8, <2>2, <2>3, PublishDoes
  <1>9. CASE Index!Notify
    <2>1. changes' /\ scan.step = "notify" /\ scan'.step = "off" /\ UNCHANGED <<unread, firstDone,
         scanned>>
      BY <1>9, ScanStarts DEF Index!Notify, Index!NotifyChanged
    <2>2. QED
      BY <2>1
  <1>10. ASSUME NEW young \in BOOLEAN, Index!SyncRefresh(young)
         PROVE  Signalled'
    <2>1. /\ scan.step = "off" /\ scan'.step # "notify"
          /\ UNCHANGED <<unread, changes, taken, failed, firstDone, scanned>>
      BY <1>1, <1>10, ScanStarts DEF Index!SyncRefresh, IndexSyncTypes, Index!snapVars
    <2>2. sync' \in {"read", "scan"} /\ (sync' = "read" => scanned)
      BY <1>10 DEF Index!SyncRefresh, Index!FreshEnough
    <2>3. QED
      BY <2>1, <2>2
  <1>11. CASE Index!SyncRead
    BY <1>11 DEF Index!SyncRead
  <1>12. CASE Index!SyncPosted
    BY <1>12 DEF Index!SyncPosted, Index!snapVars
  <1>13. ASSUME NEW token \in BOOLEAN, Index!SyncWakes(token)
         PROVE  Signalled'
    BY <1>13 DEF Index!SyncWakes
  <1>14. CASE Index!StreamTakes
    BY <1>14 DEF Index!StreamTakes
  <1>15. CASE UNCHANGED Index!vars
    BY <1>2, <1>15 DEF Index!vars, Index!snapVars
  <1>16. QED
    BY <1>3, <1>4, <1>5, <1>6, <1>7, <1>8, <1>9, <1>10, <1>11, <1>12, <1>13, <1>14, <1>15, Groups

-----------------------------------------------------------------------------

LEMMA IndexInvAlways == Index!Spec => []IndexInv
  <1>1. Index!Init => IndexInv
    <2>1. SUFFICES ASSUME Index!Init
                   PROVE  IndexInv
      OBVIOUS
    <2>2. IndexDiskTypes /\ IndexLoopTypes
      <3>1. place \in [Index!Transcripts -> {"none", "live"}] /\ 0 \in 0..MaxEdits
        BY <2>1, IndexAssumption DEF Index!Init
      <3>2. IndexDiskTypes
        BY <2>1, <3>1 DEF Index!Init, IndexDiskTypes
      <3>3. IndexLoopTypes
        BY <2>1 DEF Index!Init, IndexLoopTypes
      <3>4. QED
        BY <3>2, <3>3
    <2>3. [s \in Index!Transcripts |-> Index!NoCount] \in [Index!Transcripts -> CountRec]
      BY IndexAssumption DEF Index!NoCount, CountRec
    <2>4. IndexScanTypes /\ IndexSyncTypes
      <3>1. snap.listed = {} /\ snap.deleted = {}
        BY <2>1 DEF Index!Init, Index!NoSnap
      <3>2. scan \in ScanRec /\ scan.by = "none" /\ scan.step = "off"
        BY <2>1, ScanStarts DEF Index!Init
      <3>3. 0 \in 0..MaxErrors
        BY IndexAssumption
      <3>4. IndexScanTypes
        BY <2>1, <2>3, <3>1, <3>2, <3>3 DEF Index!Init, IndexScanTypes
      <3>5. IndexSyncTypes
        BY <2>1, <3>2 DEF Index!Init, IndexSyncTypes
      <3>6. QED
        BY <3>4, <3>5
    <2>5. Counted
      <3>1. \A s \in Index!Transcripts : turnCounts[s].size = -1 /\ size[s] >= -1
        BY <2>1, IndexAssumption DEF Index!Init, Index!NoCount
      <3>2. scan.step = "off"
        BY <2>1, ScanStarts DEF Index!Init
      <3>3. QED
        BY <3>1, <3>2 DEF Counted
    <2>6. Settled /\ Signalled
      BY <2>1, ScanStarts DEF Index!Init, Settled, Signalled, Index!ChangeIsSignalled
    <2>7. QED
      BY <2>2, <2>4, <2>5, <2>6 DEF IndexInv, IndexTypes
  <1>2. IndexInv /\ [Index!Next]_Index!vars => IndexInv'
    BY OtherTypesKept, ScanTypesKept, SyncTypesKept, CountedKept, SettledKept, SignalledKept
    DEF IndexInv, IndexTypes
  <1>3. QED
    BY <1>1, <1>2, PTL DEF Index!Spec

\* notifyChanged runs after the snapshot is stored and outside the lock the sync loop reads it
\* under: whatever the loop was doing, a change it has not read is in Changes(), on its way
\* there, left by a run that failed, or was told to a block stream of the local API, which
\* listens to the same channel.
THEOREM ChangeIsSignalledAlways == Index!Spec => []ChangeIsSignalled
  <1>1. IndexInv => ChangeIsSignalled
    BY DEF IndexInv, Signalled, Index!ChangeIsSignalled, ChangeIsSignalled
  <1>2. QED
    BY <1>1, IndexInvAlways, PTL

\* Projects is read after RefreshIfStale by a loop that does not hold refreshMu in between: the
\* catalog Nexus takes for complete is from a good scan and lists what was there from it on.
THEOREM CatalogWasScannedAlways == Index!Spec => []CatalogWasScanned
  <1>1. IndexInv => CatalogWasScanned
    BY DEF IndexInv, Signalled, Settled, CatalogWasScanned
  <1>2. QED
    BY <1>1, IndexInvAlways, PTL

\* countSessionBlocksCached takes the size before it reads a file that grows meanwhile, and goes
\* on from it later: no complete line is lost, whatever was being written.
THEOREM CountCoversLinesAlways == Index!Spec => []CountCoversLines
  <1>1. IndexInv => CountCoversLines
    <2>1. SUFFICES ASSUME IndexInv
                   PROVE  CountCoversLines
      OBVIOUS
    <2>2. \A s \in Index!Transcripts : turnCounts[s].size \in -1..MaxSize
      BY <2>1 DEF IndexInv, IndexTypes, IndexScanTypes, CountRec
    <2>3. /\ scan.by \in {"none", "loop", "sync", "api"}
          /\ scan.step \in {"off", "list", "stat", "read", "publish", "notify"}
      BY <2>1 DEF IndexInv, IndexTypes, IndexScanTypes, ScanRec
    <2>4. Index!IndexTypeOK
      <3>1. IndexDiskTypes /\ IndexLoopTypes /\ IndexScanTypes /\ IndexSyncTypes
        BY <2>1 DEF IndexInv, IndexTypes
      <3>2. QED
        BY <2>2, <2>3, <3>1 DEF Index!IndexTypeOK, IndexDiskTypes, IndexLoopTypes, IndexScanTypes,
             IndexSyncTypes
    <2>5. QED
      BY <2>1, <2>4 DEF IndexInv, Counted, CountCoversLines, IndexTypeOK, Index!IndexTypeOK,
           Transcripts,
                        Index!Transcripts
  <1>2. QED
    BY <1>1, IndexInvAlways, PTL

=============================================================================
