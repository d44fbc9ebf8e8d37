------------------------ MODULE TerminalStreamProofs ------------------------
(***************************************************************************)
(* Proofs for TerminalStream: the text of a terminal is handed out once,   *)
(* is kept until a truncation says otherwise, is flushed before what is no *)
(* text, and is forwarded while anybody watches.                           *)
(***************************************************************************)
EXTENDS TerminalStream, FiniteSetTheorems, SequenceTheorems, WellFoundedInduction, TLAPS

-----------------------------------------------------------------------------
(* Sequences and maxima *)

\* Append keeps the old elements and adds one.
LEMMA AppendRange ==
  ASSUME NEW S, NEW s \in Seq(S), NEW e \in S
  PROVE  /\ Append(s, e) \in Seq(S)
         /\ Range(Append(s, e)) = Range(s) \cup {e}
  BY AppendProperties DEF Range

\* A suffix has no new elements.
LEMMA SuffixRange ==
  ASSUME NEW S, NEW s \in Seq(S), NEW k \in 0..Len(s)
  PROVE  /\ SubSeq(s, k + 1, Len(s)) \in Seq(S)
         /\ Len(SubSeq(s, k + 1, Len(s))) = Len(s) - k
         /\ Range(SubSeq(s, k + 1, Len(s))) \subseteq Range(s)
         /\ k = 0 => SubSeq(s, k + 1, Len(s)) = s
  BY SubSeqProperties, SubSeqFull DEF Range

\* A nonempty set of texts has a last one.
LEMMA LastText ==
  ASSUME NEW S \in SUBSET Texts, S # {}
  PROVE  /\ Max(S) \in S
         /\ \A x \in S : x <= Max(S)
  <1>1. MaxText \in Nat
    BY StreamAssumption
  <1> DEFINE T == {n \in Nat : MaxText - n \in S}
  <1>2. \A x \in S : x \in Nat /\ x <= MaxText /\ MaxText - x \in T
    BY <1>1 DEF Texts
  <1>3. T \in SUBSET Nat /\ T # {}
    BY <1>2
  <1> HIDE DEF T
  <1>4. PICK n \in T : \A m \in T : n <= m
    <2>1. IsWellFoundedOn({p \in Nat \X Nat : p[1] < p[2]}, Nat)
      BY NatLessThanWellFounded DEF OpToRel
    <2>2. PICK n \in T : \A m \in T : <<m, n>> \notin {p \in Nat \X Nat : p[1] < p[2]}
      BY <1>3, <2>1, WFMin
    <2>3. ASSUME NEW m \in T  PROVE n <= m
      <3>1. <<m, n>> \in Nat \X Nat /\ m \in Nat /\ n \in Nat
        BY <1>3
      <3>2. ~(m < n)
        BY <2>2, <3>1
      <3>. QED
        BY <3>1, <3>2
    <2>. QED
      BY <2>3
  <1> USE DEF T
  <1>5. MaxText - n \in S /\ \A x \in S : x <= MaxText - n
    BY <1>1, <1>2, <1>4
  <1>6. \E x \in S : \A y \in S : x >= y
    BY <1>1, <1>2, <1>5
  <1>. QED
    BY <1>2, <1>6 DEF Max

\* The sequence number of a numbered batch is that of its last text.
LEMMA SeqEndIsLast ==
  ASSUME NEW b \in SUBSET Texts
  PROVE  /\ SeqEnd(b) \in 0..MaxText
         /\ Numbered => \A x \in b : x <= SeqEnd(b)
         /\ Numbered /\ b # {} => SeqEnd(b) > 0
         /\ ~Numbered \/ b = {} => SeqEnd(b) = 0
  <1>1. MaxText \in Nat
    BY StreamAssumption
  <1>2. CASE b = {} \/ ~Numbered
    BY <1>1, <1>2 DEF SeqEnd
  <1>3. CASE b # {} /\ Numbered
    <2>1. SeqEnd(b) = Max(b) /\ Max(b) \in b /\ \A x \in b : x <= Max(b)
      BY <1>3, LastText DEF SeqEnd
    <2>2. SeqEnd(b) \in 1..MaxText
      BY <2>1 DEF Texts
    <2>. QED
      BY <1>1, <1>3, <2>1, <2>2
  <1>. QED
    BY <1>2, <1>3

-----------------------------------------------------------------------------
(* What the batcher's helpers do *)

\* takeLocked: nothing is pending any more; the batch is in the ring with all
\* that was there, unless the truncation is noted.
LEMMA Taken ==
  ASSUME TypeOK, NEW p \in SUBSET Texts, TakeLocked(p)
  PROVE  /\ pending' = {} /\ armed' = FALSE
         /\ ring' \in Seq((SUBSET Texts) \ {{}})
         /\ truncated' \in BOOLEAN
         /\ \A b \in Range(ring') : b \in Range(ring) \/ (b = p /\ p # {})
         /\ ~truncated' => /\ ~truncated
                           /\ \A b \in Range(ring) : b \in Range(ring')
                           /\ p # {} => p \in Range(ring')
  <1> DEFINE B == (SUBSET Texts) \ {{}}
  <1>0. ring \in Seq(B) /\ truncated \in BOOLEAN
    BY DEF TypeOK
  <1>1. CASE p = {}
    BY <1>0, <1>1 DEF TakeLocked
  <1>2. CASE p # {}
    <2> DEFINE r == Append(ring, p)
    <2>1. r \in Seq(B) /\ Range(r) = Range(ring) \cup {p}
      BY <1>0, <1>2, AppendRange
    <2>2. ring' \in Trimmed(r) /\ truncated' = (truncated \/ Len(ring') < Len(r))
          /\ pending' = {} /\ armed' = FALSE
      BY <1>2 DEF TakeLocked
    <2> HIDE DEF r, B
    <2>3. PICK k \in 0..Len(r) : ring' = SubSeq(r, k + 1, Len(r))
      BY <2>2 DEF Trimmed
    <2>4. /\ ring' \in Seq(B) /\ Len(ring') = Len(r) - k
          /\ Range(ring') \subseteq Range(r)
          /\ k = 0 => ring' = r
      BY <2>1, <2>3, SuffixRange
    <2>5. Len(r) \in Nat
      BY <2>1, LenProperties
    <2>6. Len(ring') < Len(r) \/ k = 0
      BY <2>4, <2>5
    <2>7. ~truncated' => ring' = r /\ ~truncated
      BY <2>2, <2>4, <2>6, Zenon
    <2>. QED
      BY <1>0, <1>2, <2>1, <2>2, <2>4, <2>7 DEF B
  <1>. QED
    BY <1>1, <1>2

\* A worker that is handed the batch p has it first, and nothing else with text.
LEMMA Handed ==
  ASSUME TypeOK, NEW w \in Workers, NEW p \in SUBSET Texts, NEW es \in {<<>>, <<{}>>},
         Hand(w, p, es)
  PROVE  /\ todo' \in [Workers -> Seq(SUBSET Texts)]
         /\ \A v \in Workers \ {w} : todo'[v] = todo[v]
         /\ \A i \in DOMAIN todo'[w] : todo'[w][i] = {} \/ (i = 1 /\ todo'[w][i] = p)
         /\ es = <<>> => \A i \in DOMAIN todo'[w] : todo'[w][i] # {}
         /\ stage' = stage
  <1> DEFINE s == IF p = {} THEN es ELSE <<p>> \o es
  <1> HIDE DEF s
  <1>1. s \in Seq(SUBSET Texts) /\ (\A i \in DOMAIN s : s[i] = {} \/ (i = 1 /\ s[i] = p))
        /\ (es = <<>> => \A i \in DOMAIN s : s[i] # {})
    <2> DEFINE t == <<p>> \o es
    <2>1. /\ <<p>> \in Seq(SUBSET Texts) /\ Len(<<p>>) = 1 /\ <<p>>[1] = p
          /\ <<{}>> \in Seq(SUBSET Texts) /\ Len(<<{}>>) = 1 /\ <<{}>>[1] = {}
          /\ <<>> \in Seq(SUBSET Texts) /\ Len(<<>>) = 0
      OBVIOUS
    <2>2. /\ es \in Seq(SUBSET Texts) /\ Len(es) \in 0..1
          /\ \A i \in 1..Len(es) : es[i] = {}
          /\ es = <<>> => Len(es) = 0
      <3>1. CASE es = <<>>
        BY <2>1, <3>1
      <3>2. CASE es = <<{}>>
        <4>1. Len(es) = 1 /\ es[1] = {} /\ es \in Seq(SUBSET Texts)
          BY <2>1, <3>2
        <4>. QED
          BY <2>1, <4>1
      <3>. QED
        BY <3>1, <3>2
    <2>3. /\ t \in Seq(SUBSET Texts) /\ Len(t) = 1 + Len(es)
          /\ \A i \in 1..Len(t) : t[i] = IF i <= 1 THEN p ELSE es[i - 1]
      BY <2>1, <2>2, ConcatProperties
    <2>4. /\ DOMAIN t = 1..Len(t) /\ DOMAIN es = 1..Len(es)
      BY <2>2, <2>3, LenProperties
    <2>5. \A i \in DOMAIN t : t[i] = {} \/ (i = 1 /\ t[i] = p)
      BY <2>2, <2>3, <2>4
    <2>6. es = <<>> /\ p # {} => \A i \in DOMAIN t : t[i] # {}
      BY <2>2, <2>3, <2>4
    <2>7. s = IF p = {} THEN es ELSE t
      BY DEF s
    <2> HIDE DEF t
    <2>. QED
      BY <2>2, <2>3, <2>4, <2>5, <2>6, <2>7
  <1>2. todo' = [todo EXCEPT ![w] = s] /\ stage' = stage
    BY DEF Hand, s
  <1>3. todo \in [Workers -> Seq(SUBSET Texts)]
    BY DEF TypeOK
  <1>. QED
    BY <1>1, <1>2, <1>3

\* A worker that is done with its first event goes on with the second.
LEMMA DoneWith ==
  ASSUME TypeOK, NEW w \in Workers, todo[w] # <<>>, Done(w)
  PROVE  /\ todo' \in [Workers -> Seq(SUBSET Texts)]
         /\ stage' = [stage EXCEPT ![w] = "check"]
         /\ \A v \in Workers \ {w} : todo'[v] = todo[v]
         /\ todo'[w] = Tail(todo[w])
         /\ Len(todo[w]) \in Nat \ {0} /\ Len(todo'[w]) = Len(todo[w]) - 1
         /\ \A i \in DOMAIN todo'[w] : i + 1 \in DOMAIN todo[w] /\ todo'[w][i] = todo[w][i + 1]
         /\ 1 \in DOMAIN todo[w] /\ todo[w][1] = Head(todo[w])
  <1>1. todo[w] \in Seq(SUBSET Texts) /\ todo \in [Workers -> Seq(SUBSET Texts)]
    BY DEF TypeOK
  <1>2. /\ Head(todo[w]) = todo[w][1] /\ Tail(todo[w]) \in Seq(SUBSET Texts)
        /\ Len(Tail(todo[w])) = Len(todo[w]) - 1
        /\ \A i \in 1..Len(Tail(todo[w])) : Tail(todo[w])[i] = todo[w][i + 1]
    BY <1>1, HeadTailProperties
  <1>3. DOMAIN todo[w] = 1..Len(todo[w]) /\ Len(todo[w]) \in Nat \ {0}
    BY <1>1, LenProperties, EmptySeq
  <1>4. todo'[w] = Tail(todo[w]) /\ DOMAIN Tail(todo[w]) = 1..Len(Tail(todo[w]))
    BY <1>1, <1>2, LenProperties DEF Done
  <1>. QED
    BY <1>1, <1>2, <1>3, <1>4 DEF Done

\* Writing to the connection counts the first batch of the worker.
LEMMA Sent ==
  ASSUME TypeOK, NEW w \in Workers, Send(w)
  PROVE  /\ todo[w] # <<>> /\ stage[w] = "send"
         /\ 1 \in DOMAIN todo[w] /\ Head(todo[w]) = todo[w][1]
         /\ live' = [n \in Texts |-> IF w # Reader /\ n \in todo[w][1] THEN live[n] + 1
                                     ELSE live[n]]
         /\ replayed' = [n \in Texts |-> IF w = Reader /\ n \in todo[w][1] THEN replayed[n] + 1
                                         ELSE replayed[n]]
         /\ stage' = [stage EXCEPT ![w] = "mark"]
         /\ UNCHANGED <<added, batcher, delivered, fired, todo, reader, subs, nexus>>
  <1>1. todo[w] \in Seq(SUBSET Texts) /\ todo[w] # <<>>
        /\ live \in [Texts -> Nat] /\ replayed \in [Texts -> Nat]
    BY DEF TypeOK, Send
  <1>2. 1 \in DOMAIN todo[w] /\ Head(todo[w]) = todo[w][1]
    BY <1>1, HeadTailProperties, LenProperties, EmptySeq
  <1> DEFINE b == todo[w][1]
  <1>3. /\ w = Reader => /\ replayed' = [n \in Texts |-> IF n \in b THEN replayed[n] + 1
                                                         ELSE replayed[n]]
                         /\ live' = live
        /\ w # Reader => /\ live' = [n \in Texts |-> IF n \in b THEN live[n] + 1 ELSE live[n]]
                         /\ replayed' = replayed
    BY <1>2 DEF Send
  <1>4. stage[w] = "send" /\ stage' = [stage EXCEPT ![w] = "mark"]
        /\ UNCHANGED <<added, batcher, delivered, fired, todo, reader, subs, nexus>>
    BY DEF Send
  <1> HIDE DEF b
  <1>5. CASE w = Reader
    BY <1>1, <1>2, <1>3, <1>4, <1>5 DEF b
  <1>6. CASE w # Reader
    BY <1>1, <1>2, <1>3, <1>4, <1>6 DEF b
  <1>. QED
    BY <1>5, <1>6

-----------------------------------------------------------------------------
(* Types *)

\* The messages that Nexus sends at once.
LEMMA Told ==
  ASSUME TypeOK, NEW ms \in {<<>>, <<"subscribe">>, <<"unsubscribe">>}, Tell(ms)
  PROVE  /\ toDaemon' \in Seq({"subscribe", "unsubscribe"})
         /\ messages' \in 0..MaxMessages
  <1> DEFINE M == {"subscribe", "unsubscribe"}
  <1>1. <<"subscribe">> \in Seq(M) /\ <<"unsubscribe">> \in Seq(M) /\ <<>> \in Seq(M)
    OBVIOUS
  <1>2. ms \in Seq(M) /\ toDaemon \in Seq(M)
    BY <1>1 DEF TypeOK
  <1>3. toDaemon \o ms \in Seq(M) /\ Len(ms) \in Nat
    BY <1>2, ConcatProperties, LenProperties
  <1>. QED
    BY <1>3, StreamAssumption DEF Tell, TypeOK

LEMMA TypeInit == Init => TypeOK
  <1>1. <<>> \in Seq((SUBSET Texts) \ {{}}) /\ <<>> \in Seq(SUBSET Texts)
        /\ <<>> \in Seq({"subscribe", "unsubscribe"})
    OBVIOUS
  <1> SUFFICES ASSUME Init PROVE TypeOK
    OBVIOUS
  <1>2. /\ todo \in [Workers -> Seq(SUBSET Texts)]
        /\ stage \in [Workers -> {"check", "send", "mark"}]
        /\ live \in [Texts -> Nat] /\ replayed \in [Texts -> Nat]
    BY <1>1 DEF Init
  <1>3. /\ ring \in Seq((SUBSET Texts) \ {{}})
        /\ toDaemon \in Seq({"subscribe", "unsubscribe"})
    BY <1>1 DEF Init
  <1>4. /\ added \in 0..MaxText /\ pending \subseteq Texts /\ delivered \in 0..MaxText
        /\ armed = FALSE /\ truncated \in BOOLEAN /\ fired \subseteq Timers
        /\ reader \in {"idle", "snapshot", "drop"} /\ subs \in Nat
        /\ watching \subseteq Streams \cup Sockets /\ messages \in 0..MaxMessages
        /\ dismissed \in 0..MaxDismissed
    <2>1. added = 0 /\ pending = {} /\ delivered = 0 /\ subs = 0 /\ messages = 0 /\ dismissed = 0
      BY DEF Init
    <2>2. armed = FALSE /\ truncated = FALSE
      BY DEF Init
    <2>3. fired = {} /\ watching = {} /\ reader = "idle"
      BY DEF Init
    <2>4. added \in 0..MaxText /\ delivered \in 0..MaxText /\ messages \in 0..MaxMessages
          /\ subs \in Nat /\ pending \subseteq Texts /\ dismissed \in 0..MaxDismissed
      BY <2>1, StreamAssumption
    <2>5. fired \subseteq Timers /\ watching \subseteq Streams \cup Sockets
          /\ reader \in {"idle", "snapshot", "drop"}
      BY <2>3
    <2>. QED
      BY <2>2, <2>4, <2>5, Zenon
  <1>. QED
    BY <1>2, <1>3, <1>4 DEF TypeOK

LEMMA TypeStep == TypeOK /\ [Next]_vars => TypeOK'
  <1> SUFFICES ASSUME TypeOK, [Next]_vars PROVE TypeOK'
    OBVIOUS
  <1>0. /\ Feeder \in Workers /\ Reader \in Workers /\ Timers \subseteq Workers
        /\ MaxText \in Nat /\ MaxMessages \in Nat
        /\ pending \in SUBSET Texts
    BY StreamAssumption DEF Workers, TypeOK
  <1>1. CASE AddText
    <2> DEFINE p == pending \cup {added + 1}
    <2>1. added + 1 \in 0..MaxText /\ p \in SUBSET Texts /\ p # {}
      <3>1. added < MaxText /\ added \in 0..MaxText
        BY <1>1 DEF AddText, TypeOK
      <3>2. added + 1 \in 0..MaxText /\ added + 1 \in Texts
        BY <1>0, <3>1 DEF Texts
      <3>. QED
        BY <1>0, <3>2
    <2>2. CASE TakeLocked(p) /\ Hand(Feeder, p, <<>>)
      <3>1. /\ pending' = {} /\ armed' = FALSE
            /\ ring' \in Seq((SUBSET Texts) \ {{}})
            /\ truncated' \in BOOLEAN
        BY <2>1, <2>2, Taken
      <3>2. todo' \in [Workers -> Seq(SUBSET Texts)] /\ stage' = stage
        BY <1>0, <2>1, <2>2, Handed
      <3>. QED
        BY <1>1, <2>1, <3>1, <3>2 DEF AddText, TypeOK, nexus
    <2>3. CASE pending' = p /\ Arm /\ UNCHANGED <<ring, truncated, todo, stage>>
      BY <1>1, <2>1, <2>3 DEF AddText, TypeOK, nexus, Arm
    <2>. QED
      BY <1>1, <2>2, <2>3 DEF AddText
  <1>2. CASE AddOther
    <2>1. /\ pending' = {} /\ armed' = FALSE
          /\ ring' \in Seq((SUBSET Texts) \ {{}})
          /\ truncated' \in BOOLEAN
      BY <1>0, <1>2, Taken DEF AddOther
    <2>2. todo' \in [Workers -> Seq(SUBSET Texts)] /\ stage' = stage
      BY <1>0, <1>2, Handed DEF AddOther
    <2>. QED
      BY <1>2, <2>1, <2>2 DEF AddOther, TypeOK, nexus
  <1>3. ASSUME NEW t \in Timers, TimerFires(t) PROVE TypeOK'
    BY <1>3 DEF TimerFires, TypeOK, nexus
  <1>4. ASSUME NEW t \in Timers, TimerFlush(t) PROVE TypeOK'
    <2>1. /\ pending' = {} /\ armed' = FALSE
          /\ ring' \in Seq((SUBSET Texts) \ {{}})
          /\ truncated' \in BOOLEAN
      BY <1>0, <1>4, Taken DEF TimerFlush
    <2>2. todo' \in [Workers -> Seq(SUBSET Texts)] /\ stage' = stage
      BY <1>0, <1>4, Handed DEF TimerFlush
    <2>. QED
      BY <1>4, <2>1, <2>2 DEF TimerFlush, TypeOK, nexus
  <1>5. ASSUME NEW w \in Workers, ShouldSend(w) PROVE TypeOK'
    <2>1. todo' \in [Workers -> Seq(SUBSET Texts)]
          /\ stage' \in [Workers -> {"check", "send", "mark"}]
      <3>1. CASE Done(w)
        BY <1>5, <3>1, DoneWith DEF ShouldSend, TypeOK
      <3>2. CASE ~Done(w)
        BY <1>5, <3>2 DEF ShouldSend, TypeOK
      <3>. QED
        BY <3>1, <3>2
    <2>. QED
      BY <1>5, <2>1 DEF ShouldSend, TypeOK, batcher, nexus
  <1>6. ASSUME NEW w \in Workers, Send(w) PROVE TypeOK'
    <2>1. /\ stage' = [stage EXCEPT ![w] = "mark"]
          /\ UNCHANGED <<added, batcher, delivered, fired, todo, reader, subs, nexus>>
      BY <1>6, Sent
    <2>2. live' = [n \in Texts |-> IF w # Reader /\ n \in todo[w][1] THEN live[n] + 1
                                   ELSE live[n]]
      BY <1>6, Sent
    <2>3. replayed' = [n \in Texts |-> IF w = Reader /\ n \in todo[w][1]
                                       THEN replayed[n] + 1 ELSE replayed[n]]
      BY <1>6, Sent
    <2>4. live' \in [Texts -> Nat]
      BY <2>2 DEF TypeOK
    <2>5. replayed' \in [Texts -> Nat]
      BY <2>3 DEF TypeOK
    <2>. QED
      BY <2>1, <2>4, <2>5 DEF TypeOK, batcher, nexus
  <1>7. ASSUME NEW w \in Workers, MarkDelivered(w) PROVE TypeOK'
    <2>1. todo' \in [Workers -> Seq(SUBSET Texts)]
          /\ stage' \in [Workers -> {"check", "send", "mark"}]
          /\ Head(todo[w]) \in SUBSET Texts
      <3>1. todo[w] # <<>> /\ Done(w)
        BY <1>7 DEF MarkDelivered
      <3>2. todo[w][1] = Head(todo[w]) /\ 1 \in DOMAIN todo[w]
            /\ todo' \in [Workers -> Seq(SUBSET Texts)]
            /\ stage' = [stage EXCEPT ![w] = "check"]
        BY <3>1, DoneWith
      <3>3. todo[w] \in Seq(SUBSET Texts)
        BY DEF TypeOK
      <3>. QED
        BY <3>2, <3>3, ElementOfSeq, LenProperties DEF TypeOK
    <2>2. delivered' \in 0..MaxText
      BY <1>7, <2>1, SeqEndIsLast DEF MarkDelivered, Mark, TypeOK
    <2>. QED
      BY <1>7, <2>1, <2>2 DEF MarkDelivered, TypeOK, batcher, nexus
  <1>8. CASE Receive
    <2>1. Tail(toDaemon) \in Seq({"subscribe", "unsubscribe"})
      BY <1>8, HeadTailProperties DEF Receive, TypeOK
    <2>2. subs' \in Nat /\ reader' \in {"idle", "snapshot", "drop"}
      BY <1>8 DEF Receive, Unsubscribed, TypeOK
    <2>. QED
      BY <1>8, <2>1, <2>2 DEF Receive, TypeOK, batcher
  <1>9. CASE Snapshot
    <2>1. /\ pending' = {} /\ armed' = FALSE
          /\ ring' \in Seq((SUBSET Texts) \ {{}})
          /\ truncated' \in BOOLEAN
      BY <1>0, <1>9, Taken DEF Snapshot
    <2>2. UNION Undelivered(ring') \in SUBSET Texts
      <3>1. Range(ring') \subseteq SUBSET Texts
        BY <2>1, RangeOfSeq DEF Range
      <3>. QED
        BY <3>1 DEF Undelivered
    <2> DEFINE x == UNION Undelivered(ring')
               b == IF x = {} THEN <<>> ELSE <<x>>
    <2>3. b \in Seq(SUBSET Texts)
      BY <2>2
    <2>4. todo' = [todo EXCEPT ![Reader] = b]
      BY <1>9 DEF Snapshot
    <2>5. stage' \in [Workers -> {"check", "send", "mark"}]
      BY <1>0, <1>9 DEF Snapshot, TypeOK
    <2>6. todo' \in [Workers -> Seq(SUBSET Texts)]
      BY <1>0, <2>3, <2>4 DEF TypeOK
    <2>. QED
      BY <1>9, <2>1, <2>5, <2>6 DEF Snapshot, TypeOK, nexus
  <1>10. CASE DropTerminal
    <2>1. /\ pending' = {} /\ armed' = FALSE
          /\ ring' \in Seq((SUBSET Texts) \ {{}})
          /\ truncated' \in BOOLEAN
      BY <1>0, <1>10, Taken DEF DropTerminal
    <2>. QED
      BY <1>10, <2>1 DEF DropTerminal, TypeOK, nexus
  <1>11. ASSUME NEW v \in Streams, StreamOpens(v) \/ StreamCancelled(v) PROVE TypeOK'
    <2>1. watching' \subseteq Streams \cup Sockets
      BY <1>11 DEF StreamOpens, StreamCancelled, TypeOK
    <2>2. /\ toDaemon' \in Seq({"subscribe", "unsubscribe"})
          /\ messages' \in 0..MaxMessages
      BY <1>11, Told DEF StreamOpens, StreamCancelled
    <2>. QED
      BY <1>11, <2>1, <2>2 DEF StreamOpens, StreamCancelled, daemon, batcher, TypeOK
  <1>12. ASSUME NEW v \in Sockets, SocketSubscribes(v) \/ SocketUnsubscribes(v)
         PROVE  TypeOK'
    <2>1. watching' \subseteq Streams \cup Sockets
      BY <1>12 DEF SocketSubscribes, SocketUnsubscribes, TypeOK
    <2>2. /\ toDaemon' \in Seq({"subscribe", "unsubscribe"})
          /\ messages' \in 0..MaxMessages
      BY <1>12, Told DEF SocketSubscribes, SocketUnsubscribes, LastLeaves
    <2>. QED
      BY <1>12, <2>1, <2>2 DEF SocketSubscribes, SocketUnsubscribes, daemon, batcher, TypeOK
  <1>13. ASSUME NEW v \in Sockets, SocketFails(v) PROVE TypeOK'
    BY <1>13 DEF SocketFails, daemon, batcher, TypeOK
  <1>14. CASE UNCHANGED vars
    BY <1>14 DEF vars, batcher, nexus, TypeOK
  <1>15. CASE HttpSubscribes \/ HttpUnsubscribes
    <2>1. /\ toDaemon' \in Seq({"subscribe", "unsubscribe"})
          /\ messages' \in 0..MaxMessages
      BY <1>15, Told DEF HttpSubscribes, HttpUnsubscribes
    <2>2. dismissed' \in 0..MaxDismissed
      BY <1>15, StreamAssumption DEF HttpSubscribes, HttpUnsubscribes, TypeOK
    <2>. QED
      BY <1>15, <2>1, <2>2 DEF HttpSubscribes, HttpUnsubscribes, daemon, batcher, TypeOK
  <1>. QED
    BY <1>1, <1>2, <1>3, <1>4, <1>5, <1>6, <1>7, <1>8, <1>9, <1>10, <1>11, <1>12,
       <1>13, <1>14, <1>15
    DEF Next, Emit

\* The types of the stream's state.
LEMMA TypeCorrect == Spec => []TypeOK
  BY TypeInit, TypeStep, PTL DEF Spec

-----------------------------------------------------------------------------
(* The inductive invariants *)

\* Every text anywhere has been added.
OnlyAdded ==
    /\ pending \subseteq 1..added
    /\ \A b \in Range(ring) : b \subseteq 1..added
    /\ \A w \in Workers : \A i \in DOMAIN todo[w] : todo[w][i] \subseteq 1..added

\* Every text that was added is pending or in the ring, until it is truncated.
Recorded ==
    ~truncated => \A n \in 1..added : n \in pending \/ \E b \in Range(ring) : n \in b

\* A goroutine whose timer fired is free; the reader sends one snapshot at a
\* time, past the check, and takes no other message meanwhile.
Idle ==
    /\ \A t \in fired : todo[t] = <<>>
    /\ Len(todo[Reader]) <= 1
    /\ todo[Reader] # <<>> => stage[Reader] \in {"send", "mark"}
    /\ reader # "idle" => todo[Reader] = <<>>

Senders == Workers \ {Reader}

\* Text that a worker has to emit is nowhere else: neither pending nor with
\* another worker nor in another event; and only the event being marked is sent.
HeldOnce ==
    \A w \in Senders : \A i \in DOMAIN todo[w] : \A n \in todo[w][i] :
        /\ n \notin pending
        /\ live[n] = 0 \/ (i = 1 /\ stage[w] = "mark")
        /\ \A v \in Senders : \A j \in DOMAIN todo[v] : n \in todo[v][j] => v = w /\ j = i

LiveOnce ==
    \A n \in Texts : /\ live[n] <= 1
                     /\ n \in pending \/ n > added => live[n] = 0

\* Once text was replayed, what is left of its batch in the ring counts as
\* delivered, or will as soon as the reader has marked its snapshot.
Delivered(b) == SeqEnd(b) <= delivered
ReplayedOnce ==
    Numbered =>
        /\ \A n \in Texts : replayed[n] > 0 =>
              /\ replayed[n] = 1 /\ n <= added /\ n \notin pending
              /\ \A b \in Range(ring) : n \in b =>
                    \/ Delivered(b)
                    \/ todo[Reader] # <<>> /\ stage[Reader] = "mark" /\ b \subseteq todo[Reader][1]
        /\ todo[Reader] # <<>> => \A n \in todo[Reader][1] :
              /\ n \notin pending
              /\ stage[Reader] = "send" => replayed[n] = 0
              /\ \A b \in Range(ring) : n \in b => Delivered(b) \/ b \subseteq todo[Reader][1]

Inv ==
    /\ TypeOK
    /\ OnlyAdded /\ Recorded /\ Idle
    /\ HeldOnce /\ LiveOnce /\ ReplayedOnce
    /\ FlushedBeforeOther

-----------------------------------------------------------------------------
(* Steps, by what they do to the text *)

\* Text n = added + 1 joins the pending batch.
Collects ==
    /\ added' = added + 1 /\ added + 1 \in Texts
    /\ pending' = pending \cup {added + 1}
    /\ todo[Feeder] = <<>>
    /\ UNCHANGED <<ring, truncated, delivered, fired, todo, stage, reader, live, replayed>>

\* The pending batch goes into the ring, with what has just been added to it.
Seals(p) ==
    /\ pending' = {}
    /\ \A b \in Range(ring') : b \in Range(ring) \/ (b = p /\ p # {})
    /\ ~truncated' => /\ ~truncated
                      /\ \A b \in Range(ring) : b \in Range(ring')
                      /\ p # {} => p \in Range(ring')
    /\ UNCHANGED <<delivered, live, replayed>>

\* It is sealed and handed to worker w.
HandsOut(w, p) ==
    /\ w \in Senders /\ todo[w] = <<>>
    /\ \/ added' = added /\ p = pending
       \/ added' = added + 1 /\ added + 1 \in Texts /\ p = pending \cup {added + 1}
    /\ Seals(p)
    /\ \A v \in Workers \ {w} : todo'[v] = todo[v]
    /\ \A i \in DOMAIN todo'[w] : todo'[w][i] = {} \/ (i = 1 /\ todo'[w][i] = p)
    /\ \A t \in fired' : t \in fired /\ t # w
    /\ UNCHANGED <<stage, reader>>

\* Worker w goes on to its second event.
GoesOn(w) ==
    /\ todo[w] # <<>> /\ stage[w] # "send" /\ Done(w)
    /\ delivered' = IF stage[w] = "mark" THEN Mark(Head(todo[w])) ELSE delivered
    /\ UNCHANGED <<added, pending, ring, truncated, fired, reader, live, replayed>>

\* Its first event passes the check.
Passes(w) ==
    /\ todo[w] # <<>> /\ stage[w] = "check"
    /\ stage' = [stage EXCEPT ![w] = "send"]
    /\ UNCHANGED <<added, pending, ring, truncated, delivered, fired, todo, reader, live,
                   replayed>>

\* The rest: a timer that fires is free, a message is read by a reader that is.
Waits ==
    /\ \A t \in fired' : t \in fired \/ todo[t] = <<>>
    /\ reader' # "idle" => reader # "idle" \/ todo[Reader] = <<>>
    /\ UNCHANGED <<added, pending, ring, truncated, delivered, todo, stage, live, replayed>>

LEMMA Steps ==
  ASSUME TypeOK, Idle, [Next]_vars
  PROVE  \/ Collects
         \/ \E w \in Senders : \E p \in SUBSET Texts : HandsOut(w, p)
         \/ \E w \in Workers : GoesOn(w) \/ Passes(w) \/ Send(w)
         \/ Snapshot \/ DropTerminal \/ Waits
  <1>0. /\ Feeder \in Senders /\ Timers \subseteq Senders /\ Senders \subseteq Workers
        /\ pending \in SUBSET Texts /\ added \in 0..MaxText /\ MaxText \in Nat
        /\ fired \subseteq Timers
    BY StreamAssumption DEF Workers, Senders, TypeOK
  <1>1. CASE AddText
    <2> DEFINE p == pending \cup {added + 1}
    <2>1. added + 1 \in Texts /\ p \in SUBSET Texts /\ p # {} /\ added' = added + 1
          /\ todo[Feeder] = <<>> /\ UNCHANGED <<delivered, fired, reader, live, replayed>>
      <3>1. added < MaxText /\ added' = added + 1 /\ todo[Feeder] = <<>>
            /\ UNCHANGED <<delivered, fired, reader, live, replayed>>
        BY <1>1 DEF AddText
      <3>2. added + 1 \in Texts
        BY <1>0, <3>1 DEF Texts
      <3>. QED
        BY <1>0, <3>1, <3>2
    <2>2. CASE TakeLocked(p) /\ Hand(Feeder, p, <<>>)
      <3>1. /\ pending' = {}
            /\ \A b \in Range(ring') : b \in Range(ring) \/ (b = p /\ p # {})
            /\ ~truncated' => /\ ~truncated
                              /\ \A b \in Range(ring) : b \in Range(ring')
                              /\ p # {} => p \in Range(ring')
        BY <2>1, <2>2, Taken
      <3>2. /\ \A v \in Workers \ {Feeder} : todo'[v] = todo[v]
            /\ \A i \in DOMAIN todo'[Feeder] :
                  todo'[Feeder][i] = {} \/ (i = 1 /\ todo'[Feeder][i] = p)
            /\ stage' = stage
        BY <1>0, <2>1, <2>2, Handed
      <3>3. \A t \in fired' : t \in fired /\ t # Feeder
        BY <1>0, <2>1, StreamAssumption
      <3>4. Seals(p)
        BY <2>1, <3>1 DEF Seals
      <3>5. HandsOut(Feeder, p)
        BY <1>0, <2>1, <3>2, <3>3, <3>4 DEF HandsOut
      <3>. QED
        BY <1>0, <2>1, <3>5
    <2>3. CASE pending' = p /\ Arm /\ UNCHANGED <<ring, truncated, todo, stage>>
      BY <2>1, <2>3 DEF Collects
    <2>. QED
      BY <1>1, <2>2, <2>3 DEF AddText
  <1>2. CASE AddOther
    <2>1. /\ pending' = {}
          /\ \A b \in Range(ring') : b \in Range(ring) \/ (b = pending /\ pending # {})
          /\ ~truncated' => /\ ~truncated
                            /\ \A b \in Range(ring) : b \in Range(ring')
                            /\ pending # {} => pending \in Range(ring')
      BY <1>0, <1>2, Taken DEF AddOther
    <2>2. /\ \A v \in Workers \ {Feeder} : todo'[v] = todo[v]
          /\ \A i \in DOMAIN todo'[Feeder] :
                todo'[Feeder][i] = {} \/ (i = 1 /\ todo'[Feeder][i] = pending)
          /\ stage' = stage
      BY <1>0, <1>2, Handed DEF AddOther
    <2>3. Seals(pending) /\ todo[Feeder] = <<>> /\ added' = added /\ reader' = reader
          /\ fired' = fired
      BY <1>2, <2>1 DEF Seals, AddOther
    <2>4. HandsOut(Feeder, pending)
      BY <1>0, <2>2, <2>3, StreamAssumption DEF HandsOut
    <2>. QED
      BY <1>0, <2>4
  <1>3. ASSUME NEW t \in Timers, TimerFires(t) PROVE Waits
    BY <1>3 DEF TimerFires, Waits, nexus
  <1>4. ASSUME NEW t \in Timers, TimerFlush(t)
        PROVE  \E w \in Senders : \E p \in SUBSET Texts : HandsOut(w, p)
    <2>1. /\ pending' = {}
          /\ \A b \in Range(ring') : b \in Range(ring) \/ (b = pending /\ pending # {})
          /\ ~truncated' => /\ ~truncated
                            /\ \A b \in Range(ring) : b \in Range(ring')
                            /\ pending # {} => pending \in Range(ring')
      BY <1>0, <1>4, Taken DEF TimerFlush
    <2>2. /\ \A v \in Workers \ {t} : todo'[v] = todo[v]
          /\ \A i \in DOMAIN todo'[t] : todo'[t][i] = {} \/ (i = 1 /\ todo'[t][i] = pending)
          /\ stage' = stage
      BY <1>0, <1>4, Handed DEF TimerFlush
    <2>3. Seals(pending) /\ todo[t] = <<>> /\ added' = added /\ reader' = reader
          /\ fired' = fired \ {t}
      BY <1>4, <2>1 DEF Seals, TimerFlush, Idle
    <2>4. HandsOut(t, pending)
      BY <1>0, <2>2, <2>3 DEF HandsOut
    <2>. QED
      BY <1>0, <2>4
  <1>5. ASSUME NEW w \in Workers, ShouldSend(w) PROVE GoesOn(w) \/ Passes(w)
    BY <1>5 DEF ShouldSend, GoesOn, Passes, batcher
  <1>6. ASSUME NEW w \in Workers, MarkDelivered(w) PROVE GoesOn(w)
    BY <1>6 DEF MarkDelivered, GoesOn, batcher
  <1>7. CASE Receive
    BY <1>7 DEF Receive, Waits, batcher
  <1>8. ASSUME NEW v \in Streams, StreamOpens(v) \/ StreamCancelled(v) PROVE Waits
    BY <1>8 DEF StreamOpens, StreamCancelled, daemon, batcher, Waits
  <1>9. ASSUME NEW v \in Sockets,
               SocketSubscribes(v) \/ SocketUnsubscribes(v) \/ SocketFails(v)
        PROVE  Waits
    BY <1>9 DEF SocketSubscribes, SocketUnsubscribes, SocketFails, daemon, batcher, Waits
  <1>10. CASE UNCHANGED vars
    BY <1>10 DEF vars, batcher, nexus, Waits
  <1>11. CASE HttpSubscribes \/ HttpUnsubscribes
    BY <1>11 DEF HttpSubscribes, HttpUnsubscribes, daemon, batcher, Waits
  <1>. QED
    BY <1>1, <1>2, <1>3, <1>4, <1>5, <1>6, <1>7, <1>8, <1>9, <1>10, <1>11 DEF Next, Emit
\* The reader is handed the snapshot s; nobody else notices.
Replays(s) ==
    /\ s = UNION Undelivered(ring') /\ s \in SUBSET Texts
    /\ Seals(pending)
    /\ reader = "snapshot" /\ reader' = "idle"
    /\ \A w \in Senders : todo'[w] = todo[w] /\ stage'[w] = stage[w]
    /\ Len(todo'[Reader]) <= 1
    /\ \A i \in DOMAIN todo'[Reader] : i = 1 /\ todo'[Reader][1] = s
    /\ todo'[Reader] # <<>> => stage'[Reader] = "send"
    /\ UNCHANGED <<added, fired>>

LEMMA Snapshots ==
  ASSUME TypeOK, Snapshot
  PROVE  \E s : Replays(s)
  <1> DEFINE s == UNION Undelivered(ring')
             q == IF s = {} THEN <<>> ELSE <<s>>
  <1>0. pending \in SUBSET Texts /\ Reader \in Workers /\ Reader \notin Senders
    BY DEF TypeOK, Workers, Senders
  <1>1. /\ pending' = {} /\ ring' \in Seq((SUBSET Texts) \ {{}})
        /\ \A b \in Range(ring') : b \in Range(ring) \/ (b = pending /\ pending # {})
        /\ ~truncated' => /\ ~truncated
                          /\ \A b \in Range(ring) : b \in Range(ring')
                          /\ pending # {} => pending \in Range(ring')
    BY <1>0, Taken DEF Snapshot
  <1>2. Seals(pending)
    BY <1>1 DEF Seals, Snapshot
  <1>3. s \in SUBSET Texts
    <2>1. Range(ring') \subseteq SUBSET Texts
      BY <1>1, RangeOfSeq DEF Range
    <2>. QED
      BY <2>1 DEF Undelivered
  <1>4. todo' = [todo EXCEPT ![Reader] = q]
        /\ stage' = [stage EXCEPT ![Reader] = IF s = {} THEN "check" ELSE "send"]
        /\ reader = "snapshot" /\ reader' = "idle" /\ UNCHANGED <<added, fired>>
    BY DEF Snapshot
  <1> HIDE DEF s
  <1>5. /\ Len(q) <= 1 /\ (\A i \in DOMAIN q : i = 1 /\ q[1] = s)
        /\ q # <<>> => s # {}
    <2>1. CASE s = {}
      <3>1. q = <<>>
        BY <2>1
      <3> HIDE DEF q
      <3>. QED
        BY <3>1
    <2>2. CASE s # {}
      <3>1. q = <<s>>
        BY <2>2
      <3>2. Len(<<s>>) = 1 /\ DOMAIN <<s>> = 1..1 /\ <<s>>[1] = s
        OBVIOUS
      <3> HIDE DEF q
      <3>. QED
        BY <2>2, <3>1, <3>2
    <2>. QED
      BY <2>1, <2>2
  <1> HIDE DEF q
  <1>6. todo'[Reader] = q /\ (q # <<>> => stage'[Reader] = "send")
        /\ \A w \in Senders : todo'[w] = todo[w] /\ stage'[w] = stage[w]
    BY <1>0, <1>4, <1>5 DEF TypeOK, Senders
  <1>7. s = UNION Undelivered(ring')
    BY DEF s
  <1>8. Len(todo'[Reader]) <= 1 /\ \A i \in DOMAIN todo'[Reader] : i = 1 /\ todo'[Reader][1] = s
    BY <1>5, <1>6
  <1>9. Replays(s)
    BY <1>2, <1>3, <1>4, <1>6, <1>7, <1>8 DEF Replays
  <1>. QED
    BY <1>9

LEMMA Drops ==
  ASSUME TypeOK, DropTerminal
  PROVE  /\ Seals(pending) /\ reader = "drop" /\ reader' = "idle"
         /\ UNCHANGED <<added, fired, todo, stage>>
  BY Taken DEF DropTerminal, Seals, TypeOK

-----------------------------------------------------------------------------
(* Each part is preserved *)

LEMMA OnlyAddedStep ==
  ASSUME TypeOK, Idle, OnlyAdded, [Next]_vars
  PROVE  OnlyAdded'
  <1>0. added \in Nat /\ (\A n \in 1..added : n \in 1..(added + 1)) /\ Reader \in Workers
        /\ Workers = Senders \cup {Reader}
    BY StreamAssumption DEF TypeOK, Workers, Senders
  <1>1. CASE Collects
    <2>1. /\ added' = added + 1 /\ pending' = pending \cup {added + 1}
          /\ ring' = ring /\ todo' = todo
      BY <1>1 DEF Collects
    <2>2. \A n \in 1..added : n \in 1..added'
      BY <1>0, <2>1
    <2>3. pending' \subseteq 1..added'
      BY <1>0, <2>1, <2>2 DEF OnlyAdded
    <2>4. \A b : b \subseteq 1..added => b \subseteq 1..added'
      BY <2>2
    <2> HIDE DEF Collects
    <2>. QED
      BY <2>1, <2>3, <2>4, Zenon DEF OnlyAdded
  <1>2. ASSUME NEW w \in Senders, NEW p \in SUBSET Texts, HandsOut(w, p) PROVE OnlyAdded'
    <2>1. p \subseteq 1..added' /\ \A n \in 1..added : n \in 1..added'
      <3>1. CASE added' = added /\ p = pending
        BY <3>1 DEF OnlyAdded
      <3>2. CASE added' = added + 1 /\ p = pending \cup {added + 1}
        BY <1>0, <3>2 DEF OnlyAdded
      <3>. QED
        BY <1>2, <3>1, <3>2 DEF HandsOut
    <2>2. \A b \in Range(ring') : b \subseteq 1..added'
      BY <1>2, <2>1 DEF HandsOut, Seals, OnlyAdded
    <2>3. \A v \in Workers : \A i \in DOMAIN todo'[v] : todo'[v][i] \subseteq 1..added'
      <3>1. \A i \in DOMAIN todo'[w] : todo'[w][i] \subseteq 1..added'
        BY <1>2, <2>1 DEF HandsOut
      <3>2. \A v \in Workers \ {w} : \A i \in DOMAIN todo'[v] : todo'[v][i] \subseteq 1..added'
        BY <1>2, <2>1 DEF HandsOut, OnlyAdded
      <3>. QED
        BY <3>1, <3>2
    <2>. QED
      BY <1>2, <2>2, <2>3 DEF OnlyAdded, HandsOut, Seals
  <1>3. ASSUME NEW w \in Workers, GoesOn(w) PROVE OnlyAdded'
    <2>1. /\ \A v \in Workers \ {w} : todo'[v] = todo[v]
          /\ \A i \in DOMAIN todo'[w] : i + 1 \in DOMAIN todo[w] /\ todo'[w][i] = todo[w][i + 1]
      BY <1>3, DoneWith DEF GoesOn
    <2>. QED
      BY <1>3, <2>1 DEF OnlyAdded, GoesOn
  <1>4. ASSUME NEW w \in Workers, Passes(w) \/ Send(w) PROVE OnlyAdded'
    BY <1>4 DEF Passes, Send, batcher, OnlyAdded
  <1>5. CASE Snapshot
    <2>1. PICK s : Replays(s)
      BY <1>5, Snapshots
    <2>2. \A b \in Range(ring') : b \subseteq 1..added'
      BY <2>1 DEF Replays, Seals, OnlyAdded
    <2>3. s \subseteq 1..added'
      BY <2>1, <2>2 DEF Replays, Undelivered
    <2>4. \A v \in Workers : \A i \in DOMAIN todo'[v] : todo'[v][i] \subseteq 1..added'
      <3>1. \A i \in DOMAIN todo'[Reader] : todo'[Reader][i] \subseteq 1..added'
        BY <2>1, <2>3 DEF Replays
      <3>2. \A v \in Senders : \A i \in DOMAIN todo'[v] : todo'[v][i] \subseteq 1..added'
        BY <1>0, <2>1 DEF Replays, OnlyAdded
      <3>. QED
        BY <1>0, <3>1, <3>2
    <2>. QED
      BY <2>1, <2>2, <2>4 DEF OnlyAdded, Replays, Seals
  <1>6. CASE DropTerminal
    BY <1>6, Drops DEF OnlyAdded, Seals
  <1>7. CASE Waits
    BY <1>7 DEF OnlyAdded, Waits
  <1>. QED
    BY <1>1, <1>2, <1>3, <1>4, <1>5, <1>6, <1>7, Steps

LEMMA RecordedStep ==
  ASSUME TypeOK, Idle, Recorded, [Next]_vars
  PROVE  Recorded'
  <1>0. added \in Nat /\ (\A n \in 1..(added + 1) : n \in 1..added \/ n = added + 1)
    BY DEF TypeOK
  <1>1. CASE Collects
    BY <1>0, <1>1 DEF Collects, Recorded
  <1>2. ASSUME NEW p, Seals(p),
               \/ added' = added /\ p = pending
               \/ added' = added + 1 /\ p = pending \cup {added + 1}
        PROVE  Recorded'
    <2> SUFFICES ASSUME ~truncated', NEW n \in 1..added'
                 PROVE  \E b \in Range(ring') : n \in b
      BY DEF Recorded
    <2>1. ~truncated /\ (\A b \in Range(ring) : b \in Range(ring'))
          /\ (p # {} => p \in Range(ring'))
      BY <1>2 DEF Seals
    <2>2. n \in p \/ \E b \in Range(ring) : n \in b
      BY <1>0, <1>2, <2>1 DEF Recorded
    <2>. QED
      BY <2>1, <2>2
  <1>3. ASSUME NEW w \in Senders, NEW p \in SUBSET Texts, HandsOut(w, p) PROVE Recorded'
    BY <1>2, <1>3 DEF HandsOut
  <1>4. ASSUME NEW w \in Workers, GoesOn(w) \/ Passes(w) \/ Send(w) PROVE Recorded'
    BY <1>4 DEF GoesOn, Passes, Send, batcher, Recorded
  <1>5. CASE Snapshot
    BY <1>2, <1>5, Snapshots DEF Replays
  <1>6. CASE DropTerminal
    BY <1>2, <1>6, Drops
  <1>7. CASE Waits
    BY <1>7 DEF Recorded, Waits
  <1>. QED
    BY <1>1, <1>3, <1>4, <1>5, <1>6, <1>7, Steps

LEMMA IdleStep ==
  ASSUME TypeOK, Idle, [Next]_vars
  PROVE  Idle'
  <1>0. /\ fired \subseteq Timers /\ Timers \subseteq Senders /\ Reader \notin Senders
        /\ Reader \in Workers /\ Workers = Senders \cup {Reader}
        /\ Len(todo[Reader]) \in Nat /\ todo[Reader] \in Seq(SUBSET Texts)
        /\ stage \in [Workers -> {"check", "send", "mark"}]
    <2>1. Reader \in Workers /\ todo \in [Workers -> Seq(SUBSET Texts)]
      BY DEF Workers, TypeOK
    <2>2. todo[Reader] \in Seq(SUBSET Texts) /\ Len(todo[Reader]) \in Nat
      BY <2>1, LenProperties
    <2>. QED
      BY <2>1, <2>2, StreamAssumption DEF Workers, Senders, TypeOK
  <1>1. CASE Collects
    BY <1>1 DEF Collects, Idle
  <1>2. ASSUME NEW w \in Senders, NEW p \in SUBSET Texts, HandsOut(w, p) PROVE Idle'
    <2>1. todo'[Reader] = todo[Reader] /\ (\A t \in fired' : todo'[t] = todo[t])
      BY <1>0, <1>2 DEF HandsOut
    <2>. QED
      BY <1>2, <2>1 DEF HandsOut, Idle
  <1>3. ASSUME NEW w \in Workers, GoesOn(w) PROVE Idle'
    <2>1. /\ \A v \in Workers \ {w} : todo'[v] = todo[v]
          /\ Len(todo'[w]) = Len(todo[w]) - 1
          /\ stage' = [stage EXCEPT ![w] = "check"]
          /\ todo' \in [Workers -> Seq(SUBSET Texts)]
          /\ todo[w] # <<>>
      BY <1>3, DoneWith DEF GoesOn
    <2>2. \A t \in fired : t # w /\ todo'[t] = <<>>
      BY <1>0, <2>1 DEF Idle
    <2>3. CASE w = Reader
      <3>1. Len(todo'[Reader]) <= 0 /\ todo'[Reader] \in Seq(SUBSET Texts)
        BY <1>0, <2>1, <2>3 DEF Idle
      <3>2. todo'[Reader] = <<>>
        BY <3>1, EmptySeq, LenProperties
      <3>. QED
        BY <1>3, <2>2, <3>1, <3>2 DEF GoesOn, Idle
    <2>4. CASE w # Reader
      BY <1>0, <1>3, <2>1, <2>2, <2>4 DEF GoesOn, Idle
    <2>. QED
      BY <2>3, <2>4
  <1>4. ASSUME NEW w \in Workers, Passes(w) \/ Send(w) PROVE Idle'
    BY <1>0, <1>4 DEF Passes, Send, Idle
  <1>5. CASE Snapshot
    <2>1. PICK s : Replays(s)
      BY <1>5, Snapshots
    <2>. QED
      BY <1>0, <2>1 DEF Replays, Idle
  <1>6. CASE DropTerminal
    BY <1>6, Drops DEF Idle
  <1>7. CASE Waits
    BY <1>7 DEF Idle, Waits
  <1>. QED
    BY <1>1, <1>2, <1>3, <1>4, <1>5, <1>6, <1>7, Steps
LEMMA LiveOnceStep ==
  ASSUME TypeOK, Idle, OnlyAdded, HeldOnce, LiveOnce, [Next]_vars
  PROVE  LiveOnce'
  <1>0. /\ added \in Nat /\ live \in [Texts -> Nat] /\ \A n \in Texts : n \in Nat
        /\ Reader \notin Senders
    BY DEF TypeOK, Texts, Senders
  <1>1. CASE Collects
    BY <1>0, <1>1 DEF Collects, LiveOnce
  <1>2. ASSUME NEW p, Seals(p), added' = added \/ added' = added + 1 PROVE LiveOnce'
    BY <1>0, <1>2 DEF Seals, LiveOnce
  <1>3. ASSUME NEW w \in Senders, NEW p \in SUBSET Texts, HandsOut(w, p) PROVE LiveOnce'
    BY <1>2, <1>3 DEF HandsOut
  <1>4. ASSUME NEW w \in Workers, GoesOn(w) \/ Passes(w) PROVE LiveOnce'
    BY <1>4 DEF GoesOn, Passes, LiveOnce
  <1>5. ASSUME NEW w \in Workers, Send(w) PROVE LiveOnce'
    <2>1. /\ 1 \in DOMAIN todo[w] /\ stage[w] = "send"
          /\ live' = [n \in Texts |-> IF w # Reader /\ n \in todo[w][1] THEN live[n] + 1
                                      ELSE live[n]]
          /\ added' = added /\ pending' = pending
      BY <1>5, Sent DEF batcher
    <2>2. CASE w = Reader
      BY <1>0, <2>1, <2>2 DEF LiveOnce
    <2>3. CASE w # Reader
      <3>1. w \in Senders
        BY <2>3 DEF Senders
      <3>2. \A n \in todo[w][1] : live[n] = 0 /\ n \notin pending /\ n \in 1..added
        BY <2>1, <3>1 DEF HeldOnce, OnlyAdded
      <3>3. ASSUME NEW n \in Texts
            PROVE  live'[n] <= 1 /\ (n \in pending \/ n > added => live'[n] = 0)
        <4>1. CASE n \in todo[w][1]
          <5>1. live'[n] = 1 /\ n \notin pending /\ n <= added
            BY <1>0, <2>1, <2>3, <3>2, <4>1
          <5>. QED
            BY <1>0, <5>1
        <4>2. CASE n \notin todo[w][1]
          <5>1. live'[n] = live[n]
            BY <1>0, <2>1, <4>2
          <5>. QED
            BY <5>1 DEF LiveOnce
        <4>. QED
          BY <4>1, <4>2
      <3>. QED
        BY <2>1, <3>3 DEF LiveOnce
    <2>. QED
      BY <2>2, <2>3
  <1>6. CASE Snapshot
    BY <1>2, <1>6, Snapshots DEF Replays
  <1>7. CASE DropTerminal
    BY <1>2, <1>7, Drops
  <1>8. CASE Waits
    BY <1>8 DEF Waits, LiveOnce
  <1>. QED
    BY <1>1, <1>3, <1>4, <1>5, <1>6, <1>7, <1>8, Steps

LEMMA HeldOnceStep ==
  ASSUME TypeOK, Idle, OnlyAdded, HeldOnce, LiveOnce, [Next]_vars
  PROVE  HeldOnce'
  <1>0. /\ added \in Nat /\ live \in [Texts -> Nat] /\ \A n \in Texts : n \in Nat
        /\ Reader \notin Senders /\ Workers = Senders \cup {Reader}
        /\ stage \in [Workers -> {"check", "send", "mark"}]
    BY DEF TypeOK, Texts, Senders, Workers
  <1>1. CASE Collects
    <2>1. \A w \in Senders : \A i \in DOMAIN todo[w] : added + 1 \notin todo[w][i]
      BY <1>0 DEF OnlyAdded
    <2>. QED
      BY <1>1, <2>1 DEF Collects, HeldOnce
  <1>2. ASSUME NEW w \in Senders, NEW p \in SUBSET Texts, HandsOut(w, p) PROVE HeldOnce'
    <2>1. ASSUME NEW n \in p
          PROVE  live[n] = 0 /\ \A v \in Senders : \A j \in DOMAIN todo[v] : n \notin todo[v][j]
      <3>1. CASE n \in pending
        BY <3>1 DEF LiveOnce, HeldOnce
      <3>2. CASE n = added + 1
        BY <1>0, <3>2 DEF LiveOnce, OnlyAdded
      <3>. QED
        BY <1>2, <3>1, <3>2 DEF HandsOut
    <2>2. /\ pending' = {} /\ live' = live /\ stage' = stage
          /\ \A v \in Workers \ {w} : todo'[v] = todo[v]
          /\ \A i \in DOMAIN todo'[w] : todo'[w][i] = {} \/ (i = 1 /\ todo'[w][i] = p)
      BY <1>2 DEF HandsOut, Seals
    <2>3. ASSUME NEW v \in Senders, NEW i \in DOMAIN todo'[v], NEW n \in todo'[v][i]
          PROVE  /\ live[n] = 0 \/ (i = 1 /\ stage[v] = "mark")
                 /\ \A u \in Senders : \A j \in DOMAIN todo'[u] :
                       n \in todo'[u][j] => u = v /\ j = i
      <3>1. CASE v = w
        <4>1. i = 1 /\ n \in p
          BY <2>2, <2>3, <3>1
        <4>2. ASSUME NEW u \in Senders, NEW j \in DOMAIN todo'[u], n \in todo'[u][j]
              PROVE  u = w /\ j = 1
          BY <1>0, <2>1, <2>2, <4>1, <4>2
        <4>. QED
          BY <2>1, <3>1, <4>1, <4>2
      <3>2. CASE v # w
        <4>1. todo'[v] = todo[v] /\ n \notin p
          BY <1>0, <2>1, <2>2, <2>3, <3>2
        <4>2. ASSUME NEW u \in Senders, NEW j \in DOMAIN todo'[u], n \in todo'[u][j]
              PROVE  u = v /\ j = i
          <5>1. u # w
            BY <2>2, <4>1, <4>2
          <5>2. todo'[u] = todo[u]
            BY <1>0, <2>2, <5>1
          <5>. QED
            BY <2>3, <4>1, <4>2, <5>2 DEF HeldOnce
        <4>. QED
          BY <2>3, <4>1, <4>2 DEF HeldOnce
      <3>. QED
        BY <3>1, <3>2
    <2>. QED
      BY <2>2, <2>3 DEF HeldOnce
  <1>3. ASSUME NEW w \in Workers, GoesOn(w) PROVE HeldOnce'
    <2>1. /\ pending' = pending /\ live' = live
          /\ stage' = [stage EXCEPT ![w] = "check"]
          /\ \A v \in Workers \ {w} : todo'[v] = todo[v]
          /\ \A i \in DOMAIN todo'[w] : i + 1 \in DOMAIN todo[w] /\ todo'[w][i] = todo[w][i + 1]
          /\ DOMAIN todo'[w] \subseteq Nat \ {0}
      <3>1. todo' \in [Workers -> Seq(SUBSET Texts)]
        BY <1>3, DoneWith DEF GoesOn
      <3>2. todo'[w] \in Seq(SUBSET Texts)
        BY <3>1
      <3>3. DOMAIN todo'[w] \subseteq Nat \ {0}
        BY <3>2, LenProperties
      <3>. QED
        BY <1>3, <3>3, DoneWith DEF GoesOn
    <2>2. ASSUME NEW v \in Senders, NEW i \in DOMAIN todo'[v], NEW n \in todo'[v][i]
          PROVE  /\ n \notin pending
                 /\ live[n] = 0 \/ (i = 1 /\ stage'[v] = "mark")
                 /\ \A u \in Senders : \A j \in DOMAIN todo'[u] :
                       n \in todo'[u][j] => u = v /\ j = i
      <3>1. CASE v = w
        <4>1. i + 1 \in DOMAIN todo[v] /\ n \in todo[v][i + 1] /\ i + 1 # 1 /\ i \in Nat
          BY <2>1, <2>2, <3>1
        <4>2. ASSUME NEW u \in Senders, NEW j \in DOMAIN todo'[u], n \in todo'[u][j]
              PROVE  u = v /\ j = i
          <5>1. CASE u = w
            <6>1. j + 1 \in DOMAIN todo[v] /\ n \in todo[v][j + 1] /\ j \in Nat
              BY <2>1, <3>1, <4>2, <5>1
            <6>2. j + 1 = i + 1
              BY <4>1, <6>1 DEF HeldOnce
            <6>. QED
              BY <3>1, <4>1, <5>1, <6>1, <6>2
          <5>2. CASE u # w
            BY <1>0, <2>1, <3>1, <4>1, <4>2, <5>2 DEF HeldOnce
          <5>. QED
            BY <5>1, <5>2
        <4>. QED
          BY <4>1, <4>2 DEF HeldOnce
      <3>2. CASE v # w
        <4>1. todo'[v] = todo[v] /\ stage'[v] = stage[v]
          BY <1>0, <2>1, <3>2
        <4>2. ASSUME NEW u \in Senders, NEW j \in DOMAIN todo'[u], n \in todo'[u][j]
              PROVE  u = v /\ j = i
          <5>1. CASE u = w
            <6>1. j + 1 \in DOMAIN todo[w] /\ n \in todo[w][j + 1]
              BY <2>1, <4>2, <5>1
            <6>2. w = v
              BY <2>2, <4>1, <5>1, <6>1 DEF HeldOnce
            <6>. QED
              BY <3>2, <6>2
          <5>2. CASE u # w
            BY <1>0, <2>1, <2>2, <4>1, <4>2, <5>2 DEF HeldOnce
          <5>. QED
            BY <5>1, <5>2
        <4>. QED
          BY <2>2, <4>1, <4>2 DEF HeldOnce
      <3>. QED
        BY <3>1, <3>2
    <2>. QED
      BY <2>1, <2>2 DEF HeldOnce
  <1>4. ASSUME NEW w \in Workers, Passes(w) PROVE HeldOnce'
    <2>1. \A v \in Senders : stage[v] = "mark" => stage'[v] = "mark"
      BY <1>0, <1>4 DEF Passes
    <2>. QED
      BY <1>4, <2>1 DEF Passes, HeldOnce
  <1>5. ASSUME NEW w \in Workers, Send(w) PROVE HeldOnce'
    <2>1. /\ 1 \in DOMAIN todo[w]
          /\ live' = [n \in Texts |-> IF w # Reader /\ n \in todo[w][1] THEN live[n] + 1
                                      ELSE live[n]]
          /\ stage' = [stage EXCEPT ![w] = "mark"]
          /\ pending' = pending /\ todo' = todo
      BY <1>5, Sent DEF batcher
    <2>2. ASSUME NEW v \in Senders, NEW i \in DOMAIN todo[v], NEW n \in todo[v][i]
          PROVE  live'[n] = 0 \/ (i = 1 /\ stage'[v] = "mark")
      <3>1. CASE w # Reader /\ n \in todo[w][1]
        <4>1. v = w /\ i = 1
          BY <1>0, <2>1, <2>2, <3>1 DEF HeldOnce
        <4>. QED
          BY <1>0, <2>1, <4>1
      <3>2. CASE ~(w # Reader /\ n \in todo[w][1])
        <4>1. n \in Texts
          BY <1>0, <2>2, ElementOfSeq, LenProperties DEF TypeOK
        <4>2. live'[n] = live[n]
          BY <2>1, <3>2, <4>1
        <4>3. stage[v] = "mark" => stage'[v] = "mark"
          BY <1>0, <2>1
        <4>. QED
          BY <2>2, <4>2, <4>3 DEF HeldOnce
      <3>. QED
        BY <3>1, <3>2
    <2>. QED
      BY <2>1, <2>2 DEF HeldOnce
  <1>6. CASE Snapshot
    <2>1. PICK s : Replays(s)
      BY <1>6, Snapshots
    <2>. QED
      BY <2>1 DEF Replays, Seals, HeldOnce
  <1>7. CASE DropTerminal
    BY <1>7, Drops DEF Seals, HeldOnce
  <1>8. CASE Waits
    BY <1>8 DEF Waits, HeldOnce
  <1>. QED
    BY <1>1, <1>2, <1>3, <1>4, <1>5, <1>6, <1>7, <1>8, Steps

LEMMA FlushedStep ==
  ASSUME TypeOK, Idle, FlushedBeforeOther, [Next]_vars
  PROVE  FlushedBeforeOther'
  <1>0. Feeder \in Senders /\ Feeder # Reader /\ Feeder \in Workers
    BY StreamAssumption DEF Workers, Senders
  <1>1. CASE Collects
    <2>1. DOMAIN <<>> = {}
      OBVIOUS
    <2>. QED
      BY <1>1, <2>1 DEF Collects, FlushedBeforeOther
  <1>2. ASSUME NEW p, Seals(p) PROVE FlushedBeforeOther'
    BY <1>2 DEF Seals, FlushedBeforeOther
  <1>3. ASSUME NEW w \in Senders, NEW p \in SUBSET Texts, HandsOut(w, p)
        PROVE  FlushedBeforeOther'
    BY <1>2, <1>3 DEF HandsOut
  <1>4. ASSUME NEW w \in Workers, GoesOn(w) PROVE FlushedBeforeOther'
    <2>1. /\ \A v \in Workers \ {w} : todo'[v] = todo[v]
          /\ \A i \in DOMAIN todo'[w] : i + 1 \in DOMAIN todo[w] /\ todo'[w][i] = todo[w][i + 1]
      BY <1>4, DoneWith DEF GoesOn
    <2>. QED
      BY <1>0, <1>4, <2>1 DEF GoesOn, FlushedBeforeOther
  <1>5. ASSUME NEW w \in Workers, Passes(w) \/ Send(w) PROVE FlushedBeforeOther'
    BY <1>5 DEF Passes, Send, batcher, FlushedBeforeOther
  <1>6. CASE Snapshot
    BY <1>2, <1>6, Snapshots DEF Replays
  <1>7. CASE DropTerminal
    BY <1>2, <1>7, Drops
  <1>8. CASE Waits
    BY <1>8 DEF Waits, FlushedBeforeOther
  <1>. QED
    BY <1>1, <1>3, <1>4, <1>5, <1>6, <1>7, <1>8, Steps
LEMMA ReplayedOnceStep ==
  ASSUME TypeOK, Idle, OnlyAdded, ReplayedOnce, [Next]_vars
  PROVE  ReplayedOnce'
  <1>0. /\ added \in Nat /\ delivered \in Nat /\ replayed \in [Texts -> Nat]
        /\ \A n \in Texts : n \in Nat
        /\ Reader \notin Senders /\ Reader \in Workers
        /\ stage \in [Workers -> {"check", "send", "mark"}]
        /\ todo[Reader] \in Seq(SUBSET Texts)
        /\ todo[Reader] # <<>> => 1 \in DOMAIN todo[Reader] /\ todo[Reader][1] \in SUBSET Texts
    <2>1. todo[Reader] \in Seq(SUBSET Texts) /\ Reader \in Workers
      BY DEF TypeOK, Workers
    <2>2. todo[Reader] # <<>> => 1 \in DOMAIN todo[Reader] /\ todo[Reader][1] \in SUBSET Texts
      BY <2>1, ElementOfSeq, LenProperties, EmptySeq
    <2>3. added \in Nat /\ delivered \in Nat /\ (\A n \in Texts : n \in Nat)
      BY StreamAssumption DEF TypeOK, Texts
    <2>4. replayed \in [Texts -> Nat] /\ stage \in [Workers -> {"check", "send", "mark"}]
          /\ Reader \notin Senders
      BY DEF TypeOK, Senders
    <2>. QED
      BY <2>1, <2>2, <2>3, <2>4
  <1>1. CASE Collects
    <2>1. Numbered => replayed[added + 1] = 0
      BY <1>0, <1>1 DEF Collects, ReplayedOnce
    <2>2. todo[Reader] # <<>> => added + 1 \notin todo[Reader][1]
      BY <1>0 DEF OnlyAdded
    <2>3. /\ added' = added + 1 /\ pending' = pending \cup {added + 1}
          /\ UNCHANGED <<ring, delivered, todo, stage, replayed>>
      BY <1>1 DEF Collects
    <2>4. \A n \in Texts : n <= added => n <= added'
      BY <1>0, <2>3
    <2>5. \A n \in Texts : replayed[n] > 0 /\ Numbered => n # added + 1
      BY <2>1
    <2>. QED
      BY <2>2, <2>3, <2>4, <2>5 DEF ReplayedOnce, Delivered
  \* The batch p is sealed and the reader does nothing.
  <1>2. ASSUME NEW p, Seals(p), todo'[Reader] = todo[Reader], stage'[Reader] = stage[Reader],
               \/ added' = added /\ p = pending
               \/ added' = added + 1 /\ added + 1 \in Texts /\ p = pending \cup {added + 1}
        PROVE  ReplayedOnce'
    <2>1. ASSUME Numbered, NEW n \in p
          PROVE  n \in Texts => ~(replayed[n] > 0)
      <3>1. CASE n \in pending
        BY <2>1, <3>1 DEF ReplayedOnce
      <3>2. CASE n = added + 1
        BY <1>0, <2>1, <3>2 DEF ReplayedOnce
      <3>. QED
        BY <1>2, <2>1, <3>1, <3>2
    <2>2. ASSUME Numbered, NEW n \in p
          PROVE  todo[Reader] # <<>> => n \notin todo[Reader][1]
      <3>1. CASE n \in pending
        BY <2>2, <3>1 DEF ReplayedOnce
      <3>2. CASE n = added + 1
        BY <1>0, <2>2, <3>2 DEF OnlyAdded
      <3>. QED
        BY <1>2, <2>2, <3>1, <3>2
    <2>3. /\ pending' = {} /\ \A b \in Range(ring') : b \in Range(ring) \/ b = p
          /\ delivered' = delivered /\ replayed' = replayed
      BY <1>2 DEF Seals
    <2>4. \A n \in Texts : n <= added => n <= added'
      BY <1>0, <1>2
    <2>. QED
      BY <1>2, <2>1, <2>2, <2>3, <2>4 DEF ReplayedOnce, Delivered
  <1>3. ASSUME NEW w \in Senders, NEW p \in SUBSET Texts, HandsOut(w, p)
        PROVE  ReplayedOnce'
    <2>1. todo'[Reader] = todo[Reader] /\ stage'[Reader] = stage[Reader]
      BY <1>0, <1>3 DEF HandsOut
    <2>. QED
      BY <1>2, <1>3, <2>1 DEF HandsOut
  <1>4. ASSUME NEW w \in Workers, GoesOn(w) PROVE ReplayedOnce'
    <2>1. /\ todo[w] # <<>> /\ stage[w] # "send"
          /\ 1 \in DOMAIN todo[w] /\ Head(todo[w]) = todo[w][1]
          /\ Len(todo'[w]) = Len(todo[w]) - 1 /\ Len(todo[w]) \in Nat \ {0}
          /\ stage' = [stage EXCEPT ![w] = "check"]
          /\ \A v \in Workers \ {w} : todo'[v] = todo[v]
          /\ todo' \in [Workers -> Seq(SUBSET Texts)]
          /\ delivered' = IF stage[w] = "mark" THEN Mark(todo[w][1]) ELSE delivered
          /\ UNCHANGED <<added, pending, ring, replayed>>
      BY <1>4, DoneWith DEF GoesOn
    <2>2. todo[w][1] \in SUBSET Texts
      BY <2>1, ElementOfSeq, LenProperties DEF TypeOK
    <2>3. delivered' \in Nat /\ delivered' >= delivered
          /\ (stage[w] = "mark" => delivered' >= SeqEnd(todo[w][1]))
      <3>1. SeqEnd(todo[w][1]) \in Nat
        BY <2>2, SeqEndIsLast, StreamAssumption
      <3>2. delivered' = IF stage[w] = "mark"
                         THEN IF SeqEnd(todo[w][1]) > delivered THEN SeqEnd(todo[w][1])
                              ELSE delivered
                         ELSE delivered
        BY <2>1 DEF Mark
      <3>. QED
        BY <1>0, <3>1, <3>2
    <2>4. \A b \in Range(ring) : SeqEnd(b) \in Nat
      <3>1. \A b \in Range(ring) : b \in SUBSET Texts
        BY RangeOfSeq DEF TypeOK, Range
      <3>. QED
        BY <3>1, SeqEndIsLast, StreamAssumption
    <2>5. \A b \in Range(ring) : Delivered(b) => SeqEnd(b) <= delivered'
      BY <1>0, <2>3, <2>4 DEF Delivered
    <2>6. CASE w # Reader
      <3>1. todo'[Reader] = todo[Reader] /\ stage'[Reader] = stage[Reader]
        BY <1>0, <2>1, <2>6
      <3>. QED
        BY <2>1, <2>5, <3>1 DEF ReplayedOnce, Delivered
    <2>7. CASE w = Reader
      <3>1. stage[Reader] = "mark"
        BY <2>1, <2>7 DEF Idle
      <3>2. todo'[Reader] = <<>>
        <4>1. todo'[Reader] \in Seq(SUBSET Texts) /\ Len(todo'[Reader]) <= 0
          BY <1>0, <2>1, <2>7 DEF Idle
        <4>. QED
          BY <4>1, EmptySeq, LenProperties
      <3>3. ASSUME Numbered, NEW b \in Range(ring), b \subseteq todo[Reader][1]
            PROVE  SeqEnd(b) <= delivered'
        <4>0. b \in SUBSET Texts /\ b # {}
          BY RangeOfSeq DEF TypeOK, Range
        <4>1. SeqEnd(b) \in b
          BY <3>3, <4>0, LastText DEF SeqEnd
        <4>2. SeqEnd(b) <= SeqEnd(todo[Reader][1]) /\ SeqEnd(todo[Reader][1]) \in Nat
          BY <2>2, <2>7, <3>3, <4>1, SeqEndIsLast, StreamAssumption
        <4>. QED
          BY <2>3, <2>4, <2>7, <3>1, <4>2
      <3>. QED
        BY <2>1, <2>5, <3>2, <3>3 DEF ReplayedOnce, Delivered
    <2>. QED
      BY <2>6, <2>7
  <1>5. ASSUME NEW w \in Workers, Passes(w) PROVE ReplayedOnce'
    <2>1. w # Reader
      BY <1>5 DEF Passes, Idle
    <2>2. stage'[Reader] = stage[Reader]
      BY <1>0, <1>5, <2>1 DEF Passes
    <2>. QED
      BY <1>5, <2>2 DEF Passes, ReplayedOnce, Delivered
  <1>6. ASSUME NEW w \in Workers, Send(w) PROVE ReplayedOnce'
    <2>1. /\ todo[w] # <<>> /\ stage[w] = "send"
          /\ replayed' = [n \in Texts |-> IF w = Reader /\ n \in todo[w][1] THEN replayed[n] + 1
                                          ELSE replayed[n]]
          /\ stage' = [stage EXCEPT ![w] = "mark"]
          /\ UNCHANGED <<added, pending, ring, delivered, todo>>
      BY <1>6, Sent DEF batcher
    <2>2. CASE w # Reader
      <3>1. replayed' = replayed /\ stage'[Reader] = stage[Reader]
        BY <1>0, <2>1, <2>2
      <3>. QED
        BY <2>1, <3>1 DEF ReplayedOnce, Delivered
    <2>3. CASE w = Reader
      <3>1. stage'[Reader] = "mark"
        BY <1>0, <2>1, <2>3
      <3>2. ASSUME Numbered, NEW n \in Texts, replayed'[n] > 0
            PROVE  /\ replayed'[n] = 1 /\ n <= added /\ n \notin pending
                   /\ \A b \in Range(ring) : n \in b =>
                         SeqEnd(b) <= delivered \/ b \subseteq todo[Reader][1]
        <4>1. CASE n \in todo[Reader][1]
          <5>1. replayed[n] = 0 /\ replayed'[n] = 1
            BY <1>0, <2>1, <2>3, <3>2, <4>1 DEF ReplayedOnce
          <5>2. n <= added
            BY <1>0, <2>1, <2>3, <4>1 DEF OnlyAdded
          <5>. QED
            BY <2>1, <2>3, <3>2, <4>1, <5>1, <5>2 DEF ReplayedOnce, Delivered
        <4>2. CASE n \notin todo[Reader][1]
          <5>1. replayed'[n] = replayed[n]
            BY <2>1, <2>3, <4>2
          <5>. QED
            BY <2>1, <2>3, <3>2, <5>1 DEF ReplayedOnce, Delivered
        <4>. QED
          BY <4>1, <4>2
      <3>. QED
        BY <2>1, <2>3, <3>1, <3>2 DEF ReplayedOnce, Delivered
    <2>. QED
      BY <2>2, <2>3
  <1>7. CASE Snapshot
    <2>1. PICK s : Replays(s)
      BY <1>7, Snapshots
    <2>2. /\ pending' = {} /\ \A b \in Range(ring') : b \in Range(ring) \/ b = pending
          /\ delivered' = delivered /\ replayed' = replayed /\ added' = added
          /\ todo[Reader] = <<>>
          /\ \A b \in Range(ring') : b \subseteq Texts /\ b # {}
      <3>1. ring' \in Seq((SUBSET Texts) \ {{}})
        BY TypeStep DEF TypeOK
      <3>2. \A b \in Range(ring') : b \subseteq Texts /\ b # {}
        BY <3>1, RangeOfSeq DEF Range
      <3>. QED
        BY <2>1, <3>2 DEF Replays, Seals, Idle
    <2>3. ASSUME Numbered, NEW n \in Texts, replayed[n] > 0, NEW b \in Range(ring'), n \in b
          PROVE  Delivered(b)
      BY <2>2, <2>3 DEF ReplayedOnce
    <2>4. ASSUME Numbered, NEW n \in s
          PROVE  /\ replayed[n] = 0
                 /\ \A b \in Range(ring') : n \in b => Delivered(b) \/ b \subseteq s
      <3>1. s = UNION {b \in Range(ring') : SeqEnd(b) = 0 \/ SeqEnd(b) > delivered}
        BY <2>1, <2>2 DEF Replays, Undelivered
      <3>2. PICK c \in Range(ring') : n \in c /\ (SeqEnd(c) = 0 \/ SeqEnd(c) > delivered)
        BY <2>4, <3>1
      <3>3. \A b \in Range(ring') : SeqEnd(b) \in Nat /\ SeqEnd(b) > 0
        BY <2>2, <2>4, SeqEndIsLast, StreamAssumption
      <3>4. ~Delivered(c) /\ n \in Texts
        BY <1>0, <2>2, <3>2, <3>3 DEF Delivered
      <3>5. replayed[n] = 0
        BY <1>0, <2>3, <2>4, <3>2, <3>4
      <3>6. \A b \in Range(ring') : Delivered(b) \/ b \subseteq s
        BY <1>0, <3>1, <3>3 DEF Delivered
      <3>. QED
        BY <3>5, <3>6
    <2>5. todo'[Reader] # <<>> => todo'[Reader][1] = s
      <3>1. todo'[Reader] \in Seq(SUBSET Texts)
        BY <1>0, TypeStep DEF TypeOK
      <3>2. todo'[Reader] # <<>> => 1 \in DOMAIN todo'[Reader]
        BY <3>1, LenProperties, EmptySeq
      <3>. QED
        BY <2>1, <3>2 DEF Replays
    <2>6. \A n \in Texts : replayed[n] > 0 /\ Numbered => replayed[n] = 1 /\ n <= added
      BY DEF ReplayedOnce
    <2>. QED
      BY <2>2, <2>3, <2>4, <2>5, <2>6 DEF ReplayedOnce, Delivered
  <1>8. CASE DropTerminal
    BY <1>2, <1>8, Drops
  <1>9. CASE Waits
    BY <1>9 DEF Waits, ReplayedOnce, Delivered
  <1>. QED
    BY <1>1, <1>3, <1>4, <1>5, <1>6, <1>7, <1>8, <1>9, Steps

-----------------------------------------------------------------------------
(* What the batcher promises *)

LEMMA InvInit == Init => Inv
  <1> SUFFICES ASSUME Init PROVE Inv
    OBVIOUS
  <1>1. TypeOK
    BY TypeInit
  <1>2. Range(<<>>) = {} /\ DOMAIN <<>> = {} /\ Len(<<>>) = 0
    BY DEF Range
  <1>3. /\ added = 0 /\ pending = {} /\ ring = <<>> /\ fired = {} /\ reader = "idle"
        /\ \A w \in Workers : todo[w] = <<>>
        /\ \A n \in Texts : live[n] = 0 /\ replayed[n] = 0
        /\ Reader \in Workers /\ Feeder \in Workers /\ Senders \subseteq Workers
    BY DEF Init, Workers, Senders
  <1>4. OnlyAdded /\ Recorded /\ Idle
    BY <1>2, <1>3 DEF OnlyAdded, Recorded, Idle
  <1>5. HeldOnce /\ LiveOnce /\ FlushedBeforeOther
    BY <1>2, <1>3 DEF HeldOnce, LiveOnce, FlushedBeforeOther
  <1>6. ReplayedOnce
    BY <1>2, <1>3 DEF ReplayedOnce
  <1>. QED
    BY <1>1, <1>4, <1>5, <1>6 DEF Inv

LEMMA InvStep == Inv /\ [Next]_vars => Inv'
  BY TypeStep, OnlyAddedStep, RecordedStep, IdleStep, HeldOnceStep, LiveOnceStep,
     ReplayedOnceStep, FlushedStep
  DEF Inv

LEMMA InvCorrect == Spec => []Inv
  BY InvInit, InvStep, PTL DEF Spec

\* However the goroutines interleave, a text that was neither written to the
\* connection nor is kept anywhere went with a truncation that is marked
\* (recordRingLocked, takeLocked, SnapshotUndeliveredTerminal).
THEOREM GapIsMarkedAlways == Spec => []GapIsMarked
  <1>1. Inv => GapIsMarked
    <2> SUFFICES ASSUME Inv, NEW n \in 1..added, ~truncated
                 PROVE  n \in pending \cup UNION Range(ring)
      BY DEF Inv, GapIsMarked, Kept
    <2>. QED
      BY DEF Inv, Recorded
  <1>. QED
    BY <1>1, InvCorrect, PTL

\* No batch is forwarded twice by the feeder and the timers' goroutines, and no
\* numbered text is replayed twice (takeLocked, SnapshotUndeliveredTerminal,
\* MarkDelivered).
THEOREM ForwardedOnceAlways == Spec => []ForwardedOnce
  <1>1. Inv => ForwardedOnce
    <2> SUFFICES ASSUME Inv, NEW n \in Texts
                 PROVE  live[n] <= 1 /\ (Numbered => replayed[n] <= 1)
      BY DEF ForwardedOnce
    <2>1. replayed[n] \in Nat /\ live[n] <= 1
      BY DEF Inv, TypeOK, LiveOnce
    <2>2. Numbered => ~(replayed[n] > 0) \/ replayed[n] = 1
      BY DEF Inv, ReplayedOnce
    <2>. QED
      BY <2>1, <2>2
  <1>. QED
    BY <1>1, InvCorrect, PTL

\* An event that is no text never overtakes text that is still collected (Add).
THEOREM FlushedBeforeOtherAlways == Spec => []FlushedBeforeOther
  BY InvCorrect, PTL DEF Inv
-----------------------------------------------------------------------------
(* Whoever watches is forwarded to *)

\* What a message makes of a subscriber count of n.
Counted(n, message) == IF message = "subscribe" THEN n + 1 ELSE Unsubscribed(n)

\* c[i] is the count n after the first i of the messages s.
Counts(c, n, s) ==
    /\ c \in [0..Len(s) -> Nat] /\ c[0] = n
    /\ \A i \in 1..Len(s) : c[i] = Counted(c[i - 1], s[i])

\* Once the daemon has read what is on its way, its count covers the watchers,
\* but for one of them for each unsubscribe of an HTTP client.
WatchersWillCount ==
    /\ IsFiniteSet(watching)
    /\ \E c \in [0..Len(toDaemon) -> Nat] :
          Counts(c, subs, toDaemon) /\ c[Len(toDaemon)] + dismissed >= Cardinality(watching)

LEMMA CountedIsNat ==
  ASSUME NEW n \in Nat, NEW m
  PROVE  /\ Counted(n, m) \in Nat
         /\ m # "subscribe" => Counted(n, m) >= n - 1
         /\ m = "subscribe" => Counted(n, m) = n + 1
  BY DEF Counted, Unsubscribed

\* One more message continues the counts.
LEMMA CountsGoOn ==
  ASSUME NEW M, NEW s \in Seq(M), NEW m \in M, NEW n, NEW c, Counts(c, n, s)
  PROVE  \E d \in [0..Len(s \o <<m>>) -> Nat] :
            Counts(d, n, s \o <<m>>) /\ d[Len(s \o <<m>>)] = Counted(c[Len(s)], m)
  <1> DEFINE t == s \o <<m>>
             k == Len(s)
             d == [i \in 0..(k + 1) |-> IF i <= k THEN c[i] ELSE Counted(c[k], m)]
  <1>1. k \in Nat
    BY LenProperties
  <1>2. /\ <<m>> \in Seq(M) /\ Len(<<m>>) = 1 /\ <<m>>[1] = m
    OBVIOUS
  <1>3. Len(t) = k + 1 /\ \A i \in 1..(k + 1) : t[i] = IF i <= k THEN s[i] ELSE m
    <2>1. /\ Len(t) = Len(s) + Len(<<m>>)
          /\ \A i \in 1..Len(t) : t[i] = IF i <= Len(s) THEN s[i] ELSE <<m>>[i - Len(s)]
      BY <1>2, ConcatProperties
    <2> HIDE DEF t
    <2>2. \A i \in 1..(k + 1) : ~(i <= k) => i - Len(s) = 1
      BY <1>1
    <2>. QED
      BY <1>1, <1>2, <2>1, <2>2
  <1> HIDE DEF t, k
  <1>4. c \in [0..k -> Nat] /\ c[0] = n /\ \A i \in 1..k : c[i] = Counted(c[i - 1], s[i])
    BY DEF Counts, k
  <1>5. Counted(c[k], m) \in Nat
    BY <1>1, <1>4, CountedIsNat
  <1>6. d \in [0..(k + 1) -> Nat]
    <2>1. \A i \in 0..(k + 1) : i <= k => c[i] \in Nat
      BY <1>1, <1>4
    <2>. QED
      BY <1>5, <2>1
  <1>7. d[0] = n /\ d[k + 1] = Counted(c[k], m)
    BY <1>1, <1>4
  <1>8. ASSUME NEW i \in 1..(k + 1)
        PROVE  d[i] = Counted(d[i - 1], t[i])
    <2>1. i \in Nat /\ i - 1 \in 0..k /\ d[i - 1] = c[i - 1]
      BY <1>1
    <2>2. CASE i <= k
      <3>1. d[i] = c[i] /\ t[i] = s[i] /\ i \in 1..k
        BY <1>1, <1>3, <2>2
      <3>. QED
        BY <1>4, <2>1, <3>1
    <2>3. CASE ~(i <= k)
      <3>1. i = k + 1
        BY <1>1, <2>3
      <3>2. d[i] = Counted(c[k], m) /\ t[i] = m /\ i - 1 = k
        BY <1>1, <1>3, <1>7, <2>3, <3>1
      <3>. QED
        BY <2>1, <3>2
    <2>. QED
      BY <2>2, <2>3
  <1> HIDE DEF d
  <1>9. Counts(d, n, t) /\ d[Len(t)] = Counted(c[Len(s)], m) /\ d \in [0..Len(t) -> Nat]
    BY <1>3, <1>6, <1>7, <1>8 DEF Counts, k
  <1>. QED
    BY <1>9 DEF t

\* Without the first message they start where it led.
LEMMA CountsStart ==
  ASSUME NEW M, NEW s \in Seq(M), s # <<>>, NEW n, NEW c, Counts(c, n, s)
  PROVE  \E d \in [0..Len(Tail(s)) -> Nat] :
            Counts(d, Counted(n, Head(s)), Tail(s)) /\ d[Len(Tail(s))] = c[Len(s)]
  <1> DEFINE t == Tail(s)
             k == Len(t)
             d == [i \in 0..k |-> c[i + 1]]
  <1>1. /\ Len(s) = k + 1 /\ k \in Nat /\ s[1] = Head(s)
        /\ \A i \in 1..k : t[i] = s[i + 1]
    BY HeadTailProperties, LenProperties, EmptySeq
  <1>2. k = Len(t)
    OBVIOUS
  <1> HIDE DEF t, k
  <1>3. /\ c \in [0..(k + 1) -> Nat] /\ c[0] = n
        /\ \A i \in 1..(k + 1) : c[i] = Counted(c[i - 1], s[i])
    BY <1>1 DEF Counts
  <1>4. d \in [0..k -> Nat] /\ d[k] = c[k + 1]
    BY <1>1, <1>3
  <1>5. d[0] = Counted(n, Head(s))
    <2>1. c[1] = Counted(c[1 - 1], s[1]) /\ 1 - 1 = 0
      BY <1>1, <1>3
    <2>. QED
      BY <1>1, <1>3, <2>1
  <1>6. ASSUME NEW i \in 1..k PROVE d[i] = Counted(d[i - 1], t[i])
    <2>1. i + 1 \in 1..(k + 1) /\ (i + 1) - 1 = i /\ i - 1 \in 0..k /\ (i - 1) + 1 = i
          /\ i \in 0..k
      BY <1>1
    <2>2. d[i] = c[i + 1] /\ d[i - 1] = c[i] /\ t[i] = s[i + 1]
      BY <1>1, <2>1
    <2>3. c[i + 1] = Counted(c[(i + 1) - 1], s[i + 1])
      BY <1>3, <2>1
    <2>. QED
      BY <2>1, <2>2, <2>3
  <1> HIDE DEF d
  <1>7. Counts(d, Counted(n, Head(s)), t) /\ d[k] = c[Len(s)] /\ d \in [0..k -> Nat]
    BY <1>1, <1>2, <1>4, <1>5, <1>6 DEF Counts
  <1>. QED
    BY <1>2, <1>7 DEF t

LEMMA WatchersInit == Init => WatchersWillCount
  <1> SUFFICES ASSUME Init PROVE WatchersWillCount
    OBVIOUS
  <1>1. /\ toDaemon = <<>> /\ subs = 0 /\ watching = {} /\ dismissed = 0
        /\ IsFiniteSet({}) /\ Cardinality({}) = 0
    BY FS_EmptySet DEF Init
  <1> DEFINE c == [i \in 0..0 |-> 0]
  <1>2. c \in [0..0 -> Nat] /\ c[0] = 0 /\ Len(<<>>) = 0
    OBVIOUS
  <1>3. Counts(c, 0, <<>>)
    BY <1>2 DEF Counts
  <1> HIDE DEF c
  <1>. QED
    BY <1>1, <1>2, <1>3 DEF WatchersWillCount

LEMMA WatchersStep == TypeOK /\ WatchersWillCount /\ [Next]_vars => WatchersWillCount'
  <1> SUFFICES ASSUME TypeOK, WatchersWillCount, [Next]_vars PROVE WatchersWillCount'
    OBVIOUS
  <1> DEFINE M == {"subscribe", "unsubscribe"}
  <1>0. /\ toDaemon \in Seq(M) /\ Len(toDaemon) \in Nat
        /\ IsFiniteSet(watching) /\ Cardinality(watching) \in Nat
        /\ dismissed \in Nat
    BY LenProperties, FS_CardinalityType, StreamAssumption DEF TypeOK, WatchersWillCount
  <1>1. PICK c \in [0..Len(toDaemon) -> Nat] :
           Counts(c, subs, toDaemon) /\ c[Len(toDaemon)] + dismissed >= Cardinality(watching)
    BY DEF WatchersWillCount
  <1>2. c[Len(toDaemon)] \in Nat
    BY <1>0
  \* Nexus sends one message.
  <1>3. ASSUME NEW m \in M, Tell(<<m>>), subs' = subs, IsFiniteSet(watching'),
               Counted(c[Len(toDaemon)], m) + dismissed' >= Cardinality(watching')
        PROVE  WatchersWillCount'
    <2>1. toDaemon' = toDaemon \o <<m>>
      BY <1>3 DEF Tell
    <2>2. PICK d \in [0..Len(toDaemon \o <<m>>) -> Nat] :
             /\ Counts(d, subs, toDaemon \o <<m>>)
             /\ d[Len(toDaemon \o <<m>>)] = Counted(c[Len(toDaemon)], m)
      BY <1>0, <1>1, CountsGoOn
    <2>3. /\ d \in [0..Len(toDaemon') -> Nat] /\ Counts(d, subs', toDaemon')
          /\ d[Len(toDaemon')] + dismissed' >= Cardinality(watching')
      BY <1>3, <2>1, <2>2
    <2>. QED
      BY <1>3, <2>3 DEF WatchersWillCount
  \* The daemon does nothing about it.
  <1>4. ASSUME UNCHANGED <<toDaemon, subs, dismissed>>, IsFiniteSet(watching'),
               Cardinality(watching') <= Cardinality(watching)
        PROVE  WatchersWillCount'
    <2>1. Cardinality(watching') \in Nat
      BY <1>4, FS_CardinalityType
    <2>2. c[Len(toDaemon)] + dismissed >= Cardinality(watching')
      BY <1>0, <1>1, <1>2, <1>4, <2>1
    <2>. QED
      BY <1>1, <1>4, <2>2 DEF WatchersWillCount
  <1>5. ASSUME UNCHANGED <<toDaemon, subs, watching, dismissed>> PROVE WatchersWillCount'
    BY <1>5 DEF WatchersWillCount
  <1>6. CASE Receive
    <2>1. toDaemon # <<>> /\ toDaemon' = Tail(toDaemon) /\ watching' = watching
          /\ subs' = Counted(subs, Head(toDaemon)) /\ dismissed' = dismissed
      BY <1>6 DEF Receive, Counted
    <2>. QED
      BY <1>0, <1>1, <2>1, CountsStart DEF WatchersWillCount
  <1>7. ASSUME NEW v, watching' = watching \cup {v}
        PROVE  IsFiniteSet(watching') /\ Cardinality(watching') <= Cardinality(watching) + 1
    <2>1. CASE v \in watching
      <3>1. watching' = watching
        BY <1>7, <2>1
      <3>. QED
        BY <1>0, <3>1
    <2>2. CASE v \notin watching
      <3>1. IsFiniteSet(watching') /\ Cardinality(watching') = Cardinality(watching) + 1
        BY <1>0, <1>7, <2>2, FS_AddElement
      <3>. QED
        BY <1>0, <3>1
    <2>. QED
      BY <2>1, <2>2
  <1>8. ASSUME NEW v, watching' = watching \ {v}
        PROVE  /\ IsFiniteSet(watching') /\ Cardinality(watching') <= Cardinality(watching)
               /\ v \in watching => Cardinality(watching') = Cardinality(watching) - 1
    <2>1. CASE v \notin watching
      <3>1. watching' = watching
        BY <1>8, <2>1
      <3>. QED
        BY <1>0, <2>1, <3>1
    <2>2. CASE v \in watching
      <3>1. IsFiniteSet(watching') /\ Cardinality(watching') = Cardinality(watching) - 1
        BY <1>0, <1>8, <2>2, FS_RemoveElement
      <3>. QED
        BY <1>0, <3>1
    <2>. QED
      BY <2>1, <2>2
  <1>9. ASSUME NEW v, watching' = watching \cup {v}, Tell(<<"subscribe">>),
               UNCHANGED <<subs, dismissed>>
        PROVE  WatchersWillCount'
    <2>1. Cardinality(watching') \in Nat
      BY <1>7, <1>9, FS_CardinalityType
    <2>2. Counted(c[Len(toDaemon)], "subscribe") + dismissed >= Cardinality(watching')
      <3>1. Counted(c[Len(toDaemon)], "subscribe") = c[Len(toDaemon)] + 1
        BY <1>2, CountedIsNat
      <3>2. Cardinality(watching') <= Cardinality(watching) + 1
        BY <1>7, <1>9
      <3>. QED
        BY <1>0, <1>1, <1>2, <2>1, <3>1, <3>2
    <2>. QED
      BY <1>3, <1>7, <1>9, <2>2
  <1>10. ASSUME NEW v \in Streams, StreamOpens(v) PROVE WatchersWillCount'
    BY <1>9, <1>10 DEF StreamOpens, daemon
  <1>11. ASSUME NEW v \in Streams, StreamCancelled(v) PROVE WatchersWillCount'
    <2>1. /\ v \in watching /\ watching' = watching \ {v} /\ Tell(<<"unsubscribe">>)
          /\ UNCHANGED <<subs, dismissed>>
      BY <1>11 DEF StreamCancelled, daemon
    <2>2. Counted(c[Len(toDaemon)], "unsubscribe") >= c[Len(toDaemon)] - 1
          /\ Counted(c[Len(toDaemon)], "unsubscribe") \in Nat
      BY <1>2, CountedIsNat
    <2>3. Cardinality(watching') = Cardinality(watching) - 1
      BY <1>8, <2>1
    <2>4. Counted(c[Len(toDaemon)], "unsubscribe") + dismissed >= Cardinality(watching')
      BY <1>0, <1>1, <1>2, <2>2, <2>3
    <2>. QED
      BY <1>3, <1>8, <2>1, <2>4
  <1>12. ASSUME NEW s \in Sockets, SocketSubscribes(s) PROVE WatchersWillCount'
    BY <1>9, <1>12 DEF SocketSubscribes, daemon
  <1>13. ASSUME NEW s \in Sockets, SocketUnsubscribes(s) PROVE WatchersWillCount'
    <2>1. watching' = watching \ {s} /\ Tell(LastLeaves(watching'))
          /\ UNCHANGED <<subs, dismissed>>
      BY <1>13 DEF SocketUnsubscribes, daemon
    <2>2. CASE watching' = {}
      <3>1. Tell(<<"unsubscribe">>) /\ Cardinality(watching') = 0
        BY <2>1, <2>2, FS_EmptySet DEF LastLeaves
      <3>2. Counted(c[Len(toDaemon)], "unsubscribe") + dismissed >= Cardinality(watching')
        BY <1>0, <1>2, <3>1, CountedIsNat
      <3>. QED
        BY <1>3, <1>8, <2>1, <3>1, <3>2
    <2>3. CASE watching' # {}
      <3>1. toDaemon' = toDaemon \o <<>>
        BY <2>1, <2>3 DEF LastLeaves, Tell
      <3>2. toDaemon' = toDaemon
        BY <1>0, <3>1, ConcatEmptySeq
      <3>. QED
        BY <1>4, <1>8, <2>1, <3>2
    <2>. QED
      BY <2>2, <2>3
  <1>14. ASSUME NEW s \in Sockets, SocketFails(s) PROVE WatchersWillCount'
    BY <1>4, <1>8, <1>14 DEF SocketFails, daemon
  <1>15. CASE \/ AddText \/ AddOther \/ Snapshot \/ DropTerminal \/ UNCHANGED vars
              \/ \E t \in Timers : TimerFires(t) \/ TimerFlush(t)
              \/ \E w \in Workers : Emit(w)
    BY <1>5, <1>15
    DEF AddText, AddOther, Snapshot, DropTerminal, TimerFires, TimerFlush, Emit, ShouldSend,
        Send, MarkDelivered, vars, nexus
  <1>16. CASE HttpSubscribes
    <2>1. Tell(<<"subscribe">>) /\ UNCHANGED <<subs, watching, dismissed>>
      BY <1>16 DEF HttpSubscribes, daemon
    <2>2. Counted(c[Len(toDaemon)], "subscribe") + dismissed >= Cardinality(watching)
      BY <1>0, <1>1, <1>2, CountedIsNat
    <2>. QED
      BY <1>0, <1>3, <2>1, <2>2
  \* What the count loses here, the history gains.
  <1>17. CASE HttpUnsubscribes
    <2>1. /\ Tell(<<"unsubscribe">>) /\ UNCHANGED <<subs, watching>>
          /\ dismissed' = dismissed + 1
      BY <1>17 DEF HttpUnsubscribes, daemon
    <2>2. Counted(c[Len(toDaemon)], "unsubscribe") >= c[Len(toDaemon)] - 1
          /\ Counted(c[Len(toDaemon)], "unsubscribe") \in Nat
      BY <1>2, CountedIsNat
    <2>3. Counted(c[Len(toDaemon)], "unsubscribe") + (dismissed + 1) >= Cardinality(watching)
      BY <1>0, <1>1, <1>2, <2>2
    <2>. QED
      BY <1>0, <1>3, <2>1, <2>3
  <1>. QED
    BY <1>6, <1>10, <1>11, <1>12, <1>13, <1>14, <1>15, <1>16, <1>17 DEF Next

\* Streams and sockets count their subscriptions differently, but a daemon that
\* has read every message counts at least as many subscribers as there are
\* watchers, less one for each unsubscribe that an HTTP client posted: while none
\* was posted, shouldForwardTerminalEvent lets the text through to whoever watches.
THEOREM WatcherIsForwardedAlways == Spec => []WatcherIsForwarded
  <1>1. WatchersWillCount => WatcherIsForwarded
    <2> SUFFICES ASSUME WatchersWillCount, toDaemon = <<>>
                 PROVE  subs + dismissed >= Cardinality(watching)
      BY DEF WatcherIsForwarded
    <2>1. Len(<<>>) = 0
      OBVIOUS
    <2>. QED
      BY <2>1 DEF WatchersWillCount, Counts
  <1>. QED
    BY <1>1, TypeCorrect, WatchersInit, WatchersStep, PTL DEF Spec

=============================================================================
