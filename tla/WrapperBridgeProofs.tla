------------------------- MODULE WrapperBridgeProofs -------------------------
(***************************************************************************)
(* The wrapper's bridge holds every event in one place, sends none twice   *)
(* to a daemon that answers, and queues prompts only where a stream reads. *)
(*                                                                         *)
(* The argument: the frames of a goroutine only pass the events they hold  *)
(* on (Moves), so an event is at one place (Single), is past the daemon at *)
(* most once more than it crashed (EventFacts), and only a full queue      *)
(* loses one.                                                              *)
(***************************************************************************)
EXTENDS WrapperBridge, FiniteSetTheorems, TLAPS

-----------------------------------------------------------------------------
(* Where an event is.                                                      *)

InSeq(q, n)   == \E i \in DOMAIN q : q[i].n = n
OnceSeq(q, n) == \A i, j \in DOMAIN q : q[i].n = n /\ q[j].n = n => i = j

InFrame(f, n)   == InSeq(InHand(f), n)
OnceFrame(f, n) == OnceSeq(InHand(f), n)

InStack(s, n)   == \E i \in DOMAIN s : InFrame(s[i], n)
OnceStack(s, n) ==
    /\ \A i \in DOMAIN s : OnceFrame(s[i], n)
    /\ \A i, j \in DOMAIN s : InFrame(s[i], n) /\ InFrame(s[j], n) => i = j

\* A goroutine's stack s and the backlog q together.
With(s, q, n) == InSeq(q, n) \/ InStack(s, n)
Once(s, q, n) == OnceSeq(q, n) /\ OnceStack(s, n) /\ ~(InSeq(q, n) /\ InStack(s, n))

\* From s and q to r and p the events only move, but for those of out, that leave.
Moves(s, q, r, p, out) ==
    \A n \in Nat \ {0} : Once(s, q, n) =>
        /\ Once(r, p, n)
        /\ With(r, p, n) => With(s, q, n)
        /\ With(s, q, n) => With(r, p, n) \/ n \in out

\* A sequence is its head and its tail.
LEMMA HeadTail ==
    ASSUME NEW S, NEW s \in Seq(S), s # <<>>
    PROVE  /\ Head(s) \in S /\ Tail(s) \in Seq(S)
           /\ s = <<Head(s)>> \o Tail(s)
           /\ Head(s) = s[1] /\ 1 \in DOMAIN s
           /\ Len(Tail(s)) = Len(s) - 1
           /\ \A i \in 1..(Len(s) - 1) : Tail(s)[i] = s[i + 1]
OBVIOUS

\* The places in a concatenation are those of its parts.
LEMMA SeqCat ==
    ASSUME NEW S, NEW a \in Seq(S), NEW b \in Seq(S), NEW n
    PROVE  /\ InSeq(a \o b, n) <=> InSeq(a, n) \/ InSeq(b, n)
           /\ OnceSeq(a \o b, n) <=>
                  OnceSeq(a, n) /\ OnceSeq(b, n) /\ ~(InSeq(a, n) /\ InSeq(b, n))
<1> DEFINE c == a \o b
<1>1. c \in Seq(S) /\ Len(c) = Len(a) + Len(b)
  OBVIOUS
<1>2. \A i \in 1..Len(a) : c[i] = a[i] /\ i \in DOMAIN c
  OBVIOUS
<1>3. \A i \in 1..Len(b) : c[Len(a) + i] = b[i] /\ Len(a) + i \in DOMAIN c
  OBVIOUS
<1>4. \A i \in DOMAIN c : i \in DOMAIN a \/ \E j \in DOMAIN b : i = Len(a) + j
  <2> SUFFICES ASSUME NEW i \in DOMAIN c, i \notin DOMAIN a
               PROVE  \E j \in DOMAIN b : i = Len(a) + j
    OBVIOUS
  <2>1. i - Len(a) \in DOMAIN b /\ i = Len(a) + (i - Len(a))
    BY <1>1
  <2> QED  BY <2>1
<1>5. DOMAIN a = 1..Len(a) /\ DOMAIN b = 1..Len(b)
  OBVIOUS
<1>6. \A i \in DOMAIN a, j \in DOMAIN b : i # Len(a) + j
  BY <1>5
<1>7. \A i, j \in DOMAIN b : Len(a) + i = Len(a) + j => i = j
  BY <1>5
<1> HIDE DEF c
<1>8. InSeq(c, n) <=> InSeq(a, n) \/ InSeq(b, n)
  BY <1>2, <1>3, <1>4, <1>5 DEF InSeq
<1>9. ASSUME OnceSeq(c, n)
      PROVE  OnceSeq(a, n) /\ OnceSeq(b, n) /\ ~(InSeq(a, n) /\ InSeq(b, n))
  <2>1. OnceSeq(a, n)
    BY <1>9, <1>2, <1>5 DEF OnceSeq
  <2>2. OnceSeq(b, n)
    BY <1>9, <1>3, <1>5, <1>7 DEF OnceSeq
  <2>3. ASSUME InSeq(a, n), InSeq(b, n) PROVE FALSE
    <3>1. PICK i \in DOMAIN a : a[i].n = n
      BY <2>3 DEF InSeq
    <3>2. PICK j \in DOMAIN b : b[j].n = n
      BY <2>3 DEF InSeq
    <3>3. i = Len(a) + j
      BY <3>1, <3>2, <1>9, <1>2, <1>3, <1>5 DEF OnceSeq
    <3> QED  BY <3>3, <1>6
  <2> QED  BY <2>1, <2>2, <2>3
<1>10. ASSUME OnceSeq(a, n), OnceSeq(b, n), ~(InSeq(a, n) /\ InSeq(b, n))
       PROVE  OnceSeq(c, n)
  <2> SUFFICES ASSUME NEW i \in DOMAIN c, NEW j \in DOMAIN c, c[i].n = n, c[j].n = n
               PROVE  i = j
    BY DEF OnceSeq
  <2>1. CASE i \in DOMAIN a /\ j \in DOMAIN a
    BY <2>1, <1>10, <1>2, <1>5 DEF OnceSeq
  <2>2. CASE i \notin DOMAIN a /\ j \notin DOMAIN a
    <3>1. PICK k \in DOMAIN b, l \in DOMAIN b : i = Len(a) + k /\ j = Len(a) + l
      BY <2>2, <1>4
    <3>2. k = l
      BY <3>1, <1>3, <1>5, <1>10 DEF OnceSeq
    <3> QED  BY <3>1, <3>2
  <2>3. CASE i \in DOMAIN a /\ j \notin DOMAIN a
    BY <2>3, <1>2, <1>3, <1>4, <1>5, <1>10 DEF InSeq
  <2>4. CASE i \notin DOMAIN a /\ j \in DOMAIN a
    BY <2>4, <1>2, <1>3, <1>4, <1>5, <1>10 DEF InSeq
  <2> QED  BY <2>1, <2>2, <2>3, <2>4
<1> QED  BY <1>8, <1>9, <1>10 DEF c

\* The same for stacks of frames.
LEMMA StackCat ==
    ASSUME NEW S, NEW a \in Seq(S), NEW b \in Seq(S), NEW n
    PROVE  /\ InStack(a \o b, n) <=> InStack(a, n) \/ InStack(b, n)
           /\ OnceStack(a \o b, n) <=>
                  OnceStack(a, n) /\ OnceStack(b, n) /\ ~(InStack(a, n) /\ InStack(b, n))
<1> DEFINE c == a \o b
<1>1. c \in Seq(S) /\ Len(c) = Len(a) + Len(b)
  OBVIOUS
<1>2. \A i \in 1..Len(a) : c[i] = a[i] /\ i \in DOMAIN c
  OBVIOUS
<1>3. \A i \in 1..Len(b) : c[Len(a) + i] = b[i] /\ Len(a) + i \in DOMAIN c
  OBVIOUS
<1>4. \A i \in DOMAIN c : i \in DOMAIN a \/ \E j \in DOMAIN b : i = Len(a) + j
  <2> SUFFICES ASSUME NEW i \in DOMAIN c, i \notin DOMAIN a
               PROVE  \E j \in DOMAIN b : i = Len(a) + j
    OBVIOUS
  <2>1. i - Len(a) \in DOMAIN b /\ i = Len(a) + (i - Len(a))
    BY <1>1
  <2> QED  BY <2>1
<1>5. DOMAIN a = 1..Len(a) /\ DOMAIN b = 1..Len(b)
  OBVIOUS
<1>6. \A i \in DOMAIN a, j \in DOMAIN b : i # Len(a) + j
  BY <1>5
<1>7. \A i, j \in DOMAIN b : Len(a) + i = Len(a) + j => i = j
  BY <1>5
<1> HIDE DEF c
<1>8. InStack(c, n) <=> InStack(a, n) \/ InStack(b, n)
  BY <1>2, <1>3, <1>4, <1>5 DEF InStack
<1>9. ASSUME OnceStack(c, n)
      PROVE  OnceStack(a, n) /\ OnceStack(b, n) /\ ~(InStack(a, n) /\ InStack(b, n))
  <2>1. OnceStack(a, n)
    BY <1>9, <1>2, <1>5 DEF OnceStack
  <2>2. OnceStack(b, n)
    BY <1>9, <1>3, <1>5, <1>7 DEF OnceStack
  <2>3. ASSUME InStack(a, n), InStack(b, n) PROVE FALSE
    <3>1. PICK i \in DOMAIN a : InFrame(a[i], n)
      BY <2>3 DEF InStack
    <3>2. PICK j \in DOMAIN b : InFrame(b[j], n)
      BY <2>3 DEF InStack
    <3>3. i = Len(a) + j
      BY <3>1, <3>2, <1>9, <1>2, <1>3, <1>5 DEF OnceStack
    <3> QED  BY <3>3, <1>6
  <2> QED  BY <2>1, <2>2, <2>3
<1>10. ASSUME OnceStack(a, n), OnceStack(b, n), ~(InStack(a, n) /\ InStack(b, n))
       PROVE  OnceStack(c, n)
  <2>1. ASSUME NEW i \in DOMAIN c PROVE OnceFrame(c[i], n)
    BY <2>1, <1>2, <1>3, <1>4, <1>5, <1>10 DEF OnceStack
  <2>2. ASSUME NEW i \in DOMAIN c, NEW j \in DOMAIN c,
               InFrame(c[i], n), InFrame(c[j], n)
        PROVE  i = j
    <3>1. CASE i \in DOMAIN a /\ j \in DOMAIN a
      BY <3>1, <2>2, <1>10, <1>2, <1>5 DEF OnceStack
    <3>2. CASE i \notin DOMAIN a /\ j \notin DOMAIN a
      <4>1. PICK k \in DOMAIN b, l \in DOMAIN b : i = Len(a) + k /\ j = Len(a) + l
        BY <3>2, <1>4, <2>2
      <4>2. k = l
        BY <4>1, <2>2, <1>3, <1>5, <1>10 DEF OnceStack
      <4> QED  BY <4>1, <4>2
    <3>3. CASE i \in DOMAIN a /\ j \notin DOMAIN a
      BY <3>3, <2>2, <1>2, <1>3, <1>4, <1>5, <1>10 DEF InStack
    <3>4. CASE i \notin DOMAIN a /\ j \in DOMAIN a
      BY <3>4, <2>2, <1>2, <1>3, <1>4, <1>5, <1>10 DEF InStack
    <3> QED  BY <3>1, <3>2, <3>3, <3>4
  <2> QED  BY <2>1, <2>2 DEF OnceStack
<1> QED  BY <1>8, <1>9, <1>10 DEF c

\* One event, one frame, none.
LEMMA Singles ==
    ASSUME NEW n, NEW e
    PROVE  /\ InSeq(<<e>>, n) <=> e.n = n
           /\ OnceSeq(<<e>>, n)
           /\ InStack(<<e>>, n) <=> InFrame(e, n)
           /\ OnceStack(<<e>>, n) <=> OnceFrame(e, n)
           /\ ~InSeq(<<>>, n) /\ OnceSeq(<<>>, n)
           /\ ~InStack(<<>>, n) /\ OnceStack(<<>>, n)
<1>1. DOMAIN <<e>> = {1} /\ <<e>>[1] = e
  OBVIOUS
<1>2. DOMAIN <<>> = {}
  OBVIOUS
<1> QED  BY <1>1, <1>2 DEF InSeq, OnceSeq, InStack, OnceStack

-----------------------------------------------------------------------------
(* The shape of the state.                                                 *)

\* FrameType, where n terminal sessions were registered.
FrameSet(n) ==
    [k : {"emit", "ka", "in", "exit", "boot"},
     st : {"send", "wire", "reg", "nest", "stream"},
     batch : Seq(Events), own : Events \cup {NoEvent},
     try : 1..MaxTries, re : BOOLEAN, id : 0..n, sid : 0..MaxSids]

SessType == [known : BOOLEAN, live : BOOLEAN, sid : 0..MaxSids, sub : BOOLEAN,
             driver : {"pty", "sdk"}, buf : Seq(PromptIds)]

\* Only an Emit holds events, and only the input loop has a stream.
FrameFits(f) ==
    /\ f.k = "emit" => f.batch # <<>> \/ f.own # NoEvent
    /\ f.k # "emit" => f.batch = <<>> /\ f.own = NoEvent
    /\ f.st = "stream" => f.k = "in" /\ f.id # 0

\* A call of another kind is what the goroutine was started for: at the bottom.
Fits(t, s, ph) ==
    /\ \A i \in DOMAIN s :
        /\ FrameFits(s[i])
        /\ s[i].k # "emit" => i = Len(s)
        /\ s[i].k = "in" => t = "in"
        /\ s[i].k = "boot" => t = "main" /\ ph = "boot"
    /\ s # <<>> /\ t # "main" => ph \in {"run", "exit"}

DaemonTyped ==
    /\ up \in BOOLEAN /\ crashes \in 0..MaxCrashes /\ stalls \in 0..MaxStalls
    /\ sess \in Seq(SessType)
    /\ sidIndex \in [1..MaxSids -> 0..Len(sess)]
    /\ recover \in 0..MaxSids /\ sunk \in Seq(1..MaxEvents)

WrapperTyped ==
    /\ phase \in {"boot", "run", "exit", "off", "gone"}
    /\ id \in 0..Len(sess) /\ sid \in 1..MaxSids
    /\ pending \in Seq(Events) /\ dropped \subseteq 1..MaxEvents
    /\ emitted \in 0..MaxEvents
    /\ prompt \in [PromptIds -> {"new", "queued", "done"}]

StackTyped == stack \in [Threads -> Seq(FrameSet(Len(sess)))]
StackFits  == \A t \in Threads : Fits(t, stack[t], phase)

BridgeInv == DaemonTyped /\ WrapperTyped /\ StackTyped /\ StackFits

\* The constants are of their types.
LEMMA ConstTypes ==
    /\ MaxEvents \in Nat /\ MaxSids \in Nat /\ MaxSids > 0 /\ MaxPrompts \in Nat
    /\ MaxCrashes \in Nat /\ MaxStalls \in Nat
    /\ MaxTries \in Nat /\ MaxTries > 0 /\ PendingMax \in Nat /\ PendingMax > 0
    /\ "main" \in Threads /\ "ka" \in Threads /\ "in" \in Threads
    /\ Emitters \subseteq Threads
    /\ "main" \notin Emitters /\ "ka" \notin Emitters /\ "in" \notin Emitters
BY BridgeAssumption DEF Threads

\* What an event is.
LEMMA EventTypes ==
    /\ \A e \in Events \cup {NoEvent} :
        /\ e.kind = "user" => e.n \in 1..MaxEvents
        /\ e.kind # "user" => e.n = 0
        /\ e.n \in Nat
    /\ NoEvent.n = 0 /\ NoEvent.kind = "none" /\ NoEvent \notin Events
    /\ Notice("started") \in Events /\ Notice("exited") \in Events
    /\ \A n \in 1..MaxEvents : Event(n) \in Events /\ Event(n).n = n
<1>1. \A n \in 1..MaxEvents : Event(n).kind = "user" /\ Event(n).n = n
  BY DEF Event
<1>2. \A k : Notice(k).kind = k /\ Notice(k).n = 0
  BY DEF Notice
<1>3. \A e \in Events : \/ \E n \in 1..MaxEvents : e = Event(n)
                        \/ e = Notice("started") \/ e = Notice("exited")
  BY DEF Events, Notices
<1>4. NoEvent = Notice("none")
  BY DEF NoEvent
<1>5. NoEvent \notin Events
  BY <1>1, <1>2, <1>3, <1>4
<1>6. \A n \in 1..MaxEvents : Event(n) \in Events
  BY DEF Events
<1>7. Notice("started") \in Events /\ Notice("exited") \in Events
  BY DEF Events, Notices
<1>8. MaxEvents \in Nat
  BY ConstTypes
<1> QED  BY <1>1, <1>2, <1>3, <1>4, <1>5, <1>6, <1>7, <1>8

\* A frame stays typed when more sessions are registered.
LEMMA FramesGrow ==
    ASSUME NEW m \in Nat, NEW n \in Nat, m <= n
    PROVE  FrameSet(m) \subseteq FrameSet(n) /\ Seq(FrameSet(m)) \subseteq Seq(FrameSet(n))
<1>1. 0..m \subseteq 0..n
  OBVIOUS
<1>2. FrameSet(m) \subseteq FrameSet(n)
  BY <1>1 DEF FrameSet
<1>3. ASSUME NEW s \in Seq(FrameSet(m)) PROVE s \in Seq(FrameSet(n))
  BY <1>2
<1> QED  BY <1>2, <1>3

\* A frame that sends nothing of its own, and one that emits.
LEMMA NewFrames ==
    ASSUME NEW n \in Nat
    PROVE  /\ \A k \in {"ka", "in", "exit", "boot"}, st \in {"send", "reg"} :
                /\ Frame(k, st, <<>>, NoEvent) \in FrameSet(n)
                /\ FrameFits(Frame(k, st, <<>>, NoEvent))
                /\ Frame(k, st, <<>>, NoEvent).k = k
                /\ Frame(k, st, <<>>, NoEvent).st = st
                /\ InHand(Frame(k, st, <<>>, NoEvent)) = <<NoEvent>>
           /\ \A q \in Seq(Events), e \in Events \cup {NoEvent} :
                /\ EmitFrame(q, e) \in FrameSet(n)
                /\ q # <<>> \/ e # NoEvent => FrameFits(EmitFrame(q, e))
                /\ EmitFrame(q, e).k = "emit" /\ EmitFrame(q, e).st = "wire"
                /\ InHand(EmitFrame(q, e)) = <<e>> \o q
<1> USE ConstTypes
<1>1. ASSUME NEW k \in {"emit", "ka", "in", "exit", "boot"}, NEW st \in {"send", "wire", "reg"},
             NEW q \in Seq(Events), NEW e \in Events \cup {NoEvent}
      PROVE  /\ Frame(k, st, q, e) \in FrameSet(n)
             /\ Frame(k, st, q, e).k = k /\ Frame(k, st, q, e).st = st
             /\ Frame(k, st, q, e).batch = q /\ Frame(k, st, q, e).own = e
  <2>1. 1 \in 1..MaxTries /\ 0 \in 0..n /\ 0 \in 0..MaxSids
    OBVIOUS
  <2> QED  BY <2>1 DEF Frame, FrameSet
<1>2. ASSUME NEW k \in {"ka", "in", "exit", "boot"}, NEW st \in {"send", "reg"}
      PROVE  /\ Frame(k, st, <<>>, NoEvent) \in FrameSet(n)
             /\ FrameFits(Frame(k, st, <<>>, NoEvent))
             /\ Frame(k, st, <<>>, NoEvent).k = k
             /\ Frame(k, st, <<>>, NoEvent).st = st
             /\ InHand(Frame(k, st, <<>>, NoEvent)) = <<NoEvent>>
  <2>1. <<>> \in Seq(Events) /\ NoEvent \in Events \cup {NoEvent}
    OBVIOUS
  <2>3. k \in {"emit", "ka", "in", "exit", "boot"} /\ k # "emit"
    OBVIOUS
  <2>4. st \in {"send", "wire", "reg"} /\ st # "stream"
    OBVIOUS
  <2>2. /\ Frame(k, st, <<>>, NoEvent) \in FrameSet(n)
        /\ Frame(k, st, <<>>, NoEvent).k = k /\ Frame(k, st, <<>>, NoEvent).st = st
        /\ Frame(k, st, <<>>, NoEvent).batch = <<>>
        /\ Frame(k, st, <<>>, NoEvent).own = NoEvent
    <3>1. 1 \in 1..MaxTries /\ 0 \in 0..n /\ 0 \in 0..MaxSids
      OBVIOUS
    <3> QED  BY <2>1, <2>3, <2>4, <3>1 DEF Frame, FrameSet
  <2>5. FrameFits(Frame(k, st, <<>>, NoEvent))
    BY <2>2, <2>3, <2>4 DEF FrameFits
  <2>6. InHand(Frame(k, st, <<>>, NoEvent)) = <<NoEvent>> \o <<>>
    BY <2>2 DEF InHand
  <2>7. <<NoEvent>> \o <<>> = <<NoEvent>>
    OBVIOUS
  <2> QED  BY <2>2, <2>5, <2>6, <2>7
<1>3. ASSUME NEW q \in Seq(Events), NEW e \in Events \cup {NoEvent}
      PROVE  /\ EmitFrame(q, e) \in FrameSet(n)
             /\ q # <<>> \/ e # NoEvent => FrameFits(EmitFrame(q, e))
             /\ EmitFrame(q, e).k = "emit" /\ EmitFrame(q, e).st = "wire"
             /\ InHand(EmitFrame(q, e)) = <<e>> \o q
  BY <1>1 DEF EmitFrame, FrameFits, InHand
<1> QED  BY <1>2, <1>3

-----------------------------------------------------------------------------
(* What the operators on stacks do to what is held.                        *)

\* A stack with f on top of s.
LEMMA OnTop ==
    ASSUME NEW m \in Nat, NEW s \in Seq(FrameSet(m)), NEW f \in FrameSet(m), NEW n
    PROVE  /\ <<f>> \o s \in Seq(FrameSet(m)) /\ <<f>> \o s # <<>>
           /\ Head(<<f>> \o s) = f /\ Tail(<<f>> \o s) = s
           /\ InStack(<<f>> \o s, n) <=> InFrame(f, n) \/ InStack(s, n)
           /\ OnceStack(<<f>> \o s, n) <=>
                  OnceFrame(f, n) /\ OnceStack(s, n) /\ ~(InFrame(f, n) /\ InStack(s, n))
<1>1. <<f>> \in Seq(FrameSet(m))
  OBVIOUS
<1>2. <<f>> \o s \in Seq(FrameSet(m)) /\ <<f>> \o s # <<>>
      /\ Head(<<f>> \o s) = f /\ Tail(<<f>> \o s) = s
  OBVIOUS
<1>3. /\ InStack(<<f>> \o s, n) <=> InStack(<<f>>, n) \/ InStack(s, n)
      /\ OnceStack(<<f>> \o s, n) <=>
             OnceStack(<<f>>, n) /\ OnceStack(s, n) /\ ~(InStack(<<f>>, n) /\ InStack(s, n))
  BY <1>1, StackCat
<1>4. (InStack(<<f>>, n) <=> InFrame(f, n)) /\ (OnceStack(<<f>>, n) <=> OnceFrame(f, n))
  BY Singles
<1> QED  BY <1>2, <1>3, <1>4

\* The top of a stack, and the rest.
LEMMA TopOf ==
    ASSUME NEW m \in Nat, NEW s \in Seq(FrameSet(m)), s # <<>>, NEW n
    PROVE  /\ Head(s) \in FrameSet(m) /\ Tail(s) \in Seq(FrameSet(m))
           /\ InStack(s, n) <=> InFrame(Head(s), n) \/ InStack(Tail(s), n)
           /\ OnceStack(s, n) <=>
                  /\ OnceFrame(Head(s), n) /\ OnceStack(Tail(s), n)
                  /\ ~(InFrame(Head(s), n) /\ InStack(Tail(s), n))
<1>1. Head(s) \in FrameSet(m) /\ Tail(s) \in Seq(FrameSet(m)) /\ s = <<Head(s)>> \o Tail(s)
  BY HeadTail
<1> DEFINE h == Head(s)
           r == Tail(s)
<1>2. h \in FrameSet(m) /\ r \in Seq(FrameSet(m)) /\ s = <<h>> \o r
  BY <1>1
<1> HIDE DEF h, r
<1>3. /\ InStack(s, n) <=> InFrame(h, n) \/ InStack(r, n)
      /\ OnceStack(s, n) <=>
             OnceFrame(h, n) /\ OnceStack(r, n) /\ ~(InFrame(h, n) /\ InStack(r, n))
  BY <1>2, OnTop
<1> QED  BY <1>1, <1>3 DEF h, r

\* What a frame holds: its own event and its batch.
LEMMA FrameHolds ==
    ASSUME NEW m \in Nat, NEW f \in FrameSet(m), NEW n
    PROVE  /\ f.batch \in Seq(Events) /\ f.own \in Events \cup {NoEvent}
           /\ InFrame(f, n) <=> f.own.n = n \/ InSeq(f.batch, n)
           /\ OnceFrame(f, n) <=> OnceSeq(f.batch, n) /\ ~(f.own.n = n /\ InSeq(f.batch, n))
<1>1. f.batch \in Seq(Events) /\ f.own \in Events \cup {NoEvent}
  BY DEF FrameSet
<1> DEFINE b == f.batch
           a == <<f.own>>
<1>2. b \in Seq(Events \cup {NoEvent}) /\ a \in Seq(Events \cup {NoEvent})
  BY <1>1
<1>3. InSeq(a, n) <=> f.own.n = n
  BY Singles
<1>4. OnceSeq(a, n)
  BY Singles
<1>5. InHand(f) = a \o b
  BY DEF InHand
<1> HIDE DEF a, b
<1>6. /\ InSeq(a \o b, n) <=> InSeq(a, n) \/ InSeq(b, n)
      /\ OnceSeq(a \o b, n) <=>
             OnceSeq(a, n) /\ OnceSeq(b, n) /\ ~(InSeq(a, n) /\ InSeq(b, n))
  BY <1>2, SeqCat
<1>7. /\ InFrame(f, n) <=> f.own.n = n \/ InSeq(b, n)
      /\ OnceFrame(f, n) <=> OnceSeq(b, n) /\ ~(f.own.n = n /\ InSeq(b, n))
  BY <1>3, <1>4, <1>5, <1>6 DEF InFrame, OnceFrame
<1> QED  BY <1>1, <1>7 DEF b

\* A frame that holds the same, in another state.
LEMMA SameHeld ==
    ASSUME NEW f, NEW g, f.own = g.own, f.batch = g.batch, NEW n
    PROVE  (InFrame(f, n) <=> InFrame(g, n)) /\ (OnceFrame(f, n) <=> OnceFrame(g, n))
BY DEF InFrame, OnceFrame, InHand

\* The top frame is replaced: the stack still fits its goroutine.
LEMMA ReplaceFits ==
    ASSUME NEW m \in Nat, NEW s \in Seq(FrameSet(m)), s # <<>>, NEW f \in FrameSet(m),
           NEW t, NEW ph, Fits(t, s, ph), FrameFits(f), f.k \in {"emit", Head(s).k}
    PROVE  Fits(t, <<f>> \o Tail(s), ph)
<1> DEFINE r == <<f>> \o Tail(s)
<1>1. /\ r \in Seq(FrameSet(m)) /\ Len(r) = Len(s) /\ r[1] = f /\ Head(s) = s[1]
      /\ \A i \in DOMAIN r : i = 1 \/ r[i] = s[i]
      /\ DOMAIN r = DOMAIN s /\ 1 \in DOMAIN s
  OBVIOUS
<1> HIDE DEF r
<1>2. ASSUME NEW i \in DOMAIN r
      PROVE  /\ FrameFits(r[i]) /\ (r[i].k # "emit" => i = Len(r))
             /\ r[i].k = "in" => t = "in"
             /\ r[i].k = "boot" => t = "main" /\ ph = "boot"
  <2>1. CASE r[i] = s[i]
    BY <2>1, <1>1, <1>2 DEF Fits
  <2>2. CASE i = 1
    BY <2>2, <1>1 DEF Fits
  <2> QED  BY <2>1, <2>2, <1>1, <1>2
<1>3. t # "main" => ph \in {"run", "exit"}
  BY DEF Fits
<1> QED  BY <1>2, <1>3 DEF Fits, r

\* An Emit begins on top of what runs.
LEMMA PushFits ==
    ASSUME NEW m \in Nat, NEW s \in Seq(FrameSet(m)), NEW f \in FrameSet(m),
           NEW t, NEW ph, Fits(t, s, ph), FrameFits(f), f.k = "emit",
           t # "main" => ph \in {"run", "exit"}
    PROVE  Fits(t, <<f>> \o s, ph)
<1> DEFINE r == <<f>> \o s
<1>1. /\ r \in Seq(FrameSet(m)) /\ Len(r) = Len(s) + 1 /\ r[1] = f
      /\ \A i \in DOMAIN r : i = 1 \/ (i - 1 \in DOMAIN s /\ r[i] = s[i - 1])
      /\ DOMAIN r \subseteq Nat /\ Len(s) \in Nat
  OBVIOUS
<1> HIDE DEF r
<1>2. ASSUME NEW i \in DOMAIN r
      PROVE  /\ FrameFits(r[i]) /\ (r[i].k # "emit" => i = Len(r))
             /\ r[i].k = "in" => t = "in"
             /\ r[i].k = "boot" => t = "main" /\ ph = "boot"
  <2>1. CASE i = 1
    BY <2>1, <1>1
  <2>2. CASE i # 1
    <3>1. PICK j \in DOMAIN s : j = i - 1 /\ r[i] = s[j]
      BY <2>2, <1>1, <1>2
    <3>2. j = Len(s) => i = Len(r)
      BY <3>1, <1>1, <1>2
    <3> QED  BY <3>1, <3>2 DEF Fits
  <2> QED  BY <2>1, <2>2
<1> QED  BY <1>2 DEF Fits, r

\* What is left when the top frame is gone.
LEMMA TailFits ==
    ASSUME NEW m \in Nat, NEW s \in Seq(FrameSet(m)), s # <<>>,
           NEW t, NEW ph, Fits(t, s, ph)
    PROVE  /\ Tail(s) \in Seq(FrameSet(m)) /\ Fits(t, Tail(s), ph)
           /\ t # "main" => ph \in {"run", "exit"}
           /\ Head(s).k # "emit" => Tail(s) = <<>>
           /\ FrameFits(Head(s))
<1> DEFINE r == Tail(s)
<1>1. r \in Seq(FrameSet(m)) /\ Len(r) = Len(s) - 1 /\ Len(s) \in Nat
      /\ \A i \in DOMAIN r : i + 1 \in DOMAIN s /\ r[i] = s[i + 1]
      /\ DOMAIN r \subseteq Nat /\ Head(s) = s[1] /\ 1 \in DOMAIN s
      /\ (Len(s) = 1 => r = <<>>)
  OBVIOUS
<1> HIDE DEF r
<1>2. ASSUME NEW i \in DOMAIN r
      PROVE  /\ FrameFits(r[i]) /\ (r[i].k # "emit" => i = Len(r))
             /\ r[i].k = "in" => t = "in"
             /\ r[i].k = "boot" => t = "main" /\ ph = "boot"
  <2>1. PICK j \in DOMAIN s : j = i + 1 /\ r[i] = s[j]
    BY <1>1, <1>2
  <2>2. j = Len(s) => i = Len(r)
    BY <2>1, <1>1, <1>2
  <2> QED  BY <2>1, <2>2 DEF Fits
<1>3. t # "main" => ph \in {"run", "exit"}
  BY DEF Fits
<1>4. Head(s).k # "emit" => Len(s) = 1
  BY <1>1 DEF Fits
<1>5. FrameFits(Head(s))
  BY <1>1 DEF Fits
<1> QED  BY <1>1, <1>2, <1>3, <1>4, <1>5 DEF Fits, r

\* The same events, in the same places.
Alike(s, r) == \A n : /\ InStack(s, n) <=> InStack(r, n)
                      /\ OnceStack(s, n) <=> OnceStack(r, n)

\* The top frame is replaced by one that holds the same.
LEMMA ReplaceAlike ==
    ASSUME NEW m \in Nat, NEW s \in Seq(FrameSet(m)), s # <<>>, NEW f \in FrameSet(m),
           f.own = Head(s).own, f.batch = Head(s).batch
    PROVE  Alike(s, <<f>> \o Tail(s))
<1> DEFINE h == Head(s)
           r == Tail(s)
<1>1. h \in FrameSet(m) /\ r \in Seq(FrameSet(m)) /\ f.own = h.own /\ f.batch = h.batch
  BY HeadTail
<1>2. \A n : /\ InStack(s, n) <=> InFrame(h, n) \/ InStack(r, n)
             /\ OnceStack(s, n) <=>
                    OnceFrame(h, n) /\ OnceStack(r, n) /\ ~(InFrame(h, n) /\ InStack(r, n))
  BY TopOf
<1> HIDE DEF h, r
<1>3. \A n : /\ InStack(<<f>> \o r, n) <=> InFrame(f, n) \/ InStack(r, n)
             /\ OnceStack(<<f>> \o r, n) <=>
                    OnceFrame(f, n) /\ OnceStack(r, n) /\ ~(InFrame(f, n) /\ InStack(r, n))
  BY <1>1, OnTop
<1>4. \A n : (InFrame(f, n) <=> InFrame(h, n)) /\ (OnceFrame(f, n) <=> OnceFrame(h, n))
  BY <1>1, SameHeld
<1>5. Alike(s, <<f>> \o r)
  BY <1>2, <1>3, <1>4, Zenon DEF Alike
<1> QED  BY <1>5 DEF r

\* Building a request changes no more than the ids the top frame carries.
LEMMA BuildKeeps ==
    ASSUME NEW m \in Nat, NEW i \in 0..m, NEW s \in Seq(FrameSet(m)),
           NEW t, NEW ph, Fits(t, s, ph), sid \in 1..MaxSids
    PROVE  /\ Build(s, i) \in Seq(FrameSet(m)) /\ Fits(t, Build(s, i), ph)
           /\ Alike(s, Build(s, i))
           /\ s = <<>> <=> Build(s, i) = <<>>
           /\ s # <<>> => /\ Head(Build(s, i)).k = Head(s).k
                          /\ Head(Build(s, i)).st = Head(s).st
                          /\ Head(s).st = "stream" => Build(s, i) = s
<1>1. CASE s = <<>> \/ Head(s).st = "stream"
  BY <1>1 DEF Build, Alike
<1>2. CASE s # <<>> /\ Head(s).st # "stream"
  <2> DEFINE h == Head(s)
             g == IF h.st = "wire" THEN [h EXCEPT !.id = i, !.sid = sid]
                  ELSE [h EXCEPT !.id = 0, !.sid = 0]
             r == Tail(s)
  <2>1. h \in FrameSet(m) /\ r \in Seq(FrameSet(m)) /\ FrameFits(h) /\ h.st # "stream"
    BY <1>2, HeadTail, TailFits
  <2>2. Build(s, i) = <<g>> \o r
    BY <1>2 DEF Build
  <2>3. 0 \in 0..m /\ 0 \in 0..MaxSids /\ sid \in 0..MaxSids
    BY ConstTypes
  <2> HIDE DEF h, r
  <2>4. g \in FrameSet(m) /\ g.own = h.own /\ g.batch = h.batch /\ g.k = h.k /\ g.st = h.st
    BY <2>1, <2>3 DEF FrameSet
  <2>5. FrameFits(g)
    BY <2>1, <2>4 DEF FrameFits
  <2> HIDE DEF g
  <2>6. <<g>> \o r \in Seq(FrameSet(m)) /\ <<g>> \o r # <<>> /\ Head(<<g>> \o r) = g
    BY <2>1, <2>4
  <2>7. Fits(t, <<g>> \o r, ph)
    BY <1>2, <2>4, <2>5, ReplaceFits DEF h, r
  <2>8. Alike(s, <<g>> \o r)
    BY <1>2, <2>4, ReplaceAlike DEF h, r
  <2> QED  BY <1>2, <2>2, <2>4, <2>6, <2>7, <2>8 DEF h
<1> QED  BY <1>1, <1>2

\* A call that returned leaves what was below it.
LEMMA PopKeeps ==
    ASSUME NEW m \in Nat, NEW s \in Seq(FrameSet(m)), s # <<>>,
           NEW t, NEW ph, Fits(t, s, ph)
    PROVE  Pop(s) \in Seq(FrameSet(m)) /\ Fits(t, Pop(s), ph) /\ Alike(Tail(s), Pop(s))
<1> DEFINE r == Tail(s)
<1>1. r \in Seq(FrameSet(m)) /\ Fits(t, r, ph)
  BY TailFits
<1>2. CASE Len(s) < 2 \/ s[2].st # "nest"
  BY <1>1, <1>2 DEF Pop, Alike
<1>3. CASE ~(Len(s) < 2 \/ s[2].st # "nest")
  <2> DEFINE h == Head(r)
             g == [h EXCEPT !.st = IF h.k = "emit" THEN "wire" ELSE "send", !.re = (h.k # "in")]
  <2>1. Len(s) \in Nat /\ Len(s) >= 2
    BY <1>3
  <2>2. Len(r) = Len(s) - 1 /\ r # <<>> /\ Head(r) = s[2]
    BY <2>1
  <2>3. Tail(r) = SubSeq(s, 3, Len(s))
    BY <2>1
  <2>4. Pop(s) = <<g>> \o Tail(r)
    BY <1>3, <2>2, <2>3 DEF Pop
  <2> HIDE DEF r
  <2>5. h \in FrameSet(m) /\ FrameFits(h)
    BY <1>1, <2>2, HeadTail, TailFits
  <2> HIDE DEF h
  <2>6. /\ g \in FrameSet(m) /\ g.own = h.own /\ g.batch = h.batch /\ g.k = h.k
        /\ g.st # "stream"
    BY <2>5 DEF FrameSet
  <2>7. FrameFits(g)
    BY <2>5, <2>6 DEF FrameFits
  <2> HIDE DEF g
  <2>8. <<g>> \o Tail(r) \in Seq(FrameSet(m))
    BY <1>1, <2>2, <2>6, HeadTail
  <2>9. Fits(t, <<g>> \o Tail(r), ph)
    BY <1>1, <2>2, <2>6, <2>7, ReplaceFits DEF h
  <2>10. Alike(r, <<g>> \o Tail(r))
    BY <1>1, <2>2, <2>6, ReplaceAlike DEF h
  <2> QED  BY <2>4, <2>8, <2>9, <2>10 DEF r
<1> QED  BY <1>2, <1>3

\* Nothing is in an empty sequence, or in an empty stack.
LEMMA EmptyHolds ==
    \A n : /\ ~InSeq(<<>>, n) /\ OnceSeq(<<>>, n)
           /\ ~InStack(<<>>, n) /\ OnceStack(<<>>, n)
<1>1. DOMAIN <<>> = {}
  OBVIOUS
<1> QED  BY <1>1 DEF InSeq, OnceSeq, InStack, OnceStack

\* A sequence of events at its head.
LEMMA SeqTop ==
    ASSUME NEW S, NEW q \in Seq(S), q # <<>>, NEW n
    PROVE  /\ InSeq(q, n) <=> Head(q).n = n \/ InSeq(Tail(q), n)
           /\ OnceSeq(q, n) <=> OnceSeq(Tail(q), n) /\ ~(Head(q).n = n /\ InSeq(Tail(q), n))
<1> DEFINE h == Head(q)
           r == Tail(q)
<1>1. h \in S /\ r \in Seq(S) /\ q = <<h>> \o r /\ <<h>> \in Seq(S)
  BY HeadTail
<1> HIDE DEF h, r
<1>2. /\ InSeq(<<h>> \o r, n) <=> InSeq(<<h>>, n) \/ InSeq(r, n)
      /\ OnceSeq(<<h>> \o r, n) <=>
             OnceSeq(<<h>>, n) /\ OnceSeq(r, n) /\ ~(InSeq(<<h>>, n) /\ InSeq(r, n))
  BY <1>1, SeqCat
<1>3. (InSeq(<<h>>, n) <=> h.n = n) /\ OnceSeq(<<h>>, n)
  BY Singles
<1> QED  BY <1>1, <1>2, <1>3 DEF h, r

\* A stack that is well formed, with what it and the backlog hold accounted for.
Passes(t, ph, m, s, q, r, p, out) ==
    /\ r \in Seq(FrameSet(m)) /\ Fits(t, r, ph) /\ p \in Seq(Events)
    /\ Moves(s, q, r, p, out)

\* The event that was sent leaves its frame, and nothing else does.
LEMMA SentMoves ==
    ASSUME NEW m \in Nat, NEW s \in Seq(FrameSet(m)), s # <<>>, NEW q \in Seq(Events),
           NEW t, NEW ph, Fits(t, s, ph), Head(s).k = "emit"
    PROVE  /\ Passes(t, ph, m, s, q, Sent(s), q, {Current(Head(s)).n})
           /\ \A n \in Nat \ {0} : Once(s, q, n) /\ n = Current(Head(s)).n
                  => ~With(Sent(s), q, n)
<1> DEFINE f == Head(s)
           r == Tail(s)
           c == Current(f)
<1> USE ConstTypes
<1>1. f \in FrameSet(m) /\ r \in Seq(FrameSet(m)) /\ FrameFits(f) /\ f.k = "emit"
  BY HeadTail, TailFits
<1>2. \A n : /\ InStack(s, n) <=> InFrame(f, n) \/ InStack(r, n)
             /\ OnceStack(s, n) <=>
                    OnceFrame(f, n) /\ OnceStack(r, n) /\ ~(InFrame(f, n) /\ InStack(r, n))
  BY TopOf
<1>3. f.batch \in Seq(Events) /\ f.own \in Events \cup {NoEvent}
  BY <1>1, FrameHolds
<1>4. \A n : InFrame(f, n) <=> f.own.n = n \/ InSeq(f.batch, n)
  BY <1>1, FrameHolds
<1>5. \A n : OnceFrame(f, n) <=> OnceSeq(f.batch, n) /\ ~(f.own.n = n /\ InSeq(f.batch, n))
  BY <1>1, FrameHolds
<1>6. Pop(s) \in Seq(FrameSet(m)) /\ Fits(t, Pop(s), ph) /\ Alike(r, Pop(s))
  BY PopKeeps
<1>7. NoEvent.n = 0
  BY EventTypes
<1>8. CASE f.batch = <<>>
  <2>1. Sent(s) = Pop(s) /\ c = f.own
    BY <1>8 DEF Sent, Current
  <2>2. \A n : ~InSeq(f.batch, n)
    BY <1>8, EmptyHolds
  <2>3. Moves(s, q, Pop(s), q, {c.n})
    BY <2>1, <2>2, <1>2, <1>4, <1>6 DEF Moves, Once, With, Alike
  <2>4. \A n : Once(s, q, n) /\ n = c.n => ~With(Pop(s), q, n)
    BY <2>1, <2>2, <1>2, <1>4, <1>6 DEF Once, With, Alike
  <2> QED  BY <2>1, <2>3, <2>4, <1>6 DEF Passes
<1>9. CASE f.batch # <<>>
  <2> DEFINE b == Tail(f.batch)
             e == Head(f.batch)
  <2>1. c = e /\ b \in Seq(Events)
    BY <1>9, <1>3 DEF Current
  <2>2. \A n : /\ InSeq(f.batch, n) <=> e.n = n \/ InSeq(b, n)
               /\ OnceSeq(f.batch, n) <=> OnceSeq(b, n) /\ ~(e.n = n /\ InSeq(b, n))
    BY <1>9, <1>3, SeqTop
  <2>3. CASE b = <<>> /\ f.own = NoEvent
    <3>1. Sent(s) = Pop(s)
      BY <1>9, <2>3 DEF Sent
    <3>2. \A n : ~InSeq(b, n)
      BY <2>3, EmptyHolds
    <3> HIDE DEF b, e, c, f, r
    <3>3. Moves(s, q, Pop(s), q, {c.n})
      BY <2>1, <2>2, <2>3, <3>2, <1>2, <1>4, <1>6, <1>7 DEF Moves, Once, With, Alike
    <3>4. \A n \in Nat \ {0} : Once(s, q, n) /\ n = c.n => ~With(Pop(s), q, n)
      BY <2>1, <2>2, <2>3, <3>2, <1>2, <1>4, <1>6, <1>7 DEF Once, With, Alike
    <3>5. Passes(t, ph, m, s, q, Sent(s), q, {c.n})
      BY <3>1, <3>3, <1>6 DEF Passes
    <3> QED  BY <3>1, <3>4, <3>5 DEF c, f
  <2>4. CASE ~(b = <<>> /\ f.own = NoEvent)
    <3> DEFINE g == [f EXCEPT !.batch = b, !.try = 1, !.re = FALSE, !.st = "wire"]
    <3>1. Sent(s) = <<g>> \o r
      BY <1>9, <2>4 DEF Sent
    <3>2. 1 \in 1..MaxTries
      OBVIOUS
    <3> HIDE DEF f, r, c, b, e
    <3>3. /\ g \in FrameSet(m) /\ g.own = f.own /\ g.batch = b /\ g.k = "emit"
          /\ g.st = "wire"
      BY <1>1, <2>1, <3>2 DEF FrameSet
    <3>4. FrameFits(g)
      BY <3>3, <2>4 DEF FrameFits
    <3> HIDE DEF g
    <3>5. \A n : /\ InFrame(g, n) <=> f.own.n = n \/ InSeq(b, n)
                 /\ OnceFrame(g, n) <=> OnceSeq(b, n) /\ ~(f.own.n = n /\ InSeq(b, n))
      BY <3>3, FrameHolds
    <3>6. \A n : /\ InStack(<<g>> \o r, n) <=> InFrame(g, n) \/ InStack(r, n)
                 /\ OnceStack(<<g>> \o r, n) <=>
                        OnceFrame(g, n) /\ OnceStack(r, n) /\ ~(InFrame(g, n) /\ InStack(r, n))
      BY <1>1, <3>3, OnTop
    <3>7. Moves(s, q, <<g>> \o r, q, {c.n})
      BY <2>1, <2>2, <3>5, <3>6, <1>2, <1>4, <1>5 DEF Moves, Once, With
    <3>8. \A n : Once(s, q, n) /\ n = c.n => ~With(<<g>> \o r, q, n)
      BY <2>1, <2>2, <3>5, <3>6, <1>2, <1>4, <1>5 DEF Once, With
    <3>9. <<g>> \o r \in Seq(FrameSet(m))
      BY <1>1, <3>3
    <3>10. Fits(t, <<g>> \o r, ph)
      BY <3>3, <3>4, ReplaceFits DEF r
    <3>11. Passes(t, ph, m, s, q, Sent(s), q, {c.n})
      BY <3>1, <3>7, <3>9, <3>10 DEF Passes
    <3> QED  BY <3>1, <3>8, <3>11 DEF c, f
  <2> QED  BY <2>3, <2>4
<1> QED  BY <1>8, <1>9

\* Alike stacks hold the same with any backlog.
LEMMA AlikeMoves ==
    ASSUME NEW s, NEW r, Alike(s, r), NEW q
    PROVE  Moves(s, q, r, q, {})
BY DEF Alike, Moves, Once, With

\* A frame that took the whole backlog in front of its own new event.
LEMMA TakeBacklog ==
    ASSUME NEW m \in Nat, NEW q \in Seq(Events), NEW e \in Events \cup {NoEvent}, NEW n
    PROVE  /\ InFrame(EmitFrame(q, e), n) <=> e.n = n \/ InSeq(q, n)
           /\ OnceFrame(EmitFrame(q, e), n) <=> OnceSeq(q, n) /\ ~(e.n = n /\ InSeq(q, n))
<1> DEFINE g == EmitFrame(q, e)
<1>1. g \in FrameSet(m)
  BY NewFrames
<1>2. g.own = e /\ g.batch = q
  BY DEF EmitFrame, Frame
<1> HIDE DEF g
<1>3. /\ InFrame(g, n) <=> e.n = n \/ InSeq(q, n)
      /\ OnceFrame(g, n) <=> OnceSeq(q, n) /\ ~(e.n = n /\ InSeq(q, n))
  BY <1>1, <1>2, FrameHolds
<1> QED  BY <1>3 DEF g

\* drainPending gave up: what it had not sent is again in front of the backlog.
LEMMA DrainFailed ==
    ASSUME NEW m \in Nat, NEW s \in Seq(FrameSet(m)), s # <<>>, NEW q \in Seq(Events),
           NEW t, NEW ph, Fits(t, s, ph), Head(s).k = "emit", Head(s).batch # <<>>,
           NEW r, r = (IF Head(s).own = NoEvent THEN Pop(s)
                       ELSE <<[Head(s) EXCEPT !.batch = <<>>, !.try = 1, !.re = FALSE,
                                              !.st = "wire"]>> \o Tail(s))
    PROVE  Passes(t, ph, m, s, q, r, PutBack(Head(s), q), {})
<1> DEFINE f == Head(s)
           u == Tail(s)
           p == PutBack(f, q)
<1> USE ConstTypes
<1>1. f \in FrameSet(m) /\ u \in Seq(FrameSet(m)) /\ FrameFits(f) /\ f.k = "emit"
  BY HeadTail, TailFits
<1>2. \A n : /\ InStack(s, n) <=> InFrame(f, n) \/ InStack(u, n)
             /\ OnceStack(s, n) <=>
                    OnceFrame(f, n) /\ OnceStack(u, n) /\ ~(InFrame(f, n) /\ InStack(u, n))
  BY TopOf
<1>3. f.batch \in Seq(Events) /\ f.own \in Events \cup {NoEvent}
  BY <1>1, FrameHolds
<1>4. \A n : /\ InFrame(f, n) <=> f.own.n = n \/ InSeq(f.batch, n)
             /\ OnceFrame(f, n) <=> OnceSeq(f.batch, n) /\ ~(f.own.n = n /\ InSeq(f.batch, n))
  BY <1>1, FrameHolds
<1>5. Pop(s) \in Seq(FrameSet(m)) /\ Fits(t, Pop(s), ph) /\ Alike(u, Pop(s))
  BY PopKeeps
<1>6. p \in Seq(Events) /\ p = f.batch \o q
  BY <1>3 DEF PutBack
<1>7. \A n : /\ InSeq(p, n) <=> InSeq(f.batch, n) \/ InSeq(q, n)
             /\ OnceSeq(p, n) <=> /\ OnceSeq(f.batch, n) /\ OnceSeq(q, n)
                                  /\ ~(InSeq(f.batch, n) /\ InSeq(q, n))
  <2> DEFINE b == f.batch
  <2>1. b \in Seq(Events) /\ p = b \o q
    BY <1>3, <1>6
  <2> HIDE DEF b, p
  <2> QED  BY <2>1, SeqCat DEF b
<1>8. NoEvent.n = 0
  BY EventTypes
<1>9. CASE f.own = NoEvent
  <2>1. r = Pop(s)
    BY <1>9
  <2> HIDE DEF f, u, p
  <2>2. Moves(s, q, Pop(s), p, {})
    BY <1>2, <1>4, <1>5, <1>7, <1>8, <1>9 DEF Moves, Once, With, Alike
  <2>3. Passes(t, ph, m, s, q, r, p, {})
    BY <2>1, <2>2, <1>5, <1>6 DEF Passes
  <2> QED  BY <2>3 DEF p, f
<1>10. CASE f.own # NoEvent
  <2> DEFINE g == [f EXCEPT !.batch = <<>>, !.try = 1, !.re = FALSE, !.st = "wire"]
  <2>1. r = <<g>> \o u
    BY <1>10
  <2>2. 1 \in 1..MaxTries /\ <<>> \in Seq(Events)
    OBVIOUS
  <2> HIDE DEF f, u, p
  <2>3. /\ g \in FrameSet(m) /\ g.own = f.own /\ g.batch = <<>> /\ g.k = "emit"
        /\ g.st = "wire"
    BY <1>1, <2>2 DEF FrameSet
  <2>4. FrameFits(g)
    BY <2>3, <1>10 DEF FrameFits
  <2> HIDE DEF g
  <2>5. \A n : /\ InFrame(g, n) <=> f.own.n = n \/ InSeq(<<>>, n)
               /\ OnceFrame(g, n) <=> OnceSeq(<<>>, n) /\ ~(f.own.n = n /\ InSeq(<<>>, n))
    BY <2>3, FrameHolds
  <2>6. \A n : /\ InStack(<<g>> \o u, n) <=> InFrame(g, n) \/ InStack(u, n)
               /\ OnceStack(<<g>> \o u, n) <=>
                      OnceFrame(g, n) /\ OnceStack(u, n) /\ ~(InFrame(g, n) /\ InStack(u, n))
    BY <1>1, <2>3, OnTop
  <2>7. Moves(s, q, <<g>> \o u, p, {})
    BY <1>2, <1>4, <1>7, <2>5, <2>6, EmptyHolds DEF Moves, Once, With
  <2>8. <<g>> \o u \in Seq(FrameSet(m))
    BY <1>1, <2>3
  <2>9. Fits(t, <<g>> \o u, ph)
    BY <2>3, <2>4, ReplaceFits DEF u
  <2>10. Passes(t, ph, m, s, q, r, p, {})
    BY <2>1, <2>7, <2>8, <2>9, <1>6 DEF Passes
  <2> QED  BY <2>10 DEF p, f
<1> QED  BY <1>9, <1>10

\* queuePending: the event is last in the backlog, and the oldest may leave it.
LEMMA QueueKeeps ==
    ASSUME NEW q \in Seq(Events), NEW e \in Events
    PROVE  /\ QueuePending(q, e) \in Seq(Events) /\ Overflow(q) \subseteq Events
           /\ \A n : /\ InSeq(QueuePending(q, e), n) => InSeq(q, n) \/ e.n = n
                     /\ OnceSeq(q, n) /\ ~(InSeq(q, n) /\ e.n = n)
                            => OnceSeq(QueuePending(q, e), n)
                     /\ e.n = n => InSeq(QueuePending(q, e), n)
                     /\ InSeq(q, n) => \/ InSeq(QueuePending(q, e), n)
                                       \/ n \in {x.n : x \in Overflow(q)}
<1> DEFINE b == IF Len(q) >= PendingMax THEN Tail(q) ELSE q
<1> USE ConstTypes
<1>1. Len(q) >= PendingMax => q # <<>>
  OBVIOUS
<1>2. b \in Seq(Events) /\ Overflow(q) \subseteq Events
  BY <1>1 DEF Overflow
<1>3. \A n : /\ InSeq(b, n) => InSeq(q, n)
             /\ OnceSeq(q, n) => OnceSeq(b, n)
             /\ InSeq(q, n) => InSeq(b, n) \/ n \in {x.n : x \in Overflow(q)}
  <2>1. CASE Len(q) >= PendingMax
    <3>1. \A n : /\ InSeq(q, n) <=> Head(q).n = n \/ InSeq(Tail(q), n)
                 /\ OnceSeq(q, n) <=>
                        OnceSeq(Tail(q), n) /\ ~(Head(q).n = n /\ InSeq(Tail(q), n))
      BY <2>1, <1>1, SeqTop
    <3>2. Overflow(q) = {Head(q)} /\ b = Tail(q)
      BY <2>1 DEF Overflow
    <3> QED  BY <3>1, <3>2
  <2>2. CASE ~(Len(q) >= PendingMax)
    BY <2>2
  <2> QED  BY <2>1, <2>2
<1>4. QueuePending(q, e) = b \o <<e>> /\ <<e>> \in Seq(Events)
  BY <1>2 DEF QueuePending
<1> HIDE DEF b
<1>5. \A n : /\ InSeq(b \o <<e>>, n) <=> InSeq(b, n) \/ InSeq(<<e>>, n)
             /\ OnceSeq(b \o <<e>>, n) <=>
                    OnceSeq(b, n) /\ OnceSeq(<<e>>, n) /\ ~(InSeq(b, n) /\ InSeq(<<e>>, n))
  BY <1>2, <1>4, SeqCat
<1>6. \A n : (InSeq(<<e>>, n) <=> e.n = n) /\ OnceSeq(<<e>>, n)
  BY Singles
<1>7. QueuePending(q, e) \in Seq(Events)
  BY <1>2, <1>4
<1> QED  BY <1>2, <1>3, <1>4, <1>5, <1>6, <1>7

\* emitWithRetry gave up on the goroutine's own event, which is queued.
LEMMA OwnFailed ==
    ASSUME NEW m \in Nat, NEW s \in Seq(FrameSet(m)), s # <<>>, NEW q \in Seq(Events),
           NEW t, NEW ph, Fits(t, s, ph), Head(s).k = "emit", Head(s).batch = <<>>
    PROVE  /\ Head(s).own \in Events /\ Overflow(q) \subseteq Events
           /\ Passes(t, ph, m, s, q, Pop(s), QueuePending(q, Head(s).own),
                     {x.n : x \in Overflow(q)})
<1> DEFINE f == Head(s)
           u == Tail(s)
           p == QueuePending(q, f.own)
           out == {x.n : x \in Overflow(q)}
<1>1. f \in FrameSet(m) /\ u \in Seq(FrameSet(m)) /\ FrameFits(f) /\ f.k = "emit"
  BY HeadTail, TailFits
<1>2. \A n : /\ InStack(s, n) <=> InFrame(f, n) \/ InStack(u, n)
             /\ OnceStack(s, n) <=>
                    OnceFrame(f, n) /\ OnceStack(u, n) /\ ~(InFrame(f, n) /\ InStack(u, n))
  BY TopOf
<1>3. f.own \in Events
  BY <1>1, FrameHolds DEF FrameFits
<1>4. \A n : (InFrame(f, n) <=> f.own.n = n) /\ OnceFrame(f, n)
  <2>1. \A n : /\ InFrame(f, n) <=> f.own.n = n \/ InSeq(f.batch, n)
               /\ OnceFrame(f, n) <=> OnceSeq(f.batch, n) /\ ~(f.own.n = n /\ InSeq(f.batch, n))
    BY <1>1, FrameHolds
  <2>2. f.batch = <<>>
    OBVIOUS
  <2> QED  BY <2>1, <2>2, EmptyHolds
<1>5. Pop(s) \in Seq(FrameSet(m)) /\ Fits(t, Pop(s), ph) /\ Alike(u, Pop(s))
  BY PopKeeps
<1>6. /\ p \in Seq(Events) /\ Overflow(q) \subseteq Events
      /\ \A n : /\ InSeq(p, n) => InSeq(q, n) \/ f.own.n = n
                /\ OnceSeq(q, n) /\ ~(InSeq(q, n) /\ f.own.n = n) => OnceSeq(p, n)
                /\ f.own.n = n => InSeq(p, n)
                /\ InSeq(q, n) => InSeq(p, n) \/ n \in out
  BY <1>3, QueueKeeps
<1> HIDE DEF f, u, p, out
<1>7. Moves(s, q, Pop(s), p, out)
  BY <1>2, <1>4, <1>5, <1>6 DEF Moves, Once, With, Alike
<1>8. Passes(t, ph, m, s, q, Pop(s), p, out)
  BY <1>5, <1>6, <1>7 DEF Passes
<1> QED  BY <1>3, <1>6, <1>8 DEF p, f, out

-----------------------------------------------------------------------------
(* The ways a call of the wrapper may end.                                 *)

\* A goroutine at work, in a state of the right shape.
Working(t) == BridgeInv /\ t \in Threads /\ stack[t] # <<>>

\* It goes on, and no event it or the backlog holds is lost but those of out,
\* which are given away, and those that leave the full queue.
Goes(t, out) ==
    \E r, q, d :
        /\ Continue(t, r, q, d) /\ d \subseteq Events
        /\ Passes(t, phase, Len(sess), stack[t], pending, r, q, out \cup {e.n : e \in d})
        /\ \A n \in Nat \ {0} : Once(stack[t], pending, n) /\ n \in out => ~With(r, q, n)

LEMMA AtWork ==
    ASSUME NEW t, Working(t)
    PROVE  /\ Len(sess) \in Nat /\ stack[t] \in Seq(FrameSet(Len(sess)))
           /\ Fits(t, stack[t], phase) /\ pending \in Seq(Events)
           /\ Head(stack[t]) \in FrameSet(Len(sess)) /\ FrameFits(Head(stack[t]))
           /\ Tail(stack[t]) \in Seq(FrameSet(Len(sess)))
<1>1. stack[t] \in Seq(FrameSet(Len(sess))) /\ Fits(t, stack[t], phase)
  BY DEF Working, BridgeInv, StackTyped, StackFits
<1>2. Len(sess) \in Nat /\ pending \in Seq(Events) /\ stack[t] # <<>>
  BY DEF Working, BridgeInv, DaemonTyped, WrapperTyped
<1>3. Head(stack[t]) \in FrameSet(Len(sess)) /\ Tail(stack[t]) \in Seq(FrameSet(Len(sess)))
  BY <1>1, <1>2, HeadTail
<1>4. FrameFits(Head(stack[t]))
  BY <1>1, <1>2, TailFits
<1> QED  BY <1>1, <1>2, <1>3, <1>4

\* A step that gives nothing away.
LEMMA GoesOn ==
    ASSUME NEW t, NEW r, NEW q, NEW d, Continue(t, r, q, d), d \subseteq Events,
           Passes(t, phase, Len(sess), stack[t], pending, r, q, {e.n : e \in d})
    PROVE  Goes(t, {})
<1>1. {} \cup {e.n : e \in d} = {e.n : e \in d}
  OBVIOUS
<1> QED  BY <1>1 DEF Goes

LEMMA SentGoes ==
    ASSUME NEW t, Working(t), Top(t).k = "emit",
           Continue(t, Sent(stack[t]), pending, {})
    PROVE  Goes(t, {Current(Top(t)).n})
<1> DEFINE out == {Current(Top(t)).n}
<1>1. /\ Passes(t, phase, Len(sess), stack[t], pending, Sent(stack[t]), pending, out)
      /\ \A n \in Nat \ {0} : Once(stack[t], pending, n) /\ n \in out
              => ~With(Sent(stack[t]), pending, n)
  BY AtWork, SentMoves DEF Working, Top
<1>2. out \cup {e.n : e \in {}} = out
  OBVIOUS
<1> HIDE DEF out
<1>3. Goes(t, out)
  BY <1>1, <1>2 DEF Goes
<1> QED  BY <1>3 DEF out

LEMMA FailedGoes ==
    ASSUME NEW t, Working(t), Top(t).k = "emit", Failed(t)
    PROVE  Goes(t, {})
<1> DEFINE s == stack[t]
           f == Head(s)
           m == Len(sess)
<1>1. /\ m \in Nat /\ s \in Seq(FrameSet(m)) /\ s # <<>>
      /\ Fits(t, s, phase) /\ pending \in Seq(Events) /\ f.k = "emit"
  BY AtWork DEF Working, Top
<1>2. CASE f.batch # <<>>
  <2> DEFINE r == IF f.own = NoEvent THEN Pop(s)
                  ELSE <<[f EXCEPT !.batch = <<>>, !.try = 1, !.re = FALSE,
                                   !.st = "wire"]>> \o Tail(s)
  <2>1. Continue(t, r, PutBack(f, pending), {})
    BY <1>2 DEF Failed
  <2>2. Passes(t, phase, m, s, pending, r, PutBack(f, pending), {})
    BY <1>1, <1>2, DrainFailed
  <2>3. {e.n : e \in {}} = {}
    OBVIOUS
  <2> HIDE DEF r
  <2> QED  BY <2>1, <2>2, <2>3, GoesOn
<1>3. CASE f.batch = <<>>
  <2>1. Continue(t, Pop(s), QueuePending(pending, f.own), Overflow(pending))
    BY <1>3 DEF Failed
  <2>2. /\ Overflow(pending) \subseteq Events
        /\ Passes(t, phase, m, s, pending, Pop(s), QueuePending(pending, f.own),
                  {x.n : x \in Overflow(pending)})
    BY <1>1, <1>3, OwnFailed
  <2> QED  BY <2>1, <2>2, GoesOn
<1> QED  BY <1>2, <1>3

\* The top frame goes on with what it holds.
LEMMA SetHeadGoes ==
    ASSUME NEW t, Working(t), NEW f \in FrameSet(Len(sess)), FrameFits(f),
           f.own = Top(t).own, f.batch = Top(t).batch, f.k = Top(t).k,
           SetHead(t, f)
    PROVE  Goes(t, {})
<1> DEFINE s == stack[t]
           m == Len(sess)
           r == <<f>> \o Tail(s)
<1>1. /\ m \in Nat /\ s \in Seq(FrameSet(m)) /\ s # <<>>
      /\ Fits(t, s, phase) /\ pending \in Seq(Events) /\ Tail(s) \in Seq(FrameSet(m))
  BY AtWork DEF Working
<1>2. Fits(t, r, phase)
  BY <1>1, ReplaceFits DEF Top
<1>3. Alike(s, r)
  BY <1>1, ReplaceAlike DEF Top
<1>4. Moves(s, pending, r, pending, {})
  BY <1>3, AlikeMoves
<1>5. r \in Seq(FrameSet(m))
  BY <1>1
<1>6. Continue(t, r, pending, {})
  BY DEF SetHead
<1>7. Passes(t, phase, m, s, pending, r, pending, {})
  BY <1>1, <1>2, <1>4, <1>5 DEF Passes
<1>8. {e.n : e \in {}} = {}
  OBVIOUS
<1> HIDE DEF r
<1> QED  BY <1>6, <1>7, <1>8, GoesOn

LEMMA TryFailedGoes ==
    ASSUME NEW t, Working(t), Top(t).k = "emit", TryFailed(t)
    PROVE  Goes(t, {})
<1>1. CASE Top(t).try >= MaxTries
  BY <1>1, FailedGoes DEF TryFailed, Top
<1>2. CASE ~(Top(t).try >= MaxTries)
  <2> DEFINE h == Top(t)
             f == [h EXCEPT !.try = @ + 1, !.re = FALSE, !.st = "send"]
  <2>1. SetHead(t, f)
    BY <1>2 DEF TryFailed, Top, SetHead
  <2>2. h \in FrameSet(Len(sess)) /\ FrameFits(h)
    BY AtWork DEF Top
  <2>3. h.try + 1 \in 1..MaxTries
    <3>1. h.try \in 1..MaxTries
      BY <2>2 DEF FrameSet
    <3> HIDE DEF h
    <3> QED  BY <3>1, <1>2, ConstTypes DEF h
  <2> HIDE DEF h
  <2>4. /\ f \in FrameSet(Len(sess)) /\ f.own = h.own /\ f.batch = h.batch /\ f.k = h.k
        /\ f.st = "send"
    BY <2>2, <2>3 DEF FrameSet
  <2>5. FrameFits(f)
    BY <2>2, <2>4 DEF FrameFits
  <2> HIDE DEF f
  <2> QED  BY <2>1, <2>4, <2>5, SetHeadGoes DEF h
<1> QED  BY <1>1, <1>2

\* The frame that took the backlog holds it in the backlog's place.
LEMMA Drained ==
    ASSUME NEW t, Working(t), Top(t).k # "emit", NEW e \in Events \cup {NoEvent}, e.n = 0,
           pending # <<>> \/ e # NoEvent
    PROVE  Passes(t, phase, Len(sess), stack[t], pending,
                  <<EmitFrame(pending, e)>> \o Tail(stack[t]), <<>>, {})
<1> DEFINE s == stack[t]
           m == Len(sess)
           h == Head(s)
           u == Tail(s)
           g == EmitFrame(pending, e)
<1>1. /\ m \in Nat /\ s \in Seq(FrameSet(m)) /\ s # <<>>
      /\ Fits(t, s, phase) /\ pending \in Seq(Events) /\ u \in Seq(FrameSet(m))
  BY AtWork DEF Working
<1>2. \A n : /\ InStack(s, n) <=> InFrame(h, n) \/ InStack(u, n)
             /\ OnceStack(s, n) <=>
                    OnceFrame(h, n) /\ OnceStack(u, n) /\ ~(InFrame(h, n) /\ InStack(u, n))
  BY <1>1, TopOf
<1>3. g \in FrameSet(m) /\ FrameFits(g) /\ g.k = "emit"
  BY <1>1, NewFrames
<1>4. \A n : /\ InFrame(g, n) <=> e.n = n \/ InSeq(pending, n)
             /\ OnceFrame(g, n) <=> OnceSeq(pending, n) /\ ~(e.n = n /\ InSeq(pending, n))
  BY <1>1, TakeBacklog
<1>9. \A n \in Nat \ {0} : ~InFrame(h, n)
  <2>1. h \in FrameSet(m) /\ h.batch = <<>> /\ h.own = NoEvent
    BY <1>1, AtWork DEF FrameFits, Top
  <2>2. NoEvent.n = 0
    BY EventTypes
  <2>3. \A n : InFrame(h, n) <=> h.own.n = n \/ InSeq(h.batch, n)
    BY <1>1, <2>1, FrameHolds
  <2> QED  BY <2>1, <2>2, <2>3, EmptyHolds
<1> HIDE DEF g, h, u
<1>5. \A n : /\ InStack(<<g>> \o u, n) <=> InFrame(g, n) \/ InStack(u, n)
             /\ OnceStack(<<g>> \o u, n) <=>
                    OnceFrame(g, n) /\ OnceStack(u, n) /\ ~(InFrame(g, n) /\ InStack(u, n))
  BY <1>1, <1>3, OnTop
<1>6. Moves(s, pending, <<g>> \o u, <<>>, {})
  BY <1>2, <1>4, <1>5, <1>9, EmptyHolds DEF Moves, Once, With
<1>7. Fits(t, <<g>> \o u, phase)
  BY <1>1, <1>3, ReplaceFits DEF u
<1>8. <<g>> \o u \in Seq(FrameSet(m)) /\ <<>> \in Seq(Events)
  BY <1>1, <1>3
<1> QED  BY <1>6, <1>7, <1>8 DEF Passes, g, u

LEMMA AfterKeepaliveGoes ==
    ASSUME NEW t, Working(t), Top(t).k = "ka", AfterKeepalive(t)
    PROVE  Goes(t, {})
<1> DEFINE s == stack[t]
           m == Len(sess)
<1>1. /\ m \in Nat /\ s \in Seq(FrameSet(m)) /\ s # <<>>
      /\ Fits(t, s, phase) /\ pending \in Seq(Events) /\ Tail(s) \in Seq(FrameSet(m))
      /\ Head(s) \in FrameSet(m) /\ FrameFits(Head(s)) /\ Head(s).k = "ka"
  BY AtWork DEF Working, Top
<1>2. {e.n : e \in {}} = {}
  OBVIOUS
<1>3. NoEvent.n = 0 /\ NoEvent \in Events \cup {NoEvent}
  BY EventTypes
<1>4. CASE pending = <<>>
  <2>1. Continue(t, Tail(s), pending, {})
    BY <1>4 DEF AfterKeepalive
  <2>2. Fits(t, Tail(s), phase)
    BY <1>1, TailFits
  <2>3. \A n \in Nat \ {0} : ~InFrame(Head(s), n)
    <3>1. Head(s).batch = <<>> /\ Head(s).own = NoEvent
      BY <1>1 DEF FrameFits
    <3>2. \A n : InFrame(Head(s), n) <=> Head(s).own.n = n \/ InSeq(Head(s).batch, n)
      BY <1>1, FrameHolds
    <3> QED  BY <1>3, <3>1, <3>2, EmptyHolds
  <2>4. \A n : /\ InStack(s, n) <=> InFrame(Head(s), n) \/ InStack(Tail(s), n)
               /\ OnceStack(s, n) <=>
                      /\ OnceFrame(Head(s), n) /\ OnceStack(Tail(s), n)
                      /\ ~(InFrame(Head(s), n) /\ InStack(Tail(s), n))
    BY <1>1, TopOf
  <2>5. Moves(s, pending, Tail(s), pending, {})
    BY <2>3, <2>4 DEF Moves, Once, With
  <2>6. Passes(t, phase, m, s, pending, Tail(s), pending, {})
    BY <1>1, <2>2, <2>5 DEF Passes
  <2> QED  BY <1>2, <2>1, <2>6, GoesOn
<1>5. CASE pending # <<>>
  <2>1. Continue(t, <<EmitFrame(pending, NoEvent)>> \o Tail(s), <<>>, {})
    BY <1>5 DEF AfterKeepalive
  <2>2. Passes(t, phase, m, s, pending, <<EmitFrame(pending, NoEvent)>> \o Tail(s), <<>>, {})
    BY <1>3, <1>5, Drained DEF Top
  <2> QED  BY <1>2, <2>1, <2>2, GoesOn
<1> QED  BY <1>4, <1>5

LEMMA AfterExitIntentGoes ==
    ASSUME NEW t, Working(t), Top(t).k = "exit", AfterExitIntent(t)
    PROVE  Goes(t, {})
<1> DEFINE s == stack[t]
           m == Len(sess)
           g == EmitFrame(pending, Notice("exited"))
<1>1. /\ m \in Nat /\ s \in Seq(FrameSet(m)) /\ s # <<>>
      /\ Fits(t, s, phase) /\ pending \in Seq(Events) /\ Head(s).k = "exit"
  BY AtWork DEF Working, Top
<1>2. Tail(s) = <<>>
  BY <1>1, TailFits
<1>3. Notice("exited") \in Events \cup {NoEvent} /\ Notice("exited").n = 0
      /\ Notice("exited") # NoEvent
  BY EventTypes DEF Notice
<1>4. Passes(t, phase, m, s, pending, <<g>> \o Tail(s), <<>>, {})
  BY <1>1, <1>3, Drained DEF Top
<1>5. <<g>> \o <<>> = <<g>>
  OBVIOUS
<1>6. Continue(t, <<g>>, <<>>, {})
  BY DEF AfterExitIntent
<1>7. {e.n : e \in {}} = {}
  OBVIOUS
<1> HIDE DEF g
<1> QED  BY <1>2, <1>4, <1>5, <1>6, <1>7, GoesOn

\* The top frame changes its state only.
LEMMA SetStateGoes ==
    ASSUME NEW t, Working(t), NEW st \in {"send", "reg"},
           SetHead(t, [Top(t) EXCEPT !.st = st])
    PROVE  Goes(t, {})
<1> DEFINE h == Top(t)
           f == [h EXCEPT !.st = st]
<1>1. h \in FrameSet(Len(sess)) /\ FrameFits(h)
  BY AtWork DEF Top
<1>2. st \in {"send", "wire", "reg", "nest", "stream"} /\ st # "stream"
  OBVIOUS
<1> HIDE DEF h
<1>3. /\ f \in FrameSet(Len(sess)) /\ f.own = h.own /\ f.batch = h.batch /\ f.k = h.k
      /\ f.st # "stream"
  BY <1>1, <1>2 DEF FrameSet
<1>4. FrameFits(f)
  BY <1>1, <1>3 DEF FrameFits
<1>5. SetHead(t, f)
  BY DEF h
<1> HIDE DEF f
<1> QED  BY <1>3, <1>4, <1>5, SetHeadGoes DEF h

\* A goroutine that only waited stops.
LEMMA BootOffGoes ==
    ASSUME NEW t, Working(t), Top(t).k = "boot", Continue(t, <<>>, pending, {})
    PROVE  Goes(t, {})
<1> DEFINE s == stack[t]
           m == Len(sess)
<1>1. /\ m \in Nat /\ s \in Seq(FrameSet(m)) /\ s # <<>>
      /\ Fits(t, s, phase) /\ pending \in Seq(Events)
      /\ Head(s) \in FrameSet(m) /\ FrameFits(Head(s)) /\ Head(s).k = "boot"
  BY AtWork DEF Working, Top
<1>2. Tail(s) = <<>> /\ Fits(t, Tail(s), phase)
  BY <1>1, TailFits
<1>3. \A n \in Nat \ {0} : ~InFrame(Head(s), n)
  <2>1. Head(s).batch = <<>> /\ Head(s).own = NoEvent
    BY <1>1 DEF FrameFits
  <2>2. \A n : InFrame(Head(s), n) <=> Head(s).own.n = n \/ InSeq(Head(s).batch, n)
    BY <1>1, FrameHolds
  <2>3. NoEvent.n = 0
    BY EventTypes
  <2> QED  BY <2>1, <2>2, <2>3, EmptyHolds
<1>4. \A n : InStack(s, n) <=> InFrame(Head(s), n) \/ InStack(Tail(s), n)
  BY <1>1, TopOf
<1>5. Moves(s, pending, <<>>, pending, {})
  BY <1>2, <1>3, <1>4, EmptyHolds DEF Moves, Once, With
<1>6. Passes(t, phase, m, s, pending, <<>>, pending, {})
  <2>1. <<>> \in Seq(FrameSet(m))
    OBVIOUS
  <2>2. Fits(t, <<>>, phase)
    BY <1>2
  <2> HIDE DEF m, s
  <2> QED  BY <2>1, <2>2, <1>1, <1>5 DEF Passes
<1>7. {e.n : e \in {}} = {}
  OBVIOUS
<1> QED  BY <1>6, <1>7, GoesOn

\* A call that was not answered, and one that found the session forgotten.
LEMMA NoAnswerGoes ==
    ASSUME NEW t, Working(t), NoAnswer(t)
    PROVE  Goes(t, {})
<1>1. Top(t).k \in {"emit", "ka", "in", "exit", "boot"}
  BY AtWork DEF Top, FrameSet
<1>2. CASE Top(t).k = "emit"
  BY <1>2, TryFailedGoes DEF NoAnswer, Top
<1>3. CASE Top(t).k = "ka"
  BY <1>3, AfterKeepaliveGoes DEF NoAnswer, Top
<1>4. CASE Top(t).k = "exit"
  BY <1>4, AfterExitIntentGoes DEF NoAnswer, Top
<1>5. CASE Top(t).k = "in"
  BY <1>5, SetStateGoes DEF NoAnswer, Top
<1>6. CASE Top(t).k = "boot"
  BY <1>6, BootOffGoes DEF NoAnswer, Top
<1> QED  BY <1>1, <1>2, <1>3, <1>4, <1>5, <1>6

LEMMA NotFoundGoes ==
    ASSUME NEW t, Working(t), NotFound(t)
    PROVE  Goes(t, {})
<1>1. CASE Top(t).k = "emit" /\ Top(t).re
  BY <1>1, TryFailedGoes DEF NotFound, Top
<1>2. CASE Top(t).k = "ka" /\ Top(t).re
  BY <1>2, AfterKeepaliveGoes DEF NotFound, Top
<1>3. CASE Top(t).k = "exit"
  BY <1>3, AfterExitIntentGoes DEF NotFound, Top
<1>4. CASE Top(t).k # "exit" /\ ~(Top(t).k = "emit" /\ Top(t).re)
           /\ ~(Top(t).k = "ka" /\ Top(t).re)
  BY <1>4, SetStateGoes DEF NotFound, Top
<1> QED  BY <1>1, <1>2, <1>3, <1>4

\* What a goroutine's call is to the daemon that serves it.
Served(t) == IF Top(t).k = "emit" THEN Top(t) ELSE [Top(t) EXCEPT !.id = id]

LEMMA ServedFrame ==
    ASSUME NEW t, Working(t)
    PROVE  /\ Served(t) \in FrameSet(Len(sess)) /\ Served(t).k = Top(t).k
           /\ Served(t).own = Top(t).own /\ Served(t).batch = Top(t).batch
           /\ Served(t).st = Top(t).st
           /\ Top(t).k = "emit" => Served(t) = Top(t)
           /\ Top(t).k # "emit" => Served(t).id = id
           /\ Top(t) \in FrameSet(Len(sess)) /\ FrameFits(Top(t))
<1> DEFINE h == Top(t)
<1>1. h \in FrameSet(Len(sess)) /\ FrameFits(h)
  BY AtWork DEF Top
<1>2. id \in 0..Len(sess)
  BY DEF Working, BridgeInv, WrapperTyped
<1> HIDE DEF h
<1> DEFINE g == [h EXCEPT !.id = id]
<1>3. /\ g \in FrameSet(Len(sess)) /\ g.k = h.k /\ g.own = h.own /\ g.batch = h.batch
      /\ g.st = h.st /\ g.id = id
  BY <1>1, <1>2 DEF FrameSet
<1>4. CASE h.k = "emit"
  <2>1. Served(t) = h
    BY <1>4 DEF Served, h
  <2> QED  BY <1>1, <1>4, <2>1 DEF h
<1>5. CASE h.k # "emit"
  <2>1. Served(t) = g
    BY <1>5 DEF Served, h
  <2> QED  BY <1>1, <1>3, <1>5, <2>1 DEF h
<1> QED  BY <1>4, <1>5

LEMMA AcceptedGoes ==
    ASSUME NEW t, Working(t), Top(t).k # "boot", Known(Served(t).id),
           Accepted(t, Served(t))
    PROVE  /\ Top(t).k = "emit" => Goes(t, {Current(Top(t)).n})
           /\ Top(t).k # "emit" => Goes(t, {})
<1>1. Top(t).k \in {"emit", "ka", "in", "exit"}
  BY AtWork DEF Top, FrameSet
<1>2. Served(t).k = Top(t).k
  BY ServedFrame
<1>3. CASE Top(t).k = "emit"
  BY <1>2, <1>3, SentGoes DEF Accepted
<1>4. CASE Top(t).k = "ka"
  BY <1>2, <1>4, AfterKeepaliveGoes DEF Accepted
<1>5. CASE Top(t).k = "exit"
  BY <1>2, <1>5, AfterExitIntentGoes DEF Accepted
<1>6. CASE Top(t).k = "in"
  <2> DEFINE h == Served(t)
             st == IF sess[h.id].live THEN "stream" ELSE "send"
             f == [h EXCEPT !.st = st]
  <2>1. SetHead(t, f)
    BY <1>2, <1>6 DEF Accepted
  <2>2. /\ h \in FrameSet(Len(sess)) /\ h.k = Top(t).k /\ h.own = Top(t).own
        /\ h.batch = Top(t).batch /\ FrameFits(Top(t))
    BY ServedFrame
  <2>3. h.id # 0
    BY DEF Known, Working, BridgeInv, DaemonTyped
  <2>4. st \in {"send", "stream"}
    OBVIOUS
  <2> HIDE DEF st, h
  <2>5. /\ f \in FrameSet(Len(sess)) /\ f.own = h.own /\ f.batch = h.batch /\ f.k = h.k
        /\ f.id = h.id
    BY <2>2, <2>4 DEF FrameSet
  <2>6. FrameFits(f)
    BY <1>6, <2>2, <2>3, <2>5 DEF FrameFits
  <2> HIDE DEF f
  <2>7. f.own = Top(t).own /\ f.batch = Top(t).batch /\ f.k = Top(t).k
    BY <2>2, <2>5
  <2>8. Goes(t, {})
    BY <2>1, <2>5, <2>6, <2>7, SetHeadGoes
  <2> QED  BY <1>6, <2>8
<1> QED  BY <1>1, <1>3, <1>4, <1>5, <1>6

-----------------------------------------------------------------------------
(* What a step does to the events that are held.                           *)

Held(n) == InSeq(pending, n) \/ \E t \in Threads : InStack(stack[t], n)

Single(n) ==
    /\ OnceSeq(pending, n)
    /\ \A t \in Threads : OnceStack(stack[t], n) /\ ~(InSeq(pending, n) /\ InStack(stack[t], n))
    /\ \A t, u \in Threads : InStack(stack[t], n) /\ InStack(stack[u], n) => t = u

\* No event gets a second place, and none is lost but those of out and the dropped.
Kept(out) ==
    \A n \in Nat \ {0} : Single(n) =>
        /\ Single(n)'
        /\ Held(n)' => Held(n)
        /\ Held(n) => Held(n)' \/ n \in out \/ n \in dropped'

LEMMA GoesEffect ==
    ASSUME NEW t, NEW out, Working(t), Goes(t, out)
    PROVE  /\ \E r \in Seq(FrameSet(Len(sess))) :
                  Fits(t, r, phase) /\ stack' = [stack EXCEPT ![t] = r]
           /\ pending' \in Seq(Events)
           /\ dropped' \subseteq 1..MaxEvents /\ dropped \subseteq dropped'
           /\ Kept(out)
           /\ \A n \in Nat \ {0} : Single(n) /\ InStack(stack[t], n) /\ n \in out => ~Held(n)'
<1>1. PICK s, q, d :
        /\ Continue(t, s, q, d) /\ d \subseteq Events
        /\ Passes(t, phase, Len(sess), stack[t], pending, s, q, out \cup {e.n : e \in d})
        /\ \A n \in Nat \ {0} : Once(stack[t], pending, n) /\ n \in out => ~With(s, q, n)
  BY DEF Goes
<1> DEFINE m == Len(sess)
           r == Build(s, id)
<1>2. /\ s \in Seq(FrameSet(m)) /\ Fits(t, s, phase) /\ q \in Seq(Events) /\ m \in Nat
      /\ Moves(stack[t], pending, s, q, out \cup {e.n : e \in d})
  BY <1>1, AtWork DEF Passes
<1>3. id \in 0..m /\ sid \in 1..MaxSids /\ dropped \subseteq 1..MaxEvents
  BY DEF Working, BridgeInv, WrapperTyped
<1>4. r \in Seq(FrameSet(m)) /\ Fits(t, r, phase) /\ Alike(s, r)
  BY <1>2, <1>3, BuildKeeps
<1>5. stack' = [stack EXCEPT ![t] = r] /\ pending' = q
      /\ dropped' = dropped \cup {e.n : e \in {x \in d : x.kind = "user"}}
  BY <1>1 DEF Continue
<1>6. dropped' \subseteq 1..MaxEvents /\ dropped \subseteq dropped'
  BY <1>1, <1>3, <1>5, EventTypes
<1>7. \A e \in d : e.n # 0 => e.n \in dropped'
  BY <1>1, <1>5, EventTypes
<1>8. t \in Threads /\ DOMAIN stack = Threads
  BY DEF Working, BridgeInv, StackTyped
<1>9. stack'[t] = r /\ \A u \in Threads : u # t => stack'[u] = stack[u]
  BY <1>5, <1>8
<1> HIDE DEF r, m
<1>10. ASSUME NEW n \in Nat \ {0}, Single(n)
       PROVE  /\ Single(n)' /\ (Held(n)' => Held(n))
              /\ Held(n) => Held(n)' \/ n \in out \/ n \in dropped'
              /\ InStack(stack[t], n) /\ n \in out => ~Held(n)'
  <2>1. Once(stack[t], pending, n)
    BY <1>8, <1>10 DEF Single, Once
  <2>2. /\ Once(s, q, n)
        /\ With(s, q, n) => With(stack[t], pending, n)
        /\ With(stack[t], pending, n) => With(s, q, n) \/ n \in out \cup {e.n : e \in d}
    BY <1>2, <2>1 DEF Moves
  <2>3. n \in {e.n : e \in d} => n \in dropped'
    BY <1>7
  <2>4. /\ InStack(s, n) <=> InStack(r, n)
        /\ OnceStack(s, n) <=> OnceStack(r, n)
    BY <1>4 DEF Alike
  <2>5. OnceSeq(q, n) /\ OnceStack(r, n) /\ ~(InSeq(q, n) /\ InStack(r, n))
    BY <2>2, <2>4 DEF Once
  <2>6. InSeq(q, n) \/ InStack(r, n) => InSeq(pending, n) \/ InStack(stack[t], n)
    BY <2>2, <2>4 DEF With
  <2>7. InSeq(pending, n) \/ InStack(stack[t], n)
          => InSeq(q, n) \/ InStack(r, n) \/ n \in out \/ n \in dropped'
    BY <2>2, <2>3, <2>4 DEF With
  <2>8. n \in out => ~InSeq(q, n) /\ ~InStack(r, n)
    BY <1>1, <2>1, <2>4 DEF With
  <2>9. ASSUME NEW u \in Threads, u # t
        PROVE  /\ OnceStack(stack[u], n)
               /\ InSeq(pending, n) \/ InStack(stack[t], n) => ~InStack(stack[u], n)
    BY <1>8, <1>10, <2>9 DEF Single
  <2>10. Single(n)'
    <3>1. OnceSeq(pending', n)
      BY <1>5, <2>5
    <3>2. ASSUME NEW u \in Threads
          PROVE  OnceStack(stack'[u], n) /\ ~(InSeq(pending', n) /\ InStack(stack'[u], n))
      BY <1>5, <1>9, <2>5, <2>6, <2>9
    <3>3. ASSUME NEW u \in Threads, NEW v \in Threads,
                 InStack(stack'[u], n), InStack(stack'[v], n)
          PROVE  u = v
      <4>1. CASE u # t /\ v # t
        BY <4>1, <3>3, <1>9, <1>10 DEF Single
      <4>2. CASE u = t /\ v # t
        BY <4>2, <3>3, <1>9, <2>6, <2>9
      <4>3. CASE u # t /\ v = t
        BY <4>3, <3>3, <1>9, <2>6, <2>9
      <4> QED  BY <4>1, <4>2, <4>3
    <3> QED  BY <3>1, <3>2, <3>3 DEF Single
  <2>11. Held(n)' => Held(n)
    BY <1>5, <1>8, <1>9, <2>6 DEF Held
  <2>12. Held(n) => Held(n)' \/ n \in out \/ n \in dropped'
    BY <1>5, <1>8, <1>9, <2>7 DEF Held
  <2>13. ASSUME InStack(stack[t], n), n \in out PROVE ~Held(n)'
    <3>1. \A u \in Threads : ~InStack(stack'[u], n)
      BY <1>9, <2>8, <2>9, <2>13
    <3> QED  BY <1>5, <2>8, <2>13, <3>1 DEF Held
  <2> QED  BY <2>10, <2>11, <2>12, <2>13
<1>11. Kept(out)
  BY <1>10 DEF Kept
<1> QED  BY <1>2, <1>4, <1>5, <1>6, <1>10, <1>11 DEF m

-----------------------------------------------------------------------------
(* The daemon's registry.                                                  *)

\* The same sessions, with the same input subscriptions.
SameInputs(ss, tt) ==
    /\ tt \in Seq(SessType) /\ Len(tt) = Len(ss)
    /\ \A i \in DOMAIN ss : tt[i].sub = ss[i].sub /\ tt[i].buf = ss[i].buf

\* One session of the registry is replaced.
LEMMA SetSession ==
    ASSUME NEW ss \in Seq(SessType), NEW s, NEW r, s \in DOMAIN ss => r \in SessType
    PROVE  /\ [ss EXCEPT ![s] = r] \in Seq(SessType)
           /\ Len([ss EXCEPT ![s] = r]) = Len(ss)
           /\ DOMAIN [ss EXCEPT ![s] = r] = DOMAIN ss
           /\ \A i \in DOMAIN ss : [ss EXCEPT ![s] = r][i] = IF i = s THEN r ELSE ss[i]
<1> DEFINE n == Len(ss)
           tt == [ss EXCEPT ![s] = r]
<1>1. n \in Nat /\ DOMAIN ss = 1..n /\ \A i \in 1..n : ss[i] \in SessType
  OBVIOUS
<1>2. DOMAIN tt = 1..n /\ \A i \in 1..n : tt[i] = IF i = s THEN r ELSE ss[i]
  BY <1>1
<1>3. \A i \in 1..n : tt[i] \in SessType
  BY <1>1, <1>2
<1>4. tt = [i \in 1..n |-> tt[i]]
  BY <1>1
<1> HIDE DEF tt
<1>5. tt \in [1..n -> SessType]
  BY <1>3, <1>4
<1>6. tt \in Seq(SessType)
  BY <1>1, <1>5
<1>7. Len(tt) = n
  BY <1>1, <1>2, <1>6
<1> QED  BY <1>1, <1>2, <1>6, <1>7 DEF tt

LEMMA CloseTypes ==
    ASSUME NEW ss \in Seq(SessType), NEW s
    PROVE  SameInputs(ss, Close(ss, s))
<1> DEFINE r == [ss[s] EXCEPT !.live = FALSE]
<1>1. s \in DOMAIN ss => ss[s] \in SessType
  OBVIOUS
<1>2. s \in DOMAIN ss => r \in SessType /\ r.sub = ss[s].sub /\ r.buf = ss[s].buf
  BY <1>1 DEF SessType
<1>3. Close(ss, s) = [ss EXCEPT ![s] = r]
  BY DEF Close
<1> HIDE DEF r
<1> QED  BY <1>2, <1>3, SetSession DEF SameInputs

LEMMA ForgetTypes ==
    ASSUME NEW ss \in Seq(SessType), NEW s
    PROVE  SameInputs(ss, Forget(ss, s))
<1> DEFINE r == [ss[s] EXCEPT !.known = FALSE, !.sid = 0]
<1>1. s \in DOMAIN ss => ss[s] \in SessType
  OBVIOUS
<1>4. 0 \in 0..MaxSids
  BY ConstTypes
<1>5. \A z \in SessType :
          LET y == [z EXCEPT !.known = FALSE, !.sid = 0]
          IN y \in SessType /\ y.sub = z.sub /\ y.buf = z.buf
  BY <1>4 DEF SessType
<1>2. s \in DOMAIN ss => r \in SessType /\ r.sub = ss[s].sub /\ r.buf = ss[s].buf
  BY <1>1, <1>5
<1>3. Forget(ss, s) = [ss EXCEPT ![s] = r]
  BY <1>1 DEF Forget, SessType
<1> HIDE DEF r
<1> QED  BY <1>2, <1>3, SetSession DEF SameInputs

LEMMA BindTypes ==
    ASSUME NEW ss \in Seq(SessType), NEW s, NEW x \in 0..MaxSids
    PROVE  SameInputs(ss, BindSession(ss, s, x))
<1> DEFINE r == [ss[s] EXCEPT !.sid = x]
<1>1. s \in DOMAIN ss => ss[s] \in SessType
  OBVIOUS
<1>2. s \in DOMAIN ss => r \in SessType /\ r.sub = ss[s].sub /\ r.buf = ss[s].buf
  BY <1>1 DEF SessType
<1>3. CASE x = 0 \/ x = ss[s].sid
  BY <1>3 DEF BindSession, SameInputs
<1>4. CASE ~(x = 0 \/ x = ss[s].sid)
  <2>1. BindSession(ss, s, x) = [ss EXCEPT ![s] = r]
    BY <1>4 DEF BindSession
  <2> HIDE DEF r
  <2> QED  BY <1>2, <2>1, SetSession DEF SameInputs
<1> QED  BY <1>3, <1>4

LEMMA SameInputsTrans ==
    ASSUME NEW ss, NEW tt, NEW uu, ss \in Seq(SessType), SameInputs(ss, tt), SameInputs(tt, uu)
    PROVE  SameInputs(ss, uu)
<1>1. DOMAIN ss = DOMAIN tt
  BY DEF SameInputs
<1> QED  BY <1>1 DEF SameInputs

LEMMA IndexTypes ==
    ASSUME NEW n \in Nat, NEW ix \in [1..MaxSids -> 0..n], NEW s \in 0..n, NEW x, NEW ss
    PROVE  /\ Purge(ix, s) \in [1..MaxSids -> 0..n]
           /\ BindIndex(ix, ss, s, x) \in [1..MaxSids -> 0..n]
<1>1. 0 \in 0..n
  OBVIOUS
<1>2. Purge(ix, s) \in [1..MaxSids -> 0..n]
  BY <1>1 DEF Purge
<1>3. BindIndex(ix, ss, s, x) \in [1..MaxSids -> 0..n]
  BY <1>1 DEF BindIndex
<1> QED  BY <1>2, <1>3

\* A new session is registered.
LEMMA RegisterTypes ==
    ASSUME NEW ss \in Seq(SessType), NEW d \in {"pty", "sdk"}, NEW x \in 0..MaxSids
    PROVE  /\ Append(ss, Fresh(d, x)) \in Seq(SessType)
           /\ Len(Append(ss, Fresh(d, x))) = Len(ss) + 1
           /\ \A i \in DOMAIN ss : Append(ss, Fresh(d, x))[i] = ss[i]
           /\ DOMAIN Append(ss, Fresh(d, x)) = 1..(Len(ss) + 1)
           /\ Append(ss, Fresh(d, x))[Len(ss) + 1].sub = FALSE
           /\ Append(ss, Fresh(d, x))[Len(ss) + 1].buf = <<>>
<1> DEFINE r == Fresh(d, x)
<1>1. r \in SessType /\ r.sub = FALSE /\ r.buf = <<>>
  BY DEF Fresh, SessType
<1> HIDE DEF r
<1>2. /\ Append(ss, r) \in Seq(SessType) /\ Len(Append(ss, r)) = Len(ss) + 1
      /\ DOMAIN Append(ss, r) = 1..(Len(ss) + 1)
      /\ \A i \in DOMAIN ss : Append(ss, r)[i] = ss[i]
      /\ Append(ss, r)[Len(ss) + 1] = r
  BY <1>1
<1> QED  BY <1>1, <1>2 DEF r

\* Every stream is closed, by a wrapper that is gone or a daemon that died.
LEMMA ResetTypes ==
    ASSUME NEW ss \in Seq(SessType)
    PROVE  /\ Detached(ss) \in Seq(SessType) /\ Len(Detached(ss)) = Len(ss)
           /\ Crashed(ss) \in Seq(SessType) /\ Len(Crashed(ss)) = Len(ss)
           /\ \A i \in DOMAIN ss : /\ ~Detached(ss)[i].sub /\ Detached(ss)[i].buf = <<>>
                                   /\ ~Crashed(ss)[i].sub /\ Crashed(ss)[i].buf = <<>>
<1> DEFINE n == Len(ss)
           R(z) == [z EXCEPT !.sub = FALSE, !.buf = <<>>]
           C(z) == [z EXCEPT !.known = FALSE, !.live = FALSE, !.sid = 0,
                             !.sub = FALSE, !.buf = <<>>]
           r(i) == R(ss[i])
           c(i) == C(ss[i])
<1>1. n \in Nat /\ DOMAIN ss = 1..n /\ \A i \in 1..n : ss[i] \in SessType
  OBVIOUS
<1>2. 0 \in 0..MaxSids
  BY ConstTypes
<1>3. ASSUME NEW i \in 1..n
      PROVE  /\ r(i) \in SessType /\ ~r(i).sub /\ r(i).buf = <<>>
             /\ c(i) \in SessType /\ ~c(i).sub /\ c(i).buf = <<>>
  <2>1. ASSUME NEW z \in SessType
        PROVE  R(z) \in SessType /\ ~R(z).sub /\ R(z).buf = <<>>
    <3>1. <<>> \in Seq(PromptIds) /\ FALSE \in BOOLEAN
      OBVIOUS
    <3> QED  BY <3>1 DEF SessType
  <2>2. ASSUME NEW z \in SessType
        PROVE  C(z) \in SessType /\ ~C(z).sub /\ C(z).buf = <<>>
    <3> DEFINE y == [z EXCEPT !.known = FALSE, !.live = FALSE, !.sid = 0]
    <3>1. y \in SessType
      BY <1>2 DEF SessType
    <3>2. C(z) = R(y)
      OBVIOUS
    <3> HIDE DEF y, C, R
    <3> QED  BY <2>1, <3>1, <3>2
  <2>3. ss[i] \in SessType
    BY <1>1
  <2> HIDE DEF R, C
  <2> QED  BY <2>1, <2>2, <2>3
<1>4. Detached(ss) = [i \in 1..n |-> r(i)] /\ Crashed(ss) = [i \in 1..n |-> c(i)]
  BY <1>1 DEF Detached, Crashed
<1> HIDE DEF r, c, n, R, C
<1>5. Detached(ss) \in [1..n -> SessType] /\ Crashed(ss) \in [1..n -> SessType]
  BY <1>3, <1>4
<1>6. Detached(ss) \in Seq(SessType) /\ Crashed(ss) \in Seq(SessType)
  BY <1>1, <1>5
<1>7. Len(Detached(ss)) = n /\ Len(Crashed(ss)) = n
  BY <1>1, <1>4, <1>6
<1>8. \A i \in 1..n : Detached(ss)[i] = r(i) /\ Crashed(ss)[i] = c(i)
  BY <1>4
<1> QED  BY <1>1, <1>3, <1>6, <1>7, <1>8 DEF n

-----------------------------------------------------------------------------
(* A call that is served.                                                  *)

LEMMA CurrentTypes ==
    ASSUME NEW m \in Nat, NEW f \in FrameSet(m)
    PROVE  /\ Current(f) \in Events \cup {NoEvent}
           /\ InFrame(f, Current(f).n)
<1>1. f.batch \in Seq(Events) /\ f.own \in Events \cup {NoEvent}
  BY FrameHolds
<1>2. InFrame(f, Current(f).n) <=> f.own.n = Current(f).n \/ InSeq(f.batch, Current(f).n)
  BY FrameHolds
<1>3. CASE f.batch = <<>>
  BY <1>1, <1>2, <1>3 DEF Current
<1>4. CASE f.batch # <<>>
  <2>1. Current(f) = Head(f.batch) /\ Head(f.batch) \in Events
    BY <1>1, <1>4 DEF Current
  <2>2. InSeq(f.batch, Head(f.batch).n)
    BY <1>1, <1>4, SeqTop
  <2> QED  BY <1>2, <2>1, <2>2
<1> QED  BY <1>3, <1>4

LEMMA SinkTypes ==
    ASSUME NEW q \in Seq(1..MaxEvents), NEW e \in Events \cup {NoEvent}
    PROVE  Sink(q, e) \in Seq(1..MaxEvents)
<1>1. CASE e.kind = "user"
  <2>1. e.n \in 1..MaxEvents
    BY <1>1, EventTypes
  <2>2. Append(q, e.n) \in Seq(1..MaxEvents)
    BY <2>1
  <2> QED  BY <1>1, <2>2 DEF Sink
<1>2. CASE e.kind # "user"
  BY <1>2 DEF Sink
<1> QED  BY <1>1, <1>2

LEMMA EffectTypes ==
    ASSUME NEW t, Working(t), Known(Served(t).id), Effect(Served(t)), Top(t).k # "boot"
    PROVE  /\ sess' \in Seq(SessType) /\ Len(sess') = Len(sess)
           /\ \A i \in DOMAIN sess : sess'[i].buf = sess[i].buf
           /\ \A i \in DOMAIN sess : sess'[i].sub # sess[i].sub =>
                  /\ Top(t).k = "in" /\ i = Served(t).id /\ sess[i].live
           /\ sidIndex' \in [1..MaxSids -> 0..Len(sess)] /\ recover' \in 0..MaxSids
           /\ sunk' = IF Top(t).k = "emit" THEN Sink(sunk, Current(Top(t))) ELSE sunk
           /\ sunk' \in Seq(1..MaxEvents)
<1> DEFINE f == Served(t)
           s == f.id
<1>1. f \in FrameSet(Len(sess)) /\ f.k = Top(t).k /\ f.k \in {"emit", "ka", "in", "exit"}
      /\ (f.k = "emit" => f = Top(t))
  <2>1. f \in FrameSet(Len(sess)) /\ f.k = Top(t).k /\ (f.k = "emit" => f = Top(t))
    BY ServedFrame
  <2>2. f.k \in {"emit", "ka", "in", "exit", "boot"}
    BY <2>1 DEF FrameSet
  <2> QED  BY <2>1, <2>2
<1>2. /\ sess \in Seq(SessType) /\ Len(sess) \in Nat
      /\ sidIndex \in [1..MaxSids -> 0..Len(sess)] /\ recover \in 0..MaxSids
      /\ sunk \in Seq(1..MaxEvents)
  BY DEF Working, BridgeInv, DaemonTyped
<1>3. s \in DOMAIN sess /\ s \in 0..Len(sess) /\ f.sid \in 0..MaxSids
  BY <1>1 DEF Known, FrameSet
<1>4. CASE f.k = "emit"
  <2> DEFINE bound == BindSession(sess, s, f.sid)
             e == Current(f)
  <2>1. EventEffect(f)
    BY <1>4 DEF Effect
  <2>2. e \in Events \cup {NoEvent}
    BY <1>1, <1>2, CurrentTypes
  <2>3. SameInputs(sess, bound)
    BY <1>2, <1>3, BindTypes
  <2>4. SameInputs(bound, Close(bound, s))
    BY <2>3, CloseTypes DEF SameInputs
  <2>5. sess' = bound \/ sess' = Close(bound, s)
    BY <2>1 DEF EventEffect
  <2>6. SameInputs(sess, sess')
    BY <1>2, <2>3, <2>4, <2>5, SameInputsTrans
  <2>7. sidIndex' \in [1..MaxSids -> 0..Len(sess)] /\ recover' = recover
    BY <1>2, <1>3, <2>1, IndexTypes DEF EventEffect
  <2>8. sunk' = Sink(sunk, e) /\ Sink(sunk, e) \in Seq(1..MaxEvents)
    BY <1>2, <2>1, <2>2, SinkTypes DEF EventEffect
  <2> QED  BY <1>1, <1>2, <1>4, <2>6, <2>7, <2>8 DEF SameInputs
<1>5. CASE f.k = "ka"
  BY <1>1, <1>2, <1>5 DEF Effect
<1>6. CASE f.k = "exit"
  <2>1. PICK clean \in BOOLEAN : ExitIntentEffect(f, clean)
    BY <1>6 DEF Effect
  <2>2. SameInputs(sess, sess')
    BY <1>2, <2>1, CloseTypes DEF ExitIntentEffect
  <2>3. sess[s].sid \in 0..MaxSids
    <3>1. \A z \in SessType : z.sid \in 0..MaxSids
      BY DEF SessType
    <3> HIDE DEF s
    <3>2. sess[s] \in SessType
      BY <1>2, <1>3
    <3> QED  BY <3>1, <3>2
  <2>4. recover' \in 0..MaxSids /\ UNCHANGED <<sidIndex, sunk>>
    BY <1>2, <2>1, <2>3 DEF ExitIntentEffect
  <2> QED  BY <1>1, <1>2, <1>6, <2>2, <2>4 DEF SameInputs
<1>7. CASE f.k = "in"
  <2>1. InputStreamEffect(f)
    BY <1>7 DEF Effect
  <2> DEFINE r == [sess[s] EXCEPT !.sub = TRUE]
  <2>2. sess[s] \in SessType
    BY <1>2, <1>3
  <2>3. r \in SessType /\ r.buf = sess[s].buf
    BY <2>2 DEF SessType
  <2>4. sess' = IF sess[s].live THEN [sess EXCEPT ![s] = r] ELSE sess
    BY <2>1 DEF InputStreamEffect
  <2> HIDE DEF r
  <2>5. CASE sess[s].live
    <3>1. /\ sess' \in Seq(SessType) /\ Len(sess') = Len(sess)
          /\ \A i \in DOMAIN sess : sess'[i] = IF i = s THEN r ELSE sess[i]
      BY <1>2, <2>3, <2>4, <2>5, SetSession
    <3>2. UNCHANGED <<sidIndex, recover, sunk>>
      BY <2>1 DEF InputStreamEffect
    <3> QED  BY <1>1, <1>2, <1>7, <2>3, <2>5, <3>1, <3>2
  <2>6. CASE ~sess[s].live
    BY <1>1, <1>2, <1>7, <2>1, <2>4, <2>6 DEF InputStreamEffect
  <2> QED  BY <2>5, <2>6
<1> QED  BY <1>1, <1>4, <1>5, <1>6, <1>7

\* A step of one goroutine leaves every stack well formed.
LEMMA OneStack ==
    ASSUME BridgeInv, NEW t \in Threads, NEW r \in Seq(FrameSet(Len(sess))),
           Fits(t, r, phase), stack' = [stack EXCEPT ![t] = r],
           phase' = phase, Len(sess') = Len(sess)
    PROVE  StackTyped' /\ StackFits'
<1>1. stack \in [Threads -> Seq(FrameSet(Len(sess)))] /\ \A u \in Threads : Fits(u, stack[u], phase)
  BY DEF BridgeInv, StackTyped, StackFits
<1>2. stack' \in [Threads -> Seq(FrameSet(Len(sess)))]
  BY <1>1
<1>3. \A u \in Threads : Fits(u, stack'[u], phase)
  BY <1>1
<1> QED  BY <1>2, <1>3 DEF StackTyped, StackFits

\* A step of the daemon alone.
LEMMA NoStack ==
    ASSUME BridgeInv, UNCHANGED <<phase, id, sid, pending, dropped, emitted, stack>>,
           Len(sess') \in Nat, Len(sess) <= Len(sess'),
           prompt' \in [PromptIds -> {"new", "queued", "done"}]
    PROVE  WrapperTyped' /\ StackTyped' /\ StackFits'
<1>1. Len(sess) \in Nat /\ id \in 0..Len(sess)
  BY DEF BridgeInv, DaemonTyped, WrapperTyped
<1>2. id \in 0..Len(sess')
  BY <1>1
<1>3. WrapperTyped'
  BY <1>2 DEF BridgeInv, WrapperTyped
<1>4. stack \in [Threads -> Seq(FrameSet(Len(sess)))]
  BY DEF BridgeInv, StackTyped
<1>5. Seq(FrameSet(Len(sess))) \subseteq Seq(FrameSet(Len(sess')))
  BY <1>1, FramesGrow
<1>6. stack \in [Threads -> Seq(FrameSet(Len(sess')))]
  BY <1>4, <1>5
<1>7. StackTyped'
  BY <1>6 DEF StackTyped
<1>8. StackFits'
  BY DEF BridgeInv, StackFits
<1> QED  BY <1>3, <1>7, <1>8

-----------------------------------------------------------------------------
(* Steps that set a stack themselves.                                      *)

\* What moves in one goroutine, seen from all of them.
LEMMA OneMoves ==
    ASSUME DOMAIN stack = Threads, NEW t \in Threads, NEW r, NEW q, NEW n,
           stack' = [stack EXCEPT ![t] = r], pending' = q,
           Single(n), Once(r, q, n),
           With(r, q, n) => With(stack[t], pending, n) \/ ~Held(n)
    PROVE  /\ Single(n)'
           /\ Held(n)' => Held(n) \/ With(r, q, n)
           /\ Held(n) => Held(n)' \/ With(stack[t], pending, n)
           /\ With(r, q, n) => Held(n)'
<1>1. stack'[t] = r /\ \A u \in Threads : u # t => stack'[u] = stack[u]
  OBVIOUS
<1>2. OnceSeq(q, n) /\ OnceStack(r, n) /\ ~(InSeq(q, n) /\ InStack(r, n))
  BY DEF Once
<1>3. ASSUME NEW u \in Threads, u # t
      PROVE  /\ OnceStack(stack[u], n)
             /\ InSeq(q, n) \/ InStack(r, n) => ~InStack(stack[u], n)
  <2>1. With(stack[t], pending, n) => ~InStack(stack[u], n)
    BY <1>3 DEF With, Single
  <2>2. ~Held(n) => ~InStack(stack[u], n)
    BY DEF Held
  <2>3. With(r, q, n) => ~InStack(stack[u], n)
    BY <2>1, <2>2
  <2> QED  BY <2>3 DEF With, Single
<1>4. Single(n)'
  <2>1. ASSUME NEW u \in Threads
        PROVE  OnceStack(stack'[u], n) /\ ~(InSeq(pending', n) /\ InStack(stack'[u], n))
    BY <1>1, <1>2, <1>3
  <2>2. ASSUME NEW u \in Threads, NEW v \in Threads,
               InStack(stack'[u], n), InStack(stack'[v], n)
        PROVE  u = v
    <3>1. CASE u # t /\ v # t
      BY <3>1, <2>2, <1>1 DEF Single
    <3>2. CASE u = t /\ v # t
      BY <3>2, <2>2, <1>1, <1>3
    <3>3. CASE u # t /\ v = t
      BY <3>3, <2>2, <1>1, <1>3
    <3> QED  BY <3>1, <3>2, <3>3
  <2> QED  BY <1>2, <2>1, <2>2 DEF Single
<1>5. Held(n)' => Held(n) \/ With(r, q, n)
  BY <1>1 DEF Held, With
<1>6. Held(n) => Held(n)' \/ With(stack[t], pending, n)
  BY <1>1 DEF Held, With
<1>7. With(r, q, n) => Held(n)'
  BY <1>1 DEF Held, With
<1> QED  BY <1>4, <1>5, <1>6, <1>7

LEMMA MovesKeep ==
    ASSUME DOMAIN stack = Threads, NEW t \in Threads, NEW r, NEW q,
           stack' = [stack EXCEPT ![t] = r], pending' = q,
           Moves(stack[t], pending, r, q, {})
    PROVE  Kept({})
<1>1. ASSUME NEW n \in Nat \ {0}, Single(n)
      PROVE  Single(n)' /\ (Held(n)' => Held(n)) /\ (Held(n) => Held(n)')
  <2>1. Once(stack[t], pending, n)
    BY <1>1 DEF Single, Once
  <2>2. /\ Once(r, q, n)
        /\ With(r, q, n) => With(stack[t], pending, n)
        /\ With(stack[t], pending, n) => With(r, q, n)
    BY <1>1, <2>1 DEF Moves
  <2>3. /\ Single(n)'
        /\ Held(n)' => Held(n) \/ With(r, q, n)
        /\ Held(n) => Held(n)' \/ With(stack[t], pending, n)
        /\ With(r, q, n) => Held(n)'
    BY <1>1, <2>2, OneMoves
  <2>4. With(stack[t], pending, n) => Held(n)
    BY DEF With, Held
  <2> QED  BY <2>2, <2>3, <2>4
<1> QED  BY <1>1 DEF Kept

\* Nothing moves where the stacks and the backlog stay.
LEMMA StayKeep ==
    ASSUME UNCHANGED <<stack, pending>>
    PROVE  Kept({})
<1>1. \A n \in Nat \ {0} : (Single(n)' <=> Single(n)) /\ (Held(n)' <=> Held(n))
  BY DEF Single, Held
<1> QED  BY <1>1 DEF Kept

\* A goroutine that holds no event of its own.
LEMMA IdleStack ==
    ASSUME NEW m \in Nat, NEW f \in FrameSet(m), FrameFits(f), f.k # "emit",
           NEW t, NEW ph, f.k = "in" => t = "in", f.k = "boot" => t = "main" /\ ph = "boot",
           t # "main" => ph \in {"run", "exit"}
    PROVE  /\ <<f>> \in Seq(FrameSet(m)) /\ Fits(t, <<f>>, ph)
           /\ \A n \in Nat \ {0} : ~InStack(<<f>>, n) /\ OnceStack(<<f>>, n)
<1>1. <<f>> \in Seq(FrameSet(m)) /\ Fits(t, <<f>>, ph)
  BY DEF Fits
<1>2. f.batch = <<>> /\ f.own = NoEvent
  BY DEF FrameFits
<1>3. NoEvent.n = 0
  BY EventTypes
<1>4. \A n : /\ InFrame(f, n) <=> f.own.n = n \/ InSeq(f.batch, n)
             /\ OnceFrame(f, n) <=> OnceSeq(f.batch, n) /\ ~(f.own.n = n /\ InSeq(f.batch, n))
  BY FrameHolds
<1>5. \A n : InStack(<<f>>, n) <=> InFrame(f, n)
  BY Singles
<1>6. \A n : OnceStack(<<f>>, n) <=> OnceFrame(f, n)
  BY Singles
<1>7. \A n \in Nat \ {0} : ~InFrame(f, n) /\ OnceFrame(f, n)
  BY <1>2, <1>3, <1>4, EmptyHolds
<1> QED  BY <1>1, <1>5, <1>6, <1>7

\* A goroutine starts with nothing of its own.
LEMMA IdleMoves ==
    ASSUME NEW f, NEW q, \A n \in Nat \ {0} : ~InStack(<<f>>, n) /\ OnceStack(<<f>>, n)
    PROVE  Moves(<<>>, q, <<f>>, q, {})
BY EmptyHolds DEF Moves, Once, With

\* What the backoff changes of the top frame.
LEMMA RetryFrame ==
    ASSUME BridgeInv, NEW t \in Threads, Retry(t)
    PROVE  \E f \in FrameSet(Len(sess)) :
               /\ FrameFits(f) /\ f.own = Top(t).own /\ f.batch = Top(t).batch
               /\ f.k = "emit" /\ f.st = "wire" /\ Top(t).k = "emit" /\ Working(t)
               /\ stack' = [stack EXCEPT ![t] = <<f>> \o Tail(stack[t])]
<1> DEFINE s == stack[t]
           h == Head(s)
           f == [h EXCEPT !.st = "wire", !.id = id, !.sid = sid]
           u == [s EXCEPT ![1].st = "wire", ![1].id = id, ![1].sid = sid]
<1>1. Working(t) /\ Top(t) = h /\ h.k = "emit" /\ s # <<>>
  BY DEF Retry, Working, Running, Top
<1>2. h \in FrameSet(Len(sess)) /\ FrameFits(h) /\ s \in Seq(FrameSet(Len(sess)))
  BY <1>1, AtWork
<1>3. id \in 0..Len(sess) /\ sid \in 0..MaxSids
  BY ConstTypes DEF BridgeInv, WrapperTyped
<1>4. DOMAIN stack = Threads
  BY DEF BridgeInv, StackTyped
<1>5. stack' = [stack EXCEPT ![t] = u]
  BY <1>4 DEF Retry
<1>6. h = s[1] /\ 1 \in DOMAIN s
  BY <1>1, <1>2
<1>7. u = [s EXCEPT ![1] = f]
  BY <1>6
<1> HIDE DEF h, s, u
<1>8. /\ f \in FrameSet(Len(sess)) /\ f.own = h.own /\ f.batch = h.batch /\ f.k = h.k
      /\ f.st = "wire"
  BY <1>2, <1>3 DEF FrameSet
<1>9. FrameFits(f)
  BY <1>1, <1>2, <1>8 DEF FrameFits
<1> HIDE DEF f
<1>10. [s EXCEPT ![1] = f] = <<f>> \o Tail(s)
  <2> DEFINE a == [s EXCEPT ![1] = f]
             b == <<f>> \o Tail(s)
  <2>1. a \in Seq(FrameSet(Len(sess))) /\ b \in Seq(FrameSet(Len(sess)))
    BY <1>1, <1>2, <1>8
  <2>2. Len(a) = Len(s) /\ Len(b) = Len(s)
    BY <1>1, <1>2, <1>8
  <2>3. ASSUME NEW i \in 1..Len(s) PROVE a[i] = b[i]
    BY <1>1, <1>2, <1>8, <2>3
  <2> HIDE DEF a, b
  <2>4. a = b
    BY <2>1, <2>2, <2>3
  <2> QED  BY <2>4 DEF a, b
<1> QED  BY <1>1, <1>5, <1>7, <1>8, <1>9, <1>10 DEF s

-----------------------------------------------------------------------------
(* Every step leaves a state of the right shape and keeps the events.      *)

LEMMA InvFacts ==
    ASSUME BridgeInv
    PROVE  /\ Len(sess) \in Nat /\ DOMAIN stack = Threads /\ pending \in Seq(Events)
           /\ sess \in Seq(SessType) /\ sidIndex \in [1..MaxSids -> 0..Len(sess)]
           /\ id \in 0..Len(sess) /\ sid \in 1..MaxSids /\ emitted \in 0..MaxEvents
           /\ \A t \in Threads : /\ stack[t] \in Seq(FrameSet(Len(sess)))
                                 /\ Fits(t, stack[t], phase)
BY DEF BridgeInv, DaemonTyped, WrapperTyped, StackTyped, StackFits

LEMMA RetryKeeps ==
    ASSUME BridgeInv, NEW t \in Threads, Retry(t)
    PROVE  BridgeInv' /\ Kept({})
<1>1. PICK f \in FrameSet(Len(sess)) :
          /\ FrameFits(f) /\ f.own = Top(t).own /\ f.batch = Top(t).batch
          /\ f.k = "emit" /\ f.st = "wire" /\ Top(t).k = "emit" /\ Working(t)
          /\ stack' = [stack EXCEPT ![t] = <<f>> \o Tail(stack[t])]
  BY RetryFrame
<1> DEFINE r == <<f>> \o Tail(stack[t])
<1>2. /\ stack[t] # <<>> /\ stack[t] \in Seq(FrameSet(Len(sess))) /\ Len(sess) \in Nat
      /\ Fits(t, stack[t], phase) /\ Tail(stack[t]) \in Seq(FrameSet(Len(sess)))
  BY <1>1, AtWork DEF Working
<1>3. r \in Seq(FrameSet(Len(sess)))
  BY <1>1, <1>2
<1>4. Fits(t, r, phase)
  BY <1>1, <1>2, ReplaceFits DEF Top
<1>5. Moves(stack[t], pending, r, pending, {})
  BY <1>1, <1>2, ReplaceAlike, AlikeMoves DEF Top
<1>6. UNCHANGED <<daemonVars, phase, id, sid, pending, dropped, emitted, prompt>>
  BY DEF Retry
<1> HIDE DEF r
<1>7. StackTyped' /\ StackFits'
  BY <1>1, <1>3, <1>4, <1>6, OneStack DEF daemonVars, r
<1>8. DaemonTyped' /\ WrapperTyped'
  BY <1>6 DEF BridgeInv, DaemonTyped, WrapperTyped, daemonVars
<1>9. Kept({})
  BY <1>1, <1>5, <1>6, InvFacts, MovesKeep DEF r
<1> QED  BY <1>7, <1>8, <1>9 DEF BridgeInv

\* A goroutine went on while the daemon's registry kept its size.
LEMMA GoesInv ==
    ASSUME NEW t, NEW out, Working(t), Goes(t, out), DaemonTyped', Len(sess') = Len(sess),
           UNCHANGED <<phase, id, sid, emitted>>,
           prompt' \in [PromptIds -> {"new", "queued", "done"}]
    PROVE  /\ BridgeInv' /\ Kept(out)
           /\ \A u \in Threads : u # t => stack'[u] = stack[u]
           /\ dropped \subseteq dropped'
<1>1. PICK r \in Seq(FrameSet(Len(sess))) :
          Fits(t, r, phase) /\ stack' = [stack EXCEPT ![t] = r]
  BY GoesEffect
<1>2. pending' \in Seq(Events) /\ dropped' \subseteq 1..MaxEvents /\ Kept(out)
      /\ dropped \subseteq dropped'
  BY GoesEffect
<1>3. BridgeInv /\ t \in Threads /\ DOMAIN stack = Threads
  BY InvFacts DEF Working
<1>4. StackTyped' /\ StackFits'
  BY <1>1, <1>3, OneStack
<1>5. WrapperTyped'
  BY <1>2, <1>3 DEF BridgeInv, WrapperTyped
<1> QED  BY <1>1, <1>2, <1>3, <1>4, <1>5 DEF BridgeInv

\* What the service of a call gives away: the event that was sent.
Given(t) == IF Top(t).k = "emit" /\ Known(Served(t).id) THEN {Current(Top(t)).n} ELSE {}

LEMMA ServeKeeps ==
    ASSUME BridgeInv, NEW t \in Threads, Serve(t)
    PROVE  /\ BridgeInv' /\ Goes(t, Given(t)) /\ Kept(Given(t)) /\ Working(t)
           /\ \A u \in Threads : u # t => stack'[u] = stack[u]
           /\ dropped \subseteq dropped'
           /\ Len(sess') = Len(sess)
           /\ \A i \in DOMAIN sess : sess'[i].buf = sess[i].buf
           /\ \A i \in DOMAIN sess : sess'[i].sub # sess[i].sub =>
                  /\ Top(t).k = "in" /\ i = Served(t).id /\ sess[i].live
                  /\ Known(Served(t).id) /\ Accepted(t, Served(t))
           /\ sunk' = IF Top(t).k = "emit" /\ Known(Served(t).id)
                      THEN Sink(sunk, Current(Top(t))) ELSE sunk
<1>1. Working(t) /\ Top(t).k # "boot"
  BY DEF Serve, Working, Running
<1>2. UNCHANGED <<up, crashes, stalls, phase, id, sid, emitted, prompt>>
  BY DEF Serve
<1>3. prompt' \in [PromptIds -> {"new", "queued", "done"}]
  BY <1>2 DEF BridgeInv, WrapperTyped
<1>4. CASE Known(Served(t).id)
  <2>1. Effect(Served(t)) /\ Accepted(t, Served(t))
    BY <1>4 DEF Serve, Served
  <2>2. Goes(t, Given(t))
    BY <1>1, <1>4, <2>1, AcceptedGoes DEF Given
  <2>3. /\ sess' \in Seq(SessType) /\ Len(sess') = Len(sess)
        /\ \A i \in DOMAIN sess : sess'[i].buf = sess[i].buf
        /\ \A i \in DOMAIN sess : sess'[i].sub # sess[i].sub =>
               /\ Top(t).k = "in" /\ i = Served(t).id /\ sess[i].live
        /\ sidIndex' \in [1..MaxSids -> 0..Len(sess)] /\ recover' \in 0..MaxSids
        /\ sunk' = IF Top(t).k = "emit" THEN Sink(sunk, Current(Top(t))) ELSE sunk
        /\ sunk' \in Seq(1..MaxEvents)
    BY <1>1, <1>4, <2>1, EffectTypes
  <2>4. DaemonTyped'
    BY <1>2, <2>3 DEF BridgeInv, DaemonTyped
  <2>5. BridgeInv' /\ Kept(Given(t)) /\ dropped \subseteq dropped'
        /\ \A u \in Threads : u # t => stack'[u] = stack[u]
    BY <1>1, <1>2, <1>3, <2>2, <2>3, <2>4, GoesInv
  <2> QED  BY <1>1, <1>4, <2>1, <2>2, <2>3, <2>5
<1>5. CASE ~Known(Served(t).id)
  <2>1. NotFound(t) /\ UNCHANGED <<sess, sidIndex, recover, sunk>>
    BY <1>5 DEF Serve, Served
  <2>2. Goes(t, {}) /\ Given(t) = {}
    BY <1>1, <1>5, <2>1, NotFoundGoes DEF Given
  <2>3. DaemonTyped' /\ Len(sess') = Len(sess)
    BY <1>2, <2>1 DEF BridgeInv, DaemonTyped
  <2>4. BridgeInv' /\ Kept({}) /\ dropped \subseteq dropped'
        /\ \A u \in Threads : u # t => stack'[u] = stack[u]
    BY <1>1, <1>2, <1>3, <2>2, <2>3, GoesInv
  <2> QED  BY <1>1, <1>5, <2>1, <2>2, <2>3, <2>4
<1> QED  BY <1>4, <1>5

LEMMA UnreachableKeeps ==
    ASSUME BridgeInv, NEW t \in Threads, Unreachable(t)
    PROVE  /\ BridgeInv' /\ Kept({}) /\ Working(t)
           /\ \A u \in Threads : u # t => stack'[u] = stack[u]
           /\ dropped \subseteq dropped'
           /\ phase' = phase \/ (phase = "boot" /\ phase' = "off")
<1>1. Working(t) /\ NoAnswer(t)
  BY DEF Unreachable, Working, Running
<1>2. Goes(t, {})
  BY <1>1, NoAnswerGoes
<1>3. /\ UNCHANGED <<daemonVars, id, sid, emitted, prompt>>
      /\ phase' = IF Top(t).k = "boot" THEN "off" ELSE phase
  BY DEF Unreachable
<1>4. prompt' \in [PromptIds -> {"new", "queued", "done"}] /\ DaemonTyped'
      /\ Len(sess') = Len(sess)
  BY <1>3 DEF BridgeInv, WrapperTyped, DaemonTyped, daemonVars
<1>5. CASE Top(t).k # "boot"
  <2>1. phase' = phase
    BY <1>3, <1>5
  <2> QED  BY <1>1, <1>2, <1>3, <1>4, <2>1, GoesInv
<1>6. CASE Top(t).k = "boot"
  <2>1. Continue(t, <<>>, pending, {})
    BY <1>1, <1>6 DEF NoAnswer, Top
  <2>2. pending' = pending /\ dropped' = dropped /\ stack' = [stack EXCEPT ![t] = <<>>]
    <3>1. Build(<<>>, id) = <<>>
      BY DEF Build
    <3>2. {e.n : e \in {x \in {} : x.kind = "user"}} = {}
      OBVIOUS
    <3> QED  BY <2>1, <3>1, <3>2 DEF Continue
  <2>3. Fits(t, stack[t], phase) /\ stack[t] # <<>> /\ stack[t] \in Seq(FrameSet(Len(sess)))
    BY <1>1, AtWork DEF Working
  <2>4. t = "main" /\ phase = "boot"
    <3>1. stack[t][1].k = "boot" /\ 1 \in DOMAIN stack[t]
      BY <1>6, <2>3 DEF Top
    <3> QED  BY <2>3, <3>1 DEF Fits
  <2>5. \A u \in Threads : stack'[u] = <<>>
    <3>1. \A u \in Threads : u # "main" => stack[u] = <<>>
      BY <2>4, InvFacts DEF Fits
    <3> QED  BY <2>2, <2>4, <3>1, InvFacts
  <2>6. StackTyped' /\ StackFits'
    <3>1. DOMAIN stack' = Threads /\ stack' = [u \in Threads |-> <<>>]
      BY <2>2, <2>5, InvFacts
    <3>2. <<>> \in Seq(FrameSet(Len(sess')))
      OBVIOUS
    <3>3. StackTyped'
      BY <3>1, <3>2 DEF StackTyped
    <3>4. StackFits'
      BY <2>5 DEF StackFits, Fits
    <3> QED  BY <3>3, <3>4
  <2>7. phase' = "off"
    BY <1>3, <1>6
  <2>8. WrapperTyped'
    BY <1>3, <1>4, <2>2, <2>7 DEF BridgeInv, WrapperTyped
  <2>9. Kept({})
    BY <1>2, <1>1, GoesEffect
  <2> QED  BY <1>1, <1>4, <2>2, <2>4, <2>6, <2>7, <2>8, <2>9, InvFacts DEF BridgeInv
<1> QED  BY <1>5, <1>6

\* reregister(): the frame waits below an Emit that took the backlog.
LEMMA RegisterStack ==
    ASSUME BridgeInv, NEW t \in Threads, Register(t)
    PROVE  \E r \in Seq(FrameSet(Len(sess) + 1)) :
               /\ stack' = [stack EXCEPT ![t] = r] /\ Fits(t, r, phase)
               /\ Moves(stack[t], pending, r, <<>>, {})
               /\ r # <<>> /\ Head(r).st = "wire"
<1> DEFINE s == stack[t]
           m == Len(sess) + 1
           h == Head(s)
           u == Tail(s)
           g == EmitFrame(pending, Notice("started"))
           f == [h EXCEPT !.st = "nest"]
           q == <<g, f>> \o u
           r == Build(q, m)
<1>1. Working(t) /\ Top(t) = h /\ s # <<>>
  BY DEF Register, Working, Running, Top
<1>2. /\ Len(sess) \in Nat /\ s \in Seq(FrameSet(Len(sess))) /\ Fits(t, s, phase)
      /\ pending \in Seq(Events)
  BY <1>1, AtWork
<1>3. m \in Nat /\ FrameSet(Len(sess)) \subseteq FrameSet(m)
      /\ Seq(FrameSet(Len(sess))) \subseteq Seq(FrameSet(m))
  BY <1>2, FramesGrow
<1>4. s \in Seq(FrameSet(m)) /\ h \in FrameSet(m) /\ u \in Seq(FrameSet(m)) /\ FrameFits(h)
  BY <1>1, <1>2, <1>3, AtWork
<1>5. Notice("started") \in Events \cup {NoEvent} /\ Notice("started") # NoEvent
      /\ Notice("started").n = 0
  BY EventTypes DEF Notice
<1>6. g \in FrameSet(m) /\ FrameFits(g) /\ g.k = "emit" /\ g.st = "wire"
  BY <1>2, <1>3, <1>5, NewFrames
<1>7. \A n : /\ InFrame(g, n) <=> Notice("started").n = n \/ InSeq(pending, n)
             /\ OnceFrame(g, n) <=>
                    OnceSeq(pending, n) /\ ~(Notice("started").n = n /\ InSeq(pending, n))
  BY <1>2, <1>3, <1>5, TakeBacklog
<1> HIDE DEF h, g, u, m
<1>8. /\ f \in FrameSet(m) /\ f.own = h.own /\ f.batch = h.batch /\ f.k = h.k
      /\ f.st = "nest"
  BY <1>4 DEF FrameSet
<1>9. FrameFits(f)
  BY <1>4, <1>8 DEF FrameFits
<1>10. stack' = [stack EXCEPT ![t] = r] /\ sid \in 1..MaxSids
  BY <1>1, InvFacts DEF Register, g, u, m
<1>11. <<g, f>> \o u = <<g>> \o (<<f>> \o u)
  <2> DEFINE a == <<g>>
             b == <<f>>
  <2>1. a \in Seq(FrameSet(m)) /\ b \in Seq(FrameSet(m)) /\ u \in Seq(FrameSet(m))
    BY <1>4, <1>6, <1>8
  <2>2. <<g, f>> = a \o b
    OBVIOUS
  <2> HIDE DEF a, b
  <2>3. (a \o b) \o u = a \o (b \o u)
    BY <2>1
  <2>4. <<g, f>> \o u = a \o (b \o u)
    BY <2>2, <2>3
  <2> QED  BY <2>4 DEF a, b
<1> HIDE DEF f
<1>12. <<f>> \o u \in Seq(FrameSet(m)) /\ Fits(t, <<f>> \o u, phase) /\ Alike(s, <<f>> \o u)
  <2>1. <<f>> \o u \in Seq(FrameSet(m))
    BY <1>4, <1>8
  <2>2. Fits(t, <<f>> \o u, phase)
    BY <1>1, <1>2, <1>3, <1>4, <1>8, <1>9, ReplaceFits DEF h, u
  <2>3. Alike(s, <<f>> \o u)
    BY <1>1, <1>3, <1>4, <1>8, ReplaceAlike DEF h, u
  <2> QED  BY <2>1, <2>2, <2>3
<1> DEFINE v == <<f>> \o u
<1>13. v \in Seq(FrameSet(m)) /\ Fits(t, v, phase) /\ Alike(s, v) /\ q = <<g>> \o v
  BY <1>11, <1>12
<1>14. t # "main" => phase \in {"run", "exit"}
  BY <1>1, <1>2 DEF Fits
<1> HIDE DEF v, q
<1>15. q \in Seq(FrameSet(m)) /\ q # <<>> /\ Head(q) = g
  BY <1>6, <1>13
<1>16. Fits(t, q, phase)
  BY <1>3, <1>6, <1>13, <1>14, PushFits
<1>17. \A n : /\ InStack(q, n) <=> InFrame(g, n) \/ InStack(v, n)
              /\ OnceStack(q, n) <=>
                     OnceFrame(g, n) /\ OnceStack(v, n) /\ ~(InFrame(g, n) /\ InStack(v, n))
  BY <1>3, <1>6, <1>13, OnTop
<1>18. m \in 0..m
  BY <1>3
<1>19. /\ r \in Seq(FrameSet(m)) /\ Fits(t, r, phase) /\ Alike(q, r)
       /\ r # <<>> /\ Head(r).st = "wire"
  BY <1>3, <1>6, <1>10, <1>15, <1>16, <1>18, BuildKeeps
<1> HIDE DEF r
<1>20. Moves(s, pending, r, <<>>, {})
  BY <1>5, <1>7, <1>13, <1>17, <1>19, EmptyHolds DEF Moves, Once, With, Alike
<1> QED  BY <1>10, <1>19, <1>20 DEF m

LEMMA RegisterKeeps ==
    ASSUME BridgeInv, NEW t \in Threads, Register(t)
    PROVE  /\ BridgeInv' /\ Kept({}) /\ Top(t)'.st = "wire"
           /\ \A u \in Threads : u # t => stack'[u] = stack[u]
<1>1. PICK r \in Seq(FrameSet(Len(sess) + 1)) :
          /\ stack' = [stack EXCEPT ![t] = r] /\ Fits(t, r, phase)
          /\ Moves(stack[t], pending, r, <<>>, {})
          /\ r # <<>> /\ Head(r).st = "wire"
  BY RegisterStack
<1>2. /\ sess' = Append(sess, Fresh("pty", 0)) /\ id' = Len(sess) + 1 /\ pending' = <<>>
      /\ UNCHANGED <<up, crashes, stalls, sidIndex, recover, sunk, phase, sid, dropped,
                     emitted, prompt>>
  BY DEF Register, RegisterExternal
<1>3. /\ Len(sess) \in Nat /\ DOMAIN stack = Threads /\ sess \in Seq(SessType)
      /\ sidIndex \in [1..MaxSids -> 0..Len(sess)]
      /\ \A u \in Threads : stack[u] \in Seq(FrameSet(Len(sess))) /\ Fits(u, stack[u], phase)
  BY InvFacts
<1>4. sess' \in Seq(SessType) /\ Len(sess') = Len(sess) + 1
  <2>1. 0 \in 0..MaxSids
    BY ConstTypes
  <2> QED  BY <1>2, <1>3, <2>1, RegisterTypes
<1>5. DaemonTyped'
  BY <1>2, <1>3, <1>4 DEF BridgeInv, DaemonTyped
<1>6. WrapperTyped'
  <2>1. <<>> \in Seq(Events)
    OBVIOUS
  <2> QED  BY <1>2, <1>3, <1>4, <2>1 DEF BridgeInv, WrapperTyped
<1>7. \A u \in Threads : stack'[u] = IF u = t THEN r ELSE stack[u]
  BY <1>1, <1>3
<1>8. StackTyped'
  <2>1. Seq(FrameSet(Len(sess))) \subseteq Seq(FrameSet(Len(sess) + 1))
    BY <1>3, FramesGrow
  <2>2. \A u \in Threads : stack'[u] \in Seq(FrameSet(Len(sess) + 1))
    BY <1>3, <1>7, <2>1
  <2>3. stack' \in [Threads -> Seq(FrameSet(Len(sess) + 1))]
    BY <1>1, <1>3, <2>2
  <2> QED  BY <1>4, <2>3 DEF StackTyped
<1>9. StackFits'
  BY <1>1, <1>2, <1>3, <1>7 DEF StackFits
<1>10. Kept({})
  BY <1>1, <1>2, <1>3, MovesKeep
<1>11. Top(t)'.st = "wire"
  BY <1>1, <1>7 DEF Top
<1> QED  BY <1>5, <1>6, <1>7, <1>8, <1>9, <1>10, <1>11 DEF BridgeInv

LEMMA EmitKeeps ==
    ASSUME BridgeInv, NEW t \in Emitters, Emit(t)
    PROVE  /\ BridgeInv'
           /\ \A n \in Nat \ {0} : Single(n) /\ (n = emitted' => ~Held(n)) =>
                  /\ Single(n)'
                  /\ Held(n)' <=> Held(n) \/ n = emitted'
           /\ t # "in" /\ \A u \in Threads : u # t => stack'[u] = stack[u]
<1> DEFINE m == Len(sess)
           k == emitted + 1
           e == Event(k)
           g == EmitFrame(pending, e)
           r == Build(<<g>>, id)
<1>1. /\ phase = "run" /\ stack[t] = <<>> /\ k \in 1..MaxEvents /\ emitted' = k
      /\ stack' = [stack EXCEPT ![t] = r] /\ pending' = <<>>
      /\ UNCHANGED <<daemonVars, phase, id, sid, dropped, prompt>>
  BY ConstTypes, InvFacts DEF Emit, Running
<1>2. /\ m \in Nat /\ DOMAIN stack = Threads /\ pending \in Seq(Events) /\ t \in Threads
      /\ id \in 0..m /\ sid \in 1..MaxSids /\ t # "in" /\ Fits(t, stack[t], phase)
  BY InvFacts, ConstTypes
<1>3. e \in Events \cup {NoEvent} /\ e # NoEvent /\ e.n = k
  BY <1>1, EventTypes
<1>4. g \in FrameSet(m) /\ FrameFits(g) /\ g.k = "emit"
  BY <1>2, <1>3, NewFrames
<1>5. \A n : /\ InFrame(g, n) <=> e.n = n \/ InSeq(pending, n)
             /\ OnceFrame(g, n) <=> OnceSeq(pending, n) /\ ~(e.n = n /\ InSeq(pending, n))
  BY <1>2, <1>3, TakeBacklog
<1> HIDE DEF e, g
<1>6. <<g>> \in Seq(FrameSet(m)) /\ Fits(t, <<g>>, phase)
  BY <1>1, <1>4 DEF Fits
<1>7. r \in Seq(FrameSet(m)) /\ Fits(t, r, phase) /\ Alike(<<g>>, r)
  BY <1>2, <1>6, BuildKeeps
<1>8. \A n : InStack(<<g>>, n) <=> InFrame(g, n)
  BY Singles
<1>9. \A n : OnceStack(<<g>>, n) <=> OnceFrame(g, n)
  BY Singles
<1> HIDE DEF r
<1>10. \A n : /\ With(r, <<>>, n) <=> e.n = n \/ InSeq(pending, n)
              /\ Once(r, <<>>, n) <=> OnceSeq(pending, n) /\ ~(e.n = n /\ InSeq(pending, n))
  BY <1>5, <1>7, <1>8, <1>9, EmptyHolds DEF With, Once, Alike
<1>11. ASSUME NEW n \in Nat \ {0}, Single(n), n = k => ~Held(n)
       PROVE  Single(n)' /\ (Held(n)' <=> Held(n) \/ n = k)
  <2>1. ~(e.n = n /\ InSeq(pending, n))
    BY <1>3, <1>11 DEF Held
  <2>2. Once(r, <<>>, n)
    BY <1>10, <1>11, <2>1 DEF Single
  <2>3. With(r, <<>>, n) => With(stack[t], pending, n) \/ ~Held(n)
    BY <1>3, <1>10, <1>11 DEF With
  <2>4. /\ Single(n)'
        /\ Held(n)' => Held(n) \/ With(r, <<>>, n)
        /\ Held(n) => Held(n)' \/ With(stack[t], pending, n)
        /\ With(r, <<>>, n) => Held(n)'
    BY <1>1, <1>2, <1>11, <2>2, <2>3, OneMoves
  <2>5. With(stack[t], pending, n) => InSeq(pending, n)
    BY <1>1, EmptyHolds DEF With
  <2>6. InSeq(pending, n) => Held(n)
    BY DEF Held
  <2> QED  BY <1>3, <1>10, <2>4, <2>5, <2>6
<1>12. StackTyped' /\ StackFits'
  BY <1>1, <1>2, <1>7, OneStack DEF daemonVars
<1>13. WrapperTyped' /\ DaemonTyped'
  <2>1. <<>> \in Seq(Events)
    OBVIOUS
  <2> QED  BY <1>1, <2>1 DEF BridgeInv, WrapperTyped, DaemonTyped, daemonVars
<1> QED  BY <1>1, <1>2, <1>11, <1>12, <1>13 DEF BridgeInv

LEMMA BootedKeeps ==
    ASSUME BridgeInv, Booted
    PROVE  /\ BridgeInv' /\ Kept({}) /\ phase = "boot" /\ stack["in"] = <<>>
           /\ Top("in")'.st = "send" /\ Running("in")'
<1> DEFINE m == Len(sess)
           f == Frame("in", "send", <<>>, NoEvent)
<1>1. /\ phase = "boot" /\ phase' = "run" /\ stack["main"] # <<>> /\ Top("main").k = "boot"
      /\ stack' = [stack EXCEPT !["main"] = <<>>, !["in"] = <<f>>]
      /\ UNCHANGED <<daemonVars, id, sid, pending, dropped, emitted, prompt>>
  BY DEF Booted, Running
<1>2. /\ m \in Nat /\ DOMAIN stack = Threads
      /\ \A u \in Threads : stack[u] \in Seq(FrameSet(m)) /\ Fits(u, stack[u], phase)
      /\ "main" \in Threads /\ "in" \in Threads
  BY InvFacts, ConstTypes
<1>3. \A u \in Threads : u # "main" => stack[u] = <<>>
  BY <1>1, <1>2 DEF Fits
<1>4. \A n \in Nat \ {0} : ~InStack(stack["main"], n)
  <2>1. Working("main")
    BY <1>1, <1>2 DEF Working
  <2>2. Tail(stack["main"]) = <<>>
    BY <1>1, <1>2, TailFits DEF Top
  <2>3. /\ Head(stack["main"]) \in FrameSet(m) /\ Head(stack["main"]).batch = <<>>
        /\ Head(stack["main"]).own = NoEvent
    BY <1>1, <2>1, AtWork DEF FrameFits, Top
  <2>4. \A n : InFrame(Head(stack["main"]), n) <=>
                   Head(stack["main"]).own.n = n \/ InSeq(Head(stack["main"]).batch, n)
    BY <1>2, <2>3, FrameHolds
  <2>5. \A n : InStack(stack["main"], n) <=>
                   InFrame(Head(stack["main"]), n) \/ InStack(Tail(stack["main"]), n)
    BY <1>1, <1>2, TopOf
  <2>6. NoEvent.n = 0
    BY EventTypes
  <2> QED  BY <2>2, <2>3, <2>4, <2>5, <2>6, EmptyHolds
<1>5. f \in FrameSet(m) /\ FrameFits(f) /\ f.k = "in" /\ f.st = "send"
  BY <1>2, NewFrames
<1> HIDE DEF f
<1>6. /\ <<f>> \in Seq(FrameSet(m)) /\ Fits("in", <<f>>, phase')
      /\ \A n \in Nat \ {0} : ~InStack(<<f>>, n) /\ OnceStack(<<f>>, n)
  BY <1>1, <1>2, <1>5, IdleStack
<1>7. \A u \in Threads : stack'[u] = IF u = "in" THEN <<f>> ELSE <<>>
  BY <1>1, <1>2, <1>3
<1>8. StackTyped'
  <2>1. <<>> \in Seq(FrameSet(m)) /\ DOMAIN stack' = Threads
    BY <1>1, <1>2
  <2>2. stack' = [u \in Threads |-> IF u = "in" THEN <<f>> ELSE <<>>]
    BY <1>1, <1>2, <1>3
  <2> QED  BY <1>1, <1>6, <2>1, <2>2 DEF StackTyped, daemonVars
<1>9. StackFits'
  <2>1. \A u \in Threads : Fits(u, <<>>, phase')
    BY DEF Fits
  <2> QED  BY <1>6, <1>7, <2>1 DEF StackFits
<1>10. WrapperTyped' /\ DaemonTyped'
  BY <1>1 DEF BridgeInv, WrapperTyped, DaemonTyped, daemonVars
<1>11. ASSUME NEW n \in Nat \ {0}, Single(n)
       PROVE  Single(n)' /\ (Held(n)' <=> Held(n))
  <2>1. \A u \in Threads : ~InStack(stack'[u], n) /\ OnceStack(stack'[u], n)
    BY <1>6, <1>7, EmptyHolds
  <2>2. \A u \in Threads : ~InStack(stack[u], n)
    BY <1>3, <1>4, EmptyHolds
  <2> QED  BY <1>1, <1>11, <2>1, <2>2 DEF Single, Held
<1>12. Kept({})
  BY <1>11 DEF Kept
<1>13. Top("in")'.st = "send" /\ Running("in")'
  <2>1. stack'["in"] = <<f>>
    BY <1>2, <1>7
  <2>2. Head(<<f>>) = f /\ <<f>> # <<>>
    OBVIOUS
  <2> QED  BY <1>5, <2>1, <2>2 DEF Top, Running
<1> QED  BY <1>1, <1>2, <1>3, <1>8, <1>9, <1>10, <1>12, <1>13, ConstTypes DEF BridgeInv

\* An idle goroutine starts with a call that holds no event.
LEMMA StartKeeps ==
    ASSUME BridgeInv, NEW t \in Threads, stack[t] = <<>>, phase = "run",
           NEW f \in FrameSet(Len(sess)), FrameFits(f), f.k \notin {"emit", "in", "boot"},
           stack' = [stack EXCEPT ![t] = <<f>>], phase' \in {"run", "exit"},
           UNCHANGED <<daemonVars, id, sid, pending, dropped, emitted, prompt>>
    PROVE  BridgeInv' /\ Kept({})
<1>1. /\ Len(sess) \in Nat /\ DOMAIN stack = Threads
      /\ \A u \in Threads : stack[u] \in Seq(FrameSet(Len(sess))) /\ Fits(u, stack[u], phase)
  BY InvFacts
<1>2. /\ <<f>> \in Seq(FrameSet(Len(sess))) /\ Fits(t, <<f>>, phase')
      /\ \A n \in Nat \ {0} : ~InStack(<<f>>, n) /\ OnceStack(<<f>>, n)
  BY <1>1, IdleStack
<1>3. Kept({})
  <2>1. Moves(stack[t], pending, <<f>>, pending, {})
    BY <1>2, IdleMoves
  <2>2. pending' = pending
    OBVIOUS
  <2> DEFINE r == <<f>>
  <2>3. Moves(stack[t], pending, r, pending, {}) /\ stack' = [stack EXCEPT ![t] = r]
    BY <2>1
  <2> HIDE DEF r
  <2> QED  BY <1>1, <2>2, <2>3, MovesKeep
<1>4. StackTyped'
  BY <1>1, <1>2 DEF BridgeInv, StackTyped, daemonVars
<1>5. StackFits'
  <2>1. \A u \in Threads : Fits(u, stack[u], phase')
    BY <1>1 DEF Fits
  <2> QED  BY <1>1, <1>2, <2>1 DEF StackFits
<1>6. WrapperTyped' /\ DaemonTyped'
  BY DEF BridgeInv, WrapperTyped, DaemonTyped, daemonVars
<1> QED  BY <1>3, <1>4, <1>5, <1>6 DEF BridgeInv

LEMMA KeepaliveKeeps ==
    ASSUME BridgeInv, Keepalive
    PROVE  BridgeInv' /\ Kept({})
<1> DEFINE f == Frame("ka", "send", <<>>, NoEvent)
<1>1. f \in FrameSet(Len(sess)) /\ FrameFits(f) /\ f.k = "ka"
  BY InvFacts, NewFrames
<1>2. /\ phase = "run" /\ stack["ka"] = <<>> /\ stack' = [stack EXCEPT !["ka"] = <<f>>]
      /\ UNCHANGED <<daemonVars, phase, id, sid, pending, dropped, emitted, prompt>>
  BY DEF Keepalive, Running
<1> HIDE DEF f
<1> QED  BY <1>1, <1>2, StartKeeps, ConstTypes

LEMMA ClaudeExitsKeeps ==
    ASSUME BridgeInv, ClaudeExits
    PROVE  BridgeInv' /\ Kept({})
<1> DEFINE f == Frame("exit", "send", <<>>, NoEvent)
<1>1. f \in FrameSet(Len(sess)) /\ FrameFits(f) /\ f.k = "exit"
  BY InvFacts, NewFrames
<1>2. /\ phase = "run" /\ stack["main"] = <<>> /\ stack' = [stack EXCEPT !["main"] = <<f>>]
      /\ phase' = "exit"
      /\ UNCHANGED <<daemonVars, id, sid, pending, dropped, emitted, prompt>>
  BY DEF ClaudeExits, Running
<1> HIDE DEF f
<1> QED  BY <1>1, <1>2, StartKeeps, ConstTypes

LEMMA RotateKeeps ==
    ASSUME BridgeInv, Rotate
    PROVE  BridgeInv' /\ Kept({})
<1>1. sid' \in 1..MaxSids
  BY InvFacts, ConstTypes DEF Rotate
<1>2. DaemonTyped' /\ WrapperTyped' /\ StackTyped' /\ StackFits'
  BY <1>1 DEF Rotate, BridgeInv, DaemonTyped, WrapperTyped, StackTyped, StackFits, daemonVars
<1>3. Kept({})
  BY StayKeep DEF Rotate
<1> QED  BY <1>2, <1>3 DEF BridgeInv

\* The input loop's stream: where its prompts are.
LEMMA StreamFacts ==
    ASSUME BridgeInv, Running("in"), Top("in").st = "stream"
    PROVE  /\ Top("in").id \in DOMAIN sess /\ Working("in")
           /\ sess[Top("in").id] \in SessType
           /\ Top("in").k = "in"
<1>1. Working("in")
  BY ConstTypes DEF Running, Working
<1>2. Top("in") \in FrameSet(Len(sess)) /\ FrameFits(Top("in"))
  BY <1>1, AtWork DEF Top
<1>3. Top("in").id \in 0..Len(sess) /\ Top("in").id # 0 /\ Top("in").k = "in"
  BY <1>2 DEF FrameSet, FrameFits
<1>4. sess \in Seq(SessType)
  BY InvFacts
<1>5. Top("in").id \in DOMAIN sess
  BY <1>3, <1>4
<1> QED  BY <1>1, <1>3, <1>4, <1>5

LEMMA TypePromptKeeps ==
    ASSUME BridgeInv, TypePrompt
    PROVE  /\ BridgeInv' /\ Kept({}) /\ Len(sess') = Len(sess)
           /\ Running("in") /\ Top("in").st = "stream"
           /\ sess[Top("in").id].buf # <<>>
           /\ sess[Top("in").id].buf \in Seq(PromptIds)
           /\ \A i \in DOMAIN sess :
                  /\ sess'[i].sub = sess[i].sub
                  /\ sess'[i].buf = IF i = Top("in").id THEN Tail(sess[i].buf) ELSE sess[i].buf
           /\ prompt' = [prompt EXCEPT ![Head(sess[Top("in").id].buf)] = "done"]
<1> DEFINE s == Top("in").id
           z == sess[s]
           b == z.buf
           r == [z EXCEPT !.buf = Tail(b)]
<1>1. /\ Running("in") /\ Top("in").st = "stream" /\ b # <<>>
      /\ prompt' = [prompt EXCEPT ![Head(b)] = "done"]
      /\ UNCHANGED <<up, crashes, stalls, sidIndex, recover, sunk, phase, id, sid,
                     pending, dropped, emitted, stack>>
  BY DEF TypePrompt
<1>2. s \in DOMAIN sess /\ z \in SessType /\ sess \in Seq(SessType) /\ Len(sess) \in Nat
  BY <1>1, StreamFacts, InvFacts
<1>3. sess' = [sess EXCEPT ![s] = r]
  BY <1>2 DEF TypePrompt
<1> HIDE DEF z
<1>4. b \in Seq(PromptIds)
  BY <1>2 DEF SessType
<1>5. Tail(b) \in Seq(PromptIds) /\ Head(b) \in PromptIds
  BY <1>1, <1>4
<1> HIDE DEF b
<1>6. r \in SessType /\ r.sub = z.sub /\ r.buf = Tail(b)
  BY <1>2, <1>5 DEF SessType
<1> HIDE DEF r, s
<1>7. /\ sess' \in Seq(SessType) /\ Len(sess') = Len(sess)
      /\ \A i \in DOMAIN sess : sess'[i] = IF i = s THEN r ELSE sess[i]
  BY <1>2, <1>3, <1>6, SetSession
<1>8. prompt' \in [PromptIds -> {"new", "queued", "done"}]
  <2>1. prompt \in [PromptIds -> {"new", "queued", "done"}]
    BY DEF BridgeInv, WrapperTyped
  <2> QED  BY <1>1, <1>5, <2>1
<1>9. DaemonTyped'
  BY <1>1, <1>7 DEF BridgeInv, DaemonTyped
<1>10. WrapperTyped' /\ StackTyped' /\ StackFits'
  BY <1>1, <1>2, <1>7, <1>8, NoStack
<1>11. Kept({})
  BY <1>1, StayKeep
<1>12. \A i \in DOMAIN sess :
          /\ sess'[i].sub = sess[i].sub
          /\ sess'[i].buf = IF i = s THEN Tail(sess[i].buf) ELSE sess[i].buf
  BY <1>6, <1>7 DEF z, b
<1> QED  BY <1>1, <1>4, <1>7, <1>9, <1>10, <1>11, <1>12 DEF BridgeInv, s, z, b

LEMMA StreamEndsKeeps ==
    ASSUME BridgeInv, StreamEnds
    PROVE  /\ BridgeInv' /\ Kept({}) /\ Len(sess') = Len(sess)
           /\ \A i \in DOMAIN sess :
                  /\ sess'[i].buf = sess[i].buf
                  /\ sess'[i].sub = IF i = Top("in").id THEN FALSE ELSE sess[i].sub
           /\ Running("in") /\ Top("in").st = "stream" /\ sess[Top("in").id].buf = <<>>
           /\ dropped \subseteq dropped'
<1> DEFINE s == Top("in").id
           z == sess[s]
           r == [z EXCEPT !.sub = FALSE]
<1>1. /\ Running("in") /\ Top("in").st = "stream" /\ sess[s].buf = <<>>
      /\ SetHead("in", [Top("in") EXCEPT !.st = "send"])
      /\ UNCHANGED <<up, crashes, stalls, sidIndex, recover, sunk, phase, id, sid,
                     emitted, prompt>>
  BY DEF StreamEnds
<1>2. s \in DOMAIN sess /\ z \in SessType /\ sess \in Seq(SessType) /\ Len(sess) \in Nat
      /\ Working("in")
  BY <1>1, StreamFacts, InvFacts
<1>3. sess' = [sess EXCEPT ![s] = r]
  BY <1>2 DEF StreamEnds
<1> HIDE DEF z
<1>4. r \in SessType /\ r.sub = FALSE /\ r.buf = z.buf
  BY <1>2 DEF SessType
<1> HIDE DEF r, s
<1>5. /\ sess' \in Seq(SessType) /\ Len(sess') = Len(sess)
      /\ \A i \in DOMAIN sess : sess'[i] = IF i = s THEN r ELSE sess[i]
  BY <1>2, <1>3, <1>4, SetSession
<1>6. Goes("in", {})
  <2>1. "send" \in {"send", "reg"}
    OBVIOUS
  <2> QED  BY <1>1, <1>2, <2>1, SetStateGoes
<1>7. DaemonTyped'
  BY <1>1, <1>5 DEF BridgeInv, DaemonTyped
<1>8. prompt' \in [PromptIds -> {"new", "queued", "done"}]
  BY <1>1 DEF BridgeInv, WrapperTyped
<1>9. BridgeInv' /\ Kept({}) /\ dropped \subseteq dropped'
  BY <1>1, <1>2, <1>5, <1>6, <1>7, <1>8, GoesInv
<1> QED  BY <1>1, <1>4, <1>5, <1>9 DEF s, z

LEMMA LosePromptsTypes ==
    ASSUME BridgeInv
    PROVE  /\ LosePrompts \in [PromptIds -> {"new", "queued", "done"}]
           /\ \A p \in PromptIds : LosePrompts[p] # "queued"
BY DEF LosePrompts, BridgeInv, WrapperTyped

LEMMA WrapperGoneKeeps ==
    ASSUME BridgeInv, WrapperGone
    PROVE  /\ BridgeInv' /\ Len(sess') = Len(sess)
           /\ \A i \in DOMAIN sess : ~sess'[i].sub /\ sess'[i].buf = <<>>
           /\ \A n : Single(n)' /\ ~Held(n)'
           /\ \A p \in PromptIds : prompt'[p] # "queued"
<1>1. /\ phase' = "gone" /\ stack' = [t \in Threads |-> <<>>] /\ sess' = Detached(sess)
      /\ pending' = <<>> /\ prompt' = LosePrompts
      /\ UNCHANGED <<up, crashes, stalls, sidIndex, recover, sunk, id, sid, dropped, emitted>>
  BY DEF WrapperGone
<1>2. /\ sess' \in Seq(SessType) /\ Len(sess') = Len(sess)
      /\ \A i \in DOMAIN sess : ~sess'[i].sub /\ sess'[i].buf = <<>>
  BY <1>1, InvFacts, ResetTypes
<1>3. DaemonTyped'
  BY <1>1, <1>2 DEF BridgeInv, DaemonTyped
<1>4. WrapperTyped'
  <2>1. <<>> \in Seq(Events)
    OBVIOUS
  <2> QED  BY <1>1, <1>2, <2>1, LosePromptsTypes DEF BridgeInv, WrapperTyped
<1>5. StackTyped' /\ StackFits'
  <2>1. <<>> \in Seq(FrameSet(Len(sess')))
    OBVIOUS
  <2>2. StackTyped'
    BY <1>1, <2>1 DEF StackTyped
  <2>3. StackFits'
    BY <1>1 DEF StackFits, Fits
  <2> QED  BY <2>2, <2>3
<1>6. \A n : Single(n)' /\ ~Held(n)'
  <2>1. \A t \in Threads : stack'[t] = <<>>
    BY <1>1
  <2> QED  BY <1>1, <2>1, EmptyHolds DEF Single, Held
<1> QED  BY <1>1, <1>2, <1>3, <1>4, <1>5, <1>6, LosePromptsTypes DEF BridgeInv

LEMMA SessionEndedKeeps ==
    ASSUME BridgeInv, NEW s \in DOMAIN sess, SessionEnded(s)
    PROVE  BridgeInv' /\ Kept({}) /\ SameInputs(sess, sess')
<1>1. /\ sess' = Forget(sess, s) /\ sidIndex' = Purge(sidIndex, s)
      /\ UNCHANGED <<up, crashes, stalls, recover, sunk, phase, id, sid, pending,
                     dropped, emitted, stack, prompt>>
  BY DEF SessionEnded
<1>2. /\ Len(sess) \in Nat /\ sess \in Seq(SessType)
      /\ sidIndex \in [1..MaxSids -> 0..Len(sess)] /\ s \in 0..Len(sess)
  BY InvFacts
<1>3. SameInputs(sess, sess') /\ sidIndex' \in [1..MaxSids -> 0..Len(sess)]
  BY <1>1, <1>2, ForgetTypes, IndexTypes
<1>4. DaemonTyped'
  BY <1>1, <1>3 DEF BridgeInv, DaemonTyped, SameInputs
<1>5. prompt' \in [PromptIds -> {"new", "queued", "done"}]
  BY <1>1 DEF BridgeInv, WrapperTyped
<1>6. WrapperTyped' /\ StackTyped' /\ StackFits'
  BY <1>1, <1>2, <1>3, <1>5, NoStack DEF SameInputs
<1>7. Kept({})
  BY <1>1, StayKeep
<1> QED  BY <1>3, <1>4, <1>6, <1>7 DEF BridgeInv

LEMMA ReapStaleKeeps ==
    ASSUME BridgeInv, NEW s \in DOMAIN sess, ReapStale(s)
    PROVE  BridgeInv' /\ Kept({}) /\ SameInputs(sess, sess')
<1>1. /\ sess' = Forget(Close(sess, s), s) /\ sidIndex' = Purge(sidIndex, s)
      /\ stalls' = IF InUse(s) THEN stalls + 1 ELSE stalls
      /\ InUse(s) => stalls < MaxStalls
      /\ UNCHANGED <<up, crashes, recover, sunk, phase, id, sid, pending, dropped,
                     emitted, stack, prompt>>
  BY DEF ReapStale, Stale
<1>2. /\ Len(sess) \in Nat /\ sess \in Seq(SessType)
      /\ sidIndex \in [1..MaxSids -> 0..Len(sess)] /\ s \in 0..Len(sess)
  BY InvFacts
<1>3. SameInputs(sess, Close(sess, s))
  BY <1>2, CloseTypes
<1>4. SameInputs(Close(sess, s), sess')
  BY <1>1, <1>3, ForgetTypes DEF SameInputs
<1>5. SameInputs(sess, sess') /\ sidIndex' \in [1..MaxSids -> 0..Len(sess)]
  BY <1>1, <1>2, <1>3, <1>4, SameInputsTrans, IndexTypes
<1>6. stalls' \in 0..MaxStalls
  <2>1. stalls \in 0..MaxStalls
    BY DEF BridgeInv, DaemonTyped
  <2> QED  BY <1>1, <2>1, ConstTypes
<1>7. DaemonTyped'
  BY <1>1, <1>5, <1>6 DEF BridgeInv, DaemonTyped, SameInputs
<1>8. prompt' \in [PromptIds -> {"new", "queued", "done"}]
  BY <1>1 DEF BridgeInv, WrapperTyped
<1>9. WrapperTyped' /\ StackTyped' /\ StackFits'
  BY <1>1, <1>2, <1>5, <1>8, NoStack DEF SameInputs
<1>10. Kept({})
  BY <1>1, StayKeep
<1> QED  BY <1>5, <1>7, <1>9, <1>10 DEF BridgeInv

LEMMA RecoverySpawnKeeps ==
    ASSUME BridgeInv, RecoverySpawn
    PROVE  BridgeInv' /\ Kept({})
<1>1. /\ sess' = Append(sess, Fresh("sdk", recover)) /\ recover # 0 /\ recover' = 0
      /\ sidIndex' = [sidIndex EXCEPT ![recover] = Len(sess) + 1]
      /\ UNCHANGED <<up, crashes, stalls, sunk, phase, id, sid, pending, dropped,
                     emitted, stack, prompt>>
  BY DEF RecoverySpawn
<1>2. /\ Len(sess) \in Nat /\ sess \in Seq(SessType)
      /\ sidIndex \in [1..MaxSids -> 0..Len(sess)]
  BY InvFacts
<1>3. recover \in 0..MaxSids /\ 0 \in 0..MaxSids
  BY ConstTypes DEF BridgeInv, DaemonTyped
<1>4. sess' \in Seq(SessType) /\ Len(sess') = Len(sess) + 1
  BY <1>1, <1>2, <1>3, RegisterTypes
<1>5. sidIndex' \in [1..MaxSids -> 0..(Len(sess) + 1)]
  BY <1>1, <1>2, <1>3
<1>6. DaemonTyped'
  BY <1>1, <1>3, <1>4, <1>5 DEF BridgeInv, DaemonTyped
<1>7. prompt' \in [PromptIds -> {"new", "queued", "done"}]
  BY <1>1 DEF BridgeInv, WrapperTyped
<1>8. WrapperTyped' /\ StackTyped' /\ StackFits'
  BY <1>1, <1>2, <1>4, <1>7, NoStack
<1>9. Kept({})
  BY <1>1, StayKeep
<1> QED  BY <1>6, <1>8, <1>9 DEF BridgeInv

\* A prompt is queued, or is dropped.
LEMMA InjectPromptKeeps ==
    ASSUME BridgeInv, NEW p \in PromptIds, NEW x \in 1..MaxSids, InjectPrompt(p, x)
    PROVE  /\ BridgeInv' /\ Kept({}) /\ Len(sess') = Len(sess)
           /\ \/ sess' = sess /\ prompt' = [prompt EXCEPT ![p] = "done"]
              \/ /\ prompt' = [prompt EXCEPT ![p] = "queued"]
                 /\ \E s \in DOMAIN sess :
                      /\ sess[s].sub /\ sess[s].buf \in Seq(PromptIds)
                      /\ \A i \in DOMAIN sess :
                            /\ sess'[i].sub = sess[i].sub
                            /\ sess'[i].buf = IF i = s THEN Append(sess[i].buf, p)
                                              ELSE sess[i].buf
<1> DEFINE s == sidIndex[x]
           z == sess[s]
           r == [z EXCEPT !.buf = Append(@, p)]
           room == s # 0 /\ z.live /\ z.sid = x /\ Deliverable(s)
<1>1. /\ prompt' = [prompt EXCEPT ![p] = IF room THEN "queued" ELSE "done"]
      /\ UNCHANGED <<up, crashes, stalls, sidIndex, recover, sunk, phase, id, sid,
                     pending, dropped, emitted, stack>>
  BY DEF InjectPrompt
<1>2. /\ Len(sess) \in Nat /\ sess \in Seq(SessType)
      /\ sidIndex \in [1..MaxSids -> 0..Len(sess)]
  BY InvFacts
<1>3. /\ prompt \in [PromptIds -> {"new", "queued", "done"}]
      /\ prompt' \in [PromptIds -> {"new", "queued", "done"}]
  <2>1. prompt \in [PromptIds -> {"new", "queued", "done"}]
    BY DEF BridgeInv, WrapperTyped
  <2> QED  BY <1>1, <2>1
<1>4. CASE room
  <2>1. s \in DOMAIN sess
    BY <1>2, <1>4
  <2>2. sess' = [sess EXCEPT ![s] = r]
    BY <1>2, <1>4, <2>1 DEF InjectPrompt
  <2>3. z \in SessType /\ z.sub
    BY <1>2, <1>4, <2>1 DEF Deliverable
  <2> HIDE DEF z
  <2>4. z.buf \in Seq(PromptIds)
    BY <2>3 DEF SessType
  <2>5. Append(z.buf, p) \in Seq(PromptIds)
    BY <2>4
  <2>6. r \in SessType /\ r.sub = z.sub /\ r.buf = Append(z.buf, p)
    BY <2>3, <2>5 DEF SessType
  <2> HIDE DEF r, s
  <2>7. /\ sess' \in Seq(SessType) /\ Len(sess') = Len(sess)
        /\ \A i \in DOMAIN sess : sess'[i] = IF i = s THEN r ELSE sess[i]
    BY <1>2, <2>2, <2>6, SetSession
  <2>8. DaemonTyped'
    BY <1>1, <2>7 DEF BridgeInv, DaemonTyped
  <2>9. WrapperTyped' /\ StackTyped' /\ StackFits'
    BY <1>1, <1>2, <1>3, <2>7, NoStack
  <2>10. Kept({})
    BY <1>1, StayKeep
  <2>11. \A i \in DOMAIN sess :
            /\ sess'[i].sub = sess[i].sub
            /\ sess'[i].buf = IF i = s THEN Append(sess[i].buf, p) ELSE sess[i].buf
    BY <2>6, <2>7 DEF z
  <2>12. prompt' = [prompt EXCEPT ![p] = "queued"]
    BY <1>1, <1>4
  <2> QED  BY <2>1, <2>3, <2>4, <2>7, <2>8, <2>9, <2>10, <2>11, <2>12 DEF BridgeInv, z
<1>5. CASE ~room
  <2>1. sess' = sess
    BY <1>5 DEF InjectPrompt
  <2>2. prompt' = [prompt EXCEPT ![p] = "done"]
    BY <1>1, <1>5
  <2>3. DaemonTyped'
    BY <1>1, <2>1 DEF BridgeInv, DaemonTyped
  <2>4. WrapperTyped' /\ StackTyped' /\ StackFits'
    BY <1>1, <1>2, <1>3, <2>1, NoStack
  <2>5. Kept({})
    BY <1>1, StayKeep
  <2> QED  BY <2>1, <2>2, <2>3, <2>4, <2>5 DEF BridgeInv
<1> QED  BY <1>4, <1>5

\* The daemon dies; q is what had reached Nexus by then.
LEMMA CrashedKeeps ==
    ASSUME BridgeInv, NEW q \in Seq(1..MaxEvents), crashes < MaxCrashes,
           up' = FALSE, crashes' = crashes + 1, sess' = Crashed(sess), recover' = 0,
           sidIndex' = [x \in DOMAIN sidIndex |-> 0], sunk' = q, prompt' = LosePrompts,
           UNCHANGED <<stalls, phase, id, sid, pending, dropped, emitted, stack>>
    PROVE  /\ BridgeInv' /\ Kept({}) /\ Len(sess') = Len(sess)
           /\ \A i \in DOMAIN sess : ~sess'[i].sub /\ sess'[i].buf = <<>>
           /\ \A p \in PromptIds : prompt'[p] # "queued"
<1>1. /\ Len(sess) \in Nat /\ sess \in Seq(SessType)
      /\ sidIndex \in [1..MaxSids -> 0..Len(sess)]
  BY InvFacts
<1>2. /\ sess' \in Seq(SessType) /\ Len(sess') = Len(sess)
      /\ \A i \in DOMAIN sess : ~sess'[i].sub /\ sess'[i].buf = <<>>
  BY <1>1, ResetTypes
<1>3. sidIndex' \in [1..MaxSids -> 0..Len(sess)]
  BY <1>1
<1>4. crashes' \in 0..MaxCrashes /\ recover' \in 0..MaxSids
  <2>1. crashes \in 0..MaxCrashes
    BY DEF BridgeInv, DaemonTyped
  <2> QED  BY <2>1, ConstTypes
<1>5. DaemonTyped'
  BY <1>2, <1>3, <1>4 DEF BridgeInv, DaemonTyped
<1>6. WrapperTyped' /\ StackTyped' /\ StackFits'
  BY <1>1, <1>2, LosePromptsTypes, NoStack
<1>7. Kept({})
  BY StayKeep
<1> QED  BY <1>2, <1>5, <1>6, <1>7, LosePromptsTypes DEF BridgeInv

LEMMA CrashKeeps ==
    ASSUME BridgeInv, Crash
    PROVE  /\ BridgeInv' /\ Kept({}) /\ Len(sess') = Len(sess)
           /\ \A i \in DOMAIN sess : ~sess'[i].sub /\ sess'[i].buf = <<>>
           /\ \A p \in PromptIds : prompt'[p] # "queued"
<1>1. sunk \in Seq(1..MaxEvents)
  BY DEF BridgeInv, DaemonTyped
<1> QED  BY <1>1, CrashedKeeps DEF Crash

LEMMA CrashBeforeAnswerKeeps ==
    ASSUME BridgeInv, NEW t \in Threads, CrashBeforeAnswer(t)
    PROVE  /\ BridgeInv' /\ Kept({}) /\ Len(sess') = Len(sess)
           /\ \A i \in DOMAIN sess : ~sess'[i].sub /\ sess'[i].buf = <<>>
           /\ \A p \in PromptIds : prompt'[p] # "queued"
           /\ sunk' = Append(sunk, Current(Top(t)).n)
           /\ Current(Top(t)).n \in 1..MaxEvents /\ InStack(stack[t], Current(Top(t)).n)
<1> DEFINE e == Current(Top(t))
<1>1. Working(t) /\ e.kind = "user"
  BY DEF CrashBeforeAnswer, Running, Working
<1>2. Top(t) \in FrameSet(Len(sess)) /\ Len(sess) \in Nat
  BY <1>1, AtWork DEF Top
<1>3. e \in Events \cup {NoEvent} /\ InFrame(Top(t), e.n)
  BY <1>2, CurrentTypes
<1>4. e.n \in 1..MaxEvents
  BY <1>1, <1>3, EventTypes
<1>5. Sink(sunk, e) = Append(sunk, e.n) /\ Sink(sunk, e) \in Seq(1..MaxEvents)
  <2>1. sunk \in Seq(1..MaxEvents)
    BY DEF BridgeInv, DaemonTyped
  <2> QED  BY <1>1, <1>3, <2>1, SinkTypes DEF Sink
<1>6. InStack(stack[t], e.n)
  <2>1. stack[t] # <<>> /\ stack[t] \in Seq(FrameSet(Len(sess)))
    BY <1>1, AtWork DEF Working
  <2> HIDE DEF e
  <2>2. InStack(stack[t], e.n) <=> InFrame(Head(stack[t]), e.n) \/ InStack(Tail(stack[t]), e.n)
    BY <1>2, <2>1, TopOf
  <2> QED  BY <1>3, <2>2 DEF Top
<1>7. /\ crashes < MaxCrashes /\ up' = FALSE /\ crashes' = crashes + 1
      /\ sess' = Crashed(sess) /\ recover' = 0
      /\ sidIndex' = [x \in DOMAIN sidIndex |-> 0] /\ sunk' = Sink(sunk, e)
      /\ prompt' = LosePrompts
      /\ UNCHANGED <<stalls, phase, id, sid, pending, dropped, emitted, stack>>
  BY DEF CrashBeforeAnswer
<1> HIDE DEF e
<1>8. /\ BridgeInv' /\ Kept({}) /\ Len(sess') = Len(sess)
      /\ \A i \in DOMAIN sess : ~sess'[i].sub /\ sess'[i].buf = <<>>
      /\ \A p \in PromptIds : prompt'[p] # "queued"
  BY <1>5, <1>7, CrashedKeeps
<1> QED  BY <1>4, <1>5, <1>6, <1>7, <1>8 DEF e

LEMMA RestartKeeps ==
    ASSUME BridgeInv, Restart
    PROVE  BridgeInv' /\ Kept({})
<1>1. DaemonTyped' /\ WrapperTyped' /\ StackTyped' /\ StackFits'
  BY DEF Restart, BridgeInv, DaemonTyped, WrapperTyped, StackTyped, StackFits
<1>2. Kept({})
  BY StayKeep DEF Restart
<1> QED  BY <1>1, <1>2 DEF BridgeInv

LEMMA InitShape == Init => BridgeInv
<1> SUFFICES ASSUME Init PROVE BridgeInv
  OBVIOUS
<1> DEFINE f == Frame("boot", "reg", <<>>, NoEvent)
<1>1. 0 \in Nat /\ sess = <<>> /\ Len(sess) = 0
  BY DEF Init
<1>2. f \in FrameSet(0) /\ FrameFits(f) /\ f.k = "boot"
  BY NewFrames
<1> HIDE DEF f
<1>3. /\ <<f>> \in Seq(FrameSet(0)) /\ Fits("main", <<f>>, "boot")
  BY <1>1, <1>2, IdleStack
<1>4. stack = [t \in Threads |-> IF t = "main" THEN <<f>> ELSE <<>>] /\ phase = "boot"
  BY DEF Init, f
<1>5. StackTyped
  <2>1. <<>> \in Seq(FrameSet(0))
    OBVIOUS
  <2> QED  BY <1>1, <1>3, <1>4, <2>1 DEF StackTyped
<1>6. StackFits
  <2>1. \A t \in Threads : Fits(t, <<>>, "boot")
    BY DEF Fits
  <2> QED  BY <1>3, <1>4, <2>1 DEF StackFits
<1>7. DaemonTyped
  <2>1. <<>> \in Seq(SessType) /\ <<>> \in Seq(1..MaxEvents) /\ 0 \in 0..0
    OBVIOUS
  <2>2. up \in BOOLEAN
    BY BridgeAssumption DEF Init
  <2>3. [x \in 1..MaxSids |-> 0] \in [1..MaxSids -> 0..0]
    BY <2>1
  <2> QED  BY <1>1, <2>1, <2>2, <2>3, ConstTypes DEF Init, DaemonTyped
<1>8. WrapperTyped
  <2>1. <<>> \in Seq(Events) /\ {} \subseteq 1..MaxEvents
    OBVIOUS
  <2>2. prompt \in [PromptIds -> {"new", "queued", "done"}]
    BY DEF Init
  <2> QED  BY <1>1, <2>1, <2>2, ConstTypes DEF Init, WrapperTyped
<1> QED  BY <1>5, <1>6, <1>7, <1>8 DEF BridgeInv

\* A step of the bridge: what it must preserve can be shown action by action.
LEMMA ShapeStep == BridgeInv /\ [Next]_vars => BridgeInv'
<1> SUFFICES ASSUME BridgeInv, [Next]_vars PROVE BridgeInv'
  OBVIOUS
<1>1. CASE \E t \in Threads : Retry(t) \/ Serve(t) \/ Unreachable(t) \/ Register(t)
  BY <1>1, RetryKeeps, ServeKeeps, UnreachableKeeps, RegisterKeeps
<1>2. CASE \E t \in Emitters : Emit(t)
  BY <1>2, EmitKeeps
<1>3. CASE Booted \/ Keepalive \/ Rotate \/ TypePrompt \/ StreamEnds
           \/ ClaudeExits \/ WrapperGone
  BY <1>3, BootedKeeps, KeepaliveKeeps, RotateKeeps, TypePromptKeeps, StreamEndsKeeps,
     ClaudeExitsKeeps, WrapperGoneKeeps
<1>4. CASE \E s \in DOMAIN sess : SessionEnded(s) \/ ReapStale(s)
  BY <1>4, SessionEndedKeeps, ReapStaleKeeps
<1>5. CASE RecoverySpawn \/ \E p \in PromptIds, x \in 1..MaxSids : InjectPrompt(p, x)
  BY <1>5, RecoverySpawnKeeps, InjectPromptKeeps
<1>6. CASE Crash \/ Restart \/ \E t \in Threads : CrashBeforeAnswer(t)
  BY <1>6, CrashKeeps, RestartKeeps, CrashBeforeAnswerKeeps
<1>7. CASE UNCHANGED vars
  BY <1>7 DEF vars, daemonVars, BridgeInv, DaemonTyped, WrapperTyped, StackTyped, StackFits
<1> QED  BY <1>1, <1>2, <1>3, <1>4, <1>5, <1>6, <1>7 DEF Next

-----------------------------------------------------------------------------
(* A prompt waits only where a stream reads.                               *)

Streaming == Running("in") /\ Top("in").st = "stream"

\* The one input subscription is that of the open stream, and only it holds prompts.
InputsRead ==
    \A s \in DOMAIN sess :
        /\ sess[s].sub => Streaming /\ Top("in").id = s
        /\ sess[s].buf # <<>> => sess[s].sub

QueuedWaits ==
    \A p \in PromptIds : prompt[p] = "queued" =>
        \E s \in DOMAIN sess : \E i \in DOMAIN sess[s].buf : sess[s].buf[i] = p

InputInv == InputsRead /\ QueuedWaits

\* A step that leaves the subscriptions and what they hold.
LEMMA InputStays ==
    ASSUME BridgeInv, InputInv, BridgeInv', prompt' = prompt,
           DOMAIN sess \subseteq DOMAIN sess',
           \A i \in DOMAIN sess : sess'[i].sub = sess[i].sub /\ sess'[i].buf = sess[i].buf,
           \A i \in DOMAIN sess' \ DOMAIN sess : ~sess'[i].sub /\ sess'[i].buf = <<>>,
           stack'["in"] = stack["in"] \/ ~Streaming
    PROVE  InputInv'
<1>1. InputsRead'
  <2> SUFFICES ASSUME NEW s \in DOMAIN sess'
               PROVE  /\ sess'[s].sub => Streaming' /\ Top("in")'.id = s
                      /\ sess'[s].buf # <<>> => sess'[s].sub
    BY DEF InputsRead
  <2>1. CASE s \notin DOMAIN sess
    BY <2>1
  <2>2. CASE s \in DOMAIN sess
    <3>1. /\ sess[s].sub => Streaming /\ Top("in").id = s
          /\ sess[s].buf # <<>> => sess[s].sub
      BY <2>2 DEF InputInv, InputsRead
    <3>2. CASE ~Streaming
      BY <2>2, <3>1, <3>2
    <3>3. CASE stack'["in"] = stack["in"]
      <4>1. (Streaming' <=> Streaming) /\ Top("in")' = Top("in")
        BY <3>3 DEF Streaming, Running, Top
      <4> QED  BY <2>2, <3>1, <4>1
    <3> QED  BY <3>2, <3>3
  <2> QED  BY <2>1, <2>2
<1>2. QueuedWaits'
  <2> SUFFICES ASSUME NEW p \in PromptIds, prompt[p] = "queued"
               PROVE  \E s \in DOMAIN sess' : \E i \in DOMAIN sess'[s].buf : sess'[s].buf[i] = p
    BY DEF QueuedWaits
  <2>1. PICK s \in DOMAIN sess : \E i \in DOMAIN sess[s].buf : sess[s].buf[i] = p
    BY DEF InputInv, QueuedWaits
  <2>2. s \in DOMAIN sess' /\ sess'[s].buf = sess[s].buf
    BY <2>1
  <2> QED  BY <2>1, <2>2
<1> QED  BY <1>1, <1>2 DEF InputInv

\* The same, where no session was registered.
LEMMA InputSame ==
    ASSUME BridgeInv, InputInv, BridgeInv', prompt' = prompt,
           sess' = sess \/ SameInputs(sess, sess'),
           stack'["in"] = stack["in"] \/ ~Streaming
    PROVE  InputInv'
<1>1. sess \in Seq(SessType)
  BY InvFacts
<1>2. DOMAIN sess' = DOMAIN sess
      /\ \A i \in DOMAIN sess : sess'[i].sub = sess[i].sub /\ sess'[i].buf = sess[i].buf
  BY <1>1 DEF SameInputs
<1> QED  BY <1>2, InputStays

\* Every stream was closed, and what waited is lost.
LEMMA InputReset ==
    ASSUME BridgeInv, Len(sess') = Len(sess), BridgeInv',
           \A i \in DOMAIN sess : ~sess'[i].sub /\ sess'[i].buf = <<>>,
           \A p \in PromptIds : prompt'[p] # "queued"
    PROVE  InputInv'
<1>1. DOMAIN sess' = DOMAIN sess
  <2>1. sess \in Seq(SessType) /\ sess' \in Seq(SessType)
    BY DEF BridgeInv, DaemonTyped
  <2> QED  BY <2>1
<1> QED  BY <1>1 DEF InputInv, InputsRead, QueuedWaits

\* A stream opens in the session the wrapper asked for.
LEMMA ServeInput ==
    ASSUME BridgeInv, InputInv, NEW t \in Threads, Serve(t)
    PROVE  InputInv'
<1>1. /\ BridgeInv' /\ Working(t) /\ Len(sess') = Len(sess)
      /\ \A u \in Threads : u # t => stack'[u] = stack[u]
      /\ \A i \in DOMAIN sess : sess'[i].buf = sess[i].buf
      /\ \A i \in DOMAIN sess : sess'[i].sub # sess[i].sub =>
             /\ Top(t).k = "in" /\ i = Served(t).id /\ sess[i].live
             /\ Known(Served(t).id) /\ Accepted(t, Served(t))
  BY ServeKeeps
<1>2. /\ Top(t).st # "stream" /\ prompt' = prompt
      /\ Top(t).k # "emit" => Top(t).st = "send"
  BY DEF Serve
<1>3. sess \in Seq(SessType) /\ sess' \in Seq(SessType) /\ DOMAIN sess' = DOMAIN sess
  <2>1. sess \in Seq(SessType) /\ sess' \in Seq(SessType)
    BY <1>1 DEF BridgeInv, DaemonTyped
  <2> QED  BY <1>1, <2>1
<1>4. "in" \in Threads
  BY ConstTypes
<1>5. stack'["in"] = stack["in"] \/ ~Streaming
  BY <1>1, <1>2, <1>4 DEF Streaming
<1>6. CASE \A i \in DOMAIN sess : sess'[i].sub = sess[i].sub
  BY <1>1, <1>2, <1>3, <1>5, <1>6, InputStays
<1>7. CASE \E i \in DOMAIN sess : sess'[i].sub # sess[i].sub
  <2> DEFINE s == Served(t).id
             f == [Served(t) EXCEPT !.st = "stream"]
             r == <<f>> \o Tail(stack[t])
  <2>1. /\ Top(t).k = "in" /\ s \in DOMAIN sess /\ sess[s].live
        /\ Accepted(t, Served(t))
    BY <1>1, <1>7
  <2>2. t = "in"
    <3>1. stack[t] \in Seq(FrameSet(Len(sess))) /\ stack[t] # <<>> /\ Fits(t, stack[t], phase)
      BY <1>1, AtWork DEF Working
    <3>2. Top(t) = stack[t][1] /\ 1 \in DOMAIN stack[t]
      BY <3>1 DEF Top
    <3> QED  BY <2>1, <3>1, <3>2 DEF Fits
  <2>3. ~Streaming
    BY <1>2, <2>2 DEF Streaming
  <2>4. \A i \in DOMAIN sess : ~sess[i].sub /\ sess[i].buf = <<>>
    BY <2>3 DEF InputInv, InputsRead
  <2>5. Served(t) \in FrameSet(Len(sess)) /\ Served(t).k = "in"
    BY <1>1, <2>1, ServedFrame
  <2>6. SetHead(t, f)
    BY <2>1, <2>5 DEF Accepted
  <2>7. f.st = "stream" /\ f.id = s
    BY <2>5 DEF FrameSet
  <2>8. stack' = [stack EXCEPT ![t] = Build(r, id)]
    BY <2>6 DEF SetHead, Continue
  <2> HIDE DEF f
  <2>9. r # <<>> /\ Head(r) = f
    <3>1. Tail(stack[t]) \in Seq(FrameSet(Len(sess)))
      BY <1>1, AtWork
    <3> QED  BY <3>1
  <2> HIDE DEF r
  <2>10. Build(r, id) = r
    BY <2>7, <2>9 DEF Build
  <2>11. stack'["in"] = r
    BY <1>4, <2>2, <2>8, <2>10, InvFacts
  <2>12. Streaming' /\ Top("in")'.id = s
    BY <2>7, <2>9, <2>11 DEF Streaming, Running, Top
  <2>13. \A i \in DOMAIN sess : i # s => ~sess'[i].sub
    BY <1>1, <2>4
  <2>14. \A i \in DOMAIN sess : sess'[i].buf = <<>>
    BY <1>1, <2>4
  <2>15. InputsRead'
    BY <1>3, <2>12, <2>13, <2>14 DEF InputsRead
  <2>16. QueuedWaits'
    <3>1. \A p \in PromptIds : prompt[p] # "queued"
      <4> SUFFICES ASSUME NEW p \in PromptIds, prompt[p] = "queued" PROVE FALSE
        OBVIOUS
      <4>1. PICK i \in DOMAIN sess : \E j \in DOMAIN sess[i].buf : sess[i].buf[j] = p
        BY DEF InputInv, QueuedWaits
      <4>2. sess[i].buf = <<>>
        BY <2>4
      <4> QED  BY <4>1, <4>2
    <3> QED  BY <1>2, <3>1 DEF QueuedWaits
  <2> QED  BY <2>15, <2>16 DEF InputInv
<1> QED  BY <1>6, <1>7

LEMMA TypePromptInput ==
    ASSUME BridgeInv, InputInv, TypePrompt
    PROVE  InputInv'
<1> DEFINE s == Top("in").id
           b == sess[s].buf
<1>1. /\ BridgeInv' /\ Len(sess') = Len(sess) /\ Streaming /\ b # <<>>
      /\ b \in Seq(PromptIds)
      /\ \A i \in DOMAIN sess :
             /\ sess'[i].sub = sess[i].sub
             /\ sess'[i].buf = IF i = s THEN Tail(sess[i].buf) ELSE sess[i].buf
      /\ prompt' = [prompt EXCEPT ![Head(b)] = "done"]
  BY TypePromptKeeps DEF Streaming
<1>2. stack' = stack
  BY DEF TypePrompt
<1>3. s \in DOMAIN sess /\ DOMAIN sess' = DOMAIN sess
  <2>1. sess \in Seq(SessType) /\ sess' \in Seq(SessType)
    BY <1>1 DEF BridgeInv, DaemonTyped
  <2>2. s \in DOMAIN sess
    BY <1>1, StreamFacts DEF Streaming
  <2> QED  BY <1>1, <2>1, <2>2
<1>4. sess[s].sub
  BY <1>1, <1>3 DEF InputInv, InputsRead
<1>5. (Streaming' <=> Streaming) /\ Top("in")' = Top("in")
  BY <1>2 DEF Streaming, Running, Top
<1> HIDE DEF s, b
<1>6. InputsRead'
  <2> SUFFICES ASSUME NEW i \in DOMAIN sess
               PROVE  /\ sess'[i].sub => Streaming' /\ Top("in")'.id = i
                      /\ sess'[i].buf # <<>> => sess'[i].sub
    BY <1>3 DEF InputsRead
  <2>1. /\ sess[i].sub => Streaming /\ Top("in").id = i
        /\ sess[i].buf # <<>> => sess[i].sub
    BY DEF InputInv, InputsRead
  <2>2. CASE i = s
    BY <1>1, <1>4, <1>5, <2>1, <2>2
  <2>3. CASE i # s
    BY <1>1, <1>5, <2>1, <2>3
  <2> QED  BY <2>2, <2>3
<1>7. QueuedWaits'
  <2> SUFFICES ASSUME NEW p \in PromptIds, prompt'[p] = "queued"
               PROVE  \E i \in DOMAIN sess' : \E j \in DOMAIN sess'[i].buf : sess'[i].buf[j] = p
    BY DEF QueuedWaits
  <2>1. p # Head(b) /\ prompt[p] = "queued"
    <3>1. DOMAIN prompt = PromptIds /\ Head(b) \in PromptIds
      BY <1>1 DEF BridgeInv, WrapperTyped
    <3> QED  BY <1>1, <3>1
  <2>2. PICK i \in DOMAIN sess : \E j \in DOMAIN sess[i].buf : sess[i].buf[j] = p
    BY <2>1 DEF InputInv, QueuedWaits
  <2>3. CASE i # s
    BY <1>1, <1>3, <2>2, <2>3
  <2>4. CASE i = s
    <3>1. sess[i].buf = b /\ sess'[i].buf = Tail(b) /\ i \in DOMAIN sess'
      BY <1>1, <1>3, <2>4 DEF b
    <3>2. PICK j \in 1..Len(b) : b[j] = p /\ b[1] = Head(b)
      BY <1>1, <2>2, <3>1
    <3>3. j # 1
      BY <2>1, <3>2
    <3>4. j - 1 \in DOMAIN Tail(b) /\ Tail(b)[j - 1] = p
      BY <1>1, <3>2, <3>3
    <3> QED  BY <3>1, <3>4
  <2> QED  BY <2>3, <2>4
<1> QED  BY <1>6, <1>7 DEF InputInv

LEMMA StreamEndsInput ==
    ASSUME BridgeInv, InputInv, StreamEnds
    PROVE  InputInv'
<1> DEFINE s == Top("in").id
<1>1. /\ BridgeInv' /\ Len(sess') = Len(sess)
      /\ \A i \in DOMAIN sess :
             /\ sess'[i].buf = sess[i].buf
             /\ sess'[i].sub = IF i = s THEN FALSE ELSE sess[i].sub
      /\ sess[s].buf = <<>>
  BY StreamEndsKeeps
<1>3. \A i \in DOMAIN sess : ~sess'[i].sub /\ sess[i].buf = <<>>
  BY <1>1 DEF InputInv, InputsRead
<1>4. prompt' = prompt
  BY DEF StreamEnds
<1>5. \A p \in PromptIds : prompt[p] # "queued"
  <2> SUFFICES ASSUME NEW p \in PromptIds, prompt[p] = "queued" PROVE FALSE
    OBVIOUS
  <2>1. PICK i \in DOMAIN sess : \E j \in DOMAIN sess[i].buf : sess[i].buf[j] = p
    BY DEF InputInv, QueuedWaits
  <2>2. sess[i].buf = <<>>
    BY <1>3
  <2> QED  BY <2>1, <2>2
<1> QED  BY <1>1, <1>3, <1>4, <1>5, InputReset

LEMMA InjectPromptInput ==
    ASSUME BridgeInv, InputInv, NEW p \in PromptIds, NEW x \in 1..MaxSids, InjectPrompt(p, x)
    PROVE  InputInv'
<1>1. /\ BridgeInv' /\ Len(sess') = Len(sess)
      /\ \/ sess' = sess /\ prompt' = [prompt EXCEPT ![p] = "done"]
         \/ /\ prompt' = [prompt EXCEPT ![p] = "queued"]
            /\ \E s \in DOMAIN sess :
                 /\ sess[s].sub /\ sess[s].buf \in Seq(PromptIds)
                 /\ \A i \in DOMAIN sess :
                       /\ sess'[i].sub = sess[i].sub
                       /\ sess'[i].buf = IF i = s THEN Append(sess[i].buf, p) ELSE sess[i].buf
  BY InjectPromptKeeps
<1>2. stack' = stack /\ DOMAIN prompt = PromptIds
  BY DEF InjectPrompt, BridgeInv, WrapperTyped
<1>3. DOMAIN sess' = DOMAIN sess
  <2>1. sess \in Seq(SessType) /\ sess' \in Seq(SessType)
    BY <1>1 DEF BridgeInv, DaemonTyped
  <2> QED  BY <1>1, <2>1
<1>4. (Streaming' <=> Streaming) /\ Top("in")' = Top("in")
  BY <1>2 DEF Streaming, Running, Top
<1>5. CASE sess' = sess /\ prompt' = [prompt EXCEPT ![p] = "done"]
  <2>1. InputsRead'
    BY <1>4, <1>5 DEF InputInv, InputsRead
  <2>2. \A q \in PromptIds : prompt'[q] = "queued" => prompt[q] = "queued"
    BY <1>2, <1>5
  <2>3. QueuedWaits'
    BY <1>5, <2>2 DEF InputInv, QueuedWaits
  <2> QED  BY <2>1, <2>3 DEF InputInv
<1>6. CASE ~(sess' = sess /\ prompt' = [prompt EXCEPT ![p] = "done"])
  <2>1. PICK s \in DOMAIN sess :
            /\ sess[s].sub /\ sess[s].buf \in Seq(PromptIds)
            /\ \A i \in DOMAIN sess :
                  /\ sess'[i].sub = sess[i].sub
                  /\ sess'[i].buf = IF i = s THEN Append(sess[i].buf, p) ELSE sess[i].buf
    BY <1>1, <1>6
  <2>2. prompt' = [prompt EXCEPT ![p] = "queued"]
    BY <1>1, <1>6
  <2>3. InputsRead'
    BY <1>3, <1>4, <2>1 DEF InputInv, InputsRead
  <2>4. QueuedWaits'
    <3> SUFFICES ASSUME NEW q \in PromptIds, prompt'[q] = "queued"
                 PROVE  \E i \in DOMAIN sess : \E j \in DOMAIN sess'[i].buf : sess'[i].buf[j] = q
      BY <1>3 DEF QueuedWaits
    <3> DEFINE b == sess[s].buf
    <3>1. /\ b \in Seq(PromptIds) /\ sess'[s].buf = Append(b, p)
          /\ Len(b) + 1 \in DOMAIN Append(b, p) /\ Append(b, p)[Len(b) + 1] = p
          /\ \A j \in DOMAIN b : j \in DOMAIN Append(b, p) /\ Append(b, p)[j] = b[j]
      <4>1. b \in Seq(PromptIds) /\ sess'[s].buf = Append(b, p)
        BY <2>1
      <4> HIDE DEF b
      <4> QED  BY <4>1
    <3> HIDE DEF b
    <3>2. CASE q = p
      BY <2>1, <3>1, <3>2
    <3>3. CASE q # p
      <4>1. prompt[q] = "queued"
        BY <1>2, <2>2, <3>3
      <4>2. PICK i \in DOMAIN sess : \E j \in DOMAIN sess[i].buf : sess[i].buf[j] = q
        BY <4>1 DEF InputInv, QueuedWaits
      <4>3. CASE i = s
        BY <2>1, <3>1, <4>2, <4>3 DEF b
      <4>4. CASE i # s
        BY <2>1, <4>2, <4>4
      <4> QED  BY <4>3, <4>4
    <3> QED  BY <3>2, <3>3
  <2> QED  BY <2>3, <2>4 DEF InputInv
<1> QED  BY <1>5, <1>6

\* A session is registered: no stream reads it yet.
LEMMA AppendInput ==
    ASSUME BridgeInv, InputInv, BridgeInv', prompt' = prompt,
           NEW d \in {"pty", "sdk"}, NEW x \in 0..MaxSids,
           sess' = Append(sess, Fresh(d, x)),
           stack'["in"] = stack["in"] \/ ~Streaming
    PROVE  InputInv'
<1>1. /\ \A i \in DOMAIN sess : sess'[i] = sess[i]
      /\ DOMAIN sess' = 1..(Len(sess) + 1)
      /\ sess'[Len(sess) + 1].sub = FALSE /\ sess'[Len(sess) + 1].buf = <<>>
  BY InvFacts, RegisterTypes
<1>2. DOMAIN sess = 1..Len(sess) /\ Len(sess) \in Nat
  <2>1. sess \in Seq(SessType)
    BY InvFacts
  <2> QED  BY <2>1
<1>3. DOMAIN sess \subseteq DOMAIN sess'
      /\ \A i \in DOMAIN sess' \ DOMAIN sess : i = Len(sess) + 1
  BY <1>1, <1>2
<1> QED  BY <1>1, <1>3, InputStays

LEMMA ThreadsInput ==
    ASSUME BridgeInv, InputInv, NEW t \in Threads,
           Retry(t) \/ Serve(t) \/ Unreachable(t) \/ Register(t)
    PROVE  InputInv'
<1>1. CASE Retry(t)
  <2>1. BridgeInv' /\ prompt' = prompt /\ sess' = sess
    BY <1>1, RetryKeeps DEF Retry, daemonVars
  <2>2. stack'["in"] = stack["in"] \/ ~Streaming
    <3>1. Top(t).st = "send" /\ (t # "in" => stack'["in"] = stack["in"])
      BY <1>1, RetryFrame, InvFacts, ConstTypes DEF Retry
    <3> QED  BY <3>1 DEF Streaming
  <2> QED  BY <2>1, <2>2, InputSame
<1>2. CASE Serve(t)
  BY <1>2, ServeInput
<1>3. CASE Unreachable(t)
  <2>1. /\ BridgeInv' /\ prompt' = prompt /\ sess' = sess
        /\ \A u \in Threads : u # t => stack'[u] = stack[u]
        /\ Top(t).st # "stream"
    BY <1>3, UnreachableKeeps DEF Unreachable, daemonVars
  <2>2. stack'["in"] = stack["in"] \/ ~Streaming
    BY <2>1, ConstTypes DEF Streaming
  <2> QED  BY <2>1, <2>2, InputSame
<1>4. CASE Register(t)
  <2>1. /\ BridgeInv' /\ prompt' = prompt /\ sess' = Append(sess, Fresh("pty", 0))
        /\ \A u \in Threads : u # t => stack'[u] = stack[u]
        /\ Top(t).st # "stream"
    BY <1>4, RegisterKeeps DEF Register, RegisterExternal
  <2>2. stack'["in"] = stack["in"] \/ ~Streaming
    BY <2>1, ConstTypes DEF Streaming
  <2>3. 0 \in 0..MaxSids
    BY ConstTypes
  <2> QED  BY <2>1, <2>2, <2>3, AppendInput
<1> QED  BY <1>1, <1>2, <1>3, <1>4

LEMMA WrapperInput ==
    ASSUME BridgeInv, InputInv,
           \/ \E t \in Emitters : Emit(t)
           \/ Booted \/ Keepalive \/ Rotate \/ TypePrompt \/ StreamEnds
           \/ ClaudeExits \/ WrapperGone
    PROVE  InputInv'
<1>1. CASE \E t \in Emitters : Emit(t)
  <2>1. PICK t \in Emitters : Emit(t)
    BY <1>1
  <2>2. BridgeInv' /\ stack'["in"] = stack["in"] /\ sess' = sess /\ prompt' = prompt
    BY <2>1, EmitKeeps, ConstTypes DEF Emit, daemonVars
  <2> QED  BY <2>2, InputSame
<1>2. CASE Booted
  <2>1. BridgeInv' /\ stack["in"] = <<>> /\ sess' = sess /\ prompt' = prompt
    BY <1>2, BootedKeeps DEF Booted, daemonVars
  <2>2. ~Streaming
    BY <2>1 DEF Streaming, Running
  <2> QED  BY <2>1, <2>2, InputSame
<1>3. CASE Keepalive
  <2>1. BridgeInv' /\ stack'["in"] = stack["in"] /\ sess' = sess /\ prompt' = prompt
    BY <1>3, KeepaliveKeeps, InvFacts, ConstTypes DEF Keepalive, daemonVars
  <2> QED  BY <2>1, InputSame
<1>4. CASE Rotate
  <2>1. BridgeInv' /\ stack'["in"] = stack["in"] /\ sess' = sess /\ prompt' = prompt
    BY <1>4, RotateKeeps DEF Rotate, daemonVars
  <2> QED  BY <2>1, InputSame
<1>5. CASE TypePrompt
  BY <1>5, TypePromptInput
<1>6. CASE StreamEnds
  BY <1>6, StreamEndsInput
<1>7. CASE ClaudeExits
  <2>1. BridgeInv' /\ stack'["in"] = stack["in"] /\ sess' = sess /\ prompt' = prompt
    BY <1>7, ClaudeExitsKeeps, InvFacts, ConstTypes DEF ClaudeExits, daemonVars
  <2> QED  BY <2>1, InputSame
<1>8. CASE WrapperGone
  BY <1>8, WrapperGoneKeeps, InputReset
<1> QED  BY <1>1, <1>2, <1>3, <1>4, <1>5, <1>6, <1>7, <1>8

LEMMA DaemonInput ==
    ASSUME BridgeInv, InputInv,
           \/ \E s \in DOMAIN sess : SessionEnded(s) \/ ReapStale(s)
           \/ RecoverySpawn
           \/ \E p \in PromptIds, x \in 1..MaxSids : InjectPrompt(p, x)
           \/ Crash \/ Restart
           \/ \E t \in Threads : CrashBeforeAnswer(t)
    PROVE  InputInv'
<1>1. CASE \E s \in DOMAIN sess : SessionEnded(s) \/ ReapStale(s)
  <2>1. BridgeInv' /\ SameInputs(sess, sess')
    BY <1>1, SessionEndedKeeps, ReapStaleKeeps
  <2>2. stack' = stack /\ prompt' = prompt
    BY <1>1 DEF SessionEnded, ReapStale
  <2> QED  BY <2>1, <2>2, InputSame
<1>2. CASE RecoverySpawn
  <2>1. /\ BridgeInv' /\ sess' = Append(sess, Fresh("sdk", recover))
        /\ stack' = stack /\ prompt' = prompt
    BY <1>2, RecoverySpawnKeeps DEF RecoverySpawn
  <2>2. recover \in 0..MaxSids
    BY DEF BridgeInv, DaemonTyped
  <2> QED  BY <2>1, <2>2, AppendInput
<1>3. CASE \E p \in PromptIds, x \in 1..MaxSids : InjectPrompt(p, x)
  BY <1>3, InjectPromptInput
<1>4. CASE Crash
  BY <1>4, CrashKeeps, InputReset
<1>5. CASE Restart
  <2>1. BridgeInv' /\ stack' = stack /\ sess' = sess /\ prompt' = prompt
    BY <1>5, RestartKeeps DEF Restart
  <2> QED  BY <2>1, InputSame
<1>6. CASE \E t \in Threads : CrashBeforeAnswer(t)
  BY <1>6, CrashBeforeAnswerKeeps, InputReset
<1> QED  BY <1>1, <1>2, <1>3, <1>4, <1>5, <1>6

LEMMA InputStep == BridgeInv /\ InputInv /\ [Next]_vars => InputInv'
<1> SUFFICES ASSUME BridgeInv, InputInv, [Next]_vars PROVE InputInv'
  OBVIOUS
<1>1. CASE \E t \in Threads : Retry(t) \/ Serve(t) \/ Unreachable(t) \/ Register(t)
  BY <1>1, ThreadsInput
<1>2. CASE \/ \E t \in Emitters : Emit(t)
           \/ Booted \/ Keepalive \/ Rotate \/ TypePrompt \/ StreamEnds
           \/ ClaudeExits \/ WrapperGone
  BY <1>2, WrapperInput
<1>3. CASE \/ \E s \in DOMAIN sess : SessionEnded(s) \/ ReapStale(s)
           \/ RecoverySpawn
           \/ \E p \in PromptIds, x \in 1..MaxSids : InjectPrompt(p, x)
           \/ Crash \/ Restart
           \/ \E t \in Threads : CrashBeforeAnswer(t)
  BY <1>3, DaemonInput
<1>4. CASE UNCHANGED vars
  BY <1>4 DEF vars, daemonVars, InputInv, InputsRead, QueuedWaits, Streaming, Running, Top
<1> QED  BY <1>1, <1>2, <1>3, <1>4 DEF Next

LEMMA InitInput == Init => InputInv
<1> SUFFICES ASSUME Init PROVE InputInv
  OBVIOUS
<1>1. DOMAIN sess = {}
  BY DEF Init
<1>2. \A p \in PromptIds : prompt[p] # "queued"
  BY DEF Init
<1> QED  BY <1>1, <1>2 DEF InputInv, InputsRead, QueuedWaits

\* A prompt of the web that is accepted waits in the session whose stream the
\* wrapper reads (SendInput, readInputs, the handler of the input stream).
THEOREM QueuedIsReadAlways == Spec => []QueuedIsRead
<1>1. BridgeInv /\ InputInv => QueuedIsRead
  <2> SUFFICES ASSUME BridgeInv, InputInv, NEW p \in PromptIds, prompt[p] = "queued"
               PROVE  /\ phase \in {"run", "exit"}
                      /\ Running("in") /\ Top("in").st = "stream"
                      /\ \E i \in DOMAIN sess[Top("in").id].buf :
                             sess[Top("in").id].buf[i] = p
    BY DEF QueuedIsRead
  <2>1. PICK s \in DOMAIN sess : \E i \in DOMAIN sess[s].buf : sess[s].buf[i] = p
    BY DEF InputInv, QueuedWaits
  <2>2. sess[s].buf # <<>>
    BY <2>1
  <2>3. Streaming /\ Top("in").id = s
    BY <2>2 DEF InputInv, InputsRead
  <2>4. phase \in {"run", "exit"}
    BY <2>3, ConstTypes, InvFacts DEF Streaming, Running, Fits
  <2> QED  BY <2>1, <2>3, <2>4 DEF Streaming
<1>2. Init => BridgeInv /\ InputInv
  BY InitShape, InitInput
<1>3. BridgeInv /\ InputInv /\ [Next]_vars => (BridgeInv /\ InputInv)'
  BY ShapeStep, InputStep
<1> QED  BY <1>1, <1>2, <1>3, PTL DEF Spec

-----------------------------------------------------------------------------
(* What the daemon was handed.                                             *)

InSunk(n) == \E i \in DOMAIN sunk : sunk[i] = n

EventFacts(n) ==
    /\ Single(n)
    /\ Held(n) => n <= emitted
    /\ InSunk(n) => n <= emitted
    /\ Held(n) => Sinks(n) <= crashes
    /\ Sinks(n) <= 1 + crashes
    /\ phase # "gone" /\ n <= emitted /\ ~Held(n) => n \in dropped \/ InSunk(n)

\* An event that is held was handed over only to daemons that died, and one that
\* is not was handed over once more than that, or left a full queue.
EventInv == \A n \in Nat \ {0} : EventFacts(n)

\* How often n is in q.
Times(q, n) == Cardinality({i \in DOMAIN q : q[i] = n})
Among(q, n) == \E i \in DOMAIN q : q[i] = n

LEMMA SinksTypes ==
    ASSUME NEW q \in Seq(Nat), NEW n
    PROVE  /\ IsFiniteSet({i \in DOMAIN q : q[i] = n})
           /\ Times(q, n) \in Nat
<1>1. DOMAIN q = 1..Len(q) /\ Len(q) \in Nat
  OBVIOUS
<1>2. IsFiniteSet(1..Len(q))
  BY <1>1, FS_Interval
<1>3. {i \in DOMAIN q : q[i] = n} \subseteq 1..Len(q)
  BY <1>1
<1>4. IsFiniteSet({i \in DOMAIN q : q[i] = n})
  BY <1>2, <1>3, FS_Subset
<1> QED  BY <1>4, FS_CardinalityType DEF Times

\* The event k is handed over.
LEMMA SinksAppend ==
    ASSUME NEW q \in Seq(Nat), NEW k \in Nat, NEW n
    PROVE  /\ k = n => Times(Append(q, k), n) = Times(q, n) + 1
           /\ k # n => Times(Append(q, k), n) = Times(q, n)
           /\ Among(Append(q, k), n) <=> k = n \/ Among(q, n)
<1> DEFINE r == Append(q, k)
           A == {i \in DOMAIN q : q[i] = n}
           B == {i \in DOMAIN r : r[i] = n}
<1>1. /\ DOMAIN q = 1..Len(q) /\ Len(q) \in Nat /\ DOMAIN r = 1..(Len(q) + 1)
      /\ r[Len(q) + 1] = k /\ \A i \in DOMAIN q : r[i] = q[i]
  OBVIOUS
<1> HIDE DEF r
<1>2. \A i \in DOMAIN r : i \in DOMAIN q \/ i = Len(q) + 1
  BY <1>1
<1>3. DOMAIN q \subseteq DOMAIN r /\ Len(q) + 1 \in DOMAIN r /\ Len(q) + 1 \notin DOMAIN q
  BY <1>1
<1>4. k = n => B = A \cup {Len(q) + 1}
  BY <1>1, <1>2, <1>3
<1>5. k # n => B = A
  BY <1>1, <1>2, <1>3
<1>6. Len(q) + 1 \notin A
  BY <1>3
<1>7. IsFiniteSet(A)
  BY SinksTypes
<1> HIDE DEF A, B
<1>8. k = n => Cardinality(B) = Cardinality(A) + 1
  BY <1>4, <1>6, <1>7, FS_AddElement
<1>9. Among(r, n) <=> k = n \/ Among(q, n)
  BY <1>1, <1>2, <1>3 DEF Among
<1>10. Times(r, n) = Cardinality(B) /\ Times(q, n) = Cardinality(A)
  BY DEF Times, A, B
<1> QED  BY <1>5, <1>8, <1>9, <1>10 DEF r

LEMMA SinksIn ==
    ASSUME sunk \in Seq(Nat), NEW k \in Nat, sunk' = Append(sunk, k), NEW n
    PROVE  /\ k = n => Sinks(n)' = Sinks(n) + 1
           /\ k # n => Sinks(n)' = Sinks(n)
           /\ InSunk(n)' <=> k = n \/ InSunk(n)
<1>1. Sinks(n) = Times(sunk, n) /\ Sinks(n)' = Times(sunk', n)
  BY DEF Sinks, Times
<1>2. (InSunk(n) <=> Among(sunk, n)) /\ (InSunk(n)' <=> Among(sunk', n))
  BY DEF InSunk, Among
<1>3. /\ k = n => Times(sunk', n) = Times(sunk, n) + 1
      /\ k # n => Times(sunk', n) = Times(sunk, n)
      /\ Among(sunk', n) <=> k = n \/ Among(sunk, n)
  BY SinksAppend
<1> QED  BY <1>1, <1>2, <1>3

LEMMA NumberTypes ==
    ASSUME BridgeInv
    PROVE  /\ sunk \in Seq(Nat) /\ crashes \in Nat /\ emitted \in Nat
           /\ \A n : Sinks(n) \in Nat
<1>1. sunk \in Seq(1..MaxEvents) /\ crashes \in 0..MaxCrashes /\ emitted \in 0..MaxEvents
  BY DEF BridgeInv, DaemonTyped, WrapperTyped
<1>2. 1..MaxEvents \subseteq Nat
  OBVIOUS
<1>3. sunk \in Seq(Nat)
  <2>1. \A S : S \subseteq Nat => Seq(S) \subseteq Seq(Nat)
    <3> SUFFICES ASSUME NEW S, S \subseteq Nat, NEW q \in Seq(S)
                 PROVE  q \in Seq(Nat)
      OBVIOUS
    <3>1. \A i \in 1..Len(q) : q[i] \in S
      OBVIOUS
    <3>2. \A i \in 1..Len(q) : q[i] \in Nat
      BY <3>1
    <3>3. q = [i \in 1..Len(q) |-> q[i]] /\ Len(q) \in Nat
      OBVIOUS
    <3> QED  BY <3>2, <3>3
  <2> QED  BY <1>1, <1>2, <2>1
<1>4. \A n : Sinks(n) = Times(sunk, n)
  BY DEF Sinks, Times
<1>5. crashes \in Nat /\ emitted \in Nat
  BY <1>1, ConstTypes
<1> QED  BY <1>3, <1>4, <1>5, SinksTypes

\* A step that hands nothing over.
LEMMA EventStays ==
    ASSUME BridgeInv, EventInv, BridgeInv', Kept({}), sunk' = sunk,
           crashes' \in {crashes, crashes + 1},
           emitted' = emitted, dropped \subseteq dropped', phase' # "gone" => phase # "gone"
    PROVE  EventInv'
<1> SUFFICES ASSUME NEW n \in Nat \ {0} PROVE EventFacts(n)'
  BY DEF EventInv
<1>1. EventFacts(n)
  BY DEF EventInv
<1>2. /\ Single(n)' /\ (Held(n)' => Held(n))
      /\ Held(n) => Held(n)' \/ n \in dropped'
  BY <1>1 DEF Kept, EventFacts
<1>3. Sinks(n)' = Sinks(n) /\ (InSunk(n)' <=> InSunk(n))
  BY DEF Sinks, InSunk
<1>4. Sinks(n) \in Nat /\ crashes \in Nat
  BY NumberTypes
<1>5. Held(n)' => n <= emitted'
  BY <1>1, <1>2 DEF EventFacts
<1>6. InSunk(n)' => n <= emitted'
  BY <1>1, <1>3 DEF EventFacts
<1>7. Sinks(n) <= 1 + crashes /\ (Held(n) => Sinks(n) <= crashes)
  BY <1>1 DEF EventFacts
<1>8. Sinks(n)' <= 1 + crashes' /\ (Held(n) => Sinks(n)' <= crashes')
  BY <1>3, <1>4, <1>7
<1>9. phase' # "gone" /\ n <= emitted' /\ ~Held(n)' => n \in dropped' \/ InSunk(n)'
  BY <1>1, <1>2, <1>3 DEF EventFacts
<1> QED  BY <1>2, <1>5, <1>6, <1>8, <1>9 DEF EventFacts

LEMMA ServeEvent ==
    ASSUME BridgeInv, EventInv, NEW t \in Threads, Serve(t)
    PROVE  EventInv'
<1> DEFINE e == Current(Top(t))
<1>1. /\ BridgeInv' /\ Goes(t, Given(t)) /\ Kept(Given(t)) /\ Working(t)
      /\ dropped \subseteq dropped'
      /\ sunk' = IF Top(t).k = "emit" /\ Known(Served(t).id)
                 THEN Sink(sunk, e) ELSE sunk
  BY ServeKeeps
<1>2. crashes' = crashes /\ emitted' = emitted /\ phase' = phase
  BY DEF Serve
<1>3. CASE Top(t).k = "emit" /\ Known(Served(t).id) /\ e.kind = "user"
  <2> HIDE DEF e
  <2>0. PICK k : k = e.n
    OBVIOUS
  <2>1. Given(t) = {k} /\ sunk' = Append(sunk, k)
    BY <1>1, <1>3, <2>0 DEF Given, Sink, e
  <2>2. Top(t) \in FrameSet(Len(sess)) /\ Len(sess) \in Nat
    BY <1>1, AtWork DEF Top
  <2>3. e \in Events \cup {NoEvent} /\ InFrame(Top(t), k)
    BY <2>0, <2>2, CurrentTypes DEF e
  <2>4. k \in Nat \ {0}
    BY <1>3, <2>0, <2>3, EventTypes
  <2>5. InStack(stack[t], k)
    <3>1. stack[t] # <<>> /\ stack[t] \in Seq(FrameSet(Len(sess)))
      BY <1>1, AtWork DEF Working
    <3>2. InStack(stack[t], k) <=> InFrame(Head(stack[t]), k) \/ InStack(Tail(stack[t]), k)
      BY <2>2, <3>1, TopOf
    <3> QED  BY <2>3, <3>2 DEF Top
  <2>6. Held(k)
    BY <2>5 DEF Held
  <2>7. Single(k)
    BY <2>4 DEF EventInv, EventFacts
  <2>8. ~Held(k)'
    <3>1. Goes(t, {k}) /\ k \in {k}
      BY <1>1, <2>1
    <3> QED  BY <1>1, <2>4, <2>5, <2>7, <3>1, GoesEffect
  <2> SUFFICES ASSUME NEW n \in Nat \ {0} PROVE EventFacts(n)'
    BY DEF EventInv
  <2>9. EventFacts(n)
    BY DEF EventInv
  <2>10. /\ Single(n)' /\ (Held(n)' => Held(n))
         /\ Held(n) => Held(n)' \/ n = k \/ n \in dropped'
    BY <1>1, <2>1, <2>9 DEF Kept, EventFacts
  <2>11. /\ sunk \in Seq(Nat) /\ crashes \in Nat /\ Sinks(n) \in Nat
    BY NumberTypes
  <2>12. /\ k = n => Sinks(n)' = Sinks(n) + 1
         /\ k # n => Sinks(n)' = Sinks(n)
         /\ InSunk(n)' <=> k = n \/ InSunk(n)
    BY <2>1, <2>4, <2>11, SinksIn
  <2>13. Sinks(n) <= 1 + crashes /\ (Held(n) => Sinks(n) <= crashes)
    BY <2>9 DEF EventFacts
  <2>14. Sinks(n)' <= 1 + crashes'
    BY <1>2, <2>6, <2>11, <2>12, <2>13
  <2>15. Held(n)' => Sinks(n)' <= crashes'
    <3>1. Held(n)' => n # k
      BY <2>8
    <3> QED  BY <1>2, <2>10, <2>12, <2>13, <3>1
  <2>16. (Held(n)' => n <= emitted') /\ (InSunk(n)' => n <= emitted')
    BY <1>2, <2>6, <2>9, <2>10, <2>12 DEF EventFacts
  <2>17. phase' # "gone" /\ n <= emitted' /\ ~Held(n)' => n \in dropped' \/ InSunk(n)'
    BY <1>1, <1>2, <2>9, <2>10, <2>12 DEF EventFacts
  <2> QED  BY <2>10, <2>14, <2>15, <2>16, <2>17 DEF EventFacts
<1>4. CASE ~(Top(t).k = "emit" /\ Known(Served(t).id) /\ e.kind = "user")
  <2>1. sunk' = sunk
    BY <1>1, <1>4 DEF Sink
  <2>2. Given(t) \subseteq {0}
    <3>1. Top(t) \in FrameSet(Len(sess)) /\ Len(sess) \in Nat
      BY <1>1, AtWork DEF Top
    <3>2. e \in Events \cup {NoEvent}
      BY <3>1, CurrentTypes
    <3>3. e.kind # "user" => e.n = 0
      BY <3>2, EventTypes
    <3> QED  BY <1>4, <3>3 DEF Given
  <2>3. Kept({})
    BY <1>1, <2>2 DEF Kept
  <2> QED  BY <1>1, <1>2, <2>1, <2>3, EventStays
<1> QED  BY <1>3, <1>4

LEMMA EmitEvent ==
    ASSUME BridgeInv, EventInv, NEW t \in Emitters, Emit(t)
    PROVE  EventInv'
<1>1. /\ BridgeInv'
      /\ \A n \in Nat \ {0} : Single(n) /\ (n = emitted' => ~Held(n)) =>
             Single(n)' /\ (Held(n)' <=> Held(n) \/ n = emitted')
  BY EmitKeeps
<1>2. /\ sunk' = sunk /\ crashes' = crashes /\ emitted' = emitted + 1
      /\ dropped' = dropped /\ phase' = phase
  BY DEF Emit, daemonVars
<1> SUFFICES ASSUME NEW n \in Nat \ {0} PROVE EventFacts(n)'
  BY DEF EventInv
<1>3. EventFacts(n)
  BY DEF EventInv
<1>4. Sinks(n) \in Nat /\ crashes \in Nat /\ emitted \in Nat /\ sunk \in Seq(Nat)
  BY NumberTypes
<1>5. n = emitted' => ~Held(n) /\ ~InSunk(n)
  BY <1>2, <1>3, <1>4 DEF EventFacts
<1>6. Single(n)' /\ (Held(n)' <=> Held(n) \/ n = emitted')
  BY <1>1, <1>3, <1>5 DEF EventFacts
<1>7. Sinks(n)' = Sinks(n) /\ (InSunk(n)' <=> InSunk(n))
  BY <1>2 DEF Sinks, InSunk
<1>8. ~InSunk(n) => Sinks(n) = 0
  <2>1. ~InSunk(n) => {i \in DOMAIN sunk : sunk[i] = n} = {}
    BY DEF InSunk
  <2> QED  BY <2>1, FS_EmptySet DEF Sinks
<1>9. Sinks(n) <= 1 + crashes /\ (Held(n) => Sinks(n) <= crashes)
  BY <1>3 DEF EventFacts
<1>10. Sinks(n)' <= 1 + crashes' /\ (Held(n)' => Sinks(n)' <= crashes')
  BY <1>2, <1>4, <1>5, <1>6, <1>7, <1>8, <1>9
<1>11. (Held(n) => n <= emitted) /\ (InSunk(n) => n <= emitted)
  BY <1>3 DEF EventFacts
<1>12. (Held(n)' => n <= emitted') /\ (InSunk(n)' => n <= emitted')
  BY <1>2, <1>4, <1>6, <1>7, <1>11
<1>13. n <= emitted' => n <= emitted \/ n = emitted'
  BY <1>2, <1>4
<1>14. phase' # "gone" /\ n <= emitted' /\ ~Held(n)' => n \in dropped' \/ InSunk(n)'
  BY <1>2, <1>3, <1>6, <1>7, <1>13 DEF EventFacts
<1> QED  BY <1>6, <1>10, <1>12, <1>14 DEF EventFacts

LEMMA WrapperGoneEvent ==
    ASSUME BridgeInv, EventInv, WrapperGone
    PROVE  EventInv'
<1>1. \A n : Single(n)' /\ ~Held(n)'
  BY WrapperGoneKeeps
<1>2. /\ sunk' = sunk /\ crashes' = crashes /\ emitted' = emitted /\ phase' = "gone"
  BY DEF WrapperGone
<1> SUFFICES ASSUME NEW n \in Nat \ {0} PROVE EventFacts(n)'
  BY DEF EventInv
<1>3. EventFacts(n)
  BY DEF EventInv
<1>4. Sinks(n)' = Sinks(n) /\ (InSunk(n)' <=> InSunk(n))
  BY <1>2 DEF Sinks, InSunk
<1> QED  BY <1>1, <1>2, <1>3, <1>4 DEF EventFacts

LEMMA CrashBeforeAnswerEvent ==
    ASSUME BridgeInv, EventInv, NEW t \in Threads, CrashBeforeAnswer(t)
    PROVE  EventInv'
<1> DEFINE k == Current(Top(t)).n
<1>1. /\ BridgeInv' /\ Kept({}) /\ sunk' = Append(sunk, k)
      /\ k \in 1..MaxEvents /\ InStack(stack[t], k)
  BY CrashBeforeAnswerKeeps
<1>2. /\ crashes' = crashes + 1
      /\ UNCHANGED <<phase, emitted, dropped, stack, pending>>
  BY DEF CrashBeforeAnswer
<1> HIDE DEF k
<1>3. Held(k)
  BY <1>1 DEF Held
<1> SUFFICES ASSUME NEW n \in Nat \ {0} PROVE EventFacts(n)'
  BY DEF EventInv
<1>4. EventFacts(n) /\ EventFacts(k)
  BY <1>1 DEF EventInv
<1>5. (Single(n)' <=> Single(n)) /\ (Held(n)' <=> Held(n))
  BY <1>2 DEF Single, Held
<1>6. sunk \in Seq(Nat) /\ crashes \in Nat /\ Sinks(n) \in Nat
  BY NumberTypes
<1>7. /\ k = n => Sinks(n)' = Sinks(n) + 1
      /\ k # n => Sinks(n)' = Sinks(n)
      /\ InSunk(n)' <=> k = n \/ InSunk(n)
  BY <1>1, <1>6, SinksIn
<1>8. Sinks(n) <= 1 + crashes /\ (Held(n) => Sinks(n) <= crashes)
  BY <1>4 DEF EventFacts
<1>9. Sinks(n)' <= 1 + crashes' /\ (Held(n)' => Sinks(n)' <= crashes')
  BY <1>2, <1>3, <1>5, <1>6, <1>7, <1>8
<1>10. (Held(n)' => n <= emitted') /\ (InSunk(n)' => n <= emitted')
  BY <1>2, <1>3, <1>4, <1>5, <1>7 DEF EventFacts
<1>11. phase' # "gone" /\ n <= emitted' /\ ~Held(n)' => n \in dropped' \/ InSunk(n)'
  BY <1>2, <1>4, <1>5, <1>7 DEF EventFacts
<1> QED  BY <1>4, <1>5, <1>9, <1>10, <1>11 DEF EventFacts

LEMMA StepEvent == BridgeInv /\ EventInv /\ [Next]_vars => EventInv'
<1> SUFFICES ASSUME BridgeInv, EventInv, [Next]_vars PROVE EventInv'
  OBVIOUS
<1>1. ASSUME NEW t \in Threads, Retry(t) \/ Unreachable(t) \/ Register(t)
      PROVE  EventInv'
  <2>1. BridgeInv' /\ Kept({})
    BY <1>1, RetryKeeps, UnreachableKeeps, RegisterKeeps
  <2>2. dropped \subseteq dropped' /\ (phase' # "gone" => phase # "gone")
    BY <1>1, UnreachableKeeps DEF Retry, Register
  <2>3. sunk' = sunk /\ crashes' = crashes /\ emitted' = emitted
    BY <1>1 DEF Retry, Unreachable, Register, daemonVars
  <2> QED  BY <2>1, <2>2, <2>3, EventStays
<1>2. CASE Booted \/ Keepalive \/ Rotate \/ TypePrompt \/ ClaudeExits
  <2>1. BridgeInv' /\ Kept({})
    BY <1>2, BootedKeeps, KeepaliveKeeps, RotateKeeps, TypePromptKeeps, ClaudeExitsKeeps
  <2>2. /\ sunk' = sunk /\ crashes' = crashes /\ emitted' = emitted /\ dropped' = dropped
        /\ phase' # "gone" => phase # "gone"
    BY <1>2 DEF Booted, Keepalive, Rotate, TypePrompt, ClaudeExits, daemonVars
  <2> QED  BY <2>1, <2>2, EventStays
<1>3. CASE StreamEnds
  <2>1. BridgeInv' /\ Kept({})
    BY <1>3, StreamEndsKeeps
  <2>2. /\ sunk' = sunk /\ crashes' = crashes /\ emitted' = emitted /\ phase' = phase
        /\ dropped \subseteq dropped'
    BY <1>3 DEF StreamEnds, SetHead, Continue
  <2> QED  BY <2>1, <2>2, EventStays
<1>4. ASSUME NEW s \in DOMAIN sess, SessionEnded(s) \/ ReapStale(s)
      PROVE  EventInv'
  <2>1. BridgeInv' /\ Kept({})
    BY <1>4, SessionEndedKeeps, ReapStaleKeeps
  <2>2. UNCHANGED <<sunk, crashes, emitted, dropped, phase>>
    BY <1>4 DEF SessionEnded, ReapStale
  <2> QED  BY <2>1, <2>2, EventStays
<1>5. CASE RecoverySpawn \/ \E p \in PromptIds, x \in 1..MaxSids : InjectPrompt(p, x)
  <2>1. BridgeInv' /\ Kept({})
    BY <1>5, RecoverySpawnKeeps, InjectPromptKeeps
  <2>2. UNCHANGED <<sunk, crashes, emitted, dropped, phase>>
    BY <1>5 DEF RecoverySpawn, InjectPrompt
  <2> QED  BY <2>1, <2>2, EventStays
<1>6. CASE Crash \/ Restart
  <2>1. BridgeInv' /\ Kept({})
    BY <1>6, CrashKeeps, RestartKeeps
  <2>2. crashes' \in {crashes, crashes + 1} /\ UNCHANGED <<sunk, emitted, dropped, phase>>
    BY <1>6 DEF Crash, Restart
  <2> QED  BY <2>1, <2>2, EventStays
<1>7. CASE UNCHANGED vars
  <2>1. UNCHANGED <<sunk, crashes, emitted, dropped, phase, pending, stack>>
    BY <1>7 DEF vars, daemonVars
  <2>2. BridgeInv'
    BY <1>7, ShapeStep
  <2>3. Kept({})
    BY <2>1, StayKeep
  <2> QED  BY <2>1, <2>2, <2>3, EventStays
<1>8. CASE \E t \in Threads : Serve(t) \/ CrashBeforeAnswer(t)
  BY <1>8, ServeEvent, CrashBeforeAnswerEvent
<1>9. CASE WrapperGone \/ \E t \in Emitters : Emit(t)
  BY <1>9, WrapperGoneEvent, EmitEvent
<1> QED  BY <1>1, <1>2, <1>3, <1>4, <1>5, <1>6, <1>7, <1>8, <1>9 DEF Next

LEMMA InitEvent == Init => EventInv
<1> SUFFICES ASSUME Init, NEW n \in Nat \ {0} PROVE EventFacts(n)
  BY DEF EventInv
<1>1. /\ pending = <<>> /\ emitted = 0 /\ sunk = <<>> /\ crashes = 0 /\ "main" \in Threads
      /\ stack = [t \in Threads |-> IF t = "main"
                                    THEN <<Frame("boot", "reg", <<>>, NoEvent)>> ELSE <<>>]
  BY ConstTypes DEF Init
<1> DEFINE f == Frame("boot", "reg", <<>>, NoEvent)
<1>2. InHand(f) = <<NoEvent>> /\ NoEvent.n = 0
  BY NewFrames, EventTypes
<1>3. ~InFrame(f, n) /\ OnceFrame(f, n)
  BY <1>2, Singles DEF InFrame, OnceFrame
<1> HIDE DEF f
<1>4. /\ ~InStack(<<f>>, n) /\ OnceStack(<<f>>, n)
      /\ ~InStack(<<>>, n) /\ OnceStack(<<>>, n)
  BY <1>3, Singles
<1>5. \A t \in Threads : ~InStack(stack[t], n) /\ OnceStack(stack[t], n)
  BY <1>1, <1>4 DEF f
<1>6. ~InSeq(pending, n) /\ OnceSeq(pending, n)
  BY <1>1, Singles
<1>7. Single(n) /\ ~Held(n)
  BY <1>5, <1>6 DEF Single, Held
<1>8. ~InSunk(n) /\ Sinks(n) = 0
  <2>1. DOMAIN sunk = {}
    BY <1>1
  <2>2. {i \in DOMAIN sunk : sunk[i] = n} = {}
    BY <2>1
  <2> QED  BY <2>1, <2>2, FS_EmptySet DEF InSunk, Sinks
<1>9. ~(n <= emitted)
  BY <1>1
<1> QED  BY <1>1, <1>7, <1>8, <1>9 DEF EventFacts

\* A retry never follows an answer that was received (emitWithRetry): an event is
\* in the sink once, and once more for each daemon that died with it.
THEOREM RepeatsNeedCrashAlways == Spec => []RepeatsNeedCrash
<1>1. EventInv => RepeatsNeedCrash
  <2> SUFFICES ASSUME EventInv, NEW n \in 1..MaxEvents PROVE Sinks(n) <= 1 + crashes
    BY DEF RepeatsNeedCrash
  <2>1. n \in Nat \ {0}
    BY ConstTypes
  <2> QED  BY <2>1 DEF EventInv, EventFacts
<1>2. Init => BridgeInv /\ EventInv
  BY InitShape, InitEvent
<1>3. BridgeInv /\ EventInv /\ [Next]_vars => (BridgeInv /\ EventInv)'
  BY ShapeStep, StepEvent
<1> QED  BY <1>1, <1>2, <1>3, PTL DEF Spec

-----------------------------------------------------------------------------
(* Every event is held in one place.                                       *)

\* Counting the places of an event tells where it is, and whether it is there once.
LEMMA CountPlaces ==
    ASSUME NEW S, NEW q \in Seq(S), NEW n, OnceSeq(q, n)
    PROVE  /\ InSeq(q, n) => Places(n, q) = 1
           /\ ~InSeq(q, n) => Places(n, q) = 0
<1> DEFINE A == {i \in DOMAIN q : q[i].n = n}
<1>1. CASE InSeq(q, n)
  <2>1. PICK i \in DOMAIN q : q[i].n = n
    BY <1>1 DEF InSeq
  <2>2. A = {i}
    BY <2>1 DEF OnceSeq
  <2> QED  BY <1>1, <2>2, FS_Singleton DEF Places
<1>2. CASE ~InSeq(q, n)
  <2>1. A = {}
    BY <1>2 DEF InSeq
  <2> QED  BY <1>2, <2>1, FS_EmptySet DEF Places
<1> QED  BY <1>1, <1>2

\* The frames of the goroutines, as the property names them.
LEMMA SenderTypes ==
    ASSUME BridgeInv
    PROVE  /\ \A x \in Senders : /\ x[1] \in Threads /\ x[2] \in DOMAIN stack[x[1]]
                                 /\ x = <<x[1], x[2]>>
                                 /\ InHand(stack[x[1]][x[2]]) \in Seq(Events \cup {NoEvent})
           /\ \A t \in Threads : \A i \in DOMAIN stack[t] : <<t, i>> \in Senders
<1>1. \A t \in Threads : stack[t] \in Seq(FrameSet(Len(sess)))
  BY DEF BridgeInv, StackTyped
<1>2. ASSUME NEW t \in Threads, NEW i \in DOMAIN stack[t]
      PROVE  InHand(stack[t][i]) \in Seq(Events \cup {NoEvent})
  <2>1. stack[t][i] \in FrameSet(Len(sess))
    BY <1>1
  <2>2. stack[t][i].own \in Events \cup {NoEvent} /\ stack[t][i].batch \in Seq(Events)
    BY <2>1 DEF FrameSet
  <2> HIDE DEF Events, NoEvent
  <2> QED  BY <2>2 DEF InHand
<1>3. ASSUME NEW x \in Senders
      PROVE  /\ x[1] \in Threads /\ x[2] \in DOMAIN stack[x[1]] /\ x = <<x[1], x[2]>>
  <2>1. PICK t \in Threads : \E i \in DOMAIN stack[t] : x = <<t, i>>
    BY <1>3 DEF Senders
  <2> QED  BY <2>1
<1>4. ASSUME NEW t \in Threads, NEW i \in DOMAIN stack[t] PROVE <<t, i>> \in Senders
  <2>1. stack[t] # <<>>
    BY <1>4
  <2> QED  BY <2>1 DEF Senders, Running
<1> QED  BY <1>2, <1>3, <1>4

\* What the invariants say of one event.
LEMMA OnePlace ==
    ASSUME BridgeInv, NEW n \in Nat \ {0}, EventFacts(n), n <= emitted, phase # "gone",
           NEW holders,
           holders = {x \in Senders : Places(n, InHand(stack[x[1]][x[2]])) > 0}
    PROVE  /\ Places(n, pending) + Cardinality(holders) <= 1
           /\ \A x \in holders : Places(n, InHand(stack[x[1]][x[2]])) = 1
           /\ Places(n, pending) = 0 /\ holders = {} => n \in dropped \/ InSunk(n)
<1>1. Single(n)
  BY DEF EventFacts
<1>2. /\ InSeq(pending, n) => Places(n, pending) = 1
      /\ ~InSeq(pending, n) => Places(n, pending) = 0
  BY <1>1, CountPlaces DEF BridgeInv, WrapperTyped, Single
<1>3. ASSUME NEW t \in Threads, NEW i \in DOMAIN stack[t]
      PROVE  /\ InFrame(stack[t][i], n) => Places(n, InHand(stack[t][i])) = 1
             /\ ~InFrame(stack[t][i], n) => Places(n, InHand(stack[t][i])) = 0
  <2>1. OnceSeq(InHand(stack[t][i]), n)
    BY <1>1 DEF Single, OnceStack, OnceFrame
  <2>2. PICK S : InHand(stack[t][i]) \in Seq(S)
    <3>1. <<t, i>> \in Senders
      BY SenderTypes
    <3> QED  BY <3>1, SenderTypes
  <2> QED  BY <2>1, <2>2, CountPlaces DEF InFrame
<1>4. ASSUME NEW x \in holders
      PROVE  /\ x[1] \in Threads /\ x[2] \in DOMAIN stack[x[1]] /\ x = <<x[1], x[2]>>
             /\ InFrame(stack[x[1]][x[2]], n) /\ InStack(stack[x[1]], n)
             /\ Places(n, InHand(stack[x[1]][x[2]])) = 1
  <2>1. x[1] \in Threads /\ x[2] \in DOMAIN stack[x[1]] /\ x = <<x[1], x[2]>>
    BY SenderTypes
  <2>2. Places(n, InHand(stack[x[1]][x[2]])) > 0
    OBVIOUS
  <2>3. InFrame(stack[x[1]][x[2]], n)
    BY <1>3, <2>1, <2>2
  <2> QED  BY <1>3, <2>1, <2>3 DEF InStack
<1>5. ASSUME NEW x \in holders, NEW y \in holders PROVE x = y
  <2>1. x[1] = y[1]
    BY <1>1, <1>4 DEF Single
  <2>2. x[2] = y[2]
    <3>1. OnceStack(stack[x[1]], n)
      BY <1>1, <1>4 DEF Single
    <3>2. /\ x[2] \in DOMAIN stack[x[1]] /\ y[2] \in DOMAIN stack[x[1]]
          /\ InFrame(stack[x[1]][x[2]], n) /\ InFrame(stack[x[1]][y[2]], n)
      BY <1>4, <2>1
    <3> QED  BY <3>1, <3>2 DEF OnceStack
  <2>3. x = <<x[1], x[2]>> /\ y = <<y[1], y[2]>>
    BY <1>4
  <2> QED  BY <2>1, <2>2, <2>3
<1>6. CASE holders = {}
  <2>1. ASSUME ~InSeq(pending, n) PROVE ~Held(n)
    <3> SUFFICES ASSUME NEW t \in Threads, InStack(stack[t], n) PROVE FALSE
      BY <2>1 DEF Held
    <3>1. PICK i \in DOMAIN stack[t] : InFrame(stack[t][i], n)
      BY DEF InStack
    <3>2. <<t, i>> \in Senders /\ Places(n, InHand(stack[t][i])) > 0
      BY <1>3, <3>1, SenderTypes
    <3>3. <<t, i>>[1] = t /\ <<t, i>>[2] = i
      OBVIOUS
    <3>4. <<t, i>> \in holders
      BY <3>2, <3>3
    <3> QED  BY <1>6, <3>4
  <2>2. Cardinality(holders) = 0
    BY <1>6, FS_EmptySet
  <2>3. Places(n, pending) = 0 => n \in dropped \/ InSunk(n)
    BY <1>2, <2>1 DEF EventFacts
  <2> QED  BY <1>2, <1>4, <2>2, <2>3
<1>7. CASE holders # {}
  <2>1. PICK x : x \in holders
    BY <1>7
  <2>2. holders = {x}
    BY <1>5, <2>1
  <2>3. Cardinality(holders) = 1
    BY <2>2, FS_Singleton
  <2>4. ~InSeq(pending, n)
    BY <1>1, <1>4, <2>1 DEF Single
  <2> QED  BY <1>2, <1>4, <1>7, <2>3, <2>4
<1> QED  BY <1>6, <1>7

\* No event disappears or multiplies in the wrapper while it runs (emitWithRetry,
\* drainPending, queuePending, reregister).
THEOREM EventHeldOnceAlways == Spec => []EventHeldOnce
<1>1. BridgeInv => TypeOK
  <2> SUFFICES ASSUME BridgeInv PROVE TypeOK
    OBVIOUS
  <2>1. FrameType = FrameSet(Len(sess))
    BY DEF FrameType, FrameSet
  <2>2. \A t \in Threads : \A i \in DOMAIN stack[t] : stack[t][i] \in FrameType
    <3>1. \A t \in Threads : stack[t] \in Seq(FrameSet(Len(sess)))
      BY DEF BridgeInv, StackTyped
    <3> QED  BY <2>1, <3>1
  <2> QED  BY <2>2 DEF TypeOK, BridgeInv, DaemonTyped, WrapperTyped, SessType
<1>2. BridgeInv /\ EventInv => EventHeldOnce
  <2> SUFFICES ASSUME BridgeInv, EventInv, phase \in {"run", "exit"}, NEW n \in 1..emitted,
                      NEW holders,
                      holders = {x \in Senders : Places(n, InHand(stack[x[1]][x[2]])) > 0}
               PROVE  /\ Places(n, pending) + Cardinality(holders) <= 1
                      /\ \A x \in holders : Places(n, InHand(stack[x[1]][x[2]])) = 1
                      /\ Places(n, pending) = 0 /\ holders = {} =>
                             n \in dropped \/ \E i \in DOMAIN sunk : sunk[i] = n
    BY <1>1 DEF EventHeldOnce
  <2>1. n \in Nat \ {0} /\ n <= emitted /\ phase # "gone"
    BY NumberTypes
  <2>2. EventFacts(n)
    BY <2>1 DEF EventInv
  <2> QED  BY <2>1, <2>2, OnePlace DEF InSunk
<1>3. Init => BridgeInv /\ EventInv
  BY InitShape, InitEvent
<1>4. BridgeInv /\ EventInv /\ [Next]_vars => (BridgeInv /\ EventInv)'
  BY ShapeStep, StepEvent
<1> QED  BY <1>2, <1>3, <1>4, PTL DEF Spec

=============================================================================
