--------------------------- MODULE CodexDriverProofs ---------------------------
(***************************************************************************)
(* Proofs for CodexDriver: whatever the order in which the pump, a turn's  *)
(* watchdog, the reaper, Stop and the app-server's own goroutines run, no  *)
(* app-server process is orphaned, a turn is ended once and its prompt is  *)
(* answered, no turn is asked of a server without the thread, and what the *)
(* server writes reaches the session as it was meant.                      *)
(***************************************************************************)
EXTENDS CodexDriver, SequenceTheorems, TLAPS

-----------------------------------------------------------------------------
(* The client's records *)

\* What none of the steps of a client and its process does: bring a process
\* back, leave a closed client with a live one, or touch an unused record.
Goes(r, q) ==
    /\ q \in AppRec
    /\ q.proc = r.proc \/ (r.proc = "live" /\ q.proc = "dead")
    /\ q.proc = "live" => (q.closed => r.closed)
    /\ r.proc = "none" => q.proc = "none"

\* The process does not gain anything, and a call that waits may be refused.
Shrinks(r, q) ==
    /\ Goes(r, q)
    /\ q.proc = "live" => q.asked = r.asked /\ q.loaded = r.loaded /\ q.running = r.running
    /\ q.proc # "live" /\ r.proc = "live" =>
         q.asked = {} /\ q.loaded = FALSE /\ q.running = [p \in Prompts |-> 0]
    /\ q.proc = r.proc => q.asked = r.asked /\ q.loaded = r.loaded /\ q.running = r.running
    /\ q.out = r.out \/ q.out = <<>>
    /\ \/ q.pending = r.pending /\ q.reply = r.reply
       \/ q.pending = NoCall /\ r.pending # NoCall /\ q.reply = "err"

LEMMA Constants ==
  /\ MaxPrompts \in Nat /\ Prompts = 1 .. MaxPrompts /\ NoPrompt = 0 /\ NoPrompt \notin Prompts
  /\ Reaper \in Closers /\ Pump \in Closers /\ Stopper \in Closers /\ Prompts \subseteq Closers
  /\ Reaper \notin Prompts /\ Pump \notin Prompts /\ Stopper \notin Prompts
  /\ Reaper # Pump /\ Pump # Stopper /\ Reaper # Stopper
  /\ 0 \notin Apps /\ NoCall \notin Calls
  /\ Len(NoteOrder) = 5
  BY CodexAssumption
  DEF Prompts, NoPrompt, Reaper, Pump, Stopper, Closers, Apps, NoCall, Calls, NoteOrder

LEMMA RefuseRec ==
  ASSUME NEW r \in AppRec
  PROVE  Shrinks(r, Refuse(r)) /\ Refuse(r).ending = r.ending /\ Refuse(r).closed = r.closed
         /\ Refuse(r).pending = NoCall /\ Refuse(r).out = r.out /\ Refuse(r).proc = r.proc
  <1>1. CASE r.pending = NoCall
    <2>1. Refuse(r) = [r EXCEPT !.pending = NoCall, !.reply = r.reply]
      BY <1>1 DEF Refuse
    <2>2. QED
      BY <1>1, <2>1, Constants DEF Shrinks, Goes, AppRec
  <1>2. CASE r.pending # NoCall
    <2>1. Refuse(r) = [r EXCEPT !.pending = NoCall, !.reply = "err"]
      BY <1>2 DEF Refuse
    <2>2. QED
      BY <1>2, <2>1, Constants DEF Shrinks, Goes, AppRec
  <1>3. QED
    BY <1>1, <1>2

LEMMA DeadRec ==
  ASSUME NEW r \in AppRec
  PROVE  /\ Shrinks(r, Dead(r)) /\ Dead(r).proc # "live" /\ Dead(r).ending = r.ending
         /\ Dead(r).pending = r.pending /\ Dead(r).reply = r.reply
         /\ Dead(r).closed = r.closed /\ Dead(r).out = r.out
  <1>1. [p \in Prompts |-> 0] \in [Prompts -> 0 .. Len(NoteOrder) + 1]
    BY Constants
  <1>2. CASE r.proc = "live"
    <2>1. Dead(r) = [r EXCEPT !.proc = "dead", !.asked = {}, !.loaded = FALSE,
                              !.running = [p \in Prompts |-> 0]]
      BY <1>2 DEF Dead
    <2>2. QED
      BY <1>1, <1>2, <2>1 DEF Shrinks, Goes, AppRec
  <1>3. CASE r.proc # "live"
    BY <1>3 DEF Dead, Shrinks, Goes
  <1>4. QED
    BY <1>2, <1>3

LEMMA ShrinksTwice ==
  ASSUME NEW r \in AppRec, NEW q \in AppRec, NEW t, Shrinks(r, q), Shrinks(q, t)
  PROVE  Shrinks(r, t)
  BY DEF Shrinks, Goes, AppRec

LEMMA ClosedRec ==
  ASSUME NEW r \in AppRec
  PROVE  /\ Shrinks(r, Closed(r)) /\ Closed(r).ending = r.ending /\ Closed(r).closed
         /\ ~(r.closed /\ r.proc = "live") => Closed(r).proc # "live"
  <1>1. CASE r.closed
    BY <1>1 DEF Closed, Shrinks, Goes
  <1>2. CASE ~r.closed
    <2> DEFINE t == Dead(Refuse(r))
    <2>1. Shrinks(r, Refuse(r)) /\ Refuse(r) \in AppRec /\ Refuse(r).ending = r.ending
      BY RefuseRec DEF Shrinks, Goes
    <2>2. Shrinks(Refuse(r), t) /\ t \in AppRec /\ t.proc # "live" /\ t.ending = r.ending
      BY <2>1, DeadRec DEF Shrinks, Goes
    <2>3. Shrinks(r, t)
      BY <2>1, <2>2, ShrinksTwice
    <2>4. Closed(r) = [t EXCEPT !.closed = TRUE]
      BY <1>2 DEF Closed
    <2> HIDE DEF t
    <2>5. QED
      BY <1>2, <2>2, <2>3, <2>4 DEF Shrinks, Goes, AppRec
  <1>3. QED
    BY <1>1, <1>2

LEMMA GoneRec ==
  ASSUME NEW r \in AppRec
  PROVE  Shrinks(r, Gone(r)) /\ Gone(r).proc # "live" /\ Gone(r).pending = NoCall
  <1> DEFINE t == Dead(Refuse(r))
  <1>1. /\ Shrinks(r, Refuse(r)) /\ Refuse(r) \in AppRec /\ Refuse(r).pending = NoCall
    BY RefuseRec DEF Shrinks, Goes
  <1>2. Shrinks(Refuse(r), t) /\ t \in AppRec /\ t.proc # "live" /\ t.pending = NoCall
    BY <1>1, DeadRec DEF Shrinks, Goes
  <1>3. Shrinks(r, t)
    BY <1>1, <1>2, ShrinksTwice
  <1>4. Gone(r) = [t EXCEPT !.closed = TRUE, !.done = TRUE, !.reading = FALSE, !.out = <<>>, !.ending = FALSE]
    BY DEF Gone
  <1>5. <<>> \in Seq(Lines)
    OBVIOUS
  <1> HIDE DEF t
  <1>6. QED
    BY <1>2, <1>3, <1>4, <1>5 DEF Shrinks, Goes, AppRec

LEMMA AskedRec ==
  ASSUME NEW r \in AppRec, NEW call \in Calls
  PROVE  LET q == Asked(r, call)
         IN  /\ Goes(r, q) /\ q.proc = r.proc /\ q.closed = r.closed /\ q.ending = r.ending
             /\ q.out = r.out /\ q.loaded = r.loaded /\ q.running = r.running
             /\ q.asked = r.asked \/ (q.asked = r.asked \cup {call} /\ r.proc = "live")
             /\ \/ q.reply = "err" /\ q.pending = r.pending
                \/ q.reply = "none" /\ q.pending = call
  <1>1. CASE r.closed
    BY <1>1 DEF Asked, Goes, AppRec
  <1>2. CASE ~r.closed /\ r.proc = "live"
    <2> DEFINE both == r.asked \cup {call}
    <2>1. Asked(r, call) = [r EXCEPT !.pending = call, !.reply = "none", !.asked = both]
      BY <1>2 DEF Asked
    <2>2. both \in SUBSET Calls
      BY DEF AppRec
    <2> HIDE DEF both
    <2>3. /\ Asked(r, call) \in AppRec /\ Asked(r, call).proc = r.proc
          /\ Asked(r, call).closed = r.closed /\ Asked(r, call).ending = r.ending
          /\ Asked(r, call).out = r.out /\ Asked(r, call).loaded = r.loaded
          /\ Asked(r, call).running = r.running /\ Asked(r, call).asked = both
          /\ Asked(r, call).reply = "none" /\ Asked(r, call).pending = call
      BY <2>1, <2>2 DEF AppRec
    <2>4. QED
      BY <1>2, <2>3 DEF Goes, both
  <1>3. CASE ~r.closed /\ r.proc # "live"
    <2>1. Asked(r, call) = [r EXCEPT !.pending = call, !.reply = "none", !.asked = r.asked]
      BY <1>3 DEF Asked
    <2>2. QED
      BY <1>3, <2>1 DEF Goes, AppRec
  <1>4. QED
    BY <1>1, <1>2, <1>3

LEMMA TakenRec ==
  ASSUME NEW r \in AppRec
  PROVE  LET q == Taken(r)
         IN  /\ Goes(r, q) /\ q.proc = r.proc /\ q.closed = r.closed /\ q.ending = r.ending
             /\ q.out = r.out /\ q.loaded = r.loaded /\ q.running = r.running /\ q.asked = r.asked
             /\ q.pending = NoCall /\ q.reply = "none"
  BY DEF Taken, Goes, AppRec

-----------------------------------------------------------------------------
(* Types *)

PumpRec == [pc : PumpPcs, prompt : Prompts \cup {NoPrompt}, app : Apps \cup {0}, try : Attempts]
ItemRec == [text : BOOLEAN, emitted : BOOLEAN, rows : Nat, toolUsed : BOOLEAN,
            toolRows : Nat, approval : BOOLEAN, over : BOOLEAN]
CloserRec == [pc : {"off", "armed", "take", "close"}, app : Apps \cup {0}]

\* The prompts are taken in the order they were sent: the pump's is the last one
\* taken, and it has one wherever it works for one.
TakenUpTo == sent - Len(inbox)

PromptPcs == {"thread", "thread_wait", "turn", "turn_ask", "turn_wait", "turn_err", "turn_late",
              "closing", "crashed"}

InOrder ==
    /\ Len(inbox) <= sent
    /\ \A i \in 1 .. Len(inbox) : inbox[i] = TakenUpTo + i
    /\ pump.prompt \in {NoPrompt, TakenUpTo}
    /\ pump.pc \in PromptPcs => pump.prompt # NoPrompt
    /\ pump.pc \in {"idle", "exited", "failed"} => pump.prompt = NoPrompt

\* The clients that the driver and the pump hold have been made, and a client
\* that has not is untouched.
AppsMade ==
    /\ \A a \in Apps : /\ app[a].proc = "none" => app[a] = NoApp
                       /\ app[a].proc = "live" => ~app[a].closed
    /\ codex # 0 => app[codex].proc # "none"
    /\ pump.app # 0 => app[pump.app].proc # "none"
    /\ pump.pc \in {"install", "thread_wait", "turn_wait"} => pump.app # 0
    /\ pump.pc \in {"probe", "idle", "thread", "turn", "turn_err", "turn_late", "closing"} => pump.app = 0

\* A prompt whose turn has not been set up.
Fresh(p) ==
    \/ p > TakenUpTo
    \/ pump.prompt = p /\ pump.pc \in {"probe", "install", "thread", "thread_wait", "turn"}

\* The closers and the turns.
Turns ==
    /\ \A c \in Closers : /\ closer[c].pc # "close" => closer[c].app = 0
                          /\ closer[c].app # 0 => app[closer[c].app].proc # "none"
    /\ closer[Pump].pc # "off" => pump.pc = "closing"
    /\ closer[Stopper].pc # "off" => stopped
    /\ turn.inFlight <=> turn.cur # NoPrompt
    /\ \A p \in Prompts : /\ Fresh(p) => closer[p].pc = "off" /\ ends[p] = 0
                          /\ turn.cur = p => ~Fresh(p) /\ ends[p] = 0
                          /\ ends[p] <= 1

Base == TypeOK /\ InOrder /\ AppsMade

\* What the steps that are not steps of the pump do to the clients.
AppsGo == /\ app' \in [Apps -> AppRec]
          /\ \A a \in Apps : Goes(app[a], app'[a]) /\ (app[a].proc = "none" => app'[a] = app[a])

-----------------------------------------------------------------------------
(* What the app-server and the client's goroutines do to a record *)

\* Only the record of a moves.
OnlyMoves(a) == app' \in [Apps -> AppRec] /\ \A b \in Apps \ {a} : app'[b] = app[b]

SameBut(r, q) == q.proc = r.proc /\ q.closed = r.closed /\ q.done = r.done

Replied(a, call, ok) ==
    LET r == app[a] q == app'[a]
    IN  /\ OnlyMoves(a) /\ SameBut(r, q) /\ q.reading = r.reading /\ q.ending = r.ending
        /\ q.pending = r.pending /\ q.reply = r.reply
        /\ r.proc = "live" /\ call \in r.asked /\ (ok /\ call.what = "turn" => r.loaded)
        /\ q.asked = r.asked \ {call}
        /\ q.loaded = (r.loaded \/ (ok /\ call.what = "thread"))
        /\ \A p \in Prompts : q.running[p] = IF p = call.prompt /\ ok /\ call.what = "turn" THEN 1
                                           ELSE r.running[p]
        /\ q.out = Append(r.out, [kind |-> "reply", ok |-> ok, to |-> call])

LEMMA RepliesDoes ==
  ASSUME TypeOK, NEW a \in Apps, NEW call \in Calls, NEW ok \in BOOLEAN, ServerReplies(a, call, ok)
  PROVE  Replied(a, call, ok)
  <1> DEFINE r == app[a]
             line == [kind |-> "reply", ok |-> ok, to |-> call]
             asked == r.asked \ {call}
             loaded == r.loaded \/ (ok /\ call.what = "thread")
             running == [r.running EXCEPT ![call.prompt] = IF ok /\ call.what = "turn" THEN 1 ELSE @]
             out == Append(r.out, line)
  <1>1. r \in AppRec /\ app \in [Apps -> AppRec]
    BY DEF TypeOK
  <1>2. line \in Lines
    BY DEF Lines
  <1>3. out \in Seq(Lines)
    BY <1>1, <1>2 DEF AppRec
  <1>4. running \in [Prompts -> 0 .. Len(NoteOrder) + 1]
    <2>1. call.prompt \in Prompts /\ r.running \in [Prompts -> 0 .. Len(NoteOrder) + 1]
      BY <1>1 DEF AppRec, Calls
    <2>2. QED
      BY <2>1, Constants
  <1>5. asked \in SUBSET Calls /\ loaded \in BOOLEAN
    BY <1>1 DEF AppRec
  <1>6. app' = [app EXCEPT ![a] = [Write(r, line) EXCEPT !.asked = @ \ {call},
                            !.loaded = @ \/ (ok /\ call.what = "thread"),
                            !.running[call.prompt] = IF ok /\ call.what = "turn" THEN 1 ELSE @]]
    BY DEF ServerReplies
  <1>7. Write(r, line) = [r EXCEPT !.out = out]
    BY DEF Write
  <1>8. app'[a] = [r EXCEPT !.out = out, !.asked = asked, !.loaded = loaded, !.running = running]
    <2> HIDE DEF out, line
    <2>1. app'[a] = [[r EXCEPT !.out = out] EXCEPT !.asked = @ \ {call},
                            !.loaded = @ \/ (ok /\ call.what = "thread"),
                            !.running[call.prompt] = IF ok /\ call.what = "turn" THEN 1 ELSE @]
      BY <1>1, <1>6, <1>7
    <2>2. QED
      BY <1>1, <2>1 DEF AppRec
  <1>9. r.proc = "live" /\ call \in r.asked /\ (ok /\ call.what = "turn" => r.loaded)
    BY DEF ServerReplies, CanWrite
  <1> HIDE DEF asked, loaded, running, out
  <1>10. /\ app'[a] \in AppRec /\ app'[a].out = out /\ app'[a].asked = asked /\ app'[a].loaded = loaded
         /\ app'[a].running = running /\ SameBut(r, app'[a]) /\ app'[a].reading = r.reading
         /\ app'[a].ending = r.ending /\ app'[a].pending = r.pending /\ app'[a].reply = r.reply
    BY <1>1, <1>3, <1>4, <1>5, <1>8 DEF AppRec, SameBut
  <1>11. OnlyMoves(a)
    BY <1>1, <1>6, <1>10 DEF OnlyMoves
  <1>12. \A p \in Prompts : running[p] = IF p = call.prompt /\ ok /\ call.what = "turn" THEN 1 ELSE r.running[p]
    BY <1>1 DEF running, AppRec
  <1>13. QED
    BY <1>9, <1>10, <1>11, <1>12 DEF asked, loaded, out, Replied

Told(a, p, n, text) ==
    LET r == app[a] q == app'[a]
    IN  /\ OnlyMoves(a) /\ SameBut(r, q) /\ q.reading = r.reading /\ q.ending = r.ending
        /\ q.pending = r.pending /\ q.reply = r.reply
        /\ q.asked = r.asked /\ q.loaded = r.loaded
        /\ r.proc = "live" /\ r.running[p] \in 1 .. n
        /\ \A s \in Prompts : q.running[s] = IF s = p THEN n + 1 ELSE r.running[s]
        /\ q.out = Append(r.out, [kind |-> "note", n |-> n, text |-> text, prompt |-> p])

LEMMA TellsDoes ==
  ASSUME TypeOK, NEW a \in Apps, NEW p \in Prompts, NEW n \in 1 .. Len(NoteOrder),
         NEW text \in BOOLEAN, ServerTells(a, p, n, text)
  PROVE  Told(a, p, n, text)
  <1> DEFINE r == app[a]
             line == [kind |-> "note", n |-> n, text |-> text, prompt |-> p]
             running == [r.running EXCEPT ![p] = n + 1]
             out == Append(r.out, line)
  <1>1. r \in AppRec /\ app \in [Apps -> AppRec]
    BY DEF TypeOK
  <1>2. line \in Lines
    BY DEF Lines
  <1>3. out \in Seq(Lines)
    BY <1>1, <1>2 DEF AppRec
  <1>4. running \in [Prompts -> 0 .. Len(NoteOrder) + 1]
    <2>1. r.running \in [Prompts -> 0 .. Len(NoteOrder) + 1]
      BY <1>1 DEF AppRec
    <2>2. QED
      BY <2>1, Constants
  <1>6. app' = [app EXCEPT ![a] = [Write(r, line) EXCEPT !.running[p] = n + 1]]
    BY DEF ServerTells
  <1>7. Write(r, line) = [r EXCEPT !.out = out]
    BY DEF Write
  <1>8. app'[a] = [r EXCEPT !.out = out, !.running = running]
    <2> HIDE DEF out, line
    <2>1. app'[a] = [[r EXCEPT !.out = out] EXCEPT !.running[p] = n + 1]
      BY <1>1, <1>6, <1>7
    <2>2. QED
      BY <1>1, <2>1 DEF AppRec
  <1>9. r.proc = "live" /\ r.running[p] \in 1 .. n
    BY DEF ServerTells, CanWrite
  <1> HIDE DEF running, out
  <1>10. /\ app'[a] \in AppRec /\ app'[a].out = out /\ app'[a].asked = r.asked /\ app'[a].loaded = r.loaded
         /\ app'[a].running = running /\ SameBut(r, app'[a]) /\ app'[a].reading = r.reading
         /\ app'[a].ending = r.ending /\ app'[a].pending = r.pending /\ app'[a].reply = r.reply
    BY <1>1, <1>3, <1>4, <1>8 DEF AppRec, SameBut
  <1>11. OnlyMoves(a)
    BY <1>1, <1>6, <1>10 DEF OnlyMoves
  <1>12. \A s \in Prompts : running[s] = IF s = p THEN n + 1 ELSE r.running[s]
    BY <1>1 DEF running, AppRec
  <1>13. QED
    BY <1>9, <1>10, <1>11, <1>12 DEF out, Told

\* A line is read: what else changes depends on the line.
LEMMA ReadsDoes ==
  ASSUME TypeOK, NEW a \in Apps, HandleReply(a) \/ HandleNote(a) \/ FlushCompleted(a)
  PROVE  LET r == app[a] q == app'[a]
         IN  /\ OnlyMoves(a) /\ SameBut(r, q) /\ q.reading = r.reading /\ r.reading
             /\ q.asked = r.asked /\ q.loaded = r.loaded /\ q.running = r.running
             /\ r.out # <<>> /\ q.out = Tail(r.out) /\ Line(a) \in Lines /\ Line(a) = r.out[1]
             /\ \/ q.pending = r.pending /\ q.reply = r.reply
                \/ /\ HandleReply(a) /\ r.pending = Line(a).to /\ q.pending = NoCall
                   /\ q.reply = IF Line(a).ok THEN "ok" ELSE "err"
             /\ q.ending = r.ending \/ FlushCompleted(a)
  <1>1. app[a] \in AppRec /\ app \in [Apps -> AppRec]
    BY DEF TypeOK
  <1>2. app[a].out \in Seq(Lines) /\ app[a].out # <<>> /\ app[a].reading
    BY <1>1 DEF AppRec, HandleReply, HandleNote, FlushCompleted, HasLine
  <1>3. Tail(app[a].out) \in Seq(Lines) /\ Line(a) \in Lines /\ Line(a) = app[a].out[1]
    BY <1>2 DEF Line
  <1>4. /\ Read(a) \in AppRec /\ Read(a).out = Tail(app[a].out) /\ SameBut(app[a], Read(a))
        /\ Read(a).reading = app[a].reading /\ Read(a).asked = app[a].asked
        /\ Read(a).loaded = app[a].loaded /\ Read(a).running = app[a].running
        /\ Read(a).pending = app[a].pending /\ Read(a).reply = app[a].reply
        /\ Read(a).ending = app[a].ending
    BY <1>1, <1>3 DEF Read, AppRec, SameBut
  <1>5. CASE HandleReply(a)
    <2> DEFINE pending == IF app[a].pending = Line(a).to THEN NoCall ELSE app[a].pending
               reply == IF app[a].pending # Line(a).to THEN app[a].reply
                        ELSE IF Line(a).ok THEN "ok" ELSE "err"
    <2>1. app' = [app EXCEPT ![a] = [Read(a) EXCEPT !.pending = pending, !.reply = reply]]
      BY <1>1, <1>4, <1>5 DEF HandleReply, AppRec
    <2>2. pending \in Calls \cup {NoCall} /\ reply \in {"none", "ok", "err"}
      BY <1>1 DEF AppRec
    <2>3. \/ pending = app[a].pending /\ reply = app[a].reply
          \/ /\ app[a].pending = Line(a).to /\ pending = NoCall
             /\ reply = IF Line(a).ok THEN "ok" ELSE "err"
      OBVIOUS
    <2> HIDE DEF pending, reply
    <2>4. /\ app'[a] \in AppRec /\ SameBut(Read(a), app'[a]) /\ app'[a].reading = Read(a).reading
          /\ app'[a].asked = Read(a).asked /\ app'[a].loaded = Read(a).loaded
          /\ app'[a].running = Read(a).running /\ app'[a].out = Read(a).out
          /\ app'[a].ending = Read(a).ending /\ app'[a].pending = pending /\ app'[a].reply = reply
      BY <1>1, <1>4, <2>1, <2>2 DEF AppRec, SameBut
    <2>5. OnlyMoves(a)
      BY <1>1, <2>1, <2>4 DEF OnlyMoves
    <2>6. QED
      BY <1>2, <1>3, <1>4, <1>5, <2>3, <2>4, <2>5 DEF SameBut
  <1>6. CASE HandleNote(a)
    <2>1. app' = [app EXCEPT ![a] = Read(a)]
      BY <1>6 DEF HandleNote
    <2>2. QED
      BY <1>1, <1>2, <1>3, <1>4, <2>1 DEF OnlyMoves
  <1>7. CASE FlushCompleted(a)
    <2>1. app' = [app EXCEPT ![a] = [Read(a) EXCEPT !.ending = TRUE]]
      BY <1>7 DEF FlushCompleted
    <2>2. /\ app'[a] \in AppRec /\ SameBut(Read(a), app'[a]) /\ app'[a].reading = Read(a).reading
          /\ app'[a].asked = Read(a).asked /\ app'[a].loaded = Read(a).loaded
          /\ app'[a].running = Read(a).running /\ app'[a].out = Read(a).out
          /\ app'[a].pending = Read(a).pending /\ app'[a].reply = Read(a).reply
      BY <1>1, <1>4, <2>1 DEF AppRec, SameBut
    <2>3. OnlyMoves(a)
      BY <1>1, <2>1, <2>2 DEF OnlyMoves
    <2>4. QED
      BY <1>2, <1>3, <1>4, <1>7, <2>2, <2>3 DEF SameBut
  <1>8. QED
    BY <1>5, <1>6, <1>7

-----------------------------------------------------------------------------
(* What a step does to the clients *)

AllShrink == /\ app' \in [Apps -> AppRec]
             /\ \A a \in Apps : Shrinks(app[a], app'[a]) /\ (app[a].proc = "none" => app'[a] = app[a])

\* The steps of the app-server and of the client that reads it.
Talks(a) ==
    \/ \E call \in Calls, ok \in BOOLEAN : ServerReplies(a, call, ok)
    \/ \E p \in Prompts, n \in 1 .. Len(NoteOrder), text \in BOOLEAN : ServerTells(a, p, n, text)
    \/ HandleReply(a) \/ HandleNote(a) \/ FlushCompleted(a)

Asks == ThreadAsk \/ (TurnAsk /\ pump.app # 0)
Takes == ThreadLoaded \/ ThreadFails \/ TurnAccepted \/ TurnFails

\* A client is closed, or ends by itself.
Ends == \/ Install \/ Stop
        \/ \E c \in Closers : CloseApp(c)
        \/ \E a \in Apps : ServerExits(a) \/ ReadEnds(a) \/ WaitEnds(a) \/ EndCompleted(a)

\* The steps that leave the clients alone.
Aside == \/ PumpTake \/ PumpExit \/ DaemonStarted \/ ProbeFail \/ ThreadReady \/ ThreadNoApp
         \/ TurnSetup \/ (TurnAsk /\ pump.app = 0) \/ TurnErrorIgnored \/ TurnErrorEnds
         \/ \E c \in Closers : CloseTake(c)
         \/ \E p \in Prompts : Send(p) \/ Age(p) \/ WatchdogEnds(p) \/ WatchdogSkips(p) \/ ShowApproval(p)
         \/ ReaperEnds

\* Every step is one of these.
LEMMA Kinds ==
  ASSUME [Next]_vars
  PROVE  \/ \E a \in Apps : ProbeOk(a)
         \/ \E a \in Apps : Talks(a)
         \/ Asks \/ Takes \/ Ends \/ Aside \/ UNCHANGED vars
  BY DEF Next, Talks, Asks, Takes, Ends, Aside

LEMMA ShrinksSame ==
  ASSUME NEW r \in AppRec
  PROVE  Shrinks(r, r)
  BY DEF Shrinks, Goes

LEMMA AsideApps ==
  ASSUME Aside \/ UNCHANGED vars
  PROVE  app' = app
  BY DEF Aside, vars, PumpTake, PumpExit, DaemonStarted, ProbeFail, ThreadReady, ThreadNoApp, TurnSetup,
     TurnAsk, TurnErrorIgnored, TurnErrorEnds, CloseTake, Send, Age, WatchdogEnds, WatchdogSkips,
     ShowApproval, ReaperEnds

LEMMA EndsShrink ==
  ASSUME Base, Turns, Ends
  PROVE  AllShrink
  <1>1. app \in [Apps -> AppRec] /\ \A a \in Apps : app[a] \in AppRec
    BY DEF Base, TypeOK
  <1>2. ASSUME NEW a \in Apps, NEW q \in AppRec, Shrinks(app[a], q), app[a].proc # "none",
               app' = [app EXCEPT ![a] = q]
        PROVE  AllShrink
    BY <1>1, <1>2, ShrinksSame DEF AllShrink
  <1>3. ASSUME app' = app
        PROVE  AllShrink
    BY <1>1, <1>3, ShrinksSame DEF AllShrink
  <1>4. CASE Install
    <2>1. pump.app \in Apps /\ app[pump.app].proc # "none"
      BY <1>4 DEF Install, Base, TypeOK, AppsMade
    <2>2. PICK a \in Apps : a = pump.app
      BY <2>1
    <2>3. Shrinks(app[a], Closed(app[a])) /\ Closed(app[a]) \in AppRec
      BY <1>1, ClosedRec DEF Shrinks, Goes
    <2>4. app' = app \/ app' = [app EXCEPT ![a] = Closed(app[a])]
      BY <1>1, <1>4, <2>2 DEF Install
    <2>5. QED
      BY <1>2, <1>3, <2>1, <2>2, <2>3, <2>4
  <1>5. CASE Stop
    <2>1. app' = [a \in Apps |-> IF app[a].proc = "none" THEN app[a] ELSE Gone(app[a])]
      BY <1>5 DEF Stop
    <2>2. \A a \in Apps : Shrinks(app[a], Gone(app[a])) /\ Gone(app[a]) \in AppRec
      BY <1>1, GoneRec DEF Shrinks, Goes
    <2>3. QED
      BY <1>1, <2>1, <2>2, ShrinksSame DEF AllShrink
  <1>6. CASE \E c \in Closers : CloseApp(c)
    <2>1. PICK c \in Closers : CloseApp(c)
      BY <1>6
    <2>2. CASE closer[c].app = 0
      BY <1>3, <2>1, <2>2 DEF CloseApp
    <2>3. CASE closer[c].app # 0
      <3>1. PICK a \in Apps : a = closer[c].app
        BY <2>3 DEF Base, TypeOK
      <3>2. Shrinks(app[a], Closed(app[a])) /\ Closed(app[a]) \in AppRec
        BY <1>1, ClosedRec DEF Shrinks, Goes
      <3>3. app' = [app EXCEPT ![a] = Closed(app[a])]
        BY <1>1, <2>1, <2>3, <3>1 DEF CloseApp
      <3>4. app[a].proc # "none"
        BY <3>1, <2>3 DEF Turns
      <3>5. QED
        BY <1>2, <3>2, <3>3, <3>4
    <2>4. QED
      BY <2>2, <2>3
  <1>7. CASE \E a \in Apps : ServerExits(a) \/ ReadEnds(a) \/ WaitEnds(a) \/ EndCompleted(a)
    <2>1. PICK a \in Apps : ServerExits(a) \/ ReadEnds(a) \/ WaitEnds(a) \/ EndCompleted(a)
      BY <1>7
    <2>2. CASE ServerExits(a)
      <3>1. app' = [app EXCEPT ![a] = Dead(app[a])] /\ app[a].proc = "live"
        BY <1>1, <2>2 DEF ServerExits
      <3>2. Shrinks(app[a], Dead(app[a])) /\ Dead(app[a]) \in AppRec
        BY <1>1, DeadRec DEF Shrinks, Goes
      <3>3. QED
        BY <1>2, <3>1, <3>2
    <2>3. CASE ReadEnds(a)
      <3> DEFINE t == Refuse(app[a])
                 q == [t EXCEPT !.reading = FALSE, !.out = <<>>]
      <3>1. app' = [app EXCEPT ![a] = q] /\ app[a].proc = "dead"
        BY <2>3 DEF ReadEnds
      <3>2. Shrinks(app[a], t) /\ t \in AppRec
        BY <1>1, RefuseRec DEF Shrinks, Goes
      <3>3. Shrinks(t, q) /\ q \in AppRec
        <4> <<>> \in Seq(Lines)
          OBVIOUS
        <4> HIDE DEF t
        <4> QED
          BY <3>2 DEF Shrinks, Goes, AppRec
      <3>4. Shrinks(app[a], q)
        BY <1>1, <3>2, <3>3, ShrinksTwice
      <3> HIDE DEF q
      <3>5. QED
        BY <1>2, <3>1, <3>3, <3>4
    <2>4. CASE WaitEnds(a)
      <3> DEFINE t == Refuse(app[a])
                 q == [t EXCEPT !.closed = TRUE, !.done = TRUE]
      <3>1. app' = [app EXCEPT ![a] = q] /\ app[a].proc = "dead"
        BY <2>4 DEF WaitEnds
      <3>2. Shrinks(app[a], t) /\ t \in AppRec /\ t.proc = "dead"
        BY <1>1, <3>1, RefuseRec DEF Shrinks, Goes
      <3>3. Shrinks(t, q) /\ q \in AppRec
        <4> HIDE DEF t
        <4> QED
          BY <3>2 DEF Shrinks, Goes, AppRec
      <3>4. Shrinks(app[a], q)
        BY <1>1, <3>2, <3>3, ShrinksTwice
      <3> HIDE DEF q
      <3>5. QED
        BY <1>2, <3>1, <3>3, <3>4
    <2>5. CASE EndCompleted(a)
      <3> DEFINE q == [app[a] EXCEPT !.ending = FALSE]
      <3>1. app' = [app EXCEPT ![a] = q] /\ app[a].ending
        BY <1>1, <2>5 DEF EndCompleted
      <3>2. Shrinks(app[a], q) /\ q \in AppRec
        BY <1>1 DEF Shrinks, Goes, AppRec
      <3>3. app[a].proc # "none"
        BY <3>1 DEF Base, AppsMade, NoApp
      <3> HIDE DEF q
      <3>4. QED
        BY <1>2, <3>1, <3>2, <3>3
    <2>6. QED
      BY <2>1, <2>2, <2>3, <2>4, <2>5
  <1>8. QED
    BY <1>4, <1>5, <1>6, <1>7 DEF Ends

\* The pump makes a call: the client it makes it on, and the call.
LEMMA AsksDoes ==
  ASSUME Base, Asks
  PROVE  \E a \in Apps, call \in Calls :
            /\ app' = [app EXCEPT ![a] = Asked(app[a], call)] /\ OnlyMoves(a)
            /\ app[a].proc # "none" /\ app'[a] = Asked(app[a], call)
            /\ pump'.app = a /\ call.prompt = pump.prompt /\ pump'.prompt = pump.prompt
            /\ \/ ThreadAsk /\ a = codex /\ call.what = "thread" /\ pump'.pc = "thread_wait"
               \/ TurnAsk /\ a = pump.app /\ call.what = "turn" /\ pump'.pc = "turn_wait"
  <1>1. app \in [Apps -> AppRec] /\ pump \in PumpRec /\ codex \in Apps \cup {0}
    BY DEF Base, TypeOK, PumpRec
  <1>2. pump.pc \in {"thread", "turn_ask"} => pump.prompt \in Prompts
    BY <1>1 DEF Base, InOrder, PromptPcs, PumpRec
  <1>3. CASE ThreadAsk
    <2>1. PICK a \in Apps : a = codex
      BY <1>1, <1>3 DEF ThreadAsk
    <2>2. [what |-> "thread", prompt |-> pump.prompt] \in Calls
      BY <1>2, <1>3 DEF ThreadAsk, Calls
    <2>3. PICK call \in Calls : call = [what |-> "thread", prompt |-> pump.prompt]
      BY <2>2
    <2>4. app' = [app EXCEPT ![a] = Asked(app[a], call)] /\ app'[a] = Asked(app[a], call)
      BY <1>1, <1>3, <2>1, <2>3 DEF ThreadAsk
    <2>5. Asked(app[a], call) \in AppRec
      BY <1>1, AskedRec DEF Goes
    <2>6. OnlyMoves(a)
      BY <1>1, <2>4, <2>5 DEF OnlyMoves
    <2>7. app[a].proc # "none"
      BY <1>3, <2>1 DEF ThreadAsk, Base, AppsMade
    <2>8. pump'.app = a /\ call.prompt = pump.prompt /\ call.what = "thread" /\ pump'.pc = "thread_wait"
          /\ pump'.prompt = pump.prompt
      BY <1>1, <1>3, <2>1, <2>3 DEF ThreadAsk, PumpRec
    <2>9. QED
      BY <1>3, <2>1, <2>4, <2>6, <2>7, <2>8
  <1>4. CASE TurnAsk /\ pump.app # 0
    <2>1. PICK a \in Apps : a = pump.app
      BY <1>1, <1>4 DEF PumpRec
    <2>2. [what |-> "turn", prompt |-> pump.prompt] \in Calls
      BY <1>2, <1>4 DEF TurnAsk, Calls
    <2>3. PICK call \in Calls : call = [what |-> "turn", prompt |-> pump.prompt]
      BY <2>2
    <2>4. app' = [app EXCEPT ![a] = Asked(app[a], call)] /\ app'[a] = Asked(app[a], call)
      BY <1>1, <1>4, <2>1, <2>3 DEF TurnAsk
    <2>5. Asked(app[a], call) \in AppRec
      BY <1>1, AskedRec DEF Goes
    <2>6. OnlyMoves(a)
      BY <1>1, <2>4, <2>5 DEF OnlyMoves
    <2>7. app[a].proc # "none"
      BY <1>4, <2>1 DEF Base, AppsMade
    <2>8. pump'.app = a /\ call.prompt = pump.prompt /\ call.what = "turn" /\ pump'.pc = "turn_wait"
          /\ pump'.prompt = pump.prompt
      BY <1>1, <1>4, <2>1, <2>3 DEF TurnAsk, PumpRec
    <2>9. QED
      BY <1>4, <2>1, <2>4, <2>6, <2>7, <2>8
  <1>5. QED
    BY <1>3, <1>4 DEF Asks

\* The pump has its answer, or gives up.
LEMMA TakesDoes ==
  ASSUME Base, Takes
  PROVE  \E a \in Apps :
            /\ pump.app = a /\ app[a].proc # "none" /\ OnlyMoves(a)
            /\ app'[a] = Taken(app[a])
            /\ \/ pump.pc = "thread_wait" /\ (ThreadLoaded \/ ThreadFails)
               \/ pump.pc = "turn_wait" /\ (TurnAccepted \/ TurnFails)
  <1>1. app \in [Apps -> AppRec] /\ pump \in PumpRec
    BY DEF Base, TypeOK, PumpRec
  <1>2. \/ pump.pc = "thread_wait" /\ (ThreadLoaded \/ ThreadFails)
        \/ pump.pc = "turn_wait" /\ (TurnAccepted \/ TurnFails)
    BY DEF Takes, ThreadLoaded, ThreadFails, TurnAccepted, TurnFails
  <1>3. PICK a \in Apps : a = pump.app
    BY <1>1, <1>2 DEF Base, AppsMade, PumpRec
  <1>4. app[a].proc # "none"
    BY <1>3, Constants DEF Base, AppsMade
  <1>5. app' = [app EXCEPT ![a] = Taken(app[a])]
    BY <1>1, <1>3 DEF Takes, ThreadLoaded, ThreadFails, TurnAccepted, TurnFails
  <1>6. Taken(app[a]) \in AppRec
    BY <1>1, TakenRec DEF Goes
  <1>7. app'[a] = Taken(app[a]) /\ OnlyMoves(a)
    BY <1>1, <1>5, <1>6 DEF OnlyMoves
  <1>8. QED
    BY <1>2, <1>3, <1>4, <1>7

LEMMA ProbeDoes ==
  ASSUME Base, NEW a \in Apps, ProbeOk(a)
  PROVE  /\ OnlyMoves(a) /\ app[a] = NoApp
         /\ app'[a] = [NoApp EXCEPT !.proc = "live", !.reading = TRUE]
  <1>1. app \in [Apps -> AppRec] /\ app[a] = NoApp
    BY DEF ProbeOk, Base, TypeOK, AppsMade
  <1>2. app'[a] = [NoApp EXCEPT !.proc = "live", !.reading = TRUE]
    BY <1>1 DEF ProbeOk
  <1>3. app'[a] = [app[a] EXCEPT !.proc = "live", !.reading = TRUE] /\ app[a] \in AppRec
    BY <1>1, <1>2
  <1>4. app'[a] \in AppRec
    BY <1>3 DEF AppRec
  <1>5. QED
    BY <1>1, <1>2, <1>4 DEF ProbeOk, OnlyMoves

\* The client a that is read, or whose server writes, keeps all but its lines.
LEMMA TalksDoes ==
  ASSUME Base, NEW a \in Apps, Talks(a)
  PROVE  OnlyMoves(a) /\ SameBut(app[a], app'[a]) /\ app'[a].reading = app[a].reading
         /\ app[a].proc # "none"
  <1>1. TypeOK
    BY DEF Base
  <1>2. CASE \E call \in Calls, ok \in BOOLEAN : ServerReplies(a, call, ok)
    <2>1. PICK call \in Calls, ok \in BOOLEAN : ServerReplies(a, call, ok)
      BY <1>2
    <2>2. OnlyMoves(a) /\ SameBut(app[a], app'[a]) /\ app'[a].reading = app[a].reading
          /\ app[a].proc = "live"
      <3>1. Replied(a, call, ok)
        BY <1>1, <2>1, RepliesDoes, Zenon
      <3>2. QED
        BY <3>1 DEF Replied
    <2>3. QED
      BY <2>2
  <1>3. CASE \E p \in Prompts, n \in 1 .. Len(NoteOrder), text \in BOOLEAN : ServerTells(a, p, n, text)
    <2>1. PICK p \in Prompts, n \in 1 .. Len(NoteOrder), text \in BOOLEAN : ServerTells(a, p, n, text)
      BY <1>3
    <2>2. OnlyMoves(a) /\ SameBut(app[a], app'[a]) /\ app'[a].reading = app[a].reading
          /\ app[a].proc = "live"
      <3>1. Told(a, p, n, text)
        BY <1>1, <2>1, TellsDoes, Zenon
      <3>2. QED
        BY <3>1 DEF Told
    <2>3. QED
      BY <2>2
  <1>4. CASE HandleReply(a) \/ HandleNote(a) \/ FlushCompleted(a)
    BY <1>1, <1>4, ReadsDoes DEF Base, AppsMade, NoApp
  <1>5. QED
    BY <1>2, <1>3, <1>4 DEF Talks

LEMMA ClientsGo ==
  ASSUME Base, Turns, [Next]_vars
  PROVE  /\ app' \in [Apps -> AppRec]
         /\ \A a \in Apps : \/ Goes(app[a], app'[a]) /\ (app[a].proc = "none" => app'[a] = app[a])
                            \/ ProbeOk(a)
  <1>1. app \in [Apps -> AppRec] /\ \A a \in Apps : app[a] \in AppRec
    BY DEF Base, TypeOK
  <1>2. \A a \in Apps : Goes(app[a], app[a])
    BY <1>1 DEF Goes
  <1>3. CASE \E a \in Apps : ProbeOk(a)
    <2>1. PICK a \in Apps : ProbeOk(a)
      BY <1>3
    <2>2. OnlyMoves(a)
      BY <2>1, ProbeDoes
    <2>3. QED
      BY <1>2, <2>1, <2>2 DEF OnlyMoves
  <1>4. CASE \E a \in Apps : Talks(a)
    <2>1. PICK a \in Apps : Talks(a)
      BY <1>4
    <2>2. OnlyMoves(a) /\ SameBut(app[a], app'[a]) /\ app[a].proc # "none"
      BY <2>1, TalksDoes
    <2>3. Goes(app[a], app'[a])
      BY <2>2 DEF OnlyMoves, SameBut, Goes
    <2>4. QED
      BY <1>2, <2>2, <2>3 DEF OnlyMoves
  <1>5. CASE Asks
    <2>1. PICK a \in Apps, call \in Calls : OnlyMoves(a) /\ app[a].proc # "none" /\ app'[a] = Asked(app[a], call)
      BY <1>5, AsksDoes
    <2>2. Goes(app[a], app'[a])
      BY <1>1, <2>1, AskedRec
    <2>3. QED
      BY <1>2, <2>1, <2>2 DEF OnlyMoves
  <1>6. CASE Takes
    <2>1. PICK a \in Apps : OnlyMoves(a) /\ app[a].proc # "none" /\ app'[a] = Taken(app[a])
      BY <1>6, TakesDoes
    <2>2. Goes(app[a], app'[a])
      BY <1>1, <2>1, TakenRec
    <2>3. QED
      BY <1>2, <2>1, <2>2 DEF OnlyMoves
  <1>7. CASE Ends
    BY <1>7, EndsShrink DEF AllShrink, Shrinks
  <1>8. CASE Aside \/ UNCHANGED vars
    BY <1>1, <1>2, <1>8, AsideApps
  <1>9. QED
    BY <1>3, <1>4, <1>5, <1>6, <1>7, <1>8, Kinds

-----------------------------------------------------------------------------
(* Who moves what *)

LEMMA TalksFrame ==
  ASSUME NEW a \in Apps, Talks(a)
  PROVE  /\ UNCHANGED <<sent, inbox, pump, codex, thread, turn, closer, aged, stopped, awaiting, ends>>
         /\ item' = item \/ HandleNote(a) \/ FlushCompleted(a)
  BY DEF Talks, ServerReplies, ServerTells, HandleReply, HandleNote, FlushCompleted

LEMMA ClientFrame ==
  ASSUME NEW a \in Apps, ServerExits(a) \/ ReadEnds(a) \/ WaitEnds(a)
  PROVE  UNCHANGED <<sent, inbox, pump, codex, thread, turn, item, closer, aged, stopped, awaiting, ends>>
  BY DEF ServerExits, ReadEnds, WaitEnds

\* The steps of the closers, of the watchdogs and of the session, and those that end a turn.
LEMMA CloserFrame ==
  ASSUME NEW c \in Closers, CloseTake(c) \/ CloseApp(c)
  PROVE  UNCHANGED <<sent, inbox, turn, item, aged, stopped, ends>>
  BY DEF CloseTake, CloseApp

LEMMA PromptFrame ==
  ASSUME NEW p \in Prompts, Send(p) \/ Age(p) \/ WatchdogEnds(p) \/ WatchdogSkips(p) \/ ShowApproval(p)
  PROVE  /\ UNCHANGED <<pump, codex, thread, app, stopped, awaiting>>
         /\ UNCHANGED <<sent, inbox>> \/ Send(p)
         /\ UNCHANGED <<closer, aged>> \/ Age(p) \/ WatchdogEnds(p) \/ WatchdogSkips(p)
         /\ UNCHANGED <<turn, ends>> \/ WatchdogEnds(p)
         /\ UNCHANGED item \/ ShowApproval(p)
  BY DEF Send, Age, WatchdogEnds, WatchdogSkips, ShowApproval

\* The steps of the pump that do no more than move it.
PumpOnly == PumpExit \/ DaemonStarted \/ ThreadReady \/ TurnErrorIgnored
PumpFails == ProbeFail \/ ThreadNoApp
PumpAsks == ThreadAsk \/ TurnAsk

LEMMA PumpFrame ==
  /\ PumpOnly => UNCHANGED <<sent, inbox, codex, thread, turn, item, app, closer, aged, stopped, awaiting, ends>>
  /\ PumpFails => UNCHANGED <<sent, inbox, codex, thread, turn, item, app, closer, aged, stopped, ends>>
  /\ PumpAsks => UNCHANGED <<sent, inbox, codex, thread, turn, item, closer, aged, stopped, awaiting, ends>>
  /\ Takes => UNCHANGED <<sent, inbox, codex, turn, item, closer, aged, stopped, ends>>
  /\ (Takes /\ ~ThreadFails) => UNCHANGED awaiting
  /\ (Takes /\ ~ThreadLoaded) => UNCHANGED thread
  BY DEF PumpOnly, PumpFails, PumpAsks, Takes, PumpExit, DaemonStarted, ThreadReady, TurnErrorIgnored, ProbeFail,
     ThreadNoApp, ThreadAsk, TurnAsk, ThreadLoaded, ThreadFails, TurnAccepted, TurnFails

\* Every step, in the groups whose frames are stated above.
LEMMA Groups ==
  ASSUME [Next]_vars
  PROVE  \/ PumpOnly \/ PumpFails \/ PumpAsks \/ Takes
         \/ PumpTake \/ Install \/ TurnSetup \/ TurnErrorEnds \/ ReaperEnds \/ Stop
         \/ \E a \in Apps : ProbeOk(a)
         \/ \E a \in Apps : Talks(a)
         \/ \E a \in Apps : EndCompleted(a)
         \/ \E a \in Apps : ServerExits(a) \/ ReadEnds(a) \/ WaitEnds(a)
         \/ \E c \in Closers : CloseTake(c) \/ CloseApp(c)
         \/ \E p \in Prompts : Send(p) \/ Age(p) \/ WatchdogEnds(p) \/ WatchdogSkips(p) \/ ShowApproval(p)
         \/ UNCHANGED vars
  BY DEF Next, Talks, Takes, PumpOnly, PumpFails, PumpAsks

LEMMA WhoMovesItem ==
  ASSUME [Next]_vars
  PROVE  \/ item' = item
         \/ \E a \in Apps : HandleNote(a) \/ FlushCompleted(a)
         \/ \E p \in Prompts : ShowApproval(p)
  BY Groups, TalksFrame, ClientFrame, CloserFrame, PromptFrame, PumpFrame
  DEF vars, PumpTake, Install, TurnSetup, TurnErrorEnds, ReaperEnds, Stop, ProbeOk, EndCompleted

LEMMA WhoMovesPump ==
  ASSUME [Next]_vars
  PROVE  \/ UNCHANGED <<pump, inbox, sent>>
         \/ PumpOnly \/ PumpFails \/ PumpAsks \/ Takes \/ PumpTake \/ Install \/ TurnSetup \/ TurnErrorEnds
         \/ \E a \in Apps : ProbeOk(a)
         \/ CloseApp(Pump)
         \/ \E p \in Prompts : Send(p)
  BY Groups, TalksFrame, ClientFrame, CloserFrame, PromptFrame
  DEF vars, ReaperEnds, Stop, EndCompleted, CloseTake, CloseApp

LEMMA WhoMovesAwaiting ==
  ASSUME [Next]_vars
  PROVE  \/ awaiting' = awaiting
         \/ awaiting' = {}
         \/ PumpTake
  BY Groups, TalksFrame, ClientFrame, CloserFrame, PromptFrame, PumpFrame
  DEF vars, PumpFails, Install, TurnSetup, TurnErrorEnds, ReaperEnds, Stop, ProbeOk, EndCompleted, CloseTake, CloseApp,
      PromptReady, FailPrompt, ThreadFails, ThreadNoApp, ProbeFail

LEMMA WhoMovesCloser ==
  ASSUME [Next]_vars
  PROVE  /\ \/ UNCHANGED <<closer, aged>>
            \/ \E c \in Closers : CloseTake(c) \/ CloseApp(c)
            \/ \E p \in Prompts : Age(p) \/ WatchdogEnds(p) \/ WatchdogSkips(p)
            \/ ReaperEnds \/ TurnSetup \/ TurnErrorEnds \/ Stop
         /\ stopped' = stopped \/ Stop
  BY Groups, TalksFrame, ClientFrame, CloserFrame, PromptFrame, PumpFrame
  DEF vars, PumpTake, Install, ProbeOk, EndCompleted, TurnSetup, TurnErrorEnds, ReaperEnds

LEMMA WhoMovesCodex ==
  ASSUME [Next]_vars
  PROVE  /\ \/ UNCHANGED <<codex, thread>>
            \/ \E c \in Closers : CloseTake(c)
            \/ Install \/ ThreadLoaded
         /\ codex' = codex \/ Install \/ \E c \in Closers : CloseTake(c)
  BY Groups, TalksFrame, ClientFrame, PromptFrame, PumpFrame
  DEF vars, PumpTake, ProbeOk, EndCompleted, TurnSetup, TurnErrorEnds, ReaperEnds, Stop, CloseApp

LEMMA WhoMovesTurn ==
  ASSUME [Next]_vars
  PROVE  \/ UNCHANGED <<turn, ends>>
         \/ TurnSetup \/ TurnErrorEnds \/ ReaperEnds
         \/ \E p \in Prompts : WatchdogEnds(p)
         \/ \E a \in Apps : EndCompleted(a)
  BY Groups, TalksFrame, ClientFrame, CloserFrame, PromptFrame, PumpFrame
  DEF vars, PumpTake, Install, ProbeOk, Stop

-----------------------------------------------------------------------------
(* Types are kept *)

LEMMA ItemSteps ==
  ASSUME NEW r \in ItemRec
  PROVE  /\ UseTool(r) \in ItemRec
         /\ [UseTool(r) EXCEPT !.approval = FALSE] \in ItemRec
         /\ \A n \in {"delta", "item", "tool_started", "approval", "completed"}, text \in BOOLEAN :
              AfterNote(r, n, text) \in ItemRec
  <1>0. r.rows + 1 \in Nat /\ r.toolRows + 1 \in Nat
    BY DEF ItemRec
  <1>1. UseTool(r) \in ItemRec
    <2>1. [r EXCEPT !.toolUsed = TRUE, !.toolRows = r.toolRows + 1] \in ItemRec
      BY <1>0 DEF ItemRec
    <2>2. QED
      BY <2>1 DEF UseTool
  <1>2. [UseTool(r) EXCEPT !.approval = FALSE] \in ItemRec
    <2> DEFINE q == UseTool(r)
    <2>1. q \in ItemRec
      BY <1>1
    <2> HIDE DEF q
    <2>2. [q EXCEPT !.approval = FALSE] \in ItemRec
      BY <2>1 DEF ItemRec
    <2>3. QED
      BY <2>2 DEF q
  <1>3. \A text \in BOOLEAN : Finish(r, text) \in ItemRec
    <2>1. [r EXCEPT !.emitted = TRUE, !.rows = r.rows + 1] \in ItemRec
      BY <1>0 DEF ItemRec
    <2>2. [r EXCEPT !.emitted = TRUE, !.rows = r.rows] \in ItemRec
      BY DEF ItemRec
    <2>3. \A text \in BOOLEAN : \/ Finish(r, text) = [r EXCEPT !.emitted = TRUE, !.rows = r.rows + 1]
                              \/ Finish(r, text) = [r EXCEPT !.emitted = TRUE, !.rows = r.rows]
      BY DEF Finish
    <2>4. QED
      BY <2>1, <2>2, <2>3
  <1>4. [r EXCEPT !.text = TRUE] \in ItemRec /\ [r EXCEPT !.approval = TRUE] \in ItemRec
    BY DEF ItemRec
  <1>5. QED
    BY <1>1, <1>2, <1>3, <1>4 DEF AfterNote

LEMMA ItemsKept ==
  ASSUME TypeOK, [Next]_vars
  PROVE  item' \in [Prompts -> ItemRec]
  <1>1. item \in [Prompts -> ItemRec]
    BY DEF TypeOK, ItemRec
  <1>4. ASSUME NEW a \in Apps, HandleNote(a)
        PROVE  item' \in [Prompts -> ItemRec]
    <2>1. Line(a) \in Lines /\ Line(a).kind = "note"
      BY <1>4, ReadsDoes DEF HandleNote
    <2>2. Line(a).n \in 1 .. Len(NoteOrder) /\ Line(a).text \in BOOLEAN /\ Line(a).prompt \in Prompts
      BY <2>1 DEF Lines
    <2>3. NoteOf(a) \in {"delta", "item", "tool_started", "approval", "completed"}
      BY <2>2, Constants DEF NoteOf, NoteOrder
    <2>4. AfterNote(item[Line(a).prompt], NoteOf(a), Line(a).text) \in ItemRec
      BY <1>1, <2>2, <2>3, ItemSteps
    <2>5. item' = [item EXCEPT ![Line(a).prompt] = AfterNote(item[Line(a).prompt], NoteOf(a), Line(a).text)]
      BY <1>1, <1>4, <2>2 DEF HandleNote
    <2>6. QED
      BY <1>1, <2>4, <2>5
  <1>5. ASSUME NEW a \in Apps, FlushCompleted(a)
        PROVE  item' \in [Prompts -> ItemRec]
    <2>1. ASSUME NEW p \in Prompts
          PROVE  item'[p] \in ItemRec
      <3> DEFINE over == item[p].over \/ p = Line(a).prompt
                 r == [item[p] EXCEPT !.over = over]
      <3>1. r \in ItemRec
        <4>1. over \in BOOLEAN
          BY <1>1 DEF ItemRec
        <4> HIDE DEF over
        <4>2. QED
          BY <1>1, <4>1 DEF ItemRec
      <3>2. item'[p] = IF p \in Unemitted THEN [r EXCEPT !.emitted = TRUE, !.rows = @ + 1] ELSE r
        BY <1>5 DEF FlushCompleted
      <3> HIDE DEF r
      <3>3. r.rows + 1 \in Nat
        BY <3>1 DEF ItemRec
      <3>4. [r EXCEPT !.emitted = TRUE, !.rows = r.rows + 1] \in ItemRec
        BY <3>1, <3>3 DEF ItemRec
      <3>5. QED
        BY <3>1, <3>2, <3>4
    <2>2. item' = [p \in Prompts |-> item'[p]]
      BY <1>5 DEF FlushCompleted
    <2>3. QED
      BY <2>1, <2>2
  <1>6. ASSUME NEW p \in Prompts, ShowApproval(p)
        PROVE  item' \in [Prompts -> ItemRec]
    <2>1. item' = [item EXCEPT ![p] = [UseTool(item[p]) EXCEPT !.approval = FALSE]]
      BY <1>1, <1>6 DEF ShowApproval
    <2>2. QED
      BY <1>1, <2>1, ItemSteps
  <1>7. QED
    BY <1>1, <1>4, <1>5, <1>6, WhoMovesItem

LEMMA PumpKept ==
  ASSUME TypeOK, [Next]_vars
  PROVE  pump' \in PumpRec /\ inbox' \in Seq(Prompts) /\ sent' \in 0 .. MaxPrompts
  <1>1. pump \in PumpRec /\ inbox \in Seq(Prompts) /\ sent \in 0 .. MaxPrompts /\ codex \in Apps \cup {0}
    BY DEF TypeOK, PumpRec
  <1>2. CASE PumpTake
    <2>1. Head(inbox) \in Prompts /\ Tail(inbox) \in Seq(Prompts)
      BY <1>1, <1>2 DEF PumpTake
    <2>2. QED
      BY <1>1, <1>2, <2>1 DEF PumpTake, PumpRec, PumpPcs, Attempts, FirstAttempt
  <1>3. CASE \E p \in Prompts : Send(p)
    BY <1>1, <1>3 DEF Send, Prompts
  <1>11. UNCHANGED <<inbox, sent>> \/ PumpTake \/ \E p \in Prompts : Send(p)
    BY Groups, TalksFrame, ClientFrame, CloserFrame, PromptFrame, PumpFrame
    DEF vars, ReaperEnds, Stop, EndCompleted, Install, TurnSetup, TurnErrorEnds, ProbeOk
  <1>4. FailPrompt => pump' \in PumpRec
    BY <1>1 DEF FailPrompt, AtRest, PumpRec, PumpPcs, Attempts
  <1>5. CASE PumpOnly \/ PumpFails
    <2>1. AfterFailure(pump.try) \in Attempts
      BY DEF AfterFailure, Attempts
    <2>2. QED
      BY <1>1, <1>4, <1>5, <2>1 DEF PumpOnly, PumpFails, PumpExit, DaemonStarted, ThreadReady, ThreadNoApp,
         ProbeFail, TurnErrorIgnored, AtRest, PumpRec, PumpPcs, Attempts
  <1>6. CASE Install \/ PumpAsks \/ \E a \in Apps : ProbeOk(a)
    BY <1>1, <1>6 DEF Install, PumpAsks, ThreadAsk, TurnAsk, ProbeOk, PumpRec, PumpPcs, Attempts
  <1>7. CASE Takes
    <2>1. CASE ThreadLoaded \/ ThreadFails
      BY <1>1, <1>4, <2>1 DEF ThreadLoaded, ThreadFails, PumpRec, PumpPcs
    <2>2. CASE TurnAccepted \/ TurnFails
      <3>1. /\ \A pc \in {"turn_err", "turn_late"} : [pump EXCEPT !.pc = pc, !.app = 0] \in PumpRec
            /\ AtRest \in PumpRec
        BY <1>1 DEF PumpRec, PumpPcs, AtRest, Attempts
      <3>2. (\E pc \in {"turn_err", "turn_late"} : pump' = [pump EXCEPT !.pc = pc, !.app = 0]) \/ pump' = AtRest
        BY <2>2 DEF TurnAccepted, TurnFails
      <3>3. inbox' = inbox /\ sent' = sent
        BY <2>2 DEF TurnAccepted, TurnFails
      <3>4. QED
        BY <1>1, <3>1, <3>2, <3>3
    <2>3. QED
      BY <1>7, <2>1, <2>2 DEF Takes
  <1>8. CASE TurnSetup \/ TurnErrorEnds
    <2>1. CASE TurnSetup
      BY <1>1, <2>1 DEF TurnSetup, PumpRec, PumpPcs
    <2>2. CASE TurnErrorEnds
      <3>1. [pump EXCEPT !.pc = "closing"] \in PumpRec /\ AtRest \in PumpRec
        BY <1>1 DEF PumpRec, PumpPcs, AtRest, Attempts
      <3>2. pump' = [pump EXCEPT !.pc = "closing"] \/ pump' = AtRest
        BY <2>2 DEF TurnErrorEnds
      <3>3. inbox' = inbox /\ sent' = sent
        BY <2>2 DEF TurnErrorEnds
      <3>4. QED
        BY <1>1, <3>1, <3>2, <3>3
    <2>3. QED
      BY <1>8, <2>1, <2>2
  <1>9. CASE CloseApp(Pump)
    BY <1>1, <1>9 DEF CloseApp, PumpRec, PumpPcs, Attempts, AtRest
  <1>10. CASE UNCHANGED <<pump, inbox, sent>>
    BY <1>1, <1>10
  <1>12. QED
    BY <1>1, <1>2, <1>3, <1>5, <1>6, <1>7, <1>8, <1>9, <1>10, <1>11, WhoMovesPump

LEMMA AwaitingKept ==
  ASSUME TypeOK, [Next]_vars
  PROVE  awaiting' \subseteq Prompts
  <1>1. CASE PumpTake
    <2>1. Head(inbox) \in Prompts
      BY <1>1 DEF PumpTake, TypeOK
    <2>2. QED
      BY <1>1, <2>1 DEF PumpTake, TypeOK
  <1>2. QED
    BY <1>1, WhoMovesAwaiting DEF TypeOK

LEMMA ClosersKept ==
  ASSUME TypeOK, InOrder, [Next]_vars
  PROVE  closer' \in [Closers -> CloserRec] /\ codex' \in Apps \cup {0} /\ aged' \subseteq Prompts
         /\ thread' \in BOOLEAN /\ stopped' \in BOOLEAN
  <1>1. closer \in [Closers -> CloserRec] /\ codex \in Apps \cup {0} /\ aged \subseteq Prompts
        /\ thread \in BOOLEAN /\ stopped \in BOOLEAN /\ pump \in PumpRec
    BY DEF TypeOK, PumpRec, CloserRec
  <1>2. codex' \in Apps \cup {0}
    BY <1>1, WhoMovesCodex DEF Install, CloseTake, PumpRec
  <1>3. thread' \in BOOLEAN
    BY <1>1, WhoMovesCodex DEF Install, CloseTake, ThreadLoaded
  <1>4. stopped' \in BOOLEAN
    BY <1>1, WhoMovesCloser DEF Stop
  <1>5. aged' \subseteq Prompts
    BY <1>1, WhoMovesCloser DEF CloseTake, CloseApp, Age, WatchdogEnds, WatchdogSkips, ReaperEnds, TurnSetup,
       TurnErrorEnds, Stop
  <1>6. \A r \in CloserRec, pc \in {"off", "armed", "take", "close"} : [r EXCEPT !.pc = pc] \in CloserRec
    BY DEF CloserRec
  <1>60. ASSUME NEW c \in Closers, NEW pc \in {"off", "armed", "take", "close"},
                closer' = [closer EXCEPT ![c].pc = pc]
         PROVE  closer' \in [Closers -> CloserRec]
    <2>1. closer' = [closer EXCEPT ![c] = [closer[c] EXCEPT !.pc = pc]]
      BY <1>1, <1>60
    <2>2. QED
      BY <1>1, <1>6, <2>1
  <1>7. ASSUME NEW c \in Closers, CloseTake(c) \/ CloseApp(c)
        PROVE  closer' \in [Closers -> CloserRec]
    BY <1>1, <1>7 DEF CloseTake, CloseApp, CloserRec
  <1>8. ASSUME NEW p \in Prompts, Age(p) \/ WatchdogEnds(p) \/ WatchdogSkips(p)
        PROVE  closer' \in [Closers -> CloserRec]
    <2>1. p \in Closers
      BY Constants
    <2>2. closer' = closer \/ (\E pc \in {"off", "take"} : closer' = [closer EXCEPT ![p].pc = pc])
      BY <1>8 DEF Age, WatchdogEnds, WatchdogSkips
    <2>3. QED
      BY <1>1, <1>60, <2>1, <2>2
  <1>9. CASE ReaperEnds \/ TurnSetup \/ TurnErrorEnds
    <2>1. \/ ReaperEnds /\ closer' = [closer EXCEPT ![Reaper].pc = "take"]
          \/ TurnSetup /\ closer' = [closer EXCEPT ![pump.prompt].pc = "armed"]
          \/ TurnErrorEnds /\ (closer' = closer \/ closer' = [closer EXCEPT ![Pump].pc = "take"])
      BY <1>9 DEF ReaperEnds, TurnSetup, TurnErrorEnds
    <2>2. TurnSetup => pump.prompt \in Closers
      BY Constants, <1>1 DEF TurnSetup, InOrder, PumpRec, PromptPcs
    <2>3. closer' \in [Closers -> CloserRec]
      BY <1>1, <1>60, <2>1, <2>2, Constants
    <2>4. QED
      BY <1>2, <1>3, <1>4, <1>5, <2>3
  <1>10. CASE Stop
    BY <1>1, <1>6, <1>10 DEF Stop
  <1>11. QED
    BY <1>1, <1>2, <1>3, <1>4, <1>5, <1>7, <1>8, <1>9, <1>10, WhoMovesCloser

LEMMA TurnKept ==
  ASSUME TypeOK, InOrder, Turns, [Next]_vars
  PROVE  turn' \in [inFlight : BOOLEAN, cur : Prompts \cup {NoPrompt}] /\ ends' \in [Prompts -> Nat]
  <1>1. /\ turn \in [inFlight : BOOLEAN, cur : Prompts \cup {NoPrompt}] /\ ends \in [Prompts -> Nat]
        /\ pump \in PumpRec
    BY DEF TypeOK, PumpRec
  <1>2. EndTurn => turn' \in [inFlight : BOOLEAN, cur : Prompts \cup {NoPrompt}]
    BY DEF EndTurn
  <1>3. \A p \in Prompts : Ended(p) => ends' \in [Prompts -> Nat]
    BY <1>1 DEF Ended
  <1>4. CASE TurnSetup
    BY <1>1, <1>4 DEF TurnSetup, PumpRec
  <1>5. CASE TurnErrorEnds
    <2>1. pump.prompt \in Prompts
      BY <1>1, <1>5 DEF TurnErrorEnds, InOrder, PromptPcs, PumpRec
    <2>2. QED
      BY <1>2, <1>3, <1>5, <2>1 DEF TurnErrorEnds
  <1>6. CASE \E p \in Prompts : WatchdogEnds(p)
    BY <1>2, <1>3, <1>6 DEF WatchdogEnds
  <1>7. turn.inFlight => turn.cur \in Prompts
    BY <1>1 DEF Turns
  <1>8. CASE ReaperEnds
    BY <1>2, <1>3, <1>7, <1>8 DEF ReaperEnds
  <1>9. CASE \E a \in Apps : EndCompleted(a)
    BY <1>1, <1>2, <1>7, <1>9 DEF EndCompleted
  <1>10. QED
    BY <1>1, <1>4, <1>5, <1>6, <1>8, <1>9, WhoMovesTurn

LEMMA TypesKept ==
  ASSUME Base, Turns, [Next]_vars
  PROVE  TypeOK'
  BY ClientsGo, ItemsKept, PumpKept, AwaitingKept, ClosersKept, TurnKept
  DEF Base, TypeOK, PumpRec, ItemRec, CloserRec

-----------------------------------------------------------------------------
(* The prompts are taken in order, and the clients in use have been made *)

\* Where the pump goes from its calls, and when a turn/start has failed.
LEMMA TakesPump ==
  ASSUME Base, Takes
  PROVE  /\ pump'.app = 0
         /\ \/ ThreadFails /\ pump'.prompt = NoPrompt /\ pump'.pc \in {"idle", "failed"}
            \/ TurnAccepted /\ pump' = AtRest
            \/ ThreadLoaded /\ pump'.prompt = pump.prompt /\ pump.pc = "thread_wait" /\ pump'.pc = "turn"
            \/ /\ TurnFails /\ pump'.prompt = pump.prompt /\ pump.pc = "turn_wait"
               /\ pump'.pc \in {"turn_err", "turn_late"}
  <1>1. pump \in PumpRec
    BY DEF Base, TypeOK, PumpRec
  <1>2. CASE ThreadFails
    BY <1>2 DEF ThreadFails, FailPrompt, AtRest
  <1>3. CASE TurnAccepted
    BY <1>3 DEF TurnAccepted, AtRest
  <1>4. CASE ThreadLoaded
    BY <1>1, <1>4 DEF ThreadLoaded, PumpRec
  <1>5. CASE TurnFails
    BY <1>1, <1>5 DEF TurnFails, PumpRec
  <1>6. QED
    BY <1>2, <1>3, <1>4, <1>5 DEF Takes

LEMMA ErrorPump ==
  ASSUME Base, TurnErrorEnds
  PROVE  /\ sent' = sent /\ inbox' = inbox /\ pump'.app = 0 /\ pump.prompt = turn.cur
         /\ \/ pump.pc = "turn_err" /\ pump' = AtRest /\ PromptReady /\ closer' = closer
            \/ /\ pump.pc = "turn_late" /\ pump'.pc = "closing" /\ pump'.prompt = pump.prompt
               /\ closer' = [closer EXCEPT ![Pump].pc = "take"] /\ awaiting' = awaiting
  <1>1. pump \in PumpRec /\ AppsMade
    BY DEF Base, TypeOK, PumpRec
  <1>2. CASE pump.pc = "turn_late"
    BY <1>1, <1>2 DEF TurnErrorEnds, PumpRec, AppsMade
  <1>3. CASE pump.pc = "turn_err"
    BY <1>1, <1>3 DEF TurnErrorEnds, AtRest
  <1>4. QED
    BY <1>2, <1>3 DEF TurnErrorEnds

LEMMA OrderKept ==
  ASSUME Base, [Next]_vars
  PROVE  InOrder' /\ \A p \in Prompts : Fresh(p)' => Fresh(p)
  <1>1. /\ pump \in PumpRec /\ inbox \in Seq(Prompts) /\ sent \in Nat /\ InOrder /\ Len(inbox) \in Nat
        /\ MaxPrompts \in Nat
    BY Constants DEF Base, TypeOK, PumpRec
  <1>2. CASE PumpTake
    <2>1. inbox # <<>> /\ inbox' = Tail(inbox) /\ sent' = sent
      BY <1>2 DEF PumpTake
    <2>2. Len(inbox) > 0 /\ Len(inbox') = Len(inbox) - 1 /\ Head(inbox) = inbox[1]
          /\ \A i \in 1 .. Len(inbox') : inbox'[i] = inbox[i + 1]
      BY <1>1, <2>1
    <2>3. Head(inbox) = TakenUpTo + 1 /\ TakenUpTo' = TakenUpTo + 1 /\ TakenUpTo \in Nat
      BY <1>1, <2>1, <2>2 DEF InOrder, TakenUpTo
    <2>4. pump.pc = "idle" /\ pump'.prompt = Head(inbox) /\ pump'.pc \in {"probe", "thread"}
      BY <1>1, <1>2 DEF PumpTake, PumpRec
    <2>5. InOrder'
      <3>1. (Len(inbox) <= sent)' /\ (pump.prompt \in {NoPrompt, TakenUpTo})'
        BY <1>1, <2>1, <2>2, <2>3, <2>4 DEF InOrder
      <3>2. \A i \in 1 .. Len(inbox') : inbox'[i] = TakenUpTo' + i
        BY <1>1, <2>2, <2>3 DEF InOrder
      <3>3. pump'.prompt # NoPrompt
        BY <2>3, <2>4 DEF NoPrompt
      <3>4. QED
        BY <3>1, <3>2, <3>3, <2>4 DEF InOrder
    <2>6. ASSUME NEW p \in Prompts, Fresh(p)'
          PROVE  Fresh(p)
      <3>1. p \in Nat /\ (p > TakenUpTo' \/ p = TakenUpTo + 1)
        BY <2>3, <2>4, <2>6, Constants DEF Fresh
      <3>2. QED
        BY <2>3, <3>1 DEF Fresh
    <2>7. QED
      BY <2>5, <2>6
  <1>3. ASSUME NEW q \in Prompts, Send(q)
        PROVE  InOrder' /\ \A p \in Prompts : Fresh(p)' => Fresh(p)
    <2>1. sent' = sent + 1 /\ q = sent + 1 /\ inbox' = Append(inbox, q) /\ pump' = pump
      BY <1>3 DEF Send
    <2>2. /\ Len(inbox') = Len(inbox) + 1 /\ inbox'[Len(inbox) + 1] = q
          /\ \A i \in 1 .. Len(inbox) : inbox'[i] = inbox[i]
      BY <1>1, <2>1
    <2>3. TakenUpTo' = TakenUpTo
      BY <1>1, <2>1, <2>2 DEF TakenUpTo
    <2>4. \A i \in 1 .. Len(inbox') : inbox'[i] = TakenUpTo + i
      <3>1. TAKE i \in 1 .. Len(inbox')
      <3>2. CASE i = Len(inbox) + 1
        BY <1>1, <2>1, <2>2, <3>2 DEF TakenUpTo
      <3>3. CASE i # Len(inbox) + 1
        <4>1. i \in 1 .. Len(inbox)
          BY <1>1, <2>2, <3>3
        <4>2. QED
          BY <1>1, <2>2, <4>1 DEF InOrder
      <3>4. QED
        BY <3>2, <3>3
    <2>5. InOrder'
      BY <1>1, <2>1, <2>2, <2>3, <2>4 DEF InOrder
    <2>6. QED
      BY <2>1, <2>3, <2>5 DEF Fresh
  <1>4. ASSUME sent' = sent, inbox' = inbox,
               pump'.prompt \in {pump.prompt, NoPrompt},
               pump'.pc \in PromptPcs => pump'.prompt # NoPrompt,
               pump'.pc \in {"idle", "exited", "failed"} => pump'.prompt = NoPrompt,
               pump'.pc \in {"probe", "install", "thread", "thread_wait", "turn"} =>
                 pump.pc \in {"probe", "install", "thread", "thread_wait", "turn"}
        PROVE  InOrder' /\ \A p \in Prompts : Fresh(p)' => Fresh(p)
    <2>1. TakenUpTo' = TakenUpTo
      BY <1>4 DEF TakenUpTo
    <2>2. InOrder'
      BY <1>1, <1>4, <2>1 DEF InOrder
    <2>3. QED
      BY <1>4, <2>1, <2>2, Constants DEF Fresh
  <1>5. FailPrompt => pump'.prompt = NoPrompt /\ pump'.pc \in {"idle", "failed"}
    BY DEF FailPrompt, AtRest
  <1>6. CASE PumpOnly \/ PumpFails
    <2>1. \/ pump'.prompt = NoPrompt /\ pump'.pc \in {"idle", "failed", "exited"}
          \/ pump'.prompt = pump.prompt /\ pump.pc = "probe" /\ pump'.pc = "probe"
          \/ pump'.prompt = pump.prompt /\ pump.pc = "thread" /\ pump'.pc = "turn"
      BY <1>1, <1>5, <1>6 DEF PumpOnly, PumpFails, PumpExit, DaemonStarted, ThreadReady, TurnErrorIgnored,
         ProbeFail, ThreadNoApp, AtRest, PumpRec, InOrder
    <2>2. QED
      BY <1>1, <1>4, <1>6, <2>1, PumpFrame DEF InOrder, PromptPcs
  <1>7. CASE PumpAsks \/ Install \/ \E a \in Apps : ProbeOk(a)
    <2>1. /\ pump'.prompt = pump.prompt /\ sent' = sent /\ inbox' = inbox
          /\ \/ pump.pc = "thread" /\ pump'.pc = "thread_wait"
             \/ pump.pc = "turn_ask" /\ pump'.pc \in {"turn_wait", "crashed"}
             \/ pump.pc = "install" /\ pump'.pc = "thread" /\ pump.prompt # NoPrompt
             \/ pump.pc = "install" /\ pump'.pc = "idle" /\ pump.prompt = NoPrompt
             \/ pump.pc = "probe" /\ pump'.pc = "install"
      BY <1>1, <1>7 DEF PumpAsks, ThreadAsk, TurnAsk, Install, ProbeOk, PumpRec
    <2>2. QED
      BY <1>1, <1>4, <2>1 DEF InOrder, PromptPcs
  <1>8. CASE Takes
    <2>1. \/ pump'.prompt = NoPrompt /\ pump'.pc \in {"idle", "failed"}
          \/ pump'.prompt = pump.prompt /\ pump.pc = "thread_wait" /\ pump'.pc = "turn"
          \/ pump'.prompt = pump.prompt /\ pump.pc = "turn_wait" /\ pump'.pc \in {"turn_err", "turn_late"}
      BY <1>8, TakesPump DEF AtRest
    <2>2. QED
      BY <1>1, <1>4, <1>8, <2>1, PumpFrame DEF InOrder, PromptPcs
  <1>9. CASE TurnSetup \/ TurnErrorEnds
    <2>1. /\ sent' = sent /\ inbox' = inbox
          /\ \/ pump'.prompt = NoPrompt /\ pump'.pc = "idle"
             \/ pump'.prompt = pump.prompt /\ pump.pc = "turn" /\ pump'.pc = "turn_ask"
             \/ pump'.prompt = pump.prompt /\ pump.pc = "turn_late" /\ pump'.pc = "closing"
      <3>1. CASE TurnSetup
        BY <1>1, <3>1 DEF TurnSetup, PumpRec
      <3>2. CASE TurnErrorEnds
        BY <3>2, ErrorPump DEF AtRest
      <3>3. QED
        BY <1>9, <3>1, <3>2
    <2>2. QED
      BY <1>1, <1>4, <2>1 DEF InOrder, PromptPcs
  <1>10. CASE CloseApp(Pump)
    <2>1. sent' = sent /\ inbox' = inbox /\ pump'.prompt = NoPrompt /\ pump'.pc = "idle"
      BY <1>10 DEF CloseApp, AtRest
    <2>2. QED
      BY <1>4, <2>1 DEF PromptPcs
  <1>11. CASE UNCHANGED <<pump, inbox, sent>>
    BY <1>1, <1>4, <1>11 DEF InOrder
  <1>12. QED
    BY <1>2, <1>3, <1>6, <1>7, <1>8, <1>9, <1>10, <1>11, WhoMovesPump

LEMMA AppsKept ==
  ASSUME Base, Turns, [Next]_vars
  PROVE  AppsMade'
  <1>1. /\ app \in [Apps -> AppRec] /\ pump \in PumpRec /\ codex \in Apps \cup {0} /\ AppsMade
        /\ \A a \in Apps : app[a] \in AppRec
    BY DEF Base, TypeOK, PumpRec
  <1>2. \A a \in Apps : app[a].proc # "none" => app'[a].proc # "none"
    <2>1. TAKE a \in Apps
    <2>2. CASE ProbeOk(a)
      BY <2>2 DEF ProbeOk
    <2>3. CASE Goes(app[a], app'[a])
      BY <1>1, <2>3 DEF Goes
    <2>4. QED
      BY <2>2, <2>3, ClientsGo
  <1>3. \A a \in Apps : /\ app'[a].proc = "none" => app'[a] = NoApp
                        /\ app'[a].proc = "live" => ~app'[a].closed
    <2>1. TAKE a \in Apps
    <2>2. CASE ProbeOk(a)
      <3>1. app'[a] = [NoApp EXCEPT !.proc = "live", !.reading = TRUE]
        BY <2>2, ProbeDoes
      <3>2. QED
        BY <3>1 DEF NoApp
    <2>3. CASE Goes(app[a], app'[a]) /\ (app[a].proc = "none" => app'[a] = app[a])
      BY <1>1, <2>3 DEF Goes, AppsMade
    <2>4. QED
      BY <2>2, <2>3, ClientsGo
  <1>4. codex' # 0 => app'[codex'].proc # "none"
    <2>1. codex' \in {codex, 0} \/ (codex' = pump.app /\ Install)
      BY WhoMovesCodex DEF Install, CloseTake
    <2>2. QED
      BY <1>1, <1>2, <2>1 DEF AppsMade, PumpRec
  <1> DEFINE Holds == /\ pump'.app # 0 => app'[pump'.app].proc # "none"
                      /\ pump'.pc \in {"install", "thread_wait", "turn_wait"} => pump'.app # 0
                      /\ pump'.pc \in {"probe", "idle", "thread", "turn", "turn_err", "turn_late", "closing"}
                           => pump'.app = 0
  <1>5. FailPrompt => pump'.app = 0 /\ pump'.pc \in {"idle", "failed"}
    BY DEF FailPrompt, AtRest
  <1>6. CASE \E a \in Apps : ProbeOk(a)
    <2>1. PICK a \in Apps : ProbeOk(a)
      BY <1>6
    <2>2. pump'.app = a /\ pump'.pc = "install"
      BY <1>1, <2>1 DEF ProbeOk, PumpRec
    <2>3. app'[a].proc = "live"
      BY <2>1, ProbeDoes DEF NoApp
    <2>4. Holds
      BY <2>2, <2>3, Constants
    <2>5. QED
      BY <1>3, <1>4, <2>4 DEF AppsMade
  <1>7. CASE PumpAsks \/ TurnSetup
    <2>1. \/ pump'.app = codex /\ codex # 0 /\ pump'.pc = "thread_wait"
          \/ pump'.app = codex /\ pump'.pc = "turn_ask"
          \/ pump'.app = pump.app /\ pump.app # 0 /\ pump'.pc = "turn_wait"
          \/ pump'.app = pump.app /\ pump'.pc = "crashed"
      BY <1>1, <1>7 DEF PumpAsks, ThreadAsk, TurnAsk, TurnSetup, PumpRec
    <2>2. Holds
      BY <1>1, <1>2, <2>1 DEF AppsMade, PumpRec
    <2>3. QED
      BY <1>3, <1>4, <2>2 DEF AppsMade
  <1>8. CASE PumpOnly \/ PumpFails \/ PumpTake \/ Install \/ TurnErrorEnds \/ CloseApp(Pump)
    <2>1. pump'.app = 0 /\ pump'.pc \notin {"install", "thread_wait", "turn_wait"}
      <3>1. CASE PumpOnly
        BY <1>1, <3>1 DEF PumpOnly, PumpExit, DaemonStarted, ThreadReady, TurnErrorIgnored, AtRest, AppsMade, PumpRec
      <3>2. CASE PumpFails
        BY <1>1, <1>5, <3>2 DEF PumpFails, ProbeFail, ThreadNoApp, AppsMade, PumpRec
      <3>3. CASE PumpTake \/ Install
        BY <1>1, <3>3 DEF PumpTake, Install, AppsMade, PumpRec
      <3>4. CASE TurnErrorEnds \/ CloseApp(Pump)
        BY <1>1, <3>4 DEF TurnErrorEnds, CloseApp, AtRest, AppsMade, PumpRec
      <3>5. QED
        BY <1>8, <3>1, <3>2, <3>3, <3>4
    <2>2. QED
      BY <1>3, <1>4, <2>1 DEF AppsMade
  <1>9. CASE Takes
    <2>1. pump'.app = 0 /\ pump'.pc \notin {"install", "thread_wait", "turn_wait"}
      BY <1>9, TakesPump DEF AtRest
    <2>2. QED
      BY <1>3, <1>4, <2>1 DEF AppsMade
  <1>10. CASE pump' = pump
    <2>1. Holds
      BY <1>1, <1>2, <1>10 DEF AppsMade, PumpRec
    <2>2. QED
      BY <1>3, <1>4, <2>1 DEF AppsMade
  <1>12. CASE \E p \in Prompts : Send(p)
    BY <1>10, <1>12, PromptFrame
  <1>13. QED
    BY <1>6, <1>7, <1>8, <1>9, <1>10, <1>12, WhoMovesPump

-----------------------------------------------------------------------------
(* The closers and the turns *)

\* How a closer moves, and on whose step.
LEMMA CloserMoves ==
  ASSUME Base, [Next]_vars, NEW c \in Closers
  PROVE  \/ closer'[c] = closer[c]
         \/ /\ closer[c].pc = "armed" /\ closer'[c] = [closer[c] EXCEPT !.pc = "off"]
            /\ Stop \/ (c \in Prompts /\ WatchdogSkips(c))
         \/ TurnSetup /\ c = pump.prompt /\ closer'[c] = [closer[c] EXCEPT !.pc = "armed"]
         \/ /\ closer'[c] = [closer[c] EXCEPT !.pc = "take"]
            /\ \/ c \in Prompts /\ WatchdogEnds(c)
               \/ c = Reaper /\ ReaperEnds
               \/ c = Pump /\ TurnErrorEnds
               \/ c = Stopper /\ Stop
         \/ CloseTake(c) /\ closer'[c] = [pc |-> "close", app |-> codex]
         \/ CloseApp(c) /\ closer'[c] = [pc |-> "off", app |-> 0]
  <1>1. closer \in [Closers -> CloserRec]
    BY DEF Base, TypeOK, CloserRec
  <1>2. ASSUME NEW d \in Closers, CloseTake(d) \/ CloseApp(d)
        PROVE  \/ closer'[c] = closer[c]
               \/ CloseTake(c) /\ closer'[c] = [pc |-> "close", app |-> codex]
               \/ CloseApp(c) /\ closer'[c] = [pc |-> "off", app |-> 0]
    <2>1. \/ CloseTake(d) /\ closer' = [closer EXCEPT ![d] = [pc |-> "close", app |-> codex]]
          \/ CloseApp(d) /\ closer' = [closer EXCEPT ![d] = [pc |-> "off", app |-> 0]]
      BY <1>2 DEF CloseTake, CloseApp
    <2>2. QED
      BY <1>1, <2>1
  <1>3. ASSUME NEW p \in Prompts, Age(p) \/ WatchdogEnds(p) \/ WatchdogSkips(p)
        PROVE  \/ closer'[c] = closer[c]
               \/ /\ closer[c].pc = "armed" /\ closer'[c] = [closer[c] EXCEPT !.pc = "off"]
                  /\ c \in Prompts /\ WatchdogSkips(c)
               \/ c \in Prompts /\ WatchdogEnds(c) /\ closer'[c] = [closer[c] EXCEPT !.pc = "take"]
    <2>1. \/ closer' = closer
          \/ /\ closer[p].pc = "armed" /\ closer' = [closer EXCEPT ![p] = [closer[p] EXCEPT !.pc = "off"]]
             /\ WatchdogSkips(p)
          \/ WatchdogEnds(p) /\ closer' = [closer EXCEPT ![p] = [closer[p] EXCEPT !.pc = "take"]]
      BY <1>1, <1>3 DEF Age, WatchdogEnds, WatchdogSkips
    <2>2. p \in Closers
      BY Constants
    <2>3. QED
      BY <1>1, <2>1, <2>2
  <1>4. CASE ReaperEnds
    BY <1>1, <1>4, Constants DEF ReaperEnds
  <1>5. CASE TurnSetup
    BY <1>1, <1>5, Constants DEF TurnSetup
  <1>6. CASE TurnErrorEnds
    BY <1>1, <1>6, ErrorPump, Constants
  <1>7. CASE Stop
    BY <1>1, <1>7, Constants DEF Stop
  <1>8. QED
    BY <1>2, <1>3, <1>4, <1>5, <1>6, <1>7, WhoMovesCloser

\* How a turn starts and ends.
LEMMA TurnMoves ==
  ASSUME Base, Turns, [Next]_vars
  PROVE  \/ UNCHANGED <<turn, ends>>
         \/ TurnSetup /\ turn' = [inFlight |-> TRUE, cur |-> pump.prompt] /\ ends' = ends
         \/ /\ turn' = [inFlight |-> FALSE, cur |-> NoPrompt]
            /\ \/ ends' = ends
               \/ turn.cur \in Prompts /\ ends' = [ends EXCEPT ![turn.cur] = @ + 1]
  <1>1. turn \in [inFlight : BOOLEAN, cur : Prompts \cup {NoPrompt}] /\ (turn.inFlight => turn.cur \in Prompts)
    BY DEF Base, TypeOK, Turns
  <1>2. CASE TurnSetup
    BY <1>2 DEF TurnSetup
  <1>3. CASE TurnErrorEnds
    <2>1. pump.prompt \in Prompts
      BY <1>3 DEF TurnErrorEnds, Base, TypeOK, InOrder, PromptPcs
    <2>2. QED
      BY <1>3, <2>1 DEF TurnErrorEnds, EndTurn, Ended
  <1>4. CASE ReaperEnds
    BY <1>1, <1>4 DEF ReaperEnds, EndTurn, Ended
  <1>5. ASSUME NEW p \in Prompts, WatchdogEnds(p)
        PROVE  turn' = [inFlight |-> FALSE, cur |-> NoPrompt] /\ turn.cur = p
               /\ ends' = [ends EXCEPT ![p] = @ + 1]
    BY <1>5 DEF WatchdogEnds, EndTurn, Ended
  <1>6. ASSUME NEW a \in Apps, EndCompleted(a)
        PROVE  /\ turn' = [inFlight |-> FALSE, cur |-> NoPrompt]
               /\ \/ ends' = ends
                  \/ turn.cur \in Prompts /\ ends' = [ends EXCEPT ![turn.cur] = @ + 1]
    BY <1>1, <1>6 DEF EndCompleted, EndTurn
  <1>7. QED
    BY <1>2, <1>3, <1>4, <1>5, <1>6, WhoMovesTurn

LEMMA ClosingPump ==
  ASSUME Base, [Next]_vars, pump.pc = "closing"
  PROVE  pump' = pump \/ CloseApp(Pump)
  <1>1. CASE PumpOnly \/ PumpFails \/ PumpAsks \/ PumpTake \/ Install \/ TurnSetup \/ TurnErrorEnds
    BY <1>1 DEF PumpOnly, PumpFails, PumpAsks, PumpTake, Install, TurnSetup, TurnErrorEnds, PumpExit, DaemonStarted,
       ThreadReady, TurnErrorIgnored, ProbeFail, ThreadNoApp, ThreadAsk, TurnAsk
  <1>2. CASE Takes \/ \E a \in Apps : ProbeOk(a)
    BY <1>2 DEF Takes, ThreadLoaded, ThreadFails, TurnAccepted, TurnFails, ProbeOk
  <1>3. CASE \E p \in Prompts : Send(p)
    BY <1>3, PromptFrame
  <1>4. QED
    BY <1>1, <1>2, <1>3, WhoMovesPump

LEMMA TurnsKept ==
  ASSUME Base, Turns, [Next]_vars
  PROVE  Turns'
  <1>1. /\ closer \in [Closers -> CloserRec] /\ codex \in Apps \cup {0} /\ pump \in PumpRec
        /\ turn \in [inFlight : BOOLEAN, cur : Prompts \cup {NoPrompt}] /\ ends \in [Prompts -> Nat]
    BY DEF Base, TypeOK, CloserRec, PumpRec
  <1>2. \A a \in Apps : app[a].proc # "none" => app'[a].proc # "none"
    BY ClientsGo DEF Goes, ProbeOk, Base, TypeOK, AppRec
  <1>3. ASSUME NEW c \in Closers
        PROVE  /\ closer'[c].pc # "close" => closer'[c].app = 0
               /\ closer'[c].app # 0 => app'[closer'[c].app].proc # "none"
    <2>1. /\ closer[c] \in CloserRec /\ (closer[c].pc # "close" => closer[c].app = 0)
          /\ (closer[c].app # 0 => app[closer[c].app].proc # "none")
          /\ (codex # 0 => app[codex].proc # "none")
      BY <1>1 DEF Turns, Base, AppsMade
    <2>2. ASSUME NEW pc, closer[c].pc # "close", closer'[c] = [closer[c] EXCEPT !.pc = pc]
          PROVE  closer'[c].app = 0
      BY <2>1, <2>2 DEF CloserRec
    <2>3. CASE closer'[c] = closer[c]
      BY <1>2, <2>1, <2>3 DEF CloserRec
    <2>4. CASE CloseTake(c) /\ closer'[c] = [pc |-> "close", app |-> codex]
      BY <1>1, <1>2, <2>1, <2>4
    <2>5. CASE closer'[c] = [pc |-> "off", app |-> 0]
      BY <2>5
    <2>6. CASE closer[c].pc = "armed" /\ closer'[c] = [closer[c] EXCEPT !.pc = "off"]
      BY <2>2, <2>6
    <2>7. ASSUME TurnSetup, c = pump.prompt
          PROVE  closer[c].pc = "off"
      <3>1. pump.prompt \in Prompts /\ Fresh(pump.prompt)
        BY <1>1, <2>7 DEF TurnSetup, Base, InOrder, PromptPcs, PumpRec, Fresh
      <3>2. QED
        BY <2>7, <3>1 DEF Turns
    <2>8. CASE TurnSetup /\ c = pump.prompt /\ closer'[c] = [closer[c] EXCEPT !.pc = "armed"]
      BY <2>2, <2>7, <2>8
    <2>9. CASE /\ closer'[c] = [closer[c] EXCEPT !.pc = "take"]
               /\ \/ c \in Prompts /\ WatchdogEnds(c)
                  \/ c = Reaper /\ ReaperEnds
                  \/ c = Pump /\ TurnErrorEnds
                  \/ c = Stopper /\ Stop
      <3>1. closer[c].pc # "close"
        BY <2>9 DEF WatchdogEnds, ReaperEnds, TurnErrorEnds, Stop, Turns
      <3>2. QED
        BY <2>2, <2>9, <3>1
    <2>10. QED
      BY <2>3, <2>4, <2>5, <2>6, <2>8, <2>9, CloserMoves
  <1>4. TurnSetup => \E q \in Prompts : q = pump.prompt /\ Fresh(q) /\ ~Fresh(q)'
    <2>1. SUFFICES ASSUME TurnSetup
                   PROVE  \E q \in Prompts : q = pump.prompt /\ Fresh(q) /\ ~Fresh(q)'
      OBVIOUS
    <2>2. pump.pc = "turn" /\ pump'.pc = "turn_ask" /\ sent' = sent /\ inbox' = inbox
      BY <1>1, <2>1 DEF TurnSetup, PumpRec
    <2>3. PICK q \in Prompts : q = pump.prompt /\ q = TakenUpTo
      BY <1>1, <2>2 DEF Base, InOrder, PromptPcs, PumpRec
    <2>4. TakenUpTo' = TakenUpTo /\ q \in Nat
      BY <2>2, Constants DEF TakenUpTo
    <2>5. ~Fresh(q)'
      BY <2>2, <2>3, <2>4 DEF Fresh
    <2>6. Fresh(q)
      BY <2>2, <2>3 DEF Fresh
    <2>7. QED
      BY <2>3, <2>5, <2>6
  <1>5. (closer[Pump].pc # "off" => pump.pc = "closing")'
    <2>1. Pump \in Closers /\ Pump \notin Prompts /\ Pump # Reaper /\ Pump # Stopper /\ closer[Pump] \in CloserRec
      BY <1>1, Constants
    <2>2. CASE CloseApp(Pump)
      BY <1>1, <2>1, <2>2 DEF CloseApp
    <2>3. CASE TurnErrorEnds
      BY <2>1, <2>3, <1>1, ErrorPump DEF Turns
    <2>4. CASE ~CloseApp(Pump) /\ ~TurnErrorEnds
      <3>1. closer'[Pump].pc # "off" => closer[Pump].pc # "off"
        BY <1>1, <1>4, <2>1, <2>4, CloserMoves DEF CloserRec, TurnSetup, CloseTake
      <3>2. QED
        BY <2>4, <3>1, ClosingPump DEF Turns
    <2>5. QED
      BY <2>2, <2>3, <2>4
  <1>6. (closer[Stopper].pc # "off" => stopped)'
    <2>1. Stopper \in Closers /\ Stopper \notin Prompts /\ Stopper # Reaper /\ Pump # Stopper
          /\ closer[Stopper] \in CloserRec
      BY <1>1, Constants
    <2>2. CASE Stop
      BY <2>2 DEF Stop
    <2>3. CASE ~Stop
      <3>1. ASSUME closer[Stopper].pc = "off"
            PROVE  closer'[Stopper].pc = "off"
        <4>1. ~(TurnSetup /\ Stopper = pump.prompt)
          BY <1>4, <2>1
        <4>2. ~CloseTake(Stopper)
          BY <3>1 DEF CloseTake
        <4>3. closer'[Stopper] = closer[Stopper] \/ closer'[Stopper] = [pc |-> "off", app |-> 0]
          BY <2>1, <2>3, <3>1, <4>1, <4>2, CloserMoves
        <4>4. QED
          BY <3>1, <4>3
      <3>2. stopped' = stopped
        BY <2>3, WhoMovesCloser
      <3>3. QED
        BY <3>1, <3>2 DEF Turns
    <2>4. QED
      BY <2>2, <2>3
  <1>7. (turn.inFlight <=> turn.cur # NoPrompt)'
    <2>1. turn'.inFlight \in BOOLEAN
      BY TypesKept DEF TypeOK
    <2>2. QED
      BY <1>4, TurnMoves, Constants DEF Turns
  <1>8. ASSUME NEW p \in Prompts
        PROVE  /\ (Fresh(p) => closer[p].pc = "off" /\ ends[p] = 0)'
               /\ (turn.cur = p => ~Fresh(p) /\ ends[p] = 0)'
               /\ (ends[p] <= 1)'
    <2>1. /\ Fresh(p)' => Fresh(p)
          /\ Fresh(p) => closer[p].pc = "off" /\ ends[p] = 0
          /\ turn.cur = p => ~Fresh(p) /\ ends[p] = 0
          /\ ends[p] <= 1 /\ p # NoPrompt /\ ends[p] \in Nat
      BY <1>1, OrderKept, Constants DEF Turns
    <2>2. ASSUME Fresh(p)'
          PROVE  closer'[p].pc = "off"
      <3>1. p \in Closers /\ p # Reaper /\ p # Pump /\ p # Stopper /\ closer[p] \in CloserRec
        BY <1>1, Constants
      <3>2. ~(TurnSetup /\ p = pump.prompt)
        BY <1>4, <2>2
      <3>3. closer[p].pc = "off"
        BY <2>1, <2>2
      <3>4. QED
        BY <3>1, <3>2, <3>3, CloserMoves DEF WatchdogEnds, CloseTake, CloseApp
    <2>3. CASE UNCHANGED <<turn, ends>>
      BY <2>1, <2>2, <2>3
    <2>4. CASE TurnSetup /\ turn' = [inFlight |-> TRUE, cur |-> pump.prompt] /\ ends' = ends
      BY <1>4, <2>1, <2>2, <2>4
    <2>5. CASE turn' = [inFlight |-> FALSE, cur |-> NoPrompt] /\ ends' = ends
      BY <2>1, <2>2, <2>5
    <2>6. CASE /\ turn' = [inFlight |-> FALSE, cur |-> NoPrompt]
               /\ turn.cur \in Prompts /\ ends' = [ends EXCEPT ![turn.cur] = @ + 1]
      <3>1. ends'[p] = IF p = turn.cur THEN ends[p] + 1 ELSE ends[p]
        BY <1>1, <2>6
      <3>2. QED
        BY <2>1, <2>2, <2>6, <3>1
    <2>7. QED
      BY <2>3, <2>4, <2>5, <2>6, TurnMoves
  <1>9. QED
    BY <1>3, <1>5, <1>6, <1>7, <1>8 DEF Turns

LEMMA BaseKept ==
  ASSUME Base, Turns, [Next]_vars
  PROVE  Base' /\ Turns'
  BY TypesKept, OrderKept, AppsKept, TurnsKept DEF Base

LEMMA BaseStarts ==
  ASSUME Init
  PROVE  Base /\ Turns
  <1>1. NoApp \in AppRec
    BY Constants DEF NoApp, AppRec
  <1>2. TypeOK
    <2>1. NewItem \in ItemRec
      BY DEF NewItem, ItemRec
    <2>2. pump \in PumpRec
      BY DEF Init, AtRest, FirstAttempt, PumpRec, PumpPcs, Attempts
    <2>3. item \in [Prompts -> ItemRec] /\ app \in [Apps -> AppRec]
      BY <1>1, <2>1 DEF Init
    <2>4. ends \in [Prompts -> Nat] /\ closer \in [Closers -> CloserRec]
      BY DEF Init, CloserRec
    <2>5. /\ sent \in 0 .. MaxPrompts /\ inbox \in Seq(Prompts) /\ codex \in Apps \cup {0}
          /\ aged \subseteq Prompts /\ awaiting \subseteq Prompts
          /\ turn \in [inFlight : BOOLEAN, cur : Prompts \cup {NoPrompt}]
          /\ thread \in BOOLEAN /\ stopped \in BOOLEAN
      <3>1. sent \in 0 .. MaxPrompts /\ inbox \in Seq(Prompts)
        BY Constants DEF Init
      <3>2. turn \in [inFlight : BOOLEAN, cur : Prompts \cup {NoPrompt}]
        BY DEF Init
      <3>3. QED
        BY <3>1, <3>2 DEF Init
    <2>6. QED
      BY <2>2, <2>3, <2>4, <2>5 DEF TypeOK, PumpRec, ItemRec, CloserRec
  <1>3. InOrder
    BY DEF Init, InOrder, AtRest, TakenUpTo, PromptPcs, NoPrompt
  <1>4. AppsMade
    BY DEF Init, AppsMade, AtRest, NoApp
  <1>5. Turns
    BY Constants DEF Init, Turns
  <1>6. QED
    BY <1>2, <1>3, <1>4, <1>5 DEF Base

-----------------------------------------------------------------------------
(* No app-server is orphaned *)

\* A closer on its way is left alone by everybody else.
LEMMA CloserGoesOn ==
  ASSUME Base, Turns, [Next]_vars, NEW c \in Closers, closer[c].pc \in {"take", "close"}
  PROVE  closer'[c] = closer[c] \/ CloseTake(c) \/ CloseApp(c)
  <1>1. ~(TurnSetup /\ c = pump.prompt)
    <2>1. SUFFICES ASSUME TurnSetup, c = pump.prompt
                   PROVE  FALSE
      OBVIOUS
    <2>2. c \in Prompts /\ Fresh(c)
      BY <2>1 DEF TurnSetup, Base, TypeOK, InOrder, PromptPcs, Fresh
    <2>3. QED
      BY <2>2 DEF Turns
  <1>2. ~(c \in Prompts /\ WatchdogEnds(c)) /\ ~(c = Reaper /\ ReaperEnds)
    BY DEF WatchdogEnds, ReaperEnds
  <1>3. ~(c = Pump /\ TurnErrorEnds) /\ ~(c = Stopper /\ Stop)
    BY DEF TurnErrorEnds, Stop, Turns
  <1>4. QED
    BY <1>1, <1>2, <1>3, CloserMoves

Reachable ==
    \A a \in Apps : app[a].proc = "live" =>
        \/ a = codex
        \/ pump.pc = "install" /\ pump.app = a
        \/ \E c \in Closers : closer[c].pc = "close" /\ closer[c].app = a

LEMMA InstallingPump ==
  ASSUME Base, Turns, [Next]_vars, pump.pc = "install"
  PROVE  pump' = pump \/ Install
  <1>1. CASE PumpOnly \/ PumpFails \/ PumpAsks \/ PumpTake \/ TurnSetup \/ TurnErrorEnds
    BY <1>1 DEF PumpOnly, PumpFails, PumpAsks, PumpTake, TurnSetup, TurnErrorEnds, PumpExit, DaemonStarted,
       ThreadReady, TurnErrorIgnored, ProbeFail, ThreadNoApp, ThreadAsk, TurnAsk
  <1>2. CASE Takes \/ \E a \in Apps : ProbeOk(a)
    BY <1>2 DEF Takes, ThreadLoaded, ThreadFails, TurnAccepted, TurnFails, ProbeOk
  <1>3. CASE \E p \in Prompts : Send(p)
    BY <1>3, PromptFrame
  <1>4. CASE CloseApp(Pump)
    BY <1>4, Constants DEF CloseApp, Turns
  <1>5. QED
    BY <1>1, <1>2, <1>3, <1>4, WhoMovesPump

LEMMA ReachableKept ==
  ASSUME Base, Turns, Reachable, [Next]_vars
  PROVE  Reachable'
  <1>1. /\ app \in [Apps -> AppRec] /\ \A a \in Apps : app[a] \in AppRec
        /\ pump \in PumpRec /\ codex \in Apps \cup {0} /\ closer \in [Closers -> CloserRec]
    BY DEF Base, TypeOK, PumpRec, CloserRec
  <1>2. SUFFICES ASSUME NEW a \in Apps, app'[a].proc = "live"
                 PROVE  \/ a = codex'
                        \/ pump'.pc = "install" /\ pump'.app = a
                        \/ \E c \in Closers : closer'[c].pc = "close" /\ closer'[c].app = a
    BY DEF Reachable
  <1>3. CASE ProbeOk(a)
    BY <1>1, <1>3 DEF ProbeOk, PumpRec
  <1>4. CASE ~ProbeOk(a)
    <2>1. app[a].proc = "live" /\ ~app[a].closed
      BY <1>1, <1>2, <1>4, ClientsGo DEF Goes, Base, AppsMade
    <2>2. ~(Closed(app[a]).proc = "live")
      BY <1>1, <2>1, ClosedRec
    <2>3. CASE a = codex
      <3>1. CASE codex' = codex
        BY <2>3, <3>1
      <3>2. CASE Install
        BY <1>1, <2>3, <3>2, Constants DEF Install
      <3>3. ASSUME NEW c \in Closers, CloseTake(c)
            PROVE  closer'[c].pc = "close" /\ closer'[c].app = a
        BY <1>1, <2>3, <3>3 DEF CloseTake
      <3>4. QED
        BY <3>1, <3>2, <3>3, WhoMovesCodex
    <2>4. CASE pump.pc = "install" /\ pump.app = a
      <3>1. CASE pump' = pump
        BY <2>4, <3>1
      <3>2. CASE Install
        <4>1. CASE codex = 0
          BY <2>4, <3>2, <4>1 DEF Install
        <4>2. CASE codex # 0
          <5>1. app'[a] = Closed(app[a])
            BY <1>1, <2>4, <3>2, <4>2 DEF Install
          <5>2. QED
            BY <1>2, <2>2, <5>1
        <4>3. QED
          BY <4>1, <4>2
      <3>3. QED
        BY <2>4, <3>1, <3>2, InstallingPump
    <2>5. ASSUME NEW c \in Closers, closer[c].pc = "close", closer[c].app = a
          PROVE  closer'[c].pc = "close" /\ closer'[c].app = a
      <3>1. ~CloseTake(c)
        BY <2>5 DEF CloseTake
      <3>2. CASE CloseApp(c)
        <4>1. app'[a] = Closed(app[a])
          BY <1>1, <2>5, <3>2, Constants DEF CloseApp
        <4>2. QED
          BY <1>2, <2>2, <4>1
      <3>3. QED
        BY <2>5, <3>1, <3>2, CloserGoesOn
    <2>6. QED
      BY <2>1, <2>3, <2>4, <2>5 DEF Reachable
  <1>5. QED
    BY <1>3, <1>4

-----------------------------------------------------------------------------
(* A prompt that was taken is answered *)

Owes ==
    \/ turn.inFlight /\ closer[turn.cur].pc = "armed"
    \/ \E c \in Closers : closer[c].pc \in {"take", "close"}
    \/ \E a \in Apps : app[a].ending

Working == {"probe", "install", "thread", "thread_wait", "turn", "closing", "crashed"}

Owed ==
    /\ pump.prompt = NoPrompt /\ pump.pc \in {"probe", "install"} => awaiting = {}
    /\ awaiting # {} /\ ~stopped => Owes \/ pump.pc \in Working

LEMMA EndingGoesOn ==
  ASSUME Base, Turns, [Next]_vars, NEW a \in Apps, app[a].ending
  PROVE  app'[a].ending \/ EndCompleted(a) \/ Stop
  <1>1. app \in [Apps -> AppRec] /\ app[a] \in AppRec /\ TypeOK /\ \A b \in Apps : app[b] \in AppRec
    BY DEF Base, TypeOK
  <1>2. ASSUME NEW b \in Apps, ProbeOk(b)
        PROVE  app'[a].ending
    BY <1>2, ProbeDoes DEF OnlyMoves, NoApp
  <1>3. ASSUME NEW b \in Apps, Talks(b)
        PROVE  app'[a].ending
    <2>1. CASE b # a
      BY <1>3, <2>1, TalksDoes DEF OnlyMoves
    <2>2. CASE b = a
      <3>1. ASSUME NEW call \in Calls, NEW ok \in BOOLEAN, ServerReplies(a, call, ok)
            PROVE  app'[a].ending
        <4>1. Replied(a, call, ok)
          BY <1>1, <3>1, RepliesDoes, Zenon
        <4>2. QED
          BY <4>1 DEF Replied
      <3>2. ASSUME NEW p \in Prompts, NEW n \in 1 .. Len(NoteOrder), NEW text \in BOOLEAN,
                   ServerTells(a, p, n, text)
            PROVE  app'[a].ending
        <4>1. Told(a, p, n, text)
          BY <1>1, <3>2, TellsDoes, Zenon
        <4>2. QED
          BY <4>1 DEF Told
      <3>3. CASE HandleReply(a) \/ HandleNote(a) \/ FlushCompleted(a)
        BY <3>3 DEF HandleReply, HandleNote, FlushCompleted, HasLine
      <3>4. QED
        BY <1>3, <2>2, <3>1, <3>2, <3>3 DEF Talks
    <2>3. QED
      BY <2>1, <2>2
  <1>4. CASE Asks
    <2>1. PICK b \in Apps, call \in Calls : OnlyMoves(b) /\ app'[b] = Asked(app[b], call)
      BY <1>4, AsksDoes
    <2>2. app'[b].ending = app[b].ending
      BY <1>1, <2>1, AskedRec
    <2>3. QED
      BY <2>1, <2>2 DEF OnlyMoves
  <1>5. CASE Takes
    <2>1. PICK b \in Apps : OnlyMoves(b) /\ app'[b] = Taken(app[b])
      BY <1>5, TakesDoes
    <2>2. app'[b].ending = app[b].ending
      BY <1>1, <2>1, TakenRec
    <2>3. QED
      BY <2>1, <2>2 DEF OnlyMoves
  <1>6. CASE Install
    <2>1. app'[a] = app[a] \/ app'[a] = Closed(app[a])
      BY <1>1, <1>6 DEF Install
    <2>2. QED
      BY <1>1, <2>1, ClosedRec
  <1>7. ASSUME NEW c \in Closers, CloseApp(c)
        PROVE  app'[a].ending
    <2>1. app'[a] = app[a] \/ app'[a] = Closed(app[a])
      BY <1>1, <1>7 DEF CloseApp
    <2>2. QED
      BY <1>1, <2>1, ClosedRec
  <1>8. ASSUME NEW b \in Apps, ServerExits(b) \/ ReadEnds(b) \/ WaitEnds(b) \/ EndCompleted(b)
        PROVE  app'[a].ending \/ EndCompleted(a)
    <2>1. CASE b # a
      BY <1>1, <1>8, <2>1 DEF ServerExits, ReadEnds, WaitEnds, EndCompleted
    <2>2. CASE b = a /\ ServerExits(a)
      <3>1. app'[a] = Dead(app[a])
        BY <1>1, <2>2 DEF ServerExits
      <3>2. QED
        BY <1>1, <3>1, DeadRec
    <2>3. CASE b = a /\ WaitEnds(a)
      <3>1. app'[a] = [Refuse(app[a]) EXCEPT !.closed = TRUE, !.done = TRUE]
        BY <1>1, <2>3 DEF WaitEnds
      <3>2. Refuse(app[a]).ending /\ Refuse(app[a]) \in AppRec
        BY <1>1, RefuseRec DEF Shrinks, Goes
      <3>3. QED
        BY <3>1, <3>2 DEF AppRec
    <2>4. QED
      BY <1>8, <2>1, <2>2, <2>3 DEF ReadEnds
  <1>9. CASE Aside \/ UNCHANGED vars
    BY <1>9, AsideApps
  <1>10. QED
    BY <1>2, <1>3, <1>4, <1>5, <1>6, <1>7, <1>8, <1>9, Kinds DEF Ends

LEMMA OwedKept ==
  ASSUME Base, Turns, Owed, [Next]_vars
  PROVE  Owed'
  <1>1. /\ pump \in PumpRec /\ closer \in [Closers -> CloserRec] /\ Pump \in Closers /\ Reaper \in Closers
        /\ turn \in [inFlight : BOOLEAN, cur : Prompts \cup {NoPrompt}] /\ inbox \in Seq(Prompts)
    BY Constants DEF Base, TypeOK, PumpRec, CloserRec
  <1>2. CASE PumpTake
    <2>1. pump'.pc \in {"probe", "thread"} /\ pump'.prompt = Head(inbox) /\ Head(inbox) \in Prompts
      BY <1>1, <1>2 DEF PumpTake, PumpRec
    <2>2. QED
      BY <2>1, Constants DEF Owed, Working
  <1>3. CASE ~PumpTake
    <2>1. SUFFICES ASSUME awaiting' # {}
                   PROVE  /\ ~(pump'.prompt = NoPrompt /\ pump'.pc \in {"probe", "install"})
                          /\ ~stopped' => (Owes \/ pump.pc \in Working)'
      BY DEF Owed
    <2>2. awaiting' = awaiting /\ awaiting # {}
      BY <1>3, <2>1, WhoMovesAwaiting
    <2>3. ~(pump.prompt = NoPrompt /\ pump.pc \in {"probe", "install"})
      BY <2>2 DEF Owed
    <2>4. FailPrompt => pump.prompt = NoPrompt
      BY <2>1 DEF FailPrompt, PromptReady
    <2>5. \/ pump' = pump
          \/ pump'.pc \in Working /\ ~(pump'.prompt = NoPrompt /\ pump'.pc \in {"probe", "install"})
          \/ pump.pc \notin Working /\ pump'.pc \notin {"probe", "install"} /\ closer' = closer /\ turn' = turn
          \/ TurnSetup
      <3>1. CASE PumpFails
        <4>1. ~ThreadNoApp
          BY <2>4 DEF ThreadNoApp, Base, InOrder, PromptPcs
        <4>2. ProbeFail /\ pump'.pc = "probe" /\ pump'.prompt = pump.prompt
          BY <1>1, <2>3, <2>4, <3>1, <4>1 DEF PumpFails, ProbeFail, PumpRec
        <4>3. QED
          BY <2>3, <4>2 DEF ProbeFail, Working
      <3>2. CASE PumpOnly
        BY <1>1, <2>3, <3>2 DEF PumpOnly, PumpExit, DaemonStarted, ThreadReady, TurnErrorIgnored, AtRest, Working, PumpRec
      <3>3. CASE PumpAsks
        BY <1>1, <3>3 DEF PumpAsks, ThreadAsk, TurnAsk, Working, PumpRec
      <3>4. CASE Takes
        <4>1. ~ThreadFails
          BY <2>4 DEF ThreadFails, Base, InOrder, PromptPcs
        <4>2. closer' = closer /\ turn' = turn
          BY <3>4, PumpFrame
        <4>3. QED
          BY <3>4, <4>1, <4>2, TakesPump DEF Working, AtRest, TurnAccepted
      <3>5. CASE Install
        BY <1>1, <2>3, <3>5 DEF Install, Working, PumpRec
      <3>6. CASE TurnErrorEnds
        BY <2>1, <3>6, ErrorPump DEF PromptReady, Working
      <3>7. CASE \E a \in Apps : ProbeOk(a)
        BY <1>1, <2>3, <3>7 DEF ProbeOk, Working, PumpRec
      <3>8. CASE CloseApp(Pump)
        BY <2>1, <3>8, Constants DEF CloseApp, PromptReady
      <3>9. CASE \E p \in Prompts : Send(p)
        BY <3>9, PromptFrame
      <3>10. QED
        BY <1>3, <3>1, <3>2, <3>3, <3>4, <3>5, <3>6, <3>7, <3>8, <3>9, WhoMovesPump
    <2>6. ~(pump'.prompt = NoPrompt /\ pump'.pc \in {"probe", "install"})
      <3>1. TurnSetup => pump'.pc = "turn_ask"
        BY <1>1 DEF TurnSetup, PumpRec
      <3>2. QED
        BY <2>3, <2>5, <3>1
    <2>7. ASSUME ~stopped'
          PROVE  (Owes \/ pump.pc \in Working)'
      <3>1. ~Stop /\ ~stopped
        <4>1. ~Stop
          BY <2>7 DEF Stop
        <4>2. stopped' = stopped
          BY <4>1, WhoMovesCloser
        <4>3. QED
          BY <2>7, <4>1, <4>2
      <3>2. CASE TurnSetup
        <4>1. pump.prompt \in Prompts
          BY <1>1, <3>2 DEF TurnSetup, Base, InOrder, PromptPcs, PumpRec
        <4>2. turn'.inFlight /\ closer'[turn'.cur].pc = "armed"
          BY <1>1, <3>2, <4>1, Constants DEF TurnSetup, CloserRec
        <4>3. QED
          BY <4>2 DEF Owes
      <3>3. CASE turn.inFlight /\ closer[turn.cur].pc = "armed"
        <4>1. PICK p \in Prompts : p = turn.cur
          BY <1>1, <3>3 DEF Turns
        <4>2. p \in Closers /\ p # Pump /\ p # Stopper /\ p # Reaper /\ closer[p] \in CloserRec
          BY <1>1, Constants
        <4>3. ~WatchdogSkips(p)
          BY <3>1, <3>3, <4>1 DEF WatchdogSkips
        <4>4. CASE UNCHANGED <<turn, ends>> /\ closer'[p] = closer[p]
          BY <3>3, <4>1, <4>4 DEF Owes
        <4>5. CASE TurnErrorEnds
          BY <2>1, <4>5, ErrorPump DEF PromptReady, Working
        <4>6. CASE ReaperEnds
          <5>1. closer'[Reaper].pc = "take"
            BY <1>1, <4>6 DEF ReaperEnds, CloserRec
          <5>2. QED
            BY <1>1, <5>1 DEF Owes
        <4>7. ASSUME NEW q \in Prompts, WatchdogEnds(q)
              PROVE  Owes'
          <5>1. closer'[q].pc = "take" /\ q \in Closers
            BY <1>1, <4>7, Constants DEF WatchdogEnds, CloserRec
          <5>2. QED
            BY <5>1 DEF Owes
        <4>8. ~(\E a \in Apps : EndCompleted(a))
          BY <2>1 DEF EndCompleted, PromptReady
        <4>9. closer'[p] = closer[p] \/ TurnSetup \/ WatchdogEnds(p)
          BY <3>1, <3>3, <4>1, <4>2, <4>3, CloserMoves DEF CloseTake, CloseApp
        <4>10. QED
          BY <3>2, <4>4, <4>5, <4>6, <4>7, <4>8, <4>9, WhoMovesTurn
      <3>4. ASSUME NEW c \in Closers, closer[c].pc \in {"take", "close"}
            PROVE  Owes'
        <4>1. CASE closer'[c] = closer[c]
          BY <3>4, <4>1 DEF Owes
        <4>2. CASE CloseTake(c)
          <5>1. closer'[c].pc = "close"
            BY <1>1, <4>2 DEF CloseTake
          <5>2. QED
            BY <5>1 DEF Owes
        <4>3. CASE CloseApp(c)
          <5>1. c = Stopper
            BY <2>1, <4>3 DEF CloseApp, PromptReady
          <5>2. QED
            BY <3>1, <3>4, <5>1 DEF Turns
        <4>4. QED
          BY <3>4, <4>1, <4>2, <4>3, CloserGoesOn
      <3>5. ASSUME NEW a \in Apps, app[a].ending
            PROVE  Owes'
        <4>1. app'[a].ending \/ EndCompleted(a)
          BY <3>1, <3>5, EndingGoesOn
        <4>2. ~EndCompleted(a)
          BY <2>1 DEF EndCompleted, PromptReady
        <4>3. QED
          BY <4>1, <4>2 DEF Owes
      <3>6. CASE pump.pc \in Working
        BY <2>5, <3>2, <3>6
      <3>7. QED
        BY <2>2, <3>1, <3>3, <3>4, <3>5, <3>6 DEF Owed, Owes
    <2>8. QED
      BY <2>6, <2>7
  <1>4. QED
    BY <1>2, <1>3

-----------------------------------------------------------------------------
(* The calls of the pump and their answers *)

TurnCall(p) == [what |-> "turn", prompt |-> p]

\* Who waits, and for what; an answer "ok" comes from a server that has done it.
Waits ==
    \A a \in Apps :
      /\ app[a].pending # NoCall \/ app[a].reply # "none" =>
           pump.app = a /\ pump.pc \in {"thread_wait", "turn_wait"}
      /\ app[a].pending # NoCall =>
           /\ app[a].pending.what = IF pump.pc = "thread_wait" THEN "thread" ELSE "turn"
           /\ app[a].pending.prompt = pump.prompt
      /\ app[a].proc = "live" /\ app[a].reply = "ok" =>
           IF pump.pc = "thread_wait" THEN app[a].loaded ELSE app[a].running[pump.prompt] # 0
      /\ \A i \in 1 .. Len(app[a].out) :
           app[a].proc = "live" /\ app[a].out[i].kind = "reply" /\ app[a].out[i].ok =>
             IF app[a].out[i].to.what = "thread" THEN app[a].loaded
             ELSE app[a].running[app[a].out[i].to.prompt] # 0
      /\ app[a].proc # "live" =>
           app[a].asked = {} /\ app[a].loaded = FALSE /\ \A p \in Prompts : app[a].running[p] = 0

\* The thread id stands for a thread that the app-server has loaded, and the pump's checks of it
\* still hold where it relies on them.
Threads ==
    /\ thread /\ codex # 0 => app[codex].loaded \/ app[codex].proc # "live"
    /\ thread /\ codex = 0 => \/ pump.pc \in {"turn", "crashed"}
                              \/ pump.pc = "turn_ask" /\ pump.app = 0
    /\ pump.pc = "turn" /\ codex # 0 => thread
    /\ pump.pc = "turn_ask" /\ pump.app # 0 => app[pump.app].loaded \/ app[pump.app].proc # "live"
    /\ pump.pc = "thread_wait" => codex \in {0, pump.app}
    /\ TurnNeedsThread

-----------------------------------------------------------------------------
(* The lines of a turn *)

NoteAt(r, i, p) == i \in 1 .. Len(r.out) /\ r.out[i].kind = "note" /\ r.out[i].prompt = p

\* The app-server a has been asked for the turn of p, runs it or has told something of it.
Touched(a, p) ==
    \/ TurnCall(p) \in app[a].asked
    \/ app[a].running[p] # 0
    \/ \E i \in 1 .. Len(app[a].out) : NoteAt(app[a], i, p)

Untouched(p) == ~item[p].text /\ ~item[p].emitted /\ ~item[p].over
Unasked(p) == Fresh(p) \/ (pump.prompt = p /\ pump.pc = "turn_ask")

\* A turn belongs to one app-server, which tells each note of it at most once and in order; a
\* streamed delta comes before anything else of its turn.
TurnTold(p) ==
    /\ Unasked(p) => Untouched(p) /\ \A a \in Apps : ~Touched(a, p)
    /\ \A a, b \in Apps : Touched(a, p) /\ Touched(b, p) => a = b
    /\ \A a \in Apps :
         /\ TurnCall(p) \in app[a].asked =>
              /\ app[a].running[p] = 0 /\ Untouched(p)
              /\ \A i \in 1 .. Len(app[a].out) : ~NoteAt(app[a], i, p)
         /\ app[a].running[p] = 1 => Untouched(p)
         /\ \A i \in 1 .. Len(app[a].out) : NoteAt(app[a], i, p) =>
              /\ app[a].proc = "live" => app[a].out[i].n < app[a].running[p]
              /\ app[a].out[i].n = 1 => Untouched(p)
              /\ \A j \in 1 .. Len(app[a].out) : NoteAt(app[a], j, p) /\ i < j =>
                   app[a].out[i].n < app[a].out[j].n

ToldInOrder == \A p \in Prompts : TurnTold(p)

\* What has been streamed or finished has its rows.
Kept(r) ==
    /\ r.text /\ (r.emitted \/ r.over) => r.rows > 0
    /\ r.toolRows = IF r.toolUsed THEN 1 ELSE 0

ItemsKeptRows == \A p \in Prompts : Kept(item[p])

-----------------------------------------------------------------------------
(* What a step does to the calls and the lines of one client *)

\* Nothing is added; the process may end, and then nothing of it is left but lines.
Quiet(r, q) ==
    /\ q.out \in {r.out, <<>>}
    /\ \/ /\ q.asked = r.asked /\ q.loaded = r.loaded /\ q.running = r.running
          /\ q.proc = r.proc \/ r = NoApp
       \/ /\ q.proc # "live" /\ q.asked = {} /\ q.loaded = FALSE
          /\ \A p \in Prompts : q.running[p] = 0

\* The pump's call is written to a live process.
Posted(a, call) ==
    /\ call.prompt = pump.prompt /\ app[a].proc = "live" /\ app'[a].proc = "live"
    /\ \/ ThreadAsk /\ call.what = "thread" /\ a = codex
       \/ TurnAsk /\ call.what = "turn" /\ pump.app = a
    /\ app'[a].asked = app[a].asked \cup {call}
    /\ app'[a].loaded = app[a].loaded /\ app'[a].running = app[a].running /\ app'[a].out = app[a].out

ReadsLine(a) == HandleReply(a) \/ HandleNote(a) \/ FlushCompleted(a)

LEMMA LineEffects ==
  ASSUME Base, Turns, [Next]_vars, NEW a \in Apps
  PROVE  \/ Quiet(app[a], app'[a])
         \/ \E call \in Calls : Posted(a, call)
         \/ \E call \in Calls, ok \in BOOLEAN : Replied(a, call, ok)
         \/ \E p \in Prompts, n \in 1 .. Len(NoteOrder), text \in BOOLEAN : Told(a, p, n, text)
         \/ ReadsLine(a)
  <1>1. app \in [Apps -> AppRec] /\ app[a] \in AppRec /\ TypeOK /\ \A b \in Apps : app[b] \in AppRec
    BY DEF Base, TypeOK
  <1>2. CASE app'[a] = app[a]
    BY <1>2 DEF Quiet
  <1>3. ASSUME NEW b \in Apps, ProbeOk(b)
        PROVE  Quiet(app[a], app'[a])
    <2>1. CASE b = a
      <3>1. app[a] = NoApp /\ app'[a] = [NoApp EXCEPT !.proc = "live", !.reading = TRUE]
        BY <1>3, <2>1, ProbeDoes
      <3>2. QED
        BY <3>1 DEF Quiet, NoApp
    <2>2. QED
      BY <1>2, <1>3, <2>1, ProbeDoes DEF OnlyMoves, Quiet
  <1>4. ASSUME NEW b \in Apps, Talks(b)
        PROVE  \/ app'[a] = app[a]
               \/ \E call \in Calls, ok \in BOOLEAN : Replied(a, call, ok)
               \/ \E p \in Prompts, n \in 1 .. Len(NoteOrder), text \in BOOLEAN : Told(a, p, n, text)
               \/ ReadsLine(a)
    <2>1. CASE b # a
      BY <1>4, <2>1, TalksDoes DEF OnlyMoves
    <2>2. ASSUME NEW call \in Calls, NEW ok \in BOOLEAN, ServerReplies(a, call, ok)
          PROVE  Replied(a, call, ok)
      BY <1>1, <2>2, RepliesDoes, Zenon
    <2>3. ASSUME NEW p \in Prompts, NEW n \in 1 .. Len(NoteOrder), NEW text \in BOOLEAN,
                 ServerTells(a, p, n, text)
          PROVE  Told(a, p, n, text)
      BY <1>1, <2>3, TellsDoes, Zenon
    <2>4. QED
      BY <1>4, <2>1, <2>2, <2>3, Zenon DEF Talks, ReadsLine
  <1>5. CASE Asks
    <2>1. PICK b \in Apps, call \in Calls :
            /\ OnlyMoves(b) /\ app'[b] = Asked(app[b], call) /\ call.prompt = pump.prompt
            /\ \/ ThreadAsk /\ b = codex /\ call.what = "thread"
               \/ TurnAsk /\ b = pump.app /\ call.what = "turn"
      BY <1>5, AsksDoes
    <2>2. CASE b # a
      BY <1>2, <2>1, <2>2 DEF OnlyMoves
    <2>3. CASE b = a
      <3>1. /\ app'[a].proc = app[a].proc /\ app'[a].out = app[a].out /\ app'[a].loaded = app[a].loaded
            /\ app'[a].running = app[a].running
            /\ app'[a].asked = app[a].asked \/ (app'[a].asked = app[a].asked \cup {call} /\ app[a].proc = "live")
        BY <1>1, <2>1, <2>3, AskedRec
      <3>2. QED
        BY <2>1, <2>3, <3>1 DEF Quiet, Posted
    <2>4. QED
      BY <2>2, <2>3
  <1>6. CASE Takes
    <2>1. PICK b \in Apps : OnlyMoves(b) /\ app'[b] = Taken(app[b])
      BY <1>6, TakesDoes
    <2>2. CASE b = a
      BY <1>1, <2>1, <2>2, TakenRec DEF Quiet
    <2>3. QED
      BY <1>2, <2>1, <2>2 DEF OnlyMoves
  <1>7. CASE Ends
    <2>1. Shrinks(app[a], app'[a])
      BY <1>7, EndsShrink DEF AllShrink
    <2>2. QED
      BY <1>1, <2>1 DEF Shrinks, Goes, Quiet
  <1>8. CASE Aside \/ UNCHANGED vars
    BY <1>2, <1>8, AsideApps
  <1>9. QED
    BY <1>2, <1>3, <1>4, <1>5, <1>6, <1>7, <1>8, Kinds

\* The channel of the pending call.
LEMMA PendingEffects ==
  ASSUME Base, Turns, [Next]_vars, NEW a \in Apps
  PROVE  \/ app'[a].pending = app[a].pending /\ app'[a].reply = app[a].reply
         \/ app'[a].pending = NoCall /\ app'[a].reply = "err" /\ app[a].pending # NoCall
         \/ app'[a].pending = NoCall /\ app'[a].reply = "none"
         \/ /\ Asks /\ pump'.app = a /\ pump'.pc \in {"thread_wait", "turn_wait"}
            /\ \/ app'[a].pending = app[a].pending /\ app'[a].reply = "err"
               \/ /\ app'[a].pending.what = IF pump'.pc = "thread_wait" THEN "thread" ELSE "turn"
                  /\ app'[a].pending.prompt = pump'.prompt /\ app'[a].reply = "none"
         \/ /\ HandleReply(a) /\ app[a].pending = Line(a).to /\ app'[a].pending = NoCall
            /\ app'[a].reply = IF Line(a).ok THEN "ok" ELSE "err"
  <1>1. app \in [Apps -> AppRec] /\ app[a] \in AppRec /\ TypeOK /\ \A b \in Apps : app[b] \in AppRec
    BY DEF Base, TypeOK
  <1>2. ASSUME NEW b \in Apps, ProbeOk(b)
        PROVE  app'[a].pending = app[a].pending /\ app'[a].reply = app[a].reply
    <2>1. CASE b = a
      <3>1. app[a] = NoApp /\ app'[a] = [NoApp EXCEPT !.proc = "live", !.reading = TRUE]
        BY <1>2, <2>1, ProbeDoes
      <3>2. QED
        BY <3>1 DEF NoApp
    <2>2. QED
      BY <1>2, <2>1, ProbeDoes DEF OnlyMoves
  <1>3. ASSUME NEW b \in Apps, Talks(b)
        PROVE  \/ app'[a].pending = app[a].pending /\ app'[a].reply = app[a].reply
               \/ /\ HandleReply(a) /\ app[a].pending = Line(a).to /\ app'[a].pending = NoCall
                  /\ app'[a].reply = IF Line(a).ok THEN "ok" ELSE "err"
    <2>1. CASE b # a
      BY <1>3, <2>1, TalksDoes DEF OnlyMoves
    <2>2. ASSUME NEW call \in Calls, NEW ok \in BOOLEAN, ServerReplies(a, call, ok)
          PROVE  app'[a].pending = app[a].pending /\ app'[a].reply = app[a].reply
      <3>1. Replied(a, call, ok)
        BY <1>1, <2>2, RepliesDoes, Zenon
      <3>2. QED
        BY <3>1 DEF Replied
    <2>3. ASSUME NEW p \in Prompts, NEW n \in 1 .. Len(NoteOrder), NEW text \in BOOLEAN,
                 ServerTells(a, p, n, text)
          PROVE  app'[a].pending = app[a].pending /\ app'[a].reply = app[a].reply
      <3>1. Told(a, p, n, text)
        BY <1>1, <2>3, TellsDoes, Zenon
      <3>2. QED
        BY <3>1 DEF Told
    <2>4. ASSUME ReadsLine(a)
          PROVE  \/ app'[a].pending = app[a].pending /\ app'[a].reply = app[a].reply
                 \/ /\ HandleReply(a) /\ app[a].pending = Line(a).to /\ app'[a].pending = NoCall
                    /\ app'[a].reply = IF Line(a).ok THEN "ok" ELSE "err"
      BY <1>1, <2>4, ReadsDoes DEF ReadsLine
    <2>5. QED
      BY <1>3, <2>1, <2>2, <2>3, <2>4 DEF Talks, ReadsLine
  <1>4. CASE Asks
    <2>1. PICK b \in Apps, call \in Calls :
            /\ OnlyMoves(b) /\ app'[b] = Asked(app[b], call) /\ call.prompt = pump.prompt
            /\ pump'.app = b /\ pump'.prompt = pump.prompt
            /\ \/ call.what = "thread" /\ pump'.pc = "thread_wait"
               \/ call.what = "turn" /\ pump'.pc = "turn_wait"
      BY <1>4, AsksDoes
    <2>2. CASE b # a
      BY <2>1, <2>2 DEF OnlyMoves
    <2>3. CASE b = a
      <3>1. \/ app'[a].reply = "err" /\ app'[a].pending = app[a].pending
            \/ app'[a].reply = "none" /\ app'[a].pending = call
        BY <1>1, <2>1, <2>3, AskedRec
      <3>2. QED
        BY <1>4, <2>1, <2>3, <3>1
    <2>4. QED
      BY <2>2, <2>3
  <1>5. CASE Takes
    <2>1. PICK b \in Apps : OnlyMoves(b) /\ app'[b] = Taken(app[b])
      BY <1>5, TakesDoes
    <2>2. CASE b = a
      BY <1>1, <2>1, <2>2, TakenRec
    <2>3. QED
      BY <2>1, <2>2 DEF OnlyMoves
  <1>6. CASE Ends
    BY <1>6, EndsShrink DEF AllShrink, Shrinks
  <1>7. CASE Aside \/ UNCHANGED vars
    BY <1>7, AsideApps
  <1>8. QED
    BY <1>2, <1>3, <1>4, <1>5, <1>6, <1>7, Kinds

\* What a server has done it has done until it ends.
LEMMA DoneStays ==
  ASSUME Base, Turns, [Next]_vars, NEW a \in Apps, app'[a].proc = "live"
  PROVE  /\ app[a].loaded => app'[a].loaded
         /\ \A p \in Prompts : app[a].running[p] # 0 => app'[a].running[p] # 0
         /\ app[a].proc = "live" \/ app[a] = NoApp
  <1>1. app[a] \in AppRec /\ TypeOK
    BY DEF Base, TypeOK
  <1>2. CASE Quiet(app[a], app'[a])
    BY <1>2 DEF Quiet
  <1>3. ASSUME NEW call \in Calls, Posted(a, call)
        PROVE  app[a].proc = "live" /\ app'[a].loaded = app[a].loaded /\ app'[a].running = app[a].running
    BY <1>3 DEF Posted
  <1>4. ASSUME NEW call \in Calls, NEW ok \in BOOLEAN, Replied(a, call, ok)
        PROVE  /\ app[a].proc = "live" /\ (app[a].loaded => app'[a].loaded)
               /\ \A p \in Prompts : app[a].running[p] # 0 => app'[a].running[p] # 0
    <2>1. app[a].proc = "live" /\ app'[a].loaded = (app[a].loaded \/ (ok /\ call.what = "thread"))
      BY <1>4, Zenon DEF Replied
    <2>2. \A p \in Prompts : app'[a].running[p] = IF p = call.prompt /\ ok /\ call.what = "turn" THEN 1
                                                ELSE app[a].running[p]
      BY <1>4, Zenon DEF Replied
    <2>3. app[a].loaded => app'[a].loaded
      BY <2>1, Zenon
    <2>4. \A p \in Prompts : app[a].running[p] # 0 => app'[a].running[p] # 0
      BY <2>2
    <2>5. QED
      BY <2>1, <2>3, <2>4, Zenon
  <1>5. ASSUME NEW p \in Prompts, NEW n \in 1 .. Len(NoteOrder), NEW text \in BOOLEAN, Told(a, p, n, text)
        PROVE  /\ app[a].proc = "live" /\ app'[a].loaded = app[a].loaded
               /\ \A s \in Prompts : app[a].running[s] # 0 => app'[a].running[s] # 0
    <2>1. n \in Nat
      BY Constants
    <2>2. QED
      BY <1>5, <2>1 DEF Told
  <1>6. CASE ReadsLine(a)
    BY <1>1, <1>6, ReadsDoes DEF ReadsLine, SameBut
  <1>7. QED
    BY <1>2, <1>3, <1>4, <1>5, <1>6, LineEffects

LEMMA WaitingPump ==
  ASSUME Base, Turns, [Next]_vars, pump.pc \in {"thread_wait", "turn_wait"}
  PROVE  pump' = pump \/ Takes
  <1>1. CASE PumpOnly \/ PumpFails \/ PumpAsks \/ PumpTake \/ Install \/ TurnSetup \/ TurnErrorEnds
    BY <1>1 DEF PumpOnly, PumpFails, PumpAsks, PumpTake, Install, TurnSetup, TurnErrorEnds, PumpExit, DaemonStarted,
       ThreadReady, TurnErrorIgnored, ProbeFail, ThreadNoApp, ThreadAsk, TurnAsk
  <1>2. CASE \E a \in Apps : ProbeOk(a)
    BY <1>2 DEF ProbeOk
  <1>3. CASE \E p \in Prompts : Send(p)
    BY <1>3, PromptFrame
  <1>4. CASE CloseApp(Pump)
    BY <1>4, Constants DEF CloseApp, Turns
  <1>5. QED
    BY <1>1, <1>2, <1>3, <1>4, WhoMovesPump

\* Where the pump comes from and goes to around its calls.
LEMMA PumpArrives ==
  ASSUME Base, Turns, [Next]_vars
  PROVE  /\ pump'.pc = "turn" => pump' = pump \/ ThreadReady \/ ThreadLoaded
         /\ pump'.pc = "turn_ask" => pump' = pump \/ TurnSetup
         /\ pump'.pc = "thread_wait" => pump' = pump \/ ThreadAsk
         /\ pump.pc \in {"turn", "turn_ask", "crashed"} => pump' = pump \/ TurnSetup \/ TurnAsk
  <1>1. pump \in PumpRec
    BY DEF Base, TypeOK, PumpRec
  <1>2. CASE PumpOnly \/ PumpFails \/ TurnErrorEnds
    BY <1>1, <1>2 DEF PumpOnly, PumpFails, TurnErrorEnds, PumpExit, DaemonStarted, ThreadReady, TurnErrorIgnored,
       ProbeFail, ThreadNoApp, FailPrompt, AtRest, PumpRec
  <1>3. CASE PumpAsks \/ TurnSetup \/ PumpTake \/ \E a \in Apps : ProbeOk(a)
    BY <1>1, <1>3 DEF PumpAsks, ThreadAsk, TurnAsk, TurnSetup, PumpTake, ProbeOk, PumpRec
  <1>4. CASE Takes
    BY <1>4, TakesPump, TakesDoes DEF AtRest
  <1>5. CASE Install
    BY <1>1, <1>5 DEF Install, PumpRec
  <1>6. CASE \E p \in Prompts : Send(p)
    BY <1>6, PromptFrame
  <1>7. CASE CloseApp(Pump)
    BY <1>7, Constants DEF CloseApp, Turns, AtRest
  <1>8. QED
    BY <1>2, <1>3, <1>4, <1>5, <1>6, <1>7, WhoMovesPump

\* Who waits for an answer in the next state waited before, or asks in this step.
LEMMA WaitingStays ==
  ASSUME Base, Turns, Waits, [Next]_vars, NEW a \in Apps,
         app'[a].pending # NoCall \/ app'[a].reply # "none"
  PROVE  \/ app[a].pending # NoCall /\ pump' = pump
         \/ app[a].reply # "none" /\ pump' = pump
         \/ Asks /\ pump'.app = a /\ pump'.pc \in {"thread_wait", "turn_wait"}
  <1>1. app \in [Apps -> AppRec] /\ app[a] \in AppRec /\ TypeOK
    BY DEF Base, TypeOK
  <1>2. CASE Asks /\ pump'.app = a /\ pump'.pc \in {"thread_wait", "turn_wait"}
    BY <1>2
  <1>3. CASE app[a].pending # NoCall \/ app[a].reply # "none"
    <2>1. pump.app = a /\ pump.pc \in {"thread_wait", "turn_wait"}
      BY <1>3 DEF Waits
    <2>2. ~Takes
      <3>1. SUFFICES ASSUME Takes
                     PROVE  FALSE
        OBVIOUS
      <3>2. app'[a] = Taken(app[a])
        BY <2>1, <3>1, TakesDoes
      <3>3. QED
        BY <1>1, <3>2, TakenRec
    <2>3. QED
      BY <1>3, <2>1, <2>2, WaitingPump
  <1>4. CASE HandleReply(a) /\ app[a].pending = Line(a).to
    <2>1. Line(a).to \in Calls
      BY <1>1, <1>4, ReadsDoes DEF HandleReply, Lines
    <2>2. QED
      BY <1>3, <1>4, <2>1, Constants
  <1>5. QED
    BY <1>2, <1>3, <1>4, PendingEffects

LEMMA WaitsKept ==
  ASSUME Base, Turns, Waits, [Next]_vars
  PROVE  Waits'
  <1> DEFINE Done(r, call) == IF call.what = "thread" THEN r.loaded ELSE r.running[call.prompt] # 0
  <1>1. /\ app \in [Apps -> AppRec] /\ TypeOK /\ \A a \in Apps : app[a] \in AppRec
        /\ pump \in PumpRec
    BY DEF Base, TypeOK, PumpRec
  <1>2. ASSUME NEW a \in Apps, app'[a].pending # NoCall \/ app'[a].reply # "none"
        PROVE  pump'.app = a /\ pump'.pc \in {"thread_wait", "turn_wait"}
    BY <1>2, WaitingStays DEF Waits
  <1>3. ASSUME NEW a \in Apps, app'[a].pending # NoCall
        PROVE  /\ app'[a].pending.what = IF pump'.pc = "thread_wait" THEN "thread" ELSE "turn"
               /\ app'[a].pending.prompt = pump'.prompt
    <2>1. ASSUME Asks
          PROVE  app[a].pending = NoCall
      <3>1. pump.pc \in {"thread", "turn_ask"}
        BY <2>1 DEF Asks, ThreadAsk, TurnAsk
      <3>2. QED
        BY <3>1 DEF Waits
    <2>2. CASE app'[a].pending = app[a].pending
      <3>1. pump' = pump
        BY <1>3, <2>1, <2>2, WaitingStays
      <3>2. QED
        BY <1>3, <2>2, <3>1 DEF Waits
    <2>3. CASE app'[a].pending # app[a].pending
      BY <1>3, <2>3, PendingEffects
    <2>4. QED
      BY <2>2, <2>3
  <1>4. ASSUME NEW a \in Apps, app'[a].proc = "live", app'[a].reply = "ok"
        PROVE  IF pump'.pc = "thread_wait" THEN app'[a].loaded ELSE app'[a].running[pump'.prompt] # 0
    <2>1. app[a].proc = "live" \/ app[a] = NoApp
      BY <1>4, DoneStays
    <2>2. ASSUME pump.pc \in {"thread_wait", "turn_wait"}
          PROVE  pump.prompt \in Prompts
      BY <1>1, <2>2 DEF Base, InOrder, PromptPcs, PumpRec
    <2>3. CASE app'[a].pending = app[a].pending /\ app'[a].reply = app[a].reply
      <3>1. app[a].proc = "live"
        BY <1>4, <2>1, <2>3 DEF NoApp
      <3>2. pump.pc \in {"thread_wait", "turn_wait"} /\ pump.app = a
        BY <1>4, <2>3 DEF Waits
      <3>3. pump' = pump
        <4>1. ~Asks
          BY <3>2 DEF Asks, ThreadAsk, TurnAsk
        <4>2. QED
          BY <1>4, <4>1, WaitingStays
      <3>4. IF pump.pc = "thread_wait" THEN app[a].loaded ELSE app[a].running[pump.prompt] # 0
        BY <1>4, <2>3, <3>1 DEF Waits
      <3>5. QED
        BY <1>4, <2>2, <3>2, <3>3, <3>4, DoneStays
    <2>4. CASE HandleReply(a) /\ app[a].pending = Line(a).to /\ app'[a].reply = IF Line(a).ok THEN "ok" ELSE "err"
      <3>1. /\ Line(a) \in Lines /\ Line(a) = app[a].out[1] /\ app[a].out # <<>> /\ Line(a).kind = "reply"
            /\ Line(a).ok /\ pump' = pump /\ app'[a].proc = app[a].proc
            /\ app'[a].loaded = app[a].loaded /\ app'[a].running = app[a].running
        <4>1. /\ Line(a) \in Lines /\ Line(a) = app[a].out[1] /\ app[a].out # <<>>
              /\ SameBut(app[a], app'[a]) /\ app'[a].loaded = app[a].loaded /\ app'[a].running = app[a].running
          BY <1>1, <2>4, ReadsDoes
        <4>2. Line(a).kind = "reply" /\ pump' = pump
          BY <2>4 DEF HandleReply
        <4>3. Line(a).ok
          BY <1>4, <2>4
        <4>4. QED
          BY <4>1, <4>2, <4>3 DEF SameBut
      <3>2. Line(a).to \in Calls /\ 1 \in 1 .. Len(app[a].out)
        BY <1>1, <3>1 DEF Lines, AppRec
      <3>3. /\ pump.pc \in {"thread_wait", "turn_wait"} /\ Line(a).to.prompt = pump.prompt
            /\ Line(a).to.what = IF pump.pc = "thread_wait" THEN "thread" ELSE "turn"
        BY <2>4, <3>2, Constants DEF Waits
      <3>4. IF Line(a).to.what = "thread" THEN app[a].loaded ELSE app[a].running[Line(a).to.prompt] # 0
        BY <1>4, <3>1, <3>2 DEF Waits
      <3>5. QED
        BY <3>1, <3>3, <3>4
    <2>5. QED
      BY <1>4, <2>3, <2>4, PendingEffects
  <1>5. ASSUME NEW a \in Apps, app'[a].proc = "live",
               NEW i \in 1 .. Len(app'[a].out), app'[a].out[i].kind = "reply", app'[a].out[i].ok
        PROVE  Done(app'[a], app'[a].out[i].to)
    <2>1. /\ app[a].out \in Seq(Lines) /\ (app[a].loaded => app'[a].loaded)
          /\ \A p \in Prompts : app[a].running[p] # 0 => app'[a].running[p] # 0
          /\ app[a].proc = "live" \/ app[a] = NoApp
      BY <1>1, <1>5, DoneStays DEF AppRec
    <2>2. ASSUME NEW j \in 1 .. Len(app[a].out), app'[a].out[i] = app[a].out[j]
          PROVE  Done(app'[a], app'[a].out[i].to)
      <3>1. app[a].proc = "live" /\ app[a].out[j] \in Lines
        BY <2>1, <2>2 DEF NoApp
      <3>2. app[a].out[j].to \in Calls /\ app[a].out[j].to.prompt \in Prompts
        BY <1>5, <2>2, <3>1 DEF Lines, Calls
      <3>3. Done(app[a], app[a].out[j].to)
        BY <1>5, <2>2, <3>1 DEF Waits
      <3>4. QED
        BY <2>1, <2>2, <3>2, <3>3
    <2>3. CASE Quiet(app[a], app'[a])
      BY <1>5, <2>2, <2>3 DEF Quiet
    <2>4. ASSUME NEW call \in Calls, Posted(a, call)
          PROVE  Done(app'[a], app'[a].out[i].to)
      BY <2>2, <2>4 DEF Posted
    <2>5. ASSUME NEW call \in Calls, NEW ok \in BOOLEAN, Replied(a, call, ok)
          PROVE  Done(app'[a], app'[a].out[i].to)
      <3> DEFINE line == [kind |-> "reply", ok |-> ok, to |-> call]
      <3>1. app'[a].out = Append(app[a].out, line)
        BY <2>5 DEF Replied
      <3> HIDE DEF line
      <3>2. CASE i = Len(app[a].out) + 1
        <4>1. app'[a].out[i] = line
          BY <2>1, <3>1, <3>2
        <4>2. ok /\ app'[a].out[i].to = call
          BY <1>5, <4>1 DEF line
        <4>3. call.what \in {"thread", "turn"} /\ call.prompt \in Prompts
          BY DEF Calls
        <4>4. CASE call.what = "thread"
          <5>1. app'[a].loaded = (app[a].loaded \/ (ok /\ call.what = "thread"))
            BY <2>5, Zenon DEF Replied
          <5>2. QED
            BY <4>2, <4>4, <5>1
        <4>5. CASE call.what = "turn"
          <5>1. \A p \in Prompts : app'[a].running[p] = IF p = call.prompt /\ ok /\ call.what = "turn" THEN 1
                                                      ELSE app[a].running[p]
            BY <2>5, Zenon DEF Replied
          <5>2. QED
            BY <4>2, <4>3, <4>5, <5>1
        <4>6. QED
          BY <4>3, <4>4, <4>5
      <3>3. CASE i # Len(app[a].out) + 1
        <4>1. i \in 1 .. Len(app[a].out) /\ app'[a].out[i] = app[a].out[i]
          BY <1>5, <2>1, <3>1, <3>3
        <4>2. QED
          BY <2>2, <4>1
      <3>4. QED
        BY <3>2, <3>3
    <2>6. ASSUME NEW p \in Prompts, NEW n \in 1 .. Len(NoteOrder), NEW text \in BOOLEAN, Told(a, p, n, text)
          PROVE  Done(app'[a], app'[a].out[i].to)
      <3> DEFINE line == [kind |-> "note", n |-> n, text |-> text, prompt |-> p]
      <3>1. app'[a].out = Append(app[a].out, line)
        BY <2>6 DEF Told
      <3>2. line.kind # "reply"
        OBVIOUS
      <3> HIDE DEF line
      <3>3. i \in 1 .. Len(app[a].out) /\ app'[a].out[i] = app[a].out[i]
        BY <1>5, <2>1, <3>1, <3>2
      <3>4. QED
        BY <2>2, <3>3
    <2>7. CASE ReadsLine(a)
      <3>1. app'[a].out = Tail(app[a].out) /\ app[a].out # <<>>
        BY <1>1, <2>7, ReadsDoes DEF ReadsLine
      <3>2. i + 1 \in 1 .. Len(app[a].out) /\ app'[a].out[i] = app[a].out[i + 1]
        BY <1>5, <2>1, <3>1
      <3>3. QED
        BY <2>2, <3>2
    <2>8. QED
      BY <2>3, <2>4, <2>5, <2>6, <2>7, LineEffects
  <1>6. ASSUME NEW a \in Apps, app'[a].proc # "live"
        PROVE  app'[a].asked = {} /\ app'[a].loaded = FALSE /\ \A p \in Prompts : app'[a].running[p] = 0
    <2>1. CASE Quiet(app[a], app'[a])
      BY <1>6, <2>1 DEF Quiet, NoApp, Waits
    <2>2. ASSUME NEW call \in Calls, Posted(a, call)
          PROVE  FALSE
      BY <1>6, <2>2 DEF Posted
    <2>3. ASSUME NEW call \in Calls, NEW ok \in BOOLEAN, Replied(a, call, ok)
          PROVE  FALSE
      BY <1>6, <2>3 DEF Replied, SameBut
    <2>4. ASSUME NEW p \in Prompts, NEW n \in 1 .. Len(NoteOrder), NEW text \in BOOLEAN, Told(a, p, n, text)
          PROVE  FALSE
      BY <1>6, <2>4 DEF Told, SameBut
    <2>5. CASE ReadsLine(a)
      <3>1. /\ app'[a].proc = app[a].proc /\ app'[a].asked = app[a].asked
            /\ app'[a].loaded = app[a].loaded /\ app'[a].running = app[a].running
        BY <1>1, <2>5, ReadsDoes DEF ReadsLine, SameBut
      <3>2. QED
        BY <1>6, <3>1 DEF Waits
    <2>6. QED
      BY <2>1, <2>2, <2>3, <2>4, <2>5, LineEffects
  <1>7. QED
    BY <1>2, <1>3, <1>4, <1>5, <1>6 DEF Waits

LEMMA ThreadsKept ==
  ASSUME Base, Turns, Waits, Threads, [Next]_vars
  PROVE  Threads'
  <1>1. /\ app \in [Apps -> AppRec] /\ TypeOK /\ \A a \in Apps : app[a] \in AppRec
        /\ pump \in PumpRec /\ codex \in Apps \cup {0} /\ thread \in BOOLEAN
    BY DEF Base, TypeOK, PumpRec
  <1>2. ASSUME NEW a \in Apps, app[a].loaded \/ app[a].proc # "live", app[a] # NoApp
        PROVE  app'[a].loaded \/ app'[a].proc # "live"
    BY <1>2, DoneStays
  <1>3. /\ codex # 0 => codex \in Apps /\ app[codex] # NoApp
        /\ pump.app # 0 => pump.app \in Apps /\ app[pump.app] # NoApp
    BY <1>1 DEF Base, AppsMade, NoApp, PumpRec
  <1>4. Install => thread' = thread /\ (thread => codex' = codex)
    BY DEF Install, Threads
  <1>5. ASSUME ThreadLoaded
        PROVE  /\ thread' /\ codex' = codex /\ codex \in {0, pump.app} /\ pump.app # 0
               /\ pump.app \in Apps /\ (app[pump.app].loaded \/ app[pump.app].proc # "live")
    <2>1. PICK a \in Apps : a = pump.app /\ app[a].reply = "ok" /\ pump.pc = "thread_wait"
      BY <1>5, TakesDoes DEF Takes, ThreadLoaded
    <2>2. app[a].loaded \/ app[a].proc # "live"
      BY <2>1 DEF Waits
    <2>3. QED
      BY <1>5, <2>1, <2>2, Constants DEF ThreadLoaded, Threads
  <1>6. ASSUME thread', codex' # 0
        PROVE  app'[codex'].loaded \/ app'[codex'].proc # "live"
    <2>1. CASE UNCHANGED <<codex, thread>>
      BY <1>2, <1>3, <1>6, <2>1 DEF Threads
    <2>2. CASE \E c \in Closers : CloseTake(c)
      BY <1>6, <2>2 DEF CloseTake
    <2>3. CASE Install
      <3>1. codex' = codex /\ thread
        BY <1>1, <1>3, <1>4, <1>6, <2>3 DEF Install, Threads
      <3>2. QED
        BY <1>2, <1>3, <1>6, <3>1 DEF Threads
    <2>4. CASE ThreadLoaded
      BY <1>2, <1>3, <1>5, <1>6, <2>4
    <2>5. QED
      BY <2>1, <2>2, <2>3, <2>4, WhoMovesCodex
  <1>7. ASSUME thread', codex' = 0
        PROVE  \/ pump'.pc \in {"turn", "crashed"}
               \/ pump'.pc = "turn_ask" /\ pump'.app = 0
    <2>1. CASE UNCHANGED <<codex, thread>>
      <3>1. pump.pc \in {"turn", "crashed"} \/ (pump.pc = "turn_ask" /\ pump.app = 0)
        BY <1>7, <2>1 DEF Threads
      <3>2. CASE TurnSetup
        BY <1>1, <1>7, <2>1, <3>2 DEF TurnSetup, PumpRec
      <3>3. CASE TurnAsk
        BY <1>1, <3>1, <3>3 DEF TurnAsk, PumpRec
      <3>4. QED
        BY <3>1, <3>2, <3>3, PumpArrives
    <2>2. CASE \E c \in Closers : CloseTake(c)
      BY <1>7, <2>2 DEF CloseTake
    <2>3. CASE Install
      <3>1. codex = 0 /\ thread
        BY <1>7, <2>3, <1>3 DEF Install
      <3>2. QED
        BY <2>3, <3>1 DEF Install, Threads
    <2>4. CASE ThreadLoaded
      BY <1>1, <2>4 DEF ThreadLoaded, PumpRec
    <2>5. QED
      BY <2>1, <2>2, <2>3, <2>4, WhoMovesCodex
  <1>8. ASSUME pump'.pc = "turn", codex' # 0
        PROVE  thread'
    <2>1. CASE ThreadReady
      BY <2>1 DEF ThreadReady
    <2>2. CASE ThreadLoaded
      BY <2>2 DEF ThreadLoaded
    <2>3. CASE pump' = pump
      <3>1. ~Install
        BY <1>8, <2>3 DEF Install
      <3>2. CASE UNCHANGED <<codex, thread>>
        BY <1>8, <2>3, <3>2 DEF Threads
      <3>3. CASE \E c \in Closers : CloseTake(c)
        BY <1>8, <3>3 DEF CloseTake
      <3>4. QED
        BY <2>2, <3>1, <3>2, <3>3, WhoMovesCodex
    <2>4. QED
      BY <1>8, <2>1, <2>2, <2>3, PumpArrives
  <1>9. ASSUME pump'.pc = "turn_ask", pump'.app # 0
        PROVE  app'[pump'.app].loaded \/ app'[pump'.app].proc # "live"
    <2>1. CASE pump' = pump
      BY <1>2, <1>3, <1>9, <2>1 DEF Threads
    <2>2. CASE TurnSetup
      <3>1. pump'.app = codex /\ pump.pc = "turn"
        BY <1>1, <2>2 DEF TurnSetup, PumpRec
      <3>2. QED
        BY <1>2, <1>3, <1>9, <3>1 DEF Threads
    <2>3. QED
      BY <1>9, <2>1, <2>2, PumpArrives
  <1>10. ASSUME pump'.pc = "thread_wait"
         PROVE  codex' \in {0, pump'.app}
    <2>1. CASE pump' = pump
      <3>1. ~Install
        BY <1>10, <2>1 DEF Install
      <3>2. CASE \E c \in Closers : CloseTake(c)
        BY <3>2 DEF CloseTake
      <3>3. QED
        BY <1>10, <2>1, <3>1, <3>2, WhoMovesCodex DEF Threads
    <2>2. CASE ThreadAsk
      BY <1>1, <2>2 DEF ThreadAsk, PumpRec
    <2>3. QED
      BY <1>10, <2>1, <2>2, PumpArrives
  <1>11. ASSUME NEW a \in Apps, NEW turnCall \in app'[a].asked, turnCall.what = "turn"
         PROVE  app'[a].loaded
    <2>1. ASSUME turnCall \in app[a].asked
          PROVE  app[a].loaded
      BY <1>11, <2>1 DEF Threads, TurnNeedsThread
    <2>2. CASE Quiet(app[a], app'[a])
      BY <1>11, <2>1, <2>2 DEF Quiet
    <2>3. ASSUME NEW call \in Calls, Posted(a, call)
          PROVE  app'[a].loaded
      <3>1. CASE turnCall \in app[a].asked
        BY <2>1, <2>3, <3>1 DEF Posted
      <3>2. CASE turnCall \notin app[a].asked
        <4>1. turnCall = call /\ TurnAsk /\ pump.app = a /\ app[a].proc = "live" /\ app'[a].loaded = app[a].loaded
          BY <1>11, <2>3, <3>2 DEF Posted
        <4>2. pump.pc = "turn_ask" /\ pump.app # 0
          BY <4>1, Constants DEF TurnAsk
        <4>3. QED
          BY <4>1, <4>2 DEF Threads
      <3>3. QED
        BY <3>1, <3>2
    <2>4. ASSUME NEW call \in Calls, NEW ok \in BOOLEAN, Replied(a, call, ok)
          PROVE  app'[a].loaded
      BY <1>11, <2>1, <2>4 DEF Replied
    <2>5. ASSUME NEW p \in Prompts, NEW n \in 1 .. Len(NoteOrder), NEW text \in BOOLEAN, Told(a, p, n, text)
          PROVE  app'[a].loaded
      BY <1>11, <2>1, <2>5 DEF Told
    <2>6. CASE ReadsLine(a)
      <3>1. app'[a].asked = app[a].asked /\ app'[a].loaded = app[a].loaded
        BY <1>1, <2>6, ReadsDoes DEF ReadsLine
      <3>2. QED
        BY <1>11, <2>1, <3>1
    <2>7. QED
      BY <2>2, <2>3, <2>4, <2>5, <2>6, LineEffects
  <1>12. TurnNeedsThread'
    BY <1>11 DEF TurnNeedsThread
  <1>13. QED
    BY <1>6, <1>7, <1>8, <1>9, <1>10, <1>12 DEF Threads

-----------------------------------------------------------------------------
(* The lines of a turn are told in order, and applied once *)

LEMMA TouchedBefore ==
  ASSUME Base, Turns, [Next]_vars, NEW a \in Apps, NEW p \in Prompts, Touched(a, p)'
  PROVE  Touched(a, p) \/ Posted(a, TurnCall(p))
  <1>1. app \in [Apps -> AppRec] /\ TypeOK /\ app[a].out \in Seq(Lines)
    BY DEF Base, TypeOK, AppRec
  <1>2. \/ TurnCall(p) \in app'[a].asked
        \/ app'[a].running[p] # 0
        \/ \E i \in 1 .. Len(app'[a].out) : NoteAt(app'[a], i, p)
    BY DEF Touched
  <1>3. CASE Quiet(app[a], app'[a])
    BY <1>2, <1>3 DEF Quiet, Touched, NoteAt
  <1>4. ASSUME NEW call \in Calls, Posted(a, call)
        PROVE  Touched(a, p) \/ Posted(a, TurnCall(p))
    BY <1>2, <1>4 DEF Posted, Touched, NoteAt
  <1>5. ASSUME NEW call \in Calls, NEW ok \in BOOLEAN, Replied(a, call, ok)
        PROVE  Touched(a, p)
    <2> DEFINE line == [kind |-> "reply", ok |-> ok, to |-> call]
    <2>1. app'[a].out = Append(app[a].out, line)
      BY <1>5 DEF Replied
    <2>2. line.kind # "note"
      OBVIOUS
    <2> HIDE DEF line
    <2>3. ASSUME NEW i \in 1 .. Len(app'[a].out), NoteAt(app'[a], i, p)
          PROVE  i \in 1 .. Len(app[a].out) /\ NoteAt(app[a], i, p)
      BY <1>1, <2>1, <2>2, <2>3 DEF NoteAt
    <2>4. CASE call = TurnCall(p)
      BY <1>5, <2>4 DEF Replied, Touched
    <2>5. CASE call # TurnCall(p)
      <3>1. ~(p = call.prompt /\ call.what = "turn")
        BY <2>5 DEF Calls, TurnCall
      <3>2. app'[a].running[p] = app[a].running[p] /\ (TurnCall(p) \in app'[a].asked => TurnCall(p) \in app[a].asked)
        BY <1>5, <3>1 DEF Replied
      <3>3. QED
        BY <1>2, <2>3, <3>2 DEF Touched
    <2>6. QED
      BY <2>4, <2>5
  <1>6. ASSUME NEW s \in Prompts, NEW n \in 1 .. Len(NoteOrder), NEW text \in BOOLEAN, Told(a, s, n, text)
        PROVE  Touched(a, p)
    <2> DEFINE line == [kind |-> "note", n |-> n, text |-> text, prompt |-> s]
    <2>1. app'[a].out = Append(app[a].out, line) /\ app'[a].asked = app[a].asked
      BY <1>6 DEF Told
    <2>2. CASE s = p
      BY <1>6, <2>2 DEF Told, Touched
    <2>3. CASE s # p
      <3>1. line.prompt # p /\ app'[a].running[p] = app[a].running[p]
        BY <1>6, <2>3 DEF Told
      <3> HIDE DEF line
      <3>2. ASSUME NEW i \in 1 .. Len(app'[a].out), NoteAt(app'[a], i, p)
            PROVE  i \in 1 .. Len(app[a].out) /\ NoteAt(app[a], i, p)
        BY <1>1, <2>1, <3>1, <3>2 DEF NoteAt
      <3>3. QED
        BY <1>2, <2>1, <3>1, <3>2 DEF Touched
    <2>4. QED
      BY <2>2, <2>3
  <1>7. CASE ReadsLine(a)
    <2>1. /\ app'[a].out = Tail(app[a].out) /\ app[a].out # <<>>
          /\ app'[a].asked = app[a].asked /\ app'[a].running = app[a].running
      BY <1>1, <1>7, ReadsDoes DEF ReadsLine
    <2>2. ASSUME NEW i \in 1 .. Len(app'[a].out), NoteAt(app'[a], i, p)
          PROVE  i + 1 \in 1 .. Len(app[a].out) /\ NoteAt(app[a], i + 1, p)
      BY <1>1, <2>1, <2>2 DEF NoteAt
    <2>3. QED
      BY <1>2, <2>1, <2>2 DEF Touched
  <1>8. QED
    BY <1>3, <1>4, <1>5, <1>6, <1>7, LineEffects

\* A line of the turn of p is read.
ReadsNote(a, p) == (HandleNote(a) \/ FlushCompleted(a)) /\ Line(a).prompt = p

LEMMA ReadsNoteDoes ==
  ASSUME Base, NEW a \in Apps, NEW p \in Prompts, ReadsNote(a, p)
  PROVE  /\ NoteAt(app[a], 1, p) /\ Touched(a, p) /\ Line(a).n \in 1 .. Len(NoteOrder) /\ Line(a) = app[a].out[1]
         /\ app'[a].out = Tail(app[a].out) /\ app[a].out # <<>> /\ app'[a].asked = app[a].asked
         /\ app'[a].running = app[a].running /\ app'[a].proc = app[a].proc /\ OnlyMoves(a) /\ UNCHANGED <<pump, sent, inbox>>
  <1>1. app[a].out \in Seq(Lines) /\ TypeOK
    BY DEF Base, TypeOK, AppRec
  <1>2. /\ Line(a).kind = "note" /\ Line(a).prompt = p /\ Line(a) \in Lines /\ Line(a) = app[a].out[1]
        /\ app[a].out # <<>> /\ app'[a].out = Tail(app[a].out) /\ app'[a].asked = app[a].asked
        /\ app'[a].running = app[a].running /\ app'[a].proc = app[a].proc /\ OnlyMoves(a)
    BY <1>1, ReadsDoes DEF ReadsNote, HandleNote, FlushCompleted, SameBut
  <1>3. Line(a).n \in 1 .. Len(NoteOrder) /\ 1 \in 1 .. Len(app[a].out)
    BY <1>1, <1>2 DEF Lines
  <1>4. UNCHANGED <<pump, sent, inbox>>
    BY DEF ReadsNote, HandleNote, FlushCompleted
  <1>5. QED
    BY <1>2, <1>3, <1>4 DEF NoteAt, Touched

LEMMA UntouchedStays ==
  ASSUME Base, [Next]_vars, NEW p \in Prompts, Untouched(p), \A a \in Apps : ~ReadsNote(a, p)
  PROVE  Untouched(p)'
  <1>1. item \in [Prompts -> ItemRec]
    BY DEF Base, TypeOK, ItemRec
  <1>2. ASSUME NEW a \in Apps, HandleNote(a)
        PROVE  item'[p] = item[p]
    BY <1>1, <1>2 DEF HandleNote, ReadsNote
  <1>3. ASSUME NEW a \in Apps, FlushCompleted(a)
        PROVE  Untouched(p)'
    <2>1. p \notin Unemitted /\ p # Line(a).prompt
      BY <1>3 DEF Unemitted, Untouched, ReadsNote
    <2>2. item'[p] = [item[p] EXCEPT !.over = @ \/ p = Line(a).prompt]
      BY <1>3, <2>1 DEF FlushCompleted
    <2>3. item'[p].text = item[p].text /\ item'[p].emitted = item[p].emitted /\ item'[p].over = item[p].over
      BY <1>1, <2>1, <2>2 DEF ItemRec
    <2>4. QED
      BY <2>3 DEF Untouched
  <1>4. ASSUME NEW s \in Prompts, ShowApproval(s)
        PROVE  Untouched(p)'
    <2>1. item'[p] = item[p] \/ item'[p] = [UseTool(item[p]) EXCEPT !.approval = FALSE]
      BY <1>1, <1>4 DEF ShowApproval
    <2>2. /\ UseTool(item[p]) \in ItemRec /\ UseTool(item[p]).text = item[p].text
          /\ UseTool(item[p]).emitted = item[p].emitted /\ UseTool(item[p]).over = item[p].over
      <3>1. UseTool(item[p]) \in ItemRec
        BY <1>1, ItemSteps
      <3>2. QED
        BY <1>1, <3>1 DEF UseTool, ItemRec
    <2>3. QED
      BY <1>1, <2>1, <2>2 DEF Untouched, ItemRec
  <1>5. QED
    BY <1>2, <1>3, <1>4, WhoMovesItem DEF Untouched

LEMMA ToldKept ==
  ASSUME Base, Turns, Waits, ToldInOrder, [Next]_vars
  PROVE  ToldInOrder'
  <1>1. SUFFICES ASSUME NEW p \in Prompts
                 PROVE  TurnTold(p)'
    BY DEF ToldInOrder
  <1>2. TurnTold(p)
    BY DEF ToldInOrder
  <1>3. /\ app \in [Apps -> AppRec] /\ TypeOK /\ \A a \in Apps : app[a].out \in Seq(Lines)
        /\ pump \in PumpRec
    BY DEF Base, TypeOK, AppRec, PumpRec
  <1>4. ASSUME Unasked(p)'
        PROVE  Unasked(p) /\ \A a \in Apps : ~Posted(a, TurnCall(p))
    <2>1. Unasked(p)
      <3>1. CASE Fresh(p)'
        BY <3>1, OrderKept DEF Unasked
      <3>2. CASE pump'.prompt = p /\ pump'.pc = "turn_ask" /\ pump' = pump
        BY <3>2 DEF Unasked
      <3>3. CASE pump'.prompt = p /\ TurnSetup
        <4>1. pump.prompt = p /\ pump.pc = "turn"
          BY <1>3, <3>3 DEF TurnSetup, PumpRec
        <4>2. QED
          BY <4>1 DEF Unasked, Fresh
      <3>4. QED
        BY <1>4, <3>1, <3>2, <3>3, PumpArrives DEF Unasked
    <2>2. ASSUME NEW a \in Apps, Posted(a, TurnCall(p))
          PROVE  FALSE
      <3>1. TurnAsk /\ pump.prompt = p /\ pump.app = a
        BY <2>2 DEF Posted, TurnCall
      <3>2. pump'.prompt = p /\ pump'.pc = "turn_wait" /\ sent' = sent /\ inbox' = inbox
        BY <1>3, <3>1, Constants DEF TurnAsk, PumpRec
      <3>3. p = TakenUpTo /\ p \in Nat
        BY <3>1, Constants DEF Base, InOrder
      <3>4. QED
        BY <1>4, <3>2, <3>3 DEF Unasked, Fresh, TakenUpTo
    <2>3. QED
      BY <2>1, <2>2
  <1>5. ASSUME NEW a \in Apps, Posted(a, TurnCall(p))
        PROVE  Unasked(p) /\ pump.app = a
    BY <1>5 DEF Posted, TurnCall, Unasked, TurnAsk
  <1>6. ASSUME NEW c \in Apps, ReadsNote(c, p)
        PROVE  ~Unasked(p) /\ \A a \in Apps : Touched(a, p) => a = c
    BY <1>2, <1>6, ReadsNoteDoes DEF TurnTold
  <1>7. ASSUME Unasked(p)'
        PROVE  Untouched(p)' /\ \A a \in Apps : ~Touched(a, p)'
    <2>1. Unasked(p) /\ Untouched(p) /\ \A a \in Apps : ~Touched(a, p) /\ ~Posted(a, TurnCall(p))
      BY <1>2, <1>4, <1>7 DEF TurnTold
    <2>2. \A a \in Apps : ~Touched(a, p)'
      BY <2>1, TouchedBefore
    <2>3. \A a \in Apps : ~ReadsNote(a, p)
      BY <1>6, <2>1
    <2>4. QED
      BY <2>1, <2>2, <2>3, UntouchedStays
  <1>8. ASSUME NEW a \in Apps, NEW b \in Apps, Touched(a, p)', Touched(b, p)'
        PROVE  a = b
    <2>1. \A d \in {a, b} : Touched(d, p) \/ Posted(d, TurnCall(p))
      BY <1>8, TouchedBefore
    <2>2. (\E d \in {a, b} : Posted(d, TurnCall(p))) => ~Touched(a, p) /\ ~Touched(b, p)
      BY <1>2, <1>5 DEF TurnTold
    <2>3. QED
      BY <1>2, <1>5, <2>1, <2>2 DEF TurnTold
  <1> DEFINE
        Rest(a) ==
          /\ TurnCall(p) \in app[a].asked =>
               /\ app[a].running[p] = 0 /\ Untouched(p)
               /\ \A i \in 1 .. Len(app[a].out) : ~NoteAt(app[a], i, p)
          /\ app[a].running[p] = 1 => Untouched(p)
          /\ \A i \in 1 .. Len(app[a].out) : NoteAt(app[a], i, p) =>
               /\ app[a].proc = "live" => app[a].out[i].n < app[a].running[p]
               /\ app[a].out[i].n = 1 => Untouched(p)
               /\ \A j \in 1 .. Len(app[a].out) : NoteAt(app[a], j, p) /\ i < j =>
                    app[a].out[i].n < app[a].out[j].n
  <1>9. \A a \in Apps : Rest(a)
    BY <1>2 DEF TurnTold
  <1>10. ASSUME NEW a \in Apps, ~Touched(a, p)'
         PROVE  Rest(a)'
    BY <1>10 DEF Touched
  <1>11. ASSUME NEW a \in Apps, ReadsNote(a, p)
         PROVE  Rest(a)'
    <2>1. /\ NoteAt(app[a], 1, p) /\ Line(a).n \in 1 .. Len(NoteOrder) /\ Line(a) = app[a].out[1]
          /\ app'[a].out = Tail(app[a].out) /\ app[a].out # <<>> /\ app'[a].asked = app[a].asked
          /\ app'[a].running = app[a].running /\ app'[a].proc = app[a].proc
      BY <1>11, ReadsNoteDoes
    <2>2. 1 \in 1 .. Len(app[a].out) /\ Line(a).n \in Nat /\ Line(a).n >= 1
      BY <1>3, <2>1, Constants
    <2>3. TurnCall(p) \notin app'[a].asked
      BY <1>9, <2>1, <2>2
    <2>4. app'[a].running[p] # 1
      <3>1. CASE app[a].proc = "live"
        BY <1>9, <2>1, <2>2, <3>1
      <3>2. CASE app[a].proc # "live"
        BY <2>1, <3>2 DEF Waits
      <3>3. QED
        BY <3>1, <3>2
    <2>5. \A i \in 1 .. Len(app'[a].out) : /\ i + 1 \in 1 .. Len(app[a].out)
                                           /\ app'[a].out[i] = app[a].out[i + 1]
      BY <1>3, <2>1
    <2>6. \A i \in 1 .. Len(app'[a].out) : NoteAt(app'[a], i, p) => NoteAt(app[a], i + 1, p)
      BY <2>5 DEF NoteAt
    <2>7. ASSUME NEW i \in 1 .. Len(app'[a].out), NoteAt(app'[a], i, p)
          PROVE  /\ app'[a].proc = "live" => app'[a].out[i].n < app'[a].running[p]
                 /\ app'[a].out[i].n # 1
                 /\ \A j \in 1 .. Len(app'[a].out) : NoteAt(app'[a], j, p) /\ i < j =>
                      app'[a].out[i].n < app'[a].out[j].n
      <3>1. NoteAt(app[a], i + 1, p) /\ i + 1 \in 1 .. Len(app[a].out) /\ app'[a].out[i] = app[a].out[i + 1]
        BY <2>5, <2>6, <2>7
      <3>2. app[a].out[1].n < app[a].out[i + 1].n
        BY <1>9, <2>1, <2>2, <3>1
      <3>3. app[a].out[i + 1].n # 1
        BY <2>1, <2>2, <3>2
      <3>4. app'[a].proc = "live" => app'[a].out[i].n < app'[a].running[p]
        BY <1>9, <2>1, <3>1
      <3>5. ASSUME NEW j \in 1 .. Len(app'[a].out), NoteAt(app'[a], j, p), i < j
            PROVE  app'[a].out[i].n < app'[a].out[j].n
        <4>1. NoteAt(app[a], j + 1, p) /\ j + 1 \in 1 .. Len(app[a].out) /\ app'[a].out[j] = app[a].out[j + 1]
              /\ i + 1 < j + 1
          BY <2>5, <2>6, <3>5
        <4>2. QED
          BY <1>9, <3>1, <4>1
      <3>6. QED
        BY <3>1, <3>3, <3>4, <3>5
    <2>8. QED
      BY <2>3, <2>4, <2>7
  <1>12. ASSUME NEW a \in Apps, \A c \in Apps : ~ReadsNote(c, p)
         PROVE  Rest(a)'
    <2>0. Untouched(p) => Untouched(p)'
      BY <1>12, UntouchedStays
    <2>1. CASE Quiet(app[a], app'[a])
      BY <1>9, <2>0, <2>1 DEF Quiet, NoApp, NoteAt
    <2>2. ASSUME NEW call \in Calls, Posted(a, call)
          PROVE  Rest(a)'
      <3>1. /\ app'[a].asked = app[a].asked \cup {call} /\ app'[a].running = app[a].running
            /\ app'[a].out = app[a].out /\ app'[a].proc = app[a].proc
        BY <2>2 DEF Posted
      <3>2. CASE call = TurnCall(p)
        <4>1. Untouched(p) /\ ~Touched(a, p)
          BY <1>2, <1>5, <2>2, <3>2 DEF TurnTold
        <4>2. QED
          BY <2>0, <3>1, <4>1 DEF Touched, NoteAt
      <3>3. CASE call # TurnCall(p)
        BY <1>9, <2>0, <3>1, <3>3 DEF NoteAt
      <3>4. QED
        BY <3>2, <3>3
    <2>3. ASSUME NEW call \in Calls, NEW ok \in BOOLEAN, Replied(a, call, ok)
          PROVE  Rest(a)'
      <3> DEFINE line == [kind |-> "reply", ok |-> ok, to |-> call]
      <3>1. /\ app'[a].out = Append(app[a].out, line) /\ app'[a].proc = app[a].proc /\ app[a].proc = "live"
            /\ app'[a].asked = app[a].asked \ {call} /\ call \in app[a].asked
            /\ app'[a].running[p] = IF p = call.prompt /\ ok /\ call.what = "turn" THEN 1 ELSE app[a].running[p]
        BY <2>3 DEF Replied, SameBut
      <3>2. line.kind # "note"
        OBVIOUS
      <3> HIDE DEF line
      <3>3. \A i \in 1 .. Len(app'[a].out) : NoteAt(app'[a], i, p) =>
                 /\ i \in 1 .. Len(app[a].out) /\ NoteAt(app[a], i, p) /\ app'[a].out[i] = app[a].out[i]
        BY <1>3, <3>1, <3>2 DEF NoteAt
      <3>4. CASE call = TurnCall(p)
        <4>1. TurnCall(p) \notin app'[a].asked /\ Untouched(p)
              /\ \A i \in 1 .. Len(app'[a].out) : ~NoteAt(app'[a], i, p)
          BY <1>9, <3>1, <3>3, <3>4
        <4>2. QED
          BY <2>0, <4>1
      <3>5. CASE call # TurnCall(p)
        <4>1. ~(p = call.prompt /\ call.what = "turn")
          BY <3>5 DEF Calls, TurnCall
        <4>2. app'[a].running[p] = app[a].running[p] /\ (TurnCall(p) \in app'[a].asked => TurnCall(p) \in app[a].asked)
          BY <3>1, <4>1
        <4>3. QED
          BY <1>9, <2>0, <3>1, <3>3, <4>2
      <3>6. QED
        BY <3>4, <3>5
    <2>4. ASSUME NEW s \in Prompts, NEW n \in 1 .. Len(NoteOrder), NEW text \in BOOLEAN, Told(a, s, n, text)
          PROVE  Rest(a)'
      <3> DEFINE line == [kind |-> "note", n |-> n, text |-> text, prompt |-> s]
      <3>1. /\ app'[a].out = Append(app[a].out, line) /\ app'[a].proc = app[a].proc /\ app[a].proc = "live"
            /\ app'[a].asked = app[a].asked /\ app[a].running[s] \in 1 .. n /\ n \in Nat
            /\ app'[a].running[p] = IF p = s THEN n + 1 ELSE app[a].running[p]
        BY <2>4, Constants DEF Told, SameBut
      <3>2. line.n = n /\ line.prompt = s /\ line.kind = "note"
        OBVIOUS
      <3> HIDE DEF line
      <3>3. \A i \in 1 .. Len(app'[a].out) :
                 \/ i \in 1 .. Len(app[a].out) /\ app'[a].out[i] = app[a].out[i]
                 \/ i = Len(app'[a].out) /\ app'[a].out[i] = line /\ i = Len(app[a].out) + 1
        BY <1>3, <3>1
      <3>4. CASE s # p
        <4>1. \A i \in 1 .. Len(app'[a].out) : NoteAt(app'[a], i, p) =>
                   /\ i \in 1 .. Len(app[a].out) /\ NoteAt(app[a], i, p) /\ app'[a].out[i] = app[a].out[i]
          BY <3>2, <3>3, <3>4 DEF NoteAt
        <4>2. app'[a].running[p] = app[a].running[p]
          BY <3>1, <3>4
        <4>3. QED
          BY <1>9, <2>0, <3>1, <4>1, <4>2
      <3>5. CASE s = p
        <4>1. TurnCall(p) \notin app'[a].asked /\ app'[a].running[p] = n + 1 /\ app'[a].running[p] # 1
              /\ app[a].running[p] \in 1 .. n
          BY <1>9, <3>1, <3>5
        <4>2. ASSUME NEW i \in 1 .. Len(app[a].out), NoteAt(app[a], i, p)
              PROVE  app[a].out[i].n \in Nat /\ app[a].out[i].n < n
          <5>1. app[a].out[i] \in Lines /\ app[a].out[i].kind = "note"
            BY <1>3, <4>2 DEF NoteAt
          <5>2. app[a].out[i].n \in 1 .. Len(NoteOrder)
            BY <5>1 DEF Lines
          <5>3. app[a].out[i].n < app[a].running[p]
            BY <1>9, <3>1, <4>2
          <5>4. app[a].out[i].n \in Nat
            BY <5>2, Constants
          <5>5. app[a].running[p] \in 1 .. n /\ n \in Nat
            BY <3>1, <4>1
          <5>6. QED
            BY <5>3, <5>4, <5>5
        <4>3. n = 1 => Untouched(p)
          <5>1. n = 1 => app[a].running[p] = 1
            BY <3>1, <4>1
          <5>2. QED
            BY <1>9, <5>1
        <4>4. ASSUME NEW i \in 1 .. Len(app'[a].out), NoteAt(app'[a], i, p)
              PROVE  /\ app'[a].out[i].n < app'[a].running[p]
                     /\ app'[a].out[i].n = 1 => Untouched(p)'
                     /\ \A j \in 1 .. Len(app'[a].out) : NoteAt(app'[a], j, p) /\ i < j =>
                          app'[a].out[i].n < app'[a].out[j].n
          <5>1. CASE i \in 1 .. Len(app[a].out) /\ app'[a].out[i] = app[a].out[i]
            <6>1. NoteAt(app[a], i, p) /\ app[a].out[i].n \in Nat /\ app[a].out[i].n < n
              BY <4>2, <4>4, <5>1 DEF NoteAt
            <6>2. app[a].out[i].n = 1 => Untouched(p)
              BY <1>9, <5>1, <6>1
            <6>3. ASSUME NEW j \in 1 .. Len(app'[a].out), NoteAt(app'[a], j, p), i < j
                  PROVE  app'[a].out[i].n < app'[a].out[j].n
              <7>1. CASE j \in 1 .. Len(app[a].out) /\ app'[a].out[j] = app[a].out[j]
                <8>1. NoteAt(app[a], j, p)
                  BY <6>3, <7>1 DEF NoteAt
                <8>2. QED
                  BY <1>9, <5>1, <6>1, <6>3, <7>1, <8>1
              <7>2. CASE app'[a].out[j] = line
                BY <3>2, <5>1, <6>1, <7>2
              <7>3. QED
                BY <3>3, <7>1, <7>2
            <6>4. app'[a].out[i].n < app'[a].running[p]
              <7>1. n \in Nat /\ app'[a].running[p] = n + 1 /\ app'[a].out[i].n = app[a].out[i].n
                BY <3>1, <4>1, <5>1
              <7>2. QED
                BY <6>1, <7>1
            <6>5. app'[a].out[i].n = 1 => Untouched(p)'
              BY <2>0, <5>1, <6>2
            <6>6. QED
              BY <6>3, <6>4, <6>5
          <5>2. CASE i = Len(app'[a].out) /\ app'[a].out[i] = line
            <6>1. app'[a].out[i].n = n
              BY <3>2, <5>2
            <6>2. \A j \in 1 .. Len(app'[a].out) : ~(i < j)
              BY <5>2
            <6>3. QED
              BY <2>0, <3>1, <4>1, <4>3, <6>1, <6>2
          <5>3. QED
            BY <3>3, <5>1, <5>2
        <4>5. QED
          BY <4>1, <4>4
      <3>6. QED
        BY <3>4, <3>5
    <2>5. CASE ReadsLine(a)
      <3>1. /\ app'[a].out = Tail(app[a].out) /\ app[a].out # <<>> /\ app'[a].proc = app[a].proc
            /\ app'[a].asked = app[a].asked /\ app'[a].running = app[a].running
        BY <1>3, <2>5, ReadsDoes DEF ReadsLine, SameBut
      <3>2. \A i \in 1 .. Len(app'[a].out) : /\ i + 1 \in 1 .. Len(app[a].out)
                                             /\ app'[a].out[i] = app[a].out[i + 1]
        BY <1>3, <3>1
      <3>3. \A i \in 1 .. Len(app'[a].out) : NoteAt(app'[a], i, p) => NoteAt(app[a], i + 1, p)
        BY <3>2 DEF NoteAt
      <3>4. \A i, j \in 1 .. Len(app'[a].out) : i < j => i + 1 < j + 1
        OBVIOUS
      <3>5. QED
        BY <1>9, <2>0, <3>1, <3>2, <3>3, <3>4
    <2>6. QED
      BY <2>1, <2>2, <2>3, <2>4, <2>5, LineEffects
  <1>13. \A a \in Apps : Rest(a)'
    <2>1. CASE \A c \in Apps : ~ReadsNote(c, p)
      BY <1>12, <2>1
    <2>2. ASSUME NEW c \in Apps, ReadsNote(c, p), NEW a \in Apps
          PROVE  Rest(a)'
      <3>1. CASE a = c
        BY <1>11, <2>2, <3>1
      <3>2. CASE a # c
        <4>1. ~Touched(a, p) /\ ~Posted(a, TurnCall(p))
          BY <1>5, <1>6, <2>2, <3>2
        <4>2. QED
          BY <1>10, <4>1, TouchedBefore
      <3>3. QED
        BY <3>1, <3>2
    <2>3. QED
      BY <2>1, <2>2
  <1>14. QED
    BY <1>7, <1>8, <1>13 DEF TurnTold

\* A tool use is shown once, and a text that is finished gets its row.
LEMMA KeptSteps ==
  ASSUME NEW r \in ItemRec, Kept(r)
  PROVE  /\ Kept([UseTool(r) EXCEPT !.approval = FALSE])
         /\ \A n \in {"delta", "item", "tool_started", "approval", "completed"}, text \in BOOLEAN :
              (n = "delta" => ~r.emitted /\ ~r.over) => Kept(AfterNote(r, n, text))
  <1>1. Kept(UseTool(r)) /\ UseTool(r) \in ItemRec
    <2>1. UseTool(r) \in ItemRec
      BY ItemSteps
    <2>2. CASE r.toolUsed
      BY <2>1, <2>2 DEF UseTool
    <2>3. CASE ~r.toolUsed
      <3>1. UseTool(r) = [r EXCEPT !.toolUsed = TRUE, !.toolRows = r.toolRows + 1]
        BY <2>3 DEF UseTool
      <3>2. UseTool(r).toolUsed /\ UseTool(r).toolRows = 1 /\ UseTool(r).text = r.text
            /\ UseTool(r).emitted = r.emitted /\ UseTool(r).over = r.over /\ UseTool(r).rows = r.rows
        BY <2>3, <3>1 DEF Kept, ItemRec
      <3>3. QED
        BY <2>1, <3>2 DEF Kept
    <2>4. QED
      BY <2>2, <2>3
  <1>2. Kept([UseTool(r) EXCEPT !.approval = FALSE])
    <2> DEFINE q == UseTool(r)
    <2>1. q \in ItemRec /\ Kept(q)
      BY <1>1
    <2> HIDE DEF q
    <2>2. Kept([q EXCEPT !.approval = FALSE])
      BY <2>1 DEF Kept, ItemRec
    <2>3. QED
      BY <2>2 DEF q
  <1>3. ASSUME NEW text \in BOOLEAN
        PROVE  Kept(Finish(r, text))
    <2>1. r.rows \in Nat
      BY DEF ItemRec
    <2>2. CASE text \/ r.text
      <3>1. Finish(r, text) = [r EXCEPT !.emitted = TRUE, !.rows = r.rows + 1]
        BY <2>2 DEF Finish
      <3>2. QED
        BY <2>1, <3>1 DEF Kept, ItemRec
    <2>3. CASE ~text /\ ~r.text
      <3>1. Finish(r, text) = [r EXCEPT !.emitted = TRUE, !.rows = r.rows]
        BY <2>3 DEF Finish
      <3>2. QED
        BY <2>3, <3>1 DEF Kept, ItemRec
    <2>4. QED
      BY <2>2, <2>3
  <1>4. /\ ~r.emitted /\ ~r.over => Kept([r EXCEPT !.text = TRUE])
        /\ Kept([r EXCEPT !.approval = TRUE])
    BY DEF Kept, ItemRec
  <1>5. QED
    BY <1>1, <1>2, <1>3, <1>4 DEF AfterNote

LEMMA RowsKept ==
  ASSUME Base, ToldInOrder, ItemsKeptRows, [Next]_vars
  PROVE  ItemsKeptRows'
  <1>1. item \in [Prompts -> ItemRec] /\ TypeOK /\ \A p \in Prompts : item[p] \in ItemRec /\ Kept(item[p])
    BY DEF Base, TypeOK, ItemRec, ItemsKeptRows
  <1>2. ASSUME NEW a \in Apps, HandleNote(a), NEW p \in Prompts
        PROVE  Kept(item'[p])
    <2>1. CASE Line(a).prompt # p
      BY <1>1, <1>2, <2>1 DEF HandleNote
    <2>2. CASE Line(a).prompt = p
      <3>1. /\ NoteAt(app[a], 1, p) /\ Line(a).n \in 1 .. Len(NoteOrder) /\ Line(a) = app[a].out[1]
            /\ app[a].out # <<>>
        BY <1>2, <2>2, ReadsNoteDoes DEF ReadsNote
      <3>2. Line(a) \in Lines /\ Line(a).kind = "note"
        BY <1>1, <1>2, ReadsDoes DEF HandleNote
      <3>3. Line(a).text \in BOOLEAN
        BY <3>2 DEF Lines
      <3>4. NoteOf(a) \in {"delta", "item", "tool_started", "approval", "completed"}
            /\ (NoteOf(a) = "delta" => Line(a).n = 1)
        <4>1. Line(a).n \in {1, 2, 3, 4, 5}
          BY <3>1, Constants
        <4>2. NoteOf(a) = <<"delta", "item", "tool_started", "approval", "completed">>[Line(a).n]
          BY DEF NoteOf, NoteOrder
        <4>3. QED
          BY <4>1, <4>2
      <3>5. Line(a).n = 1 => Untouched(p)
        BY <3>1 DEF ToldInOrder, TurnTold, NoteAt
      <3>6. item'[p] = AfterNote(item[p], NoteOf(a), Line(a).text)
        BY <1>1, <1>2, <2>2 DEF HandleNote
      <3>7. QED
        BY <1>1, <3>3, <3>4, <3>5, <3>6, KeptSteps DEF Untouched
    <2>3. QED
      BY <2>1, <2>2
  <1>3. ASSUME NEW a \in Apps, FlushCompleted(a), NEW p \in Prompts
        PROVE  Kept(item'[p])
    <2> DEFINE over == item[p].over \/ p = Line(a).prompt
               r == [item[p] EXCEPT !.over = over]
    <2>1. item'[p] = IF p \in Unemitted THEN [r EXCEPT !.emitted = TRUE, !.rows = @ + 1] ELSE r
      BY <1>3 DEF FlushCompleted
    <2>2. over \in BOOLEAN
      BY <1>1 DEF ItemRec
    <2> HIDE DEF over
    <2>3. /\ r \in ItemRec /\ r.text = item[p].text /\ r.emitted = item[p].emitted /\ r.rows = item[p].rows
          /\ r.toolUsed = item[p].toolUsed /\ r.toolRows = item[p].toolRows
      BY <1>1, <2>2 DEF ItemRec
    <2> HIDE DEF r
    <2>4. CASE p \in Unemitted
      <3>1. r.rows \in Nat /\ item'[p] = [r EXCEPT !.emitted = TRUE, !.rows = r.rows + 1]
        BY <2>1, <2>3, <2>4 DEF ItemRec
      <3>2. QED
        BY <1>1, <2>3, <3>1 DEF Kept, ItemRec
    <2>5. CASE p \notin Unemitted
      BY <1>1, <2>1, <2>3, <2>5 DEF Kept, Unemitted
    <2>6. QED
      BY <2>4, <2>5
  <1>4. ASSUME NEW s \in Prompts, ShowApproval(s), NEW p \in Prompts
        PROVE  Kept(item'[p])
    <2>1. item'[p] = item[p] \/ item'[p] = [UseTool(item[p]) EXCEPT !.approval = FALSE]
      BY <1>1, <1>4 DEF ShowApproval
    <2>2. QED
      BY <1>1, <2>1, KeptSteps
  <1>5. QED
    BY <1>1, <1>2, <1>3, <1>4, WhoMovesItem DEF ItemsKeptRows

-----------------------------------------------------------------------------

\* Which app-server is reachable, what is owed to the web, what the pump waits for, which
\* app-server has the thread, and what each turn has told: each part is inductive with those
\* before it.
CodexInv ==
    /\ Base /\ Turns /\ Reachable /\ Owed
    /\ Waits /\ Threads /\ ToldInOrder /\ ItemsKeptRows

LEMMA CodexInvAlways == Spec => []CodexInv
  <1>1. Init => CodexInv
    <2>1. SUFFICES ASSUME Init
                   PROVE  Reachable /\ Owed /\ Waits /\ Threads /\ ToldInOrder /\ ItemsKeptRows
      BY BaseStarts DEF CodexInv
    <2>2. app = [a \in Apps |-> NoApp] /\ item = [p \in Prompts |-> NewItem] /\ thread = FALSE
      BY <2>1 DEF Init
    <2>3. Reachable /\ Owed
      BY <2>1 DEF Init, Reachable, Owed, NoApp
    <2>4. Waits
      BY <2>2 DEF Waits, NoApp
    <2>5. Threads
      BY <2>1, <2>2, Constants DEF Init, AtRest, Threads, TurnNeedsThread, NoApp
    <2>6. ToldInOrder
      <3>1. \A a \in Apps, p \in Prompts : ~Touched(a, p)
        BY <2>2 DEF Touched, NoApp, NoteAt
      <3>2. \A p \in Prompts : Untouched(p)
        BY <2>2 DEF Untouched, NewItem
      <3>3. \A a \in Apps, p \in Prompts : app[a].running[p] = 0
        BY <2>2 DEF NoApp
      <3>4. \A a \in Apps : app[a].asked = {} /\ app[a].out = <<>>
        BY <2>2 DEF NoApp
      <3>5. QED
        BY <3>1, <3>2, <3>3, <3>4 DEF ToldInOrder, TurnTold
    <2>7. ItemsKeptRows
      BY <2>2 DEF ItemsKeptRows, Kept, NewItem
    <2>8. QED
      BY <2>3, <2>4, <2>5, <2>6, <2>7
  <1>2. CodexInv /\ [Next]_vars => CodexInv'
    BY BaseKept, ReachableKept, OwedKept, WaitsKept, ThreadsKept, ToldKept, RowsKept DEF CodexInv
  <1>3. QED
    BY <1>1, <1>2, PTL DEF Spec

\* closeCodexApp hands a client over from the driver to the closer, and startCodexApp closes the
\* one it does not install: however the two interleave with a Stop and with the processes' own
\* ends, a running app-server can be reached by somebody who will close it.
THEOREM NoOrphanAppAlways == Spec => []NoOrphanApp
  <1>1. CodexInv => NoOrphanApp
    BY DEF CodexInv, Base, Reachable, NoOrphanApp
  <1>2. QED
    BY <1>1, CodexInvAlways, PTL

\* turn/completed, a failed turn/start, the watchdog and the reaper all end a turn: one of them
\* does, and the prompt_ready is owed by somebody until it is sent.
THEOREM EndsAsOwedAlways == Spec => []EndsAsOwed
  <1>1. CodexInv => EndsAsOwed
    <2>1. SUFFICES ASSUME CodexInv
                   PROVE  EndsAsOwed
      OBVIOUS
    <2>2. EndedOnce
      BY <2>1 DEF CodexInv, Turns, EndedOnce
    <2>3. ReadyIsOwed
      BY <2>1 DEF CodexInv, Owed, Owes, Working, ReadyIsOwed
    <2>4. QED
      BY <2>2, <2>3 DEF EndsAsOwed
  <1>2. QED
    BY <1>1, CodexInvAlways, PTL

\* closeCodexApp forgets the client and the thread id together under the mutex, but
\* ensureCodexThread and runCodexTurn read them in separate critical sections: whatever comes
\* between, turn/start goes to an app-server that has loaded the thread.
THEOREM TurnNeedsThreadAlways == Spec => []TurnNeedsThread
  <1>1. CodexInv => TurnNeedsThread
    BY DEF CodexInv, Threads
  <1>2. QED
    BY <1>1, CodexInvAlways, PTL

\* handleCodexNotification, the flush of turn/completed and the approval goroutine each write
\* their part of a turn, and readLoop matches answers to calls: an answer is never taken for
\* that of a later call, a tool use has one row, and a streamed reply has one once its
\* turn/completed is handled. The reply of a turn that ends otherwise has none before a later
\* turn completes, and waits for that.
THEOREM LinesAreAppliedAlways == Spec => []LinesAreApplied
  <1>1. CodexInv => LinesAreApplied
    <2>1. SUFFICES ASSUME CodexInv
                   PROVE  LinesAreApplied
      OBVIOUS
    <2>2. ReplyIsToCall
      BY <2>1 DEF CodexInv, Waits, ReplyIsToCall
    <2>3. \A p \in Prompts : Kept(item[p])
      BY <2>1 DEF CodexInv, ItemsKeptRows
    <2>4. UnkeptAwaitsFlush
      BY <2>3 DEF Kept, UnkeptAwaitsFlush, Unemitted
    <2>5. ToolUseOnce
      BY <2>3 DEF Kept, ToolUseOnce
    <2>6. QED
      BY <2>2, <2>4, <2>5 DEF LinesAreApplied
  <1>2. QED
    BY <1>1, CodexInvAlways, PTL

=============================================================================
