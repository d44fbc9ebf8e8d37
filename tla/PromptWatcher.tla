--------------------------- MODULE PromptWatcher ---------------------------
(***************************************************************************)
(* The wrapper's view of Claude's permission prompts.  A prompt is found   *)
(* on the screen, in a buffer of what the TUI painted, or presumed from a  *)
(* tool_use row of the transcript that no result has followed; a handler   *)
(* then asks the web for a decision and types the number of an option.     *)
(* Meanwhile the user can answer in the terminal.                          *)
(***************************************************************************)
EXTENDS PromptState

vars    == <<life, answer, shown, rows, buffer, active, recent, timers, ticking, fired,
             toolUse, handler, cards>>
claude  == <<life, answer, shown, rows>>
watcher == <<buffer, active, recent, timers, ticking, fired, toolUse>>

Free == [pc |-> "free", tool |-> Nil, sig |-> Nil, id |-> Nil,
         local |-> FALSE, allow |-> 0, deny |-> 0, key |-> 0]

-----------------------------------------------------------------------------
(* Claude and the user.                                                    *)

\* ~/.claude/sessions/<pid>.json says that Claude waits: for a permission, or
\* for the answer to a question, which it reports the same way.
Waiting == shown # Nil

Quietly == UNCHANGED <<watcher, handler, cards>>
Log(t, kind) == rows' = Append(rows, [tool |-> t, kind |-> kind])

Call(t) == /\ life[t] = "new" /\ life' = [life EXCEPT ![t] = "called"]
           /\ Log(t, "use")
           /\ UNCHANGED <<answer, shown>> /\ Quietly
Show(t) == /\ life[t] = "called" /\ shown = Nil
           /\ shown' = t /\ life' = [life EXCEPT ![t] = "shown"]
           /\ UNCHANGED <<answer, rows>> /\ Quietly
\* Choosing an option, or typing something that is none.
Choose(k, by) ==
    IF shown # Nil /\ k \in DOMAIN Layout[shown]
    THEN /\ answer' = IF by = Nil THEN answer ELSE [answer EXCEPT ![shown] = Layout[shown][k]]
         /\ life' = [life EXCEPT ![shown] = "answered"]
         /\ shown' = Nil /\ UNCHANGED rows
    ELSE UNCHANGED claude
UserAnswers == shown # Nil /\ (\E k \in DOMAIN Layout[shown] : Choose(k, Nil)) /\ Quietly
\* A tool that runs without a prompt, or after it, has a result.
Result(t) == /\ life[t] \in {"called", "answered"}
             /\ life' = [life EXCEPT ![t] = "done"] /\ Log(t, "result")
             /\ UNCHANGED <<answer, shown>> /\ Quietly

-----------------------------------------------------------------------------
(* Starting a handler, under the watcher's mutex.                          *)

CanStart(sig) == sig \notin active \cup recent
Prompt(t, sig, id, local, keys) ==
    [Free EXCEPT !.pc = "begin", !.tool = t, !.sig = sig, !.id = id, !.local = local,
                 !.allow = keys.allow, !.deny = keys.deny]
NoKeys == [allow |-> 0, deny |-> 0]
\* The timer of the signature is stopped; the buffer is emptied.
StartLocked(p, timers1, ticking1, toolUse1) ==
    /\ active' = active \cup {p.sig}
    /\ buffer' = <<>>
    /\ timers' = [timers1 EXCEPT ![p.sig] = Nil]
    /\ ticking' = ticking1 \ {timers1[p.sig]}
    /\ toolUse' = IF p.id = Nil THEN toolUse1 ELSE [toolUse1 EXCEPT ![p.id] = Nil]
    /\ \E h \in Handlers : handler[h] = Free
    /\ handler' = [handler EXCEPT ![CHOOSE h \in Handlers : handler[h] = Free] = p]
    /\ UNCHANGED recent

\* The first one-time Yes and the first No of the buffer, the last prompt line.
IsDialog(t)  == t \notin Questions
KeysOf(t, m) == {k \in DOMAIN Layout[t] : Layout[t][k] = m}
FirstKey(b, m) ==
    LET found == {i \in DOMAIN b : KeysOf(b[i], m) # {} /\ IsDialog(b[i])}
        first == CHOOSE i \in found : \A j \in found : i <= j
    IN IF found = {} THEN 0 ELSE CHOOSE k \in KeysOf(b[first], m) : TRUE
Detected(b) ==
    LET dialogs == {i \in DOMAIN b : IsDialog(b[i])}
        last    == b[CHOOSE i \in dialogs : \A j \in dialogs : i >= j]
        keys    == [allow |-> FirstKey(b, "yes"), deny |-> FirstKey(b, "no")]
    IN IF dialogs = {} THEN {}
       ELSE IF keys.allow # 0 /\ keys.deny # 0 THEN {Prompt(last, ScreenSig[last], Nil, FALSE, keys)}
       ELSE IF Waiting THEN {Prompt(last, LocalSig[last], Nil, TRUE, NoKeys)}
       ELSE {}

Painted(t) == LET b == Append(buffer, t) IN IF Len(b) > BufferCap THEN Tail(b) ELSE b
\* A chunk of output: a frame of the prompt shown, or anything else.
Feed ==
    /\ \E b \in {buffer} \cup (IF Waiting THEN {Painted(shown)} ELSE {}) :
          IF \E p \in Detected(b) : CanStart(p.sig)
          THEN /\ \E p \in Detected(b) : StartLocked(p, timers, ticking, toolUse)
               /\ UNCHANGED fired
          ELSE buffer' = b /\ UNCHANGED <<active, recent, timers, ticking, fired, toolUse, handler>>
    /\ UNCHANGED <<claude, cards>>

-----------------------------------------------------------------------------
(* The fallback: a tool that was logged and has no result.                 *)

Unchanged == UNCHANGED <<buffer, active, recent, fired, handler>>
\* The row of a question is no request for a permission.
Approvable(t) == t \notin Questions
ScheduleFallback(t) ==
    LET sig == LogSig[t]
    IN IF ~Approvable(t) \/ ~CanStart(sig) \/ timers[sig] # Nil
       THEN UNCHANGED <<timers, ticking, toolUse>> /\ Unchanged
       ELSE /\ timers' = [timers EXCEPT ![sig] = t]
            /\ ticking' = ticking \cup {t}
            /\ toolUse' = [toolUse EXCEPT ![t] = sig]
            /\ Unchanged
CancelFallback(t) ==
    LET sig == toolUse[t]
    IN IF sig = Nil THEN UNCHANGED <<timers, ticking, toolUse>> /\ Unchanged
       ELSE /\ toolUse' = [toolUse EXCEPT ![t] = Nil]
            /\ ticking' = ticking \ {timers[sig]}
            /\ timers' = [timers EXCEPT ![sig] = Nil]
            /\ Unchanged
\* The tailer hands over the rows in order.
Observe ==
    /\ rows # <<>> /\ rows' = Tail(rows)
    /\ IF Head(rows).kind = "use" THEN ScheduleFallback(Head(rows).tool)
       ELSE CancelFallback(Head(rows).tool)
    /\ UNCHANGED <<life, answer, shown, cards>>

Fire(t) == /\ t \in ticking
           /\ ticking' = ticking \ {t} /\ fired' = fired \cup {t}
           /\ UNCHANGED <<claude, buffer, active, recent, timers, toolUse, handler, cards>>
\* The callback drops the signature's timer, whoever's it is, and starts a
\* handler if Claude waits for anything; it does not ask whether it was
\* cancelled while it waited for the mutex.
StartScheduledFallback(t) ==
    LET sig == LogSig[t]
        timers1  == [timers EXCEPT ![sig] = Nil]
        toolUse1 == [toolUse EXCEPT ![t] = Nil]
    IN /\ t \in fired /\ fired' = fired \ {t}
       /\ IF Waiting /\ CanStart(sig)
          THEN StartLocked(Prompt(t, sig, t, FALSE, NoKeys), timers1, ticking, toolUse1)
          ELSE /\ timers' = timers1 /\ toolUse' = toolUse1
               /\ UNCHANGED <<buffer, active, recent, ticking, handler>>
       /\ UNCHANGED <<claude, cards>>

-----------------------------------------------------------------------------
(* A handler.                                                              *)

\* A mutant of Finish: nothing is cleaned up.
FinishForgets(h) == /\ handler' = [handler EXCEPT ![h] = Free]
                    /\ UNCHANGED <<active, recent, toolUse, buffer, timers, ticking, fired>>
Finish(h) ==
    LET q == handler[h]
    IN /\ handler' = [handler EXCEPT ![h] = Free]
       /\ active' = active \ {q.sig} /\ recent' = recent \cup {q.sig}
       /\ toolUse' = IF q.id = Nil THEN toolUse ELSE [toolUse EXCEPT ![q.id] = Nil]
       /\ UNCHANGED <<buffer, timers, ticking, fired>>
Forgotten(sig) == /\ sig \in recent /\ recent' = recent \ {sig}
                  /\ UNCHANGED <<claude, buffer, active, timers, ticking, fired, toolUse, handler, cards>>

\* A prompt without readable options is announced, without a request.
Announce(h) == /\ handler[h].pc = "begin" /\ handler[h].local /\ Finish(h)
               /\ UNCHANGED <<claude, cards>>
Register(h) ==
    /\ handler[h].pc = "begin" /\ ~handler[h].local
    /\ \/ /\ handler' = [handler EXCEPT ![h].pc = "await"]
          /\ cards' = cards \cup {h} /\ UNCHANGED watcher
       \/ Finish(h) /\ UNCHANGED cards          \* the daemon refuses
    /\ UNCHANGED claude
\* A mutant of EndsUndecided: the wrapper asks again.
AsksAgain(h) == /\ handler[h].pc = "await"
                /\ handler' = [handler EXCEPT ![h].pc = "begin"]
                /\ UNCHANGED <<claude, watcher, cards>>
\* Half a minute passed, or the daemon went away: the card is closed.
EndsUndecided(h) == /\ handler[h].pc = "await" /\ Finish(h)
                    /\ cards' = cards \ {h} /\ UNCHANGED claude
KeyFor(q, decision) == IF decision = "allow" THEN IF q.allow = 0 THEN 1 ELSE q.allow
                       ELSE IF q.deny = 0 THEN 3 ELSE q.deny
\* Claude must still be waiting when the decision comes.
Decided(h) ==
    /\ handler[h].pc = "await"
    /\ IF Waiting
       THEN /\ \E d \in {"allow", "deny"} :
                  handler' = [handler EXCEPT ![h].pc = "type", ![h].key = KeyFor(handler[h], d)]
            /\ UNCHANGED <<watcher, cards>>
       ELSE Finish(h) /\ cards' = cards \ {h}
    /\ UNCHANGED claude
Type(h) == /\ handler[h].pc = "type"
           /\ Choose(handler[h].key, h)
           /\ Finish(h) /\ cards' = cards \ {h}

-----------------------------------------------------------------------------
Init ==
    /\ life = [t \in Tools |-> "new"]
    /\ answer = [t \in Tools |-> Nil]
    /\ shown = Nil /\ rows = <<>> /\ buffer = <<>>
    /\ active = {} /\ recent = {}
    /\ timers = [s \in Sigs |-> Nil] /\ ticking = {} /\ fired = {}
    /\ toolUse = [t \in Tools |-> Nil]
    /\ handler = [h \in Handlers |-> Free] /\ cards = {}

Next == \/ UserAnswers \/ Feed \/ Observe
        \/ \E t \in Tools : Call(t) \/ Show(t) \/ Result(t) \/ Fire(t) \/ StartScheduledFallback(t)
        \/ \E s \in Sigs : Forgotten(s)
        \/ \E h \in Handlers : \/ Announce(h) \/ Register(h) \/ EndsUndecided(h)
                               \/ Decided(h) \/ Type(h)
Spec == Init /\ [][Next]_vars

\* A handler runs, and the daemon answers 504 in the end; neither Claude, the
\* user nor the web need do anything.
Fairness == \A h \in Handlers : /\ WF_vars(Announce(h)) /\ WF_vars(Register(h))
                                /\ WF_vars(EndsUndecided(h)) /\ WF_vars(Type(h))
FairSpec == Spec /\ Fairness

-----------------------------------------------------------------------------
(* Properties.                                                             *)

\* A card the web shows as pending is closed in the end, answered or not.
EveryCardCloses == \A h \in Handlers : (h \in cards) ~> (h \notin cards)
=============================================================================
