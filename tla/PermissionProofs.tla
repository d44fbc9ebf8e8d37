-------------------------- MODULE PermissionProofs --------------------------
(***************************************************************************)
(* Proofs for Permission: its type invariant, and, for every request with  *)
(* an id of its own, that its agent is told the choice made on its own     *)
(* card, that this is the choice that arrived first, and that a decision   *)
(* which comes too late is refused.  The second part is about where the    *)
(* wrapper's requests come from, PromptWatcher.                            *)
(***************************************************************************)
EXTENDS Permission, PromptState, SequenceTheorems, WellFoundedInduction, TLAPS

-----------------------------------------------------------------------------
(* Type correctness *)

LEMMA TypeInit == Init => TypeOK
  BY PermissionAssumption DEF Init, TypeOK

LEMMA TypeAgent ==
  ASSUME TypeOK, NEW r \in Requests, Agent(r)
  PROVE  TypeOK'
  <1> USE PermissionAssumption DEF TypeOK, Key, callVars
  <1>1. CASE Register(r) \/ RegisterConflict(r) \/ ConflictIgnored(r)
    BY <1>1 DEF Register, RegisterConflict, ConflictIgnored, Return, Failures
  <1>2. CASE AwaitLookup(r)
    BY <1>2 DEF AwaitLookup, Return, Failures
  <1>3. CASE Abandon(r)
    BY <1>3 DEF Abandon, Return, Failures
  <1>4. CASE AwaitOutcome(r)
    BY <1>4 DEF AwaitOutcome
  <1>5. CASE AwaitTimeout(r)
    BY <1>5 DEF AwaitTimeout, Failures
  <1>6. CASE AwaitCtxDone(r)
    BY <1>6 DEF AwaitCtxDone, Return, Failures
  <1>7. CASE Delete(r)
    BY <1>7 DEF Delete
  <1>8. QED
    BY <1>1, <1>2, <1>3, <1>4, <1>5, <1>6, <1>7 DEF Agent

LEMMA TypeCaller ==
  ASSUME TypeOK, NEW c \in Calls, Caller(c)
  PROVE  TypeOK'
  <1> USE PermissionAssumption DEF TypeOK, Key
  <1>1. ASSUME NEW r \in Requests, NEW o \in Outcomes, DecideLookup(c, r, o)
        PROVE  TypeOK'
    <2>1. [req |-> r, outcome |-> o] \in Asks
      BY DEF Asks
    <2>2. call' \in [Calls -> Asks \cup {None}]
      BY <1>1, <2>1 DEF DecideLookup
    <2>3. late' \in [Calls -> BOOLEAN]
      BY <1>1 DEF DecideLookup
    <2>4. ack' \in [Calls -> {"none", "accepted", "not_found"}]
      BY <1>1 DEF DecideLookup, Ack
    <2>5. /\ target' \in [Calls -> Requests \cup {None}]
          /\ cpc' \in [Calls -> {"idle", "sending", "done"}]
      <3>1. pending[id[r]] \in Requests \cup {None}
        OBVIOUS
      <3>2. target' = target \/ target' = [target EXCEPT ![c] = pending[id[r]]]
        BY <1>1 DEF DecideLookup
      <3>3. cpc' = [cpc EXCEPT ![c] = "sending"] \/ cpc' = [cpc EXCEPT ![c] = "done"]
        BY <1>1 DEF DecideLookup
      <3>4. QED
        BY <3>1, <3>2, <3>3
    <2>6. \A k \in Calls : cpc'[k] # "idle" => call'[k] # None
      BY <1>1, <2>1 DEF DecideLookup
    <2>7. \A k \in Calls : cpc'[k] = "sending" => target'[k] # None
      BY <1>1 DEF DecideLookup
    <2>8. QED
      BY <1>1, <2>2, <2>3, <2>4, <2>5, <2>6, <2>7 DEF DecideLookup
  <1>2. CASE DecideSend(c)
    <2>1. call[c] \in Asks /\ target[c] \in Requests
      BY <1>2 DEF DecideSend
    <2>2. call[c].outcome \in Outcomes
      BY <2>1 DEF Asks
    <2>3. /\ ch' \in [Requests -> Outcomes \cup {"empty"}]
          /\ first' \in [Requests -> Outcomes \cup {"none"}]
      BY <1>2, <2>1, <2>2 DEF DecideSend, Send, Slot
    <2>4. QED
      BY <1>2, <2>3 DEF DecideSend, Ack
  <1>3. QED
    BY <1>1, <1>2 DEF Caller

LEMMA TypeNext == TypeOK /\ [Next]_vars => TypeOK'
  <1>1. ASSUME TypeOK, UNCHANGED vars PROVE TypeOK'
    BY <1>1 DEF TypeOK, vars
  <1>2. QED
    BY <1>1, TypeAgent, TypeCaller DEF Next

(* Every state of the broker is well typed, and no goroutine uses the       *)
(* channel of an entry it did not find (store.go Await, Decide, Cancel).    *)
THEOREM TypeCorrect == Spec => []TypeOK
  BY TypeInit, TypeNext, PTL DEF Spec

-----------------------------------------------------------------------------
(* Requests with ids of their own *)

\* The strengthening of the properties below: entries are found only by requests
\* and calls of the same id, so the channel of a request with its own id holds
\* choices made on its card, and until it is answered the first of them.
EntriesByKey ==
    \A i \in Ids : pending[i] # None => id[pending[i]] = i /\ wpc[pending[i]] # "start"

ParkedByKey == \A r \in Requests : parked[r] # None => id[parked[r]] = id[r]

TargetByKey ==
    \A c \in Calls : /\ cpc[c] = "idle" => call[c] = None
                     /\ target[c] # None => call[c] # None /\ id[target[c]] = id[call[c].req]

OutcomeIsTold ==
    \A r \in Requests : wpc[r] \in {"start", "registered", "parked"} => result[r] = "none"

ChannelIsAsked == \A r \in Requests : OwnId(r) /\ ch[r] # "empty" => Asked(r, ch[r])

ChannelIsFirst ==
    \A r \in Requests : OwnId(r) /\ result[r] = "none" =>
        ch[r] = IF first[r] = "none" THEN "empty" ELSE first[r]

Inv ==
    /\ TypeOK
    /\ EntriesByKey /\ ParkedByKey /\ TargetByKey /\ OutcomeIsTold
    /\ ChannelIsAsked /\ ChannelIsFirst
    /\ AnswerIsForTheRequest /\ FirstDecisionWins

LEMMA InvInit == Init => Inv
  <1> SUFFICES ASSUME Init PROVE Inv
    OBVIOUS
  <1>1. TypeOK
    BY TypeInit
  <1>2. QED
    BY <1>1, PermissionAssumption
    DEF Init, Inv, EntriesByKey, ParkedByKey, TargetByKey, OutcomeIsTold, ChannelIsAsked,
        ChannelIsFirst, AnswerIsForTheRequest, FirstDecisionWins, Outcomes

\* A call, once made, is never changed.
LEMMA AskedStays ==
  ASSUME TypeOK, TargetByKey, Next, NEW r \in Requests, NEW o, Asked(r, o)
  PROVE  Asked(r, o)'
  <1>1. PICK c \in Calls : call[c] # None /\ call[c].req = r /\ call[c].outcome = o
    BY DEF Asked
  <1>2. call'[c] = call[c]
    <2>1. CASE \E q \in Requests : Agent(q)
      BY <2>1 DEF Agent, Register, RegisterConflict, ConflictIgnored, AwaitLookup, Abandon,
                  AwaitOutcome, AwaitTimeout, AwaitCtxDone, Delete, callVars
    <2>2. CASE \E k \in Calls : Caller(k)
      <3>1. PICK k \in Calls : Caller(k)
        BY <2>2
      <3>2. CASE DecideSend(k)
        BY <3>2 DEF DecideSend
      <3>3. ASSUME NEW q \in Requests, NEW choice, DecideLookup(k, q, choice)
            PROVE  call'[c] = call[c]
        <4>1. k # c
          BY <1>1, <3>3 DEF DecideLookup, TargetByKey
        <4>2. call' = [call EXCEPT ![k] = [req |-> q, outcome |-> choice]]
          BY <3>3 DEF DecideLookup
        <4>3. QED
          BY <1>1, <4>1, <4>2 DEF TypeOK
      <3>4. QED
        BY <3>1, <3>2, <3>3 DEF Caller
    <2>3. QED
      BY <2>1, <2>2 DEF Next
  <1>3. QED
    BY <1>1, <1>2 DEF Asked

\* The ids the requests came with stay.
LEMMA IdStays == ASSUME Next PROVE id' = id
  <1>1. CASE \E q \in Requests : Agent(q)
    BY <1>1 DEF Agent, Register, RegisterConflict, ConflictIgnored, AwaitLookup, Abandon,
                AwaitOutcome, AwaitTimeout, AwaitCtxDone, Delete, callVars
  <1>2. CASE \E c \in Calls : Caller(c)
    BY <1>2 DEF Caller, DecideLookup, DecideSend
  <1>3. QED
    BY <1>1, <1>2 DEF Next

LEMMA InvAgent ==
  ASSUME Inv, NEW q \in Requests, Agent(q)
  PROVE  Inv'
  <1> USE PermissionAssumption DEF Inv, TypeOK, Key
  <1>1. TypeOK'
    BY TypeAgent
  <1>2. (EntriesByKey /\ ParkedByKey /\ TargetByKey /\ OutcomeIsTold)'
    <2> USE DEF EntriesByKey, ParkedByKey, TargetByKey, OutcomeIsTold, callVars
    <2>1. CASE Register(q) \/ RegisterConflict(q) \/ ConflictIgnored(q)
      BY <2>1 DEF Register, RegisterConflict, ConflictIgnored, Return
    <2>2. CASE AwaitLookup(q)
      BY <2>2 DEF AwaitLookup, Return
    <2>3. CASE Abandon(q)
      BY <2>3 DEF Abandon, Return
    <2>4. CASE AwaitOutcome(q)
      BY <2>4 DEF AwaitOutcome
    <2>5. CASE AwaitTimeout(q)
      BY <2>5 DEF AwaitTimeout
    <2>6. CASE AwaitCtxDone(q)
      BY <2>6 DEF AwaitCtxDone, Return
    <2>7. CASE Delete(q)
      BY <2>7 DEF Delete
    <2>8. QED
      BY <2>1, <2>2, <2>3, <2>4, <2>5, <2>6, <2>7 DEF Agent
  <1>3. ASSUME NEW r \in Requests, NEW o, Asked(r, o) PROVE Asked(r, o)'
    BY <1>3, AskedStays DEF Next
  <1>4. \A r \in Requests : OwnId(r)' => OwnId(r)
    BY IdStays DEF Next, OwnId
  <1>5. ASSUME NEW r \in Requests, OwnId(r)
        PROVE \/ ch'[r] = ch[r] /\ (result'[r] = result[r] \/ result'[r] \in Failures)
              \/ ch'[r] = "empty" /\ ch[r] # "empty" /\ result[r] = "none" /\ result'[r] = ch[r]
    <2>1. CASE AwaitOutcome(q)
      <3>1. parked[q] = r <=> q = r
        BY <1>5, <2>1 DEF AwaitOutcome, ParkedByKey, OwnId
      <3>2. QED
        BY <2>1, <3>1 DEF AwaitOutcome, OutcomeIsTold
    <2>2. CASE ~AwaitOutcome(q)
      BY <2>2 DEF Agent, Register, RegisterConflict, ConflictIgnored, AwaitLookup, Abandon,
                  AwaitTimeout, AwaitCtxDone, Delete, Return, Failures
    <2>3. QED
      BY <2>1, <2>2
  <1>6. first' = first
    BY DEF Agent, Register, RegisterConflict, ConflictIgnored, AwaitLookup, Abandon, AwaitOutcome,
           AwaitTimeout, AwaitCtxDone, Delete, callVars
  <1>7. Failures \cap (Outcomes \cup {"none"}) = {}
    BY DEF Failures, Outcomes
  <1>8. ASSUME NEW r \in Requests, NEW o, OwnId(r), ch'[r] = o, o # "empty" PROVE Asked(r, o)'
    BY <1>3, <1>5, <1>8 DEF ChannelIsAsked
  <1>9. ChannelIsAsked'
    BY <1>4, <1>8 DEF ChannelIsAsked, Asked
  <1>10. (ChannelIsFirst /\ FirstDecisionWins)'
    BY <1>4, <1>5, <1>6, <1>7 DEF ChannelIsFirst, FirstDecisionWins, Outcomes
  <1>11. AnswerIsForTheRequest'
    <2> SUFFICES ASSUME NEW r \in Requests, NEW o \in Outcomes, OwnId(r), result'[r] = o
                 PROVE  Asked(r, o)'
      BY <1>4 DEF AnswerIsForTheRequest, Asked
    <2>1. result[r] = o \/ (ch[r] = o /\ ch[r] # "empty")
      BY <1>5, <1>7
    <2>2. Asked(r, o)
      BY <2>1 DEF ChannelIsAsked, AnswerIsForTheRequest
    <2>3. QED
      BY <1>3, <2>2
  <1>12. QED
    BY <1>1, <1>2, <1>9, <1>10, <1>11

LEMMA InvCaller ==
  ASSUME Inv, NEW c \in Calls, Caller(c)
  PROVE  Inv'
  <1> USE PermissionAssumption DEF Inv, TypeOK, Key
  <1>1. TypeOK'
    BY TypeCaller
  <1>2. ASSUME NEW r \in Requests, NEW o, Asked(r, o) PROVE Asked(r, o)'
    BY <1>2, AskedStays DEF Next
  <1>3. /\ UNCHANGED <<id, pending, wpc, parked, result>>
        /\ (EntriesByKey /\ ParkedByKey /\ OutcomeIsTold)'
    BY DEF Caller, DecideLookup, DecideSend, EntriesByKey, ParkedByKey, OutcomeIsTold
  <1>4. \A r \in Requests : OwnId(r)' <=> OwnId(r)
    BY <1>3 DEF OwnId
  <1>5. TargetByKey'
    <2>1. ASSUME NEW r \in Requests, NEW o \in Outcomes, DecideLookup(c, r, o)
          PROVE  TargetByKey'
      <3>1. [req |-> r, outcome |-> o] # None
        BY DEF Asks
      <3>2. pending[id[r]] # None => id[pending[id[r]]] = id[r]
        BY DEF EntriesByKey
      <3>3. target[c] = None
        BY <2>1 DEF DecideLookup, TargetByKey
      <3>4. /\ call'[c] = [req |-> r, outcome |-> o]
            /\ cpc'[c] # "idle"
            /\ target'[c] \in {None, pending[id[r]]}
        BY <2>1, <3>3 DEF DecideLookup
      <3>5. \A k \in Calls \ {c} : call'[k] = call[k] /\ cpc'[k] = cpc[k] /\ target'[k] = target[k]
        BY <2>1 DEF DecideLookup
      <3>6. QED
        BY <1>3, <3>1, <3>2, <3>4, <3>5 DEF TargetByKey
    <2>2. CASE DecideSend(c)
      BY <2>2 DEF DecideSend, TargetByKey
    <2>3. QED
      BY <2>1, <2>2 DEF Caller
  <1>6. AnswerIsForTheRequest'
    <2> SUFFICES ASSUME NEW r \in Requests, NEW o \in Outcomes, OwnId(r), result'[r] = o
                 PROVE  Asked(r, o)'
      BY <1>4 DEF AnswerIsForTheRequest, Asked
    <2>1. Asked(r, o)
      BY <1>3 DEF AnswerIsForTheRequest
    <2>2. QED
      BY <1>2, <2>1
  <1>7. (ChannelIsAsked /\ ChannelIsFirst /\ FirstDecisionWins)'
    <2>1. CASE \E r \in Requests, o \in Outcomes : DecideLookup(c, r, o)
      <3>1. UNCHANGED <<ch, result, first>>
        BY <2>1 DEF DecideLookup
      <3>2. ASSUME NEW r \in Requests, NEW o, OwnId(r), ch'[r] = o, o # "empty" PROVE Asked(r, o)'
        BY <1>2, <3>1, <3>2 DEF ChannelIsAsked
      <3>3. ChannelIsAsked'
        BY <1>4, <3>2 DEF ChannelIsAsked, Asked
      <3>4. QED
        BY <1>4, <3>1, <3>3 DEF ChannelIsFirst, FirstDecisionWins
    <2>2. CASE DecideSend(c)
      <3>1. target[c] \in Requests /\ call[c] \in Asks
        BY <2>2 DEF DecideSend
      <3>2. call[c].outcome \in Outcomes /\ call[c].req \in Requests
        BY <3>1 DEF Asks
      <3>3. OwnId(target[c]) => target[c] = call[c].req
        BY <3>1, <3>2 DEF TargetByKey, OwnId
      <3>4. OwnId(target[c]) => Asked(target[c], call[c].outcome)
        BY <3>1, <3>3 DEF Asked
      <3>5. ASSUME NEW r \in Requests, NEW o, OwnId(r), ch'[r] = o, o # "empty" PROVE Asked(r, o)'
        <4>1. Asked(r, o)
          BY <2>2, <3>1, <3>4, <3>5 DEF ChannelIsAsked, DecideSend, Send, Slot
        <4>2. QED
          BY <1>2, <4>1
      <3>6. ChannelIsAsked'
        BY <1>4, <3>5 DEF ChannelIsAsked, Asked
      <3>7. (ChannelIsFirst /\ FirstDecisionWins)'
        BY <1>4, <2>2, <3>1, <3>2
        DEF ChannelIsFirst, FirstDecisionWins, DecideSend, Send, Slot, Outcomes
      <3>8. QED
        BY <3>6, <3>7
    <2>3. QED
      BY <2>1, <2>2 DEF Caller
  <1>8. QED
    BY <1>1, <1>3, <1>5, <1>6, <1>7

LEMMA InvNext == Inv /\ [Next]_vars => Inv'
  <1>1. ASSUME Inv, UNCHANGED vars PROVE Inv'
    BY <1>1 DEF vars, Inv, TypeOK, EntriesByKey, ParkedByKey, TargetByKey, OutcomeIsTold, OwnId,
                ChannelIsAsked, Asked, ChannelIsFirst, AnswerIsForTheRequest, FirstDecisionWins
  <1>2. QED
    BY <1>1, InvAgent, InvCaller DEF Next

(* For a request with an id of its own, what its agent is told by store.go  *)
(* Await is a choice made on the card of that request, however the steps of *)
(* Await and Decide interleave and whatever the other requests' ids are.    *)
THEOREM AnswerCorrect == Spec => []AnswerIsForTheRequest
  <1>1. Inv => AnswerIsForTheRequest
    BY DEF Inv
  <1>2. QED
    BY <1>1, InvInit, InvNext, PTL DEF Spec

(* ... and it is the choice that reached the broker first.                  *)
THEOREM FirstDecisionCorrect == Spec => []FirstDecisionWins
  <1>1. Inv => FirstDecisionWins
    BY DEF Inv
  <1>2. QED
    BY <1>1, InvInit, InvNext, PTL DEF Spec

-----------------------------------------------------------------------------
(* Late decisions *)

\* A request that ended other than by its context has left the broker, and a
\* late call that nevertheless found an entry was for a request that did.
Settled ==
    \A r \in Requests : OwnId(r) /\ wpc[r] = "returned" /\ result[r] # "ctx" => pending[id[r]] = None

LateIsSettled ==
    \A c \in Calls : late[c] =>
        /\ cpc[c] # "idle"
        /\ wpc[call[c].req] = "returned"
        /\ cpc[c] = "sending" /\ OwnId(call[c].req) => result[call[c].req] = "ctx"

LateInv == Inv /\ Settled /\ LateIsSettled /\ LateDecisionIsRefused

LEMMA LateInit == Init => LateInv
  <1> SUFFICES ASSUME Init PROVE LateInv
    OBVIOUS
  <1>1. Inv
    BY InvInit
  <1>2. QED
    BY <1>1 DEF Init, LateInv, Settled, LateIsSettled, LateDecisionIsRefused

LEMMA LateAgent ==
  ASSUME LateInv, NEW q \in Requests, Agent(q)
  PROVE  LateInv'
  <1> USE PermissionAssumption DEF LateInv, Inv, TypeOK, Key, callVars
  <1>1. Inv'
    BY InvAgent
  <1>2. Settled'
    <2> USE DEF Settled, OwnId
    <2>1. CASE Register(q) \/ RegisterConflict(q) \/ ConflictIgnored(q)
      BY <2>1 DEF Register, RegisterConflict, ConflictIgnored, Return, EntriesByKey
    <2>2. CASE AwaitLookup(q)
      BY <2>2 DEF AwaitLookup, Return
    <2>3. CASE Abandon(q)
      BY <2>3 DEF Abandon, Return
    <2>4. CASE AwaitOutcome(q)
      BY <2>4 DEF AwaitOutcome
    <2>5. CASE AwaitTimeout(q)
      BY <2>5 DEF AwaitTimeout
    <2>6. CASE AwaitCtxDone(q)
      BY <2>6 DEF AwaitCtxDone, Return
    <2>7. CASE Delete(q)
      BY <2>7 DEF Delete
    <2>8. QED
      BY <2>1, <2>2, <2>3, <2>4, <2>5, <2>6, <2>7 DEF Agent
  <1>3. /\ UNCHANGED <<id, cpc, call, late, ack>>
        /\ \A r \in Requests : wpc[r] = "returned" => wpc'[r] = "returned" /\ result'[r] = result[r]
    BY DEF Agent, Register, RegisterConflict, ConflictIgnored, AwaitLookup, Abandon, AwaitOutcome, AwaitTimeout, AwaitCtxDone,
           Delete, Return
  <1>4. \A c \in Calls : late[c] => call[c].req \in Requests
    BY DEF LateIsSettled, Asks
  <1>5. LateIsSettled'
    BY <1>3, <1>4 DEF LateIsSettled, OwnId
  <1>6. LateDecisionIsRefused'
    BY <1>3, <1>4 DEF LateIsSettled, LateDecisionIsRefused, IsDecision, OwnId
  <1>7. QED
    BY <1>1, <1>2, <1>5, <1>6

LEMMA LateCaller ==
  ASSUME LateInv, NEW c \in Calls, Caller(c)
  PROVE  LateInv'
  <1> USE PermissionAssumption DEF LateInv, Inv, TypeOK, Key
  <1>1. Inv'
    BY InvCaller
  <1>2. UNCHANGED <<id, pending, wpc, result>>
    BY DEF Caller, DecideLookup, DecideSend
  <1>3. Settled'
    BY <1>2 DEF Settled, OwnId
  <1>4. ASSUME NEW r \in Requests, NEW o \in Outcomes, DecideLookup(c, r, o)
        PROVE  (LateIsSettled /\ LateDecisionIsRefused)'
    <2>1. call'[c].req = r /\ call'[c].outcome = o
      BY <1>4 DEF DecideLookup
    <2>2. \A k \in Calls \ {c} : /\ call'[k] = call[k] /\ cpc'[k] = cpc[k]
                                 /\ late'[k] = late[k] /\ ack'[k] = ack[k]
      BY <1>4 DEF DecideLookup
    <2>3. late'[c] => /\ cpc'[c] # "idle" /\ wpc[r] = "returned"
                      /\ cpc'[c] = "sending" /\ OwnId(r) => result[r] = "ctx"
                      /\ (cpc'[c] = "done" /\ o # "cancelled") => ack'[c] = "not_found"
      <3>1. late'[c] = (wpc[r] = "returned")
        BY <1>4, Zenon DEF DecideLookup
      <3>2. CASE pending[id[r]] # None
        BY <1>4, <3>1, <3>2 DEF DecideLookup, Settled
      <3>3. CASE pending[id[r]] = None
        <4>1. cpc'[c] = "done" /\ (o # "cancelled" => ack'[c] = "not_found")
          BY <1>4, <3>3 DEF DecideLookup, Ack
        <4>2. QED
          BY <3>1, <4>1
      <3>4. QED
        BY <3>2, <3>3
    <2>4. LateIsSettled'
      <3> SUFFICES ASSUME NEW k \in Calls, late'[k]
                   PROVE  /\ cpc'[k] # "idle" /\ wpc'[call'[k].req] = "returned"
                          /\ cpc'[k] = "sending" /\ OwnId(call'[k].req)
                               => result'[call'[k].req] = "ctx"
        BY <1>2 DEF LateIsSettled, OwnId
      <3>1. CASE k = c
        BY <1>2, <2>1, <2>3, <3>1
      <3>2. CASE k # c
        BY <1>2, <2>2, <3>2 DEF LateIsSettled
      <3>3. QED
        BY <3>1, <3>2
    <2>5. LateDecisionIsRefused'
      <3> SUFFICES ASSUME NEW k \in Calls, IsDecision(k)', late'[k],
                          OwnId(call'[k].req), result'[call'[k].req] # "ctx"
                   PROVE  ack'[k] = "not_found"
        BY <1>2 DEF LateDecisionIsRefused, OwnId
      <3>1. CASE k = c
        BY <1>2, <2>1, <2>3, <3>1 DEF IsDecision
      <3>2. CASE k # c
        BY <1>2, <2>2, <3>2 DEF LateDecisionIsRefused, IsDecision
      <3>3. QED
        BY <3>1, <3>2
    <2>6. QED
      BY <2>4, <2>5
  <1>5. ASSUME DecideSend(c) PROVE (LateIsSettled /\ LateDecisionIsRefused)'
    <2>1. /\ UNCHANGED <<call, late>>
          /\ cpc[c] = "sending" /\ cpc' = [cpc EXCEPT ![c] = "done"]
          /\ \A k \in Calls \ {c} : ack'[k] = ack[k]
      BY <1>5 DEF DecideSend
    <2>2. LateIsSettled'
      BY <1>2, <2>1 DEF LateIsSettled, OwnId
    <2>3. late[c] /\ OwnId(call[c].req) => result[call[c].req] = "ctx"
      BY <2>1 DEF LateIsSettled
    <2>4. LateDecisionIsRefused'
      BY <1>2, <2>1, <2>3 DEF LateDecisionIsRefused, IsDecision, OwnId
    <2>5. QED
      BY <2>2, <2>4
  <1>6. QED
    BY <1>1, <1>3, <1>4, <1>5 DEF Caller

LEMMA LateNext == LateInv /\ [Next]_vars => LateInv'
  <1>1. ASSUME LateInv, UNCHANGED vars PROVE LateInv'
    <2>1. Inv'
      BY <1>1, InvNext DEF LateInv
    <2>2. QED
      BY <1>1, <2>1 DEF vars, LateInv, Settled, LateIsSettled, LateDecisionIsRefused, IsDecision, OwnId
  <1>2. QED
    BY <1>1, LateAgent, LateCaller DEF Next

(* A decision that reaches store.go Decide after its request timed out or   *)
(* was answered is refused, for any number of concurrent calls.             *)
THEOREM LateDecisionCorrect == Spec => []LateDecisionIsRefused
  <1>1. LateInv => LateDecisionIsRefused
    BY DEF LateInv
  <1>2. QED
    BY <1>1, LateInit, LateNext, PTL DEF Spec

-----------------------------------------------------------------------------
(***************************************************************************)
(* The prompts that the wrapper turns into such requests (PromptWatcher):  *)
(* a signature is active exactly while one handler works on it, for any    *)
(* tools, signatures, layouts and handlers.                                *)
(***************************************************************************)
Watcher == INSTANCE PromptWatcher

LEMMA WatcherParams ==
  /\ Questions \subseteq Tools
  /\ BufferCap \in Nat \ {0}
  /\ \A t \in Tools : \A k \in DOMAIN Layout[t] : k \in 1..9 /\ Layout[t][k] \in Watcher!Meanings
  BY WatcherAssumption DEF Meanings, Watcher!Meanings

Keys == 0..9
HandlerRec ==
    [pc : {"free", "begin", "await", "type"}, tool : Tools \cup {Watcher!Nil},
     sig : Watcher!Sigs \cup {Watcher!Nil}, id : Tools \cup {Watcher!Nil}, local : BOOLEAN,
     allow : Keys, deny : Keys, key : Keys]
Row == [tool : Tools, kind : {"use", "result"}]

\* The full types, with those of the records and the sequences: of Claude's
\* state, and of the watcher's.
ClaudeTypes ==
    /\ life \in [Tools -> {"new", "called", "shown", "answered", "done"}]
    /\ answer \in [Tools -> Watcher!Meanings \cup {Watcher!Nil}]
    /\ shown \in Tools \cup {Watcher!Nil} /\ (shown # Watcher!Nil => life[shown] = "shown")
    /\ rows \in Seq(Row)

WatcherTypes ==
    /\ buffer \in Seq(Tools) /\ Len(buffer) <= BufferCap
    /\ timers \in [Watcher!Sigs -> Tools \cup {Watcher!Nil}] /\ ticking \subseteq Tools
    /\ active \cup recent \subseteq Watcher!Sigs
    /\ toolUse \in [Tools -> Watcher!Sigs \cup {Watcher!Nil}]
    /\ handler \in [Handlers -> HandlerRec]
    /\ \A h \in Handlers : Watcher!Busy(h) => handler[h].sig \in Watcher!Sigs

PromptTypes == ClaudeTypes /\ WatcherTypes /\ fired \subseteq Tools

Handled ==
    /\ active = {handler[h].sig : h \in {g \in Handlers : Watcher!Busy(g)}}
    /\ \A g, h \in Handlers :
         Watcher!Busy(g) /\ Watcher!Busy(h) /\ handler[g].sig = handler[h].sig => g = h
    /\ active \cap recent = {}

WatcherInv == PromptTypes /\ Handled

-----------------------------------------------------------------------------
(* What is found on the screen *)

\* A nonempty set of numbers has a least one, and a bounded one a greatest.
LEMMA Least ==
  ASSUME NEW S \in SUBSET Nat, S # {}
  PROVE  \E n \in S : \A m \in S : n <= m
  <1>1. IsWellFoundedOn({p \in Nat \X Nat : p[1] < p[2]}, Nat)
    BY NatLessThanWellFounded DEF OpToRel
  <1>2. PICK n \in S : \A m \in S : <<m, n>> \notin {p \in Nat \X Nat : p[1] < p[2]}
    BY <1>1, WFMin
  <1>3. ASSUME NEW m \in S PROVE n <= m
    <2>1. <<m, n>> \in Nat \X Nat /\ m \in Nat /\ n \in Nat
      OBVIOUS
    <2>2. ~(m < n)
      BY <1>2, <2>1
    <2>. QED
      BY <2>1, <2>2
  <1>. QED
    BY <1>3

LEMMA Greatest ==
  ASSUME NEW k \in Nat, NEW S \in SUBSET (1..k), S # {}
  PROVE  \E n \in S : \A m \in S : n >= m
  <1> DEFINE T == {n \in Nat : k - n \in S}
  <1>1. \A x \in S : x \in Nat /\ x <= k /\ k - x \in T
    OBVIOUS
  <1>2. T \in SUBSET Nat /\ T # {}
    BY <1>1
  <1> HIDE DEF T
  <1>3. PICK n \in T : \A m \in T : n <= m
    BY <1>2, Least
  <1> USE DEF T
  <1>4. k - n \in S /\ \A x \in S : x <= k - n
    BY <1>1, <1>3
  <1>. QED
    BY <1>4

\* The key of an option is one of the digits.
LEMMA FirstKeyType ==
  ASSUME NEW b \in Seq(Tools), NEW m
  PROVE  Watcher!FirstKey(b, m) \in Keys
  <1> DEFINE found == {i \in DOMAIN b : Watcher!KeysOf(b[i], m) # {} /\ Watcher!IsDialog(b[i])}
             least == CHOOSE i \in found : \A j \in found : i <= j
  <1>1. CASE found = {}
    <2>1. Watcher!FirstKey(b, m) = 0
      BY <1>1 DEF Watcher!FirstKey
    <2>. QED
      BY <2>1 DEF Keys
  <1>2. CASE found # {}
    <2>1. found \subseteq DOMAIN b /\ \A i \in found : Watcher!KeysOf(b[i], m) # {}
      OBVIOUS
    <2>2. DOMAIN b \subseteq Nat /\ \A i \in DOMAIN b : b[i] \in Tools
      BY LenProperties, ElementOfSeq
    <2>3. Watcher!FirstKey(b, m) = CHOOSE k \in Watcher!KeysOf(b[least], m) : TRUE
      BY <1>2 DEF Watcher!FirstKey
    <2> HIDE DEF found
    <2>4. least \in found
      BY <1>2, <2>1, <2>2, Least
    <2>5. b[least] \in Tools /\ Watcher!KeysOf(b[least], m) # {}
      BY <2>1, <2>2, <2>4
    <2> HIDE DEF least
    <2>6. Watcher!KeysOf(b[least], m) \subseteq 1..9
      BY <2>5, WatcherParams DEF Watcher!KeysOf
    <2>7. Watcher!FirstKey(b, m) \in Watcher!KeysOf(b[least], m)
      BY <2>3, <2>5
    <2>. QED
      BY <2>6, <2>7 DEF Keys
  <1>. QED
    BY <1>1, <1>2

LEMMA FreeType == Watcher!Free \in HandlerRec
  <1>1. 0 \in Keys
    BY DEF Keys
  <1>. QED
    BY <1>1 DEF Watcher!Free, HandlerRec

\* At most one prompt is found in a buffer.
LEMMA DetectedType ==
  ASSUME NEW b \in Seq(Tools)
  PROVE  /\ \A p \in Watcher!Detected(b) : p \in HandlerRec /\ p.pc = "begin" /\ p.sig \in Watcher!Sigs
         /\ \A p, q \in Watcher!Detected(b) : p = q
  <1> DEFINE dialogs == {i \in DOMAIN b : Watcher!IsDialog(b[i])}
             at      == CHOOSE i \in dialogs : \A j \in dialogs : i >= j
             last    == b[at]
             keys    == [allow |-> Watcher!FirstKey(b, "yes"), deny |-> Watcher!FirstKey(b, "no")]
  <1>1. CASE dialogs = {}
    <2>1. Watcher!Detected(b) = {}
      BY <1>1 DEF Watcher!Detected
    <2>. QED
      BY <2>1
  <1>2. CASE dialogs # {}
    <2>1. dialogs \subseteq 1..Len(b) /\ Len(b) \in Nat /\ \A i \in 1..Len(b) : b[i] \in Tools
      BY LenProperties, ElementOfSeq
    <2>2. keys \in [allow : Keys, deny : Keys] /\ Watcher!NoKeys \in [allow : Keys, deny : Keys]
      BY FirstKeyType DEF Watcher!NoKeys, Keys
    <2>3. Watcher!Detected(b) =
             IF keys.allow # 0 /\ keys.deny # 0
             THEN {Watcher!Prompt(last, ScreenSig[last], Watcher!Nil, FALSE, keys)}
             ELSE IF Watcher!Waiting THEN {Watcher!Prompt(last, LocalSig[last], Watcher!Nil, TRUE,
                  Watcher!NoKeys)} ELSE {}
      BY <1>2 DEF Watcher!Detected
    <2> HIDE DEF dialogs, keys
    <2>4. at \in dialogs
      BY <1>2, <2>1, Greatest
    <2>5. last \in Tools
      BY <2>1, <2>4
    <2> HIDE DEF last
    <2>6. ScreenSig[last] \in Watcher!Sigs /\ LocalSig[last] \in Watcher!Sigs
      BY <2>5 DEF Watcher!Sigs
    <2> DEFINE p == Watcher!Prompt(last, ScreenSig[last], Watcher!Nil, FALSE, keys)
               q == Watcher!Prompt(last, LocalSig[last], Watcher!Nil, TRUE, Watcher!NoKeys)
    <2>7. p \in HandlerRec /\ p.pc = "begin" /\ p.sig \in Watcher!Sigs
      <3>1. Watcher!Nil \in Tools \cup {Watcher!Nil} /\ FALSE \in BOOLEAN
        OBVIOUS
      <3>2. p \in HandlerRec /\ p.pc = "begin" /\ p.sig = ScreenSig[last]
        BY <2>2, <2>5, <2>6, <3>1, FreeType DEF Watcher!Prompt, HandlerRec
      <3>. QED
        BY <2>6, <3>2
    <2>8. q \in HandlerRec /\ q.pc = "begin" /\ q.sig \in Watcher!Sigs
      <3>1. Watcher!Nil \in Tools \cup {Watcher!Nil} /\ TRUE \in BOOLEAN
        OBVIOUS
      <3>2. q \in HandlerRec /\ q.pc = "begin" /\ q.sig = LocalSig[last]
        BY <2>2, <2>5, <2>6, <3>1, FreeType DEF Watcher!Prompt, HandlerRec
      <3>. QED
        BY <2>6, <3>2
    <2>9. Watcher!Detected(b) = {p} \/ Watcher!Detected(b) = {q} \/ Watcher!Detected(b) = {}
      BY <2>3
    <2> HIDE DEF p, q
    <2>. QED
      BY <2>7, <2>8, <2>9
  <1>. QED
    BY <1>1, <1>2

\* The buffer holds frames of prompts, and no more than fit.
LEMMA PaintedType ==
  ASSUME PromptTypes, NEW t \in Tools
  PROVE  Watcher!Painted(t) \in Seq(Tools) /\ Len(Watcher!Painted(t)) <= BufferCap
  <1> DEFINE b == Append(buffer, t)
  <1>1. buffer \in Seq(Tools) /\ Len(buffer) <= BufferCap /\ Len(buffer) \in Nat
    BY LenProperties DEF PromptTypes, WatcherTypes
  <1>2. b \in Seq(Tools) /\ Len(b) = Len(buffer) + 1 /\ b # <<>>
    BY <1>1, AppendProperties
  <1>3. Watcher!Painted(t) = IF Len(b) > BufferCap THEN Tail(b) ELSE b
    BY DEF Watcher!Painted
  <1> HIDE DEF b
  <1>4. Tail(b) \in Seq(Tools) /\ Len(Tail(b)) = Len(buffer)
    BY <1>1, <1>2, HeadTailProperties
  <1>5. BufferCap \in Nat
    BY WatcherParams
  <1>. QED
    BY <1>1, <1>2, <1>3, <1>4, <1>5

-----------------------------------------------------------------------------
(* Handlers begin and end *)

\* A handler is only started for a signature that has none.
LEMMA Started ==
  ASSUME WatcherInv, NEW p \in HandlerRec, p.pc = "begin", p.sig \in Watcher!Sigs,
       Watcher!CanStart(p.sig),
         NEW timers1 \in [Watcher!Sigs -> Tools \cup {Watcher!Nil}], NEW ticking1 \in SUBSET Tools,
         NEW toolUse1 \in [Tools -> Watcher!Sigs \cup {Watcher!Nil}],
         Watcher!StartLocked(p, timers1, ticking1, toolUse1)
  PROVE  WatcherTypes' /\ Handled'
  <1>1. PICK h \in Handlers : handler[h] = Watcher!Free /\ handler' = [handler EXCEPT ![h] = p]
    BY DEF Watcher!StartLocked
  <1>2. handler' = [handler EXCEPT ![h] = p] /\ active' = active \cup {p.sig}
        /\ recent' = recent /\ handler \in [Handlers -> HandlerRec]
    BY <1>1 DEF Watcher!StartLocked, WatcherInv, PromptTypes, WatcherTypes
  <1>3. ~Watcher!Busy(h) /\ Watcher!Busy(h)' /\ handler'[h].sig = p.sig
        /\ \A g \in Handlers \ {h} : handler'[g] = handler[g] /\ (Watcher!Busy(g)' <=> Watcher!Busy(g))
    <2>1. Watcher!Free.pc = "free" /\ handler'[h] = p
      BY <1>1, <1>2 DEF Watcher!Free
    <2>2. ~Watcher!Busy(h) /\ Watcher!Busy(h)'
      BY <1>1, <2>1 DEF Watcher!Busy
    <2>. QED
      BY <1>1, <1>2, <2>1, <2>2 DEF Watcher!Busy
  <1>4. active = {handler[g].sig : g \in {i \in Handlers : Watcher!Busy(i)}} /\ p.sig \notin active
        /\ p.sig \notin recent
    BY DEF WatcherInv, Handled, Watcher!CanStart
  <1>5. \A g \in Handlers : Watcher!Busy(g) => handler[g].sig # p.sig
    BY <1>4
  <1>6. active' = {handler'[g].sig : g \in {i \in Handlers : Watcher!Busy(i)'}}
    <2>1. ASSUME NEW s \in active'
          PROVE  s \in {handler'[g].sig : g \in {i \in Handlers : Watcher!Busy(i)'}}
      <3>1. CASE s = p.sig
        BY <1>1, <1>3, <3>1
      <3>2. CASE s \in active
        <4>1. PICK g \in Handlers : Watcher!Busy(g) /\ s = handler[g].sig
          BY <1>4, <3>2
        <4>. QED
          BY <1>3, <4>1
      <3>. QED
        BY <1>2, <2>1, <3>1, <3>2
    <2>2. ASSUME NEW g \in Handlers, Watcher!Busy(g)'
          PROVE  handler'[g].sig \in active'
      BY <1>2, <1>3, <1>4, <2>2
    <2>. QED
      BY <2>1, <2>2
  <1>7. \A g, i \in Handlers :
          Watcher!Busy(g)' /\ Watcher!Busy(i)' /\ handler'[g].sig = handler'[i].sig => g = i
    BY <1>1, <1>3, <1>5 DEF WatcherInv, Handled
  <1>8. active' \cap recent' = {}
    BY <1>2, <1>4 DEF WatcherInv, Handled
  <1>9. /\ buffer' = <<>> /\ timers' = [timers1 EXCEPT ![p.sig] = Watcher!Nil]
        /\ ticking' = ticking1 \ {timers1[p.sig]}
        /\ toolUse' = IF p.id = Watcher!Nil THEN toolUse1 ELSE [toolUse1 EXCEPT ![p.id] = Watcher!Nil]
    BY DEF Watcher!StartLocked
  <1>10. buffer' \in Seq(Tools) /\ Len(buffer') <= BufferCap
    <2>1. <<>> \in Seq(Tools) /\ Len(<<>>) = 0 /\ BufferCap \in Nat
      BY WatcherParams
    <2>. QED
      BY <1>9, <2>1
  <1>11. handler' \in [Handlers -> HandlerRec]
    BY <1>1, <1>2
  <1>12. \A g \in Handlers : Watcher!Busy(g)' => handler'[g].sig \in Watcher!Sigs
    BY <1>3 DEF WatcherInv, PromptTypes, WatcherTypes
  <1>13. WatcherTypes'
    BY <1>2, <1>9, <1>10, <1>11, <1>12 DEF WatcherTypes, WatcherInv, PromptTypes, Watcher!Busy
  <1>. QED
    BY <1>6, <1>7, <1>8, <1>13 DEF Handled, Watcher!Busy

\* A handler that ends gives its signature up.
LEMMA Finished ==
  ASSUME WatcherInv, NEW h \in Handlers, Watcher!Busy(h), Watcher!Finish(h)
  PROVE  WatcherTypes' /\ Handled'
  <1> DEFINE sig == handler[h].sig
  <1>1. /\ handler' = [handler EXCEPT ![h] = Watcher!Free] /\ handler \in [Handlers -> HandlerRec]
        /\ active' = active \ {sig} /\ recent' = recent \cup {sig}
        /\ sig \in Watcher!Sigs
    BY DEF Watcher!Finish, WatcherInv, PromptTypes, WatcherTypes
  <1>2. Watcher!Free \in HandlerRec
    BY FreeType
  <1>3. ~Watcher!Busy(h)' /\ \A g \in Handlers \ {h} : handler'[g] = handler[g] /\ (Watcher!Busy(g)' <=> Watcher!Busy(g))
    BY <1>1 DEF Watcher!Busy, Watcher!Free
  <1>4. \A g \in Handlers \ {h} : Watcher!Busy(g) => handler[g].sig # sig
    BY DEF WatcherInv, Handled
  <1>5. active' = {handler'[g].sig : g \in {i \in Handlers : Watcher!Busy(i)'}}
    <2>1. active = {handler[g].sig : g \in {i \in Handlers : Watcher!Busy(i)}}
      BY DEF WatcherInv, Handled
    <2> HIDE DEF sig
    <2>2. ASSUME NEW s \in active'
          PROVE  s \in {handler'[g].sig : g \in {i \in Handlers : Watcher!Busy(i)'}}
      <3>1. s \in active /\ s # sig
        BY <1>1, <2>2
      <3>2. PICK g \in Handlers : Watcher!Busy(g) /\ s = handler[g].sig
        BY <2>1, <3>1
      <3>3. g # h
        BY <3>1, <3>2 DEF sig
      <3>. QED
        BY <1>3, <3>2, <3>3
    <2>3. ASSUME NEW g \in Handlers, Watcher!Busy(g)'
          PROVE  handler'[g].sig \in active'
      <3>1. g # h /\ Watcher!Busy(g) /\ handler'[g] = handler[g]
        BY <1>3, <2>3
      <3>. QED
        BY <1>1, <1>4, <2>1, <3>1
    <2>. QED
      BY <2>2, <2>3
  <1>6. \A g, i \in Handlers :
          Watcher!Busy(g)' /\ Watcher!Busy(i)' /\ handler'[g].sig = handler'[i].sig => g = i
    BY <1>3 DEF WatcherInv, Handled
  <1>7. active' \cap recent' = {}
    BY <1>1 DEF WatcherInv, Handled
  <1>8. /\ toolUse' = IF handler[h].id = Watcher!Nil THEN toolUse
                      ELSE [toolUse EXCEPT ![handler[h].id] = Watcher!Nil]
        /\ UNCHANGED <<buffer, timers, ticking>>
    BY DEF Watcher!Finish
  <1>9. handler' \in [Handlers -> HandlerRec]
    BY <1>1, <1>2
  <1>10. \A g \in Handlers : Watcher!Busy(g)' => handler'[g].sig \in Watcher!Sigs
    BY <1>3 DEF WatcherInv, PromptTypes, WatcherTypes
  <1> HIDE DEF sig
  <1>11. WatcherTypes'
    BY <1>1, <1>8, <1>9, <1>10 DEF WatcherTypes, WatcherInv, PromptTypes, Watcher!Busy
  <1>. QED
    BY <1>5, <1>6, <1>7, <1>11 DEF Handled, Watcher!Busy

\* A handler that goes on keeps its signature.
LEMMA Advanced ==
  ASSUME WatcherInv, NEW h \in Handlers, Watcher!Busy(h), NEW q \in HandlerRec,
         q.pc # "free", q.sig = handler[h].sig,
         handler' = [handler EXCEPT ![h] = q], UNCHANGED Watcher!watcher
  PROVE  WatcherTypes' /\ Handled'
  <1>1. handler \in [Handlers -> HandlerRec] /\ handler' \in [Handlers -> HandlerRec]
    BY DEF WatcherInv, PromptTypes, WatcherTypes
  <1>2. \A g \in Handlers : handler'[g].sig = handler[g].sig /\ (Watcher!Busy(g)' <=> Watcher!Busy(g))
    BY <1>1 DEF Watcher!Busy
  <1>3. active' = active /\ recent' = recent
    BY DEF Watcher!watcher
  <1>4. Handled'
    <2>1. active' = {handler'[g].sig : g \in {i \in Handlers : Watcher!Busy(i)'}}
      BY <1>2, <1>3 DEF WatcherInv, Handled
    <2>2. \A g, i \in Handlers :
            Watcher!Busy(g)' /\ Watcher!Busy(i)' /\ handler'[g].sig = handler'[i].sig => g = i
      BY <1>2 DEF WatcherInv, Handled
    <2>3. active' \cap recent' = {}
      BY <1>3 DEF WatcherInv, Handled
    <2>. QED
      BY <2>1, <2>2, <2>3 DEF Handled, Watcher!Busy
  <1>5. WatcherTypes'
    BY <1>1, <1>2 DEF WatcherTypes, WatcherInv, PromptTypes, Watcher!watcher, Watcher!Busy
  <1>. QED
    BY <1>4, <1>5

-----------------------------------------------------------------------------
(* Every step *)

LEMMA TypesOK == PromptTypes => Watcher!PromptTypeOK
  BY DEF PromptTypes, ClaudeTypes, WatcherTypes, Watcher!PromptTypeOK, HandlerRec, Watcher!Busy

\* The watcher and its handlers are left alone.
LEMMA LeftAlone ==
  ASSUME WatcherInv, UNCHANGED <<buffer, timers, ticking, active, recent, toolUse, handler>>
  PROVE  WatcherTypes' /\ Handled'
  BY DEF WatcherInv, PromptTypes, WatcherTypes, Handled, Watcher!Busy

\* Only the fallbacks' timers change.
LEMMA TimersChanged ==
  ASSUME WatcherInv, UNCHANGED <<buffer, active, recent, handler>>,
         timers' \in [Watcher!Sigs -> Tools \cup {Watcher!Nil}], ticking' \subseteq Tools,
         toolUse' \in [Tools -> Watcher!Sigs \cup {Watcher!Nil}]
  PROVE  WatcherTypes' /\ Handled'
  BY DEF WatcherInv, PromptTypes, WatcherTypes, Handled, Watcher!Busy

\* An option has a meaning; what was shown is answered.
LEMMA Chosen ==
  ASSUME ClaudeTypes, NEW k, NEW by, Watcher!Choose(k, by)
  PROVE  ClaudeTypes'
  <1>1. CASE shown # Watcher!Nil /\ k \in DOMAIN Layout[shown]
    <2>1. shown \in Tools /\ Layout[shown][k] \in Watcher!Meanings
      BY <1>1, WatcherParams DEF ClaudeTypes
    <2>. QED
      BY <1>1, <2>1 DEF Watcher!Choose, ClaudeTypes
  <1>2. CASE ~(shown # Watcher!Nil /\ k \in DOMAIN Layout[shown])
    BY <1>2 DEF Watcher!Choose, Watcher!claude, ClaudeTypes
  <1>. QED
    BY <1>1, <1>2

\* A row is logged for a tool.
LEMMA Logged ==
  ASSUME ClaudeTypes, NEW t \in Tools, NEW kind \in {"use", "result"}, Watcher!Log(t, kind)
  PROVE  rows' \in Seq(Row)
  <1>1. [tool |-> t, kind |-> kind] \in Row
    BY DEF Row
  <1>. QED
    BY <1>1, AppendProperties DEF Watcher!Log, ClaudeTypes

LEMMA WatcherInvInit == Watcher!Init => WatcherInv
  <1> SUFFICES ASSUME Watcher!Init PROVE WatcherInv
    OBVIOUS
  <1>1. <<>> \in Seq(Row) /\ <<>> \in Seq(Tools) /\ Len(<<>>) = 0 /\ BufferCap \in Nat
    BY WatcherParams
  <1>2. ClaudeTypes
    BY <1>1 DEF Watcher!Init, ClaudeTypes
  <1>3. handler \in [Handlers -> HandlerRec] /\ \A h \in Handlers : ~Watcher!Busy(h)
    <2>1. Watcher!Free.pc = "free"
      BY DEF Watcher!Free
    <2>. QED
      BY <2>1, FreeType DEF Watcher!Init, Watcher!Busy
  <1>4. WatcherTypes /\ fired \subseteq Tools
    BY <1>1, <1>3 DEF Watcher!Init, WatcherTypes
  <1>5. Handled
    BY <1>3 DEF Watcher!Init, Handled
  <1>. QED
    BY <1>2, <1>4, <1>5 DEF WatcherInv, PromptTypes

LEMMA WatcherInvStep == WatcherInv /\ [Watcher!Next]_Watcher!vars => WatcherInv'
  <1> SUFFICES ASSUME WatcherInv, [Watcher!Next]_Watcher!vars PROVE WatcherInv'
    OBVIOUS
  <1> USE DEF WatcherInv, PromptTypes
  <1>1. ASSUME NEW t \in Tools,
       Watcher!Call(t) \/ Watcher!Show(t) \/ Watcher!Result(t) PROVE WatcherInv'
    <2>1. ClaudeTypes'
      BY <1>1, Logged DEF Watcher!Call, Watcher!Show, Watcher!Result, ClaudeTypes
    <2>2. WatcherTypes' /\ Handled' /\ fired' = fired
      BY <1>1, LeftAlone DEF Watcher!Call, Watcher!Show, Watcher!Result, Watcher!Quietly,
           Watcher!watcher
    <2>. QED
      BY <2>1, <2>2
  <1>2. CASE Watcher!UserAnswers
    <2>1. ClaudeTypes'
      BY <1>2, Chosen DEF Watcher!UserAnswers
    <2>2. WatcherTypes' /\ Handled' /\ fired' = fired
      BY <1>2, LeftAlone DEF Watcher!UserAnswers, Watcher!Quietly, Watcher!watcher
    <2>. QED
      BY <2>1, <2>2
  <1>3. CASE Watcher!Feed
    <2>1. ClaudeTypes' /\ fired' = fired
      BY <1>3 DEF Watcher!Feed, Watcher!claude, ClaudeTypes
    <2>2. PICK b \in {buffer} \cup (IF Watcher!Waiting THEN {Watcher!Painted(shown)} ELSE {}) :
             IF \E p \in Watcher!Detected(b) : Watcher!CanStart(p.sig)
             THEN \E p \in Watcher!Detected(b) : Watcher!StartLocked(p, timers, ticking, toolUse)
             ELSE buffer' = b /\ UNCHANGED <<active, recent, timers, ticking, toolUse, handler>>
      BY <1>3 DEF Watcher!Feed
    <2>3. b \in Seq(Tools) /\ Len(b) <= BufferCap
      BY <2>2, PaintedType DEF Watcher!Waiting, ClaudeTypes, WatcherTypes
    <2>4. CASE \E p \in Watcher!Detected(b) : Watcher!CanStart(p.sig)
      <3>1. PICK p \in Watcher!Detected(b) : Watcher!StartLocked(p, timers, ticking, toolUse)
        BY <2>2, <2>4
      <3>2. p \in HandlerRec /\ p.pc = "begin" /\ p.sig \in Watcher!Sigs /\ Watcher!CanStart(p.sig)
        BY <2>3, <2>4, <3>1, DetectedType
      <3>3. WatcherTypes' /\ Handled'
        BY <3>1, <3>2, Started DEF WatcherTypes
      <3>. QED
        BY <2>1, <3>3
    <2>5. CASE ~\E p \in Watcher!Detected(b) : Watcher!CanStart(p.sig)
      <3>1. buffer' = b /\ UNCHANGED <<active, recent, timers, ticking, toolUse, handler>>
        BY <2>2, <2>5
      <3>2. WatcherTypes' /\ Handled'
        BY <2>3, <3>1 DEF WatcherTypes, Handled, Watcher!Busy
      <3>. QED
        BY <2>1, <3>2
    <2>. QED
      BY <2>4, <2>5
  <1>4. CASE Watcher!Observe
    <2>1. rows # <<>> /\ rows' = Tail(rows) /\ UNCHANGED <<life, answer, shown>>
      BY <1>4 DEF Watcher!Observe
    <2>2. Head(rows) \in Row /\ Tail(rows) \in Seq(Row)
      BY <2>1, HeadTailProperties DEF ClaudeTypes
    <2>3. ClaudeTypes' /\ Head(rows).tool \in Tools
      BY <2>1, <2>2 DEF ClaudeTypes, Row
    <2>4. PICK t \in Tools : Watcher!ScheduleFallback(t) \/ Watcher!CancelFallback(t)
      BY <1>4, <2>3 DEF Watcher!Observe
    <2>5. LogSig[t] \in Watcher!Sigs
      BY DEF Watcher!Sigs
    <2>6. /\ timers' \in [Watcher!Sigs -> Tools \cup {Watcher!Nil}] /\ ticking' \subseteq Tools
          /\ toolUse' \in [Tools -> Watcher!Sigs \cup {Watcher!Nil}]
          /\ UNCHANGED <<buffer, active, recent, handler, fired>>
      BY <2>4, <2>5 DEF Watcher!ScheduleFallback, Watcher!CancelFallback, Watcher!Unchanged,
           WatcherTypes
    <2>. QED
      BY <2>3, <2>6, TimersChanged
  <1>5. ASSUME NEW t \in Tools, Watcher!Fire(t) PROVE WatcherInv'
    <2>1. /\ timers' \in [Watcher!Sigs -> Tools \cup {Watcher!Nil}] /\ ticking' \subseteq Tools
          /\ toolUse' \in [Tools -> Watcher!Sigs \cup {Watcher!Nil}]
          /\ UNCHANGED <<buffer, active, recent, handler>>
          /\ fired' \subseteq Tools
      BY <1>5 DEF Watcher!Fire, WatcherTypes
    <2>2. ClaudeTypes'
      BY <1>5 DEF Watcher!Fire, Watcher!claude, ClaudeTypes
    <2>. QED
      BY <2>1, <2>2, TimersChanged
  <1>6. ASSUME NEW t \in Tools, Watcher!StartScheduledFallback(t) PROVE WatcherInv'
    <2> DEFINE sig == LogSig[t]
               timers1 == [timers EXCEPT ![sig] = Watcher!Nil]
               toolUse1 == [toolUse EXCEPT ![t] = Watcher!Nil]
               p == Watcher!Prompt(t, sig, t, FALSE, Watcher!NoKeys)
    <2>1. sig \in Watcher!Sigs
      BY DEF Watcher!Sigs
    <2>2. timers1 \in [Watcher!Sigs -> Tools \cup {Watcher!Nil}] /\ toolUse1 \in [Tools -> Watcher!Sigs \cup {Watcher!Nil}]
      BY DEF WatcherTypes
    <2>3. p \in HandlerRec /\ p.pc = "begin" /\ p.sig = sig
      <3>1. Watcher!NoKeys.allow \in Keys /\ Watcher!NoKeys.deny \in Keys
        BY DEF Watcher!NoKeys, Keys
      <3> HIDE DEF sig
      <3>. QED
        BY <2>1, <3>1, FreeType DEF Watcher!Prompt, HandlerRec
    <2>4. /\ ClaudeTypes' /\ fired' \subseteq Tools
          /\ IF Watcher!Waiting /\ Watcher!CanStart(sig)
             THEN Watcher!StartLocked(p, timers1, ticking, toolUse1)
             ELSE /\ timers' = timers1 /\ toolUse' = toolUse1
                  /\ UNCHANGED <<buffer, active, recent, ticking, handler>>
      BY <1>6 DEF Watcher!StartScheduledFallback, Watcher!claude, ClaudeTypes
    <2> HIDE DEF p, timers1, toolUse1, sig
    <2>5. CASE Watcher!Waiting /\ Watcher!CanStart(sig)
      BY <2>1, <2>2, <2>3, <2>4, <2>5, Started DEF WatcherTypes
    <2>6. CASE ~(Watcher!Waiting /\ Watcher!CanStart(sig))
      BY <2>2, <2>4, <2>6, TimersChanged DEF WatcherTypes
    <2>. QED
      BY <2>5, <2>6
  <1>7. ASSUME NEW s \in Watcher!Sigs, Watcher!Forgotten(s) PROVE WatcherInv'
    BY <1>7 DEF Watcher!Forgotten, Watcher!claude, ClaudeTypes, WatcherTypes, Handled, Watcher!Busy
  \* A handler ends, and Claude is left as it is or goes on.
  <1>8. ASSUME NEW h \in Handlers, Watcher!Busy(h), Watcher!Finish(h), ClaudeTypes' PROVE WatcherInv'
    BY <1>8, Finished DEF Watcher!Finish
  <1>9. UNCHANGED Watcher!claude => ClaudeTypes'
    BY DEF Watcher!claude, ClaudeTypes
  <1>10. ASSUME NEW h \in Handlers, Watcher!Announce(h) PROVE WatcherInv'
    BY <1>8, <1>9, <1>10 DEF Watcher!Announce, Watcher!Busy
  <1>11. ASSUME NEW h \in Handlers, Watcher!Register(h) PROVE WatcherInv'
    <2> DEFINE q == [handler[h] EXCEPT !.pc = "await"]
    <2>1. CASE handler' = [handler EXCEPT ![h] = q] /\ UNCHANGED Watcher!watcher
      <3>1. q \in HandlerRec /\ q.pc # "free" /\ q.sig = handler[h].sig /\ Watcher!Busy(h)
        BY <1>11 DEF WatcherTypes, HandlerRec, Watcher!Register, Watcher!Busy
      <3>2. UNCHANGED Watcher!claude
        BY <1>11 DEF Watcher!Register
      <3> HIDE DEF q
      <3>. QED
        BY <1>9, <2>1, <3>1, <3>2, Advanced DEF Watcher!watcher
    <2>2. CASE Watcher!Finish(h)
      BY <1>8, <1>9, <1>11, <2>2 DEF Watcher!Register, Watcher!Busy
    <2>. QED
      BY <1>11, <2>1, <2>2 DEF Watcher!Register
  <1>12. ASSUME NEW h \in Handlers, Watcher!EndsUndecided(h) PROVE WatcherInv'
    BY <1>8, <1>9, <1>12 DEF Watcher!EndsUndecided, Watcher!Busy
  <1>13. ASSUME NEW h \in Handlers, Watcher!Decided(h) PROVE WatcherInv'
    <2>1. CASE Watcher!Waiting
      <3>1. PICK d \in {"allow", "deny"} :
               handler' = [handler EXCEPT ![h].pc = "type", ![h].key = Watcher!KeyFor(handler[h], d)]
        BY <1>13, <2>1 DEF Watcher!Decided
      <3> DEFINE q == [handler[h] EXCEPT !.pc = "type", !.key = Watcher!KeyFor(handler[h], d)]
      <3>2. handler[h] \in HandlerRec /\ Watcher!Busy(h) /\ UNCHANGED <<Watcher!watcher,
           Watcher!claude>>
        BY <1>13, <2>1 DEF Watcher!Decided, Watcher!Busy, WatcherTypes
      <3>3. Watcher!KeyFor(handler[h], d) \in Keys
        BY <3>2 DEF Watcher!KeyFor, HandlerRec, Keys
      <3>4. q \in HandlerRec /\ q.pc # "free" /\ q.sig = handler[h].sig
        BY <3>2, <3>3 DEF HandlerRec
      <3>5. handler' = [handler EXCEPT ![h] = q]
        BY <3>1, <3>2 DEF WatcherTypes
      <3> HIDE DEF q
      <3>. QED
        BY <1>9, <3>2, <3>4, <3>5, Advanced DEF Watcher!watcher
    <2>2. CASE ~Watcher!Waiting
      BY <1>8, <1>9, <1>13, <2>2 DEF Watcher!Decided, Watcher!Busy
    <2>. QED
      BY <2>1, <2>2
  <1>14. ASSUME NEW h \in Handlers, Watcher!Type(h) PROVE WatcherInv'
    <2>1. ClaudeTypes'
      BY <1>14, Chosen DEF Watcher!Type
    <2>. QED
      BY <1>8, <1>14, <2>1 DEF Watcher!Type, Watcher!Busy
  <1>15. CASE UNCHANGED Watcher!vars
    BY <1>9, <1>15, LeftAlone DEF Watcher!vars, Watcher!claude
  <1>. QED
    BY <1>1, <1>2, <1>3, <1>4, <1>5, <1>6, <1>7, <1>10, <1>11, <1>12, <1>13, <1>14, <1>15
    DEF Watcher!Next

\* However screen and transcript find the same prompt, and whenever handlers
\* end, a signature is active exactly while one handler works on it
\* (startLocked, StartScheduledFallback, finish).
THEOREM ActiveIsHandledAlways == Watcher!Spec => []ActiveIsHandled
  <1>1. WatcherInv => ActiveIsHandled
    <2>1. Watcher!PromptTypeOK <=> PromptTypeOK
      BY DEF Watcher!PromptTypeOK, PromptTypeOK, Watcher!Meanings, Meanings, Watcher!Sigs, Sigs,
             Watcher!Nil, Nil
    <2>. QED
      BY <2>1, TypesOK DEF WatcherInv, Handled, ActiveIsHandled, Watcher!Busy, Busy
  <1>. QED
    BY <1>1, WatcherInvInit, WatcherInvStep, PTL DEF Watcher!Spec

=============================================================================
