----------------------------- MODULE Permission -----------------------------
(***************************************************************************)
(* The permission broker of the daemon (internal/permission/store.go) and  *)
(* the parties that meet in it: the approval requests of the agents (an    *)
(* mcp-permission tool call of Claude, or a Codex app-server request) and  *)
(* the decide / cancel calls that arrive from Nexus or the local API.      *)
(*                                                                         *)
(* Store.Await and Store.Decide look an entry up under the mutex and then  *)
(* use its channel without it, so each of them is two or three steps here. *)
(***************************************************************************)
EXTENDS Naturals, FiniteSets

CONSTANTS
    Requests,   \* approval requests raised by agents
    Ids,        \* request ids, the keys of Store.pending
    McpRequests,\* the requests that come from mcp-permission; the others are Codex's
    Calls,      \* decide and cancel calls
    None

\* What a decide or cancel call can put into a channel.
Outcomes == {"allow", "deny", "cancelled"}

\* How an agent's request can end without an outcome.
Failures == {"conflict", "not_found", "timeout", "ctx"}

\* A call: the request whose card was clicked, and the choice.
Asks == [req : Requests, outcome : Outcomes]

ASSUME PermissionAssumption ==
    /\ McpRequests \subseteq Requests
    /\ None \notin Requests
    /\ None \notin Asks

VARIABLES
    id,         \* the id each request comes with; never changes
    pending,    \* Store.pending: id -> the request whose entry it holds, or None
    ch,         \* the one-slot channel of each request's entry
    wpc,        \* where the goroutine of each request is
    parked,     \* the entry whose channel Await selects on
    result,     \* what the agent is told
    cpc,        \* where each decide / cancel call is
    call,       \* what each call asks for: the request whose card was clicked, the outcome
    target,     \* the entry the call found
    ack,        \* the answer of the call
    late,       \* history: the await of that request had returned when the call looked it up
    first       \* history: the first outcome sent into each request's channel

vars == <<id, pending, ch, wpc, parked, result, cpc, call, target, ack, late, first>>

\* Types, and that no goroutine holds a nil entry where it uses its channel.
TypeOK ==
    /\ id \in [Requests -> Ids]
    /\ pending \in [Ids -> Requests \cup {None}]
    /\ ch \in [Requests -> Outcomes \cup {"empty"}]
    /\ wpc \in [Requests -> {"start", "registered", "parked", "deleting", "returned"}]
    /\ parked \in [Requests -> Requests \cup {None}]
    /\ result \in [Requests -> Outcomes \cup Failures \cup {"none"}]
    /\ cpc \in [Calls -> {"idle", "sending", "done"}]
    /\ call \in [Calls -> Asks \cup {None}]
    /\ target \in [Calls -> Requests \cup {None}]
    /\ ack \in [Calls -> {"none", "accepted", "not_found"}]
    /\ late \in [Calls -> BOOLEAN]
    /\ first \in [Requests -> Outcomes \cup {"none"}]
    /\ \A r \in Requests : wpc[r] \in {"parked", "deleting"} => parked[r] # None
    /\ \A c \in Calls : cpc[c] # "idle" => call[c] # None
    /\ \A c \in Calls : cpc[c] = "sending" => target[c] # None

\* newRequestID makes the ids of mcp-permission distinct from all others but for
\* chance; Codex ids are the JSON-RPC ids of one app-server connection, so two
\* connections may use the same one. Every assignment is considered.
Init ==
    /\ id \in [Requests -> Ids]
    /\ pending = [i \in Ids |-> None]
    /\ ch = [r \in Requests |-> "empty"]
    /\ wpc = [r \in Requests |-> "start"]
    /\ parked = [r \in Requests |-> None]
    /\ result = [r \in Requests |-> "none"]
    /\ cpc = [c \in Calls |-> "idle"]
    /\ call = [c \in Calls |-> None]
    /\ target = [c \in Calls |-> None]
    /\ ack = [c \in Calls |-> "none"]
    /\ late = [c \in Calls |-> FALSE]
    /\ first = [r \in Requests |-> "none"]

callVars == <<id, cpc, call, target, ack, late, first>>

-----------------------------------------------------------------------------
(* The agent's side *)

\* Mutant: one approval per terminal session instead of one per request.
KeyBySession(r) == CHOOSE i \in Ids : TRUE

\* The key a request is parked under.
Key(r) == id[r]

\* The requests whose Await has a timer: handlePermissionAwait always sets one,
\* the Codex handler passes 0.
HasTimer(r) == r \in McpRequests

\* The request gives up with an answer and no entry of its own to clean.
Return(r, answer) ==
    /\ wpc' = [wpc EXCEPT ![r] = "returned"]
    /\ result' = [result EXCEPT ![r] = answer]

\* Store.Register: a new entry. After it the card becomes visible in the web.
Register(r) ==
    /\ wpc[r] = "start"
    /\ pending[Key(r)] = None
    /\ pending' = [pending EXCEPT ![Key(r)] = r]
    /\ wpc' = [wpc EXCEPT ![r] = "registered"]
    /\ UNCHANGED <<ch, parked, result, callVars>>

\* ErrAlreadyExists is reported to mcp-permission, which gives up ...
RegisterConflict(r) ==
    /\ wpc[r] = "start"
    /\ pending[Key(r)] # None
    /\ r \in McpRequests
    /\ Return(r, "conflict")
    /\ UNCHANGED <<pending, ch, parked, callVars>>

\* ... and ignored by the Codex handler, which awaits the entry that is there.
ConflictIgnored(r) ==
    /\ wpc[r] = "start"
    /\ pending[Key(r)] # None
    /\ r \notin McpRequests
    /\ wpc' = [wpc EXCEPT ![r] = "registered"]
    /\ UNCHANGED <<pending, ch, parked, result, callVars>>

\* Mutant: Await uses the entry without testing ok.
AwaitLookupUnchecked(r) ==
    /\ wpc[r] = "registered"
    /\ parked' = [parked EXCEPT ![r] = pending[Key(r)]]
    /\ wpc' = [wpc EXCEPT ![r] = "parked"]
    /\ UNCHANGED <<pending, ch, result, callVars>>

\* Await, first step: the lookup under the mutex.
AwaitLookup(r) ==
    /\ wpc[r] = "registered"
    /\ \/ /\ pending[Key(r)] # None
          /\ parked' = [parked EXCEPT ![r] = pending[Key(r)]]
          /\ wpc' = [wpc EXCEPT ![r] = "parked"]
          /\ UNCHANGED result
       \/ /\ pending[Key(r)] = None
          /\ Return(r, "not_found")
          /\ UNCHANGED parked
    /\ UNCHANGED <<pending, ch, callVars>>

\* The mcp-permission process dies, or its await request fails, between
\* registering and awaiting: nobody will ever await the entry.
Abandon(r) ==
    /\ wpc[r] = "registered"
    /\ r \in McpRequests
    /\ Return(r, "ctx")
    /\ UNCHANGED <<pending, ch, parked, callVars>>

\* Await, the select: an outcome is received from the channel ...
AwaitOutcome(r) ==
    /\ wpc[r] = "parked"
    /\ ch[parked[r]] # "empty"
    /\ ch' = [ch EXCEPT ![parked[r]] = "empty"]
    /\ result' = [result EXCEPT ![r] = ch[parked[r]]]
    /\ wpc' = [wpc EXCEPT ![r] = "deleting"]
    /\ UNCHANGED <<pending, parked, callVars>>

\* Mutant: the timeout branch returns without deleting, as ctx.Done does.
AwaitTimeoutKeeps(r) ==
    /\ wpc[r] = "parked"
    /\ HasTimer(r)
    /\ Return(r, "timeout")
    /\ UNCHANGED <<pending, ch, parked, callVars>>

\* ... or the timer fires ...
AwaitTimeout(r) ==
    /\ wpc[r] = "parked"
    /\ HasTimer(r)
    /\ result' = [result EXCEPT ![r] = "timeout"]
    /\ wpc' = [wpc EXCEPT ![r] = "deleting"]
    /\ UNCHANGED <<pending, ch, parked, callVars>>

\* ... or the caller's context ends (client disconnect, app-server closed).
\* This branch does not delete the entry.
AwaitCtxDone(r) ==
    /\ wpc[r] = "parked"
    /\ Return(r, "ctx")
    /\ UNCHANGED <<pending, ch, parked, callVars>>

\* Await, last step: delete by id, whatever entry is there by now.
Delete(r) ==
    /\ wpc[r] = "deleting"
    /\ pending' = [pending EXCEPT ![Key(r)] = None]
    /\ wpc' = [wpc EXCEPT ![r] = "returned"]
    /\ UNCHANGED <<ch, parked, result, callVars>>

-----------------------------------------------------------------------------
(* The user's side *)

\* What the caller of Decide or Cancel is told: only a Decide that finds no
\* entry is refused.
Ack(found, o) == IF found \/ o = "cancelled" THEN "accepted" ELSE "not_found"

\* Decide and Cancel, first step: the lookup. A call is for a card the web
\* has shown, hence for a request that got past Register.
DecideLookup(c, r, o) ==
    /\ cpc[c] = "idle"
    /\ wpc[r] # "start" /\ result[r] # "conflict"
    /\ call' = [call EXCEPT ![c] = [req |-> r, outcome |-> o]]
    /\ late' = [late EXCEPT ![c] = wpc[r] = "returned"]
    /\ \/ /\ pending[Key(r)] # None
          /\ target' = [target EXCEPT ![c] = pending[Key(r)]]
          /\ cpc' = [cpc EXCEPT ![c] = "sending"]
          /\ UNCHANGED ack
       \/ /\ pending[Key(r)] = None
          /\ ack' = [ack EXCEPT ![c] = Ack(FALSE, o)]
          /\ cpc' = [cpc EXCEPT ![c] = "done"]
          /\ UNCHANGED target
    /\ UNCHANGED <<id, pending, ch, wpc, parked, result, first>>

\* The content of an entry's channel after a non-blocking send of o: one slot,
\* and a full channel drops the outcome.
Slot(t, o) == IF ch[t] = "empty" THEN o ELSE ch[t]

\* Mutant: the channel has no buffer, so a send with no receiver is dropped.
SendUnbuffered(t, o) ==
    IF \E r \in Requests : wpc[r] = "parked" /\ parked[r] = t THEN Slot(t, o) ELSE ch[t]

\* Mutant: a later decision overwrites the one in the slot.
SendOverwrites(t, o) == o

Send(t, o) == Slot(t, o)

\* Decide and Cancel, second step: the non-blocking send. The call
\* succeeds whether or not the outcome was dropped.
DecideSend(c) ==
    /\ cpc[c] = "sending"
    /\ ch' = [ch EXCEPT ![target[c]] = Send(target[c], call[c].outcome)]
    /\ first' = [first EXCEPT ![target[c]] = IF @ = "none" THEN call[c].outcome ELSE @]
    /\ ack' = [ack EXCEPT ![c] = Ack(TRUE, call[c].outcome)]
    /\ cpc' = [cpc EXCEPT ![c] = "done"]
    /\ UNCHANGED <<id, pending, wpc, parked, result, call, target, late>>

Agent(r) ==
    \/ Register(r) \/ RegisterConflict(r) \/ ConflictIgnored(r) \/ AwaitLookup(r) \/ Abandon(r) \/ AwaitOutcome(r)
    \/ AwaitTimeout(r) \/ AwaitCtxDone(r) \/ Delete(r)

Caller(c) ==
    \/ \E r \in Requests, o \in Outcomes : DecideLookup(c, r, o)
    \/ DecideSend(c)

Next == \/ \E r \in Requests : Agent(r)
        \/ \E c \in Calls : Caller(c)

Spec == Init /\ [][Next]_vars

(***************************************************************************)
(* The goroutines of the daemon are scheduled, and the timer of an         *)
(* mcp-permission await fires. Nothing makes the user decide.              *)
(***************************************************************************)
Fairness ==
    /\ \A r \in Requests :
        WF_vars(AwaitLookup(r) \/ AwaitOutcome(r) \/ AwaitTimeout(r) \/ Delete(r))
    /\ \A c \in Calls : WF_vars(DecideSend(c))

FairSpec == Spec /\ Fairness

-----------------------------------------------------------------------------
(* Properties *)

\* The request's id is not used by any other.
OwnId(r) == \A q \in Requests : id[q] = id[r] => q = r

Asked(r, o) == \E c \in Calls : call[c] # None /\ call[c].req = r /\ call[c].outcome = o

\* What an agent is told was chosen by the user on the card of that very
\* request (store.go Await / Decide), for a request with an id of its own.
AnswerIsForTheRequest ==
    \A r \in Requests : OwnId(r) /\ result[r] \in Outcomes => Asked(r, result[r])

\* Two tabs, or the web and the local API, may decide the same card: the agent
\* is told the choice that reached the broker first (store.go Decide, the
\* default branch of the send).
FirstDecisionWins ==
    \A r \in Requests : OwnId(r) /\ result[r] \in Outcomes => result[r] = first[r]

IsDecision(c) == cpc[c] = "done" /\ call[c].outcome # "cancelled"

\* A decision that arrives after its Await timed out, or took an earlier
\* decision, is answered not_found, so the web knows it did not land. Not so
\* after a disconnect: Await's ctx.Done branch leaves the entry behind.
LateDecisionIsRefused ==
    \A c \in Calls :
        (IsDecision(c) /\ late[c] /\ OwnId(call[c].req) /\ result[call[c].req] # "ctx")
            => ack[c] = "not_found"

\* An mcp-permission call that is waiting on the broker is answered in the end,
\* by the user or by the timer, even if nobody ever decides.  Codex awaits without
\* a timer: its only way out, short of losing the app-server, is that the user's
\* decision reaches the goroutine that waits for it.
DecisionResolves ==
    /\ \A r \in McpRequests : (wpc[r] = "parked") ~> (wpc[r] = "returned")
    /\ \A r \in Requests \ McpRequests :
           (OwnId(r) /\ wpc[r] = "parked" /\ first[r] # "none") ~> (wpc[r] = "returned")
=============================================================================
