--------------------------- MODULE InteractionRouter ---------------------------
(***************************************************************************)
(* How a run asks the user for an approval or an answer: the CLI process   *)
(* of the runtime puts a request on the run's event channel                *)
(* (backend/agent/runtime/codex, opencode, claude), ConsumeEvents          *)
(* (backend/agent/runtime/externalcli/runner.go) publishes it and blocks   *)
(* in the router (backend/agent/runtime/provider/interaction_router.go),   *)
(* the user's answer comes back on the cmd.interaction lane                *)
(* (backend/internal/worker/command/interaction/handler.go), and the       *)
(* responder of the runtime writes the decision to the process.            *)
(*                                                                         *)
(* Approvals and questions take the same steps through two maps with equal *)
(* code, so an id here stands for a map and a request id in it; an answer  *)
(* to a question is an approval.                                           *)
(***************************************************************************)
EXTENDS Naturals, Sequences, FiniteSets

CONSTANTS
  Runs,        \* runs of a CLI runtime
  Requests,    \* approval requests and questions
  RunOf,       \* the run whose process makes a request
  Ids,         \* keys of the router's maps
  IdOf,        \* the key of a request
  None,        \* no request
  Delta,       \* an event that is no request: text, tool calls
  Cap,         \* capacity of a run's event channel
  Lossy,       \* runs whose events are sent without blocking (codex, opencode)
  DefaultAllow, \* runs whose process goes on unless the action is "deny" (claude)
  OneSlot,     \* WriteDecision answers the latest request (codex)
  Cancellable, \* runs whose context may be cancelled
  Replies,     \* bound: the actions a request may be answered with
  MaxAnswers   \* bound: answers, repeated ones included, to each request

\* What callers send as the action, which nothing validates: "approve" stands
\* for "always" too, "other" for any string that the responders do not know.
Actions == {"approve", "deny", "other"}

ASSUME InteractionAssumption ==
  /\ Replies \in [Requests -> SUBSET Actions]
  /\ RunOf \in [Requests -> Runs] /\ IdOf \in [Requests -> Ids]
  /\ None \notin Requests \cup {Delta}
  /\ ({Delta} \cup Requests) \cap {"completed", "failed"} = {}
  /\ Delta \notin Requests
  /\ Cap \in Nat \ {0} /\ MaxAnswers \in [Requests -> Nat]
  /\ OneSlot \in BOOLEAN
  /\ Lossy \subseteq Runs /\ DefaultAllow \subseteq Runs /\ Cancellable \subseteq Runs

VARIABLES
  engine,    \* per request: what the process knows of it
  turn,      \* per run: the process's turn
  queue,     \* per run: its event channel
  slot,      \* per run: pendingApproval of the app server
  at,        \* per run: where ConsumeEvents is
  cur,       \* per run: the request it handles
  got,       \* per run: the decision it received
  result,    \* per run: what ConsumeEvents returned
  cancelled, \* runs whose context is cancelled
  pending,   \* the router's map: the request whose channel is registered
  channel,   \* per request: its result channel, of capacity 1
  shown,     \* requests the user has been shown
  answers,   \* per request: answers given so far
  given,     \* history: per request, the actions it was answered with
  lane,      \* answers on their way to the worker
  hand,      \* the answer in the interaction handler
  target     \* the request whose channel Resolve is sending to

processVars == <<engine, turn, queue, slot>>
runVars     == <<at, cur, got, result>>
routerVars  == <<pending, channel>>
userVars    == <<shown, answers, given>>
laneVars    == <<lane, hand, target>>
vars == <<processVars, runVars, cancelled, routerVars, userVars, laneVars>>

NoAction == "none"
Answer   == [id : Ids, action : Actions]
NoAnswer == [id |-> None, action |-> NoAction]
Ends     == {"completed", "failed"}
Event    == Requests \cup {Delta} \cup Ends

Init ==
  /\ engine = [q \in Requests |-> "idle"]
  /\ turn = [r \in Runs |-> "running"]
  /\ queue = [r \in Runs |-> <<>>]
  /\ slot = [r \in Runs |-> None]
  /\ at = [r \in Runs |-> "next"]
  /\ cur = [r \in Runs |-> None]
  /\ got = [r \in Runs |-> NoAction]
  /\ result = [r \in Runs |-> "none"]
  /\ cancelled = {}
  /\ pending = [i \in Ids |-> None]
  /\ channel = [q \in Requests |-> NoAction]
  /\ shown = {} /\ given = [q \in Requests |-> {}]
  /\ answers = [q \in Requests |-> 0]
  /\ lane = <<>> /\ hand = NoAnswer /\ target = None

-----------------------------------------------------------------------------
(* The CLI process and its reader goroutine.                                *)

\* Mutant: never blocks.
SendOrDrop(r, e) ==
  queue' = IF Len(queue[r]) < Cap
           THEN [queue EXCEPT ![r] = Append(@, e)] ELSE queue

(* A send to the event channel: a full one blocks the reader, or loses the  *)
(* event.                                                                   *)
Send(r, e) ==
  /\ Len(queue[r]) < Cap \/ r \in Lossy
  /\ queue' = IF Len(queue[r]) < Cap
              THEN [queue EXCEPT ![r] = Append(@, e)] ELSE queue

Ask(q) ==
  /\ turn[RunOf[q]] = "running"
  /\ engine[q] = "idle"
  /\ Send(RunOf[q], q)
  /\ engine' = [engine EXCEPT ![q] = "asked"]
  /\ slot' = IF OneSlot THEN [slot EXCEPT ![RunOf[q]] = q] ELSE slot
  /\ UNCHANGED <<turn, runVars, cancelled, routerVars, userVars, laneVars>>

Chatter(r) ==
  /\ turn[r] = "running"
  /\ Len(queue[r]) < Cap
  /\ Send(r, Delta)
  /\ UNCHANGED <<engine, turn, slot, runVars, cancelled, routerVars, userVars, laneVars>>

(* The turn ends, the event that says so is sent and the channel is closed. *)
(* A process completes its turn only when its requests are answered.        *)
TurnEnds(r, how) ==
  /\ turn[r] = "running"
  /\ how = "completed" =>
       \A q \in Requests : RunOf[q] = r => engine[q] # "asked"
  /\ Send(r, how)
  /\ turn' = [turn EXCEPT ![r] = how]
  /\ slot' = [slot EXCEPT ![r] = None]
  /\ UNCHANGED <<engine, runVars, cancelled, routerVars, userVars, laneVars>>

Cancel(r) ==
  /\ r \in Cancellable \ cancelled
  /\ cancelled' = cancelled \cup {r}
  /\ UNCHANGED <<processVars, runVars, routerVars, userVars, laneVars>>

-----------------------------------------------------------------------------
(* ConsumeEvents.                                                           *)
Returns(r, outcome) ==
  /\ at' = [at EXCEPT ![r] = "done"]
  /\ result' = [result EXCEPT ![r] = outcome]

NextEvent(r) == at[r] = "next" /\ queue[r] # <<>>

TakeDelta(r) ==
  /\ NextEvent(r)
  /\ Head(queue[r]) = Delta
  /\ queue' = [queue EXCEPT ![r] = Tail(@)]
  /\ UNCHANGED <<engine, turn, slot, runVars, cancelled, routerVars, userVars, laneVars>>

(* The request is published before it is registered with the router.        *)
TakeRequest(r) ==
  /\ NextEvent(r)
  /\ Head(queue[r]) \in Requests
  /\ cur' = [cur EXCEPT ![r] = Head(queue[r])]
  /\ at' = [at EXCEPT ![r] = "register"]
  /\ queue' = [queue EXCEPT ![r] = Tail(@)]
  /\ shown' = shown \cup {Head(queue[r])}
  /\ UNCHANGED <<engine, turn, slot, got, result, cancelled, routerVars,
                 answers, given, laneVars>>

(* With a cancelled context the publication fails, and may have happened.   *)
EmitFails(r) ==
  /\ NextEvent(r)
  /\ r \in cancelled
  /\ Head(queue[r]) \notin Ends
  /\ Returns(r, "error")
  /\ queue' = [queue EXCEPT ![r] = Tail(@)]
  /\ shown' \in {shown, shown \cup ({Head(queue[r])} \cap Requests)}
  /\ UNCHANGED <<engine, turn, slot, cur, got, cancelled, routerVars,
                 answers, given, laneVars>>

TakeEnd(r) ==
  /\ NextEvent(r)
  /\ Head(queue[r]) \in Ends
  /\ Returns(r, IF Head(queue[r]) = "completed" THEN "ok" ELSE "error")
  /\ queue' = [queue EXCEPT ![r] = Tail(@)]
  /\ UNCHANGED <<engine, turn, slot, cur, got, cancelled, routerVars, userVars, laneVars>>

(* The channel is closed and drained: no error.                             *)
ChannelClosed(r) ==
  /\ at[r] = "next" /\ queue[r] = <<>> /\ turn[r] # "running"
  /\ Returns(r, "ok")
  /\ UNCHANGED <<processVars, cur, got, cancelled, routerVars, userVars, laneVars>>

Register(r) ==
  /\ at[r] = "register"
  /\ pending' = [pending EXCEPT ![IdOf[cur[r]]] = cur[r]]
  /\ at' = [at EXCEPT ![r] = "wait"]
  /\ UNCHANGED <<processVars, cur, got, result, cancelled, channel, userVars, laneVars>>

Decided(r) ==
  /\ at[r] = "wait"
  /\ channel[cur[r]] # NoAction
  /\ got' = [got EXCEPT ![r] = channel[cur[r]]]
  /\ channel' = [channel EXCEPT ![cur[r]] = NoAction]
  /\ at' = [at EXCEPT ![r] = "leave"]
  /\ UNCHANGED <<processVars, cur, result, cancelled, pending, userVars, laneVars>>

\* Mutant: looks at the context before it waits, not while.
GivesUpEarly(r) ==
  /\ at[r] = "register"
  /\ r \in cancelled
  /\ at' = [at EXCEPT ![r] = "next"]
  /\ UNCHANGED <<processVars, cur, got, result, cancelled, routerVars, userVars, laneVars>>

GivesUp(r) ==
  /\ at[r] = "wait"
  /\ r \in cancelled
  /\ at' = [at EXCEPT ![r] = "leave"]
  /\ UNCHANGED <<processVars, cur, got, result, cancelled, routerVars, userVars, laneVars>>

\* Mutant: a waiter that gave up leaves its entry behind.
LeaveKeepsEntry(r) ==
  /\ at[r] = "leave"
  /\ pending' = IF got[r] = NoAction THEN pending
                ELSE [pending EXCEPT ![IdOf[cur[r]]] = None]
  /\ at' = [at EXCEPT ![r] = IF got[r] = NoAction THEN "next" ELSE "decide"]
  /\ UNCHANGED <<processVars, cur, got, result, cancelled, channel, userVars, laneVars>>

(* The deferred delete, whoever's entry is there.                           *)
Leave(r) ==
  /\ at[r] = "leave"
  /\ pending' = [pending EXCEPT ![IdOf[cur[r]]] = None]
  /\ at' = [at EXCEPT ![r] = IF got[r] = NoAction THEN "next" ELSE "decide"]
  /\ UNCHANGED <<processVars, cur, got, result, cancelled, channel, userVars, laneVars>>

\* The request that WriteDecision answers.
Answered(r) == IF OneSlot THEN slot[r] ELSE cur[r]

\* The actions the responder of a run passes on as a consent.
Consents(r) == IF r \in DefaultAllow THEN Actions \ {"deny"} ELSE {"approve"}

\* Mutant: every runtime goes on unless the user denied it.
WriteUnlessDenied(r) ==
  /\ at[r] = "decide"
  /\ engine' = IF turn[r] = "running" /\ Answered(r) # None
               THEN [engine EXCEPT ![Answered(r)] =
                       IF got[r] # "deny" THEN "accepted" ELSE "denied"]
               ELSE engine
  /\ at' = [at EXCEPT ![r] = "clear"]
  /\ UNCHANGED <<turn, queue, slot, cur, got, result, cancelled, routerVars,
                 userVars, laneVars>>

WriteDecision(r) ==
  /\ at[r] = "decide"
  /\ engine' = IF turn[r] = "running" /\ Answered(r) # None
               THEN [engine EXCEPT ![Answered(r)] =
                       IF got[r] \in Consents(r) THEN "accepted" ELSE "denied"]
               ELSE engine
  /\ at' = [at EXCEPT ![r] = "clear"]
  /\ UNCHANGED <<turn, queue, slot, cur, got, result, cancelled, routerVars,
                 userVars, laneVars>>

(* SetPendingApproval(nil) is a second critical section of the app server.  *)
ClearSlot(r) ==
  /\ at[r] = "clear"
  /\ slot' = [slot EXCEPT ![r] = None]
  /\ got' = [got EXCEPT ![r] = NoAction]
  /\ \/ at' = [at EXCEPT ![r] = "next"] /\ UNCHANGED result
     \/ r \in cancelled /\ Returns(r, "error")
  /\ UNCHANGED <<engine, turn, queue, cur, cancelled, routerVars, userVars, laneVars>>

-----------------------------------------------------------------------------
(* The user, the interaction lane and its handler.                          *)

(* SubmitApproval and SubmitQuestionAnswer publish whatever they are given; *)
(* an answer may be repeated by the user or by the broker.                  *)
UserAnswers(q, a) ==
  /\ q \in shown /\ a \in Replies[q]
  /\ answers[q] < MaxAnswers[q]
  /\ answers' = [answers EXCEPT ![q] = @ + 1]
  /\ given' = [given EXCEPT ![q] = @ \cup {a}]
  /\ lane' = Append(lane, [id |-> IdOf[q], action |-> a])
  /\ UNCHANGED <<processVars, runVars, cancelled, routerVars, shown, hand, target>>

(* Resolve looks the id up under the lock and sends outside it.             *)
Resolve ==
  /\ hand = NoAnswer
  /\ lane # <<>>
  /\ hand' = IF pending[Head(lane).id] = None THEN NoAnswer ELSE Head(lane)
  /\ target' = pending[Head(lane).id]
  /\ lane' = Tail(lane)
  /\ UNCHANGED <<processVars, runVars, cancelled, routerVars, userVars>>

\* Mutant: an unbuffered channel hands over to a goroutine that receives.
ResolveHandsOver ==
  /\ hand # NoAnswer
  /\ channel[target] = NoAction
  /\ \E r \in Runs : at[r] = "wait" /\ cur[r] = target
  /\ channel' = [channel EXCEPT ![target] = hand.action]
  /\ hand' = NoAnswer
  /\ target' = None
  /\ UNCHANGED <<processVars, runVars, cancelled, pending, userVars, lane>>

ResolveSends ==
  /\ hand # NoAnswer
  /\ channel[target] = NoAction
  /\ channel' = [channel EXCEPT ![target] = hand.action]
  /\ hand' = NoAnswer
  /\ target' = None
  /\ UNCHANGED <<processVars, runVars, cancelled, pending, userVars, lane>>

-----------------------------------------------------------------------------
Consume(r) ==
  \/ TakeDelta(r) \/ TakeRequest(r) \/ EmitFails(r) \/ TakeEnd(r) \/ ChannelClosed(r)
  \/ Register(r) \/ Decided(r) \/ GivesUp(r) \/ Leave(r)
  \/ WriteDecision(r) \/ ClearSlot(r)

Lane == Resolve \/ ResolveSends

Next ==
  \/ \E q \in Requests : Ask(q) \/ \E a \in Actions : UserAnswers(q, a)
  \/ \E r \in Runs : Chatter(r) \/ Cancel(r) \/ Consume(r)
  \/ \E r \in Runs, how \in Ends : TurnEnds(r, how)
  \/ Lane

Spec == Init /\ [][Next]_vars

(* Goroutines run, and a process whose context is cancelled is killed; its  *)
(* last event is sent as soon as the channel lets it (channels are first    *)
(* in, first out).  Nothing makes the user answer or a process ask or       *)
(* finish.                                                                  *)
FairSpec ==
  /\ Spec
  /\ WF_vars(Lane)
  /\ \A r \in Runs : WF_vars(Consume(r))
                     /\ SF_vars(r \in cancelled /\ TurnEnds(r, "failed"))

-----------------------------------------------------------------------------
TypeOK ==
  /\ engine \in [Requests -> {"idle", "asked", "accepted", "denied"}]
  /\ turn \in [Runs -> {"running"} \cup Ends]
  /\ queue \in [Runs -> Seq(Event)]
  /\ slot \in [Runs -> Requests \cup {None}]
  /\ at \in [Runs -> {"next", "register", "wait", "leave", "decide", "clear", "done"}]
  /\ cur \in [Runs -> Requests \cup {None}]
  /\ got \in [Runs -> Actions \cup {NoAction}]
  /\ result \in [Runs -> {"none", "ok", "error"}]
  /\ cancelled \subseteq Runs
  /\ pending \in [Ids -> Requests \cup {None}]
  /\ channel \in [Requests -> Actions \cup {NoAction}]
  /\ shown \subseteq Requests /\ given \in [Requests -> SUBSET Actions]
  /\ answers \in [Requests -> Nat] /\ \A q \in Requests : answers[q] <= MaxAnswers[q]
  /\ lane \in Seq(Answer)
  /\ hand \in Answer \cup {NoAnswer} /\ target \in Requests \cup {None}
  /\ \A r \in Runs : at[r] \notin {"next", "done"} => cur[r] # None
  /\ hand = NoAnswer <=> target = None

(* The process is told to go on with a request, or not to, only because the *)
(* user answered that very request so, whatever the order of answers,       *)
(* repeats, cancellations and requests of other runs.                       *)
DecisionWasGiven ==
  \A q \in Requests :
    /\ engine[q] = "accepted" => given[q] \cap Consents(RunOf[q]) # {}
    /\ engine[q] = "denied" => given[q] \ Consents(RunOf[q]) # {}

(* The router's map holds exactly the requests that ConsumeEvents waits     *)
(* for: no entry survives its waiter, and no waiter loses its entry.        *)
EntriesAreWaiters ==
  \A q \in Requests :
    (pending[IdOf[q]] = q) <=> \E r \in Runs : at[r] \in {"wait", "leave"} /\ cur[r] = q

(* The inductive strengthening of the safety properties, for a runtime that *)
(* answers requests by their id and ids that are unique, in parts.          *)
(* Each request is handled by its own run, and the map says so.             *)
OwnersInv ==
  /\ \A r \in Runs : cur[r] # None => RunOf[cur[r]] = r
  /\ \A r \in Runs : \A k \in 1..Len(queue[r]) :
       queue[r][k] \in Requests => RunOf[queue[r][k]] = r
  /\ \A r \in Runs : at[r] \in {"wait", "leave"} => pending[IdOf[cur[r]]] = cur[r]
  /\ \A q \in Requests : pending[IdOf[q]] = q =>
       at[RunOf[q]] \in {"wait", "leave"} /\ cur[RunOf[q]] = q
  /\ \A i \in Ids : pending[i] # None => IdOf[pending[i]] = i

(* An answer on its way was given to the request that it will reach.        *)
AnswersInv ==
  /\ \A k \in 1..Len(lane) : \A q \in Requests :
       IdOf[q] = lane[k].id => lane[k].action \in given[q]
  /\ hand # NoAnswer => hand.action \in given[target]
  /\ \A q \in Requests : channel[q] # NoAction => channel[q] \in given[q]
  /\ \A r \in Runs : got[r] # NoAction => got[r] \in given[cur[r]]
  /\ \A r \in Runs : at[r] \in {"next", "register", "wait", "done"} => got[r] = NoAction
  /\ \A r \in Runs : at[r] = "decide" => got[r] # NoAction

(* With blocking sends the end of a turn is in the channel until            *)
(* ConsumeEvents has returned.                                              *)
EndsInv ==
  \A r \in Runs \ Lossy :
    /\ \A k \in 1..Len(queue[r]) : queue[r][k] \in Ends => queue[r][k] = turn[r]
    /\ turn[r] # "running" /\ at[r] # "done" => turn[r] \in {queue[r][k] : k \in 1..Len(queue[r])}
    /\ result[r] = "ok" => turn[r] = "completed"
    /\ at[r] = "done" => result[r] # "none"

RouterInv == OwnersInv /\ AnswersInv /\ DecisionWasGiven

(* With blocking sends a run whose process failed is not reported as a      *)
(* success, whatever approval it was waiting for when it failed.            *)
FailedTurnFails ==
  \A r \in Runs \ Lossy : at[r] = "done" /\ turn[r] = "failed" => result[r] = "error"

(* The wait for the user never outlives the run's context.                  *)
CancelEndsRun == \A r \in Runs : r \in cancelled ~> at[r] = "done"

(* An answer is handed over, so the lane goes on, although its waiter may   *)
(* leave after the lookup; only a repeated answer can stop it, that finds   *)
(* the one before it in the channel of a request nobody waits for.          *)
LaneAdvances ==
  hand # NoAnswer ~>
    \/ hand = NoAnswer
    \/ /\ answers[target] > 1 /\ channel[target] # NoAction
       /\ \A r \in Runs : at[r] = "wait" => cur[r] # target
=============================================================================
