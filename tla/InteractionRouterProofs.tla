------------------------ MODULE InteractionRouterProofs ------------------------
(***************************************************************************)
(* Proofs about InteractionRouter: type correctness for any runtime, and   *)
(* for a runtime that answers requests by their id, that the router's map  *)
(* holds exactly the waiting requests, that a process goes on, or does not,*)
(* only by an answer to its request, and, when events are not dropped,     *)
(* that a failed turn is a failed run.                                     *)
(***************************************************************************)
EXTENDS InteractionRouter, TLAPS

(* Sequences of a fixed set of elements, element by element.                *)
LEMMA TailOf ==
  ASSUME NEW S, NEW q \in Seq(S), q # <<>>
  PROVE  /\ Head(q) \in S /\ Tail(q) \in Seq(S)
         /\ Head(q) = q[1] /\ 1 \in 1..Len(q)
         /\ Len(Tail(q)) = Len(q) - 1
         /\ \A k \in 1..Len(Tail(q)) : k + 1 \in 1..Len(q) /\ Tail(q)[k] = q[k + 1]
OBVIOUS

LEMMA AppendTo ==
  ASSUME NEW S, NEW q \in Seq(S), NEW e \in S
  PROVE  /\ Append(q, e) \in Seq(S)
         /\ Len(Append(q, e)) = Len(q) + 1
         /\ \A k \in 1..Len(q) : Append(q, e)[k] = q[k]
         /\ Append(q, e)[Len(q) + 1] = e
OBVIOUS

LEMMA EmptySeq == ASSUME NEW S PROVE <<>> \in Seq(S) /\ Len(<<>>) = 0
OBVIOUS

LEMMA NoAnswerIsNone == NoAnswer \notin Answer /\ NoAnswer.action = NoAction
BY DEF NoAnswer, Answer, Actions, NoAction

(* Sending appends the event or, if events may be dropped, does nothing.    *)
LEMMA Sent ==
  ASSUME TypeOK, NEW r \in Runs, NEW e \in Event, Send(r, e)
  PROVE  /\ queue' \in [Runs -> Seq(Event)]
         /\ \A o \in Runs \ {r} : queue'[o] = queue[o]
         /\ queue'[r] = queue[r] \/ queue'[r] = Append(queue[r], e)
         /\ r \notin Lossy => queue'[r] = Append(queue[r], e)
<1>1. queue \in [Runs -> Seq(Event)] /\ queue[r] \in Seq(Event)
  BY DEF TypeOK
<1>2. Append(queue[r], e) \in Seq(Event)
  BY <1>1, AppendTo
<1> QED BY <1>1, <1>2 DEF Send

(* Taking the head leaves the tail, and only of that queue.                 *)
LEMMA Taken ==
  ASSUME TypeOK, NEW r \in Runs, queue[r] # <<>>,
         queue' = [queue EXCEPT ![r] = Tail(@)]
  PROVE  /\ queue' \in [Runs -> Seq(Event)]
         /\ Head(queue[r]) \in Event
         /\ \A o \in Runs \ {r} : queue'[o] = queue[o]
         /\ queue'[r] = Tail(queue[r])
<1>1. queue \in [Runs -> Seq(Event)] /\ queue[r] \in Seq(Event)
  BY DEF TypeOK
<1> QED BY <1>1, TailOf

-----------------------------------------------------------------------------
LEMMA TypeInit == Init => TypeOK
<1> SUFFICES ASSUME Init PROVE TypeOK
  OBVIOUS
<1>1. /\ engine \in [Requests -> {"idle", "asked", "accepted", "denied"}]
      /\ turn \in [Runs -> {"running"} \cup Ends]
      /\ slot \in [Runs -> Requests \cup {None}]
      /\ at \in [Runs -> {"next", "register", "wait", "leave", "decide", "clear", "done"}]
      /\ cur \in [Runs -> Requests \cup {None}]
      /\ got \in [Runs -> Actions \cup {NoAction}]
      /\ result \in [Runs -> {"none", "ok", "error"}]
      /\ pending \in [Ids -> Requests \cup {None}]
      /\ channel \in [Requests -> Actions \cup {NoAction}]
  BY DEF Init
<1>2. queue \in [Runs -> Seq(Event)]
  BY EmptySeq, Zenon DEF Init
<1>3. lane \in Seq(Answer)
  BY EmptySeq, Zenon DEF Init
<1>4. /\ answers \in [Requests -> Nat] /\ \A q \in Requests : answers[q] <= MaxAnswers[q]
      /\ given \in [Requests -> SUBSET Actions]
  BY InteractionAssumption DEF Init
<1>5. /\ cancelled \subseteq Runs /\ shown \subseteq Requests
      /\ hand \in Answer \cup {NoAnswer} /\ target \in Requests \cup {None}
      /\ hand = NoAnswer <=> target = None
      /\ \A r \in Runs : at[r] \notin {"next", "done"} => cur[r] # None
  BY DEF Init
<1> QED BY <1>1, <1>2, <1>3, <1>4, <1>5 DEF TypeOK

LEMMA TypeNext == TypeOK /\ [Next]_vars => TypeOK'
<1> SUFFICES ASSUME TypeOK, [Next]_vars PROVE TypeOK'
  OBVIOUS
<1> USE InteractionAssumption
<1>1. ASSUME NEW q \in Requests, Ask(q) PROVE TypeOK'
  <2>1. RunOf[q] \in Runs /\ q \in Event
    BY DEF Event
  <2>2. queue' \in [Runs -> Seq(Event)]
    BY <1>1, <2>1, Sent DEF Ask
  <2> QED BY <1>1, <2>1, <2>2
          DEF Ask, TypeOK, runVars, routerVars, userVars, laneVars
<1>2. ASSUME NEW q \in Requests, NEW a \in Actions, UserAnswers(q, a) PROVE TypeOK'
  <2>1. [id |-> IdOf[q], action |-> a] \in Answer
    BY DEF Answer
  <2>2. lane' \in Seq(Answer)
    BY <1>2, <2>1, AppendTo DEF UserAnswers, TypeOK
  <2>3. /\ answers' \in [Requests -> Nat]
        /\ \A p \in Requests : answers'[p] <= MaxAnswers[p]
    BY <1>2 DEF UserAnswers, TypeOK
  <2>4. given' \in [Requests -> SUBSET Actions]
    BY <1>2 DEF UserAnswers, TypeOK
  <2> QED BY <1>2, <2>2, <2>3, <2>4
          DEF UserAnswers, TypeOK, processVars, runVars, routerVars
<1>3. ASSUME NEW r \in Runs, Chatter(r) PROVE TypeOK'
  <2>1. queue' \in [Runs -> Seq(Event)]
    BY <1>3, Sent DEF Chatter, Event
  <2> QED BY <1>3, <2>1 DEF Chatter, TypeOK, runVars, routerVars, userVars, laneVars
<1>4. ASSUME NEW r \in Runs, Cancel(r) PROVE TypeOK'
  BY <1>4 DEF Cancel, TypeOK, processVars, runVars, routerVars, userVars, laneVars
<1>5. ASSUME NEW r \in Runs, NEW how \in Ends, TurnEnds(r, how) PROVE TypeOK'
  <2>1. queue' \in [Runs -> Seq(Event)]
    BY <1>5, Sent DEF TurnEnds, Event
  <2> QED BY <1>5, <2>1 DEF TurnEnds, TypeOK, runVars, routerVars, userVars, laneVars
<1>6. ASSUME NEW r \in Runs, TakeDelta(r) \/ TakeRequest(r) \/ EmitFails(r) \/ TakeEnd(r)
      PROVE  TypeOK'
  <2>1. queue' \in [Runs -> Seq(Event)]
    BY <1>6, Taken DEF TakeDelta, TakeRequest, EmitFails, TakeEnd, NextEvent
  <2>2. shown' \subseteq Requests
    BY <1>6 DEF TakeDelta, TakeRequest, EmitFails, TakeEnd, userVars, TypeOK
  <2>3. UNCHANGED <<engine, turn, slot, got, cancelled, routerVars, answers, given, laneVars>>
    BY <1>6 DEF TakeDelta, TakeRequest, EmitFails, TakeEnd, runVars, userVars
  <2>4. /\ at' \in [Runs -> {"next", "register", "wait", "leave", "decide", "clear", "done"}]
        /\ cur' \in [Runs -> Requests \cup {None}]
        /\ result' \in [Runs -> {"none", "ok", "error"}]
        /\ \A o \in Runs : at'[o] \notin {"next", "done"} => cur'[o] # None
    <3>1. CASE TakeDelta(r)
      BY <3>1 DEF TakeDelta, runVars, TypeOK
    <3>2. CASE TakeRequest(r)
      BY <3>2 DEF TakeRequest, TypeOK
    <3>3. CASE EmitFails(r)
      BY <3>3 DEF EmitFails, Returns, TypeOK
    <3>4. CASE TakeEnd(r)
      BY <3>4 DEF TakeEnd, Returns, TypeOK
    <3> QED BY <1>6, <3>1, <3>2, <3>3, <3>4
  <2> QED BY <2>1, <2>2, <2>3, <2>4 DEF TypeOK, routerVars, laneVars
<1>7. ASSUME NEW r \in Runs, ChannelClosed(r) PROVE TypeOK'
  BY <1>7 DEF ChannelClosed, Returns, TypeOK, processVars, routerVars, userVars, laneVars
<1>8. ASSUME NEW r \in Runs, Register(r) PROVE TypeOK'
  BY <1>8 DEF Register, TypeOK, processVars, userVars, laneVars
<1>9. ASSUME NEW r \in Runs, Decided(r) PROVE TypeOK'
  BY <1>9 DEF Decided, TypeOK, processVars, userVars, laneVars
<1>10. ASSUME NEW r \in Runs, GivesUp(r) PROVE TypeOK'
  BY <1>10 DEF GivesUp, TypeOK, processVars, routerVars, userVars, laneVars
<1>11. ASSUME NEW r \in Runs, Leave(r) PROVE TypeOK'
  BY <1>11 DEF Leave, TypeOK, processVars, userVars, laneVars
<1>12. ASSUME NEW r \in Runs, WriteDecision(r) PROVE TypeOK'
  BY <1>12 DEF WriteDecision, TypeOK, routerVars, userVars, laneVars
<1>13. ASSUME NEW r \in Runs, ClearSlot(r) PROVE TypeOK'
  <2>1. slot' \in [Runs -> Requests \cup {None}] /\ got' \in [Runs -> Actions \cup {NoAction}]
    BY <1>13 DEF ClearSlot, TypeOK
  <2>2. UNCHANGED <<engine, turn, queue, cur, cancelled, routerVars, userVars, laneVars>>
    BY <1>13 DEF ClearSlot
  <2>3. at' = [at EXCEPT ![r] = "next"] \/ at' = [at EXCEPT ![r] = "done"]
    BY <1>13 DEF ClearSlot, Returns
  <2>4. at' \in [Runs -> {"next", "register", "wait", "leave", "decide", "clear", "done"}]
    BY <2>3 DEF TypeOK
  <2>5. result' = result \/ result' = [result EXCEPT ![r] = "error"]
    BY <1>13 DEF ClearSlot, Returns
  <2>6. result' \in [Runs -> {"none", "ok", "error"}]
    BY <2>5 DEF TypeOK
  <2>7. \A o \in Runs : at'[o] \notin {"next", "done"} => cur'[o] # None
    BY <2>2, <2>3 DEF TypeOK
  <2>8. hand' = NoAnswer <=> target' = None
    BY <2>2 DEF TypeOK, laneVars
  <2> QED BY <2>1, <2>2, <2>4, <2>6, <2>7, <2>8 DEF TypeOK, routerVars, userVars, laneVars
<1>14. CASE Resolve
  <2>1. Head(lane) \in Answer /\ lane' \in Seq(Answer)
    BY <1>14, TailOf DEF Resolve, TypeOK
  <2>2. pending[Head(lane).id] \in Requests \cup {None}
    BY <2>1 DEF TypeOK, Answer
  <2>3. Head(lane) # NoAnswer
    BY <2>1, NoAnswerIsNone
  <2> QED BY <1>14, <2>1, <2>2, <2>3
          DEF Resolve, TypeOK, processVars, runVars, routerVars, userVars
<1>15. CASE ResolveSends
  <2>1. hand.action \in Actions
    BY <1>15 DEF ResolveSends, TypeOK, Answer
  <2> QED BY <1>15, <2>1 DEF ResolveSends, TypeOK, processVars, runVars, userVars
<1>16. CASE UNCHANGED vars
  BY <1>16 DEF vars, TypeOK, processVars, runVars, routerVars, userVars, laneVars
<1> QED BY <1>1, <1>2, <1>3, <1>4, <1>5, <1>6, <1>7, <1>8, <1>9, <1>10, <1>11, <1>12,
           <1>13, <1>14, <1>15, <1>16 DEF Next, Consume, Lane

(* The type invariant holds for any sets of runs and requests, of any       *)
(* runtime, and any number of answers.                                      *)
THEOREM TypeCorrect == Spec => []TypeOK
BY TypeInit, TypeNext, PTL DEF Spec

-----------------------------------------------------------------------------
(* Ids that name one request.                                               *)
UniqueIds == \A p, q \in Requests : IdOf[p] = IdOf[q] => p = q

LEMMA OwnersInit == Init => OwnersInv
BY InteractionAssumption, EmptySeq DEF Init, OwnersInv

(* The requests in a queue stay those of its run when something is sent.    *)
LEMMA OwnersSent ==
  ASSUME TypeOK, OwnersInv, NEW r \in Runs, NEW e \in Event, Send(r, e),
         e \in Requests => RunOf[e] = r
  PROVE  \A o \in Runs : \A k \in 1..Len(queue'[o]) :
           queue'[o][k] \in Requests => RunOf[queue'[o][k]] = o
<1> SUFFICES ASSUME NEW o \in Runs, NEW k \in 1..Len(queue'[o]), queue'[o][k] \in Requests
             PROVE  RunOf[queue'[o][k]] = o
  OBVIOUS
<1>1. queue[o] \in Seq(Event)
  BY DEF TypeOK
<1>2. CASE queue'[o] = queue[o]
  BY <1>2 DEF OwnersInv
<1>3. CASE o = r /\ queue'[o] = Append(queue[o], e)
  <2>1. CASE k \in 1..Len(queue[o])
    BY <1>1, <1>3, <2>1, AppendTo DEF OwnersInv
  <2>2. CASE k \notin 1..Len(queue[o])
    <3>1. k = Len(queue[o]) + 1
      BY <1>1, <1>3, <2>2, AppendTo
    <3> QED BY <1>1, <1>3, <3>1, AppendTo
  <2> QED BY <2>1, <2>2
<1> QED BY <1>2, <1>3, Sent

(* And when the head is taken.                                              *)
LEMMA OwnersTaken ==
  ASSUME TypeOK, OwnersInv, NEW r \in Runs, queue[r] # <<>>,
         queue' = [queue EXCEPT ![r] = Tail(@)]
  PROVE  /\ \A o \in Runs : \A k \in 1..Len(queue'[o]) :
              queue'[o][k] \in Requests => RunOf[queue'[o][k]] = o
         /\ Head(queue[r]) \in Requests => RunOf[Head(queue[r])] = r
<1>1. \A o \in Runs : queue[o] \in Seq(Event)
  BY DEF TypeOK
<1>2. Head(queue[r]) \in Requests => RunOf[Head(queue[r])] = r
  BY <1>1, TailOf DEF OwnersInv
<1>3. ASSUME NEW o \in Runs, NEW k \in 1..Len(queue'[o]), queue'[o][k] \in Requests
      PROVE  RunOf[queue'[o][k]] = o
  <2>1. CASE o = r
    <3>1. queue'[r] = Tail(queue[r]) /\ k \in 1..Len(Tail(queue[r]))
      BY <1>3, <2>1, Taken
    <3>2. k + 1 \in 1..Len(queue[r]) /\ Tail(queue[r])[k] = queue[r][k + 1]
      BY <1>1, <3>1, TailOf
    <3> QED BY <1>3, <2>1, <3>1, <3>2 DEF OwnersInv
  <2>2. CASE o # r
    BY <1>3, <2>2, Taken DEF OwnersInv
  <2> QED BY <2>1, <2>2
<1> QED BY <1>2, <1>3

(* A step that keeps the map and moves no run into or out of the router.    *)
LEMMA OwnersElsewhere ==
  ASSUME OwnersInv, pending' = pending,
         \A o \in Runs : at'[o] \in {"wait", "leave"} <=> at[o] \in {"wait", "leave"},
         \A o \in Runs : at[o] \in {"wait", "leave"} => cur'[o] = cur[o],
         \A o \in Runs : cur'[o] # None => RunOf[cur'[o]] = o,
         \A o \in Runs : \A k \in 1..Len(queue'[o]) :
           queue'[o][k] \in Requests => RunOf[queue'[o][k]] = o
  PROVE  OwnersInv'
<1>1. \A q \in Requests : RunOf[q] \in Runs
  BY InteractionAssumption
<1> QED BY <1>1 DEF OwnersInv

(* The request a run holds once it has left "next".                         *)
LEMMA Held ==
  ASSUME TypeOK, OwnersInv, NEW r \in Runs, at[r] \notin {"next", "done"}
  PROVE  cur[r] \in Requests /\ RunOf[cur[r]] = r
<1>1. cur[r] \in Requests
  BY DEF TypeOK
<1> QED BY <1>1, InteractionAssumption DEF OwnersInv

LEMMA OwnersNext ==
  ASSUME UniqueIds, TypeOK, OwnersInv, [Next]_vars PROVE OwnersInv'
<1> USE InteractionAssumption
<1>1. ASSUME NEW q \in Requests, Ask(q) PROVE OwnersInv'
  <2>1. RunOf[q] \in Runs /\ q \in Event /\ Send(RunOf[q], q)
    BY <1>1 DEF Event, Ask
  <2>2. \A o \in Runs : \A k \in 1..Len(queue'[o]) :
          queue'[o][k] \in Requests => RunOf[queue'[o][k]] = o
    BY <2>1, OwnersSent
  <2>3. UNCHANGED <<at, cur, pending>>
    BY <1>1 DEF Ask, runVars, routerVars
  <2> QED BY <2>2, <2>3 DEF OwnersInv
<1>2. ASSUME NEW r \in Runs, Chatter(r) \/ \E how \in Ends : TurnEnds(r, how)
      PROVE  OwnersInv'
  <2>1. PICK e \in Event \ Requests : Send(r, e)
    BY <1>2 DEF Chatter, TurnEnds, Event, Ends
  <2>2. \A o \in Runs : \A k \in 1..Len(queue'[o]) :
          queue'[o][k] \in Requests => RunOf[queue'[o][k]] = o
    BY <2>1, OwnersSent
  <2>3. UNCHANGED <<at, cur, pending>>
    BY <1>2 DEF Chatter, TurnEnds, runVars, routerVars
  <2> QED BY <2>2, <2>3 DEF OwnersInv
<1>3. ASSUME NEW r \in Runs, TakeDelta(r) \/ TakeRequest(r) \/ EmitFails(r) \/ TakeEnd(r)
      PROVE  OwnersInv'
  <2>1. /\ queue[r] # <<>> /\ at[r] = "next"
        /\ queue' = [queue EXCEPT ![r] = Tail(@)] /\ pending' = pending
    BY <1>3 DEF TakeDelta, TakeRequest, EmitFails, TakeEnd, NextEvent, routerVars
  <2>2. /\ \A o \in Runs : \A k \in 1..Len(queue'[o]) :
             queue'[o][k] \in Requests => RunOf[queue'[o][k]] = o
        /\ Head(queue[r]) \in Requests => RunOf[Head(queue[r])] = r
    BY <2>1, OwnersTaken
  <2>3. /\ \A o \in Runs \ {r} : at'[o] = at[o] /\ cur'[o] = cur[o]
        /\ at'[r] \notin {"wait", "leave"}
        /\ cur'[r] = cur[r] \/ (cur'[r] = Head(queue[r]) /\ Head(queue[r]) \in Requests)
    <3>1. CASE TakeDelta(r)
      <4>1. at' = at /\ cur' = cur
        BY <3>1 DEF TakeDelta, runVars
      <4> QED BY <2>1, <4>1
    <3>2. CASE TakeRequest(r)
      BY <3>2 DEF TakeRequest, TypeOK
    <3>3. CASE EmitFails(r) \/ TakeEnd(r)
      <4>1. at' = [at EXCEPT ![r] = "done"] /\ cur' = cur
        BY <3>3 DEF EmitFails, TakeEnd, Returns
      <4> QED BY <4>1 DEF TypeOK
    <3> QED BY <1>3, <3>1, <3>2, <3>3
  <2>4. \A o \in Runs : at'[o] \in {"wait", "leave"} <=> at[o] \in {"wait", "leave"}
    BY <2>1, <2>3
  <2>5. \A o \in Runs : at[o] \in {"wait", "leave"} => cur'[o] = cur[o]
    BY <2>1, <2>3
  <2>6. \A o \in Runs : cur'[o] # None => RunOf[cur'[o]] = o
    BY <2>2, <2>3 DEF OwnersInv
  <2> QED BY <2>1, <2>2, <2>4, <2>5, <2>6, OwnersElsewhere
<1>4. ASSUME NEW r \in Runs, Register(r) PROVE OwnersInv'
  <2>1. /\ cur[r] \in Requests /\ RunOf[cur[r]] = r
        /\ queue' = queue /\ cur' = cur
        /\ at' = [at EXCEPT ![r] = "wait"]
        /\ pending' = [pending EXCEPT ![IdOf[cur[r]]] = cur[r]]
    BY <1>4, Held DEF Register, processVars
  <2>2. \A o \in Runs \ {r} : cur[o] \in Requests => IdOf[cur[o]] # IdOf[cur[r]]
    BY <2>1 DEF UniqueIds, OwnersInv
  <2>3. \A o \in Runs : at'[o] \in {"wait", "leave"} => pending'[IdOf[cur'[o]]] = cur'[o]
    <3> SUFFICES ASSUME NEW o \in Runs, at'[o] \in {"wait", "leave"}
                 PROVE  pending'[IdOf[cur'[o]]] = cur'[o]
      OBVIOUS
    <3>1. CASE o = r
      BY <2>1, <3>1 DEF TypeOK
    <3>2. CASE o # r
      <4>1. at[o] \in {"wait", "leave"} /\ cur[o] \in Requests
        BY <2>1, <3>2 DEF TypeOK
      <4> QED BY <2>1, <2>2, <3>2, <4>1 DEF TypeOK, OwnersInv
    <3> QED BY <3>1, <3>2
  <2>4. \A q \in Requests : pending'[IdOf[q]] = q =>
          at'[RunOf[q]] \in {"wait", "leave"} /\ cur'[RunOf[q]] = q
    BY <2>1 DEF TypeOK, OwnersInv, UniqueIds
  <2>5. \A i \in Ids : pending'[i] # None => IdOf[pending'[i]] = i
    BY <2>1 DEF TypeOK, OwnersInv
  <2> QED BY <2>1, <2>3, <2>4, <2>5 DEF OwnersInv
<1>5. ASSUME NEW r \in Runs, Decided(r) \/ GivesUp(r) PROVE OwnersInv'
  <2>1. /\ UNCHANGED <<queue, cur, pending>>
        /\ at[r] = "wait" /\ at' = [at EXCEPT ![r] = "leave"]
    BY <1>5 DEF Decided, GivesUp, processVars, routerVars
  <2> QED BY <2>1 DEF OwnersInv, TypeOK
<1>6. ASSUME NEW r \in Runs, Leave(r) PROVE OwnersInv'
  <2>1. /\ cur[r] \in Requests /\ RunOf[cur[r]] = r
        /\ queue' = queue /\ cur' = cur /\ at[r] = "leave"
        /\ \A o \in Runs \ {r} : at'[o] = at[o]
        /\ at'[r] \notin {"wait", "leave"}
        /\ pending' = [pending EXCEPT ![IdOf[cur[r]]] = None]
    BY <1>6, Held DEF Leave, TypeOK, processVars
  <2>2. \A o \in Runs : at'[o] \in {"wait", "leave"} => pending'[IdOf[cur'[o]]] = cur'[o]
    <3> SUFFICES ASSUME NEW o \in Runs, at'[o] \in {"wait", "leave"}
                 PROVE  pending'[IdOf[cur'[o]]] = cur'[o]
      OBVIOUS
    <3>1. o # r /\ at[o] \in {"wait", "leave"}
      BY <2>1
    <3>2. cur[o] \in Requests /\ RunOf[cur[o]] = o
      BY <3>1, Held
    <3>3. cur[o] # cur[r] /\ pending[IdOf[cur[o]]] = cur[o]
      BY <2>1, <3>1, <3>2 DEF OwnersInv
    <3>4. IdOf[cur[o]] # IdOf[cur[r]]
      BY <2>1, <3>2, <3>3 DEF UniqueIds
    <3>5. pending'[IdOf[cur[o]]] = pending[IdOf[cur[o]]]
      BY <2>1, <3>2, <3>4 DEF TypeOK
    <3> QED BY <2>1, <3>3, <3>5
  <2>3. \A q \in Requests : pending'[IdOf[q]] = q =>
          at'[RunOf[q]] \in {"wait", "leave"} /\ cur'[RunOf[q]] = q
    <3> SUFFICES ASSUME NEW q \in Requests, pending'[IdOf[q]] = q
                 PROVE  at'[RunOf[q]] \in {"wait", "leave"} /\ cur'[RunOf[q]] = q
      OBVIOUS
    <3>1. IdOf[q] # IdOf[cur[r]] /\ pending[IdOf[q]] = q
      BY <2>1 DEF TypeOK
    <3>2. at[RunOf[q]] \in {"wait", "leave"} /\ cur[RunOf[q]] = q
      BY <3>1 DEF OwnersInv
    <3> QED BY <2>1, <3>1, <3>2
  <2>4. \A i \in Ids : pending'[i] # None => IdOf[pending'[i]] = i
    BY <2>1 DEF TypeOK, OwnersInv
  <2> QED BY <2>1, <2>2, <2>3, <2>4 DEF OwnersInv
<1>7. ASSUME NEW r \in Runs, WriteDecision(r) \/ ClearSlot(r) \/ ChannelClosed(r)
      PROVE  OwnersInv'
  <2>1. UNCHANGED <<queue, cur, pending>>
    BY <1>7 DEF WriteDecision, ClearSlot, ChannelClosed, processVars, routerVars
  <2>2. /\ at[r] \notin {"wait", "leave"} /\ at'[r] \notin {"wait", "leave"}
        /\ \A o \in Runs \ {r} : at'[o] = at[o]
    BY <1>7 DEF WriteDecision, ClearSlot, ChannelClosed, Returns, TypeOK
  <2>3. \A o \in Runs : at'[o] \in {"wait", "leave"} <=> at[o] \in {"wait", "leave"}
    BY <2>2
  <2>4. \A o \in Runs : cur'[o] # None => RunOf[cur'[o]] = o
    BY <2>1 DEF OwnersInv
  <2>5. \A o \in Runs : \A k \in 1..Len(queue'[o]) :
          queue'[o][k] \in Requests => RunOf[queue'[o][k]] = o
    BY <2>1 DEF OwnersInv
  <2> QED BY <2>1, <2>3, <2>4, <2>5, OwnersElsewhere
<1>8. CASE UNCHANGED <<queue, at, cur, pending>>
  BY <1>8 DEF OwnersInv
<1>9. ASSUME NEW q \in Requests, NEW a \in Actions, UserAnswers(q, a)
      PROVE  UNCHANGED <<queue, at, cur, pending>>
  BY <1>9 DEF UserAnswers, processVars, runVars, routerVars
<1>10. ASSUME NEW r \in Runs, Cancel(r) PROVE UNCHANGED <<queue, at, cur, pending>>
  BY <1>10 DEF Cancel, processVars, runVars, routerVars
<1>11. CASE Lane
  BY <1>8, <1>11 DEF Lane, Resolve, ResolveSends, processVars, runVars, routerVars
<1>12. CASE UNCHANGED vars
  BY <1>8, <1>12 DEF vars, processVars, runVars, routerVars
<1> QED BY <1>1, <1>2, <1>3, <1>4, <1>5, <1>6, <1>7, <1>8, <1>9, <1>10, <1>11, <1>12
        DEF Next, Consume

LEMMA OwnersGiveEntries == TypeOK /\ OwnersInv => EntriesAreWaiters
<1> SUFFICES ASSUME TypeOK, OwnersInv, NEW q \in Requests
             PROVE  (pending[IdOf[q]] = q) <=>
                      \E r \in Runs : at[r] \in {"wait", "leave"} /\ cur[r] = q
  BY DEF EntriesAreWaiters
<1>1. RunOf[q] \in Runs
  BY InteractionAssumption
<1> QED BY <1>1 DEF OwnersInv

(* With unique ids, the router's map holds exactly the requests ConsumeEvents *)
(* waits for: cancelled, answered or answered twice, no waiter leaves an      *)
(* entry behind or removes another's.                                         *)
THEOREM MapHoldsWaiters == ASSUME UniqueIds PROVE Spec => []EntriesAreWaiters
<1>1. TypeOK /\ OwnersInv /\ [Next]_vars => OwnersInv'
  BY OwnersNext
<1> QED BY <1>1, TypeInit, TypeNext, OwnersInit, OwnersGiveEntries, PTL DEF Spec

-----------------------------------------------------------------------------
LEMMA AnswersInit == Init => AnswersInv /\ DecisionWasGiven
<1> SUFFICES ASSUME Init PROVE AnswersInv /\ DecisionWasGiven
  OBVIOUS
<1>1. Len(lane) = 0 /\ hand = NoAnswer
  BY EmptySeq DEF Init
<1>2. \A k \in 1..Len(lane) : FALSE
  BY <1>1
<1>3. AnswersInv
  BY <1>1, <1>2 DEF Init, AnswersInv, NoAction
<1> QED BY <1>3 DEF Init, DecisionWasGiven

(* Steps that touch neither answers nor decisions.                          *)
LEMMA AnswersElsewhere ==
  ASSUME AnswersInv, DecisionWasGiven,
         UNCHANGED <<lane, hand, target, channel, got, given>>,
         \A q \in Requests : engine'[q] \in {"accepted", "denied"} => engine'[q] = engine[q],
         \A r \in Runs : got[r] # NoAction => cur'[r] = cur[r],
         \A r \in Runs : at'[r] \in {"next", "register", "wait", "done"} =>
           at[r] \in {"next", "register", "wait", "done"},
         \A r \in Runs : at'[r] = "decide" => at[r] = "decide"
  PROVE  AnswersInv' /\ DecisionWasGiven'
<1>1. \A r \in Runs : got'[r] # NoAction => got'[r] \in given'[cur'[r]]
  BY DEF AnswersInv
<1>2. AnswersInv'
  BY <1>1 DEF AnswersInv
<1>3. DecisionWasGiven'
  BY DEF DecisionWasGiven
<1> QED BY <1>2, <1>3

LEMMA AnswersNext ==
  ASSUME UniqueIds, ~OneSlot, TypeOK, OwnersInv, AnswersInv, DecisionWasGiven,
         [Next]_vars
  PROVE  AnswersInv' /\ DecisionWasGiven'
<1> USE InteractionAssumption
<1>1. ASSUME NEW q \in Requests, Ask(q) PROVE AnswersInv' /\ DecisionWasGiven'
  <2>1. UNCHANGED <<lane, hand, target, channel, got, given, cur, at>>
    BY <1>1 DEF Ask, runVars, routerVars, userVars, laneVars
  <2>2. \A p \in Requests : engine'[p] \in {"accepted", "denied"} => engine'[p] = engine[p]
    BY <1>1 DEF Ask, TypeOK
  <2> QED BY <2>1, <2>2, AnswersElsewhere
<1>2. ASSUME NEW q \in Requests, NEW a \in Actions, UserAnswers(q, a)
      PROVE  AnswersInv' /\ DecisionWasGiven'
  <2>1. /\ UNCHANGED <<hand, target, channel, got, cur, at, engine>>
        /\ given' = [given EXCEPT ![q] = @ \cup {a}]
        /\ lane' = Append(lane, [id |-> IdOf[q], action |-> a])
    BY <1>2 DEF UserAnswers, processVars, runVars, routerVars
  <2>2. /\ lane \in Seq(Answer) /\ [id |-> IdOf[q], action |-> a] \in Answer
    BY DEF TypeOK, Answer
  <2>3. a \in given'[q] /\ \A p \in Requests : given[p] \subseteq given'[p]
    BY <2>1 DEF TypeOK
  <2>4. ASSUME NEW k \in 1..Len(lane'), NEW p \in Requests, IdOf[p] = lane'[k].id
        PROVE  lane'[k].action \in given'[p]
    <3>1. CASE k \in 1..Len(lane)
      <4>1. lane'[k] = lane[k]
        BY <2>1, <2>2, <3>1, AppendTo
      <4>2. lane[k].action \in given[p]
        BY <2>4, <3>1, <4>1 DEF AnswersInv
      <4> QED BY <2>3, <4>1, <4>2
    <3>2. CASE k \notin 1..Len(lane)
      <4>1. k = Len(lane) + 1
        BY <2>1, <2>2, <3>2, AppendTo
      <4>2. lane'[k] = [id |-> IdOf[q], action |-> a]
        BY <2>1, <2>2, <4>1, AppendTo
      <4>3. IdOf[p] = IdOf[q]
        BY <2>4, <4>2
      <4> QED BY <2>3, <4>2, <4>3 DEF UniqueIds
    <3> QED BY <3>1, <3>2
  <2>5. hand' # NoAnswer => hand'.action \in given'[target']
    <3>1. hand # NoAnswer => target \in Requests
      BY DEF TypeOK
    <3> QED BY <2>1, <2>3, <3>1 DEF AnswersInv
  <2>6. \A p \in Requests : channel'[p] # NoAction => channel'[p] \in given'[p]
    BY <2>1, <2>3 DEF AnswersInv
  <2>7. \A r \in Runs : got'[r] # NoAction => got'[r] \in given'[cur'[r]]
    <3> SUFFICES ASSUME NEW r \in Runs, got'[r] # NoAction PROVE got'[r] \in given'[cur'[r]]
      OBVIOUS
    <3>1. got[r] \in given[cur[r]] /\ at[r] \notin {"next", "register", "wait", "done"}
      BY <2>1 DEF AnswersInv
    <3>2. cur[r] \in Requests
      BY <3>1, Held
    <3> QED BY <2>1, <2>3, <3>1, <3>2
  <2>8. AnswersInv'
    BY <2>1, <2>4, <2>5, <2>6, <2>7 DEF AnswersInv
  <2>9. DecisionWasGiven'
    BY <2>1, <2>3 DEF DecisionWasGiven
  <2> QED BY <2>8, <2>9
<1>3. ASSUME NEW r \in Runs,
             Chatter(r) \/ Cancel(r) \/ \E how \in Ends : TurnEnds(r, how)
      PROVE  AnswersInv' /\ DecisionWasGiven'
  <2>1. UNCHANGED <<lane, hand, target, channel, got, given, cur, at, engine>>
    BY <1>3 DEF Chatter, Cancel, TurnEnds, processVars, runVars, routerVars, userVars,
                laneVars
  <2> QED BY <2>1, AnswersElsewhere
<1>4. ASSUME NEW r \in Runs, TakeRequest(r) PROVE AnswersInv' /\ DecisionWasGiven'
  <2>1. UNCHANGED <<lane, hand, target, channel, got, given, engine>>
    BY <1>4 DEF TakeRequest, routerVars, laneVars
  <2>2. at[r] = "next" /\ got[r] = NoAction
    BY <1>4 DEF TakeRequest, NextEvent, AnswersInv
  <2>3. \A o \in Runs \ {r} : at'[o] = at[o] /\ cur'[o] = cur[o]
    BY <1>4 DEF TakeRequest, TypeOK
  <2>4. at'[r] # "decide"
    BY <1>4 DEF TakeRequest, TypeOK
  <2> QED BY <2>1, <2>2, <2>3, <2>4, AnswersElsewhere
<1>5. ASSUME NEW r \in Runs, TakeDelta(r) \/ EmitFails(r) \/ TakeEnd(r) \/ ChannelClosed(r)
      PROVE  AnswersInv' /\ DecisionWasGiven'
  <2>1. UNCHANGED <<lane, hand, target, channel, got, given, cur, engine>>
    BY <1>5 DEF TakeDelta, EmitFails, TakeEnd, ChannelClosed, processVars, runVars,
                routerVars, userVars, laneVars
  <2>2. \A o \in Runs : at'[o] \in {"next", "register", "wait", "done"} =>
          at[o] \in {"next", "register", "wait", "done"}
    BY <1>5 DEF TakeDelta, EmitFails, TakeEnd, ChannelClosed, Returns, NextEvent,
                TypeOK, runVars
  <2>3. \A o \in Runs : at'[o] = "decide" => at[o] = "decide"
    BY <1>5 DEF TakeDelta, EmitFails, TakeEnd, ChannelClosed, Returns, NextEvent,
                TypeOK, runVars
  <2> QED BY <2>1, <2>2, <2>3, AnswersElsewhere
<1>6. ASSUME NEW r \in Runs, Register(r) \/ GivesUp(r)
      PROVE  AnswersInv' /\ DecisionWasGiven'
  <2>1. UNCHANGED <<lane, hand, target, channel, got, given, cur, engine>>
    BY <1>6 DEF Register, GivesUp, processVars, routerVars, userVars, laneVars
  <2>2. \A o \in Runs : at'[o] \in {"next", "register", "wait", "done"} =>
          at[o] \in {"next", "register", "wait", "done"}
    BY <1>6 DEF Register, GivesUp, TypeOK
  <2>3. \A o \in Runs : at'[o] = "decide" => at[o] = "decide"
    BY <1>6 DEF Register, GivesUp, TypeOK
  <2> QED BY <2>1, <2>2, <2>3, AnswersElsewhere
<1>7. ASSUME NEW r \in Runs, Decided(r) PROVE AnswersInv' /\ DecisionWasGiven'
  <2>1. cur[r] \in Requests
    BY <1>7, Held DEF Decided
  <2>2. /\ UNCHANGED <<lane, hand, target, given, cur, engine>>
        /\ got' = [got EXCEPT ![r] = channel[cur[r]]]
        /\ channel' = [channel EXCEPT ![cur[r]] = NoAction]
        /\ at' = [at EXCEPT ![r] = "leave"]
        /\ channel[cur[r]] # NoAction
    BY <1>7 DEF Decided, processVars, userVars, laneVars
  <2>3. DecisionWasGiven'
    BY <2>2 DEF DecisionWasGiven
  <2> QED BY <2>1, <2>2, <2>3 DEF AnswersInv, TypeOK
<1>8. ASSUME NEW r \in Runs, Leave(r) PROVE AnswersInv' /\ DecisionWasGiven'
  <2>1. /\ UNCHANGED <<lane, hand, target, channel, got, given, cur, engine>>
        /\ at' = [at EXCEPT ![r] = IF got[r] = NoAction THEN "next" ELSE "decide"]
    BY <1>8 DEF Leave, processVars, userVars, laneVars
  <2>2. DecisionWasGiven'
    BY <2>1 DEF DecisionWasGiven
  <2> QED BY <2>1, <2>2 DEF AnswersInv, TypeOK
<1>9. ASSUME NEW r \in Runs, WriteDecision(r) PROVE AnswersInv' /\ DecisionWasGiven'
  <2>1. /\ UNCHANGED <<lane, hand, target, channel, got, given, cur>>
        /\ at[r] = "decide" /\ at' = [at EXCEPT ![r] = "clear"]
        /\ Answered(r) = cur[r]
    BY <1>9 DEF WriteDecision, routerVars, userVars, laneVars, Answered
  <2>2. cur[r] \in Requests /\ RunOf[cur[r]] = r /\ got[r] \in given[cur[r]]
    BY <2>1, Held DEF AnswersInv
  <2>3. \A q \in Requests :
          \/ engine'[q] = engine[q]
          \/ q = cur[r] /\ engine'[q] = IF got[r] \in Consents(r) THEN "accepted" ELSE "denied"
    BY <1>9, <2>1 DEF WriteDecision, TypeOK
  <2>4. DecisionWasGiven'
    <3> SUFFICES ASSUME NEW q \in Requests
                 PROVE  /\ engine'[q] = "accepted" => given[q] \cap Consents(RunOf[q]) # {}
                        /\ engine'[q] = "denied" => given[q] \ Consents(RunOf[q]) # {}
      BY <2>1 DEF DecisionWasGiven, Consents
    <3>1. CASE engine'[q] = engine[q]
      BY <3>1 DEF DecisionWasGiven
    <3>2. CASE q = cur[r] /\ engine'[q] = IF got[r] \in Consents(r) THEN "accepted" ELSE "denied"
      BY <2>2, <3>2
    <3> QED BY <2>3, <3>1, <3>2
  <2> QED BY <2>1, <2>4 DEF AnswersInv, TypeOK
<1>10. ASSUME NEW r \in Runs, ClearSlot(r) PROVE AnswersInv' /\ DecisionWasGiven'
  <2>1. /\ UNCHANGED <<lane, hand, target, channel, given, cur, engine>>
        /\ got' = [got EXCEPT ![r] = NoAction]
        /\ at'[r] # "decide" /\ \A o \in Runs \ {r} : at'[o] = at[o]
    BY <1>10 DEF ClearSlot, Returns, routerVars, userVars, laneVars, TypeOK
  <2>2. DecisionWasGiven'
    BY <2>1 DEF DecisionWasGiven
  <2> QED BY <2>1, <2>2 DEF AnswersInv, TypeOK
<1>11. CASE Resolve
  <2>1. /\ UNCHANGED <<channel, got, given, cur, at, engine>>
        /\ lane # <<>> /\ lane' = Tail(lane)
        /\ hand' = NoAnswer \/ (hand' = Head(lane) /\ pending[Head(lane).id] # None)
        /\ target' = pending[Head(lane).id]
    BY <1>11 DEF Resolve, processVars, runVars, routerVars, userVars
  <2>2. /\ lane \in Seq(Answer) /\ Head(lane) \in Answer
        /\ Head(lane) = lane[1] /\ 1 \in 1..Len(lane)
        /\ \A k \in 1..Len(Tail(lane)) : k + 1 \in 1..Len(lane) /\ Tail(lane)[k] = lane[k + 1]
    BY <2>1, TailOf DEF TypeOK
  <2>3. \A k \in 1..Len(lane') : \A q \in Requests :
          IdOf[q] = lane'[k].id => lane'[k].action \in given[q]
    BY <2>1, <2>2 DEF AnswersInv
  <2>4. ASSUME hand' # NoAnswer PROVE hand'.action \in given[target']
    <3>1. hand' = Head(lane) /\ pending[Head(lane).id] # None
      BY <2>1, <2>4
    <3>2. /\ Head(lane).id \in Ids /\ target' \in Requests
      BY <2>1, <2>2, <3>1 DEF Answer, TypeOK
    <3>3. IdOf[target'] = Head(lane).id
      BY <2>1, <3>1, <3>2 DEF OwnersInv
    <3> QED BY <2>2, <3>1, <3>2, <3>3 DEF AnswersInv
  <2>5. DecisionWasGiven'
    BY <2>1 DEF DecisionWasGiven
  <2> QED BY <2>1, <2>3, <2>4, <2>5 DEF AnswersInv
<1>12. CASE ResolveSends
  <2>1. /\ UNCHANGED <<lane, got, given, cur, at, engine>>
        /\ channel' = [channel EXCEPT ![target] = hand.action]
        /\ hand # NoAnswer /\ hand' = NoAnswer
    BY <1>12 DEF ResolveSends, processVars, runVars, userVars
  <2>2. \A q \in Requests : channel'[q] # NoAction => channel'[q] \in given[q]
    BY <2>1 DEF AnswersInv, TypeOK
  <2>3. DecisionWasGiven'
    BY <2>1 DEF DecisionWasGiven
  <2> QED BY <2>1, <2>2, <2>3 DEF AnswersInv
<1>13. CASE UNCHANGED vars
  BY <1>13, AnswersElsewhere
     DEF vars, processVars, runVars, routerVars, userVars, laneVars
<1> QED BY <1>1, <1>2, <1>3, <1>4, <1>5, <1>6, <1>7, <1>8, <1>9, <1>10, <1>11, <1>12, <1>13
        DEF Next, Consume, Lane

(* The inductive invariant: who waits, what the map says and where an       *)
(* answer is on its way to, for runtimes that answer by id (claude and      *)
(* opencode; codex answers whatever request it holds).                      *)
THEOREM RouterInvariant == ASSUME UniqueIds, ~OneSlot PROVE Spec => []RouterInv
<1>1. Init => TypeOK /\ RouterInv
  BY TypeInit, OwnersInit, AnswersInit DEF RouterInv
<1>2. TypeOK /\ RouterInv /\ [Next]_vars => TypeOK' /\ RouterInv'
  BY TypeNext, OwnersNext, AnswersNext DEF RouterInv
<1> QED BY <1>1, <1>2, PTL DEF Spec

(* A claude process goes on with a request only if the user answered it     *)
(* with something else than "deny", an opencode process only if the user    *)
(* approved it, and each is refused only by an answer of the other kind,    *)
(* whatever the order of answers, repeats and cancellations.                *)
THEOREM DecisionsAreTheUsers == ASSUME UniqueIds, ~OneSlot PROVE Spec => []DecisionWasGiven
<1>1. RouterInv => DecisionWasGiven
  BY DEF RouterInv
<1> QED BY <1>1, RouterInvariant, PTL

-----------------------------------------------------------------------------
(* EndsInv, run by run.                                                     *)
Queued(r) == {queue[r][k] : k \in 1..Len(queue[r])}

EndOf(r) ==
  /\ \A e \in Queued(r) : e \in Ends => e = turn[r]
  /\ turn[r] # "running" /\ at[r] # "done" => turn[r] \in Queued(r)
  /\ result[r] = "ok" => turn[r] = "completed"
  /\ at[r] = "done" => result[r] # "none"

LEMMA EndsByRun == EndsInv <=> \A r \in Runs \ Lossy : EndOf(r)
BY DEF EndsInv, EndOf, Queued

LEMMA EndsInit == Init => EndsInv
<1> SUFFICES ASSUME Init, NEW r \in Runs \ Lossy PROVE EndOf(r)
  BY EndsByRun
<1>1. Queued(r) = {}
  BY EmptySeq DEF Init, Queued
<1> QED BY <1>1 DEF Init, EndOf

(* What a queue holds after a send and after its head is taken.             *)
LEMMA QueuedSent ==
  ASSUME TypeOK, NEW r \in Runs, NEW e \in Event, Send(r, e)
  PROVE  /\ r \notin Lossy => Queued(r)' = Queued(r) \cup {e}
         /\ \A o \in Runs \ {r} : Queued(o)' = Queued(o)
<1>1. ASSUME r \notin Lossy PROVE Queued(r)' = Queued(r) \cup {e}
  <2>1. queue[r] \in Seq(Event) /\ queue'[r] = Append(queue[r], e)
    BY <1>1, Sent DEF TypeOK
  <2>2. /\ Len(queue'[r]) = Len(queue[r]) + 1 /\ Len(queue[r]) \in Nat
        /\ \A k \in 1..Len(queue[r]) : queue'[r][k] = queue[r][k]
        /\ queue'[r][Len(queue[r]) + 1] = e
    BY <2>1, AppendTo
  <2>3. Queued(r)' \subseteq Queued(r) \cup {e}
    <3> SUFFICES ASSUME NEW k \in 1..Len(queue'[r]) PROVE queue'[r][k] \in Queued(r) \cup {e}
      BY DEF Queued
    <3>1. k \in 1..Len(queue[r]) \/ k = Len(queue[r]) + 1
      BY <2>2
    <3> QED BY <2>2, <3>1 DEF Queued
  <2>4. Queued(r) \subseteq Queued(r)'
    <3> SUFFICES ASSUME NEW k \in 1..Len(queue[r]) PROVE queue[r][k] \in Queued(r)'
      BY DEF Queued
    <3>1. k \in 1..Len(queue'[r]) /\ queue'[r][k] = queue[r][k]
      BY <2>2
    <3> QED BY <3>1 DEF Queued
  <2>5. e \in Queued(r)'
    <3>1. Len(queue[r]) + 1 \in 1..Len(queue'[r])
      BY <2>2
    <3> QED BY <2>2, <3>1 DEF Queued
  <2> QED BY <2>3, <2>4, <2>5
<1>2. \A o \in Runs \ {r} : Queued(o)' = Queued(o)
  BY Sent DEF Queued
<1> QED BY <1>1, <1>2

LEMMA QueuedTaken ==
  ASSUME TypeOK, NEW r \in Runs, queue[r] # <<>>,
         queue' = [queue EXCEPT ![r] = Tail(@)]
  PROVE  /\ Head(queue[r]) \in Queued(r)
         /\ Queued(r)' \subseteq Queued(r)
         /\ Queued(r) \subseteq Queued(r)' \cup {Head(queue[r])}
         /\ \A o \in Runs \ {r} : Queued(o)' = Queued(o)
<1>1. queue[r] \in Seq(Event) /\ queue'[r] = Tail(queue[r])
  BY Taken DEF TypeOK
<1>0. Len(queue[r]) \in Nat
  BY <1>1
<1>2. /\ Head(queue[r]) = queue[r][1] /\ 1 \in 1..Len(queue[r])
      /\ Len(queue'[r]) = Len(queue[r]) - 1
      /\ \A k \in 1..Len(queue'[r]) :
           k + 1 \in 1..Len(queue[r]) /\ queue'[r][k] = queue[r][k + 1]
  <2> DEFINE q == queue[r]
  <2>1. /\ Head(q) = q[1] /\ 1 \in 1..Len(q) /\ Len(Tail(q)) = Len(q) - 1
        /\ \A k \in 1..Len(Tail(q)) : k + 1 \in 1..Len(q) /\ Tail(q)[k] = q[k + 1]
    BY <1>1, TailOf, Zenon
  <2>2. queue'[r] = Tail(q)
    BY <1>1
  <2> QED BY <2>1, <2>2
<1>3. Head(queue[r]) \in Queued(r) /\ Queued(r)' \subseteq Queued(r)
  BY <1>2 DEF Queued
<1>4. Queued(r) \subseteq Queued(r)' \cup {Head(queue[r])}
  <2> SUFFICES ASSUME NEW k \in 1..Len(queue[r]), k # 1
               PROVE  queue[r][k] \in Queued(r)'
    BY <1>2 DEF Queued
  <2>1. k - 1 \in 1..Len(queue'[r]) /\ queue'[r][k - 1] = queue[r][k]
    <3>1. k - 1 \in 1..Len(queue'[r]) /\ (k - 1) + 1 = k
      BY <1>0, <1>2
    <3> QED BY <1>2, <3>1
  <2> QED BY <2>1 DEF Queued
<1>5. \A o \in Runs \ {r} : Queued(o)' = Queued(o)
  BY Taken DEF Queued
<1> QED BY <1>3, <1>4, <1>5

LEMMA EndsNext == ASSUME TypeOK, EndsInv, [Next]_vars PROVE EndsInv'
<1> USE InteractionAssumption
<1> SUFFICES ASSUME NEW o \in Runs \ Lossy PROVE EndOf(o)'
  BY EndsByRun DEF EndsInv, EndOf, Queued
<1>0. EndOf(o)
  BY EndsByRun
<1>1. ASSUME NEW q \in Requests, Ask(q) PROVE EndOf(o)'
  <2>1. RunOf[q] \in Runs /\ q \in Event /\ Send(RunOf[q], q) /\ q \notin Ends
    BY <1>1 DEF Ask, Event, Ends
  <2>2. Queued(o)' = Queued(o) \/ Queued(o)' = Queued(o) \cup {q}
    BY <2>1, QueuedSent
  <2>3. UNCHANGED <<turn, at, result>>
    BY <1>1 DEF Ask, runVars
  <2> QED BY <1>0, <2>1, <2>2, <2>3 DEF EndOf
<1>2. ASSUME NEW r \in Runs, Chatter(r) PROVE EndOf(o)'
  <2>1. Delta \in Event /\ Delta \notin Ends /\ Send(r, Delta)
    BY <1>2 DEF Chatter, Event, Ends
  <2>2. Queued(o)' = Queued(o) \/ Queued(o)' = Queued(o) \cup {Delta}
    BY <2>1, QueuedSent
  <2>3. UNCHANGED <<turn, at, result>>
    BY <1>2 DEF Chatter, runVars
  <2> QED BY <1>0, <2>1, <2>2, <2>3 DEF EndOf
<1>3. ASSUME NEW r \in Runs, NEW how \in Ends, TurnEnds(r, how) PROVE EndOf(o)'
  <2>1. how \in Event /\ Send(r, how) /\ turn[r] = "running" /\ "running" \notin Ends
    BY <1>3 DEF TurnEnds, Event, Ends
  <2>2. UNCHANGED <<at, result>> /\ turn' = [turn EXCEPT ![r] = how]
    BY <1>3 DEF TurnEnds, runVars
  <2>3. CASE o = r
    <3>1. Queued(o)' = Queued(o) \cup {how} /\ turn'[o] = how
      BY <2>1, <2>2, <2>3, QueuedSent DEF TypeOK
    <3> QED BY <1>0, <2>1, <2>2, <2>3, <3>1 DEF EndOf
  <2>4. CASE o # r
    <3>1. Queued(o)' = Queued(o) /\ turn'[o] = turn[o]
      BY <2>1, <2>2, <2>4, QueuedSent DEF TypeOK
    <3> QED BY <1>0, <2>2, <3>1 DEF EndOf
  <2> QED BY <2>3, <2>4
<1>4. ASSUME NEW r \in Runs, TakeDelta(r) \/ TakeRequest(r) \/ EmitFails(r) \/ TakeEnd(r)
      PROVE  EndOf(o)'
  <2>1. /\ queue[r] # <<>> /\ at[r] = "next" /\ turn' = turn
        /\ queue' = [queue EXCEPT ![r] = Tail(@)]
    BY <1>4 DEF TakeDelta, TakeRequest, EmitFails, TakeEnd, NextEvent
  <2>2. CASE o # r
    <3>2. Queued(o)' = Queued(o)
      BY <2>1, <2>2, QueuedTaken
    <3>3. at'[o] = at[o] /\ result'[o] = result[o]
      BY <1>4, <2>2 DEF TakeDelta, TakeRequest, EmitFails, TakeEnd, Returns, runVars, TypeOK
    <3>1. Queued(o)' = Queued(o) /\ at'[o] = at[o] /\ result'[o] = result[o]
      BY <3>2, <3>3
    <3> QED BY <1>0, <2>1, <3>1 DEF EndOf
  <2>3. CASE o = r
    <3>1. /\ Head(queue[o]) \in Queued(o) /\ Queued(o)' \subseteq Queued(o)
          /\ Queued(o) \subseteq Queued(o)' \cup {Head(queue[o])}
      BY <2>1, <2>3, QueuedTaken
    <3>2. CASE TakeDelta(r) \/ TakeRequest(r)
      <4>1. Head(queue[o]) \notin Ends
        BY <2>3, <3>2 DEF TakeDelta, TakeRequest, Ends
      <4>2. at'[o] # "done" /\ result' = result
        BY <2>1, <2>3, <3>2 DEF TakeDelta, TakeRequest, runVars, TypeOK
      <4>3. turn[o] # "running" => turn[o] \in Ends
        BY DEF TypeOK
      <4> QED BY <1>0, <2>1, <2>3, <3>1, <4>1, <4>2, <4>3 DEF EndOf
    <3>3. CASE EmitFails(r)
      <4>1. at'[o] = "done" /\ result'[o] = "error"
        BY <2>3, <3>3 DEF EmitFails, Returns, TypeOK
      <4> QED BY <1>0, <2>1, <3>1, <4>1 DEF EndOf
    <3>4. CASE TakeEnd(r)
      <4>1. /\ at'[o] = "done" /\ result'[o] # "none" /\ Head(queue[o]) \in Ends
            /\ result'[o] = "ok" => Head(queue[o]) = "completed"
        BY <2>3, <3>4 DEF TakeEnd, Returns, TypeOK
      <4>2. Head(queue[o]) = turn[o]
        BY <1>0, <3>1, <4>1 DEF EndOf
      <4> QED BY <1>0, <2>1, <3>1, <4>1, <4>2 DEF EndOf
    <3> QED BY <1>4, <3>2, <3>3, <3>4
  <2> QED BY <2>2, <2>3
<1>5. ASSUME NEW r \in Runs, ChannelClosed(r) PROVE EndOf(o)'
  <2>1. /\ queue[r] = <<>> /\ turn[r] # "running" /\ at[r] = "next"
        /\ UNCHANGED <<queue, turn>>
        /\ at' = [at EXCEPT ![r] = "done"] /\ result' = [result EXCEPT ![r] = "ok"]
    BY <1>5 DEF ChannelClosed, Returns, processVars
  <2>2. Queued(r) = {}
    BY <2>1, EmptySeq DEF Queued
  <2>3. CASE o = r
    <3>1. turn[r] \in Queued(r)
      BY <1>0, <2>1, <2>3 DEF EndOf
    <3> QED BY <2>2, <3>1
  <2>4. CASE o # r
    <3>1. Queued(o)' = Queued(o) /\ at'[o] = at[o] /\ result'[o] = result[o]
      BY <2>1, <2>4 DEF Queued, TypeOK
    <3> QED BY <1>0, <2>1, <3>1 DEF EndOf
  <2> QED BY <2>3, <2>4
<1>6. ASSUME NEW r \in Runs,
             Register(r) \/ Decided(r) \/ GivesUp(r) \/ Leave(r) \/ WriteDecision(r)
      PROVE  EndOf(o)'
  <2>1. UNCHANGED <<queue, turn, result>>
    BY <1>6 DEF Register, Decided, GivesUp, Leave, WriteDecision, processVars
  <2>2. at[o] # "done" => at'[o] # "done"
    BY <1>6 DEF Register, Decided, GivesUp, Leave, WriteDecision, TypeOK
  <2>3. at'[o] = "done" => at[o] = "done"
    BY <2>2
  <2>4. at[o] = "done" => at'[o] = "done"
    BY <1>6 DEF Register, Decided, GivesUp, Leave, WriteDecision, TypeOK
  <2>5. Queued(o)' = Queued(o)
    BY <2>1 DEF Queued
  <2> QED BY <1>0, <2>1, <2>3, <2>4, <2>5 DEF EndOf
<1>7. ASSUME NEW r \in Runs, ClearSlot(r) PROVE EndOf(o)'
  <2>1. UNCHANGED <<queue, turn>> /\ at[r] = "clear"
    BY <1>7 DEF ClearSlot
  <2>2. Queued(o)' = Queued(o)
    BY <2>1 DEF Queued
  <2>3. \/ at'[o] = at[o] /\ result'[o] = result[o]
        \/ at[o] # "done" /\ at'[o] = "next" /\ result'[o] = result[o]
        \/ at[o] # "done" /\ at'[o] = "done" /\ result'[o] = "error"
    BY <1>7, <2>1 DEF ClearSlot, Returns, TypeOK
  <2> QED BY <1>0, <2>1, <2>2, <2>3 DEF EndOf
<1>8. CASE UNCHANGED <<queue, turn, at, result>>
  BY <1>0, <1>8 DEF EndOf, Queued
<1>9. ASSUME NEW q \in Requests, NEW a \in Actions, UserAnswers(q, a)
      PROVE  UNCHANGED <<queue, turn, at, result>>
  BY <1>9 DEF UserAnswers, processVars, runVars
<1>10. ASSUME NEW r \in Runs, Cancel(r) PROVE UNCHANGED <<queue, turn, at, result>>
  BY <1>10 DEF Cancel, processVars, runVars
<1>11. CASE Lane
  BY <1>8, <1>11 DEF Lane, Resolve, ResolveSends, processVars, runVars
<1>12. CASE UNCHANGED vars
  BY <1>8, <1>12 DEF vars, processVars, runVars
<1> QED BY <1>1, <1>2, <1>3, <1>4, <1>5, <1>6, <1>7, <1>8, <1>9, <1>10, <1>11, <1>12
        DEF Next, Consume

(* A run whose sends to the event channel block instead of dropping, and    *)
(* whose process failed, never returns without an error.                    *)
THEOREM FailuresAreReported == Spec => []FailedTurnFails
<1>1. TypeOK /\ EndsInv /\ [Next]_vars => EndsInv'
  BY EndsNext
<1>2. TypeOK /\ EndsInv => FailedTurnFails
  <2> SUFFICES ASSUME TypeOK, EndsInv, NEW r \in Runs \ Lossy, at[r] = "done", turn[r] = "failed"
               PROVE  result[r] = "error"
    BY DEF FailedTurnFails
  <2>1. result[r] # "ok" /\ result[r] # "none"
    BY EndsByRun DEF EndOf
  <2> QED BY <2>1 DEF TypeOK
<1> QED BY <1>1, <1>2, TypeInit, TypeNext, EndsInit, PTL DEF Spec
=============================================================================
