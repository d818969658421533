---------------------------- MODULE RunLaneProofs ----------------------------
(***************************************************************************)
(* Proofs about RunLane: type correctness, the inductive invariant LaneInv *)
(* and the safety properties of the lane, for any set of commands and any  *)
(* number of redeliveries, crashes and shutdowns.                          *)
(***************************************************************************)
EXTENDS RunLane, TLAPS

(* Every element of a sequence of commands is a command.                    *)
LEMMA HeadTail ==
  ASSUME NEW q \in Seq(Commands), q # <<>>
  PROVE  Head(q) \in Commands /\ Tail(q) \in Seq(Commands)
OBVIOUS

LEMMA Appended ==
  ASSUME NEW q \in Seq(Commands), NEW c \in Commands
  PROVE  Append(q, c) \in Seq(Commands) /\ Len(Append(q, c)) = Len(q) + 1
OBVIOUS

LEMMA Element ==
  ASSUME NEW q \in Seq(Commands), NEW i \in 1..Len(q)
  PROVE  q[i] \in Commands
OBVIOUS

(* The functions a fresh table, process or history starts with.             *)
LEMMA Fresh ==
  /\ [c \in Commands |-> "none"] \in [Commands -> Status]
  /\ [c \in Commands |-> "none"] \in [Commands -> Task]
  /\ [c \in Commands |-> 0] \in [Commands -> Nat]
  /\ <<>> \in Seq(Commands)
<1>1. "none" \in Status /\ "none" \in Task /\ 0 \in Nat
  BY DEF Status, Task
<1>2. <<>> \in Seq(Commands)
  OBVIOUS
<1> QED BY <1>1, <1>2, Zenon

-----------------------------------------------------------------------------
LEMMA TypeInit == Init => TypeOK
<1>1. <<>> \in Seq(Commands) /\ Len(<<>>) = 0
  OBVIOUS
<1> SUFFICES ASSUME Init PROVE TypeOK
  OBVIOUS
<1>2. /\ status \in [Commands -> Status]
      /\ task \in [Commands -> Task]
      /\ starts \in [Commands -> Nat]
  BY Fresh, Zenon DEF Init
<1>3. /\ durable \in BOOLEAN /\ err \in BOOLEAN
      /\ ctxDone \in BOOLEAN /\ subscribed \in BOOLEAN /\ closed \in BOOLEAN
      /\ dbOpen \in BOOLEAN /\ connOpen \in BOOLEAN
  BY DEF Init
<1> QED BY <1>1, <1>2, <1>3, LaneAssumption DEF Init, TypeOK, Place

LEMMA TypeNext == TypeOK /\ [Next]_vars => TypeOK'
<1> SUFFICES ASSUME TypeOK, [Next]_vars PROVE TypeOK'
  OBVIOUS
<1> USE LaneAssumption, Fresh DEF TypeOK, Status, Task, Place, Terminal
<1>1. ASSUME NEW c \in Commands, Publish(c) PROVE TypeOK'
  BY <1>1, Appended DEF Publish, laneVars, stopVars, historyVars
<1>2. CASE Deliver
  <2>1. stream[cursor'] \in Commands /\ cursor' \in 0..Len(stream)
    BY <1>2, Element DEF Deliver
  <2>2. inbox' \in Seq(Commands)
    BY <1>2, <2>1, Appended DEF Deliver
  <2> QED BY <1>2, <2>1, <2>2 DEF Deliver, stopVars, historyVars
<1>3. CASE Redeliver
  <2>1. PICK i \in 1..cursor : inbox' = Append(inbox, stream[i])
    BY <1>3 DEF Redeliver
  <2>2. inbox' \in Seq(Commands)
    BY <2>1, Element, Appended
  <2> QED BY <1>3, <2>2 DEF Redeliver, stopVars, historyVars
<1>4. CASE TakeMessage
  BY <1>4, HeadTail DEF TakeMessage, brokerVars, stopVars, historyVars
<1>5. CASE CheckTerminal \/ TrackReceived \/ MarkProcessing \/ MarkDone
  <2>1. CASE CheckTerminal
    BY <2>1 DEF CheckTerminal, Go, brokerVars, stopVars, historyVars
  <2>2. CASE TrackReceived
    BY <2>2 DEF TrackReceived, Go, brokerVars, stopVars, historyVars
  <2>3. CASE MarkProcessing
    BY <2>3 DEF MarkProcessing, Updated, Go, brokerVars, stopVars, historyVars
  <2>4. CASE MarkDone
    BY <2>4 DEF MarkDone, Updated, Go, brokerVars, stopVars, historyVars
  <2> QED BY <1>5, <2>1, <2>2, <2>3, <2>4
<1>6. CASE Submit \/ SubmitRefused \/ SubmitReturns \/ SubmitGivesUp
  <2>1. CASE Submit
    BY <2>1 DEF Submit, Go, brokerVars, stopVars, historyVars
  <2>2. CASE SubmitRefused
    BY <2>2 DEF SubmitRefused, Go, brokerVars, stopVars, historyVars
  <2>3. CASE SubmitReturns
    BY <2>3 DEF SubmitReturns, Go, brokerVars, stopVars, historyVars
  <2>4. CASE SubmitGivesUp
    BY <2>4 DEF SubmitGivesUp, Go, brokerVars, stopVars, historyVars
  <2> QED BY <1>6, <2>1, <2>2, <2>3, <2>4
<1>7. CASE Ack
  BY <1>7 DEF Ack, stopVars, historyVars
<1>8. ASSUME NEW c \in Commands, Run(c) \/ RunEnds(c) PROVE TypeOK'
  <2>1. CASE RunTaken(c)
    BY <2>1 DEF RunTaken, brokerVars, laneVars, stopVars, historyVars
  <2>2. CASE RunStarts(c)
    BY <2>2 DEF RunStarts, brokerVars, laneVars, stopVars
  <2>3. CASE RunCancelled(c)
    BY <2>3 DEF RunCancelled, brokerVars, laneVars, stopVars, historyVars
  <2>4. CASE RunEnds(c)
    BY <2>4 DEF RunEnds, brokerVars, laneVars, stopVars
  <2> QED BY <1>8, <2>1, <2>2, <2>3, <2>4 DEF Run
<1>9. CASE CancelContext \/ Unsubscribe \/ CloseCoordinator \/ CloseTracker \/ CloseConnection
  <2>1. /\ ctxDone' \in BOOLEAN /\ subscribed' \in BOOLEAN /\ closed' \in BOOLEAN
        /\ dbOpen' \in BOOLEAN /\ connOpen' \in BOOLEAN /\ durable' \in BOOLEAN
    BY <1>9 DEF CancelContext, Unsubscribe, CloseCoordinator, CloseTracker,
                CloseConnection, brokerVars
  <2>2. inbox' \in Seq(Commands)
    <3>1. CASE Unsubscribe
      BY <3>1 DEF Unsubscribe
    <3>2. CASE ~Unsubscribe
      BY <1>9, <3>2 DEF CancelContext, CloseCoordinator, CloseTracker,
                        CloseConnection, laneVars
    <3> QED BY <3>1, <3>2
  <2>3. UNCHANGED <<stream, acked, cursor, redelivered, status, proc, hand, at, err,
                    task, restarts, historyVars>>
    BY <1>9 DEF CancelContext, Unsubscribe, CloseCoordinator, CloseTracker,
                CloseConnection, brokerVars, laneVars
  <2> QED BY <2>1, <2>2, <2>3 DEF historyVars
<1>10. CASE Exit \/ Crash
  <2>1. Gone /\ restarts' \in 0..MaxRestarts
    BY <1>10 DEF Exit, Stopping, Crash, Gone
  <2>2. task' \in [Commands -> Task] /\ inbox' \in Seq(Commands)
    BY <2>1, Fresh DEF Gone
  <2>3. err' \in BOOLEAN /\ hand' = NoCommand /\ at' = "idle" /\ proc' = "down"
    BY <2>1 DEF Gone
  <2>4. UNCHANGED <<brokerVars, status, stopVars, historyVars>>
    BY <2>1 DEF Gone
  <2> QED BY <2>1, <2>2, <2>3, <2>4 DEF brokerVars, stopVars, historyVars
<1>11. CASE Restart
  <2>1. /\ ctxDone' \in BOOLEAN /\ subscribed' \in BOOLEAN /\ closed' \in BOOLEAN
        /\ dbOpen' \in BOOLEAN /\ connOpen' \in BOOLEAN /\ durable' \in BOOLEAN
    BY <1>11 DEF Restart
  <2>2. acked' \subseteq Commands /\ proc' = "up" /\ cursor' = 0
    BY <1>11 DEF Restart
  <2>3. UNCHANGED <<stream, redelivered, status, laneVars, task, restarts, historyVars>>
    BY <1>11 DEF Restart
  <2> QED BY <2>1, <2>2, <2>3 DEF laneVars, historyVars
<1>12. CASE UNCHANGED vars
  BY <1>12 DEF vars, brokerVars, laneVars, stopVars, historyVars
<1> QED BY <1>1, <1>2, <1>3, <1>4, <1>5, <1>6, <1>7, <1>8, <1>9, <1>10, <1>11, <1>12
        DEF Next, Callback, Shutdown

(* The types of the lane, for any commands and any bounds.                   *)
THEOREM TypeCorrect == Spec => []TypeOK
BY TypeInit, TypeNext, PTL DEF Spec

-----------------------------------------------------------------------------
(* The inductive invariant.                                                 *)
LEMMA LaneInit == Init => LaneInv
<1> SUFFICES ASSUME Init PROVE LaneInv
  OBVIOUS
<1> USE LaneAssumption DEF Init
<1>1. ProcessInv
  BY DEF ProcessInv
<1>2. HandInv
  BY DEF HandInv
<1>3. TaskInv
  BY DEF TaskInv
<1>4. RerunOnlyAfterRestart /\ CompletedMeansSucceeded /\ AckedIsRecorded
  BY DEF RerunOnlyAfterRestart, CompletedMeansSucceeded, AckedIsRecorded
<1> QED BY <1>1, <1>2, <1>3, <1>4 DEF LaneInv

(* What an action that only the broker or the shutdown takes leaves alone.  *)
Quiet == UNCHANGED <<status, hand, at, err, task, restarts, starts, succeeded>>

(* Such a step keeps the invariant if it acknowledges nothing and opens     *)
(* nothing.                                                                 *)
LEMMA QuietKeeps ==
  ASSUME TypeOK, LaneInv, Quiet, proc' = proc, acked' \subseteq acked,
         closed => closed', dbOpen' => dbOpen, ~dbOpen' => closed',
         proc = "down" => inbox' = <<>>,
         ~MayStop => UNCHANGED stopVars /\ durable' = durable
  PROVE  LaneInv'
<1> USE DEF LaneInv, Quiet
<1>1. ProcessInv'
  BY DEF ProcessInv, stopVars
<1>2. HandInv'
  BY DEF HandInv, Terminal
<1>3. TaskInv'
  BY DEF TaskInv, Terminal, TypeOK
<1>4. RerunOnlyAfterRestart' /\ CompletedMeansSucceeded'
  BY DEF RerunOnlyAfterRestart, CompletedMeansSucceeded
<1>5. (~MayStop => AckedIsRecorded)'
  BY DEF AckedIsRecorded
<1> QED BY <1>1, <1>2, <1>3, <1>4, <1>5

LEMMA LaneNext == TypeOK /\ LaneInv /\ [Next]_vars => LaneInv'
<1> SUFFICES ASSUME TypeOK, LaneInv, [Next]_vars PROVE LaneInv'
  OBVIOUS
<1>t. TypeOK'
  BY TypeNext
<1>1. ASSUME NEW c \in Commands, Publish(c) PROVE LaneInv'
  BY <1>1, QuietKeeps DEF Publish, Quiet, laneVars, stopVars, historyVars, LaneInv, ProcessInv
<1>2. CASE Deliver \/ Redeliver
  BY <1>2, QuietKeeps DEF Deliver, Redeliver, Quiet, stopVars, historyVars, LaneInv, ProcessInv
<1>3. CASE CancelContext \/ Unsubscribe \/ CloseCoordinator \/ CloseTracker \/ CloseConnection
  <2> USE QuietKeeps DEF Stopping, Quiet, brokerVars, laneVars, stopVars, historyVars,
                         LaneInv, ProcessInv, TypeOK
  <2>1. CASE CancelContext
    BY <2>1 DEF CancelContext
  <2>2. CASE Unsubscribe
    BY <2>2 DEF Unsubscribe
  <2>3. CASE CloseCoordinator
    BY <2>3 DEF CloseCoordinator
  <2>4. CASE CloseTracker
    BY <2>4 DEF CloseTracker
  <2>5. CASE CloseConnection
    BY <2>5 DEF CloseConnection
  <2> QED BY <1>3, <2>1, <2>2, <2>3, <2>4, <2>5
<1>4. CASE UNCHANGED vars
  BY <1>4, QuietKeeps DEF vars, Quiet, brokerVars, laneVars, stopVars, historyVars, LaneInv, ProcessInv
<1>5. CASE TakeMessage
  <2> USE <1>5, <1>t DEF TakeMessage, Go, brokerVars, laneVars, stopVars, historyVars, LaneInv,
    TypeOK, Status, Terminal, Task, Place
  <2>1. ProcessInv'
    BY DEF ProcessInv
  <2>2. HandInv'
    BY DEF HandInv, ProcessInv, TaskInv
  <2>3. TaskInv'
    BY DEF TaskInv, HandInv, ProcessInv
  <2>4. RerunOnlyAfterRestart' /\ CompletedMeansSucceeded'
    BY DEF RerunOnlyAfterRestart, CompletedMeansSucceeded, HandInv, TaskInv
  <2>5. (~MayStop => AckedIsRecorded)'
    BY DEF AckedIsRecorded, HandInv, ProcessInv
  <2> QED BY <2>1, <2>2, <2>3, <2>4, <2>5
<1>6. CASE CheckTerminal
  <2> USE <1>6, <1>t DEF CheckTerminal, Go, brokerVars, laneVars, stopVars, historyVars, LaneInv,
    TypeOK, Status, Terminal, Task, Place
  <2>1. ProcessInv'
    BY DEF ProcessInv
  <2>2. HandInv'
    BY DEF HandInv, ProcessInv, TaskInv
  <2>3. TaskInv'
    BY DEF TaskInv, HandInv, ProcessInv
  <2>4. RerunOnlyAfterRestart' /\ CompletedMeansSucceeded'
    BY DEF RerunOnlyAfterRestart, CompletedMeansSucceeded, HandInv, TaskInv
  <2>5. (~MayStop => AckedIsRecorded)'
    BY DEF AckedIsRecorded, HandInv, ProcessInv
  <2> QED BY <2>1, <2>2, <2>3, <2>4, <2>5
<1>7. CASE TrackReceived
  <2> USE <1>7, <1>t DEF TrackReceived, Go, brokerVars, laneVars, stopVars, historyVars, LaneInv,
    TypeOK, Status, Terminal, Task, Place
  <2>1. ProcessInv'
    BY DEF ProcessInv
  <2>2. HandInv'
    BY DEF HandInv, ProcessInv, TaskInv
  <2>3. TaskInv'
    BY DEF TaskInv, HandInv, ProcessInv
  <2>4. RerunOnlyAfterRestart' /\ CompletedMeansSucceeded'
    BY DEF RerunOnlyAfterRestart, CompletedMeansSucceeded, HandInv, TaskInv
  <2>5. (~MayStop => AckedIsRecorded)'
    BY DEF AckedIsRecorded, HandInv, ProcessInv
  <2> QED BY <2>1, <2>2, <2>3, <2>4, <2>5
<1>8. CASE MarkProcessing
  <2> USE <1>8, <1>t DEF MarkProcessing, Go, brokerVars, laneVars, stopVars, historyVars, LaneInv,
    TypeOK, Status, Terminal, Task, Place, Updated
  <2>1. ProcessInv'
    BY DEF ProcessInv
  <2>2. HandInv'
    BY DEF HandInv, ProcessInv, TaskInv
  <2>3. TaskInv'
    BY DEF TaskInv, HandInv, ProcessInv
  <2>4. RerunOnlyAfterRestart' /\ CompletedMeansSucceeded'
    BY DEF RerunOnlyAfterRestart, CompletedMeansSucceeded, HandInv, TaskInv
  <2>5. (~MayStop => AckedIsRecorded)'
    BY DEF AckedIsRecorded, HandInv, ProcessInv
  <2> QED BY <2>1, <2>2, <2>3, <2>4, <2>5
<1>9. CASE Submit
  <2> USE <1>9, <1>t DEF Submit, Go, brokerVars, laneVars, stopVars, historyVars, LaneInv,
    TypeOK, Status, Terminal, Task, Place
  <2>1. ProcessInv'
    BY DEF ProcessInv
  <2>2. HandInv'
    BY DEF HandInv, ProcessInv, TaskInv
  <2>3. TaskInv'
    BY DEF TaskInv, HandInv, ProcessInv
  <2>4. RerunOnlyAfterRestart' /\ CompletedMeansSucceeded'
    BY DEF RerunOnlyAfterRestart, CompletedMeansSucceeded, HandInv, TaskInv
  <2>5. (~MayStop => AckedIsRecorded)'
    BY DEF AckedIsRecorded, HandInv, ProcessInv
  <2> QED BY <2>1, <2>2, <2>3, <2>4, <2>5
<1>10. CASE SubmitRefused
  <2> USE <1>10, <1>t DEF SubmitRefused, Go, brokerVars, laneVars, stopVars, historyVars, LaneInv,
    TypeOK, Status, Terminal, Task, Place
  <2>1. ProcessInv'
    BY DEF ProcessInv
  <2>2. HandInv'
    BY DEF HandInv, ProcessInv, TaskInv
  <2>3. TaskInv'
    BY DEF TaskInv, HandInv, ProcessInv
  <2>4. RerunOnlyAfterRestart' /\ CompletedMeansSucceeded'
    BY DEF RerunOnlyAfterRestart, CompletedMeansSucceeded, HandInv, TaskInv
  <2>5. (~MayStop => AckedIsRecorded)'
    BY DEF AckedIsRecorded, HandInv, ProcessInv
  <2> QED BY <2>1, <2>2, <2>3, <2>4, <2>5
<1>11. CASE SubmitReturns
  <2> USE <1>11, <1>t DEF SubmitReturns, Go, brokerVars, laneVars, stopVars, historyVars, LaneInv,
    TypeOK, Status, Terminal, Task, Place
  <2>1. ProcessInv'
    BY DEF ProcessInv
  <2>2. HandInv'
    BY DEF HandInv, ProcessInv, TaskInv
  <2>3. TaskInv'
    BY DEF TaskInv, HandInv, ProcessInv
  <2>4. RerunOnlyAfterRestart' /\ CompletedMeansSucceeded'
    BY DEF RerunOnlyAfterRestart, CompletedMeansSucceeded, HandInv, TaskInv
  <2>5. (~MayStop => AckedIsRecorded)'
    BY DEF AckedIsRecorded, HandInv, ProcessInv
  <2> QED BY <2>1, <2>2, <2>3, <2>4, <2>5
<1>12. CASE SubmitGivesUp
  <2> USE <1>12, <1>t DEF SubmitGivesUp, Go, brokerVars, laneVars, stopVars, historyVars, LaneInv,
    TypeOK, Status, Terminal, Task, Place
  <2>1. ProcessInv'
    BY DEF ProcessInv
  <2>2. HandInv'
    BY DEF HandInv, ProcessInv, TaskInv
  <2>3. TaskInv'
    BY DEF TaskInv, HandInv, ProcessInv
  <2>4. RerunOnlyAfterRestart' /\ CompletedMeansSucceeded'
    BY DEF RerunOnlyAfterRestart, CompletedMeansSucceeded, HandInv, TaskInv
  <2>5. (~MayStop => AckedIsRecorded)'
    BY DEF AckedIsRecorded, HandInv, ProcessInv
  <2> QED BY <2>1, <2>2, <2>3, <2>4, <2>5
<1>13. CASE MarkDone
  <2> USE <1>13, <1>t DEF MarkDone, Go, brokerVars, laneVars, stopVars, historyVars, LaneInv,
    TypeOK, Status, Terminal, Task, Place, Updated
  <2>1. ProcessInv'
    BY DEF ProcessInv
  <2>2. HandInv'
    BY DEF HandInv, ProcessInv, TaskInv
  <2>3. TaskInv'
    BY DEF TaskInv, HandInv, ProcessInv
  <2>4. RerunOnlyAfterRestart' /\ CompletedMeansSucceeded'
    BY DEF RerunOnlyAfterRestart, CompletedMeansSucceeded, HandInv, TaskInv
  <2>5. (~MayStop => AckedIsRecorded)'
    BY DEF AckedIsRecorded, HandInv, ProcessInv
  <2> QED BY <2>1, <2>2, <2>3, <2>4, <2>5
<1>14. CASE Ack
  <2> USE <1>14, <1>t DEF Ack, Go, brokerVars, laneVars, stopVars, historyVars, LaneInv,
    TypeOK, Status, Terminal, Task, Place
  <2>1. ProcessInv'
    BY DEF ProcessInv
  <2>2. HandInv'
    BY DEF HandInv, ProcessInv, TaskInv
  <2>3. TaskInv'
    BY DEF TaskInv, HandInv, ProcessInv
  <2>4. RerunOnlyAfterRestart' /\ CompletedMeansSucceeded'
    BY DEF RerunOnlyAfterRestart, CompletedMeansSucceeded, HandInv, TaskInv
  <2>5. (~MayStop => AckedIsRecorded)'
    BY DEF AckedIsRecorded, HandInv, ProcessInv
  <2> QED BY <2>1, <2>2, <2>3, <2>4, <2>5
<1>15. CASE Exit \/ Crash
  <2> USE <1>15, <1>t DEF Exit, Crash, Gone, Stopping, brokerVars, laneVars, stopVars, historyVars, LaneInv,
    TypeOK, Status, Terminal, Task, Place
  <2>1. ProcessInv'
    BY DEF ProcessInv
  <2>2. HandInv'
    BY DEF HandInv, ProcessInv, TaskInv
  <2>3. TaskInv'
    BY DEF TaskInv, RerunOnlyAfterRestart
  <2>4. RerunOnlyAfterRestart' /\ CompletedMeansSucceeded'
    BY DEF RerunOnlyAfterRestart, CompletedMeansSucceeded, HandInv, TaskInv
  <2>5. (~MayStop => AckedIsRecorded)'
    BY DEF AckedIsRecorded, HandInv, ProcessInv
  <2> QED BY <2>1, <2>2, <2>3, <2>4, <2>5
<1>16. CASE Restart
  <2> USE <1>16, <1>t DEF Restart, Go, brokerVars, laneVars, stopVars, historyVars, LaneInv,
    TypeOK, Status, Terminal, Task, Place
  <2>1. ProcessInv'
    BY DEF ProcessInv
  <2>2. HandInv'
    BY DEF HandInv, ProcessInv, TaskInv
  <2>3. TaskInv'
    BY DEF TaskInv, HandInv, ProcessInv
  <2>4. RerunOnlyAfterRestart' /\ CompletedMeansSucceeded'
    BY DEF RerunOnlyAfterRestart, CompletedMeansSucceeded, HandInv, TaskInv
  <2>5. (~MayStop => AckedIsRecorded)'
    BY DEF AckedIsRecorded, HandInv, ProcessInv
  <2> QED BY <2>1, <2>2, <2>3, <2>4, <2>5
<1>17. ASSUME NEW c \in Commands, RunTaken(c) PROVE LaneInv'
  <2> USE <1>17, <1>t DEF RunTaken, Go, brokerVars, laneVars, stopVars, historyVars, LaneInv,
    TypeOK, Status, Terminal, Task, Place
  <2>1. ProcessInv'
    BY DEF ProcessInv
  <2>2. HandInv'
    BY DEF HandInv, ProcessInv, TaskInv
  <2>3. TaskInv'
    BY DEF TaskInv, HandInv, ProcessInv
  <2>4. RerunOnlyAfterRestart' /\ CompletedMeansSucceeded'
    BY DEF RerunOnlyAfterRestart, CompletedMeansSucceeded, HandInv, TaskInv
  <2>5. (~MayStop => AckedIsRecorded)'
    BY DEF AckedIsRecorded, HandInv, ProcessInv
  <2> QED BY <2>1, <2>2, <2>3, <2>4, <2>5
<1>18. ASSUME NEW c \in Commands, RunStarts(c) PROVE LaneInv'
  <2> USE <1>18, <1>t DEF RunStarts, Go, brokerVars, laneVars, stopVars, historyVars, LaneInv,
    TypeOK, Status, Terminal, Task, Place
  <2>1. ProcessInv'
    BY DEF ProcessInv
  <2>2. HandInv'
    BY DEF HandInv, ProcessInv, TaskInv
  <2>3. TaskInv'
    BY DEF TaskInv, HandInv, ProcessInv
  <2>4. RerunOnlyAfterRestart' /\ CompletedMeansSucceeded'
    BY DEF RerunOnlyAfterRestart, CompletedMeansSucceeded, HandInv, TaskInv
  <2>5. (~MayStop => AckedIsRecorded)'
    BY DEF AckedIsRecorded, HandInv, ProcessInv
  <2> QED BY <2>1, <2>2, <2>3, <2>4, <2>5
<1>19. ASSUME NEW c \in Commands, RunCancelled(c) PROVE LaneInv'
  <2> USE <1>19, <1>t DEF RunCancelled, Go, brokerVars, laneVars, stopVars, historyVars, LaneInv,
    TypeOK, Status, Terminal, Task, Place
  <2>1. ProcessInv'
    BY DEF ProcessInv
  <2>2. HandInv'
    BY DEF HandInv, ProcessInv, TaskInv
  <2>3. TaskInv'
    BY DEF TaskInv, HandInv, ProcessInv
  <2>4. RerunOnlyAfterRestart' /\ CompletedMeansSucceeded'
    BY DEF RerunOnlyAfterRestart, CompletedMeansSucceeded, HandInv, TaskInv
  <2>5. (~MayStop => AckedIsRecorded)'
    BY DEF AckedIsRecorded, HandInv, ProcessInv
  <2> QED BY <2>1, <2>2, <2>3, <2>4, <2>5
<1>20. ASSUME NEW c \in Commands, RunEnds(c) PROVE LaneInv'
  <2> USE <1>20, <1>t DEF RunEnds, Go, brokerVars, laneVars, stopVars, historyVars, LaneInv,
    TypeOK, Status, Terminal, Task, Place
  <2>1. ProcessInv'
    BY DEF ProcessInv
  <2>2. HandInv'
    BY DEF HandInv, ProcessInv, TaskInv
  <2>3. TaskInv'
    BY DEF TaskInv, HandInv, ProcessInv
  <2>4. RerunOnlyAfterRestart' /\ CompletedMeansSucceeded'
    BY DEF RerunOnlyAfterRestart, CompletedMeansSucceeded, HandInv, TaskInv
  <2>5. (~MayStop => AckedIsRecorded)'
    BY DEF AckedIsRecorded, HandInv, ProcessInv
  <2> QED BY <2>1, <2>2, <2>3, <2>4, <2>5
<1> QED BY <1>1, <1>2, <1>3, <1>4, <1>5, <1>6, <1>7, <1>8, <1>9, <1>10, <1>11, <1>12, <1>13, <1>14, <1>15, <1>16, <1>17, <1>18, <1>19, <1>20
        DEF Next, Callback, Shutdown, Run

(* LaneInv holds of every reachable state, whatever crashes, shutdowns and  *)
(* redeliveries happen to the lane of handler.go.                           *)
THEOREM LaneInvariant == Spec => [](TypeOK /\ LaneInv)
<1>1. TypeOK /\ LaneInv /\ [Next]_vars => (TypeOK /\ LaneInv)'
  BY TypeNext, LaneNext
<1> QED BY TypeInit, LaneInit, <1>1, PTL DEF Spec

(* A command is executed again only if the process ended in between.        *)
THEOREM RerunsNeedRestart == Spec => []RerunOnlyAfterRestart
<1>1. LaneInv => RerunOnlyAfterRestart
  BY DEF LaneInv
<1> QED BY LaneInvariant, <1>1, PTL

(* "completed" in the table means that a run of the command succeeded.      *)
THEOREM CompletedIsTrue == Spec => []CompletedMeansSucceeded
<1>1. LaneInv => CompletedMeansSucceeded
  BY DEF LaneInv
<1> QED BY LaneInvariant, <1>1, PTL

(* In a worker that is never shut down but may crash at any step, what the  *)
(* broker may forget has a recorded outcome.                                *)
THEOREM NothingLostByCrashes ==
  ASSUME ~MayStop PROVE Spec => []AckedIsRecorded
<1>1. LaneInv => AckedIsRecorded
  BY DEF LaneInv
<1> QED BY LaneInvariant, <1>1, PTL

(* A recorded outcome is never overwritten, the duplicate check of          *)
(* HandleRunCommand lines 206 to 212.                                       *)
THEOREM OutcomesAreFinal == Spec => OutcomeIsFinal
<1>1. TypeOK /\ LaneInv /\ [Next]_vars =>
        [\A c \in Commands : status[c] \in Terminal => status'[c] = status[c]]_vars
  <2> SUFFICES ASSUME TypeOK, LaneInv, Next, NEW c \in Commands, status[c] \in Terminal
               PROVE  status'[c] = status[c]
    BY DEF vars
  <2>1. CASE TrackReceived \/ MarkProcessing \/ MarkDone
    <3>1. at \in {"track", "processing", "mark"}
      BY <2>1 DEF TrackReceived, MarkProcessing, MarkDone
    <3>2. dbOpen => hand # c
      BY <3>1 DEF LaneInv, HandInv
    <3>3. status' = status \/ \E s \in Status : dbOpen /\ status' = [status EXCEPT ![hand] = s]
      BY <2>1 DEF TrackReceived, MarkProcessing, MarkDone, Updated, Status, Terminal
    <3> QED BY <3>2, <3>3 DEF TypeOK
  <2>2. CASE ~(TrackReceived \/ MarkProcessing \/ MarkDone)
    <3>1. ASSUME NEW d \in Commands, Publish(d) \/ Run(d) \/ RunEnds(d)
          PROVE  status' = status
      BY <3>1 DEF Publish, Run, RunTaken, RunStarts, RunCancelled, RunEnds
    <3>2. CASE \/ Deliver \/ Redeliver \/ TakeMessage \/ CheckTerminal
               \/ Submit \/ SubmitRefused \/ SubmitReturns \/ SubmitGivesUp \/ Ack
      BY <3>2 DEF Deliver, Redeliver, TakeMessage, CheckTerminal, Submit, SubmitRefused,
                  SubmitReturns, SubmitGivesUp, Ack
    <3>3. CASE Shutdown \/ Crash \/ Restart
      BY <3>3 DEF Shutdown, CancelContext, Unsubscribe, CloseCoordinator, CloseTracker,
                  CloseConnection, Exit, Crash, Gone, Restart
    <3> QED BY <2>2, <3>1, <3>2, <3>3 DEF Next, Callback
  <2> QED BY <2>1, <2>2
<1> QED BY LaneInvariant, <1>1, PTL DEF OutcomeIsFinal, Spec
=============================================================================
