------------------------------- MODULE RunLane -------------------------------
(***************************************************************************)
(* The cmd.run lane of a worker: commands on a JetStream stream, a durable *)
(* consumer whose one callback handles them one after another              *)
(* (backend/internal/infra/mq/nats.go), HandleRunCommand                   *)
(* (backend/internal/worker/command/run/handler.go) and the SQLite table   *)
(* that records their status (backend/pkg/seqtracker/tracker.go), across   *)
(* crashes and graceful shutdowns of the worker process.                   *)
(*                                                                         *)
(* A command stands for its stream sequence number.  The coordinator is    *)
(* reduced to what the lane sees of RunCoordinator: a submission is run at *)
(* most once, Submit returns the run's outcome, or an error as soon as the *)
(* context is done or the coordinator closed, and the run of a submission  *)
(* whose Submit has given up may still start and end.  Commands carry a    *)
(* session, as message_poster.go always sends them, so a run that panics   *)
(* does so in a goroutine of the debouncer and is a crash of the process.  *)
(***************************************************************************)
EXTENDS Naturals, Sequences, FiniteSets

CONSTANTS
  Commands,      \* run commands
  Malformed,     \* those that fail decoding or validation
  NoCommand,     \* not a command: the callback is idle
  MaxMsgs,       \* MaxMsgsPerSubject of the stream; older ones are discarded
  MaxRedeliver,  \* bound: deliveries repeated because AckWait expired
  MaxRestarts,   \* bound: crashes and shutdowns
  MayCrash,      \* the process may crash
  MayStop        \* the process may be shut down

ASSUME LaneAssumption ==
  /\ Malformed \subseteq Commands
  /\ NoCommand \notin Commands
  /\ MaxMsgs \in Nat \ {0} /\ MaxRedeliver \in Nat /\ MaxRestarts \in Nat
  /\ MayCrash \in BOOLEAN /\ MayStop \in BOOLEAN

VARIABLES
  stream,      \* the commands published, in order
  durable,     \* the durable consumer exists at the broker
  acked,       \* the commands it holds acknowledged
  cursor,      \* how far the consumer has delivered to this subscription
  redelivered, \* deliveries repeated so far
  status,      \* task_seq: the recorded status of each command
  proc,        \* the worker process
  inbox,       \* delivered messages the callback has not taken yet
  hand,        \* the command in the callback
  at,          \* where the callback is
  err,         \* whether Submit returned an error
  task,        \* per command: its submission in the coordinator
  ctxDone,     \* the dispatcher's context is cancelled
  subscribed,  \* the subscription still calls the callback
  closed,      \* the coordinator is closed
  dbOpen,      \* the tracker's database is open
  connOpen,    \* the NATS connection is open
  restarts,    \* ends of the process so far
  starts,      \* history: runs started per command
  succeeded    \* history: commands a run of which succeeded

brokerVars  == <<stream, durable, acked, cursor, redelivered>>
laneVars    == <<inbox, hand, at, err>>
stopVars    == <<ctxDone, subscribed, closed, dbOpen, connOpen>>
historyVars == <<starts, succeeded>>
vars == <<brokerVars, status, proc, laneVars, task, stopVars, restarts, historyVars>>

Terminal == {"completed", "failed"}
Status   == {"none", "pending", "processing"} \cup Terminal
Place    == {"idle", "check", "track", "processing", "submit", "wait", "mark", "ack"}
Task     == {"none", "scheduled", "taken", "executing", "ok", "failed"}

RangeOf(q) == {q[i] : i \in 1..Len(q)}

Init ==
  /\ stream = <<>> /\ durable = TRUE /\ acked = {} /\ cursor = 0 /\ redelivered = 0
  /\ status = [c \in Commands |-> "none"]
  /\ proc = "up"
  /\ inbox = <<>> /\ hand = NoCommand /\ at = "idle" /\ err = FALSE
  /\ task = [c \in Commands |-> "none"]
  /\ ctxDone = FALSE /\ subscribed = TRUE /\ closed = FALSE
  /\ dbOpen = TRUE /\ connOpen = TRUE
  /\ restarts = 0
  /\ starts = [c \in Commands |-> 0]
  /\ succeeded = {}

-----------------------------------------------------------------------------
(* The stream and its durable consumer.                                     *)
Retained(i) == i > Len(stream) - MaxMsgs

Publish(c) ==
  /\ c \notin RangeOf(stream)
  /\ stream' = Append(stream, c)
  /\ UNCHANGED <<durable, acked, cursor, redelivered, status, proc, laneVars,
                 task, stopVars, restarts, historyVars>>

Deliver ==
  /\ proc = "up" /\ subscribed /\ connOpen
  /\ cursor < Len(stream)
  /\ cursor' = cursor + 1
  /\ inbox' = IF Retained(cursor') /\ stream[cursor'] \notin acked
              THEN Append(inbox, stream[cursor']) ELSE inbox
  /\ UNCHANGED <<stream, durable, acked, redelivered, status, proc, hand, at, err, task,
                 stopVars, restarts, historyVars>>

(* AckWait expires while the callback is busy, with this command or another. *)
Redeliver ==
  /\ proc = "up" /\ subscribed /\ connOpen
  /\ redelivered < MaxRedeliver
  /\ redelivered' = redelivered + 1
  /\ \E i \in 1..cursor : /\ Retained(i) /\ stream[i] \notin acked
                          /\ inbox' = Append(inbox, stream[i])
  /\ UNCHANGED <<stream, durable, acked, cursor, status, proc, hand, at, err, task,
                 stopVars, restarts, historyVars>>

-----------------------------------------------------------------------------
(* The callback: HandleRunCommand, then the deferred Ack.                   *)
Go(place) ==
  /\ at' = place
  /\ UNCHANGED <<brokerVars, proc, inbox, hand, stopVars, restarts, historyVars>>

\* Mutant: acknowledges a command before it is handled.
TakeAndAck ==
  /\ proc = "up" /\ subscribed
  /\ at = "idle"
  /\ inbox # <<>>
  /\ hand' = Head(inbox)
  /\ inbox' = Tail(inbox)
  /\ at' = IF hand' \in Malformed THEN "ack" ELSE "check"
  /\ acked' = acked \cup {hand'}
  /\ UNCHANGED <<stream, durable, cursor, redelivered, status, proc, err, task,
                 stopVars, restarts, historyVars>>

TakeMessage ==
  /\ proc = "up" /\ subscribed
  /\ at = "idle"
  /\ inbox # <<>>
  /\ hand' = Head(inbox)
  /\ inbox' = Tail(inbox)
  /\ at' = IF hand' \in Malformed THEN "ack" ELSE "check"
  /\ UNCHANGED <<brokerVars, status, proc, err, task, stopVars, restarts,
                 historyVars>>

\* Mutant: asks IsDuplicate, which knows completed commands only.
CheckDuplicate ==
  /\ at = "check"
  /\ Go(IF dbOpen /\ status[hand] = "completed" THEN "ack" ELSE "track")
  /\ UNCHANGED <<status, err, task>>

(* A query that fails (the database is closed) counts as "not terminal".    *)
CheckTerminal ==
  /\ at = "check"
  /\ Go(IF dbOpen /\ status[hand] \in Terminal THEN "ack" ELSE "track")
  /\ UNCHANGED <<status, err, task>>

(* INSERT OR IGNORE, and the UPDATEs that touch no row before it.           *)
TrackReceived ==
  /\ at = "track"
  /\ Go("processing")
  /\ status' = IF dbOpen /\ status[hand] = "none"
               THEN [status EXCEPT ![hand] = "pending"] ELSE status
  /\ UNCHANGED <<err, task>>

Updated(s) ==
  IF dbOpen /\ status[hand] # "none" THEN [status EXCEPT ![hand] = s] ELSE status

MarkProcessing ==
  /\ at = "processing"
  /\ Go("submit")
  /\ status' = Updated("processing")
  /\ UNCHANGED <<err, task>>

Submit ==
  /\ at = "submit"
  /\ ~closed
  /\ Go("wait")
  /\ task' = [task EXCEPT ![hand] = "scheduled"]
  /\ UNCHANGED <<status, err>>

SubmitRefused ==
  /\ at = "submit"
  /\ closed
  /\ Go("mark")
  /\ err' = TRUE
  /\ UNCHANGED <<status, task>>

SubmitReturns ==
  /\ at = "wait"
  /\ task[hand] \in {"ok", "failed"}
  /\ Go("mark")
  /\ err' = (task[hand] = "failed")
  /\ UNCHANGED <<status, task>>

SubmitGivesUp ==
  /\ at = "wait"
  /\ ctxDone \/ closed
  /\ Go("mark")
  /\ err' = TRUE
  /\ UNCHANGED <<status, task>>

MarkDone ==
  /\ at = "mark"
  /\ Go("ack")
  /\ status' = Updated(IF err THEN "failed" ELSE "completed")
  /\ UNCHANGED <<err, task>>

Ack ==
  /\ at = "ack"
  /\ acked' = IF connOpen /\ durable THEN acked \cup {hand} ELSE acked
  /\ at' = "idle"
  /\ hand' = NoCommand
  /\ UNCHANGED <<stream, durable, cursor, redelivered, status, proc, inbox,
                 err, task, stopVars, restarts, historyVars>>

-----------------------------------------------------------------------------
(* The coordinator's side of a submission: the debouncer's timer takes it,  *)
(* unless the coordinator closed first, or the run of its session before it *)
(* hands over to it, closed or not; execute then waits for a slot.          *)
RunTaken(c) ==
  /\ task[c] = "scheduled"
  /\ ~closed \/ \E d \in Commands \ {c} : task[d] \in {"taken", "executing"}
  /\ task' = [task EXCEPT ![c] = "taken"]
  /\ UNCHANGED <<brokerVars, status, proc, laneVars, stopVars, restarts, historyVars>>

RunStarts(c) ==
  /\ task[c] = "taken"
  /\ task' = [task EXCEPT ![c] = "executing"]
  /\ starts' = [starts EXCEPT ![c] = @ + 1]
  /\ UNCHANGED <<brokerVars, status, proc, laneVars, stopVars, restarts, succeeded>>

RunEnds(c) ==
  /\ task[c] = "executing"
  /\ \E o \in {"ok", "failed"} :
       /\ task' = [task EXCEPT ![c] = o]
       /\ succeeded' = IF o = "ok" THEN succeeded \cup {c} ELSE succeeded
  /\ UNCHANGED <<brokerVars, status, proc, laneVars, stopVars, restarts, starts>>

(* execute gives the slot up when its context is done before it has one.    *)
RunCancelled(c) ==
  /\ task[c] = "taken"
  /\ ctxDone
  /\ task' = [task EXCEPT ![c] = "failed"]
  /\ UNCHANGED <<brokerVars, status, proc, laneVars, stopVars, restarts, historyVars>>

-----------------------------------------------------------------------------
(* Shutdown: close functions of cmd/leros/worker.go, in an order that the   *)
(* lifecycle library chooses; Handler.Close closes the coordinator, waits   *)
(* for the Submit in flight and closes the tracker.                         *)
Stopping == proc = "up" /\ MayStop /\ restarts < MaxRestarts

CancelContext ==
  /\ Stopping /\ ~ctxDone
  /\ ctxDone' = TRUE
  /\ UNCHANGED <<brokerVars, status, proc, laneVars, task, subscribed, closed,
                 dbOpen, connOpen, restarts, historyVars>>

(* The client library deletes a durable consumer that it created; the next  *)
(* one then starts at the head of the stream.                               *)
Unsubscribe ==
  /\ proc = "up" /\ ctxDone /\ subscribed
  /\ subscribed' = FALSE
  /\ inbox' = <<>>
  /\ durable' \in {TRUE, ~connOpen}
  /\ UNCHANGED <<stream, acked, cursor, redelivered, status, proc, hand, at, err,
                 task, ctxDone, closed, dbOpen, connOpen, restarts, historyVars>>

CloseCoordinator ==
  /\ Stopping /\ ~closed
  /\ closed' = TRUE
  /\ UNCHANGED <<brokerVars, status, proc, laneVars, task, ctxDone, subscribed,
                 dbOpen, connOpen, restarts, historyVars>>

CloseTracker ==
  /\ Stopping /\ closed /\ dbOpen
  /\ at # "wait"
  /\ dbOpen' = FALSE
  /\ UNCHANGED <<brokerVars, status, proc, laneVars, task, ctxDone, subscribed,
                 closed, connOpen, restarts, historyVars>>

CloseConnection ==
  /\ Stopping /\ connOpen
  /\ connOpen' = FALSE
  /\ UNCHANGED <<brokerVars, status, proc, laneVars, task, ctxDone, subscribed,
                 closed, dbOpen, restarts, historyVars>>

(* The process ends: everything in memory is gone, the broker's consumer    *)
(* and the table stay.                                                      *)
Gone ==
  /\ proc' = "down"
  /\ restarts' = restarts + 1
  /\ inbox' = <<>> /\ hand' = NoCommand /\ at' = "idle" /\ err' = FALSE
  /\ task' = [c \in Commands |-> "none"]
  /\ UNCHANGED <<brokerVars, status, stopVars, historyVars>>

Exit  == Stopping /\ ctxDone /\ ~dbOpen /\ ~connOpen /\ Gone
Crash == proc = "up" /\ MayCrash /\ restarts < MaxRestarts /\ Gone

\* Mutant: subscribes to new messages only.
RestartNewOnly ==
  /\ proc = "down"
  /\ proc' = "up"
  /\ cursor' = Len(stream)
  /\ durable' = TRUE
  /\ acked' = IF durable THEN acked ELSE {}
  /\ ctxDone' = FALSE /\ subscribed' = TRUE /\ closed' = FALSE
  /\ dbOpen' = TRUE /\ connOpen' = TRUE
  /\ UNCHANGED <<stream, redelivered, status, laneVars, task, restarts,
                 historyVars>>

(* The new process subscribes again: the consumer delivers what is not      *)
(* acknowledged, a new one the whole stream.                                *)
Restart ==
  /\ proc = "down"
  /\ proc' = "up"
  /\ cursor' = 0
  /\ durable' = TRUE
  /\ acked' = IF durable THEN acked ELSE {}
  /\ ctxDone' = FALSE /\ subscribed' = TRUE /\ closed' = FALSE
  /\ dbOpen' = TRUE /\ connOpen' = TRUE
  /\ UNCHANGED <<stream, redelivered, status, laneVars, task, restarts,
                 historyVars>>

-----------------------------------------------------------------------------
Callback ==
  \/ TakeMessage \/ CheckTerminal \/ TrackReceived \/ MarkProcessing
  \/ Submit \/ SubmitRefused \/ SubmitReturns \/ SubmitGivesUp
  \/ MarkDone \/ Ack

Shutdown ==
  \/ CancelContext \/ Unsubscribe \/ CloseCoordinator \/ CloseTracker
  \/ CloseConnection \/ Exit

Run(c) == RunTaken(c) \/ RunStarts(c) \/ RunCancelled(c)

Next ==
  \/ \E c \in Commands : Publish(c) \/ Run(c) \/ RunEnds(c)
  \/ Deliver \/ Redeliver \/ Callback
  \/ Shutdown \/ Crash \/ Restart

Spec == Init /\ [][Next]_vars

(* The broker delivers, the callback and the timers run and a dead worker   *)
(* is started again; nothing makes anybody publish, crash or stop.          *)
ProcessFairness ==
  /\ WF_vars(Deliver) /\ WF_vars(Callback) /\ WF_vars(Restart)
  /\ \A c \in Commands : WF_vars(Run(c))

(* Runs end.  One that awaits a user may not: CommandSettles is claimed     *)
(* under the assumption that users answer.                                  *)
FairSpec == Spec /\ ProcessFairness /\ \A c \in Commands : WF_vars(RunEnds(c))

-----------------------------------------------------------------------------
TypeOK ==
  /\ stream \in Seq(Commands) /\ durable \in BOOLEAN /\ acked \subseteq Commands
  /\ cursor \in 0..Len(stream) /\ redelivered \in 0..MaxRedeliver
  /\ status \in [Commands -> Status]
  /\ proc \in {"up", "down"}
  /\ inbox \in Seq(Commands)
  /\ hand \in Commands \cup {NoCommand} /\ at \in Place /\ err \in BOOLEAN
  /\ hand = NoCommand <=> at = "idle"
  /\ task \in [Commands -> Task]
  /\ ctxDone \in BOOLEAN /\ subscribed \in BOOLEAN /\ closed \in BOOLEAN
  /\ dbOpen \in BOOLEAN /\ connOpen \in BOOLEAN
  /\ restarts \in 0..MaxRestarts
  /\ starts \in [Commands -> Nat] /\ succeeded \subseteq Commands

(* Redelivery never causes a second execution: a command is executed again  *)
(* only if the process ended in between, also while a shutdown has closed   *)
(* the tracker or the connection under the callback.                        *)
RerunOnlyAfterRestart == \A c \in Commands : starts[c] <= 1 + restarts

(* A recorded outcome is final: no redelivery, restart or shutdown that     *)
(* closes the table under the callback makes the lane start the command     *)
(* over and overwrite it.                                                   *)
OutcomeIsFinal ==
  [][\A c \in Commands : status[c] \in Terminal => status'[c] = status[c]]_vars

(* "completed" is recorded only for a command that a run really finished,   *)
(* in this process or an earlier one.                                       *)
CompletedMeansSucceeded ==
  \A c \in Commands : status[c] = "completed" => c \in succeeded

(* Without a shutdown, an acknowledged command has a recorded outcome: a    *)
(* crash at any step leaves it to be delivered again.                       *)
AckedIsRecorded ==
  \A c \in acked \ Malformed : status[c] \in Terminal

(* The inductive strengthening of the invariants above, in parts.           *)
(* What has been closed, and what is gone with the process.                 *)
ProcessInv ==
  /\ ~dbOpen => closed
  /\ proc = "down" => at = "idle" /\ inbox = <<>> /\ \A c \in Commands : task[c] = "none"
  /\ ~MayStop => ~ctxDone /\ ~closed /\ subscribed /\ dbOpen /\ connOpen /\ durable

(* The command in the callback, by place.                                   *)
HandInv ==
  /\ at \notin {"idle", "ack"} => hand \notin Malformed
  /\ at \in {"track", "processing", "submit", "wait", "mark"} /\ dbOpen =>
       status[hand] \notin Terminal
  /\ at \in {"processing", "submit", "wait", "mark"} /\ dbOpen => status[hand] # "none"
  /\ at = "mark" /\ ~err => hand \in succeeded
  /\ at = "ack" /\ dbOpen => hand \in Malformed \/ status[hand] \in Terminal

(* A submission in the coordinator is that of the command in the callback   *)
(* or its outcome is recorded, until the coordinator takes no more.         *)
TaskInv ==
  /\ ~closed => \A c \in Commands : task[c] # "none" =>
       (c = hand /\ at \in {"wait", "mark"}) \/ status[c] \in Terminal
  /\ \A c \in Commands : task[c] = "ok" => c \in succeeded
  /\ \A c \in Commands :
       task[c] \in {"none", "scheduled", "taken"} => starts[c] <= restarts

LaneInv ==
  /\ ProcessInv /\ HandInv /\ TaskInv
  /\ RerunOnlyAfterRestart /\ CompletedMeansSucceeded
  /\ ~MayStop => AckedIsRecorded

(* Crashes and redeliveries only delay a command that the stream retains.   *)
CommandSettles ==
  \A c \in Commands \ Malformed : c \in RangeOf(stream) ~> status[c] \in Terminal
=============================================================================
