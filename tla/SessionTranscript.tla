--------------------------- MODULE SessionTranscript ---------------------------
(***************************************************************************)
(* The messages of one session: PostMessage of                             *)
(* backend/internal/service/message_poster.go writes a question and        *)
(* publishes its run command; the worker runs questions and publishes run  *)
(* events (backend/internal/assistant/service.go); the run state projector *)
(* (backend/internal/runnable/session_run_state_projector.go), a durable   *)
(* consumer, marks the questions and writes the answers                    *)
(* (backend/internal/service/session_service.go); the run stream projector *)
(* (backend/internal/runnable/session_run_stream_projector.go), on a       *)
(* subscription of its own, saves the rows of processing questions again.  *)
(*                                                                         *)
(* Events stand for their index in `log`, the stream that both lanes of    *)
(* run events share.  The runs of a session are serial and a run may       *)
(* answer several questions: RunCoordinator.  A worker that dies executes  *)
(* its unrecorded commands again: RunLane.  Contents, message_count and    *)
(* last_message_at are left out.                                           *)
(***************************************************************************)
EXTENDS Naturals, Sequences, FiniteSets

CONSTANTS
  Questions,   \* the user messages
  MaxDeltas,   \* bound: events between the first and the last of their runs
  MaxDeaths,   \* bound: ends of the worker process under a run
  MaxRepeats,  \* bound: deliveries repeated, after a crash of the server or a lost ack
  MaxDbErrors, \* bound: database calls of the projector that fail
  MaxRemovals, \* bound: removals of rows
  MaxFaults    \* bound: all of these, and the stream projector's save, together

ASSUME TranscriptAssumption ==
  /\ MaxDeltas \in Nat /\ MaxDeaths \in Nat /\ MaxRepeats \in Nat
  /\ MaxDbErrors \in Nat /\ MaxRemovals \in Nat /\ MaxFaults \in Nat

VARIABLES
  question, \* per user message: its row
  answers,  \* the assistant rows, in the order of their ids
  poster,   \* per user message: where its PostMessage is, and the number it read
  commands, \* questions whose run command waits for the worker
  run,      \* the worker's run
  runs,     \* runs started so far
  log,      \* the run events published
  cursor,   \* events delivered once to the durable consumer
  unacked,  \* delivered events the broker will deliver again
  handler,  \* the projector's callback
  saver,    \* the stream projector: the rows it has read and is about to save
  undone,   \* history: questions such a save put back to processing
  deaths, repeats, dbErrors, removals

workerVars    == <<commands, run, runs, log, deaths>>
projectorVars == <<cursor, unacked, handler, repeats, dbErrors>>
rowVars       == <<question, answers>>
saverVars     == <<saver, undone>>
vars == <<rowVars, poster, workerVars, projectorVars, removals, saverVars>>

Outcomes == {"completed", "failed"} \* "failed" stands for cancelled as well
Statuses == {"absent", "pending", "processing", "deleted"} \cup Outcomes
Middle   == {"notice", "delta"}
Kinds    == {"started"} \cup Middle \cup Outcomes

Event(r, k, qs) == [run |-> r, kind |-> k, to |-> qs]

NoRun == [at |-> "idle", to |-> {}]
Idle  == [at |-> "idle", event |-> 0, sequence |-> 0]

Init ==
  /\ question = [q \in Questions |-> [status |-> "absent", sequence |-> 0, start |-> 0]]
  /\ answers = <<>>
  /\ poster = [q \in Questions |-> [at |-> "idle", sequence |-> 0]]
  /\ commands = {} /\ run = NoRun /\ runs = 0
  /\ log = <<>> /\ cursor = 0 /\ unacked = {}
  /\ handler = Idle
  /\ saver = [at |-> "idle", rows |-> {}] /\ undone = {}
  /\ deaths = 0 /\ repeats = 0 /\ dbErrors = 0 /\ removals = 0

Saves     == IF saver.at = "idle" THEN 0 ELSE 1
FewFaults == deaths + repeats + dbErrors + removals + Saves < MaxFaults

Exists(q) == question[q].status \notin {"absent", "deleted"}

\* The sequence numbers the queries see: gorm hides deleted rows.
Numbers == {question[q].sequence : q \in {x \in Questions : Exists(x)}}
             \cup {answers[i].sequence : i \in {j \in 1..Len(answers) : answers[j].live}}

\* Mutant: counts the rows.
CountNumbers == {Cardinality({q \in Questions : Exists(q)})
                   + Cardinality({j \in 1..Len(answers) : answers[j].live}) + 1}

\* GetNextSequence: MAX + 1, read outside any transaction.
NextNumbers == {m + 1 : m \in {k \in Numbers \cup {0} : \A j \in Numbers : j <= k}}

-----------------------------------------------------------------------------
(* PostMessage.                                                             *)
ReadNumber(q) ==
  /\ poster[q].at = "idle"
  /\ \E n \in NextNumbers :
       poster' = [poster EXCEPT ![q] = [at |-> "numbered", sequence |-> n]]
  /\ UNCHANGED <<rowVars, workerVars, projectorVars, removals, saverVars>>

CreateQuestion(q) ==
  /\ poster[q].at = "numbered"
  /\ question' = [question EXCEPT ![q] =
                    [status |-> "pending", sequence |-> poster[q].sequence, start |-> 0]]
  /\ poster' = [poster EXCEPT ![q] = [at |-> "created", sequence |-> 0]]
  /\ UNCHANGED <<answers, workerVars, projectorVars, removals, saverVars>>

\* publishWorkerTask; its failure is returned and leaves the row pending.
PublishTask(q) ==
  /\ poster[q].at = "created"
  /\ \/ commands' = commands \cup {q} /\ poster' = [poster EXCEPT ![q].at = "published"]
     \/ commands' = commands /\ poster' = [poster EXCEPT ![q].at = "failed"]
  /\ UNCHANGED <<rowVars, run, runs, log, deaths, projectorVars, removals, saverVars>>

-----------------------------------------------------------------------------
(* The worker: Service.Run, once per run of the coordinator.                *)
StartRun ==
  /\ run.at = "idle"
  /\ \E qs \in SUBSET commands \ {{}} :
       /\ commands' = commands \ qs
       /\ run' = [at |-> "running", to |-> qs]
       /\ log' = Append(log, Event(runs + 1, "started", qs))
  /\ runs' = runs + 1
  /\ UNCHANGED <<rowVars, poster, projectorVars, deaths, removals, saverVars>>

\* Text and tool calls go to the stream lane; approvals, questions and
\* artifacts are notices, on the state lane.
EmitEvent ==
  /\ run.at = "running"
  /\ Cardinality({i \in 1..Len(log) : log[i].kind \in Middle}) < MaxDeltas
  /\ \E k \in Middle : log' = Append(log, Event(runs, k, run.to))
  /\ UNCHANGED <<rowVars, poster, commands, run, runs, projectorVars, deaths, removals, saverVars>>

\* The terminal event is published before the command is recorded as done.
EndRun ==
  /\ run.at = "running"
  /\ \E o \in Outcomes : log' = Append(log, Event(runs, o, run.to))
  /\ run' = [run EXCEPT !.at = "ended"]
  /\ UNCHANGED <<rowVars, poster, commands, runs, projectorVars, deaths, removals, saverVars>>

RecordRun ==
  /\ run.at = "ended"
  /\ run' = NoRun
  /\ UNCHANGED <<rowVars, poster, commands, runs, log, projectorVars, deaths, removals, saverVars>>

WorkerDies ==
  /\ run.at # "idle" /\ deaths < MaxDeaths /\ FewFaults
  /\ deaths' = deaths + 1
  /\ commands' = commands \cup run.to
  /\ run' = NoRun
  /\ UNCHANGED <<rowVars, poster, runs, log, projectorVars, removals, saverVars>>

-----------------------------------------------------------------------------
(* The durable consumer and the callback of the run state projector.        *)
IsState(i) == log[i].kind # "delta"

\* No notice changes a message.
Take(i) == handler' = [at |-> CASE log[i].kind = "started" -> "starting"
                                [] log[i].kind = "notice"  -> "handled"
                                [] OTHER                   -> "ending",
                       event |-> i, sequence |-> 0]

Deliver ==
  /\ handler.at = "idle" /\ cursor < Len(log)
  /\ cursor' = cursor + 1
  /\ IF IsState(cursor') THEN Take(cursor') ELSE handler' = handler
  /\ UNCHANGED <<rowVars, poster, workerVars, unacked, repeats, dbErrors, removals, saverVars>>

\* AckWait has expired; later events may have been delivered in between.
Redeliver ==
  /\ handler.at = "idle"
  /\ \E i \in unacked : Take(i) /\ unacked' = unacked \ {i}
  /\ UNCHANGED <<rowVars, poster, workerVars, cursor, repeats, dbErrors, removals, saverVars>>

\* Mutant: reopens any question.
StartedAny(i) ==
  [q \in Questions |->
     IF q \in log[i].to /\ Exists(q)
     THEN [question[q] EXCEPT !.status = "processing", !.start = i] ELSE question[q]]

\* HandleSessionRunStarted: only pending questions become processing.
Started(i) ==
  [q \in Questions |->
     IF q \in log[i].to /\ question[q].status = "pending"
     THEN [question[q] EXCEPT !.status = "processing", !.start = i] ELSE question[q]]

MarkStarted ==
  /\ handler.at = "starting"
  /\ question' = Started(handler.event)
  /\ handler' = [handler EXCEPT !.at = "handled"]
  /\ UNCHANGED <<answers, poster, workerVars, cursor, unacked, repeats, dbErrors, removals,
               saverVars>>

\* Mutant: only what was seen to start is ended.
EndedIfStarted(i) ==
  [q \in Questions |->
     IF q \in log[i].to /\ question[q].status = "processing"
     THEN [question[q] EXCEPT !.status = log[i].kind] ELSE question[q]]

\* updateReplyMessageStatus: whatever the status was, of the rows not deleted.
Ended(i) ==
  [q \in Questions |->
     IF q \in log[i].to /\ Exists(q)
     THEN [question[q] EXCEPT !.status = log[i].kind] ELSE question[q]]

\* Mutant: ends the questions before the transaction that inserts the answer.
EndBeforeAnswer ==
  /\ handler.at = "ending"
  /\ \E n \in NextNumbers : handler' = [handler EXCEPT !.at = "numbered", !.sequence = n]
  /\ question' = Ended(handler.event)
  /\ UNCHANGED <<answers, poster, workerVars, cursor, unacked, repeats, dbErrors, removals,
               saverVars>>

ReadAnswerNumber ==
  /\ handler.at = "ending"
  /\ \E n \in NextNumbers : handler' = [handler EXCEPT !.at = "numbered", !.sequence = n]
  /\ UNCHANGED <<rowVars, poster, workerVars, cursor, unacked, repeats, dbErrors, removals,
               saverVars>>

\* The transaction of CompleteSessionMessage and of FailedSessionMessage.
WriteAnswer ==
  /\ handler.at = "numbered"
  /\ answers' = Append(answers, [event |-> handler.event, sequence |-> handler.sequence,
                                 live |-> TRUE])
  /\ question' = Ended(handler.event)
  /\ handler' = [handler EXCEPT !.at = "handled"]
  /\ UNCHANGED <<poster, workerVars, cursor, unacked, repeats, dbErrors, removals, saverVars>>

\* A database error is logged, and the event acknowledged all the same.
DatabaseFails ==
  /\ handler.at \in {"starting", "ending", "numbered"} /\ dbErrors < MaxDbErrors
  /\ FewFaults
  /\ dbErrors' = dbErrors + 1
  /\ handler' = [handler EXCEPT !.at = "handled"]
  /\ UNCHANGED <<rowVars, poster, workerVars, cursor, unacked, repeats, removals, saverVars>>

\* Mutant: returns without acknowledging.
AckForgotten ==
  /\ handler.at = "handled"
  /\ handler' = Idle
  /\ unacked' = unacked \cup {handler.event}
  /\ UNCHANGED <<rowVars, poster, workerVars, cursor, repeats, dbErrors, removals, saverVars>>

Ack ==
  /\ handler.at = "handled"
  /\ handler' = Idle
  /\ UNCHANGED <<rowVars, poster, workerVars, cursor, unacked, repeats, dbErrors, removals,
               saverVars>>

AckLost ==
  /\ handler.at = "handled" /\ repeats < MaxRepeats /\ FewFaults
  /\ repeats' = repeats + 1
  /\ unacked' = unacked \cup {handler.event}
  /\ handler' = Idle
  /\ UNCHANGED <<rowVars, poster, workerVars, cursor, dbErrors, removals, saverVars>>

\* The server process ends: with it the callback and every PostMessage.
ServerCrashes ==
  /\ repeats < MaxRepeats /\ FewFaults
  /\ repeats' = repeats + 1
  /\ unacked' = unacked \cup ({handler.event} \ {0})
  /\ handler' = Idle
  /\ poster' = [q \in Questions |->
                  IF poster[q].at \in {"numbered", "created"}
                  THEN [poster[q] EXCEPT !.at = "failed"] ELSE poster[q]]
  /\ saver' = [at |-> "idle", rows |-> {}]
  /\ UNCHANGED <<rowVars, workerVars, cursor, dbErrors, removals, undone>>

-----------------------------------------------------------------------------
(* The run stream projector: once in a process, at the first event it sees  *)
(* on the stream lane, which it reads from the head.                        *)
Processing == {q \in Questions : question[q].status = "processing"}

\* SetSessionStreamStartSeq reads the processing questions, without a lock.  It
\* passes over those with a start already, those that began to process between
\* its two queries, and, when a call fails, all of them.
ReadForStream ==
  /\ saver.at = "idle" /\ FewFaults
  /\ \E i \in 1..Len(log) : log[i].kind = "delta"
  /\ \E qs \in SUBSET Processing :
       saver' = [at |-> IF qs = {} THEN "done" ELSE "read", rows |-> qs]
  /\ UNCHANGED <<rowVars, poster, workerVars, projectorVars, removals, undone>>

\* Save writes every column as it was read, the status too, and inserts a row
\* again that was deleted.
SaveStreamStart ==
  /\ saver.at = "read"
  /\ question' = [q \in Questions |->
       IF q \in saver.rows THEN [question[q] EXCEPT !.status = "processing"] ELSE question[q]]
  /\ undone' = undone \cup (saver.rows \ Processing)
  /\ saver' = [at |-> "done", rows |-> {}]
  /\ UNCHANGED <<answers, poster, workerVars, projectorVars, removals>>

-----------------------------------------------------------------------------
(* DeleteMessage and ClearSessionMessages.                                  *)
Removed(qs, js) ==
  /\ question' = [q \in Questions |-> IF q \in qs /\ Exists(q)
                    THEN [question[q] EXCEPT !.status = "deleted"] ELSE question[q]]
  /\ answers' = [j \in 1..Len(answers) |-> IF j \in js
                    THEN [answers[j] EXCEPT !.live = FALSE] ELSE answers[j]]

RemoveRows ==
  /\ removals < MaxRemovals /\ FewFaults
  /\ removals' = removals + 1
  /\ \/ \E q \in Questions : Exists(q) /\ Removed({q}, {})
     \/ \E j \in 1..Len(answers) : answers[j].live /\ Removed({}, {j})
     \/ Removed(Questions, 1..Len(answers))
  /\ UNCHANGED <<poster, workerVars, projectorVars, saverVars>>

-----------------------------------------------------------------------------
Post(q)   == ReadNumber(q) \/ CreateQuestion(q) \/ PublishTask(q)
Work      == StartRun \/ EmitEvent \/ EndRun \/ RecordRun
Project   == Deliver \/ Redeliver \/ MarkStarted \/ ReadAnswerNumber \/ WriteAnswer \/ Ack

RecordStream == ReadForStream \/ SaveStreamStart

TranscriptNext ==
  \/ \E q \in Questions : Post(q)
  \/ Work \/ WorkerDies
  \/ Project \/ DatabaseFails \/ AckLost \/ ServerCrashes
  \/ RecordStream
  \/ RemoveRows

Spec == Init /\ [][TranscriptNext]_vars

-----------------------------------------------------------------------------
TypeOK ==
  /\ question \in [Questions -> [status : Statuses, sequence : Nat, start : Nat]]
  /\ answers \in Seq([event : Nat, sequence : Nat, live : BOOLEAN])
  /\ poster \in [Questions -> [at : {"idle", "numbered", "created", "published", "failed"},
                               sequence : Nat]]
  /\ commands \subseteq Questions
  /\ run \in [at : {"idle", "running", "ended"}, to : SUBSET Questions]
  /\ runs \in Nat
  /\ log \in Seq([run : Nat, kind : Kinds, to : SUBSET Questions])
  /\ cursor \in Nat /\ unacked \subseteq Nat
  /\ handler \in [at : {"idle", "starting", "ending", "numbered", "handled"},
                  event : Nat, sequence : Nat]
  /\ saver \in [at : {"idle", "read", "done"}, rows : SUBSET Questions]
  /\ undone \subseteq Questions
  /\ deaths \in Nat /\ repeats \in Nat /\ dbErrors \in Nat /\ removals \in Nat

OutcomeOf(a) == log[a.event].kind
AnsweredBy(a) == log[a.event].to

(* A question shows an outcome only if an answer with that outcome was      *)
(* written for it, however often its events are delivered and its run is    *)
(* repeated.                                                                *)
OutcomeHasAnswer ==
  \A q \in Questions : question[q].status \in Outcomes =>
    \E j \in 1..Len(answers) : /\ q \in AnsweredBy(answers[j])
                               /\ OutcomeOf(answers[j]) = question[q].status

(* In the transcript an answer comes after each question it answers, while  *)
(* posts, other runs and removals change the highest number under the       *)
(* readers of it; but not if a removed question was saved again.            *)
AnswerAfterQuestion ==
  \A j \in 1..Len(answers) : answers[j].live =>
    \A q \in AnsweredBy(answers[j]) \ undone :
      Exists(q) => question[q].sequence < answers[j].sequence

(* The answer to a run is written once more only for each time a delivery   *)
(* was repeated.                                                            *)
AnswersBounded ==
  \A i \in 1..Len(log) :
    Cardinality({j \in 1..Len(answers) : answers[j].event = i}) <= 1 + repeats

(* A terminal event the projector has acknowledged has ended the questions  *)
(* of its run, except those lost to a database error and those the stream   *)
(* projector put back.                                                      *)
Handled(i) == i <= cursor /\ i \notin unacked /\ i # handler.event
EndedAreMarked ==
  Cardinality({i \in 1..Len(log) :
                 /\ log[i].kind \in Outcomes /\ Handled(i)
                 /\ \E q \in log[i].to \ undone :
                      question[q].status \in {"pending", "processing"}})
    <= dbErrors

(* A question that has an outcome becomes pending or processing again only  *)
(* when the stream projector saves a row it read before the outcome: no     *)
(* late or repeated run.started reopens it.                                 *)
OutcomeStays ==
  [][\A q \in Questions :
       question[q].status \in Outcomes
       /\ question'[q].status \in {"absent", "pending", "processing"}
         => q \in saver.rows \ saver'.rows]_vars
=============================================================================
