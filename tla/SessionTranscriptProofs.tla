------------------------ MODULE SessionTranscriptProofs ------------------------
(***************************************************************************)
(* The guarantees of SessionTranscript, for any number of questions, runs, *)
(* events and faults of every kind, and those of the streams SessionStream *)
(* puts beside it, for any number of streams.                              *)
(***************************************************************************)
EXTENDS SessionStream, FiniteSetTheorems, WellFoundedInduction, TLAPS

Row     == [status : Statuses, sequence : Nat, start : Nat]
Answer  == [event : Nat, sequence : Nat, live : BOOLEAN]
Posting == [at : {"idle", "numbered", "created", "published", "failed"}, sequence : Nat]
Entry   == [run : Nat, kind : Kinds, to : SUBSET Questions]
Callback == [at : {"idle", "starting", "ending", "numbered", "handled"},
             event : Nat, sequence : Nat]

\* What deliveries refer to.
EventInv ==
  /\ cursor <= Len(log)
  /\ handler.at = "idle" => handler.event = 0
  /\ handler.at # "idle" => handler.event \in 1..cursor /\ log[handler.event].kind # "delta"
  /\ handler.at \in {"ending", "numbered"} => log[handler.event].kind \in Outcomes
  /\ \A i \in unacked : i \in 1..cursor /\ log[i].kind # "delta"
  /\ handler.event \notin unacked
  /\ \A j \in 1..Len(answers) :
       answers[j].event \in 1..Len(log) /\ log[answers[j].event].kind \in Outcomes

\* A run answers questions that were created and published, and the stream
\* projector saves questions that have begun.
PostedInv ==
  /\ \A q \in commands \cup run.to : poster[q].at = "published"
  /\ \A i \in 1..Len(log) : \A q \in log[i].to : poster[q].at = "published"
  /\ \A q \in Questions : poster[q].at \in {"idle", "numbered"} => question[q].status = "absent"
  /\ \A q \in saver.rows : question[q].status \notin {"absent", "pending"}

\* The number read for an answer is above those of its questions.
NumberInv ==
  handler.at = "numbered" =>
    \A q \in log[handler.event].to \ undone :
      Exists(q) => question[q].sequence < handler.sequence

\* Each answer beyond the first was paid for by a repeated delivery, and an
\* event that will still be handled has one answer to its credit.
AnswersTo(i) == {j \in 1..Len(answers) : answers[j].event = i}
ToHandle(i) == \/ i > cursor \/ i \in unacked
               \/ i = handler.event /\ handler.at \in {"starting", "ending", "numbered"}
CountInv ==
  \A i \in Nat \ {0} :
    IF ToHandle(i) THEN Cardinality(AnswersTo(i)) <= repeats
                   ELSE Cardinality(AnswersTo(i)) <= 1 + repeats

\* The terminal events dealt with that left a question open.
LeftOpen ==
  {i \in 1..Len(log) :
     /\ log[i].kind \in Outcomes /\ i <= cursor /\ i \notin unacked
     /\ ~ (i = handler.event /\ handler.at \in {"ending", "numbered"})
     /\ \E q \in log[i].to \ undone : question[q].status \in {"pending", "processing"}}
MarkedInv == Cardinality(LeftOpen) <= dbErrors

-----------------------------------------------------------------------------
LEMMA TypeParts ==
  TypeOK <=> /\ question \in [Questions -> Row]
             /\ answers \in Seq(Answer)
             /\ poster \in [Questions -> Posting]
             /\ commands \subseteq Questions
             /\ run \in [at : {"idle", "running", "ended"}, to : SUBSET Questions]
             /\ runs \in Nat
             /\ log \in Seq(Entry)
             /\ cursor \in Nat /\ unacked \subseteq Nat
             /\ handler \in Callback
             /\ saver \in [at : {"idle", "read", "done"}, rows : SUBSET Questions]
             /\ undone \subseteq Questions
             /\ deaths \in Nat /\ repeats \in Nat /\ dbErrors \in Nat /\ removals \in Nat
BY DEF TypeOK, Row, Answer, Posting, Entry, Callback

LEMMA NumbersTyped == ASSUME TypeOK PROVE NextNumbers \subseteq Nat
<1>1. Numbers \subseteq Nat
  <2>1. \A q \in Questions : question[q].sequence \in Nat
    BY TypeParts DEF Row
  <2>2. \A j \in 1..Len(answers) : answers[j] \in Answer
    BY TypeParts
  <2>3. \A j \in 1..Len(answers) : answers[j].sequence \in Nat
    BY <2>2 DEF Answer
  <2> QED BY <2>1, <2>3 DEF Numbers
<1>2. \A n \in NextNumbers : \E m \in Numbers \cup {0} : n = m + 1
  BY DEF NextNumbers
<1> QED BY <1>1, <1>2

\* What a callback that begins is like.
LEMMA TakeTyped ==
  ASSUME TypeOK, NEW i \in 1..Len(log), Take(i), log[i].kind # "delta"
  PROVE  /\ handler' \in Callback /\ handler'.event = i
         /\ handler'.at \in {"starting", "ending", "handled"}
         /\ handler'.at = "ending" <=> log[i].kind \in Outcomes
         /\ handler'.at = "handled" => log[i].kind = "notice"
<1>1. log[i].kind \in Kinds
  <2>1. log[i] \in Entry
    BY TypeParts
  <2> QED BY <2>1 DEF Entry
<1>2. i \in Nat
  BY TypeParts
<1>3. CASE log[i].kind = "started"
  BY <1>2, <1>3 DEF Take, Callback, Outcomes
<1>4. CASE log[i].kind = "notice"
  BY <1>2, <1>4 DEF Take, Callback, Outcomes
<1>5. CASE log[i].kind \in Outcomes
  BY <1>2, <1>5 DEF Take, Callback, Outcomes
<1> QED BY <1>1, <1>3, <1>4, <1>5 DEF Kinds, Middle

-----------------------------------------------------------------------------
(* Which actions change which variables.                                    *)
LogGrows == \E e \in Entry : log' = Append(log, e)

LEMMA LogSteps ==
  ASSUME TypeOK, TranscriptNext
  PROVE  /\ log' = log \/ StartRun \/ EmitEvent \/ EndRun
         /\ log' = log \/ LogGrows
         /\ log' \in Seq(Entry) /\ Len(log) <= Len(log')
         /\ \A i \in 1..Len(log) : log'[i] = log[i]
<1>1. log' = log \/ StartRun \/ EmitEvent \/ EndRun
  BY DEF TranscriptNext, RecordStream, ReadForStream, SaveStreamStart, saverVars, Post, Work, Project, ReadNumber, CreateQuestion, PublishTask, RecordRun,
     WorkerDies, Deliver, Redeliver, MarkStarted, ReadAnswerNumber, WriteAnswer, Ack, DatabaseFails,
     AckLost, ServerCrashes, RemoveRows, workerVars
<1>2. log \in Seq(Entry) /\ runs \in Nat /\ run.to \subseteq Questions /\ commands \subseteq Questions
  BY TypeParts
<1>3. \A n \in Nat, k \in Kinds, qs \in SUBSET Questions : Event(n, k, qs) \in Entry
  BY DEF Event, Entry
<1>4. ASSUME StartRun PROVE LogGrows
  <2>1. PICK qs \in SUBSET commands \ {{}} : log' = Append(log, Event(runs + 1, "started", qs))
    BY <1>4 DEF StartRun
  <2>2. Event(runs + 1, "started", qs) \in Entry
    <3>1. qs \in SUBSET Questions /\ runs + 1 \in Nat /\ "started" \in Kinds
      BY <1>2, <2>1 DEF Kinds
    <3> QED BY <1>3, <3>1
  <2> QED BY <2>1, <2>2 DEF LogGrows
<1>5. ASSUME EmitEvent PROVE LogGrows
  <2>1. PICK k \in Middle : log' = Append(log, Event(runs, k, run.to))
    BY <1>5 DEF EmitEvent
  <2>2. Event(runs, k, run.to) \in Entry
    BY <1>2, <1>3, <2>1 DEF Kinds
  <2> QED BY <2>1, <2>2 DEF LogGrows
<1>6. ASSUME EndRun PROVE LogGrows
  <2>1. PICK o \in Outcomes : log' = Append(log, Event(runs, o, run.to))
    BY <1>6 DEF EndRun
  <2>2. Event(runs, o, run.to) \in Entry
    BY <1>2, <1>3, <2>1 DEF Kinds
  <2> QED BY <2>1, <2>2 DEF LogGrows
<1>7. log' = log \/ LogGrows
  BY <1>1, <1>4, <1>5, <1>6
<1> QED BY <1>1, <1>2, <1>7 DEF LogGrows

LEMMA RowSteps ==
  ASSUME TranscriptNext
  PROVE  /\ \/ question' = question
            \/ (\E q \in Questions : CreateQuestion(q)) \/ MarkStarted \/ WriteAnswer \/ RemoveRows
            \/ SaveStreamStart
         /\ answers' = answers \/ WriteAnswer \/ RemoveRows
         /\ undone \subseteq undone'
         /\ UNCHANGED saver \/ ServerCrashes \/ RecordStream
BY DEF TranscriptNext, RecordStream, ReadForStream, SaveStreamStart, saverVars, Post, Work, Project, ReadNumber, CreateQuestion, PublishTask, StartRun,
   EmitEvent, EndRun, RecordRun, WorkerDies, Deliver, Redeliver, MarkStarted, ReadAnswerNumber,
   WriteAnswer, Ack, DatabaseFails, AckLost, ServerCrashes, RemoveRows, rowVars

LEMMA DeliverySteps ==
  ASSUME TranscriptNext
  PROVE  \/ UNCHANGED <<cursor, unacked, handler, repeats, dbErrors>>
         \/ Project \/ DatabaseFails \/ AckLost \/ ServerCrashes
BY DEF TranscriptNext, RecordStream, ReadForStream, SaveStreamStart, saverVars, Post, Work, ReadNumber, CreateQuestion, PublishTask, StartRun,
   EmitEvent, EndRun, RecordRun, WorkerDies, RemoveRows, projectorVars

LEMMA PostSteps ==
  ASSUME TranscriptNext
  PROVE  /\ UNCHANGED poster \/ (\E q \in Questions : Post(q)) \/ ServerCrashes
         /\ UNCHANGED <<commands, run>> \/ (\E q \in Questions : PublishTask(q)) \/ Work \/ WorkerDies
BY DEF TranscriptNext, RecordStream, ReadForStream, SaveStreamStart, saverVars, Post, Work, Project, ReadNumber, CreateQuestion, PublishTask, StartRun,
   EmitEvent, EndRun, RecordRun, WorkerDies, Deliver, Redeliver, MarkStarted, ReadAnswerNumber,
   WriteAnswer, Ack, DatabaseFails, AckLost, ServerCrashes, RemoveRows, workerVars

-----------------------------------------------------------------------------
(* The types.                                                               *)
LEMMA RowsTyped ==
  ASSUME TypeOK, NEW i \in 1..Len(log), log[i].kind \in Outcomes
  PROVE  Ended(i) \in [Questions -> Row]
<1>1. \A q \in Questions : question[q] \in Row /\ [question[q] EXCEPT !.status = log[i].kind] \in Row
  <2>1. \A q \in Questions : question[q] \in Row
    BY TypeParts
  <2>2. log[i].kind \in Statuses
    BY DEF Statuses
  <2> QED BY <2>1, <2>2 DEF Row
<1> QED BY <1>1 DEF Ended

LEMMA StartedTyped ==
  ASSUME TypeOK, NEW i \in Nat
  PROVE  Started(i) \in [Questions -> Row]
<1>1. \A q \in Questions : /\ question[q] \in Row
                           /\ [question[q] EXCEPT !.status = "processing", !.start = i] \in Row
  <2>1. \A q \in Questions : question[q] \in Row
    BY TypeParts
  <2> QED BY <2>1 DEF Row, Statuses
<1> QED BY <1>1 DEF Started

LEMMA RemovedTyped ==
  ASSUME TypeOK, NEW qs, NEW js, Removed(qs, js)
  PROVE  /\ question' \in [Questions -> Row]
         /\ answers' \in Seq(Answer) /\ Len(answers') = Len(answers)
         /\ \A q \in Questions : \/ question'[q] = question[q]
                                 \/ /\ question'[q].status = "deleted"
                                    /\ question'[q].sequence = question[q].sequence
         /\ \A j \in 1..Len(answers) : /\ answers'[j].event = answers[j].event
                                       /\ answers'[j].sequence = answers[j].sequence
                                       /\ answers'[j].live => answers[j].live
<1>1. \A q \in Questions : question[q] \in Row
  BY TypeParts
<1>2. \A q \in Questions : /\ [question[q] EXCEPT !.status = "deleted"] \in Row
                           /\ [question[q] EXCEPT !.status = "deleted"].status = "deleted"
                           /\ [question[q] EXCEPT !.status = "deleted"].sequence = question[q].sequence
  BY <1>1 DEF Row, Statuses
<1>3. question' \in [Questions -> Row]
  BY <1>1, <1>2 DEF Removed
<1>4. \A q \in Questions : \/ question'[q] = question[q]
                           \/ /\ question'[q].status = "deleted"
                              /\ question'[q].sequence = question[q].sequence
  BY <1>2 DEF Removed
<1>5. \A j \in 1..Len(answers) : answers[j] \in Answer
  BY TypeParts
<1>6. \A j \in 1..Len(answers) : /\ [answers[j] EXCEPT !.live = FALSE] \in Answer
                                 /\ [answers[j] EXCEPT !.live = FALSE].event = answers[j].event
                                 /\ [answers[j] EXCEPT !.live = FALSE].sequence = answers[j].sequence
                                 /\ ~ [answers[j] EXCEPT !.live = FALSE].live
  BY <1>5 DEF Answer
<1>7. answers' = [j \in 1..Len(answers) |-> IF j \in js
                    THEN [answers[j] EXCEPT !.live = FALSE] ELSE answers[j]]
  BY DEF Removed
<1>8. Len(answers) \in Nat
  BY TypeParts
<1>9. answers' \in Seq(Answer) /\ Len(answers') = Len(answers)
  BY <1>5, <1>6, <1>7, <1>8
<1>10. \A j \in 1..Len(answers) : \/ answers'[j] = answers[j]
                                  \/ answers'[j] = [answers[j] EXCEPT !.live = FALSE]
  BY <1>7
<1>11. \A j \in 1..Len(answers) : /\ answers'[j].event = answers[j].event
                                  /\ answers'[j].sequence = answers[j].sequence
                                  /\ answers'[j].live => answers[j].live
  BY <1>6, <1>10
<1> QED BY <1>3, <1>4, <1>9, <1>11

LEMMA RemoveRowsTyped ==
  ASSUME RemoveRows
  PROVE  \E qs, js : Removed(qs, js)
<1>1. CASE \E q \in Questions : Exists(q) /\ Removed({q}, {})
  BY <1>1
<1>2. CASE \E j \in 1..Len(answers) : answers[j].live /\ Removed({}, {j})
  BY <1>2
<1>3. CASE Removed(Questions, 1..Len(answers))
  BY <1>3
<1> QED BY <1>1, <1>2, <1>3 DEF RemoveRows

Sound == TypeOK /\ EventInv

\* The transaction of an answer.
LEMMA WriteTyped ==
  ASSUME Sound, WriteAnswer
  PROVE  /\ question' \in [Questions -> Row]
         /\ answers' \in Seq(Answer) /\ Len(answers') = Len(answers) + 1
         /\ \A j \in 1..Len(answers) : answers'[j] = answers[j]
         /\ answers'[Len(answers) + 1] = [event |-> handler.event, sequence |-> handler.sequence,
                                          live |-> TRUE]
         /\ handler.event \in 1..Len(log) /\ log[handler.event].kind \in Outcomes
         /\ question' = Ended(handler.event)
<1>1. handler.at = "numbered" /\ question' = Ended(handler.event)
  BY DEF WriteAnswer
<1>2. handler.event \in 1..Len(log) /\ log[handler.event].kind \in Outcomes
  BY <1>1 DEF Sound, EventInv, TypeOK
<1>3. question' \in [Questions -> Row]
  BY <1>1, <1>2, RowsTyped DEF Sound
<1> DEFINE a == [event |-> handler.event, sequence |-> handler.sequence, live |-> TRUE]
<1>4. handler \in Callback
  BY TypeParts DEF Sound
<1>5. a \in Answer
  BY <1>4 DEF Callback, Answer
<1>6. answers' = Append(answers, a) /\ answers \in Seq(Answer)
  BY TypeParts DEF WriteAnswer, Sound
<1> HIDE DEF a
<1>7. /\ answers' \in Seq(Answer) /\ Len(answers') = Len(answers) + 1
      /\ \A j \in 1..Len(answers) : answers'[j] = answers[j]
      /\ answers'[Len(answers) + 1] = a
  BY <1>5, <1>6
<1> QED BY <1>1, <1>2, <1>3, <1>7 DEF a

\* The variables of posts, of the worker and of the projector, in turn.
LEMMA PosterTyped ==
  ASSUME TypeOK, TranscriptNext
  PROVE  poster' \in [Questions -> Posting]
<1>1. poster \in [Questions -> Posting] /\ \A q \in Questions : poster[q] \in Posting
  BY TypeParts
<1>2. ASSUME NEW q \in Questions, ReadNumber(q) PROVE poster' \in [Questions -> Posting]
  <2>1. PICK n \in NextNumbers : poster' = [poster EXCEPT ![q] = [at |-> "numbered", sequence |-> n]]
    BY <1>2 DEF ReadNumber
  <2>2. [at |-> "numbered", sequence |-> n] \in Posting
    BY NumbersTyped DEF Posting
  <2> QED BY <1>1, <2>1, <2>2
<1>3. ASSUME NEW q \in Questions, CreateQuestion(q) PROVE poster' \in [Questions -> Posting]
  <2>1. [at |-> "created", sequence |-> 0] \in Posting
    BY DEF Posting
  <2> QED BY <1>1, <1>3, <2>1 DEF CreateQuestion
<1>4. ASSUME NEW q \in Questions, PublishTask(q) PROVE poster' \in [Questions -> Posting]
  <2>1. \A x \in {"published", "failed"} : [poster[q] EXCEPT !.at = x] \in Posting
    BY <1>1 DEF Posting
  <2>2. \E x \in {"published", "failed"} : poster' = [poster EXCEPT ![q] = [poster[q] EXCEPT !.at = x]]
    BY <1>4 DEF PublishTask
  <2> QED BY <1>1, <2>1, <2>2
<1>5. ASSUME ServerCrashes PROVE poster' \in [Questions -> Posting]
  <2>1. \A q \in Questions : [poster[q] EXCEPT !.at = "failed"] \in Posting
    BY <1>1 DEF Posting
  <2> QED BY <1>1, <1>5, <2>1 DEF ServerCrashes
<1> QED BY <1>1, <1>2, <1>3, <1>4, <1>5, PostSteps DEF Post

LEMMA WorkerTyped ==
  ASSUME TypeOK, TranscriptNext
  PROVE  /\ commands' \subseteq Questions
         /\ run' \in [at : {"idle", "running", "ended"}, to : SUBSET Questions]
         /\ runs' \in Nat /\ deaths' \in Nat
<1> USE TypeParts
<1>1. UNCHANGED <<runs, deaths>> \/ StartRun \/ WorkerDies
  BY DEF TranscriptNext, RecordStream, ReadForStream, SaveStreamStart, saverVars, Post, Work, Project, ReadNumber, CreateQuestion, PublishTask,
     EmitEvent, EndRun, RecordRun, Deliver, Redeliver, MarkStarted, ReadAnswerNumber,
     WriteAnswer, Ack, DatabaseFails, AckLost, ServerCrashes, RemoveRows, workerVars
<1>2. runs' \in Nat /\ deaths' \in Nat
  BY <1>1 DEF StartRun, WorkerDies
<1>3. ASSUME NEW q \in Questions, PublishTask(q) PROVE commands' \subseteq Questions /\ run' = run
  BY <1>3 DEF PublishTask
<1>4. ASSUME StartRun
      PROVE  commands' \subseteq Questions
             /\ run' \in [at : {"idle", "running", "ended"}, to : SUBSET Questions]
  <2>1. PICK qs \in SUBSET commands \ {{}} : commands' = commands \ qs
                                             /\ run' = [at |-> "running", to |-> qs]
    BY <1>4 DEF StartRun
  <2>2. qs \in SUBSET Questions
    BY <2>1
  <2> QED BY <2>1, <2>2
<1>5. ASSUME EmitEvent \/ EndRun \/ RecordRun \/ WorkerDies
      PROVE  commands' \subseteq Questions
             /\ run' \in [at : {"idle", "running", "ended"}, to : SUBSET Questions]
  BY <1>5 DEF EmitEvent, EndRun, RecordRun, WorkerDies, NoRun
<1> QED BY <1>2, <1>3, <1>4, <1>5, PostSteps DEF Work

LEMMA ProjectorTyped ==
  ASSUME Sound, TranscriptNext
  PROVE  /\ cursor' \in Nat /\ unacked' \subseteq Nat /\ handler' \in Callback
         /\ repeats' \in Nat /\ dbErrors' \in Nat /\ removals' \in Nat
<1> USE TypeParts DEF Sound
<1>t. handler \in Callback /\ cursor \in Nat /\ unacked \subseteq Nat /\ handler.event \in Nat
  BY DEF Callback
<1>1. removals' \in Nat
  <2>1. removals' = removals \/ removals' = removals + 1
    BY DEF TranscriptNext, RecordStream, ReadForStream, SaveStreamStart, saverVars, Post, Work, Project, ReadNumber, CreateQuestion, PublishTask, StartRun,
       EmitEvent, EndRun, RecordRun, WorkerDies, Deliver, Redeliver, MarkStarted, ReadAnswerNumber,
       WriteAnswer, Ack, DatabaseFails, AckLost, ServerCrashes, RemoveRows
  <2> QED BY <2>1
<1>2. CASE UNCHANGED <<cursor, unacked, handler, repeats, dbErrors>>
  BY <1>1, <1>2
<1>3. CASE Deliver
  <2>1. cursor' = cursor + 1 /\ cursor' \in 1..Len(log) /\ UNCHANGED <<unacked, repeats, dbErrors>>
    BY <1>3, <1>t DEF Deliver
  <2>2. handler' \in Callback
    <3>1. CASE IsState(cursor')
      <4>1. log[cursor'].kind # "delta" /\ Take(cursor')
        BY <1>3, <3>1 DEF Deliver, IsState
      <4>2. \A i \in 1..Len(log) : log[i].kind # "delta" /\ Take(i) => handler' \in Callback
        BY TakeTyped
      <4> QED BY <2>1, <4>1, <4>2
    <3>2. CASE ~ IsState(cursor')
      BY <1>3, <1>t, <3>2 DEF Deliver
    <3> QED BY <3>1, <3>2
  <2> QED BY <1>1, <1>t, <2>1, <2>2
<1>4. CASE Redeliver
  <2>1. PICK i \in unacked : Take(i) /\ unacked' = unacked \ {i}
    BY <1>4 DEF Redeliver
  <2>2. i \in 1..Len(log) /\ log[i].kind # "delta"
    BY <1>t, <2>1 DEF EventInv
  <2>3. handler' \in Callback
    BY <2>1, <2>2, TakeTyped
  <2> QED BY <1>1, <1>4, <1>t, <2>1, <2>3 DEF Redeliver
<1>5. CASE MarkStarted \/ WriteAnswer \/ DatabaseFails
  <2>1. [handler EXCEPT !.at = "handled"] \in Callback
    BY <1>t DEF Callback
  <2>2. UNCHANGED <<cursor, unacked, repeats>> /\ handler' = [handler EXCEPT !.at = "handled"]
    BY <1>5 DEF MarkStarted, WriteAnswer, DatabaseFails
  <2>3. dbErrors' = dbErrors \/ dbErrors' = dbErrors + 1
    BY <1>5 DEF MarkStarted, WriteAnswer, DatabaseFails
  <2>4. dbErrors' \in Nat
    BY <2>3
  <2> QED BY <1>1, <1>t, <2>1, <2>2, <2>4
<1>6. CASE ReadAnswerNumber
  <2>1. PICK n \in NextNumbers : handler' = [handler EXCEPT !.at = "numbered", !.sequence = n]
    BY <1>6 DEF ReadAnswerNumber
  <2>2. [handler EXCEPT !.at = "numbered", !.sequence = n] \in Callback
    BY <1>t, NumbersTyped DEF Callback
  <2> QED BY <1>1, <1>6, <2>1, <2>2 DEF ReadAnswerNumber
<1>7. CASE Ack \/ AckLost \/ ServerCrashes
  <2>1. Idle \in Callback
    BY DEF Idle, Callback
  <2> QED BY <1>1, <1>7, <1>t, <2>1 DEF Ack, AckLost, ServerCrashes
<1> QED BY <1>2, <1>3, <1>4, <1>5, <1>6, <1>7, DeliverySteps DEF Project

LEMMA SaverTyped ==
  ASSUME TypeOK, TranscriptNext
  PROVE  /\ saver' \in [at : {"idle", "read", "done"}, rows : SUBSET Questions]
         /\ undone' \subseteq Questions
         /\ SaveStreamStart => question' \in [Questions -> Row]
<1>1. /\ saver \in [at : {"idle", "read", "done"}, rows : SUBSET Questions]
      /\ undone \subseteq Questions /\ \A q \in Questions : question[q] \in Row
  BY TypeParts
<1>2. UNCHANGED <<saver, undone>> \/ ServerCrashes \/ ReadForStream \/ SaveStreamStart
  BY DEF TranscriptNext, RecordStream, saverVars, Post, Work, Project, ReadNumber, CreateQuestion,
     PublishTask, StartRun, EmitEvent, EndRun, RecordRun, WorkerDies, Deliver, Redeliver,
     MarkStarted, ReadAnswerNumber, WriteAnswer, Ack, DatabaseFails, AckLost, RemoveRows
<1>3. CASE UNCHANGED <<saver, undone>> /\ ~ SaveStreamStart
  BY <1>1, <1>3
<1>4. CASE ServerCrashes /\ ~ SaveStreamStart
  BY <1>1, <1>4 DEF ServerCrashes
<1>5. CASE ReadForStream /\ ~ SaveStreamStart
  BY <1>1, <1>5 DEF ReadForStream, Processing
<1>6. CASE SaveStreamStart
  <2>1. \A q \in Questions : [question[q] EXCEPT !.status = "processing"] \in Row
    BY <1>1 DEF Row, Statuses
  <2> QED BY <1>1, <1>6, <2>1 DEF SaveStreamStart
<1> QED BY <1>2, <1>3, <1>4, <1>5, <1>6

LEMMA TypesKept == Sound /\ [TranscriptNext]_vars => TypeOK'
<1> SUFFICES ASSUME Sound, [TranscriptNext]_vars PROVE TypeOK'
  OBVIOUS
<1>1. CASE UNCHANGED vars
  BY <1>1 DEF Sound, TypeOK, vars, rowVars, workerVars, projectorVars, saverVars
<1>2. CASE TranscriptNext
  <2>1. question' \in [Questions -> Row] /\ answers' \in Seq(Answer)
    <3>1. question \in [Questions -> Row] /\ answers \in Seq(Answer)
      BY TypeParts DEF Sound
    <3>2. ASSUME NEW q \in Questions, CreateQuestion(q) PROVE question' \in [Questions -> Row]
      <4>1. poster[q] \in Posting
        BY TypeParts DEF Sound
      <4>2. [status |-> "pending", sequence |-> poster[q].sequence, start |-> 0] \in Row
        BY <4>1 DEF Posting, Row, Statuses
      <4> QED BY <3>1, <3>2, <4>2 DEF CreateQuestion
    <3>3. ASSUME MarkStarted PROVE question' \in [Questions -> Row]
      <4>1. handler.event \in Nat
        BY TypeParts DEF Sound, Callback
      <4> QED BY <3>3, <4>1, StartedTyped DEF MarkStarted, Sound
    <3>4. ASSUME RemoveRows PROVE question' \in [Questions -> Row] /\ answers' \in Seq(Answer)
      BY <3>4, RemoveRowsTyped, RemovedTyped DEF Sound
    <3> QED BY <1>2, <3>1, <3>2, <3>3, <3>4, RowSteps, WriteTyped, SaverTyped DEF Sound
  <2>2. log' \in Seq(Entry)
    BY <1>2, LogSteps DEF Sound
  <2>3. poster' \in [Questions -> Posting]
    BY <1>2, PosterTyped DEF Sound
  <2>4. /\ commands' \subseteq Questions
        /\ run' \in [at : {"idle", "running", "ended"}, to : SUBSET Questions]
        /\ runs' \in Nat /\ deaths' \in Nat
    BY <1>2, WorkerTyped DEF Sound
  <2>5. /\ cursor' \in Nat /\ unacked' \subseteq Nat /\ handler' \in Callback
        /\ repeats' \in Nat /\ dbErrors' \in Nat /\ removals' \in Nat
    BY <1>2, ProjectorTyped
  <2>6. /\ saver' \in [at : {"idle", "read", "done"}, rows : SUBSET Questions]
        /\ undone' \subseteq Questions
    BY <1>2, SaverTyped DEF Sound
  <2> QED BY <2>1, <2>2, <2>3, <2>4, <2>5, <2>6 DEF TypeOK, Row, Answer, Posting, Entry, Callback
<1> QED BY <1>1, <1>2

\* What deliveries refer to stays where it is.
LEMMA EventsKept == Sound /\ [TranscriptNext]_vars => EventInv'
<1> SUFFICES ASSUME Sound, [TranscriptNext]_vars PROVE EventInv'
  OBVIOUS
<1> USE TypeParts DEF Sound
<1>1. CASE UNCHANGED vars
  BY <1>1 DEF EventInv, vars, rowVars, workerVars, projectorVars
<1>2. CASE TranscriptNext
  <2>t. handler \in Callback /\ cursor \in Nat /\ unacked \subseteq Nat /\ Len(log) \in Nat
        /\ cursor <= Len(log)
    BY DEF EventInv
  <2>l. log' \in Seq(Entry) /\ Len(log) <= Len(log') /\ \A i \in 1..Len(log) : log'[i] = log[i]
    BY <1>2, LogSteps
  <2>a. \A j \in 1..Len(answers') :
          answers'[j].event \in 1..Len(log') /\ log'[answers'[j].event].kind \in Outcomes
    <3>1. \A j \in 1..Len(answers) :
            answers[j].event \in 1..Len(log') /\ log'[answers[j].event].kind \in Outcomes
      <4> TAKE j \in 1..Len(answers)
      <4>1. answers[j].event \in 1..Len(log) /\ log[answers[j].event].kind \in Outcomes
        BY DEF EventInv
      <4>2. answers[j].event \in 1..Len(log') /\ log'[answers[j].event] = log[answers[j].event]
        BY <2>t, <2>l, <4>1
      <4> QED BY <4>1, <4>2
    <3>2. CASE WriteAnswer
      <4>1. handler.event \in 1..Len(log') /\ log'[handler.event].kind \in Outcomes
        BY <2>l, <3>2, WriteTyped
      <4>2. /\ Len(answers') = Len(answers) + 1 /\ Len(answers) \in Nat
            /\ \A j \in 1..Len(answers) : answers'[j] = answers[j]
            /\ answers'[Len(answers) + 1].event = handler.event
        BY <3>2, WriteTyped
      <4> SUFFICES ASSUME NEW j \in 1..Len(answers')
                   PROVE  answers'[j].event \in 1..Len(log')
                          /\ log'[answers'[j].event].kind \in Outcomes
        OBVIOUS
      <4>3. j \in 1..Len(answers) \/ j = Len(answers) + 1
        BY <4>2
      <4> QED BY <3>1, <4>1, <4>2, <4>3
    <3>3. CASE RemoveRows
      <4>1. /\ Len(answers') = Len(answers)
            /\ \A j \in 1..Len(answers) : answers'[j].event = answers[j].event
        BY <3>3, RemoveRowsTyped, RemovedTyped
      <4> QED BY <3>1, <4>1
    <3> QED BY <1>2, <3>1, <3>2, <3>3, RowSteps
  <2> DEFINE Deliveries ==
        /\ cursor' <= Len(log)
        /\ handler'.at = "idle" => handler'.event = 0
        /\ handler'.at # "idle" => handler'.event \in 1..cursor' /\ log[handler'.event].kind # "delta"
        /\ handler'.at \in {"ending", "numbered"} => log[handler'.event].kind \in Outcomes
        /\ \A i \in unacked' : i \in 1..cursor' /\ log[i].kind # "delta"
        /\ handler'.event \notin unacked'
  <2>d. Deliveries => EventInv'
    <3> SUFFICES ASSUME Deliveries PROVE EventInv'
      OBVIOUS
    <3>1. cursor' <= Len(log') /\ cursor' \in Nat
      BY <1>2, <2>t, <2>l, ProjectorTyped
    <3>2. \A i \in 1..cursor' : log'[i] = log[i]
      <4>1. \A i \in 1..Len(log) : log'[i] = log[i]
        BY <2>l
      <4>2. cursor' <= Len(log) /\ cursor' \in Nat /\ Len(log) \in Nat
        BY <2>t, <3>1
      <4> HIDE DEF Deliveries
      <4> QED BY <4>1, <4>2
    <3>3. handler'.at # "idle" => /\ handler'.event \in 1..cursor'
                                  /\ log'[handler'.event].kind # "delta"
      BY <3>2
    <3>4. handler'.at \in {"ending", "numbered"} => log'[handler'.event].kind \in Outcomes
      BY <3>2
    <3>5. \A i \in unacked' : i \in 1..cursor' /\ log'[i].kind # "delta"
      BY <3>2
    <3> QED BY <2>a, <3>1, <3>3, <3>4, <3>5 DEF EventInv
  <2>1. CASE UNCHANGED <<cursor, unacked, handler, repeats, dbErrors>>
    <3>1. Deliveries
      BY <2>1 DEF EventInv
    <3> QED BY <2>d, <3>1
  <2>2. CASE Deliver
    <3>1. /\ cursor' = cursor + 1 /\ cursor' \in 1..Len(log) /\ UNCHANGED unacked
          /\ handler.at = "idle" /\ handler.event = 0
      BY <2>2, <2>t DEF Deliver, EventInv
    <3>2. CASE IsState(cursor')
      <4>1. log[cursor'].kind # "delta" /\ Take(cursor')
        BY <2>2, <3>2 DEF Deliver, IsState
      <4>2. \A i \in 1..Len(log) : log[i].kind # "delta" /\ Take(i) =>
              /\ handler'.event = i /\ handler'.at \in {"starting", "ending", "handled"}
              /\ handler'.at = "ending" <=> log[i].kind \in Outcomes
        BY TakeTyped
      <4>3. /\ handler'.event = cursor' /\ handler'.at \in {"starting", "ending", "handled"}
            /\ handler'.at = "ending" <=> log[cursor'].kind \in Outcomes
        BY <3>1, <4>1, <4>2
      <4>4. Deliveries
        BY <2>t, <3>1, <4>1, <4>3 DEF EventInv
      <4> QED BY <2>d, <4>4
    <3>3. CASE ~ IsState(cursor')
      <4>1. handler' = handler
        BY <2>2, <3>3 DEF Deliver
      <4>2. Deliveries
        BY <2>t, <3>1, <4>1 DEF EventInv
      <4> QED BY <2>d, <4>2
    <3> QED BY <3>2, <3>3
  <2>3. CASE Redeliver
    <3>1. PICK i \in unacked : Take(i) /\ unacked' = unacked \ {i}
      BY <2>3 DEF Redeliver
    <3>2. i \in 1..Len(log) /\ i \in 1..cursor /\ log[i].kind # "delta" /\ UNCHANGED cursor
      BY <2>3, <2>t, <3>1 DEF EventInv, Redeliver
    <3>3. /\ handler'.event = i /\ handler'.at \in {"starting", "ending", "handled"}
          /\ handler'.at = "ending" <=> log[i].kind \in Outcomes
      BY <3>1, <3>2, TakeTyped
    <3>4. Deliveries
      BY <2>t, <3>1, <3>2, <3>3 DEF EventInv
    <3> QED BY <2>d, <3>4
  <2>4. CASE MarkStarted \/ WriteAnswer \/ DatabaseFails
    <3>1. handler' = [handler EXCEPT !.at = "handled"] /\ UNCHANGED <<cursor, unacked>>
          /\ handler.at # "idle"
      BY <2>4 DEF MarkStarted, WriteAnswer, DatabaseFails
    <3>2. handler'.at = "handled" /\ handler'.event = handler.event
      BY <2>t, <3>1 DEF Callback
    <3>3. Deliveries
      BY <3>1, <3>2 DEF EventInv
    <3> QED BY <2>d, <3>3
  <2>5. CASE ReadAnswerNumber
    <3>1. handler.at = "ending" /\ handler'.at = "numbered" /\ handler'.event = handler.event
          /\ UNCHANGED <<cursor, unacked>>
      BY <2>5, <2>t DEF ReadAnswerNumber, Callback
    <3>2. Deliveries
      BY <3>1 DEF EventInv
    <3> QED BY <2>d, <3>2
  <2>6. CASE Ack \/ AckLost \/ ServerCrashes
    <3>1. handler'.at = "idle" /\ handler'.event = 0 /\ UNCHANGED cursor
      BY <2>6 DEF Ack, AckLost, ServerCrashes, Idle
    <3>2. unacked' \subseteq unacked \cup ({handler.event} \ {0})
      <4>1. AckLost => handler.event # 0
        BY <2>t DEF AckLost, EventInv
      <4> QED BY <2>6, <4>1 DEF Ack, AckLost, ServerCrashes
    <3>3. Deliveries
      BY <2>t, <3>1, <3>2 DEF EventInv, Callback
    <3> QED BY <2>d, <3>3
  <2> QED BY <1>2, <2>1, <2>2, <2>3, <2>4, <2>5, <2>6, DeliverySteps DEF Project
<1> QED BY <1>1, <1>2

(* The variables keep their types, and what was delivered was published.    *)
THEOREM TranscriptTyped == Spec => []Sound
<1>1. Init => Sound
  BY DEF Init, Sound, TypeOK, EventInv, Idle, NoRun, Statuses
<1>2. Sound /\ [TranscriptNext]_vars => Sound'
  BY TypesKept, EventsKept DEF Sound
<1> QED BY <1>1, <1>2, PTL DEF Spec

-----------------------------------------------------------------------------
(* What a step does to a question, to the answers and to the callback.      *)
LEMMA QuestionChanges ==
  ASSUME Sound, TranscriptNext, NEW q \in Questions
  PROVE  /\ \/ question'[q] = question[q]
            \/ CreateQuestion(q) /\ question'[q].status = "pending"
            \/ /\ question[q].status = "pending" /\ question'[q].status = "processing"
               /\ question'[q].sequence = question[q].sequence
            \/ /\ WriteAnswer /\ q \in log[handler.event].to /\ Exists(q)
               /\ question'[q].status = log[handler.event].kind
               /\ question'[q].sequence = question[q].sequence
            \/ /\ Exists(q) /\ question'[q].status = "deleted"
               /\ question'[q].sequence = question[q].sequence
            \/ /\ SaveStreamStart /\ q \in saver.rows /\ question'[q].status = "processing"
               /\ question'[q].sequence = question[q].sequence
               /\ question[q].status = "processing" \/ q \in undone'
         /\ WriteAnswer /\ q \in log[handler.event].to /\ Exists(q)
              => question'[q].status = log[handler.event].kind
<1>t. question \in [Questions -> Row] /\ question[q] \in Row
  BY TypeParts DEF Sound
<1>1. ASSUME NEW x \in Questions, CreateQuestion(x)
      PROVE  question'[q] = question[q] \/ (x = q /\ question'[q].status = "pending")
  BY <1>1, <1>t DEF CreateQuestion
<1>2. ASSUME MarkStarted
      PROVE  \/ question'[q] = question[q]
             \/ /\ question[q].status = "pending" /\ question'[q].status = "processing"
                /\ question'[q].sequence = question[q].sequence
  BY <1>2, <1>t DEF MarkStarted, Started, Row
<1>3. ASSUME WriteAnswer
      PROVE  IF q \in log[handler.event].to /\ Exists(q)
             THEN /\ question'[q].status = log[handler.event].kind
                  /\ question'[q].sequence = question[q].sequence
             ELSE question'[q] = question[q]
  BY <1>3, <1>t DEF WriteAnswer, Ended, Row
<1>4. ASSUME RemoveRows
      PROVE  \/ question'[q] = question[q]
             \/ /\ Exists(q) /\ question'[q].status = "deleted"
                /\ question'[q].sequence = question[q].sequence
  <2>1. PICK qs, js : Removed(qs, js)
    BY <1>4, RemoveRowsTyped
  <2> QED BY <2>1, <1>t DEF Removed, Row
<1>5. ASSUME SaveStreamStart
      PROVE  \/ question'[q] = question[q]
             \/ /\ q \in saver.rows /\ question'[q].status = "processing"
                /\ question'[q].sequence = question[q].sequence
                /\ question[q].status = "processing" \/ q \in undone'
  BY <1>5, <1>t DEF SaveStreamStart, Processing, Row
<1> QED BY <1>1, <1>2, <1>3, <1>4, <1>5, RowSteps

LEMMA AnswerChanges ==
  ASSUME Sound, TranscriptNext
  PROVE  /\ Len(answers) \in Nat /\ Len(answers') \in Nat
         /\ \A j \in 1..Len(answers) : /\ j \in 1..Len(answers')
                                       /\ answers'[j].event = answers[j].event
                                       /\ answers'[j].sequence = answers[j].sequence
                                       /\ answers'[j].live => answers[j].live
         /\ \/ Len(answers') = Len(answers)
            \/ /\ WriteAnswer /\ Len(answers') = Len(answers) + 1
               /\ answers'[Len(answers')].event = handler.event
               /\ answers'[Len(answers')].sequence = handler.sequence
         /\ WriteAnswer => Len(answers') = Len(answers) + 1
<1>t. Len(answers) \in Nat
  BY TypeParts DEF Sound
<1>1. CASE answers' = answers /\ ~ WriteAnswer
  BY <1>t, <1>1
<1>2. CASE WriteAnswer
  <2>1. /\ Len(answers') = Len(answers) + 1
        /\ \A j \in 1..Len(answers) : answers'[j] = answers[j]
        /\ answers'[Len(answers) + 1] = [event |-> handler.event, sequence |-> handler.sequence,
                                         live |-> TRUE]
    BY <1>2, WriteTyped
  <2> QED BY <1>t, <1>2, <2>1
<1>3. CASE RemoveRows /\ ~ WriteAnswer
  <2>1. /\ Len(answers') = Len(answers)
        /\ \A j \in 1..Len(answers) : /\ answers'[j].event = answers[j].event
                                      /\ answers'[j].sequence = answers[j].sequence
                                      /\ answers'[j].live => answers[j].live
    BY <1>3, RemoveRowsTyped, RemovedTyped DEF Sound
  <2> QED BY <1>t, <1>3, <2>1
<1> QED BY <1>1, <1>2, <1>3, RowSteps

LEMMA Numbered ==
  ASSUME Sound, TranscriptNext, handler'.at = "numbered"
  PROVE  handler' = handler \/ ReadAnswerNumber
<1>t. handler \in Callback
  BY TypeParts DEF Sound
<1>1. CASE Deliver
  <2>1. cursor' \in 1..Len(log)
    BY <1>1, TypeParts DEF Deliver, Sound
  <2>2. \A i \in 1..Len(log) : log[i].kind # "delta" /\ Take(i) => handler'.at # "numbered"
    BY TakeTyped DEF Sound
  <2> QED BY <1>1, <2>1, <2>2 DEF Deliver, IsState
<1>2. CASE Redeliver
  <2>1. PICK i \in unacked : Take(i)
    BY <1>2 DEF Redeliver
  <2>2. i \in 1..Len(log) /\ log[i].kind # "delta"
    BY <2>1, TypeParts DEF Sound, EventInv
  <2> QED BY <2>1, <2>2, TakeTyped DEF Sound
<1>3. CASE MarkStarted \/ WriteAnswer \/ DatabaseFails
  BY <1>3, <1>t DEF MarkStarted, WriteAnswer, DatabaseFails, Callback
<1>4. CASE Ack \/ AckLost \/ ServerCrashes
  BY <1>4 DEF Ack, AckLost, ServerCrashes, Idle
<1> QED BY <1>1, <1>2, <1>3, <1>4, DeliverySteps DEF Project

-----------------------------------------------------------------------------
(* Questions are created and published before they are run.                 *)
LEMMA PostedKept == Sound /\ PostedInv /\ [TranscriptNext]_vars => PostedInv'
<1> SUFFICES ASSUME Sound, PostedInv, [TranscriptNext]_vars PROVE PostedInv'
  OBVIOUS
<1>1. CASE UNCHANGED vars
  BY <1>1 DEF PostedInv, vars, rowVars, workerVars, projectorVars, saverVars
<1>2. CASE TranscriptNext
  <2>t. poster \in [Questions -> Posting] /\ commands \subseteq Questions /\ run.to \subseteq Questions
    BY TypeParts DEF Sound
  <2>1. ASSUME NEW q \in Questions
        PROVE  /\ poster[q].at = "published" => poster'[q].at = "published"
               /\ poster'[q].at \in {"idle", "numbered"} => poster[q].at \in {"idle", "numbered"}
               /\ CreateQuestion(q) => poster'[q].at = "created"
    <3>1. \A x \in Questions : CreateQuestion(x) =>
            /\ poster[x].at = "numbered"
            /\ poster'[q].at = IF x = q THEN "created" ELSE poster[q].at
      BY <2>t DEF CreateQuestion
    <3>2. \A x \in Questions : ReadNumber(x) =>
            /\ poster[x].at = "idle"
            /\ poster'[q].at = IF x = q THEN "numbered" ELSE poster[q].at
      BY <2>t DEF ReadNumber
    <3>3. \A x \in Questions : PublishTask(x) =>
            /\ poster[x].at = "created"
            /\ poster'[q].at = poster[q].at \/ (x = q /\ poster'[q].at \in {"published", "failed"})
      BY <2>t DEF PublishTask, Posting
    <3>4. ServerCrashes => poster'[q].at = poster[q].at
                           \/ (poster[q].at # "published" /\ poster'[q].at = "failed")
      BY <2>t DEF ServerCrashes, Posting
    <3> QED BY <1>2, <3>1, <3>2, <3>3, <3>4, PostSteps DEF Post
  <2>2. \A q \in Questions : poster'[q].at \in {"idle", "numbered"} => question'[q].status = "absent"
    <3> SUFFICES ASSUME NEW q \in Questions, poster'[q].at \in {"idle", "numbered"}
                 PROVE  question'[q].status = "absent"
      OBVIOUS
    <3>1. question[q].status = "absent" /\ ~ CreateQuestion(q) /\ q \notin saver.rows
      BY <2>1 DEF PostedInv
    <3> QED BY <1>2, <3>1, QuestionChanges DEF Exists
  <2>3. \A q \in commands' \cup run'.to : poster'[q].at = "published"
    <3>1. CASE UNCHANGED <<commands, run>>
      BY <2>1, <2>t, <3>1 DEF PostedInv
    <3>2. ASSUME NEW x \in Questions, PublishTask(x)
          PROVE  \A q \in commands' \cup run'.to : poster'[q].at = "published"
      <4>1. /\ run' = run
            /\ \/ commands' = commands
               \/ commands' = commands \cup {x} /\ poster'[x].at = "published"
        BY <2>t, <3>2 DEF PublishTask, Posting
      <4> QED BY <2>1, <2>t, <4>1 DEF PostedInv
    <3>3. CASE Work \/ WorkerDies
      <4>1. commands' \cup run'.to \subseteq commands \cup run.to
        <5>1. CASE StartRun
          <6>1. PICK qs \in SUBSET commands \ {{}} :
                  commands' = commands \ qs /\ run' = [at |-> "running", to |-> qs]
            BY <5>1 DEF StartRun
          <6> QED BY <6>1
        <5>2. CASE EmitEvent
          BY <5>2 DEF EmitEvent
        <5>3. CASE EndRun
          <6>1. run'.to = run.to /\ commands' = commands
            BY <5>3, TypeParts DEF EndRun, Sound
          <6> QED BY <6>1
        <5>4. CASE RecordRun
          BY <5>4 DEF RecordRun, NoRun
        <5>5. CASE WorkerDies
          BY <5>5 DEF WorkerDies, NoRun
        <5> QED BY <3>3, <5>1, <5>2, <5>3, <5>4, <5>5 DEF Work
      <4> QED BY <2>1, <2>t, <4>1 DEF PostedInv
    <3> QED BY <1>2, <3>1, <3>2, <3>3, PostSteps
  <2>4. \A i \in 1..Len(log') : \A q \in log'[i].to : poster'[q].at = "published"
    <3>0. log \in Seq(Entry) /\ \A i \in 1..Len(log) : log[i].to \subseteq Questions
      <4>1. \A i \in 1..Len(log) : log[i] \in Entry
        BY TypeParts DEF Sound
      <4> QED BY <4>1, TypeParts DEF Entry, Sound
    <3>1. \A i \in 1..Len(log) : \A q \in log[i].to : poster'[q].at = "published"
      BY <2>1, <3>0 DEF PostedInv
    <3>2. CASE log' = log
      BY <3>1, <3>2
    <3>3. ASSUME StartRun \/ EmitEvent \/ EndRun
          PROVE  \E e \in Entry : log' = Append(log, e) /\ e.to \subseteq commands \cup run.to
      <4>1. StartRun => \E qs \in SUBSET commands : log' = Append(log, Event(runs + 1, "started", qs))
        BY DEF StartRun
      <4>2. EmitEvent => \E k \in Middle : log' = Append(log, Event(runs, k, run.to))
        BY DEF EmitEvent
      <4>3. EndRun => \E k \in Outcomes : log' = Append(log, Event(runs, k, run.to))
        BY DEF EndRun
      <4>4. runs \in Nat /\ \A qs \in SUBSET commands : qs \in SUBSET Questions
        BY <2>t, TypeParts DEF Sound
      <4>5. \A n \in Nat, k \in Kinds, qs \in SUBSET Questions :
              Event(n, k, qs) \in Entry /\ Event(n, k, qs).to = qs
        BY DEF Event, Entry
      <4>6. Middle \subseteq Kinds /\ Outcomes \subseteq Kinds /\ "started" \in Kinds
        BY DEF Kinds
      <4>7. CASE StartRun
        BY <4>1, <4>4, <4>5, <4>6, <4>7
      <4>8. CASE EmitEvent \/ EndRun
        BY <2>t, <4>2, <4>3, <4>4, <4>5, <4>6, <4>8
      <4> QED BY <3>3, <4>7, <4>8
    <3>4. CASE StartRun \/ EmitEvent \/ EndRun
      <4>1. PICK e \in Entry : log' = Append(log, e) /\ e.to \subseteq commands \cup run.to
        BY <3>3, <3>4
      <4>2. \A q \in e.to : poster'[q].at = "published"
        BY <2>1, <2>t, <4>1 DEF PostedInv
      <4> SUFFICES ASSUME NEW i \in 1..Len(log') PROVE \A q \in log'[i].to : poster'[q].at = "published"
        OBVIOUS
      <4>3. (i \in 1..Len(log) /\ log'[i] = log[i]) \/ log'[i] = e
        BY <3>0, <4>1
      <4> QED BY <3>1, <4>2, <4>3
    <3>5. log' = log \/ StartRun \/ EmitEvent \/ EndRun
      BY <1>2, LogSteps DEF Sound
    <3> QED BY <3>2, <3>4, <3>5
  <2>5. \A q \in saver'.rows : question'[q].status \notin {"absent", "pending"}
    <3> SUFFICES ASSUME NEW q \in saver'.rows
                 PROVE  question'[q].status \notin {"absent", "pending"}
      OBVIOUS
    <3>1. q \in Questions
      BY <1>2, SaverTyped DEF Sound
    <3>2. CASE q \in saver.rows
      <4>1. question[q].status \notin {"absent", "pending"} /\ ~ CreateQuestion(q)
        BY <3>1, <3>2 DEF PostedInv, CreateQuestion
      <4>2. WriteAnswer => log[handler.event].kind \notin {"absent", "pending"}
        BY WriteTyped DEF Outcomes
      <4> QED BY <1>2, <3>1, <4>1, <4>2, QuestionChanges
    <3>3. CASE q \notin saver.rows
      <4>1. ReadForStream
        BY <1>2, <3>3, RowSteps DEF ServerCrashes, RecordStream, SaveStreamStart
      <4>2. question' = question /\ question[q].status = "processing"
        BY <3>3, <4>1, TypeParts DEF ReadForStream, Processing, rowVars, Sound
      <4> QED BY <4>2
    <3> QED BY <3>2, <3>3
  <2> QED BY <2>2, <2>3, <2>4, <2>5 DEF PostedInv
<1> QED BY <1>1, <1>2

(* A run answers only questions that were created before their command was  *)
(* published, and the stream projector saves only rows that have begun.     *)
THEOREM QuestionsArePosted == Spec => []PostedInv
<1>1. Init => PostedInv
  BY DEF Init, PostedInv, NoRun
<1> QED BY <1>1, PostedKept, TranscriptTyped, PTL DEF Spec

-----------------------------------------------------------------------------
LEMMA EntryParts ==
  ASSUME Sound
  PROVE  \A i \in 1..Len(log) : log[i].to \subseteq Questions /\ log[i].kind \in Kinds
<1>1. \A i \in 1..Len(log) : log[i] \in Entry
  BY TypeParts DEF Sound
<1> QED BY <1>1 DEF Entry

(* A question shows an outcome only if an answer with it was written.       *)
THEOREM OutcomesHaveAnswers == Spec => []OutcomeHasAnswer
<1>1. Init => OutcomeHasAnswer
  BY DEF Init, OutcomeHasAnswer, Outcomes
<1>2. Sound /\ OutcomeHasAnswer /\ [TranscriptNext]_vars => OutcomeHasAnswer'
  <2> SUFFICES ASSUME Sound, OutcomeHasAnswer, [TranscriptNext]_vars PROVE OutcomeHasAnswer'
    OBVIOUS
  <2>1. CASE UNCHANGED vars
    BY <2>1 DEF OutcomeHasAnswer, OutcomeOf, AnsweredBy, vars, rowVars, workerVars
  <2>2. CASE TranscriptNext
    <3> SUFFICES ASSUME NEW q \in Questions, question'[q].status \in Outcomes
                 PROVE  \E j \in 1..Len(answers') :
                          /\ q \in log'[answers'[j].event].to
                          /\ log'[answers'[j].event].kind = question'[q].status
      BY DEF OutcomeHasAnswer, OutcomeOf, AnsweredBy
    <3>l. \A i \in 1..Len(log) : log'[i] = log[i]
      BY <2>2, LogSteps DEF Sound
    <3>1. CASE question'[q] = question[q]
      <4>1. PICK j \in 1..Len(answers) : /\ q \in log[answers[j].event].to
                                         /\ log[answers[j].event].kind = question[q].status
        BY <3>1 DEF OutcomeHasAnswer, OutcomeOf, AnsweredBy
      <4>2. answers[j].event \in 1..Len(log)
        BY DEF Sound, EventInv
      <4>3. j \in 1..Len(answers') /\ answers'[j].event = answers[j].event
        BY <2>2, AnswerChanges
      <4> QED BY <3>1, <3>l, <4>1, <4>2, <4>3
    <3>2. CASE /\ WriteAnswer /\ q \in log[handler.event].to
               /\ question'[q].status = log[handler.event].kind
      <4>1. handler.event \in 1..Len(log)
        BY <3>2, WriteTyped
      <4>2. Len(answers') \in 1..Len(answers') /\ answers'[Len(answers')].event = handler.event
        BY <2>2, <3>2, AnswerChanges
      <4> QED BY <3>2, <3>l, <4>1, <4>2
    <3>3. question'[q].status \notin {"pending", "processing", "deleted"}
      BY DEF Outcomes
    <3> QED BY <2>2, <3>1, <3>2, <3>3, QuestionChanges
  <2> QED BY <2>1, <2>2
<1> QED BY <1>1, <1>2, TranscriptTyped, PTL DEF Spec

(* An outcome is undone only by the stream projector, when it saves a row   *)
(* it read before; neither deliveries nor repeated runs reopen a question.  *)
THEOREM OutcomesStay == Spec => OutcomeStays
<1>1. Sound /\ PostedInv /\ [TranscriptNext]_vars =>
        [\A q \in Questions :
           question[q].status \in Outcomes
           /\ question'[q].status \in {"absent", "pending", "processing"}
             => q \in saver.rows \ saver'.rows]_vars
  <2> SUFFICES ASSUME Sound, PostedInv, TranscriptNext,
                      NEW q \in Questions, question[q].status \in Outcomes,
                      question'[q].status \in {"absent", "pending", "processing"}
               PROVE  q \in saver.rows \ saver'.rows
    OBVIOUS
  <2>1. question[q].status \notin {"absent", "pending", "processing"}
    BY DEF Outcomes
  <2>2. ~ CreateQuestion(q)
    BY <2>1 DEF CreateQuestion, PostedInv
  <2>3. WriteAnswer => log[handler.event].kind \notin {"absent", "pending", "processing"}
    BY WriteTyped DEF Outcomes
  <2>4. SaveStreamStart /\ q \in saver.rows
    BY <2>1, <2>2, <2>3, QuestionChanges
  <2>5. saver'.rows = {}
    BY <2>4 DEF SaveStreamStart
  <2> QED BY <2>4, <2>5
<1> QED BY <1>1, TranscriptTyped, QuestionsArePosted, PTL DEF Spec, OutcomeStays

(* In the transcript an answer comes after each question it answers, but    *)
(* for removed questions that the stream projector saved again.             *)
THEOREM AnswersFollowQuestions == Spec => []AnswerAfterQuestion
<1> DEFINE Inv == NumberInv /\ AnswerAfterQuestion
<1>1. Init => Inv
  BY DEF Init, NumberInv, AnswerAfterQuestion, Idle
<1>2. Sound /\ PostedInv /\ Inv /\ [TranscriptNext]_vars => Inv'
  <2> SUFFICES ASSUME Sound, PostedInv, Inv, [TranscriptNext]_vars PROVE Inv'
    OBVIOUS
  <2>1. CASE UNCHANGED vars
    BY <2>1 DEF NumberInv, AnswerAfterQuestion, AnsweredBy, Exists, vars, rowVars, workerVars,
       projectorVars, saverVars
  <2>2. CASE TranscriptNext
    <3>l. \A i \in 1..Len(log) : log'[i] = log[i]
      BY <2>2, LogSteps DEF Sound
    <3>q. ASSUME NEW i \in 1..Len(log), NEW q \in log[i].to \ undone', Exists(q)'
          PROVE  /\ q \in Questions \ undone /\ Exists(q)
                 /\ question'[q].sequence = question[q].sequence
      <4>1. q \in Questions /\ ~ CreateQuestion(q)
        BY EntryParts DEF PostedInv, CreateQuestion
      <4>2. q \notin undone
        BY <2>2, RowSteps
      <4> QED BY <2>2, <3>q, <4>1, <4>2, QuestionChanges DEF Exists
    <3>1. NumberInv'
      <4> SUFFICES ASSUME handler'.at = "numbered", NEW q \in log'[handler'.event].to \ undone',
                          Exists(q)'
                   PROVE  question'[q].sequence < handler'.sequence
        BY DEF NumberInv
      <4>1. CASE handler' = handler
        <5>1. handler.event \in 1..Len(log)
          BY <4>1, TypeParts DEF Sound, EventInv
        <5>2. q \in log[handler.event].to \ undone'
          BY <3>l, <4>1, <5>1
        <5> QED BY <3>q, <4>1, <5>1, <5>2 DEF NumberInv
      <4>2. CASE ReadAnswerNumber
        <5>1. PICK n \in NextNumbers : handler' = [handler EXCEPT !.at = "numbered", !.sequence = n]
          BY <4>2 DEF ReadAnswerNumber
        <5>2. handler'.event = handler.event /\ handler'.sequence = n /\ handler.at = "ending"
          BY <4>2, <5>1, TypeParts DEF Sound, Callback, ReadAnswerNumber
        <5>3. handler.event \in 1..Len(log)
          BY <5>2, TypeParts DEF Sound, EventInv
        <5>4. q \in Questions /\ Exists(q) /\ question'[q].sequence = question[q].sequence
          BY <3>q, <3>l, <5>2, <5>3
        <5>5. question[q].sequence \in Numbers /\ question[q].sequence \in Nat
          BY <5>4, TypeParts DEF Numbers, Sound, Row
        <5>6. PICK m \in Numbers \cup {0} : n = m + 1 /\ \A k \in Numbers : k <= m
          BY <5>1 DEF NextNumbers
        <5>7. m \in Nat
          <6>1. \A k \in Numbers : k \in Nat
            <7>1. \A x \in Questions : question[x].sequence \in Nat
              BY TypeParts DEF Sound, Row
            <7>2. \A j \in 1..Len(answers) : answers[j] \in Answer
              BY TypeParts DEF Sound
            <7> QED BY <7>1, <7>2 DEF Numbers, Answer
          <6> QED BY <5>6, <6>1
        <5> QED BY <5>2, <5>4, <5>5, <5>6, <5>7
      <4> QED BY <2>2, <4>1, <4>2, Numbered
    <3>2. AnswerAfterQuestion'
      <4> SUFFICES ASSUME NEW j \in 1..Len(answers'), answers'[j].live,
                          NEW q \in log'[answers'[j].event].to \ undone', Exists(q)'
                   PROVE  question'[q].sequence < answers'[j].sequence
        BY DEF AnswerAfterQuestion, AnsweredBy
      <4>1. CASE j \in 1..Len(answers)
        <5>1. /\ answers'[j].event = answers[j].event /\ answers'[j].sequence = answers[j].sequence
              /\ answers[j].live
          BY <2>2, <4>1, AnswerChanges
        <5>2. answers[j].event \in 1..Len(log)
          BY <4>1 DEF Sound, EventInv
        <5>3. q \in log[answers[j].event].to \ undone'
          BY <3>l, <5>1, <5>2
        <5>4. q \notin undone /\ Exists(q) /\ question'[q].sequence = question[q].sequence
          BY <3>q, <5>2, <5>3
        <5> QED BY <4>1, <5>1, <5>3, <5>4 DEF AnswerAfterQuestion, AnsweredBy
      <4>2. CASE j \notin 1..Len(answers)
        <5>1. /\ WriteAnswer /\ answers'[j].event = handler.event
              /\ answers'[j].sequence = handler.sequence
          BY <2>2, <4>2, AnswerChanges
        <5>2. handler.event \in 1..Len(log) /\ handler.at = "numbered"
          BY <5>1, WriteTyped DEF WriteAnswer
        <5>3. q \in log[handler.event].to \ undone'
          BY <3>l, <5>1, <5>2
        <5> QED BY <3>q, <5>1, <5>2, <5>3 DEF NumberInv
      <4> QED BY <4>1, <4>2
    <3> QED BY <3>1, <3>2
  <2> QED BY <2>1, <2>2
<1> QED BY <1>1, <1>2, TranscriptTyped, QuestionsArePosted, PTL DEF Spec

-----------------------------------------------------------------------------
(* Counting answers and open questions.                                     *)

\* What becomes due again was paid for by a repeated delivery.
LEMMA DueAgain ==
  ASSUME Sound, TranscriptNext, NEW i \in Nat \ {0}
  PROVE  /\ repeats' \in Nat /\ repeats <= repeats'
         /\ ToHandle(i)' => ToHandle(i) \/ repeats' = repeats + 1
<1>t. handler \in Callback /\ cursor \in Nat /\ repeats \in Nat
  BY TypeParts DEF Sound
<1>1. CASE UNCHANGED <<cursor, unacked, handler, repeats, dbErrors>>
  BY <1>1, <1>t DEF ToHandle
<1>2. CASE Deliver
  <2>1. cursor' = cursor + 1 /\ cursor' \in 1..Len(log) /\ UNCHANGED <<unacked, repeats>>
    BY <1>2, TypeParts DEF Deliver, Sound
  <2>2. handler' = handler \/ handler'.event = cursor'
    BY <1>2 DEF Deliver, Take
  <2> QED BY <1>t, <2>1, <2>2 DEF ToHandle
<1>3. CASE Redeliver
  <2>1. PICK k \in unacked : Take(k) /\ unacked' = unacked \ {k}
    BY <1>3 DEF Redeliver
  <2>2. handler'.event = k /\ UNCHANGED <<cursor, repeats>>
    BY <1>3, <2>1 DEF Take, Redeliver
  <2> QED BY <1>t, <2>1, <2>2 DEF ToHandle
<1>4. CASE MarkStarted \/ WriteAnswer \/ DatabaseFails
  <2>1. handler'.at = "handled" /\ handler'.event = handler.event
        /\ UNCHANGED <<cursor, unacked, repeats>>
    BY <1>4, <1>t DEF MarkStarted, WriteAnswer, DatabaseFails, Callback
  <2> QED BY <1>t, <2>1 DEF ToHandle
<1>5. CASE ReadAnswerNumber
  <2>1. handler.at = "ending" /\ handler'.at = "numbered" /\ handler'.event = handler.event
        /\ UNCHANGED <<cursor, unacked, repeats>>
    BY <1>5, <1>t DEF ReadAnswerNumber, Callback
  <2> QED BY <1>t, <2>1 DEF ToHandle
<1>6. CASE Ack
  <2>1. handler'.at = "idle" /\ UNCHANGED <<cursor, unacked, repeats>>
    BY <1>6 DEF Ack, Idle
  <2> QED BY <1>t, <2>1 DEF ToHandle
<1>7. CASE AckLost \/ ServerCrashes
  BY <1>7, <1>t DEF AckLost, ServerCrashes
<1> QED BY <1>1, <1>2, <1>3, <1>4, <1>5, <1>6, <1>7, DeliverySteps DEF Project

LEMMA AnswersFinite ==
  ASSUME Sound, NEW i
  PROVE  IsFiniteSet(AnswersTo(i)) /\ Cardinality(AnswersTo(i)) \in Nat
<1>1. Len(answers) \in Nat
  BY TypeParts DEF Sound
<1>2. IsFiniteSet(1..Len(answers)) /\ AnswersTo(i) \subseteq 1..Len(answers)
  BY <1>1, FS_Interval DEF AnswersTo
<1> QED BY <1>2, FS_Subset, FS_CardinalityType

LEMMA SmallerSet ==
  ASSUME NEW S, IsFiniteSet(S), NEW T, T \subseteq S
  PROVE  Cardinality(T) <= Cardinality(S) /\ Cardinality(T) \in Nat
BY FS_Subset, FS_CardinalityType

LEMMA AddedOne ==
  ASSUME NEW S, IsFiniteSet(S), NEW x, NEW T, T = S \cup {x}
  PROVE  Cardinality(T) \in {Cardinality(S), Cardinality(S) + 1}
BY FS_AddElement

LEMMA CountKept == Sound /\ CountInv /\ [TranscriptNext]_vars => CountInv'
<1> SUFFICES ASSUME Sound, CountInv, [TranscriptNext]_vars PROVE CountInv'
  OBVIOUS
<1>1. CASE UNCHANGED vars
  <2>1. UNCHANGED <<cursor, unacked, handler, repeats, answers>>
    BY <1>1 DEF vars, rowVars, projectorVars
  <2>2. \A i \in Nat \ {0} : AnswersTo(i)' = AnswersTo(i) /\ ToHandle(i)' = ToHandle(i)
    BY <2>1 DEF AnswersTo, ToHandle
  <2> QED BY <2>1, <2>2 DEF CountInv
<1>2. CASE TranscriptNext
  <2> SUFFICES ASSUME NEW i \in Nat \ {0}
               PROVE  IF ToHandle(i)' THEN Cardinality(AnswersTo(i)') <= repeats'
                                      ELSE Cardinality(AnswersTo(i)') <= 1 + repeats'
    BY DEF CountInv
  <2>t. Cardinality(AnswersTo(i)) \in Nat /\ IsFiniteSet(AnswersTo(i)) /\ repeats \in Nat
    BY AnswersFinite, TypeParts DEF Sound
  <2>1. CASE AnswersTo(i)' = AnswersTo(i)
    BY <1>2, <2>t, <2>1, DueAgain DEF CountInv
  <2>2. CASE AnswersTo(i)' # AnswersTo(i)
    <3>0. /\ Len(answers) \in Nat
          /\ \A j \in 1..Len(answers) : j \in 1..Len(answers') /\ answers'[j].event = answers[j].event
      BY <1>2, AnswerChanges
    <3>1. Len(answers') # Len(answers)
      BY <2>2, <3>0 DEF AnswersTo
    <3>2. /\ WriteAnswer /\ Len(answers') = Len(answers) + 1
          /\ answers'[Len(answers')].event = handler.event
      BY <1>2, <3>1, AnswerChanges
    <3>3. i = handler.event /\ AnswersTo(i)' = AnswersTo(i) \cup {Len(answers')}
      <4>1. \A j \in 1..Len(answers') : j \in 1..Len(answers) \/ j = Len(answers')
        BY <3>0, <3>2
      <4>2. AnswersTo(i)' = {j \in 1..Len(answers') : answers'[j].event = i}
        BY DEF AnswersTo
      <4>3. i # handler.event => AnswersTo(i)' = AnswersTo(i)
        BY <3>0, <3>2, <4>1, <4>2 DEF AnswersTo
      <4>4. i = handler.event => AnswersTo(i)' = AnswersTo(i) \cup {Len(answers')}
        BY <3>0, <3>2, <4>1, <4>2 DEF AnswersTo
      <4> QED BY <2>2, <4>3, <4>4
    <3>4. Cardinality(AnswersTo(i)') \in {Cardinality(AnswersTo(i)), Cardinality(AnswersTo(i)) + 1}
      BY <2>t, <3>3, AddedOne
    <3>5. handler.at = "numbered" /\ ToHandle(i)
      BY <3>2, <3>3 DEF WriteAnswer, ToHandle
    <3>6. Cardinality(AnswersTo(i)) <= repeats
      BY <3>5 DEF CountInv
    <3>7. ~ ToHandle(i)' /\ repeats' = repeats
      <4>1. handler'.at = "handled" /\ UNCHANGED <<cursor, unacked, repeats>>
        BY <3>2, TypeParts DEF WriteAnswer, Sound, Callback
      <4>2. i <= cursor /\ i \notin unacked /\ cursor \in Nat
        BY <3>3, <3>5, TypeParts DEF Sound, EventInv
      <4> QED BY <4>1, <4>2 DEF ToHandle
    <3> QED BY <2>t, <3>4, <3>6, <3>7
  <2> QED BY <2>1, <2>2
<1> QED BY <1>1, <1>2

(* A run is answered again only for each repeated delivery.                 *)
THEOREM AnswersAreBounded == Spec => []AnswersBounded
<1>1. Init => CountInv
  <2> SUFFICES ASSUME Init PROVE CountInv
    OBVIOUS
  <2>1. \A i : AnswersTo(i) = {}
    BY DEF Init, AnswersTo
  <2>2. repeats = 0 /\ Cardinality({}) = 0
    BY FS_EmptySet DEF Init
  <2> QED BY <2>1, <2>2 DEF CountInv
<1>2. Sound /\ CountInv => AnswersBounded
  <2> SUFFICES ASSUME Sound, CountInv, NEW i \in 1..Len(log)
               PROVE  Cardinality(AnswersTo(i)) <= 1 + repeats
    BY DEF AnswersBounded, AnswersTo
  <2>1. i \in Nat \ {0} /\ repeats \in Nat /\ Cardinality(AnswersTo(i)) \in Nat
    BY AnswersFinite, TypeParts DEF Sound
  <2> QED BY <2>1 DEF CountInv
<1> QED BY <1>1, <1>2, CountKept, TranscriptTyped, PTL DEF Spec

LEMMA OpenFinite ==
  ASSUME Sound
  PROVE  IsFiniteSet(LeftOpen) /\ Cardinality(LeftOpen) \in Nat
<1>1. Len(log) \in Nat
  BY TypeParts DEF Sound
<1>2. IsFiniteSet(1..Len(log)) /\ LeftOpen \subseteq 1..Len(log)
  BY <1>1, FS_Interval DEF LeftOpen
<1> QED BY <1>2, FS_Subset, FS_CardinalityType

\* An event newly dealt with that leaves a question open cost a database error.
LEMMA OpenSteps ==
  ASSUME Sound, PostedInv, TranscriptNext, NEW i \in LeftOpen', i \notin LeftOpen
  PROVE  i = handler.event /\ dbErrors' = dbErrors + 1
<1>t. handler \in Callback /\ cursor \in Nat /\ Len(log) \in Nat /\ cursor <= Len(log)
  BY TypeParts DEF Sound, EventInv
<1>1. /\ i \in 1..Len(log') /\ log'[i].kind \in Outcomes /\ i <= cursor' /\ i \notin unacked'
      /\ ~ (i = handler'.event /\ handler'.at \in {"ending", "numbered"})
      /\ \E q \in log'[i].to \ undone' : question'[q].status \in {"pending", "processing"}
  BY DEF LeftOpen
<1>l. \A k \in 1..Len(log) : log'[k] = log[k]
  BY LogSteps DEF Sound
<1>2. i \in 1..Len(log)
  <2>1. cursor' <= Len(log)
    <3>1. cursor' = cursor \/ Deliver
      BY DeliverySteps DEF Project, Redeliver, MarkStarted, ReadAnswerNumber, WriteAnswer, Ack,
         DatabaseFails, AckLost, ServerCrashes
    <3>2. Deliver => cursor' = cursor + 1 /\ cursor < Len(log)
      BY DEF Deliver
    <3> QED BY <1>t, <3>1, <3>2
  <2>2. cursor' \in Nat
    BY ProjectorTyped
  <2> QED BY <1>1, <1>t, <2>1, <2>2
<1>3. log[i].kind \in Outcomes
  BY <1>1, <1>2, <1>l
<1>4. PICK q \in log[i].to \ undone' : question'[q].status \in {"pending", "processing"}
  BY <1>1, <1>2, <1>l
<1>5. q \in Questions /\ ~ CreateQuestion(q)
  BY <1>2, <1>4, EntryParts DEF PostedInv, CreateQuestion
<1>6. question[q].status \in {"pending", "processing"} /\ q \notin undone
      /\ ~ (WriteAnswer /\ q \in log[handler.event].to)
  <2>1. WriteAnswer => log[handler.event].kind \in Outcomes
    BY WriteTyped
  <2>2. q \notin undone
    BY <1>4, RowSteps
  <2> QED BY <1>4, <1>5, <2>1, <2>2, QuestionChanges DEF Exists, Outcomes
<1>7. ~ (i <= cursor /\ i \notin unacked
         /\ ~ (i = handler.event /\ handler.at \in {"ending", "numbered"}))
  BY <1>2, <1>3, <1>4, <1>6 DEF LeftOpen
<1>8. CASE UNCHANGED <<cursor, unacked, handler, repeats, dbErrors>>
  BY <1>1, <1>7, <1>8
<1>9. CASE Deliver
  <2>1. cursor' = cursor + 1 /\ UNCHANGED unacked /\ handler.at = "idle"
    BY <1>9 DEF Deliver
  <2>2. i = cursor'
    BY <1>1, <1>2, <1>7, <1>t, <2>1
  <2>3. IsState(cursor') /\ Take(cursor')
    BY <1>3, <1>9, <2>2 DEF Deliver, IsState, Outcomes
  <2>4. handler'.at = "ending" /\ handler'.event = i
    BY <1>2, <1>3, <2>2, <2>3, TakeTyped DEF IsState, Sound
  <2> QED BY <1>1, <2>4
<1>10. CASE Redeliver
  <2>1. PICK k \in unacked : Take(k) /\ unacked' = unacked \ {k}
    BY <1>10 DEF Redeliver
  <2>2. UNCHANGED cursor /\ handler.at = "idle"
    BY <1>10 DEF Redeliver
  <2>3. k = i
    BY <1>1, <1>7, <2>1, <2>2
  <2>4. handler'.at = "ending" /\ handler'.event = i
    BY <1>2, <1>3, <2>1, <2>3, TakeTyped DEF Sound, Outcomes
  <2> QED BY <1>1, <2>4
<1>11. CASE MarkStarted \/ Ack \/ ReadAnswerNumber
  <2>1. UNCHANGED <<cursor, unacked>>
        /\ (handler.at \notin {"ending", "numbered"}
            \/ (handler'.at = "numbered" /\ handler'.event = handler.event))
    BY <1>11, <1>t DEF MarkStarted, Ack, ReadAnswerNumber, Callback
  <2> QED BY <1>1, <1>7, <2>1
<1>12. CASE WriteAnswer
  <2>1. UNCHANGED <<cursor, unacked>>
    BY <1>12 DEF WriteAnswer
  <2>2. i = handler.event
    BY <1>1, <1>7, <2>1
  <2> QED BY <1>4, <1>6, <1>12, <2>2
<1>13. CASE DatabaseFails
  <2>1. UNCHANGED <<cursor, unacked>> /\ dbErrors' = dbErrors + 1
    BY <1>13 DEF DatabaseFails
  <2> QED BY <1>1, <1>7, <2>1
<1>14. CASE AckLost \/ ServerCrashes
  <2>1. UNCHANGED cursor /\ unacked \subseteq unacked'
        /\ (handler.event \in unacked' \/ handler.event = 0)
    BY <1>14 DEF AckLost, ServerCrashes
  <2> QED BY <1>1, <1>2, <1>7, <2>1
<1> QED BY <1>8, <1>9, <1>10, <1>11, <1>12, <1>13, <1>14, DeliverySteps DEF Project

LEMMA MarkedKept == Sound /\ PostedInv /\ MarkedInv /\ [TranscriptNext]_vars => MarkedInv'
<1> SUFFICES ASSUME Sound, PostedInv, MarkedInv, [TranscriptNext]_vars PROVE MarkedInv'
  OBVIOUS
<1>t. IsFiniteSet(LeftOpen) /\ Cardinality(LeftOpen) \in Nat /\ dbErrors \in Nat
  BY OpenFinite, TypeParts DEF Sound
<1>1. CASE UNCHANGED vars
  <2>1. LeftOpen' = LeftOpen /\ dbErrors' = dbErrors
    BY <1>1 DEF LeftOpen, vars, rowVars, workerVars, projectorVars, saverVars
  <2> QED BY <2>1 DEF MarkedInv
<1>2. CASE TranscriptNext
  <2>1. dbErrors' = dbErrors \/ dbErrors' = dbErrors + 1
    BY <1>2, DeliverySteps DEF Project, Deliver, Redeliver, MarkStarted, ReadAnswerNumber,
       WriteAnswer, Ack, DatabaseFails, AckLost, ServerCrashes
  <2>2. CASE LeftOpen' \subseteq LeftOpen
    <3>1. Cardinality(LeftOpen') <= Cardinality(LeftOpen) /\ Cardinality(LeftOpen') \in Nat
      BY <1>t, <2>2, SmallerSet
    <3> QED BY <1>t, <2>1, <3>1 DEF MarkedInv
  <2>3. CASE ~ (LeftOpen' \subseteq LeftOpen)
    <3>1. \A i \in LeftOpen' : i \notin LeftOpen => i = handler.event /\ dbErrors' = dbErrors + 1
      BY <1>2, OpenSteps
    <3>2. dbErrors' = dbErrors + 1 /\ LeftOpen' \subseteq LeftOpen \cup {handler.event}
      BY <2>3, <3>1
    <3>3. Cardinality(LeftOpen \cup {handler.event}) \in
            {Cardinality(LeftOpen), Cardinality(LeftOpen) + 1}
          /\ IsFiniteSet(LeftOpen \cup {handler.event})
      BY <1>t, FS_AddElement
    <3>4. Cardinality(LeftOpen') <= Cardinality(LeftOpen \cup {handler.event})
          /\ Cardinality(LeftOpen') \in Nat
      BY <3>2, <3>3, SmallerSet
    <3> QED BY <1>t, <3>2, <3>3, <3>4 DEF MarkedInv
  <2> QED BY <2>2, <2>3
<1> QED BY <1>1, <1>2

(* A terminal event the projector has acknowledged has ended its questions, *)
(* except for those lost to a database error or put back by the stream      *)
(* projector.                                                               *)
THEOREM EndedQuestionsAreMarked == Spec => []EndedAreMarked
<1>1. Init => MarkedInv
  <2> SUFFICES ASSUME Init PROVE MarkedInv
    OBVIOUS
  <2>1. LeftOpen = {}
    BY DEF Init, LeftOpen
  <2> QED BY <2>1, FS_EmptySet DEF Init, MarkedInv
<1>2. Sound /\ MarkedInv => EndedAreMarked
  <2> SUFFICES ASSUME Sound, MarkedInv PROVE EndedAreMarked
    OBVIOUS
  <2> DEFINE Left == {i \in 1..Len(log) :
                        /\ log[i].kind \in Outcomes /\ Handled(i)
                        /\ \E q \in log[i].to \ undone :
                             question[q].status \in {"pending", "processing"}}
  <2>1. Left \subseteq LeftOpen
    BY DEF Handled, LeftOpen
  <2>2. IsFiniteSet(LeftOpen) /\ Cardinality(LeftOpen) \in Nat /\ dbErrors \in Nat
    BY OpenFinite, TypeParts DEF Sound
  <2> HIDE DEF Left
  <2>3. Cardinality(Left) <= Cardinality(LeftOpen) /\ Cardinality(Left) \in Nat
    BY <2>1, <2>2, SmallerSet
  <2>4. Cardinality(Left) <= dbErrors
    BY <2>2, <2>3 DEF MarkedInv
  <2> QED BY <2>4 DEF Left, EndedAreMarked
<1> QED BY <1>1, <1>2, MarkedKept, TranscriptTyped, QuestionsArePosted, PTL DEF Spec

-----------------------------------------------------------------------------
(* The session with its streams is a session: a stream changes nothing of   *)
(* it, and what was proved above holds beside any streams.                  *)
LEMMA StreamSteps ==
  ASSUME [StreamNext]_<<vars, streamVars>>
  PROVE  /\ [TranscriptNext]_vars
         /\ UNCHANGED vars \/ UNCHANGED streamVars
<1>1. CASE UNCHANGED <<vars, streamVars>>
  BY <1>1
<1>2. ASSUME NEW x \in Streams,
             \/ Open(x) \/ Return(x) \/ ClientLeaves(x)
             \/ \E l \in Lanes : Subscribe(x, l) \/ Receive(x, l)
      PROVE  UNCHANGED vars
  BY <1>2 DEF Open, Return, ClientLeaves, Subscribe, Receive
<1>3. CASE (\E q \in Questions : Post(q)) /\ UNCHANGED streamVars
  BY <1>3 DEF TranscriptNext
<1>4. CASE (Work \/ WorkerDies \/ Project \/ DatabaseFails \/ AckLost \/ RecordStream \/ RemoveRows)
             /\ UNCHANGED streamVars
  BY <1>4 DEF TranscriptNext
<1> QED BY <1>1, <1>2, <1>3, <1>4 DEF StreamNext

(* A session watched by any streams behaves as SessionTranscript says.      *)
THEOREM StreamsOnlyWatch == StreamSpec => Spec
<1>1. StreamInit => Init
  BY DEF StreamInit
<1>2. [StreamNext]_<<vars, streamVars>> => [TranscriptNext]_vars
  BY StreamSteps
<1> QED BY <1>1, <1>2, PTL DEF StreamSpec, Spec

-----------------------------------------------------------------------------
(* The runs in the log: a run answers the same questions throughout, begins *)
(* with its started event, and ends with its terminal event.                *)
Sibling(i, j) == log[i].run = log[j].run
RunsInv ==
  /\ \A i \in 1..Len(log) : log[i].run \in 1..runs
  /\ run.at # "idle" => runs \in 1..runs
  /\ run.at = "running" => \A i \in 1..Len(log) : log[i].run = runs =>
                             log[i].to = run.to /\ log[i].kind \notin Outcomes
  /\ \A i, j \in 1..Len(log) : Sibling(i, j) => log[i].to = log[j].to
  /\ \A i, j \in 1..Len(log) : Sibling(i, j) /\ log[i].kind = "started" => i <= j
  /\ \A i, j \in 1..Len(log) : Sibling(i, j) /\ log[i].kind \in Outcomes => j <= i

\* Without the death of a worker only the run that goes on has no terminal event.
EndsInv ==
  deaths = 0 => \A i \in 1..Len(log) :
                  \/ run.at = "running" /\ log[i].run = runs
                  \/ \E j \in 1..Len(log) : Sibling(i, j) /\ log[j].kind \in Outcomes

\* What the event a step publishes is like.
LEMMA WorkerSteps ==
  ASSUME Sound, TranscriptNext
  PROVE  \/ UNCHANGED <<log, run, runs, deaths>>
         \/ /\ UNCHANGED <<log, runs>> /\ run' = NoRun
            /\ (UNCHANGED deaths /\ run.at = "ended") \/ deaths' # 0
         \/ StartRun \/ EmitEvent \/ EndRun
<1>1. CASE Work
  BY <1>1 DEF Work, RecordRun
<1>2. CASE WorkerDies
  <2>1. deaths \in Nat /\ deaths' = deaths + 1
    BY <1>2, TypeParts DEF WorkerDies, Sound
  <2> QED BY <1>2, <2>1 DEF WorkerDies
<1>3. CASE ~Work /\ ~WorkerDies
  BY <1>3 DEF TranscriptNext, RecordStream, ReadForStream, SaveStreamStart, saverVars, Post, Project, ReadNumber, CreateQuestion, PublishTask,
     Deliver, Redeliver, MarkStarted, ReadAnswerNumber, WriteAnswer, Ack, DatabaseFails,
     AckLost, ServerCrashes, RemoveRows, workerVars
<1> QED BY <1>1, <1>2, <1>3

LEMMA Published ==
  ASSUME Sound, StartRun \/ EmitEvent \/ EndRun
  PROVE  /\ Len(log) \in Nat /\ Len(log') = Len(log) + 1
         /\ \A i \in 1..Len(log) : log'[i] = log[i]
         /\ runs' \in Nat /\ deaths' = deaths
         /\ LET e == log'[Len(log')]
            IN  /\ e.run = runs' /\ e.to = run'.to
                /\ \/ StartRun  /\ e.kind = "started" /\ runs' = runs + 1 /\ run'.at = "running"
                   \/ EmitEvent /\ e.kind \in Middle  /\ runs' = runs /\ run' = run /\ run.at = "running"
                   \/ /\ EndRun /\ e.kind \in Outcomes /\ runs' = runs
                      /\ run.at = "running" /\ run'.at = "ended" /\ run'.to = run.to
<1>1. /\ log \in Seq(Entry) /\ runs \in Nat
      /\ run \in [at : {"idle", "running", "ended"}, to : SUBSET Questions]
  BY TypeParts DEF Sound
<1>2. ASSUME NEW n, NEW k, NEW qs
      PROVE  Event(n, k, qs).run = n /\ Event(n, k, qs).kind = k /\ Event(n, k, qs).to = qs
  BY DEF Event
<1>3. ASSUME NEW e, log' = Append(log, e)
      PROVE  /\ Len(log) \in Nat /\ Len(log') = Len(log) + 1
             /\ \A i \in 1..Len(log) : log'[i] = log[i]
             /\ log'[Len(log')] = e
  BY <1>1, <1>3
<1>4. CASE StartRun
  <2>1. PICK qs : /\ run' = [at |-> "running", to |-> qs]
                  /\ log' = Append(log, Event(runs + 1, "started", qs))
    BY <1>4 DEF StartRun
  <2>2. runs' = runs + 1 /\ deaths' = deaths
    BY <1>4 DEF StartRun
  <2>3. run'.at = "running" /\ run'.to = qs
    BY <2>1
  <2> QED BY <1>1, <1>2, <1>3, <1>4, <2>1, <2>2, <2>3
<1>5. CASE EmitEvent
  <2>1. PICK k \in Middle : log' = Append(log, Event(runs, k, run.to))
    BY <1>5 DEF EmitEvent
  <2>2. run' = run /\ runs' = runs /\ deaths' = deaths /\ run.at = "running"
    BY <1>5 DEF EmitEvent
  <2> QED BY <1>1, <1>2, <1>3, <1>5, <2>1, <2>2
<1>6. CASE EndRun
  <2>1. PICK o \in Outcomes : log' = Append(log, Event(runs, o, run.to))
    BY <1>6 DEF EndRun
  <2>2. runs' = runs /\ deaths' = deaths /\ run.at = "running" /\ run' = [run EXCEPT !.at = "ended"]
    BY <1>6 DEF EndRun
  <2>3. run'.at = "ended" /\ run'.to = run.to
    BY <1>1, <2>2
  <2> QED BY <1>1, <1>2, <1>3, <1>6, <2>1, <2>2, <2>3
<1> QED BY <1>4, <1>5, <1>6

LEMMA RunsKept == Sound /\ RunsInv /\ [TranscriptNext]_vars => RunsInv'
<1> SUFFICES ASSUME Sound, RunsInv, [TranscriptNext]_vars PROVE RunsInv'
  OBVIOUS
<1>1. CASE UNCHANGED vars
  BY <1>1 DEF RunsInv, Sibling, vars, workerVars
<1>2. CASE UNCHANGED <<log, run, runs>>
  BY <1>2 DEF RunsInv, Sibling
<1>3. CASE UNCHANGED <<log, runs>> /\ run' = NoRun
  BY <1>3 DEF RunsInv, Sibling, NoRun
<1>4. CASE StartRun \/ EmitEvent \/ EndRun
  <2>0. runs \in Nat
    BY TypeParts DEF Sound
  <2> DEFINE n == Len(log)
             e == log'[Len(log')]
  <2>1. /\ n \in Nat /\ Len(log') = n + 1 /\ \A i \in 1..n : log'[i] = log[i]
        /\ runs' \in Nat /\ e.run = runs' /\ e.to = run'.to /\ e = log'[n + 1]
        /\ \/ e.kind = "started" /\ runs' = runs + 1 /\ run'.at = "running"
           \/ e.kind \in Middle  /\ runs' = runs /\ run' = run /\ run.at = "running"
           \/ /\ e.kind \in Outcomes /\ runs' = runs
              /\ run.at = "running" /\ run'.at = "ended" /\ run'.to = run.to
    BY <1>4, Published
  <2> HIDE DEF n, e
  <2>2. \A i \in 1..(n + 1) : i \in 1..n \/ i = n + 1
    BY <2>1
  <2>3. /\ \A i \in 1..n : log[i].run \in 1..runs
        /\ run.at # "idle" => runs \in 1..runs
    BY DEF RunsInv, n
  <2>4. runs' \in 1..runs' /\ \A i \in 1..n : log[i].run \in 1..runs'
    BY <2>0, <2>1, <2>3
  <2>5. \A i \in 1..n : log[i].run = runs' => log[i].to = e.to /\ log[i].kind \notin Outcomes
    <3>1. CASE runs' = runs + 1
      BY <2>0, <2>3, <3>1
    <3>2. CASE runs' = runs /\ run.at = "running" /\ run'.to = run.to
      BY <2>1, <3>2 DEF RunsInv, n
    <3> QED BY <2>1, <3>1, <3>2
  <2>6. \A i \in 1..n : log[i].run = runs' => e.kind # "started"
    BY <2>0, <2>1, <2>3 DEF Middle, Outcomes
  <2>7. \A i \in 1..(n + 1) : log'[i].run \in 1..runs'
    BY <2>1, <2>2, <2>4
  <2>8. run'.at = "running" => \A i \in 1..(n + 1) : log'[i].run = runs' =>
                                 log'[i].to = run'.to /\ log'[i].kind \notin Outcomes
    BY <2>1, <2>2, <2>5 DEF Middle, Outcomes
  <2>9. \A i, j \in 1..(n + 1) : log'[i].run = log'[j].run =>
          /\ log'[i].to = log'[j].to
          /\ log'[i].kind = "started" => i <= j
          /\ log'[i].kind \in Outcomes => j <= i
    <3> SUFFICES ASSUME NEW i \in 1..(n + 1), NEW j \in 1..(n + 1), log'[i].run = log'[j].run
                 PROVE  /\ log'[i].to = log'[j].to
                        /\ log'[i].kind = "started" => i <= j
                        /\ log'[i].kind \in Outcomes => j <= i
      OBVIOUS
    <3>1. CASE i \in 1..n /\ j \in 1..n
      BY <2>1, <3>1 DEF RunsInv, Sibling, n
    <3>2. CASE i = n + 1 /\ j \in 1..n
      BY <2>1, <2>5, <2>6, <3>2
    <3>3. CASE i \in 1..n /\ j = n + 1
      BY <2>1, <2>5, <3>3
    <3>4. CASE i = n + 1 /\ j = n + 1
      BY <2>1, <3>4
    <3> QED BY <2>2, <3>1, <3>2, <3>3, <3>4
  <2>10. Len(log') = n + 1
    BY <2>1
  <2> HIDE DEF Sibling
  <2>11. \A i, j \in 1..Len(log') : Sibling(i, j)' => log'[i].run = log'[j].run
    BY DEF Sibling
  <2> QED BY <2>4, <2>7, <2>8, <2>9, <2>10, <2>11 DEF RunsInv
<1> QED BY <1>1, <1>2, <1>3, <1>4, WorkerSteps

(* Each run of the log is coherent, whatever dies.                          *)
LEMMA RunsCoherent == Spec => []RunsInv
<1>1. Init => RunsInv
  BY DEF Init, RunsInv, NoRun
<1> QED BY <1>1, RunsKept, TranscriptTyped, PTL DEF Spec

LEMMA EndsKept == Sound /\ RunsInv /\ EndsInv /\ [TranscriptNext]_vars => EndsInv'
<1> SUFFICES ASSUME Sound, RunsInv, EndsInv, [TranscriptNext]_vars, deaths' = 0
             PROVE  \A i \in 1..Len(log') :
                      \/ run'.at = "running" /\ log'[i].run = runs'
                      \/ \E j \in 1..Len(log') :
                           log'[i].run = log'[j].run /\ log'[j].kind \in Outcomes
  BY DEF EndsInv, Sibling
<1>1. CASE UNCHANGED <<log, run, runs, deaths>>
  BY <1>1 DEF EndsInv, Sibling
<1>2. CASE UNCHANGED <<log, runs, deaths>> /\ run.at = "ended"
  BY <1>2 DEF EndsInv, Sibling
<1>3. CASE StartRun \/ EmitEvent \/ EndRun
  <2>0. runs \in Nat
    BY TypeParts DEF Sound
  <2> DEFINE n == Len(log)
             e == log'[Len(log')]
  <2>1. /\ n \in Nat /\ Len(log') = n + 1 /\ \A i \in 1..n : log'[i] = log[i]
        /\ deaths' = deaths /\ e.run = runs' /\ e = log'[n + 1]
        /\ \/ StartRun /\ runs' = runs + 1 /\ run'.at = "running"
           \/ runs' = runs /\ run' = run /\ run.at = "running"
           \/ e.kind \in Outcomes /\ runs' = runs /\ run.at = "running"
    BY <1>3, Published
  <2> HIDE DEF n, e
  <2>2. \A i \in 1..n : \/ run.at = "running" /\ log[i].run = runs
                        \/ \E j \in 1..n : log[i].run = log[j].run /\ log[j].kind \in Outcomes
    BY <2>1 DEF EndsInv, Sibling, n
  <2>3. \A i \in 1..(n + 1) : i \in 1..n \/ i = n + 1
    BY <2>1
  <2>4. 1..n \subseteq 1..(n + 1) /\ n + 1 \in 1..(n + 1)
    BY <2>1
  <2>5. CASE StartRun /\ runs' = runs + 1 /\ run'.at = "running"
    <3>1. run.at # "running"
      BY <2>5 DEF StartRun
    <3>2. \A i \in 1..n : \E j \in 1..n : log[i].run = log[j].run /\ log[j].kind \in Outcomes
      BY <2>2, <3>1, Zenon
    <3>3. log'[n + 1].run = runs' /\ run'.at = "running"
      BY <2>1, <2>5
    <3>4. \A i \in 1..n : \E j \in 1..(n + 1) : log'[i].run = log'[j].run /\ log'[j].kind \in Outcomes
      BY <2>1, <2>4, <3>2
    <3>5. Len(log') = n + 1
      BY <2>1
    <3> QED BY <2>3, <3>3, <3>4, <3>5
  <2>6. CASE runs' = runs /\ run' = run /\ run.at = "running"
    BY <2>1, <2>2, <2>3, <2>4, <2>6
  <2>7. CASE e.kind \in Outcomes /\ runs' = runs /\ run.at = "running"
    BY <2>1, <2>2, <2>3, <2>4, <2>7
  <2> QED BY <2>1, <2>5, <2>6, <2>7
<1>4. CASE UNCHANGED vars
  BY <1>1, <1>4 DEF vars, workerVars
<1> QED BY <1>1, <1>2, <1>3, <1>4, WorkerSteps

-----------------------------------------------------------------------------
(* What a question that shows processing says of its run: the first event   *)
(* of a run that answers it.                                                *)
StartInv ==
  /\ handler.at = "starting" => log[handler.event].kind = "started"
  /\ \A q \in Questions :
       /\ question[q].status = "processing" \/ q \in saver.rows => question[q].start # 0
       /\ question[q].start # 0 => /\ question[q].start \in 1..Len(log)
                                   /\ log[question[q].start].kind = "started"
                                   /\ q \in log[question[q].start].to

LEMMA StartChanges ==
  ASSUME Sound, TranscriptNext, NEW q \in Questions
  PROVE  \/ /\ question'[q].start = question[q].start
            /\ question'[q].status = "processing" => question[q].status = "processing"
         \/ question'[q].start = question[q].start /\ q \in saver.rows
         \/ question'[q].start = 0 /\ question'[q].status = "pending"
         \/ /\ handler.at = "starting" /\ question'[q].start = handler.event
            /\ q \in log[handler.event].to
<1>t. question \in [Questions -> Row] /\ question[q] \in Row
  BY TypeParts DEF Sound
<1>1. CASE question' = question
  BY <1>1
<1>2. ASSUME NEW x \in Questions, CreateQuestion(x)
      PROVE  \/ question'[q] = question[q]
             \/ question'[q].start = 0 /\ question'[q].status = "pending"
  BY <1>2, <1>t DEF CreateQuestion
<1>3. ASSUME MarkStarted
      PROVE  \/ question'[q] = question[q]
             \/ /\ handler.at = "starting" /\ question'[q].start = handler.event
                /\ q \in log[handler.event].to
  BY <1>3, <1>t DEF MarkStarted, Started, Row
<1>4. ASSUME WriteAnswer
      PROVE  /\ question'[q].start = question[q].start
             /\ question'[q].status = "processing" => question[q].status = "processing"
  <2>1. log[handler.event].kind # "processing"
    BY <1>4, WriteTyped DEF Outcomes
  <2> QED BY <1>4, <1>t, <2>1 DEF WriteAnswer, Ended, Row
<1>5. ASSUME RemoveRows
      PROVE  /\ question'[q].start = question[q].start
             /\ question'[q].status = "processing" => question[q].status = "processing"
  <2>1. PICK qs, js : Removed(qs, js)
    BY <1>5, RemoveRowsTyped
  <2> QED BY <2>1, <1>t DEF Removed, Row
<1>6. ASSUME SaveStreamStart
      PROVE  question'[q] = question[q] \/ (question'[q].start = question[q].start /\ q \in saver.rows)
  BY <1>6, <1>t DEF SaveStreamStart, Row
<1> QED BY <1>1, <1>2, <1>3, <1>4, <1>5, <1>6, RowSteps

\* A callback that is to mark questions handles a started event.
LEMMA StartingIsStarted ==
  ASSUME Sound, StartInv, TranscriptNext, handler'.at = "starting"
  PROVE  log'[handler'.event].kind = "started"
<1>1. \A i \in 1..Len(log) : log'[i] = log[i]
  BY LogSteps DEF Sound
<1>2. CASE handler' = handler
  <2>1. handler.event \in 1..Len(log)
    BY <1>2, TypeParts DEF Sound, EventInv
  <2> QED BY <1>1, <1>2, <2>1 DEF StartInv
<1>3. ASSUME NEW i \in 1..Len(log), Take(i) PROVE log'[handler'.event].kind = "started"
  <2>1. handler'.event = i /\ log[i].kind = "started"
    BY <1>3 DEF Take
  <2> QED BY <1>1, <2>1
<1>4. CASE Deliver /\ handler' # handler
  BY <1>3, <1>4, TypeParts DEF Deliver, Sound, EventInv
<1>5. CASE Redeliver
  <2>1. PICK i \in unacked : Take(i)
    BY <1>5 DEF Redeliver
  <2>2. i \in 1..Len(log)
    BY TypeParts DEF Sound, EventInv
  <2> QED BY <1>3, <2>1, <2>2
<1>6. handler \in Callback
  BY TypeParts DEF Sound
<1>7. MarkStarted \/ WriteAnswer \/ DatabaseFails => handler'.at = "handled"
  BY <1>6 DEF MarkStarted, WriteAnswer, DatabaseFails, Callback
<1>8. ReadAnswerNumber => handler'.at = "numbered"
  BY <1>6 DEF ReadAnswerNumber, Callback
<1>9. Ack \/ AckLost \/ ServerCrashes => handler'.at = "idle"
  BY DEF Ack, AckLost, ServerCrashes, Idle
<1> QED BY <1>2, <1>4, <1>5, <1>7, <1>8, <1>9, DeliverySteps DEF Project

LEMMA StartsKept ==
  Sound /\ PostedInv' /\ StartInv /\ [TranscriptNext]_vars => StartInv'
<1> SUFFICES ASSUME Sound, PostedInv', StartInv, [TranscriptNext]_vars PROVE StartInv'
  OBVIOUS
<1>1. CASE UNCHANGED vars
  BY <1>1 DEF StartInv, vars, rowVars, workerVars, projectorVars, saverVars
<1>2. CASE TranscriptNext
  <2>1. handler'.at = "starting" => log'[handler'.event].kind = "started"
    BY <1>2, StartingIsStarted
  <2>2. ASSUME NEW q \in Questions
        PROVE  /\ question'[q].status = "processing" \/ q \in saver'.rows => question'[q].start # 0
               /\ question'[q].start # 0 => /\ question'[q].start \in 1..Len(log')
                                            /\ log'[question'[q].start].kind = "started"
                                            /\ q \in log'[question'[q].start].to
    <3>1. /\ \A i \in 1..Len(log) : log'[i] = log[i]
          /\ Len(log) \in Nat /\ Len(log') \in Nat /\ Len(log) <= Len(log')
      <4>1. log \in Seq(Entry)
        BY TypeParts DEF Sound
      <4> QED BY <1>2, <4>1, LogSteps DEF Sound
    <3>2. ASSUME NEW i \in 1..Len(log) PROVE i \in 1..Len(log') /\ i # 0
      BY <3>1
    <3>3. CASE /\ question'[q].start = question[q].start
               /\ question'[q].status = "processing" => question[q].status = "processing"
      <4>1. q \in saver'.rows => q \in saver.rows \/ question[q].status = "processing"
        <5>1. saver' = saver \/ saver'.rows = {} \/ ReadForStream
          BY <1>2, RowSteps DEF ServerCrashes, RecordStream, SaveStreamStart
        <5>2. ReadForStream => saver'.rows \subseteq Processing
          BY DEF ReadForStream
        <5> QED BY <5>1, <5>2 DEF Processing
      <4> QED BY <3>1, <3>2, <3>3, <4>1 DEF StartInv
    <3>6. CASE question'[q].start = question[q].start /\ q \in saver.rows
      BY <3>1, <3>2, <3>6 DEF StartInv
    <3>4. CASE question'[q].start = 0 /\ question'[q].status = "pending"
      BY <3>4 DEF PostedInv
    <3>5. CASE /\ handler.at = "starting" /\ question'[q].start = handler.event
               /\ q \in log[handler.event].to
      <4>1. handler.event \in 1..Len(log) /\ log[handler.event].kind = "started"
        BY <3>5, TypeParts DEF Sound, EventInv, StartInv
      <4> QED BY <3>1, <3>2, <3>5, <4>1
    <3> QED BY <1>2, <3>3, <3>4, <3>5, <3>6, StartChanges
  <2> QED BY <2>1, <2>2 DEF StartInv
<1> QED BY <1>1, <1>2

LEMMA StartsAreMarked == Spec => []StartInv
<1>1. Init => StartInv
  BY DEF Init, Idle, StartInv
<1> QED BY <1>1, StartsKept, TranscriptTyped, QuestionsArePosted, PTL DEF Spec

-----------------------------------------------------------------------------
(* Numbers in the runs: they do not change, and grow along a run.           *)
LEMMA NumberTyped ==
  ASSUME NEW i \in Nat
  PROVE  NumberOf(i) \in Nat /\ NumberOf(i) <= i
<1> DEFINE A == {k \in 1..i : log[k].run = log[i].run}
<1>1. IsFiniteSet(1..i) /\ Cardinality(1..i) = i
  <2>1. 1..i = {k \in Nat : 1 <= k /\ k <= i}
    OBVIOUS
  <2>2. Cardinality(1..i) = IF 1 > i THEN 0 ELSE i - 1 + 1
    BY FS_Interval
  <2> QED BY <2>2, FS_Interval
<1>2. A \subseteq 1..i
  OBVIOUS
<1> HIDE DEF A
<1>3. IsFiniteSet(A) /\ Cardinality(A) <= i
  BY <1>1, <1>2, FS_Subset
<1> QED BY <1>3, FS_CardinalityType DEF NumberOf, A

LEMMA NumberGrows ==
  ASSUME NEW i \in Nat, NEW j \in Nat, i < j, 0 < i, Sibling(i, j)
  PROVE  NumberOf(i) < NumberOf(j)
<1> DEFINE A == {k \in 1..i : log[k].run = log[i].run}
           B == {k \in 1..j : log[k].run = log[j].run}
<1>1. IsFiniteSet(1..j)
  BY FS_Interval
<1>2. B \subseteq 1..j /\ A \subseteq B /\ j \in B /\ j \notin A
  BY DEF Sibling
<1>3. NumberOf(i) = Cardinality(A) /\ NumberOf(j) = Cardinality(B)
  BY DEF NumberOf
<1> HIDE DEF A, B
<1>4. IsFiniteSet(B)
  BY <1>1, <1>2, FS_Subset
<1>5. Cardinality(A) <= Cardinality(B) /\ Cardinality(A) # Cardinality(B)
  BY <1>2, <1>4, FS_Subset
<1>6. Cardinality(A) \in Nat /\ Cardinality(B) \in Nat
  BY <1>3, NumberTyped
<1> QED BY <1>3, <1>5, <1>6

LEMMA NumberNames ==
  ASSUME NEW i \in Nat \ {0}, NEW j \in Nat \ {0}, Sibling(i, j), NumberOf(i) = NumberOf(j)
  PROVE  i = j
<1>1. NumberOf(i) \in Nat
  BY NumberTyped
<1>2. CASE i < j
  BY <1>1, <1>2, NumberGrows
<1>3. CASE j < i
  BY <1>1, <1>3, NumberGrows DEF Sibling
<1> QED BY <1>2, <1>3

LEMMA LogFrame ==
  ASSUME Sound, [TranscriptNext]_vars
  PROVE  /\ Len(log) \in Nat /\ Len(log') \in Nat /\ Len(log) <= Len(log')
         /\ \A i \in 1..Len(log) : /\ log'[i] = log[i] /\ LaneOf(i)' = LaneOf(i)
                                   /\ NumberOf(i)' = NumberOf(i)
<1>1. Len(log) \in Nat /\ Len(log') \in Nat /\ Len(log) <= Len(log')
      /\ \A i \in 1..Len(log) : log'[i] = log[i]
  <2>1. log \in Seq(Entry)
    BY TypeParts DEF Sound
  <2>2. CASE UNCHANGED vars
    BY <2>1, <2>2 DEF vars, workerVars
  <2>3. CASE TranscriptNext
    BY <2>1, <2>3, LogSteps DEF Sound
  <2> QED BY <2>2, <2>3
<1>2. ASSUME NEW i \in 1..Len(log) PROVE LaneOf(i)' = LaneOf(i)
  BY <1>1 DEF LaneOf, IsState
<1>3. ASSUME NEW i \in 1..Len(log) PROVE NumberOf(i)' = NumberOf(i)
  <2>1. \A k \in 1..i : k \in 1..Len(log)
    BY <1>1
  <2>2. {k \in 1..i : log'[k].run = log'[i].run} = {k \in 1..i : log[k].run = log[i].run}
    BY <1>1, <2>1
  <2> QED BY <2>2 DEF NumberOf
<1> QED BY <1>1, <1>2, <1>3

-----------------------------------------------------------------------------
(* A stream: a replay begins at the first event of a run it shows; a lane   *)
(* delivers all of its events in order from where it was subscribed; what   *)
(* was emitted was delivered and asked for, and each event delivered and    *)
(* asked for was emitted or has the number of one that was.                 *)
Subscriber == [at : {"closed", "open", "ending"}, replay : BOOLEAN, ids : SUBSET Questions,
               start : Nat, lanes : SUBSET Lanes, from : [Lanes -> Nat], pos : [Lanes -> Nat],
               out : SUBSET Nat]
StreamTyped == stream \in [Streams -> Subscriber]

LaneInv(x, l) ==
  /\ stream[x].from[l] <= stream[x].pos[l] /\ stream[x].pos[l] <= Len(log)
  /\ l \notin stream[x].lanes => stream[x].from[l] = 0 /\ stream[x].pos[l] = 0
  /\ l \in stream[x].lanes /\ stream[x].start > 0 => stream[x].from[l] = stream[x].start - 1

ReplayInv(x) ==
  /\ stream[x].start <= Len(log)
  /\ stream[x].replay /\ stream[x].ids # {} =>
       /\ stream[x].start \in 1..Len(log) /\ log[stream[x].start].kind = "started"
       /\ log[stream[x].start].to \cap stream[x].ids # {}

OutInv(x) ==
  /\ \A i \in stream[x].out : i \in 1..Len(log) /\ Delivered(x, i) /\ Answers(x, i)
  /\ stream[x].at = "open" => \A i \in stream[x].out : log[i].kind \notin Outcomes
  /\ \A i \in 1..Len(log) : Delivered(x, i) /\ Answers(x, i) => Seen(x, i)

WatchInv == \A x \in Streams : ReplayInv(x) /\ OutInv(x) /\ \A l \in Lanes : LaneInv(x, l)

\* A step that leaves a stream alone.
LEMMA StreamFrame ==
  ASSUME Sound, [TranscriptNext]_vars, StreamTyped, NEW x \in Streams, stream'[x] = stream[x],
         ReplayInv(x), OutInv(x), \A l \in Lanes : LaneInv(x, l)
  PROVE  ReplayInv(x)' /\ OutInv(x)' /\ \A l \in Lanes : LaneInv(x, l)'
<1>1. /\ Len(log) \in Nat /\ Len(log') \in Nat /\ Len(log) <= Len(log')
      /\ \A i \in 1..Len(log) : /\ log'[i] = log[i] /\ LaneOf(i)' = LaneOf(i)
                                /\ NumberOf(i)' = NumberOf(i)
  BY LogFrame
<1>2. /\ \A l \in Lanes : stream[x].from[l] \in Nat /\ stream[x].pos[l] \in Nat
      /\ stream[x].out \subseteq Nat /\ stream[x].start \in Nat
  BY DEF StreamTyped, Subscriber
<1>3. 1..Len(log) \subseteq 1..Len(log')
  BY <1>1
<1>4. \A l \in Lanes : LaneInv(x, l)'
  BY <1>1, <1>2 DEF LaneInv
<1>5. ReplayInv(x)'
  BY <1>1, <1>2, <1>3 DEF ReplayInv
<1>6. \A i \in 1..Len(log) : /\ Delivered(x, i)' <=> Delivered(x, i)
                             /\ Answers(x, i)' <=> Answers(x, i)
  BY <1>1 DEF Delivered, Answers
<1>7. \A i \in 1..Len(log') : Delivered(x, i)' => i \in 1..Len(log)
  <2> SUFFICES ASSUME NEW i \in 1..Len(log'), Delivered(x, i)' PROVE i \in 1..Len(log)
    OBVIOUS
  <2>1. LaneOf(i)' \in Lanes
    BY DEF LaneOf, Lanes
  <2>2. PICK l \in Lanes : i <= stream'[x].pos[l]
    BY <2>1 DEF Delivered
  <2>3. stream[x].pos[l] \in Nat /\ stream[x].pos[l] <= Len(log) /\ i \in Nat /\ 1 <= i
    BY <1>1, <1>2 DEF LaneInv
  <2> QED BY <1>1, <2>2, <2>3
<1>8. stream[x].out \subseteq 1..Len(log)
  BY DEF OutInv
<1>9. \A i \in 1..Len(log) : Seen(x, i) => Seen(x, i)'
  BY <1>1, <1>8 DEF Seen
<1>10. OutInv(x)'
  <2>1. \A i \in stream'[x].out : i \in 1..Len(log') /\ Delivered(x, i)' /\ Answers(x, i)'
    BY <1>3, <1>6, <1>8 DEF OutInv
  <2>2. stream'[x].at = "open" => \A i \in stream'[x].out : log'[i].kind \notin Outcomes
    BY <1>1, <1>8 DEF OutInv
  <2>3. \A i \in 1..Len(log') : Delivered(x, i)' /\ Answers(x, i)' => Seen(x, i)'
    BY <1>6, <1>7, <1>9 DEF OutInv
  <2> QED BY <2>1, <2>2, <2>3 DEF OutInv
<1> QED BY <1>4, <1>5, <1>10

\* Streams are opened, subscribed and closed.
Untouched(x) == \A y \in Streams : y # x => stream'[y] = stream[y]

LEMMA NoStreamInv ==
  ASSUME Sound, NEW x \in Streams, stream'[x] = NoStream, UNCHANGED vars
  PROVE  /\ stream'[x] \in Subscriber
         /\ ReplayInv(x)' /\ OutInv(x)' /\ \A l \in Lanes : LaneInv(x, l)'
<1>1. /\ ~ NoStream.replay /\ NoStream.out = {} /\ NoStream.at = "closed"
      /\ \A l \in Lanes : NoStream.from[l] = 0 /\ NoStream.pos[l] = 0
      /\ NoStream.lanes = {}
  BY DEF NoStream
<1>2. NoStream \in Subscriber
  BY DEF NoStream, Subscriber
<1>3. ReplayInv(x)'
  <2>1. NoStream.start = 0 /\ Len(log') \in Nat
    BY TypeParts DEF NoStream, Sound, vars, workerVars
  <2> QED BY <1>1, <2>1 DEF ReplayInv
<1>4. \A l \in Lanes : LaneInv(x, l)'
  <2>1. Len(log') \in Nat
    BY TypeParts DEF Sound, vars, workerVars
  <2> QED BY <1>1, <2>1 DEF LaneInv
<1>5. \A i \in 1..Len(log') : ~ Delivered(x, i)'
  <2> SUFFICES ASSUME NEW i \in 1..Len(log'), Delivered(x, i)' PROVE FALSE
    OBVIOUS
  <2>1. LaneOf(i)' \in Lanes
    BY DEF LaneOf, Lanes
  <2>2. PICK l \in Lanes : i <= stream'[x].pos[l]
    BY <2>1 DEF Delivered
  <2> QED BY <1>1, <2>2
<1>6. OutInv(x)'
  BY <1>1, <1>5 DEF OutInv
<1> QED BY <1>2, <1>3, <1>4, <1>5, <1>6

LEMMA OpenStep ==
  ASSUME Sound, StartInv, StreamTyped, NEW x \in Streams, Open(x)
  PROVE  /\ stream'[x] \in Subscriber /\ Untouched(x) /\ UNCHANGED vars
         /\ ReplayInv(x)' /\ OutInv(x)' /\ \A l \in Lanes : LaneInv(x, l)'
<1>1. DOMAIN stream = Streams /\ UNCHANGED vars /\ Len(log) \in Nat
  <2>1. UNCHANGED vars
    BY DEF Open
  <2>2. Len(log) \in Nat
    BY TypeParts DEF Sound
  <2> QED BY <2>1, <2>2 DEF StreamTyped
<1> DEFINE Opened(s, rep, qs, n) ==
             /\ n <= Len(log)
             /\ rep /\ qs # {} => n \in 1..Len(log) /\ log[n].kind = "started"
                                  /\ log[n].to \cap qs # {}
             /\ s.at = "open" /\ s.replay = rep /\ s.ids = qs /\ s.start = n
             /\ s.lanes = {} /\ s.out = {} /\ \A l \in Lanes : s.from[l] = 0 /\ s.pos[l] = 0
<1>2. ASSUME NEW m \in ReplayStarts
      PROVE  /\ m \in Nat /\ m <= Len(log)
             /\ Processing # {} => /\ m \in 1..Len(log) /\ log[m].kind = "started"
                                  /\ log[m].to \cap Processing # {}
  <2>1. \A q \in Processing : /\ question[q].start \in 1..Len(log)
                             /\ log[question[q].start].kind = "started"
                             /\ q \in log[question[q].start].to
    BY DEF StartInv, Processing
  <2>2. m = 0 \/ \E q \in Processing : m = question[q].start
    BY DEF ReplayStarts
  <2>3. ASSUME Processing # {} PROVE m # 0
    <3>1. PICK q \in Processing : question[q].start # 0
      BY <1>1, <2>1, <2>3
    <3>2. question[q].start \in {question[p].start : p \in Processing} \ {0}
      BY <3>1
    <3> QED BY <3>2 DEF ReplayStarts
  <2> QED BY <1>1, <2>1, <2>2, <2>3
<1>3. \E s \in Subscriber, rep \in BOOLEAN, qs \in SUBSET Questions, n \in Nat :
         stream' = [stream EXCEPT ![x] = s] /\ Opened(s, rep, qs, n)
  <2>1. CASE stream' = [stream EXCEPT ![x] = [NoStream EXCEPT !.at = "open"]]
    <3> DEFINE s == [NoStream EXCEPT !.at = "open"]
    <3>4. s \in Subscriber
      BY DEF NoStream, Subscriber
    <3>5. /\ s.at = "open" /\ s.replay = FALSE /\ s.ids = {} /\ s.start = 0
          /\ s.lanes = {} /\ s.out = {} /\ \A l \in Lanes : s.from[l] = 0 /\ s.pos[l] = 0
      BY DEF NoStream
    <3> HIDE DEF s
    <3>1. Opened(s, FALSE, {}, 0)
      BY <1>1, <3>5
    <3>2. stream' = [stream EXCEPT ![x] = s]
      BY <2>1 DEF s
    <3> HIDE DEF Opened
    <3>3. FALSE \in BOOLEAN /\ {} \in SUBSET Questions /\ 0 \in Nat
      OBVIOUS
    <3> QED BY <3>1, <3>2, <3>3, <3>4, Zenon
  <2>2. ASSUME NEW n \in ReplayStarts,
               stream' = [stream EXCEPT ![x] =
                 [NoStream EXCEPT !.at = "open", !.replay = TRUE, !.ids = Processing, !.start = n]]
        PROVE  \E s \in Subscriber, rep \in BOOLEAN, qs \in SUBSET Questions, m \in Nat :
                 stream' = [stream EXCEPT ![x] = s] /\ Opened(s, rep, qs, m)
    <3> DEFINE s == [NoStream EXCEPT !.at = "open", !.replay = TRUE, !.ids = Processing, !.start = n]
    <3>1. n \in Nat /\ Processing \in SUBSET Questions
      BY <1>2 DEF Processing
    <3>2. s \in Subscriber
      BY <3>1 DEF NoStream, Subscriber
    <3>4. /\ s.at = "open" /\ s.replay = TRUE /\ s.ids = Processing /\ s.start = n
          /\ s.lanes = {} /\ s.out = {} /\ \A l \in Lanes : s.from[l] = 0 /\ s.pos[l] = 0
      BY DEF NoStream
    <3>3. stream' = [stream EXCEPT ![x] = s]
      BY <2>2
    <3> HIDE DEF s
    <3>5. Opened(s, TRUE, Processing, n)
      BY <1>2, <3>2, <3>4
    <3> HIDE DEF Opened
    <3>6. TRUE \in BOOLEAN
      OBVIOUS
    <3> QED BY <3>1, <3>2, <3>3, <3>5, <3>6, Zenon
  <2>3. \/ stream' = [stream EXCEPT ![x] = [NoStream EXCEPT !.at = "open"]]
        \/ \E n \in ReplayStarts :
             stream' = [stream EXCEPT ![x] =
               [NoStream EXCEPT !.at = "open", !.replay = TRUE, !.ids = Processing, !.start = n]]
    BY DEF Open
  <2> HIDE DEF Opened
  <2> QED BY <2>1, <2>2, <2>3
<1>4. PICK s \in Subscriber, rep \in BOOLEAN, qs \in SUBSET Questions, n \in Nat :
         stream' = [stream EXCEPT ![x] = s] /\ Opened(s, rep, qs, n)
  BY <1>3
<1>5. /\ s.at = "open" /\ s.replay = rep /\ s.ids = qs /\ s.start = n
      /\ s.lanes = {} /\ s.out = {} /\ \A l \in Lanes : s.from[l] = 0 /\ s.pos[l] = 0
      /\ s \in Subscriber /\ n <= Len(log)
      /\ rep /\ qs # {} => n \in 1..Len(log) /\ log[n].kind = "started" /\ log[n].to \cap qs # {}
  BY <1>4
<1>6. stream'[x] = s /\ Untouched(x) /\ log' = log
  BY <1>1, <1>4 DEF Untouched, vars, workerVars
<1> HIDE DEF Opened
<1>7. ReplayInv(x)'
  BY <1>4, <1>5, <1>6 DEF ReplayInv
<1>8. \A l \in Lanes : LaneInv(x, l)'
  BY <1>1, <1>5, <1>6 DEF LaneInv
<1>9. \A i \in 1..Len(log') : ~ Delivered(x, i)'
  <2> SUFFICES ASSUME NEW i \in 1..Len(log'), Delivered(x, i)' PROVE FALSE
    OBVIOUS
  <2>1. LaneOf(i)' \in Lanes
    BY DEF LaneOf, Lanes
  <2>2. PICK l \in Lanes : i <= stream'[x].pos[l]
    BY <2>1 DEF Delivered
  <2> QED BY <1>5, <1>6, <2>2
<1>10. OutInv(x)'
  BY <1>5, <1>6, <1>9 DEF OutInv
<1> QED BY <1>1, <1>5, <1>6, <1>7, <1>8, <1>10

LEMMA SubscribeStep ==
  ASSUME Sound, StreamTyped, NEW x \in Streams, NEW l \in Lanes, Subscribe(x, l),
         ReplayInv(x), OutInv(x), \A k \in Lanes : LaneInv(x, k)
  PROVE  /\ stream'[x] \in Subscriber /\ Untouched(x) /\ UNCHANGED vars
         /\ ReplayInv(x)' /\ OutInv(x)' /\ \A k \in Lanes : LaneInv(x, k)'
<1> DEFINE s == stream[x]
           n == IF s.start > 0 THEN s.start - 1 ELSE Len(log)
<1>1. /\ s.at = "open" /\ l \notin s.lanes /\ UNCHANGED vars
      /\ stream' = [stream EXCEPT ![x].lanes = @ \cup {l}, ![x].from[l] = n, ![x].pos[l] = n]
  BY DEF Subscribe
<1>2. DOMAIN stream = Streams /\ s \in Subscriber /\ Len(log) \in Nat
  BY TypeParts DEF StreamTyped, Sound
<1>3. n \in Nat /\ n <= Len(log)
  <2>1. s.start \in Nat /\ s.start <= Len(log)
    BY <1>2 DEF Subscriber, ReplayInv
  <2> QED BY <1>2, <2>1
<1> DEFINE t == [s EXCEPT !.lanes = @ \cup {l}, !.from = [@ EXCEPT ![l] = n],
                          !.pos = [@ EXCEPT ![l] = n]]
<1>4. stream'[x] = t /\ Untouched(x)
  BY <1>1, <1>2 DEF Untouched
<1>5. /\ t \in Subscriber /\ t.at = s.at /\ t.replay = s.replay /\ t.ids = s.ids
      /\ t.start = s.start /\ t.out = s.out /\ t.lanes = s.lanes \cup {l}
      /\ t.from[l] = n /\ t.pos[l] = n
      /\ \A k \in Lanes : k # l => t.from[k] = s.from[k] /\ t.pos[k] = s.pos[k]
  <2> HIDE DEF n, s
  <2> QED BY <1>2, <1>3 DEF Subscriber
<1>6. /\ log' = log /\ \A i : LaneOf(i)' = LaneOf(i) /\ NumberOf(i)' = NumberOf(i)
      /\ \A i : LaneOf(i) \in Lanes
  BY <1>1 DEF vars, workerVars, LaneOf, IsState, NumberOf, Lanes
<1> HIDE DEF t
<1>7. ReplayInv(x)'
  BY <1>4, <1>5, <1>6 DEF ReplayInv
<1>8. \A k \in Lanes : LaneInv(x, k)'
  <2> SUFFICES ASSUME NEW k \in Lanes PROVE LaneInv(x, k)'
    OBVIOUS
  <2>1. CASE k = l
    <3>1. s.start > 0 => n = s.start - 1
      OBVIOUS
    <3> HIDE DEF n
    <3> QED BY <1>2, <1>3, <1>4, <1>5, <1>6, <2>1, <3>1 DEF LaneInv
  <2>2. CASE k # l
    <3> HIDE DEF n
    <3> QED BY <1>4, <1>5, <1>6, <2>2 DEF LaneInv
  <2> QED BY <2>1, <2>2
<1> HIDE DEF n
<1>9. ASSUME NEW i \in 1..Len(log)
      PROVE  /\ Delivered(x, i)' => Delivered(x, i)
             /\ Delivered(x, i) => Delivered(x, i)'
             /\ Answers(x, i)' <=> Answers(x, i)
  <2>1. Answers(x, i)' <=> Answers(x, i)
    BY <1>4, <1>5, <1>6 DEF Answers
  <2>2. CASE LaneOf(i) = l
    <3>1. ~ Delivered(x, i)'
      BY <1>2, <1>3, <1>4, <1>5, <1>6, <2>2 DEF Delivered
    <3>2. ~ Delivered(x, i)
      BY <1>1, <1>2, <2>2 DEF Delivered, LaneInv
    <3> QED BY <2>1, <3>1, <3>2
  <2>3. CASE LaneOf(i) # l
    BY <1>4, <1>5, <1>6, <2>1, <2>3 DEF Delivered
  <2> QED BY <2>2, <2>3
<1>10. \A i : Seen(x, i)' <=> Seen(x, i)
  BY <1>4, <1>5, <1>6 DEF Seen
<1>11. OutInv(x)'
  <2>1. \A i \in stream'[x].out : i \in 1..Len(log') /\ Delivered(x, i)' /\ Answers(x, i)'
    BY <1>4, <1>5, <1>6, <1>9 DEF OutInv
  <2>2. stream'[x].at = "open" => \A i \in stream'[x].out : log'[i].kind \notin Outcomes
    BY <1>4, <1>5, <1>6 DEF OutInv
  <2>3. \A i \in 1..Len(log') : Delivered(x, i)' /\ Answers(x, i)' => Seen(x, i)'
    BY <1>6, <1>9, <1>10 DEF OutInv
  <2> QED BY <2>1, <2>2, <2>3 DEF OutInv
<1> QED BY <1>1, <1>4, <1>5, <1>7, <1>8, <1>11

LEMMA ReceiveStep ==
  ASSUME Sound, StreamTyped, NEW x \in Streams, NEW l \in Lanes, Receive(x, l),
         ReplayInv(x), OutInv(x), \A k \in Lanes : LaneInv(x, k)
  PROVE  /\ stream'[x] \in Subscriber /\ Untouched(x) /\ UNCHANGED vars
         /\ ReplayInv(x)' /\ OutInv(x)' /\ \A k \in Lanes : LaneInv(x, k)'
<1> DEFINE s == stream[x]
<1>1. /\ s.at \in {"open", "ending"} /\ l \in s.lanes /\ UNCHANGED vars
  BY DEF Receive
<1>2. PICK i \in 1..Len(log) :
         /\ IsNext(x, l, i)
         /\ stream' = [stream EXCEPT
              ![x].pos[l] = i,
              ![x].out = IF Emits(x, i) THEN @ \cup {i} ELSE @,
              ![x].at = IF Emits(x, i) /\ log[i].kind \in Outcomes THEN "ending" ELSE @]
  BY DEF Receive
<1>3. DOMAIN stream = Streams /\ s \in Subscriber
  BY DEF StreamTyped
<1>4. Len(log) \in Nat
  BY TypeParts DEF Sound
<1> DEFINE t == [s EXCEPT !.pos = [@ EXCEPT ![l] = i],
                          !.out = IF Emits(x, i) THEN @ \cup {i} ELSE @,
                          !.at = IF Emits(x, i) /\ log[i].kind \in Outcomes THEN "ending" ELSE @]
<1>5. stream'[x] = t /\ Untouched(x)
  BY <1>2, <1>3 DEF Untouched
<1>6. /\ t \in Subscriber /\ t.replay = s.replay /\ t.ids = s.ids /\ t.start = s.start
      /\ t.lanes = s.lanes /\ t.from = s.from /\ t.pos[l] = i
      /\ \A k \in Lanes : k # l => t.pos[k] = s.pos[k]
      /\ t.out = IF Emits(x, i) THEN s.out \cup {i} ELSE s.out
      /\ t.at = "open" => s.at = "open" /\ ~ (Emits(x, i) /\ log[i].kind \in Outcomes)
  <2>1. i \in Nat
    BY <1>2, <1>4
  <2> HIDE DEF s
  <2> QED BY <1>3, <2>1 DEF Subscriber
<1>7. /\ log' = log /\ \A j : LaneOf(j)' = LaneOf(j) /\ NumberOf(j)' = NumberOf(j)
      /\ \A j : LaneOf(j) \in Lanes
  BY <1>1 DEF vars, workerVars, LaneOf, IsState, NumberOf, Lanes
<1> HIDE DEF t
<1>8. /\ i > s.pos[l] /\ LaneOf(i) = l /\ s.from[l] <= s.pos[l] /\ s.pos[l] \in Nat /\ s.from[l] \in Nat
      /\ \A j \in 1..Len(log) : j > s.pos[l] /\ j < i => LaneOf(j) # l
  <2>1. s.pos[l] \in Nat /\ s.from[l] \in Nat
    BY <1>3 DEF Subscriber
  <2>2. \A j \in 1..Len(log) : j > s.pos[l] /\ j < i => j \in (s.pos[l] + 1)..(i - 1)
    BY <1>4, <2>1
  <2> QED BY <1>2, <2>1, <2>2 DEF IsNext, LaneInv
<1>9. ReplayInv(x)'
  BY <1>5, <1>6, <1>7 DEF ReplayInv
<1>10. \A k \in Lanes : LaneInv(x, k)'
  <2> SUFFICES ASSUME NEW k \in Lanes PROVE LaneInv(x, k)'
    OBVIOUS
  <2>1. CASE k = l
    BY <1>1, <1>2, <1>4, <1>5, <1>6, <1>7, <1>8, <2>1 DEF LaneInv
  <2>2. CASE k # l
    BY <1>5, <1>6, <1>7, <2>2 DEF LaneInv
  <2> QED BY <2>1, <2>2
<1>11. \A j : Answers(x, j)' <=> Answers(x, j)
  BY <1>5, <1>6, <1>7 DEF Answers
<1>12. ASSUME NEW j \in 1..Len(log) PROVE Delivered(x, j)' <=> (Delivered(x, j) \/ j = i)
  <2>1. CASE LaneOf(j) # l
    <3>1. j # i
      BY <1>8, <2>1
    <3> QED BY <1>5, <1>6, <1>7, <2>1, <3>1 DEF Delivered
  <2>2. CASE LaneOf(j) = l
    <3>1. Delivered(x, j)' <=> s.from[l] < j /\ j <= i
      BY <1>5, <1>6, <1>7, <2>2 DEF Delivered
    <3>2. Delivered(x, j) <=> s.from[l] < j /\ j <= s.pos[l]
      BY <2>2 DEF Delivered
    <3>3. j > s.pos[l] => ~ (j < i)
      BY <1>8, <2>2
    <3>4. i \in Nat /\ j \in Nat
      BY <1>2, <1>4
    <3> HIDE DEF s
    <3> QED BY <1>8, <3>1, <3>2, <3>3, <3>4
  <2> QED BY <2>1, <2>2
<1>13. \A j : Seen(x, j) => Seen(x, j)'
  BY <1>5, <1>6, <1>7 DEF Seen
<1>14. Emits(x, i) => Seen(x, i)'
  BY <1>5, <1>6, <1>7 DEF Seen
<1>15. OutInv(x)'
  <2>1. \A j \in stream'[x].out : j \in s.out \/ (j = i /\ Emits(x, i))
    BY <1>5, <1>6
  <2>2. \A j \in stream'[x].out : j \in 1..Len(log') /\ Delivered(x, j)' /\ Answers(x, j)'
    BY <1>7, <1>11, <1>12, <2>1 DEF OutInv, Emits
  <2>3. stream'[x].at = "open" => \A j \in stream'[x].out : log'[j].kind \notin Outcomes
    BY <1>5, <1>6, <1>7, <2>1 DEF OutInv
  <2>4. \A j \in 1..Len(log') : Delivered(x, j)' /\ Answers(x, j)' => Seen(x, j)'
    BY <1>7, <1>11, <1>12, <1>13, <1>14 DEF OutInv, Emits
  <2> QED BY <2>2, <2>3, <2>4 DEF OutInv
<1> QED BY <1>1, <1>5, <1>6, <1>9, <1>10, <1>15

LEMMA WatchKept ==
  Sound /\ StartInv /\ StreamTyped /\ WatchInv /\ [StreamNext]_<<vars, streamVars>>
    => StreamTyped' /\ WatchInv'
<1> SUFFICES ASSUME Sound, StartInv, StreamTyped, WatchInv, [StreamNext]_<<vars, streamVars>>
             PROVE  StreamTyped' /\ WatchInv'
  OBVIOUS
<1>1. [TranscriptNext]_vars
  BY StreamSteps
<1>2. CASE UNCHANGED stream
  <2>1. WatchInv'
    BY <1>1, <1>2, StreamFrame DEF WatchInv
  <2> QED BY <1>2, <2>1 DEF StreamTyped
<1>3. ASSUME NEW x \in Streams, stream'[x] \in Subscriber, Untouched(x), DOMAIN stream' = Streams,
             stream' = [y \in Streams |-> stream'[y]],
             ReplayInv(x)', OutInv(x)', \A k \in Lanes : LaneInv(x, k)'
      PROVE  StreamTyped' /\ WatchInv'
  <2>1. ASSUME NEW y \in Streams, y # x
        PROVE  /\ stream'[y] \in Subscriber
               /\ ReplayInv(y)' /\ OutInv(y)' /\ \A k \in Lanes : LaneInv(y, k)'
    <3>1. stream'[y] = stream[y]
      BY <1>3, <2>1 DEF Untouched
    <3> QED BY <1>1, <3>1, StreamFrame DEF WatchInv, StreamTyped
  <2>2. \A y \in Streams : stream'[y] \in Subscriber
    BY <1>3, <2>1
  <2>3. StreamTyped'
    BY <1>3, <2>2 DEF StreamTyped
  <2> QED BY <1>3, <2>1, <2>3 DEF WatchInv
<1>4. ASSUME NEW x \in Streams, NEW s, stream' = [stream EXCEPT ![x] = s]
      PROVE  DOMAIN stream' = Streams /\ stream' = [y \in Streams |-> stream'[y]]
  BY <1>4 DEF StreamTyped
<1>5. ASSUME NEW x \in Streams, Return(x) \/ ClientLeaves(x)
      PROVE  StreamTyped' /\ WatchInv'
  <2>1. stream' = [stream EXCEPT ![x] = NoStream] /\ UNCHANGED vars
    BY <1>5 DEF Return, ClientLeaves
  <2>2. stream'[x] = NoStream /\ Untouched(x)
    BY <2>1 DEF StreamTyped, Untouched
  <2> QED BY <1>3, <1>4, <2>1, <2>2, NoStreamInv
<1>6. ASSUME NEW x \in Streams, Open(x) PROVE StreamTyped' /\ WatchInv'
  <2>1. DOMAIN stream' = Streams /\ stream' = [y \in Streams |-> stream'[y]]
    BY <1>4, <1>6 DEF Open
  <2> QED BY <1>3, <1>6, <2>1, OpenStep
<1>7. ASSUME NEW x \in Streams, NEW l \in Lanes, Subscribe(x, l) \/ Receive(x, l)
      PROVE  StreamTyped' /\ WatchInv'
  <2>1. \E s : stream' = [stream EXCEPT ![x] = s]
    BY <1>7 DEF Subscribe, Receive
  <2>2. DOMAIN stream' = Streams /\ stream' = [y \in Streams |-> stream'[y]]
    BY <1>4, <2>1
  <2> QED BY <1>3, <1>7, <2>2, SubscribeStep, ReceiveStep DEF WatchInv
<1>8. CASE UNCHANGED streamVars
  BY <1>2, <1>8 DEF streamVars
<1> QED BY <1>5, <1>6, <1>7, <1>8 DEF StreamNext

\* What the theorems on streams rest on.
LEMMA StreamsSound ==
  StreamSpec => [](Sound /\ RunsInv /\ StreamTyped /\ WatchInv)
<1>1. StreamInit => StreamTyped /\ WatchInv
  <2> SUFFICES ASSUME StreamInit PROVE StreamTyped /\ WatchInv
    OBVIOUS
  <2>1. NoStream \in Subscriber
    BY DEF NoStream, Subscriber
  <2>2. \A x \in Streams : stream[x] = NoStream
    BY DEF StreamInit
  <2>3. Len(log) = 0 /\ \A i \in 1..Len(log) : FALSE
    BY DEF StreamInit, Init
  <2>4. StreamTyped
    BY <2>1 DEF StreamInit, StreamTyped
  <2>5. ASSUME NEW x \in Streams
        PROVE  ReplayInv(x) /\ OutInv(x) /\ \A l \in Lanes : LaneInv(x, l)
    BY <2>2, <2>3 DEF NoStream, ReplayInv, OutInv, LaneInv
  <2> QED BY <2>4, <2>5 DEF WatchInv
<1>2. StreamSpec => [](Sound /\ StartInv /\ RunsInv)
  BY StreamsOnlyWatch, TranscriptTyped, StartsAreMarked, RunsCoherent, PTL
<1> QED BY <1>1, <1>2, WatchKept, PTL DEF StreamSpec

(* A replay that ends with the terminal event of the only run of its        *)
(* questions has shown all of the run, whatever the projector, the worker   *)
(* and the database went through before and since the stream was opened.    *)
THEOREM ReplaysAreWhole == StreamSpec => []ReplayIsWhole
<1>1. Sound /\ RunsInv /\ StreamTyped /\ WatchInv => ReplayIsWhole
  <2> SUFFICES ASSUME Sound, RunsInv, StreamTyped, WatchInv,
                      NEW x \in Streams, stream[x].replay,
                      NEW i \in stream[x].out, log[i].kind \in Outcomes,
                      \A j \in 1..Len(log) : Answers(x, j) => log[j].run = log[i].run,
                      NEW j \in 1..i, log[j].run = log[i].run, IsState(j)
               PROVE  j \in stream[x].out
    BY DEF ReplayIsWhole
  <2> DEFINE n == stream[x].start
  <2>1. i \in 1..Len(log) /\ Delivered(x, i) /\ Answers(x, i)
    BY DEF WatchInv, OutInv
  <2>2. Len(log) \in Nat /\ j \in 1..Len(log) /\ j <= i
    <3>1. Len(log) \in Nat
      BY TypeParts DEF Sound
    <3> QED BY <2>1, <3>1
  <2>3. n \in 1..Len(log) /\ log[n].kind = "started" /\ Answers(x, n)
    BY <2>1 DEF Answers, WatchInv, ReplayInv
  <2>4. n <= j
    BY <2>2, <2>3 DEF RunsInv, Sibling
  <2>5. LaneOf(i) = "state" /\ LaneOf(j) = "state" /\ "state" \in Lanes
    BY DEF LaneOf, IsState, Outcomes, Lanes
  <2>6. stream[x].from["state"] = n - 1 /\ i <= stream[x].pos["state"]
    <3>1. LaneInv(x, "state") /\ stream[x].start > 0
      BY <2>2, <2>3, <2>5 DEF WatchInv
    <3>2. i <= stream[x].pos["state"] /\ i > 0 /\ i \in Nat
      BY <2>1, <2>2, <2>5 DEF Delivered
    <3>3. stream[x].pos["state"] # 0
      BY <3>2
    <3>4. "state" \in stream[x].lanes
      BY <3>1, <3>3 DEF LaneInv
    <3> QED BY <3>1, <3>2, <3>4 DEF LaneInv
  <2>7. Delivered(x, j)
    <3>1. stream[x].pos["state"] \in Nat
      BY <2>5 DEF StreamTyped, Subscriber
    <3>2. n - 1 < j /\ j <= stream[x].pos["state"]
      <4>1. n \in Nat /\ i \in Nat /\ j \in Nat
        BY <2>1, <2>2, <2>3
      <4> QED BY <4>1, <2>2, <2>3, <2>4, <2>6, <3>1
    <3> QED BY <2>5, <2>6, <3>2 DEF Delivered
  <2>8. Answers(x, j)
    BY <2>1, <2>2 DEF Answers, RunsInv, Sibling
  <2>9. PICK k \in stream[x].out : NumberOf(k) = NumberOf(j)
    BY <2>2, <2>7, <2>8 DEF WatchInv, OutInv, Seen
  <2>10. k \in 1..Len(log) /\ log[k].run = log[i].run
    BY <2>9 DEF WatchInv, OutInv
  <2>11. k \in Nat \ {0} /\ j \in Nat \ {0} /\ Sibling(k, j)
    BY <2>2, <2>10 DEF Sibling
  <2> QED BY <2>9, <2>11, NumberNames
<1> QED BY <1>1, StreamsSound, PTL

\* Of the terminal events with a property one has the highest number.
LEMMA HighestNumber ==
  ASSUME Len(log) \in Nat, NEW T, T \subseteq 1..Len(log), T # {}
  PROVE  \E t \in T : \A u \in T : NumberOf(u) <= NumberOf(t)
<1> DEFINE below(t) == Len(log) - NumberOf(t)
           D == {below(t) : t \in T}
           L == OpToRel(<, Nat)
<1>1. \A t \in T : NumberOf(t) \in Nat /\ NumberOf(t) <= Len(log)
  <2> TAKE t \in T
  <2>1. t \in Nat /\ t <= Len(log)
    OBVIOUS
  <2>2. NumberOf(t) \in Nat /\ NumberOf(t) <= t
    BY <2>1, NumberTyped
  <2> QED BY <2>1, <2>2
<1>2. D \subseteq Nat /\ D # {}
  <2>1. \A t \in T : below(t) \in Nat
    BY <1>1
  <2> QED BY <2>1
<1>3. \A a, b \in Nat : <<a, b>> \in L <=> a < b
  BY DEF OpToRel
<1> HIDE DEF D, L
<1>4. IsWellFoundedOn(L, Nat)
  BY NatLessThanWellFounded DEF L
<1>5. \E a \in D : \A b \in D : ~ (<<b, a>> \in L)
  BY <1>2, <1>4, WFMin
<1>6. PICK a \in D : \A b \in D : ~ (b < a)
  BY <1>2, <1>3, <1>5
<1>7. PICK t \in T : a = below(t)
  BY <1>6 DEF D
<1>8. \A u \in T : ~ (below(u) < below(t))
  BY <1>6, <1>7 DEF D
<1>9. \A u \in T : NumberOf(u) <= NumberOf(t)
  BY <1>1, <1>7, <1>8
<1> QED BY <1>7, <1>9

(* Unless a worker died, a stream whose lanes began at one point and that   *)
(* was told the end of a run does not stay open once all is delivered: the  *)
(* numbers of other runs hide some terminal event, never that of the        *)
(* longest run, and an emitted one ends the stream.                         *)
THEOREM StreamsEnd == StreamSpec => [](deaths = 0 => StreamOver)
<1>1. Sound /\ RunsInv /\ EndsInv /\ StreamTyped /\ WatchInv => (deaths = 0 => StreamOver)
  <2> SUFFICES ASSUME Sound, RunsInv, EndsInv, StreamTyped, WatchInv, deaths = 0,
                      NEW x \in Streams, stream[x].at = "open", Exhausted(x), run.at # "running",
                      stream[x].from["stream"] = stream[x].from["state"],
                      NEW i \in 1..Len(log),
                      log[i].kind \in Outcomes, Answers(x, i), Delivered(x, i)
               PROVE  FALSE
    BY DEF StreamOver
  <2> DEFINE f == stream[x].from["state"]
             T == {t \in 1..Len(log) : log[t].kind \in Outcomes /\ Answers(x, t) /\ f < t}
  <2>1. Len(log) \in Nat /\ f \in Nat
    <3>1. stream[x].from["state"] \in Nat
      BY DEF StreamTyped, Subscriber, Lanes
    <3> QED BY <3>1, TypeParts DEF Sound
  <2>2. \A k \in 1..Len(log) : Delivered(x, k) <=> f < k
    <3>1. \A k \in 1..Len(log) : stream[x].from[LaneOf(k)] = f
      BY DEF LaneOf
    <3> QED BY <3>1 DEF Delivered, Exhausted
  <2>3. i \in T
    BY <2>2
  <2>4. T \subseteq 1..Len(log) /\ T # {}
    BY <2>3
  <2>5. PICK t \in T : \A u \in T : NumberOf(u) <= NumberOf(t)
    BY <2>1, <2>4, HighestNumber
  <2>6. PICK k \in stream[x].out : NumberOf(k) = NumberOf(t)
    <3>1. t \in 1..Len(log) /\ Delivered(x, t) /\ Answers(x, t)
      BY <2>2, <2>5
    <3> QED BY <3>1 DEF WatchInv, OutInv, Seen
  <2>7. k \in 1..Len(log) /\ Answers(x, k) /\ f < k /\ log[k].kind \notin Outcomes
    BY <2>2, <2>6 DEF WatchInv, OutInv
  <2>8. PICK u \in 1..Len(log) : Sibling(k, u) /\ log[u].kind \in Outcomes
    BY <2>7 DEF EndsInv
  <2>9. k < u
    <3>1. k <= u /\ k # u
      BY <2>7, <2>8 DEF RunsInv, Sibling
    <3> QED BY <2>1, <2>7, <2>8, <3>1
  <2>10. Answers(x, u)
    BY <2>7, <2>8 DEF Answers, RunsInv
  <2>11. u \in T
    BY <2>1, <2>7, <2>8, <2>9, <2>10
  <2>12. NumberOf(k) < NumberOf(u)
    <3>1. k \in Nat /\ u \in Nat /\ 0 < k
      BY <2>1, <2>7, <2>8
    <3> QED BY <2>8, <2>9, <3>1, NumberGrows
  <2>13. NumberOf(u) <= NumberOf(t) /\ NumberOf(u) \in Nat /\ NumberOf(t) \in Nat
    <3>1. u \in Nat /\ t \in Nat
      BY <2>1, <2>5, <2>8
    <3> QED BY <2>5, <2>11, <3>1, NumberTyped
  <2> HIDE DEF T, f
  <2> QED BY <2>6, <2>12, <2>13
<1>2. Init => EndsInv
  BY DEF Init, EndsInv
<1>3. StreamSpec => []EndsInv
  BY <1>2, EndsKept, StreamsOnlyWatch, TranscriptTyped, RunsCoherent, PTL DEF Spec
<1> QED BY <1>1, <1>3, StreamsSound, PTL
=============================================================================
