# TLA+ models of Leros

Leros is a multi-tenant assistant platform in Go.  A control plane (HTTP API,
services, database) turns what users write into commands on NATS JetStream.  A
worker process per assistant consumes them, merges and schedules runs, drives
an agent runtime (Codex, OpenCode, Claude, or the native one) and publishes the
events of each run.  Projectors in the control plane turn the events into
session messages and a stream for the browser.  A reconciler keeps the worker
processes in step with the assistants, and a model router converts between the
protocols of model providers and clients.

    HTTP/CLI -> session service -> message poster -> JetStream
        -> command lanes (run, control, interaction, skill)
        -> run coordinator -> trailing debouncer -> assistant service
        -> runtime process <-> interaction router <- interaction lane
        -> event lanes -> projectors -> database -> SSE

    assistant service -> deployment records <- reconciler -> process scheduler
    runtime process -> model router -> protocol adapters -> model provider

This directory models the way of a message from its posting to its answer
(transcript, stream), the path of a command through the worker (lane,
coordinator, debouncer, runtime, dialogue with the user), the life of a worker
process, and a streamed answer of a model on its way through the router.
All paths below are under `src/backend`.

Contents: [inventory](#inventory), [modules](#modules), [runs](#runs),
[fairness](#fairness), [proofs](#proofs),
[where code and documentation differ](#where-code-and-documentation-differ),
[not modelled](#what-is-not-modelled), [plan](#plan).

To check a run: `tlc -workers 2 -config <run>.cfg <MC module>`.
To check proofs: `tlapm <module>Proofs.tla`.

## Inventory

### Parts that are modelled

**Trailing debouncer**, `pkg/utils/trailing_debouncer.go`.
State: under one mutex a map from key to entry (pending value, timer, sequence
number, running flag) and a closed flag.  Operations: `Call`, the expiry of a
timer (`flush`, `takeReady`), the handler loop (`run`, `finishRun`), `Close`.
Used by the coordinator, one key per session.
Hard: a timer that has fired cannot be stopped; work arrives while the handler
runs; an entry is deleted and created again under the same key.
Correct when handlers of a key are serial, no accepted value is forgotten or
handled twice, and no idle entry stays in the map.

**Run coordinator**, `internal/worker/run/coordinator.go`.
State: `pending` (parked callers with a channel of capacity 1 each), `closed`
and `submissions` under `stateMu`, `activeRuns` under `activeRunsMu`, a slots
channel.  Operations: `Submit`, the handler of the debouncer
(`enqueueSubmission`, `execute`, `notifyWaiters`), `Cancel`, `Close`.  Called by
the run lane and the control lane, calls the assistant service.
Hard: callers of one batch are answered outside the lock while they may leave
and `Close` may drain them; a cancel function is called after the lookup that
found it.
Correct when runs of a session are serial, slots are counted exactly, every
caller gets one answer and it is that of its run, a cancellation stops the run
it named, and `Close` leaves no caller behind.

**Run lane**, `internal/worker/command/run/handler.go`,
`pkg/seqtracker/tracker.go`, the subscription in `internal/infra/mq/nats.go`,
the dispatcher and the shutdown in `cmd/leros/worker.go`.
State: the broker's stream and durable consumer, an SQLite table with the
status of each sequence number, the command in the callback.  Operations:
deliver, `HandleRunCommand`, acknowledge, crash, restart, graceful shutdown.
Hard: AckWait is shorter than a run, so deliveries repeat; the process may die
between any two steps; close functions run in any order.
Correct when a command is not executed twice by one process, an acknowledged
command has a recorded outcome, and outcomes are true and final.

**Interaction router and lane**, `agent/runtime/provider/interaction_router.go`,
`internal/worker/command/interaction/handler.go`, and of the runtimes
(`agent/runtime/{codex,claude,opencode}`) the event channel, the end of a turn
and the responder.
State: the router's maps from request id to result channel, the event channel
of a run, `pendingApproval` of a codex process.  Operations: ask, publish,
register, wait, resolve, write the decision, end the turn, cancel the run.
Hard: the answer races with the registration, with the cancellation and with
the removal of the entry; it is sent outside the lock; events may be dropped.
Correct when a process does only what an answer to its own request says, a
cancelled run ends, a failed turn is reported, and the lane is never stuck.

**External CLI runtimes, Codex**, `agent/runtime/externalcli/runner.go`,
`agent/runtime/codex/{invoker,transport,appserver}.go`.
State: the saved conversation of a session and whether it is marked as failed,
the app server process and its pipes, the pending call, the callbacks, the event
channel.  Operations: look up the conversation, start the process, the JSON-RPC
calls, the reader, the goroutine that waits for the turn, save or mark.
Hard: the reader, the waiting goroutine and the consumer share callbacks and a
channel that one of them closes; the process may exit at any point.
Correct when no reader sends on a closed channel, only conversations that ended
well are resumed and none of those is lost, and a run leaves nothing behind.

**Session messages and projectors**, `internal/service/message_poster.go`,
`session_service.go`, `internal/runnable`, with the run journal and the event
publication of the worker (`internal/assistant`, `internal/worker/eventpub`).
State: the rows of a session with sequence and status, the stream of run events,
the cursor and the unacknowledged events of a durable consumer.  Operations:
post, run, emit, project, acknowledge, remove.
Hard: the next sequence is read in one statement and used in another; events are
delivered again; database errors are logged and the event acknowledged.
Correct when an outcome has its answer and stays, an answer follows its question
and is written once per delivery, and nothing acknowledged is forgotten.

**Browser streams**, `StreamSessionEvents` of `session_service.go` over
`SubscribeFrom` of `internal/infra/mq/nats.go`.
State: per stream the questions replayed, the start sequence, two lanes, the
numbers seen.  Operations: open, subscribe to a lane, receive, end.
Hard: the replay state is read before the lanes are subscribed; the two lanes
overtake each other; numbers start again with each run.
Correct when a replay shows its run as a whole and a stream ends.

**Worker deployments**, `internal/service/worker_deployment_reconciler.go`,
`worker_provisioning.go`, `digital_assistant_service.go`,
`internal/worker/scheduler/process_scheduler.go`.
State: the status of an assistant and of its deployment record, the table of
processes under one lock, each instance under another.  Operations: activate,
stop, delete, list, reconcile, start, check, stop, monitor, restart.
Hard: decisions are taken by rows read earlier and written without a condition;
the locks are taken in both orders; a monitor outlives its instance.
Correct when a process whose assistant is switched off is stopped.

**Model router**, `internal/modelrouter/handler.go`, `pkg/llmprotocol`.
State: per stream the items, what was sent, the stop reason; the client's
adapter its own.  Operations: decode, aggregate, encode, finish.
Hard: four protocols frame items differently; a provider may leave out, reorder
or break off anything.
Correct when the client sees well-framed items, all deltas, the right stop
reason, and the end of its stream.

### Parts that are not modelled

| Part | Why |
|---|---|
| Agent executor and native runtime | sequential adapters between the assistant service and a runtime |
| Run preparation and context | builds prompts, files and links from a request; no shared state |
| Worker and client connections (`internal/worker/{server,client}`, `internal/infra/websocket`) | nothing in the program starts the worker client, and the client connector closes its connection when its handler returns, so the registration and heartbeat code is not reached by a worker |
| Skills, memory store | files, archives and downloads, one command at a time or under one lock |
| Worker pool | a channel and a wait group that nothing uses |
| Project, task, organisation, user and file services | create, read, update and delete, request by request |
| HTTP API and authentication, command line | routes, middleware and entry points |
| Frontend | TypeScript user interface |

`PROJECT.json` lists the hazards at their lines.

## Modules

| Module | Models | Extends |
|---|---|---|
| `SerialBatches` | what a keyed debouncer promises: per key, batches in order, one at a time, each call in at most one | |
| `TrailingDebouncer` | the debouncer with its timers and critical sections; `Promise == INSTANCE SerialBatches WITH ...` is the refinement | |
| `RunCoordinator` | the coordinator over the debouncer's actions | `TrailingDebouncer` |
| `RunLane` | the cmd.run lane with broker, table, crashes and shutdown | |
| `InteractionRouter` | the dialogue of runs with their users | |
| `CodexRuns` | the runs of a session on the Codex runtime | |
| `SessionTranscript` | the messages of a session: posting, running, projecting, removing | |
| `SessionStream` | the event streams of browsers on that session | `SessionTranscript` |
| `WorkerDeployments` | requests, reconciler and process scheduler | |
| `StreamAggregator` | the life cycle of the items of a streamed answer | |
| `StreamConversion` | provider, decoding, aggregator, encoding and the handler's loop | `StreamAggregator` |
| `MC*` | constants for TLC | the module named |
| `*Proofs` | theorems and proofs | the module named, `TLAPS` |

`SessionTranscriptProofs` extends `SessionStream` and so has the theorems of both
modules of a session, `StreamConversionProofs` those of both of the conversion.

One action is one critical section, one channel operation, one database
statement or one callback.  Operators marked "Mutant" are plausible slips in the
code; no specification uses them, and `PROJECT.json` says which property each of
them breaks.

### SerialBatches and TrailingDebouncer

`entries`, `closed` are the fields of the struct, with sequence number 0 for
"no entry".  The timer armed by a `Call` and the goroutine it starts share the
identity of that call: `task[c]` is the timer's state, `timerSeq[c]` what its
closure captured, `batch[c]` the value its handler works on.  Real time is
abstracted: an armed timer may fire whenever it likes, and a goroutine that
fired may reach the mutex any time later, so every race of `Stop` with the
expiry is there.  A merged value is the sequence of calls in it.  `takeReady`
is three actions (`FlushStale`, `FlushDeferred`, `FlushTakes`), `finishRun`
three disjuncts.  Without a merge function (`HasMerge = FALSE`) the last value
wins; the worker always sets one, and that is what TLC checks, while the
theorems cover both.

### RunCoordinator

It uses the debouncer's own actions: `Schedule` contains `Call`, `StartBatch`
contains `FlushTakes`, `FinishBatch` contains `FinishRun`, `Close` contains
`CloseDebouncer`, all of them within `stateMu` where the code is.  A submission
stands for its caller's goroutine, context, run id and waiter.  `caller` follows
`Submit`, `phase` the goroutine that executes a batch (acquire a slot, register,
execute, unregister, release, notify, send).  The code merges payloads; what is
kept of that is whose run id and context a batch has: the run id of its first
submission and the context of its last.  `Direct` are submissions without a
session, which are executed in the caller's goroutine.  `channel` is the result
channel of a caller; `outbox` and `closeOutbox` are the sends that
`notifyWaiters` and `Close` have yet to make after they left the lock.

### RunLane

`stream`, `durable`, `acked`, `cursor` are the broker as the client sees it;
`status` is the table; `hand` and `at` are the message in the callback and the
line it is at; `task` is all that the lane sees of the coordinator: a submission
is executed at most once, and `Submit` returns its outcome, or an error when the
context is done or the coordinator closed, while the run may go on
(`RunCoordinator` shows that this is what it does: `RunOnce`,
`AnswerIsRunResult`).  The serial lane submits one command
at a time, so batches of several commands do not arise here.  Commands carry a
session (`message_poster.go` lines 426 to 457), so a run that panics does so in
a goroutine of the debouncer, which is a crash of the process.  The client
library deletes a durable consumer on `Unsubscribe` if this process created it,
which the code does not determine: `durable'` is a choice.  The lifecycle
library runs the close functions in an order of its own, so the shutdown
actions are in any order except that `Handler.Close` closes the coordinator,
waits for the `Submit` in flight and closes the tracker, in that order.
Left out: messages without JetStream metadata, which the code handles without
the table, and errors of an open database.

### InteractionRouter

`queue` is the event channel of a run, `at` where `ConsumeEvents` is, `pending`
the router's map, `channel` the result channel of a request, `hand` and `target`
the answer in the interaction handler, looked up and not sent yet.  Approvals
and questions go through two maps with the same code, so an id stands for a map
and a request id.  The runtimes differ in three ways, which are constants:
whether a full event channel drops the event (`Lossy`: codex and opencode) or
blocks (claude), whether a decision answers the request it names or the latest
one (`OneSlot`: codex), and what a responder takes for a consent (`Consents`).
Nothing between the HTTP request and the responder checks the action, so "other"
is among the `Actions`: claude goes on with everything but "deny"
(`DefaultAllow`), codex and opencode only with "approve" and "always", which
"approve" stands for.  `IdOf` says whether requests have ids of their own.
`Cap` stands for 64 and 32 in the code: what matters is that the channel can be
full.  `MaxAnswers` bounds the answers to each request, which stand for what the
user sends again and for what the broker delivers again.  That a codex process
may have two requests outstanding is an assumption about the external program,
which the protocol allows.

### CodexRuns

Runs are numbers, and a thread is named by the run that created it.  `binding`
is the saved conversation with its failed mark; `at` and `call` follow
`RunInvocation` and `Invoke`; `duty` is what the app server still has to write,
`pipe` what it wrote, `reader` the line `readLoop` handles; `watcher` is the
goroutine `waitTurnDone`, and `sealed` says that it, or `Invoke`, closed the
event channel.  The app server may answer or refuse a request, exit, or do
nothing at all.  `ContextOver` is the context of a run, which a user cancels and
which ends with the run.  Pipes never fill and lines fit the scanner, the store
of conversations does not fail, and approvals and an overflowing event channel
are left to `InteractionRouter`.  The run after the last one only looks up its
conversation.

### SessionTranscript and SessionStream

A question is a user's row with its status, sequence and the event its run
started with; `answers` are the assistant's rows in the order of their ids.
Both lanes of run events are subjects of one stream, `log`, so an event's place
there is its stream sequence.  `poster` is a `PostMessage` between its statements
(`ReadNumber`, `CreateQuestion`, `PublishTask`), `handler` the callback of the
projector between its own.  A worker that dies under a run leaves its commands
to be executed again, as `RunLane` shows.  A crash of the server, a lost
acknowledgement, a database error and a removal of rows are actions with bounds.
`saver` is the stream projector, which once per process and session takes the
first delta, reads the questions that are being processed and later saves them as
it read them, status included, while the state projector may have ended them
(`ReadForStream`, `SaveStreamStart`; `undone` remembers for the properties which
questions such a save put back).  The reads and writes of the state projector on
one question are short transactions of their own and one action here.
"failed" stands for cancelled as well, since the code treats both alike.
`RunCoordinator` gives what is assumed of the worker: runs are serial, and a run
may answer several questions.  Left out: publications of run events that fail,
contents, counters, titles.

A stream of a browser has the questions it replays, its start sequence, and per
lane where its subscription began and is.  `SubscribeFrom` reads from the start
sequence, or only what is new without one; each lane is read in its order, and
the lanes overtake each other.  `NumberOf` is the number in the body of an event,
which starts from 1 with each run and by which the stream removes duplicates.

### WorkerDeployments

`assistant` and `record` are the two rows, `table` and `mu` the map of the
process scheduler and its lock, `procs` the processes with the place of their
monitors.  Only `Stop` keeps the lock of the table while it waits for that of an
instance, and only the monitor waits in the other order, so `mu` and the place
"removing" are all there is to say of the locks.  The reconciler's decision
(`TakeRow`), its scheduler calls and its writes are separate actions, as are the
status change, the mark and the stop of a request.  A health check sends an
interrupt, as the code does.
A restart of the server forgets the table and leaves the processes running.
One deployment per assistant; failing database calls and the docker and
kubernetes schedulers, which keep no state, are left out.

### StreamAggregator and StreamConversion

An event is a record of what the handlers look at: type, index, kind, stop
reason, usage.  `ProcessIREvent` and `Finalize` are the methods of that name;
the loop over the open items in `handleDone` is an action per item.  `Legal` is
the one assumption on the provider: no item is opened again once it was closed,
which the aggregator does not check.

`StreamConversion` puts a provider before it and a client behind it.  The
provider is external: it answers with items of three kinds, framed as its
protocol does, until it finishes, reports an error or is cut.  `DecodeX` are the
events an adapter makes of a chunk, `EncodeX` what the client's adapter writes
for an event, `Tracked` the adapter's state, and `Panics` a nil field that is
read.  `header` and `misnamed` follow the names of the events: the handler keeps
the name of the provider's event (`currentEventType`) and sends everything made
of it under that name, whatever the client's protocol calls it; only where the
provider sends no names does the payload's type name the event, and chat clients
get no names.  `Views` are what a client sees that goes by the payloads, and one
that goes by the names.  `FinishUnread` is the end of an answer whose reason the
adapter does not read.  A Gemini chunk carries one part, at index 0; several
parts in one chunk, which the code numbers from 0, are left out, since the
answers that are streamed have one.  All twelve pairs of different protocols are
routes.  Requests, answers that are not streamed and the route of equal
protocols are functions over one document, or copy bytes, and are left out.

## Runs

Deadlock is not checked: a coordinator whose callers have returned, a run that
has ended, a transcript with nothing left to do stop, and a run may wait for its
user for ever.  Getting stuck is what the liveness properties are about.

| Run | Instance | What it shows |
|---|---|---|
| `coordinator_session` | three submissions of one session, one `Cancel`, two concurrent `Close` | `SessionSerial`, `SendNeverBlocks`, `WaiterIsServed`, `CloseDrainsCallers`, `AnswerIsRunResult`, `CancelStopsNamedRun`, `PendingHasTaker`, `RunOnce` |
| `coordinator_live` | two submissions of a session (one may leave), one without a session, one slot, one `Close`; runs may execute for ever | `SlotsCountRuns`; every behaviour is one of `SerialBatches` (`KeepsPromise`); `SubmitReturns`, `CloseCompletes` |
| `lane_crash` | two commands and a malformed one, one redelivery, one crash | `AckedIsRecorded`, `CommandSettles` |
| `lane_shutdown` | two commands, a stream that retains one, two redeliveries, two crashes or shutdowns | `RerunOnlyAfterRestart`, `OutcomeIsFinal` |
| `interaction` | a claude-like run that goes on unless denied, is answered twice and may be cancelled; a run that drops events and needs a consent; known and unknown actions | `DecisionWasGiven`, `EntriesAreWaiters`, `FailedTurnFails`, `CancelEndsRun`, `LaneAdvances` |
| `codex` | two runs and the lookup of a third, one event in a turn, one fault, any cancellations | `PanicNeedsTrouble`, `ResumesWhatEndedWell`, `ConversationKept`, `RunEnds` |
| `transcript` | two questions; of a save of the stream projector, a death, a repeated delivery or crash, a database error and a removal, two at most | `OutcomeHasAnswer`, `AnswerAfterQuestion`, `AnswersBounded`, `EndedAreMarked`, `OutcomeStays` |
| `stream` | two questions, one browser stream opened at any moment, a save of the stream projector, no faults | `ReplayIsWhole`, `StreamOver` |
| `stream_stays_open` | one question, one stream, one death of the worker | counterexample to `StreamOver` |
| `deployments` | one assistant, two requests, three processes, one restart | `InactiveIsListed`, `ListedIsStopped` |
| `conversion` | all twelve routes, up to three items and three deltas | `DeltasInsideItems`, `ClosedBeforeDone`, `DeltasArrive`, `StopReasonSurvives`, `ItemsWellFormed`, `StreamCompletes` |
| `conversion_index` | chat provider, Responses client, two items and two deltas | counterexample to `ChatItemsWellFormed` |

`transcript` has four million states, `stream` three and `coordinator_session`
two, `codex` and `conversion` half a million each and the others less; the
liveness of `coordinator_live` takes longest for its size.  No run needs more than
three minutes with two workers.

Why the bounds are enough.  *Coordinator*: with three calls to a key one can be
in the handler, one pending, and one have a timer that fired too early; a further
call repeats one of these roles.  Two callers make a merged batch, a third is for
the batch after it; one slot is the smallest that two goroutines compete for;
two `Close` calls for the one that finds it closed; one `Cancel`, which may name
a run, any run of the session, or none that is active.  *Lane*: two commands for
one to wait while the other is in the callback, two ends of the process for a
crash in a recovery; a stream that retains one message makes discards certain.
*Interaction*: two requests with an answer each for one to meet the wrong one,
a second answer to one of them for it to find the channel full, an event channel
of capacity 1 for that to be full; each request gets the actions that its runtime
could read wrongly.  *Codex*: two runs for one to
resume the other's conversation while the goroutines of the first still run, the
lookup of a third for what the second left; one fault, beside cancellations,
since a process dies once.  *Transcript*: two questions for one to be posted
while the other is answered, merged with it or run after it; a pair of faults
for each to fall into the recovery of the other.  *Stream*: two questions for
two runs, whose numbers collide; one event between first and last for the lanes
to differ.  *Deployments*: two requests so that one switches off what the other
switched on under the reconciler; three processes for one to be replaced and
its late monitor to meet the next.  *Conversion*: three items for a text
between two tool calls, or each kind once.  All safety and action properties of
the passing runs are in addition proved without any of these bounds.

## Fairness

* `Fairness` of `RunCoordinator`: the goroutines of `Submit`, of a batch and of
  `Close` make progress, except inside `executeFunc` (`Proceed`): nothing makes a
  run return, since a run may wait for its user, or for a process that has exited
  (`codex/invoker.go:449`), for ever.  `SubmitReturns` therefore has two parts: if
  no run executes for ever every `Submit` returns, and whatever the runs do a
  `Submit` of a session returns once its context is done or the coordinator
  closed.  `CloseCompletes` asks only that submissions without a session return.
  Nothing makes a caller leave, anybody cancel, or `Close` be called.  `Receive`
  and `Leave` are one weak-fairness condition, as the `select` they are.
* `FairSpec` of `RunLane`: the broker delivers, the callback runs, a dead worker
  is started again, and runs end, that is, users answer.  Nothing is assumed of
  publishing, crashes and shutdowns.
* `FairSpec` of `InteractionRouter`: the handler of the lane and `ConsumeEvents`
  run.  A process whose context is cancelled is killed and its turn ends: strong
  fairness, because the event channel through which it says so may be full again
  and again, and a blocked send on a Go channel is served first in, first out.
  Nothing makes the user answer or the process ask or finish.
* `FairSpec` of `CodexRuns`: goroutines run, and a process whose context has
  ended is killed (`exec.CommandContext`).  Nothing makes the app server answer
  or finish, or a call that nobody answers return.  No behaviour of the model
  goes on for ever, so weak fairness of their disjunction says as much as one
  condition for each goroutine.
* `FairSpec` of `WorkerDeployments`: the goroutines of requests, reconciler and
  monitors run.  Nothing makes a process exit, or the server restart.
* `FairSpec` of `StreamConversion`: the handler's loop runs, and every body ends,
  or is cut by the timeout of the client or a lost connection.  Nothing makes the
  provider send anything.

`SessionTranscript` and `SessionStream` have no liveness property and no
fairness: that a stream is over is stated as a property of its states
(`StreamOver`).

## Proofs

TLAPS proves the following for every value of the constants: any number of
calls, sessions, commands, requests, questions, runs, browsers and processes, any
bound on concurrency, restarts, redeliveries and faults, any length of an answer.

**TrailingDebouncerProofs.**  `DebouncerTypeCorrect`, `DebouncerInvariant`, and
from them `HandlersSerialPerKey`, `PendingNeverStranded`, `EntriesNeverLeak` and
the refinement `DebouncerImplementsSerialBatches`.  "One handler per key" is not
inductive: that a handler may start is decided by the running flag, and that a
value is not stranded by the timer field.  `DebouncerInv` says what they mean:
`running` is set exactly while a goroutine handles the key (`RunningFlag`), a
timer that is not nil is alive, has the entry's sequence number and a value to
flush (`TimerLive`), and a pending value has such a timer or a running handler
(`PendingOwned`).  A stale goroutine then cannot do harm whenever it gets the
lock.  For the refinement the batch of an abstract key is that of the goroutine
which handles it, unique by the invariant.

**RunCoordinatorProofs.**  `CoordinatorDrivesDebouncer` shows that every step of
the coordinator is a step of the debouncer or leaves it alone, so that all facts
about the debouncer, the refinement included (`CoordinatorKeepsPromise`), carry
over.  `CoordinatorInvariant` proves `CoordinatorInv`: goroutines in a phase are
the debouncer's handling goroutines (`PhaseInv`); at most one of the map, a
notifying goroutine and a `Close` owes a caller a message, and then its channel
is empty (`ParkedInv`); where each submission is and whether it has a result
(`ResultInv`); and messages under way carry the addressee's own result
(`AnswerInv`).  From it follow `SessionsAreSerial`, `SlotsAreCounted`,
`ActiveRunsAreExecuting`, `CancelStopsWhatItNamed`, `SendsNeverBlock`,
`WaitersAreServed`, `AnswersAreResults`, `CloseDrains` and the action property
`SubmissionsRunOnce`.

**RunLaneProofs.**  `LaneInvariant` proves `LaneInv`: what is known of the command
in the callback at each place (`HandInv`), and that a submission in the
coordinator is that of the command in the callback or has a recorded outcome,
until the coordinator takes no more (`TaskInv`).  The exceptions for a closed
table and a closed coordinator are what makes it hold when close functions run
under the callback.  Then `RerunsNeedRestart`, `CompletedIsTrue`,
`OutcomesAreFinal`, and, for a worker that is never shut down gracefully
(`~MayStop`), `NothingLostByCrashes`.

**InteractionRouterProofs.**  With unique ids (`UniqueIds`) `MapHoldsWaiters`: the
map is exactly the set of waiters.  With unique ids and a runtime that answers
by id (`~OneSlot`) `RouterInvariant` follows an approval from the user over the
lane, the handler, the result channel and `ConsumeEvents` to the process
(`AnswersInv`, over `OwnersInv`), and `DecisionsAreTheUsers` follows: the process
goes on with a request only by an answer to it which its runtime takes for a
consent, and is refused only by one it takes for a denial.
`FailuresAreReported` needs no assumption: for a run whose sends block, the
event that ends the turn stays in the channel until it is read (`EndsInv`).
The assumptions are needed: with `OneSlot` and two requests of a run TLC finds a
counterexample, and an id that is used twice overwrites the first entry.

**StreamConversionProofs, the aggregator.**  Over any set of indices and any
events of a provider that is `Legal`: `AggTypeCorrect`, `AggInvariant`, and the
four guarantees in the comment of the code, `CreatedPrecedes`,
`DeltasAreInside`, `ItemsAreClosed` and `DoneEnds`.  The guarantees speak of the
events emitted, the code decides by its flags; `AggInv` ties them: an item is
present exactly when its start was emitted and marked as stopped exactly when
its stop was (`OrderInv`), nothing was finished before `handleDone`
(`NotDoneYet`), and while it closes the items the order is still known
(`Finishing`).

**StreamConversionProofs, the whole way.**  `ConversionInvariant` shows that
what the adapters decode is legal: `ConvInv` says that nothing has ended while
the provider may still send items, that in each protocol only items which the
provider closed are stopped, and that a start or a delta is alone in its chunk
and of an open item.  Hence `ConversionAggregates`: a converted stream is a
behaviour of `StreamAggregator`, and its guarantees hold on every route.  Three
invariants follow a stream from the provider over two queues (decoded and
emitted events) to the client.  *Deltas*: `DeltasAreConserved` counts them by
class; those sent are those emitted and those waiting (`SentOn`), those written
are those of the encoded events (`WrittenOn`), and `DeltasReachTheClient` is
what is left when the queues are empty; a client sees no wrong event name unless
the protocols of both sides have names (`NamesInv`).  *Reason*: `ReasonInv` says
that the aggregator knows no other reason than the one the provider's adapter
read (`OneReason`), knows it or has it waiting (`ReasonKnown`), ends with a
report of it (`ReasonLast`), and that nothing written after that report tells
another (`ReasonTold`); `TheReasonSurvives` follows.  *Items*, of providers that
frame them: `ItemsAreFramedOnce` shows that an item of the aggregator is one the
provider opened, of its class, with one start and one stop; `Framed` says what
is written of an item so far, by what has been encoded of it: nothing, a start
and deltas, or all of it, and that the adapter remembers it was started, so that
it never starts a block on its own.  With the guarantee that started items are
stopped before done this gives `ItemsReachTheClientWhole`.

**SessionTranscriptProofs.**  `TranscriptTyped` also proves what the broker owes
the projector (`EventInv`), `QuestionsArePosted` that a run answers only what
was created before its command was published (`PostedInv`).  Then, for any
number of faults at any moment: `OutcomesHaveAnswers`, `OutcomesStay` (only a
save of the stream projector undoes an outcome), `AnswersFollowQuestions` (the
number read for an answer is above those of its questions and stays so until it
is written: `NumberInv`), `AnswersAreBounded` (each answer beyond the first is
paid for by a repeated delivery: `CountInv`) and `EndedQuestionsAreMarked`
(questions left open are paid for by database errors or were put back by such a
save: `MarkedInv`).

With browsers, `StreamsOnlyWatch` shows that `SessionStream` implements
`SessionTranscript`, so that all of this still holds.  `ReplaysAreWhole` needs that
a run answers the same questions throughout, begins with its started event and
ends with its terminal one (`RunsInv`), that a question which shows processing
names the start of a run that answers it (`StartInv`), and for each stream that
what it delivered and was to show it has shown, or has shown another event with the
same number (`WatchInv`).  Numbers grow along a run, so within the only run of the
replayed questions no two events have the same, and nothing was hidden.
`StreamsEnd` is about any number of runs, whose numbers do collide: every event is
numbered at most as the terminal event of its run, so what a stream has shown under
the highest number of the terminal events it was told is a terminal event itself,
and that ended the stream.  It assumes that no worker died:
then every run but the current one has its terminal event (`EndsInv`).  The run
`stream_stays_open` shows that the assumption is needed.

**WorkerDeploymentsProofs.**  `DeploymentsTyped`, `DeploymentInvariant` and
`InactiveStaysListed`.  The invariant says who holds the lock of the table and
for what (`LockInv`), what the reconciler may still write after the record it
works on was read (`MarkInv`), and that a record that says "stopped" is right
unless the reconciler or a request is at work on the assistant (`StoppedInv`).
The last is stronger than the property, which speaks of inactive assistants
only, and is what survives the unconditional writes.

**CodexRunsProofs.**  `CodexTyped` proves the types, and which runs have begun.
`ResumedRunsEndedWell` follows from what is saved (`SavedInv`): a conversation
that is saved and not marked is that of a run that ended well, with no failure
since.  `PanicsNeedTrouble` rests on the order of the lines: what the app server
has yet to write, what is in the pipe and what the reader handles are the stages
of one exchange (`LinesInv`), so that the end of a turn is the last line, and a
run whose channel is closed while its reader has something to send had trouble
(`ChannelInv`).  `ConversationsAreKept` adds that the thread a run created is
announced, read and forwarded before its turn can end (`AnnounceInv`), and which
run the saved conversation is of (`LastInv`).

Assumptions of the modules (`DebouncerAssumption`, `CoordinatorAssumption`,
`LaneAssumption`, `InteractionAssumption`, `TranscriptAssumption`,
`DeploymentAssumption`, `IndicesAssumption`, `ConversionAssumption`,
`CodexAssumption`) only give the constants their types; TLC evaluates them in the
runs.

**Only model-checked.**  The liveness properties (`SubmitReturns`,
`CloseCompletes`, `CommandSettles`, `CancelEndsRun`, `LaneAdvances`,
`ListedIsStopped`, `StreamCompletes`, `RunEnds`), which depend on fairness and
ENABLED and are out of this prover's reach.

## Where code and documentation differ

Two runs end with a counterexample.

* `stream_stays_open`.  After a terminal event the server is said to end the
  stream (`internal/service/session_service.go:982`).  Duplicates are recognised
  by the number of an event within its run (line 968).  After a worker that died
  under a run, the next run counts from 1 again, its terminal event can have a
  number the stream has seen, and the stream stays open until the browser leaves.
  The same happens without a death when the lanes of a live stream begin at
  different moments, which is why `StreamOver` asks that they begin at one.
* `conversion_index`.  Tool calls of a chat answer are said to be moved to an
  index of their own (`pkg/llmprotocol/stream_aggregator_test.go:483`).  The
  counter starts at 0 (`protocol_openai_chat.go:451`), so the first tool call
  shares an item with the text, and a Responses client gets one item whose deltas
  are of two kinds.

Further differences are in the models and have no run of their own.

Debouncer and coordinator:

* `Close` of the debouncer discards pending values, says the comment at
  `trailing_debouncer.go:92`; a value that waits behind a running handler stays
  and runs afterwards (`SerialBatches!Handoff` after `Stop`).
* The quiet window of the comment at `trailing_debouncer.go:20` may end early: a
  new entry counts its sequence from 1 again, so a late timer of an old entry
  can pass for its own.
* `Close` of the coordinator is said to wait for all in-flight runs
  (`internal/worker/run/coordinator.go:290`).  It waits for callers, and it has
  just drained those of every session run, so it returns while their runs
  execute, and the process closes database and connection under them.
* After `Close` a caller hears "closed" although its run goes on and may succeed
  (`coordinator.go:311`, against `docs/ARCHITECTURE.md:160`).

Lane:

* The table is there "to replay missed messages on restart"
  (`pkg/seqtracker/tracker.go:3`).  A `Submit` that fails because the worker
  shuts down is recorded as failed (`internal/worker/command/run/handler.go:259`),
  which is final, so the next process skips a command that never ran.
* Sessions are said to be parallel (`docs/ARCHITECTURE.md:161`).  The callback of
  the consumer is serial and waits for the run, so a run that waits for its user
  holds up every other session.

Interaction and runtimes:

* `ResolveApproval` is said to wake the waiting goroutine
  (`agent/runtime/provider/interaction_router.go:77`).  A second answer to a
  request whose waiter leaves without reading blocks on the full channel, and
  with it the lane of every run.
* A key step goes on only after the user approved it (`docs/PRD.md:284`).  The
  action of an answer is published as it was sent, unchecked
  (`internal/service/session_service.go:631`), and claude goes on with anything but
  "deny" (`agent/runtime/claude/writer.go:42`), so an empty or misspelt action is a
  consent there and a denial with codex and opencode.  The decision for one codex
  request is written as the answer to the latest one.
* A request is published before it is registered (`externalcli/runner.go:252`):
  an answer that arrives in between is acknowledged and lost, and the run waits
  until it is cancelled.
* With codex and opencode a full event channel drops an approval request, and
  then the process waits for ever, or the failure of a turn, and then the closed
  channel reads as success (`codex/invoker.go:542`).
* A cancelled context is said to produce no further events
  (`docs/AGENT_EXECUTION_ARCHITECTURE_REFACTOR_PLAN.md:515`).  After a
  cancellation, an exit of the app server or a failed publication the codex
  reader may send on the channel that `waitTurnDone` has closed
  (`codex/invoker.go:439`), a panic that ends the worker with all its runs.
* Nothing reads the `done` channel of the app server, and a call has no timeout:
  a run whose process exits waits until it is cancelled.
* A conversation that the provider no longer has is asked for by every later run
  of the session: the failure of `Invoke` returns before anything is marked.  A
  cancellation of a resumed run, on the other hand, marks the conversation as
  failed, and the next run starts afresh.

Transcript and stream:

* Redelivery is said not to change the final state of a session
  (`docs/AGENT_EXECUTION_ARCHITECTURE_REMAINING_PLAN_2026-06-28.md:263`).  A
  terminal event that is delivered again inserts its answer again
  (`AnswersBounded` counts them), and one whose handler meets a database error is
  acknowledged and lost (`EndedAreMarked`).
* The stream projector records where the stream of a session begins
  (`session_service.go:767`), once.  It saves whole rows it has read without a lock
  (line 806), so a question that ended in between is processing again for good, and
  one that was removed in between is back.  `OutcomeStays` says that nothing else
  undoes an outcome; `EndedAreMarked` and `AnswerAfterQuestion` leave such
  questions out.
* A replay that is asked for while no question is being processed has no
  questions to compare with, so every event is dropped and the stream stays open.

Deployments:

* The health check of a process sends it `os.Interrupt`
  (`process_scheduler.go:231`), which asks the worker to end, at every tick.
* `Start` replaces a live instance in the table, and the monitor of an ended
  process removes whatever entry its worker has by then: in both cases a process
  is left that nobody stops.  A restart of the server leaves all of them.
  `ListedIsStopped` speaks of entries, and of a process only while it is the only
  one its assistant ever had.
* `Stop` waits for the lock of an instance under that of the table, the monitor
  waits in the other order: once they meet, no worker is started or stopped any
  more (`Wedged`, which `ListedIsStopped` excuses).  `Stop` of an instance that
  is missing fails for ever, so an inactive assistant without a process is
  reconciled at every tick.
* The reconciler is said to keep records and workers aligned
  (`worker_deployment_reconciler.go:25`).  It writes "stopped" over the "pending"
  that an activation wrote meanwhile, and such an assistant is active and never
  gets a worker.  A request, in turn, saves the whole row it read
  (`worker_provisioning.go:121`), and may put back the token hash of an earlier
  worker.

Conversion:

* The thoughts of Anthropic reach a client as ordinary text.  Tool calls of a
  streamed Gemini answer are lost, as are all on the way to a Gemini client, and
  a tool call of a Responses or Gemini provider is reported as the end of the
  turn.
* `reasoning_content` of a chat provider makes the handler panic for Anthropic
  clients: the item the aggregator starts has no reasoning part (`Panics`).
* A chat client is not told the stop reason when the report carries usage, which
  is why `StopReasonSurvives` leaves chat clients out.
* A report before anything else announces the response twice, since
  `handleMessageDelta` does not set the flag.
* A dropped connection ends the stream as a completed answer.
* The events of a Responses or Anthropic provider have names, and each payload
  made of one is sent to the client under that name
  (`internal/modelrouter/handler.go:323`), which is that of another protocol for
  Responses, Anthropic and Gemini clients.  A client that goes by the event name
  does not get its deltas and items.  `DeltasArrive` and `ItemsWellFormed` speak of
  the payloads on these routes, and of the names as well on the others.
* The Responses adapter reads `response.completed` and `response.done`, not
  `response.incomplete` and `response.failed`
  (`pkg/llmprotocol/protocol_openai_responses.go:811`), and the Gemini adapter
  returns before it reads the finish reason of a last chunk without content
  (`protocol_gemini.go:568`): a truncated answer is then told as the end of the
  turn.  `StopReasonSurvives` is about the reasons the adapters read.

## What is not modelled

* Payloads: prompts, attachments, merged inputs, event contents, texts.
* The processes of claude and opencode, and the parsing of their output; the
  model of the dialogue has the events that come of it.
* Preparation and finalisation of a run, and publications of run events that
  fail.
* Two workers on one stream (their durable consumers have the same name), and a
  stream that is created anew under an old table of settled commands.
* Several assistants and several servers beside each other: the theorem about
  deployments covers any number of assistants, of one server.
* Creating, pausing and naming sessions; message counters.
* The parts in the second table of the inventory.  Skills, memory and run
  preparation are files and downloads; CRUD services, API and command line run
  request by request over the database; the connections of workers are reached
  by no worker.
* The docker and kubernetes schedulers keep no state, they call a command line
  or an API.
* The frontend is TypeScript that renders what `SessionStream` delivers.

The models follow the concurrent core of the backend.  The greater part of the
repository by lines is generated documentation, handlers, request types, CRUD
services and the frontend, where a step is one statement and a model would repeat
the code.

## Plan

1. `RunLane` with two workers and a stream that is created anew; a proof that
   `RunCoordinator` implements the coordinator that `RunLane` assumes.
2. The preparation, finalisation and failing publications of a run, as a
   refinement of the worker of `SessionTranscript`.
3. The statuses of a session (paused, ended) and the titles given by a run, which
   are read and written in separate statements.
4. The opencode runtime, whose server outlives a run, beside `CodexRuns`.
5. The safe half of the liveness properties as theorems: that a state in which
   nothing can move is one in which the property's goal has been reached.
