--------------------------- MODULE RunCoordinator ---------------------------
(***************************************************************************)
(* backend/internal/worker/run/coordinator.go: the worker's scheduler.     *)
(* Submit admits a submission, parks its caller on a channel and hands the *)
(* submission to the TrailingDebouncer of its session; the debouncer's     *)
(* goroutine executes the merged batch under a slot, then notifies every   *)
(* parked caller.  Submissions without a session run in the caller's own   *)
(* goroutine.  Cancel and Close race with all of this.                     *)
(*                                                                         *)
(* A submission stands for its caller's goroutine, its context, its run id *)
(* and its waiter id (nextWaiterID is fresh under stateMu).  The goroutine *)
(* that executes a batch is the debouncer goroutine that took it; a batch  *)
(* runs under the run id of its first submission and the context of its    *)
(* last (mergeSubmissions keeps the first's EventContext, Call the last's  *)
(* ctx).  Coordinator.closed and the debouncer's closed change inside one  *)
(* stateMu section and are one variable.                                   *)
(***************************************************************************)
EXTENDS TrailingDebouncer, FiniteSets

CONSTANTS
  Direct,          \* submissions without org, worker or session id
  MaxConcurrency,  \* capacity of the slots channel
  Impatient,       \* submissions whose context may be cancelled
  Cancels,         \* invocations of Cancel
  Closers          \* invocations of Close

ASSUME CoordinatorAssumption ==
  /\ HasMerge
  /\ Calls \cap Direct = {}
  /\ NoCall \notin Direct
  /\ MaxConcurrency \in Nat \ {0}
  /\ IsFiniteSet(Calls \cup Direct)

Submissions == Calls \cup Direct

VARIABLES
  caller,       \* where each Submit is
  answer,       \* what it returned
  waiters,      \* Coordinator.pending: the parked callers
  channel,      \* the capacity-1 result channel of each parked caller
  phase,        \* where the goroutine that executes a batch is
  outcome,      \* the result that goroutine holds
  outbox,       \* the channels notifyWaiters still has to send to
  slots,        \* len(slots)
  activeRuns,   \* session -> run id of the active run
  runCancelled, \* runs whose cancel function was called
  ctxDone,      \* submissions whose context is done
  canceller,    \* per Cancel: where it is, the run it names, the run it found
  closer,       \* per Close: where it is
  closeOutbox,  \* the channels that Close still has to send to
  result        \* history: the outcome of the run each submission was part of

submitVars  == <<caller, answer, waiters, channel, ctxDone>>
executeVars == <<phase, outcome, outbox, slots, result>>
cancelVars  == <<activeRuns, runCancelled, canceller>>
closeVars   == <<closer, closeOutbox>>

coordinatorVars == <<submitVars, executeVars, cancelVars, closeVars>>

vars == <<debouncerVars, coordinatorVars>>

Outcomes == {"ok", "failed", "cancelled"}

CallerState == {"idle", "begun", "waiting", "leaving", "returned"}

PhaseState == {"idle", "acquire", "register", "execute", "unregister",
               "release", "notify", "send"}

Init ==
  /\ DebouncerInit
  /\ caller = [s \in Submissions |-> "idle"]
  /\ answer = [s \in Submissions |-> "none"]
  /\ waiters = {}
  /\ channel = [s \in Calls |-> "empty"]
  /\ phase = [s \in Submissions |-> "idle"]
  /\ outcome = [s \in Submissions |-> "none"]
  /\ outbox = [s \in Calls |-> {}]
  /\ slots = 0
  /\ activeRuns = [k \in Keys |-> NoCall]
  /\ runCancelled = {}
  /\ ctxDone = {}
  /\ canceller = [x \in Cancels |-> [at |-> "idle", names |-> NoCall, found |-> NoCall]]
  /\ closer = [x \in Closers |-> "idle"]
  /\ closeOutbox = [x \in Closers |-> {}]
  /\ result = [s \in Submissions |-> "none"]

-----------------------------------------------------------------------------
(* Submit                                                                   *)
Return(s, a) ==
  /\ caller' = [caller EXCEPT ![s] = "returned"]
  /\ answer' = [answer EXCEPT ![s] = a]

(* beginSubmission refuses once closed, else counts the submission in.      *)
BeginRefused(s) ==
  /\ caller[s] = "idle"
  /\ closed
  /\ Return(s, "closed")
  /\ UNCHANGED <<debouncerVars, waiters, channel, ctxDone, executeVars,
                 cancelVars, closeVars>>

(* A session-less submission goes straight to execute.                      *)
Begin(s) ==
  /\ caller[s] = "idle"
  /\ ~closed
  /\ caller' = [caller EXCEPT ![s] = IF s \in Direct THEN "waiting" ELSE "begun"]
  /\ phase' = IF s \in Direct THEN [phase EXCEPT ![s] = "acquire"] ELSE phase
  /\ UNCHANGED <<debouncerVars, answer, waiters, channel, ctxDone, outcome,
                 outbox, slots, result, cancelVars, closeVars>>

(* scheduleAndWait: register the waiter and call the debouncer under        *)
(* stateMu, or find that Close came in between.                             *)
Schedule(s) ==
  /\ caller[s] = "begun"
  /\ Call(s)
  /\ waiters' = waiters \cup {s}
  /\ caller' = [caller EXCEPT ![s] = "waiting"]
  /\ UNCHANGED <<answer, channel, ctxDone, executeVars, cancelVars, closeVars>>

ScheduleRefused(s) ==
  /\ caller[s] = "begun"
  /\ closed
  /\ Return(s, "closed")
  /\ UNCHANGED <<debouncerVars, waiters, channel, ctxDone, executeVars,
                 cancelVars, closeVars>>

Receive(s) ==
  /\ s \in Calls
  /\ caller[s] = "waiting"
  /\ channel[s] # "empty"
  /\ Return(s, channel[s])
  /\ channel' = [channel EXCEPT ![s] = "empty"]
  /\ UNCHANGED <<debouncerVars, waiters, ctxDone, executeVars, cancelVars,
                 closeVars>>

(* The select sees ctx.Done first; removeWaiter needs stateMu, so a result  *)
(* can still be sent to the caller in between.                              *)
Leave(s) ==
  /\ s \in Calls \cap ctxDone
  /\ caller[s] = "waiting"
  /\ caller' = [caller EXCEPT ![s] = "leaving"]
  /\ UNCHANGED <<debouncerVars, answer, waiters, channel, ctxDone,
                 executeVars, cancelVars, closeVars>>

RemoveWaiter(s) ==
  /\ caller[s] = "leaving"
  /\ waiters' = waiters \ {s}
  /\ Return(s, "ctx")
  /\ UNCHANGED <<debouncerVars, channel, ctxDone, executeVars, cancelVars,
                 closeVars>>

(* The caller's context is cancelled; the run it lends its context to may   *)
(* outlive the Submit.                                                      *)
ContextDone(s) ==
  /\ s \in Impatient \ ctxDone
  /\ caller[s] # "idle"
  /\ ctxDone' = ctxDone \cup {s}
  /\ UNCHANGED <<debouncerVars, caller, answer, waiters, channel, executeVars,
                 cancelVars, closeVars>>

-----------------------------------------------------------------------------
(* execute, in the goroutine of g                                           *)
Work(g) == IF g \in Calls THEN batch[g] ELSE <<g>>
RunOf(g) == Work(g)[1]
ContextOf(g) == Work(g)[Len(Work(g))]

Record(g, o) ==
  /\ outcome' = [outcome EXCEPT ![g] = o]
  /\ result' = [s \in Submissions |-> IF s \in Range(Work(g)) THEN o ELSE result[s]]

(* The debouncer's goroutine enters the handler, enqueueSubmission.         *)
StartBatch(g) ==
  /\ FlushTakes(g)
  /\ phase' = [phase EXCEPT ![g] = "acquire"]
  /\ UNCHANGED <<submitVars, outcome, outbox, slots, result, cancelVars,
                 closeVars>>

\* Mutant: one slot too many.
AcquireSlotOver(g) ==
  /\ phase[g] = "acquire"
  /\ slots <= MaxConcurrency
  /\ slots' = slots + 1
  /\ phase' = [phase EXCEPT ![g] = IF g \in Calls THEN "register" ELSE "execute"]
  /\ UNCHANGED <<debouncerVars, submitVars, outcome, outbox, result,
                 cancelVars, closeVars>>

AcquireSlot(g) ==
  /\ phase[g] = "acquire"
  /\ slots < MaxConcurrency
  /\ slots' = slots + 1
  /\ phase' = [phase EXCEPT ![g] = IF g \in Calls THEN "register" ELSE "execute"]
  /\ UNCHANGED <<debouncerVars, submitVars, outcome, outbox, result,
                 cancelVars, closeVars>>

AcquireCancelled(g) ==
  /\ phase[g] = "acquire"
  /\ ContextOf(g) \in ctxDone
  /\ Record(g, "cancelled")
  /\ phase' = [phase EXCEPT ![g] = "notify"]
  /\ UNCHANGED <<debouncerVars, submitVars, outbox, slots, cancelVars,
                 closeVars>>

RegisterRun(g) ==
  /\ phase[g] = "register"
  /\ activeRuns' = [activeRuns EXCEPT ![KeyOf[g]] = RunOf(g)]
  /\ phase' = [phase EXCEPT ![g] = "execute"]
  /\ UNCHANGED <<debouncerVars, submitVars, outcome, outbox, slots, result,
                 runCancelled, canceller, closeVars>>

(* executeFunc returns, with a cancellation error only if it was cancelled. *)
ExecuteReturns(g) ==
  /\ phase[g] = "execute"
  /\ \E o \in Outcomes :
       /\ o = "cancelled" => RunOf(g) \in runCancelled \/ ContextOf(g) \in ctxDone
       /\ Record(g, o)
  /\ phase' = [phase EXCEPT ![g] = IF g \in Calls THEN "unregister" ELSE "release"]
  /\ UNCHANGED <<debouncerVars, submitVars, outbox, slots, cancelVars,
                 closeVars>>

UnregisterRun(g) ==
  /\ phase[g] = "unregister"
  /\ activeRuns' = [activeRuns EXCEPT ![KeyOf[g]] = NoCall]
  /\ phase' = [phase EXCEPT ![g] = "release"]
  /\ UNCHANGED <<debouncerVars, submitVars, outcome, outbox, slots, result,
                 runCancelled, canceller, closeVars>>

ReleaseSlot(g) ==
  /\ phase[g] = "release"
  /\ slots' = slots - 1
  /\ phase' = [phase EXCEPT ![g] = "notify"]
  /\ UNCHANGED <<debouncerVars, submitVars, outcome, outbox, result,
                 cancelVars, closeVars>>

(* Submit of a session-less submission returns what execute returned.       *)
DirectReturns(g) ==
  /\ g \in Direct
  /\ phase[g] = "notify"
  /\ phase' = [phase EXCEPT ![g] = "idle"]
  /\ Return(g, outcome[g])
  /\ UNCHANGED <<debouncerVars, waiters, channel, ctxDone, outcome, outbox,
                 slots, result, cancelVars, closeVars>>

(* notifyWaiters: take the batch's parked callers out of the map under      *)
(* stateMu, then send to each outside it.                                   *)
\* Mutant: wakes every parked caller of the session.
TakeAllWaiters(g) ==
  LET all == {w \in waiters : KeyOf[w] = KeyOf[g]}
  IN  /\ g \in Calls
      /\ phase[g] = "notify"
      /\ outbox' = [outbox EXCEPT ![g] = all]
      /\ waiters' = waiters \ all
      /\ phase' = [phase EXCEPT ![g] = "send"]
      /\ UNCHANGED <<debouncerVars, caller, answer, channel, ctxDone, outcome,
                     slots, result, cancelVars, closeVars>>

\* Mutant: does not delete the callers it is about to answer.
TakeWaitersKeeps(g) ==
  /\ g \in Calls
  /\ phase[g] = "notify"
  /\ outbox' = [outbox EXCEPT ![g] = Range(batch[g]) \cap waiters]
  /\ phase' = [phase EXCEPT ![g] = "send"]
  /\ UNCHANGED <<debouncerVars, submitVars, outcome, slots, result,
                 cancelVars, closeVars>>

TakeWaiters(g) ==
  /\ g \in Calls
  /\ phase[g] = "notify"
  /\ outbox' = [outbox EXCEPT ![g] = Range(batch[g]) \cap waiters]
  /\ waiters' = waiters \ Range(batch[g])
  /\ phase' = [phase EXCEPT ![g] = "send"]
  /\ UNCHANGED <<debouncerVars, caller, answer, channel, ctxDone, outcome,
                 slots, result, cancelVars, closeVars>>

SendResult(g) ==
  /\ g \in Calls
  /\ phase[g] = "send"
  /\ \E w \in outbox[g] :
       /\ channel[w] = "empty"
       /\ channel' = [channel EXCEPT ![w] = outcome[g]]
       /\ outbox' = [outbox EXCEPT ![g] = @ \ {w}]
  /\ UNCHANGED <<debouncerVars, caller, answer, waiters, ctxDone, phase,
                 outcome, slots, result, cancelVars, closeVars>>

(* The handler returns to the debouncer, which may hand it the next batch.  *)
FinishBatch(g) ==
  /\ phase[g] = "send"
  /\ outbox[g] = {}
  /\ FinishRun(g)
  /\ phase' = [phase EXCEPT ![g] = IF task'[g] = "handling" THEN "acquire" ELSE "idle"]
  /\ UNCHANGED <<submitVars, outcome, outbox, slots, result, cancelVars,
                 closeVars>>

(* The timer and flush steps in which no batch starts.                      *)
DebouncerStep(c) ==
  /\ Fire(c) \/ FlushStale(c) \/ FlushDeferred(c)
  /\ UNCHANGED coordinatorVars

-----------------------------------------------------------------------------
(* Cancel looks the session up under activeRunsMu and calls the cancel      *)
(* function it found outside the lock.                                      *)
CancelLookup(x) ==
  /\ canceller[x].at = "idle"
  /\ \E k \in Keys, r \in Calls \cup {NoCall} :
       LET hit == activeRuns[k] # NoCall /\ r \in {NoCall, activeRuns[k]}
       IN  canceller' = [canceller EXCEPT ![x] =
             [at |-> IF hit THEN "found" ELSE "done", names |-> r,
              found |-> IF hit THEN activeRuns[k] ELSE NoCall]]
  /\ UNCHANGED <<debouncerVars, submitVars, executeVars, activeRuns,
                 runCancelled, closeVars>>

\* Mutant: looks the session up again instead of keeping what it found.
CancelCallsCurrent(x) ==
  LET now == activeRuns[KeyOf[canceller[x].found]]
  IN  /\ canceller[x].at = "found"
      /\ canceller' = [canceller EXCEPT ![x].at = "done"]
      /\ runCancelled' = runCancelled \cup ({now} \ {NoCall})
      /\ UNCHANGED <<debouncerVars, submitVars, executeVars, activeRuns, closeVars>>

CancelCalls(x) ==
  /\ canceller[x].at = "found"
  /\ canceller' = [canceller EXCEPT ![x].at = "done"]
  /\ runCancelled' = runCancelled \cup {canceller[x].found}
  /\ UNCHANGED <<debouncerVars, submitVars, executeVars, activeRuns,
                 closeVars>>

-----------------------------------------------------------------------------
(* Close: the first closes the debouncer and drains the parked callers; a   *)
(* later one only waits.  submissions.Wait counts the running Submits.      *)
InFlight == {s \in Submissions : caller[s] \in {"begun", "waiting", "leaving"}}

\* Mutant: does not drain the parked callers.
CloseForgets(x) ==
  /\ closer[x] = "idle"
  /\ CloseDebouncer
  /\ closer' = [closer EXCEPT ![x] = "closing"]
  /\ UNCHANGED <<submitVars, executeVars, cancelVars, closeOutbox>>

Close(x) ==
  /\ closer[x] = "idle"
  /\ CloseDebouncer
  /\ closeOutbox' = [closeOutbox EXCEPT ![x] = waiters]
  /\ waiters' = {}
  /\ closer' = [closer EXCEPT ![x] = "closing"]
  /\ UNCHANGED <<caller, answer, channel, ctxDone, executeVars, cancelVars>>

CloseAgain(x) ==
  /\ closer[x] = "idle"
  /\ closed
  /\ closer' = [closer EXCEPT ![x] = "closing"]
  /\ UNCHANGED <<debouncerVars, submitVars, executeVars, cancelVars,
                 closeOutbox>>

CloseSends(x) ==
  /\ closer[x] = "closing"
  /\ \E w \in closeOutbox[x] :
       /\ channel[w] = "empty"
       /\ channel' = [channel EXCEPT ![w] = "closed"]
       /\ closeOutbox' = [closeOutbox EXCEPT ![x] = @ \ {w}]
  /\ UNCHANGED <<debouncerVars, caller, answer, waiters, ctxDone, executeVars,
                 cancelVars, closer>>

\* Mutant: does not wait for the submissions.
CloseReturnsAtOnce(x) ==
  /\ closer[x] = "closing"
  /\ closeOutbox[x] = {}
  /\ closer' = [closer EXCEPT ![x] = "returned"]
  /\ UNCHANGED <<debouncerVars, submitVars, executeVars, cancelVars, closeOutbox>>

CloseReturns(x) ==
  /\ closer[x] = "closing"
  /\ closeOutbox[x] = {}
  /\ InFlight = {}
  /\ closer' = [closer EXCEPT ![x] = "returned"]
  /\ UNCHANGED <<debouncerVars, submitVars, executeVars, cancelVars,
                 closeOutbox>>

-----------------------------------------------------------------------------
CallerStep(s) ==
  \/ Begin(s) \/ BeginRefused(s) \/ Receive(s) \/ Leave(s) \/ RemoveWaiter(s)
  \/ (s \in Calls /\ Schedule(s)) \/ ScheduleRefused(s)

ExecuteStep(g) ==
  \/ AcquireSlot(g) \/ AcquireCancelled(g) \/ RegisterRun(g) \/ ExecuteReturns(g)
  \/ UnregisterRun(g) \/ ReleaseSlot(g) \/ DirectReturns(g)
  \/ TakeWaiters(g) \/ SendResult(g)

BatchStep(c) == DebouncerStep(c) \/ StartBatch(c) \/ FinishBatch(c)

CloseStep(x) == Close(x) \/ CloseAgain(x) \/ CloseSends(x) \/ CloseReturns(x)

Next ==
  \/ \E s \in Submissions : CallerStep(s) \/ ContextDone(s) \/ ExecuteStep(s)
  \/ \E c \in Calls : BatchStep(c)
  \/ \E x \in Cancels : CancelLookup(x) \/ CancelCalls(x)
  \/ \E x \in Closers : CloseStep(x)

Spec == Init /\ [][Next]_vars

(* Goroutines run, timers expire, sends and selects make progress.  Nothing *)
(* makes an executeFunc return: a runtime may hold a run for ever.          *)
Proceed(g) == phase[g] # "execute" /\ ExecuteStep(g)

Fairness ==
  /\ \A s \in Submissions : WF_vars(CallerStep(s)) /\ WF_vars(Proceed(s))
  /\ \A c \in Calls : WF_vars(BatchStep(c))
  /\ \A x \in Closers : WF_vars(CloseSends(x)) /\ WF_vars(CloseReturns(x))

FairSpec == Spec /\ Fairness

-----------------------------------------------------------------------------
Answers == Outcomes \cup {"closed", "ctx", "none"}

CancelType == [at : {"idle", "found", "done"},
               names : Calls \cup {NoCall}, found : Calls \cup {NoCall}]

TypeOK ==
  /\ DebouncerTypeOK
  /\ caller \in [Submissions -> CallerState]
  /\ answer \in [Submissions -> Answers]
  /\ waiters \subseteq Calls
  /\ channel \in [Calls -> Outcomes \cup {"closed", "empty"}]
  /\ phase \in [Submissions -> PhaseState]
  /\ outcome \in [Submissions -> Outcomes \cup {"none"}]
  /\ outbox \in [Calls -> SUBSET Calls]
  /\ slots \in Nat
  /\ activeRuns \in [Keys -> Calls \cup {NoCall}]
  /\ runCancelled \subseteq Calls
  /\ ctxDone \subseteq Submissions
  /\ canceller \in [Cancels -> CancelType]
  /\ closer \in [Closers -> {"idle", "closing", "returned"}]
  /\ closeOutbox \in [Closers -> SUBSET Calls]
  /\ result \in [Submissions -> Outcomes \cup {"none"}]

HoldsSlot(g) == phase[g] \in {"register", "execute", "unregister", "release"}

(* Two runs of one session are never executing at the same time, although   *)
(* each batch has a goroutine of its own and Close rewrites the entries.    *)
SessionSerial ==
  \A g, h \in Calls :
    phase[g] # "idle" /\ phase[h] # "idle" /\ KeyOf[g] = KeyOf[h] => g = h

(* The slots channel counts the executing runs exactly, so no more than     *)
(* MaxConcurrency execute at once and no slot is ever leaked by an error    *)
(* return of execute.                                                       *)
SlotsCountRuns ==
  /\ slots = Cardinality({g \in Submissions : HoldsSlot(g)})
  /\ slots <= MaxConcurrency

(* activeRuns names the executing run of a session and nothing else: a run  *)
(* that can be cancelled is found, and a finished run is not left behind.   *)
ActiveRunIsExecuting ==
  \A k \in Keys, r \in Calls :
    activeRuns[k] = r <=>
      \E g \in Calls : /\ phase[g] \in {"execute", "unregister"}
                       /\ KeyOf[g] = k
                       /\ RunOf(g) = r

(* A Cancel that names a run never stops the run that replaced it in the    *)
(* session between the lookup and the call of the cancel function.          *)
CancelStopsNamedRun ==
  \A r \in runCancelled :
    \E x \in Cancels : canceller[x].at = "done" /\ canceller[x].names \in {NoCall, r}

(* Submit reports the outcome of the run its submission was merged into,    *)
(* never that of another batch of the session.                              *)
AnswerIsRunResult ==
  \A s \in Submissions : answer[s] \in Outcomes => answer[s] = result[s]

(* notifyWaiters and Close send outside stateMu on channels of capacity 1:  *)
(* no caller is ever sent two results, so no send can block.                *)
SendNeverBlocks ==
  /\ \A g, w \in Calls : w \in outbox[g] => channel[w] = "empty" /\ w \notin waiters
  /\ \A x \in Closers, w \in Calls :
       w \in closeOutbox[x] =>
         channel[w] = "empty" /\ \A g \in Calls : w \notin outbox[g]

(* A parked caller is always somebody's: its submission is pending in the   *)
(* debouncer or in a batch whose goroutine has yet to notify.               *)
WaiterIsServed ==
  \A w \in waiters :
    \/ w \in Range(entries[KeyOf[w]].pending)
    \/ \E g \in Calls : /\ w \in Range(batch[g])
                       /\ phase[g] \notin {"idle", "send"}

(* Once a Close has returned no Submit is running, and none will.           *)
CloseDrainsCallers ==
  (\E x \in Closers : closer[x] = "returned") => closed /\ InFlight = {}

(* The inductive strengthening of the invariants above, in parts.           *)
(* Where a goroutine is: exactly the debouncer's handling goroutines are in *)
(* execute or notifyWaiters for a session, and hold an outcome from the     *)
(* return of execute on.                                                    *)
PhaseInv ==
  /\ \A c \in Calls : phase[c] # "idle" <=> Handling(c)
  /\ \A d \in Direct : phase[d] \notin {"register", "unregister", "send"}
  /\ \A d \in Direct : phase[d] # "idle" => caller[d] = "waiting"
  /\ \A g \in Submissions :
       phase[g] \in {"unregister", "release", "notify", "send"} => outcome[g] \in Outcomes
  /\ \A x \in Cancels : canceller[x].at = "found" => canceller[x].found \in Calls

(* A run that can be cancelled, or has been, is one a Cancel looked up.     *)
CancelInv ==
  \A x \in Cancels : canceller[x].at = "found" =>
    canceller[x].names \in {NoCall, canceller[x].found}

(* Who still owes a caller a message: at most one of the map of parked      *)
(* callers, a notifying goroutine and a Close, and then its channel is      *)
(* empty; nobody owes one to a caller that has not parked yet.              *)
Owed(w) == \/ w \in waiters
           \/ \E g \in Calls : w \in outbox[g]
           \/ \E x \in Closers : w \in closeOutbox[x]

ParkedInv ==
  /\ \A w \in Calls : Owed(w) \/ caller[w] \in {"idle", "begun"} => channel[w] = "empty"
  /\ \A w \in Calls : Owed(w) => caller[w] \notin {"idle", "begun"}
  /\ \A g \in Calls, w \in waiters : w \notin outbox[g]
  /\ \A x \in Closers, w \in waiters : w \notin closeOutbox[x]
  /\ \A g, h \in Calls : g # h => outbox[g] \cap outbox[h] = {}
  /\ \A x, y \in Closers : x # y => closeOutbox[x] \cap closeOutbox[y] = {}
  /\ \A g \in Calls, x \in Closers : outbox[g] \cap closeOutbox[x] = {}

(* Where a submission is: not called yet, pending, in one batch, or done,   *)
(* with a result exactly from the return of its batch's execute on.         *)
Before(g) == phase[g] \in {"acquire", "register", "execute"}

ResultInv ==
  /\ \A c \in Calls : ~Handling(c) => batch[c] = <<>>
  /\ \A c \in Calls : task[c] = "none" => result[c] = "none"
  /\ \A k \in Keys : \A s \in Range(entries[k].pending) :
       KeyOf[s] = k /\ result[s] = "none" /\ task[s] # "none"
  /\ \A g \in Calls : \A s \in Range(batch[g]) :
       /\ KeyOf[s] = KeyOf[g] /\ task[s] # "none"
       /\ s \notin Range(entries[KeyOf[g]].pending)
       /\ result[s] = IF Before(g) THEN "none" ELSE outcome[g]
  /\ \A d \in Direct :
       IF phase[d] = "idle"
       THEN caller[d] = "idle" => result[d] = "none"
       ELSE result[d] = IF Before(d) THEN "none" ELSE outcome[d]

(* Messages under way carry the outcome of the addressee's own batch.       *)
AnswerInv ==
  /\ \A g \in Calls : outbox[g] # {} => phase[g] = "send" /\ outbox[g] \subseteq Range(batch[g])
  /\ \A w \in Calls : channel[w] \in Outcomes => channel[w] = result[w]
  /\ AnswerIsRunResult

ClosedInv == \A x \in Closers : closer[x] # "idle" => closed

CoordinatorInv ==
  /\ PhaseInv /\ CancelInv /\ ParkedInv /\ ResultInv /\ AnswerInv /\ ClosedInv
  /\ SlotsCountRuns /\ ActiveRunIsExecuting /\ WaiterIsServed /\ CloseDrainsCallers

(* A submission is executed at most once, however its batch, the stale      *)
(* timers and Close interleave.                                             *)
RunOnce == [][\A s \in Submissions : result[s] # "none" => result'[s] = result[s]]_vars

(* If no run executes for ever every Submit returns: nothing else holds a   *)
(* slot or a session.  And whatever the runs do, a Submit for a session     *)
(* returns once its context is done or the coordinator is closed.           *)
SubmitReturns ==
  /\ (\A g \in Submissions : []<>(phase[g] # "execute")) =>
       \A s \in Submissions : caller[s] # "idle" ~> caller[s] = "returned"
  /\ \A s \in Calls :
       caller[s] # "idle" /\ (s \in ctxDone \/ closed) ~> caller[s] = "returned"

(* No run of a session holds Close up, for it drains the parked callers: it *)
(* returns unless a submission without a session never does.                *)
CloseCompletes ==
  (\A d \in Direct : []<>(caller[d] # "waiting")) =>
    \A x \in Closers : closer[x] = "closing" ~> closer[x] = "returned"
=============================================================================
