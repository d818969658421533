------------------------ MODULE RunCoordinatorProofs ------------------------
(***************************************************************************)
(* For any sets of submissions, sessions, Cancel and Close calls and any   *)
(* number of slots: the coordinator drives its debouncer as a debouncer    *)
(* may be driven, so what TrailingDebouncerProofs proves carries over, and *)
(* on top of it sessions are serial, slots are counted, and answers reach  *)
(* their callers once and correctly.                                       *)
(***************************************************************************)
EXTENDS RunCoordinator, TrailingDebouncerProofs, FiniteSetTheorems

(* The actions that leave the debouncer alone. *)
LEMMA OutsideDebouncer ==
  /\ \A s \in Submissions :
       \/ Begin(s) \/ BeginRefused(s) \/ Receive(s) \/ Leave(s) \/ RemoveWaiter(s)
       \/ ScheduleRefused(s) \/ ContextDone(s) \/ ExecuteStep(s)
       => UNCHANGED debouncerVars
  /\ \A x \in Cancels : CancelLookup(x) \/ CancelCalls(x) => UNCHANGED debouncerVars
  /\ \A x \in Closers : CloseAgain(x) \/ CloseSends(x) \/ CloseReturns(x)
                        => UNCHANGED debouncerVars
<1>1. \A s \in Submissions :
        \/ Begin(s) \/ BeginRefused(s) \/ Receive(s) \/ Leave(s) \/ RemoveWaiter(s)
        \/ ScheduleRefused(s) \/ ContextDone(s)
        => UNCHANGED debouncerVars
  BY DEF Begin, BeginRefused, Receive, Leave, RemoveWaiter, ScheduleRefused, ContextDone
<1>2. \A s \in Submissions : ExecuteStep(s) => UNCHANGED debouncerVars
  BY DEF ExecuteStep, AcquireSlot, AcquireCancelled, RegisterRun, ExecuteReturns,
         UnregisterRun, ReleaseSlot, DirectReturns, TakeWaiters, SendResult
<1>3. /\ \A x \in Cancels : CancelLookup(x) \/ CancelCalls(x) => UNCHANGED debouncerVars
      /\ \A x \in Closers : CloseAgain(x) \/ CloseSends(x) \/ CloseReturns(x)
                            => UNCHANGED debouncerVars
  BY DEF CancelLookup, CancelCalls, CloseAgain, CloseSends, CloseReturns
<1> QED BY <1>1, <1>2, <1>3

(* Every step of the coordinator is a step of its debouncer, or none.       *)
LEMMA StepDrivesDebouncer == [Next]_vars => [DebouncerNext]_debouncerVars
<1> SUFFICES ASSUME [Next]_vars PROVE [DebouncerNext]_debouncerVars
  OBVIOUS
<1>1. ASSUME NEW s \in Submissions, CallerStep(s) \/ ContextDone(s) \/ ExecuteStep(s)
      PROVE  [DebouncerNext]_debouncerVars
  <2>1. CASE s \in Calls /\ Schedule(s)
    BY <2>1 DEF Schedule, DebouncerNext
  <2> QED BY <1>1, <2>1, OutsideDebouncer DEF CallerStep
<1>2. ASSUME NEW c \in Calls, BatchStep(c) PROVE [DebouncerNext]_debouncerVars
  BY <1>2 DEF BatchStep, DebouncerStep, StartBatch, FinishBatch, DebouncerNext
<1>3. ASSUME NEW x \in Cancels, CancelLookup(x) \/ CancelCalls(x)
      PROVE  [DebouncerNext]_debouncerVars
  BY <1>3, OutsideDebouncer
<1>4. ASSUME NEW x \in Closers, CloseStep(x) PROVE [DebouncerNext]_debouncerVars
  <2>1. CASE Close(x)
    BY <2>1 DEF Close, DebouncerNext
  <2> QED BY <1>4, <2>1, OutsideDebouncer DEF CloseStep
<1>5. CASE UNCHANGED vars
  BY <1>5 DEF vars
<1> QED BY <1>1, <1>2, <1>3, <1>4, <1>5 DEF Next

(* The coordinator uses TrailingDebouncer as its clients may: it starts a   *)
(* handler only through flush and lets it finish only through finishRun.    *)
THEOREM CoordinatorDrivesDebouncer == Spec => DebouncerSpec
<1>1. Init => DebouncerInit
  BY DEF Init
<1> QED BY <1>1, StepDrivesDebouncer, PTL DEF Spec, DebouncerSpec

(* The submissions of a session are batched, in order, one batch at a time: *)
(* the coordinator's behaviours are those of SerialBatches.                 *)
THEOREM CoordinatorKeepsPromise == Spec => KeepsPromise
BY CoordinatorDrivesDebouncer, DebouncerImplementsSerialBatches, PTL

(* What is known of the debouncer holds of it as the coordinator drives it:  *)
(* its types and its inductive invariant.                                    *)
THEOREM DebouncerFacts == Spec => [](DebouncerTypeOK /\ DebouncerInv)
BY CoordinatorDrivesDebouncer, DebouncerTypeCorrect, DebouncerInvariant, PTL

-----------------------------------------------------------------------------
(* The batch of a working goroutine is a non-empty sequence of submissions. *)
LEMMA WorkType ==
  ASSUME DebouncerTypeOK, DebouncerInv, PhaseInv,
         NEW g \in Submissions, phase[g] # "idle"
  PROVE  /\ Work(g) \in Seq(Submissions) /\ Work(g) # <<>>
         /\ RunOf(g) \in Submissions /\ ContextOf(g) \in Submissions
         /\ g \in Calls => Work(g) = batch[g] /\ RunOf(g) \in Calls
<1>1. CASE g \in Calls
  <2>1. Work(g) = batch[g] /\ batch[g] \in Seq(Calls) /\ batch[g] # <<>>
    BY <1>1 DEF Work, PhaseInv, DebouncerTypeOK, DebouncerInv, BatchFull
  <2>2. Len(batch[g]) \in Nat \ {0}
    BY <2>1, EmptySeq, LenProperties
  <2>3. batch[g][1] \in Calls /\ batch[g][Len(batch[g])] \in Calls
    BY <2>1, <2>2, ElementOfSeq
  <2> QED BY <1>1, <2>1, <2>3 DEF RunOf, ContextOf, Submissions
<1>2. CASE g \notin Calls
  BY <1>2 DEF Work, RunOf, ContextOf
<1> QED BY <1>1, <1>2

LEMMA CallerKeepsType ==
  ASSUME TypeOK, DebouncerTypeOK', NEW s \in Submissions, CallerStep(s) \/ ContextDone(s)
  PROVE  TypeOK'
<1> USE DEF TypeOK, executeVars, cancelVars, closeVars, CallerState, Answers, Return
<1>1. CASE Begin(s)
  BY <1>1 DEF Begin, PhaseState
<1>2. CASE BeginRefused(s) \/ ScheduleRefused(s)
  BY <1>2 DEF BeginRefused, ScheduleRefused
<1>3. CASE s \in Calls /\ Schedule(s)
  BY <1>3 DEF Schedule
<1>4. CASE Receive(s)
  BY <1>4 DEF Receive
<1>5. CASE Leave(s) \/ RemoveWaiter(s)
  BY <1>5 DEF Leave, RemoveWaiter
<1>6. CASE ContextDone(s)
  BY <1>6 DEF ContextDone
<1> QED BY <1>1, <1>2, <1>3, <1>4, <1>5, <1>6 DEF CallerStep

LEMMA ExecuteKeepsType ==
  ASSUME TypeOK, DebouncerTypeOK, DebouncerTypeOK', DebouncerInv, PhaseInv, SlotsCountRuns,
         NEW g \in Submissions, ExecuteStep(g)
  PROVE  TypeOK'
<1> USE DEF TypeOK, submitVars, cancelVars, closeVars, PhaseState, Record, Outcomes
<1>1. CASE AcquireSlot(g)
  BY <1>1 DEF AcquireSlot
<1>2. CASE AcquireCancelled(g) \/ ExecuteReturns(g)
  BY <1>2 DEF AcquireCancelled, ExecuteReturns
<1>3. CASE RegisterRun(g)
  <2>1. g \in Calls
    BY <1>3 DEF RegisterRun, PhaseInv, Submissions
  <2>2. RunOf(g) \in Calls
    BY <1>3, <2>1, WorkType DEF RegisterRun
  <2> QED BY <1>3, <2>2 DEF RegisterRun
<1>4. CASE UnregisterRun(g)
  BY <1>4 DEF UnregisterRun
<1>5. CASE ReleaseSlot(g)
  <2>1. slots # 0
    <3> DEFINE H == {h \in Submissions : HoldsSlot(h)}
    <3>1. IsFiniteSet(H) /\ g \in H
      BY <1>5, FS_Subset, CoordinatorAssumption DEF ReleaseSlot, HoldsSlot, Submissions
    <3>2. Cardinality(H) # 0
      BY <3>1, FS_EmptySet
    <3> QED BY <3>2 DEF SlotsCountRuns
  <2> QED BY <1>5, <2>1 DEF ReleaseSlot
<1>6. CASE DirectReturns(g)
  BY <1>6 DEF DirectReturns, Return, CallerState, Answers
<1>7. CASE TakeWaiters(g)
  BY <1>7 DEF TakeWaiters
<1>8. CASE SendResult(g)
  <2>1. outcome[g] \in Outcomes
    BY <1>8 DEF SendResult, PhaseInv
  <2> QED BY <1>8, <2>1 DEF SendResult
<1> QED BY <1>1, <1>2, <1>3, <1>4, <1>5, <1>6, <1>7, <1>8 DEF ExecuteStep

LEMMA StepKeepsType ==
  ASSUME TypeOK, DebouncerTypeOK', DebouncerInv, PhaseInv, SlotsCountRuns, [Next]_vars
  PROVE  TypeOK'
<1> USE DEF TypeOK
<1>1. ASSUME NEW s \in Submissions, CallerStep(s) \/ ContextDone(s) \/ ExecuteStep(s)
      PROVE  TypeOK'
  BY <1>1, CallerKeepsType, ExecuteKeepsType
<1>2. ASSUME NEW c \in Calls, BatchStep(c) PROVE TypeOK'
  <2>1. CASE DebouncerStep(c)
    BY <2>1 DEF DebouncerStep, coordinatorVars, submitVars, executeVars, cancelVars, closeVars
  <2>2. CASE StartBatch(c) \/ FinishBatch(c)
    BY <2>2 DEF StartBatch, FinishBatch, submitVars, cancelVars, closeVars, PhaseState
  <2> QED BY <1>2, <2>1, <2>2 DEF BatchStep
<1>3. ASSUME NEW x \in Cancels, CancelLookup(x) \/ CancelCalls(x) PROVE TypeOK'
  <2> USE DEF CancelType, submitVars, executeVars, closeVars
  <2>1. CASE CancelLookup(x)
    BY <2>1 DEF CancelLookup
  <2>2. CASE CancelCalls(x)
    BY <2>2 DEF CancelCalls, PhaseInv
  <2> QED BY <1>3, <2>1, <2>2
<1>4. ASSUME NEW x \in Closers, CloseStep(x) PROVE TypeOK'
  <2> USE DEF submitVars, executeVars, cancelVars
  <2>1. CASE Close(x)
    BY <2>1 DEF Close
  <2>2. CASE CloseAgain(x) \/ CloseReturns(x)
    BY <2>2 DEF CloseAgain, CloseReturns
  <2>3. CASE CloseSends(x)
    BY <2>3 DEF CloseSends
  <2> QED BY <1>4, <2>1, <2>2, <2>3 DEF CloseStep
<1>5. CASE UNCHANGED vars
  BY <1>5 DEF vars, coordinatorVars, submitVars, executeVars, cancelVars, closeVars
<1> QED BY <1>1, <1>2, <1>3, <1>4, <1>5 DEF Next

-----------------------------------------------------------------------------
(* Which goroutines are inside the handler changes only at StartBatch and   *)
(* FinishBatch.                                                             *)
LEMMA HandlersUnchanged ==
  ASSUME DebouncerTypeOK
  PROVE  \A t \in Calls :
           /\ \A c \in Calls : Call(c) \/ DebouncerStep(c) => (Handling(t)' <=> Handling(t))
           /\ CloseDebouncer => (Handling(t)' <=> Handling(t))
<1>1. ASSUME NEW t \in Calls, NEW c \in Calls, Call(c) PROVE Handling(t)' <=> Handling(t)
  BY <1>1 DEF Call, Handling, DebouncerTypeOK
<1>2. ASSUME NEW t \in Calls, NEW c \in Calls, DebouncerStep(c)
      PROVE  Handling(t)' <=> Handling(t)
  BY <1>2 DEF DebouncerStep, Fire, FlushStale, FlushDeferred, Handling, DebouncerTypeOK
<1>3. ASSUME NEW t \in Calls, CloseDebouncer PROVE Handling(t)' <=> Handling(t)
  BY <1>3 DEF CloseDebouncer, Handling, DebouncerTypeOK
<1> QED BY <1>1, <1>2, <1>3

LEMMA ExecuteKeepsPhase ==
  ASSUME DebouncerTypeOK, TypeOK, PhaseInv, NEW g \in Submissions, ExecuteStep(g)
  PROVE  PhaseInv'
<1> USE CoordinatorAssumption
    DEF TypeOK, PhaseInv, Submissions, Handling, debouncerVars, submitVars, cancelVars
<1>1. CASE AcquireSlot(g)
  BY <1>1 DEF AcquireSlot
<1>2. CASE AcquireCancelled(g) \/ ExecuteReturns(g)
  BY <1>2 DEF AcquireCancelled, ExecuteReturns, Record, Outcomes
<1>3. CASE RegisterRun(g) \/ UnregisterRun(g)
  BY <1>3 DEF RegisterRun, UnregisterRun
<1>4. CASE ReleaseSlot(g)
  BY <1>4 DEF ReleaseSlot
<1>5. CASE DirectReturns(g)
  BY <1>5 DEF DirectReturns, Return
<1>6. CASE TakeWaiters(g) \/ SendResult(g)
  BY <1>6 DEF TakeWaiters, SendResult
<1> QED BY <1>1, <1>2, <1>3, <1>4, <1>5, <1>6 DEF ExecuteStep

LEMMA StepKeepsPhase ==
  ASSUME DebouncerTypeOK, TypeOK, PhaseInv, [Next]_vars
  PROVE  PhaseInv'
<1> USE CoordinatorAssumption DEF TypeOK
<1>1. ASSUME UNCHANGED <<phase, outcome, canceller>>,
             \A d \in Direct : caller[d] = "waiting" => caller'[d] = "waiting",
             \A t \in Calls : Handling(t)' <=> Handling(t)
      PROVE  PhaseInv'
  BY <1>1 DEF PhaseInv
<1>2. ASSUME NEW s \in Submissions, CallerStep(s) \/ ContextDone(s) \/ ExecuteStep(s)
      PROVE  PhaseInv'
  <2>1. CASE Begin(s)
    BY <2>1 DEF Begin, PhaseInv, Submissions, debouncerVars, cancelVars, Handling
  <2>2. CASE s \in Calls /\ Schedule(s)
    BY <1>1, <2>2, HandlersUnchanged DEF Schedule, executeVars, cancelVars, Submissions
  <2>3. CASE \/ BeginRefused(s) \/ ScheduleRefused(s) \/ Receive(s) \/ Leave(s)
             \/ RemoveWaiter(s) \/ ContextDone(s)
    BY <1>1, <2>3 DEF BeginRefused, ScheduleRefused, Receive, Leave, RemoveWaiter,
         ContextDone, Return, Submissions, debouncerVars, executeVars, cancelVars, Handling
  <2> QED BY <1>2, <2>1, <2>2, <2>3, ExecuteKeepsPhase DEF CallerStep
<1>3. ASSUME NEW c \in Calls, BatchStep(c) PROVE PhaseInv'
  <2>1. CASE DebouncerStep(c)
    BY <1>1, <2>1, HandlersUnchanged DEF DebouncerStep, coordinatorVars, submitVars,
         executeVars, cancelVars
  <2>2. CASE StartBatch(c)
    BY <2>2 DEF StartBatch, FlushTakes, PhaseInv, Handling, Submissions, submitVars, cancelVars, DebouncerTypeOK
  <2>3. CASE FinishBatch(c)
    BY <2>3 DEF FinishBatch, FinishRun, FinishNext, FinishIdle, FinishLeave, PhaseInv,
         Handling, Submissions, submitVars, cancelVars, DebouncerTypeOK
  <2> QED BY <1>3, <2>1, <2>2, <2>3 DEF BatchStep
<1>4. ASSUME NEW x \in Cancels, CancelLookup(x) \/ CancelCalls(x) PROVE PhaseInv'
  <2> USE DEF PhaseInv, Handling, debouncerVars, submitVars, executeVars, CancelType
  <2>1. CASE CancelLookup(x)
    BY <2>1 DEF CancelLookup
  <2>2. CASE CancelCalls(x)
    BY <2>2 DEF CancelCalls
  <2> QED BY <1>4, <2>1, <2>2
<1>5. ASSUME NEW x \in Closers, CloseStep(x) PROVE PhaseInv'
  <2>1. CASE Close(x)
    BY <1>1, <2>1, HandlersUnchanged DEF Close, executeVars, cancelVars
  <2> QED BY <1>1, <1>5, <2>1 DEF CloseStep, CloseAgain, CloseSends, CloseReturns,
            debouncerVars, submitVars, executeVars, cancelVars, Handling
<1>6. CASE UNCHANGED vars
  BY <1>1, <1>6 DEF vars, debouncerVars, coordinatorVars, submitVars, executeVars, cancelVars, Handling
<1> QED BY <1>2, <1>3, <1>4, <1>5, <1>6 DEF Next

-----------------------------------------------------------------------------
(* Slots                                                                    *)
Holders == {g \in Submissions : HoldsSlot(g)}

LEMMA HoldersFinite == IsFiniteSet(Holders) /\ Cardinality(Holders) \in Nat
BY FS_Subset, FS_CardinalityType, CoordinatorAssumption DEF Holders, Submissions

(* A step that changes no phase to or from one that holds a slot.           *)
LEMMA SlotsUntouched ==
  ASSUME SlotsCountRuns, slots' = slots,
         \A g \in Submissions : HoldsSlot(g)' <=> HoldsSlot(g)
  PROVE  SlotsCountRuns'
<1>1. {g \in Submissions : HoldsSlot(g)}' = {g \in Submissions : HoldsSlot(g)}
  OBVIOUS
<1> QED BY <1>1 DEF SlotsCountRuns

LEMMA StepKeepsSlots ==
  ASSUME DebouncerTypeOK, TypeOK, PhaseInv, SlotsCountRuns, [Next]_vars
  PROVE  SlotsCountRuns'
<1> USE DEF TypeOK
<1>1. ASSUME NEW g \in Submissions, AcquireSlot(g) PROVE SlotsCountRuns'
  <2>1. Holders' = Holders \cup {g} /\ g \notin Holders
    BY <1>1 DEF AcquireSlot, Holders, HoldsSlot
  <2>2. Cardinality(Holders') = Cardinality(Holders) + 1
    BY <2>1, HoldersFinite, FS_AddElement
  <2> QED BY <1>1, <2>2, HoldersFinite, CoordinatorAssumption
          DEF AcquireSlot, SlotsCountRuns, Holders
<1>2. ASSUME NEW g \in Submissions, ReleaseSlot(g) PROVE SlotsCountRuns'
  <2>1. Holders' = Holders \ {g} /\ g \in Holders
    BY <1>2 DEF ReleaseSlot, Holders, HoldsSlot
  <2>2. Cardinality(Holders') = Cardinality(Holders) - 1
    BY <2>1, HoldersFinite, FS_RemoveElement
  <2> QED BY <1>2, <2>2, HoldersFinite, CoordinatorAssumption
          DEF ReleaseSlot, SlotsCountRuns, Holders
<1>3. ASSUME NEW g \in Submissions,
             ExecuteStep(g), ~AcquireSlot(g), ~ReleaseSlot(g)
      PROVE  SlotsCountRuns'
  <2>1. slots' = slots /\ \A h \in Submissions : HoldsSlot(h)' <=> HoldsSlot(h)
    BY <1>3 DEF ExecuteStep, AcquireCancelled, RegisterRun, ExecuteReturns, UnregisterRun,
         DirectReturns, TakeWaiters, SendResult, HoldsSlot
  <2> QED BY <2>1, SlotsUntouched
<1>4. ASSUME NEW s \in Submissions, CallerStep(s) \/ ContextDone(s) PROVE SlotsCountRuns'
  <2>1. slots' = slots /\ \A h \in Submissions : HoldsSlot(h)' <=> HoldsSlot(h)
    <3>1. CASE Begin(s)
      <4>1. s \in Direct => phase[s] = "idle"
        BY <3>1 DEF Begin, PhaseInv
      <4> QED BY <3>1, <4>1 DEF Begin, HoldsSlot
    <3> QED BY <1>4, <3>1 DEF CallerStep, BeginRefused, Schedule, ScheduleRefused, Receive,
              Leave, RemoveWaiter, ContextDone, executeVars, HoldsSlot
  <2> QED BY <2>1, SlotsUntouched
<1>5. ASSUME NEW c \in Calls, BatchStep(c) PROVE SlotsCountRuns'
  <2>1. phase[c] \in {"idle", "send"} \/ DebouncerStep(c)
    BY <1>5 DEF BatchStep, StartBatch, FlushTakes, FinishBatch, PhaseInv, Handling
  <2>2. slots' = slots /\ \A h \in Submissions : HoldsSlot(h)' <=> HoldsSlot(h)
    BY <1>5, <2>1 DEF BatchStep, DebouncerStep, StartBatch, FinishBatch, coordinatorVars,
         executeVars, HoldsSlot
  <2> QED BY <2>2, SlotsUntouched
<1>6. ASSUME \/ \E x \in Cancels : CancelLookup(x) \/ CancelCalls(x)
             \/ \E x \in Closers : CloseStep(x)
             \/ UNCHANGED vars
      PROVE  SlotsCountRuns'
  <2>1. UNCHANGED executeVars
    BY <1>6 DEF CancelLookup, CancelCalls, CloseStep, Close, CloseAgain, CloseSends,
         CloseReturns, vars, coordinatorVars
  <2> QED BY <2>1, SlotsUntouched DEF executeVars, HoldsSlot
<1> QED BY <1>1, <1>2, <1>3, <1>4, <1>5, <1>6 DEF Next

-----------------------------------------------------------------------------
(* Cancel: what a Cancel found under the lock is what it stops.             *)
LEMMA StepKeepsCancel ==
  ASSUME TypeOK, PhaseInv, CancelInv, CancelStopsNamedRun, [Next]_vars
  PROVE  CancelInv' /\ CancelStopsNamedRun'
<1> USE DEF TypeOK, CancelInv, CancelStopsNamedRun, CancelType
<1>1. ASSUME NEW x \in Cancels, CancelLookup(x) PROVE CancelInv' /\ CancelStopsNamedRun'
  <2>1. /\ runCancelled' = runCancelled /\ canceller[x].at = "idle"
        /\ \A y \in Cancels \ {x} : canceller'[y] = canceller[y]
        /\ canceller'[x].at = "found" => canceller'[x].names \in {NoCall, canceller'[x].found}
    BY <1>1 DEF CancelLookup
  <2> QED BY <2>1
<1>2. ASSUME NEW x \in Cancels, CancelCalls(x) PROVE CancelInv' /\ CancelStopsNamedRun'
  <2>1. /\ runCancelled' = runCancelled \cup {canceller[x].found}
        /\ \A y \in Cancels \ {x} : canceller'[y] = canceller[y]
        /\ canceller'[x].at = "done" /\ canceller'[x].names = canceller[x].names
        /\ canceller[x].at = "found"
    BY <1>2 DEF CancelCalls
  <2> QED BY <2>1
<1>3. ASSUME UNCHANGED <<runCancelled, canceller>> PROVE CancelInv' /\ CancelStopsNamedRun'
  BY <1>3
<1>4. ASSUME NEW s \in Submissions, CallerStep(s) \/ ContextDone(s) \/ ExecuteStep(s)
      PROVE  UNCHANGED <<runCancelled, canceller>>
  BY <1>4 DEF CallerStep, Begin, BeginRefused, Schedule, ScheduleRefused, Receive, Leave,
       RemoveWaiter, ContextDone, ExecuteStep, AcquireSlot, AcquireCancelled, RegisterRun,
       ExecuteReturns, UnregisterRun, ReleaseSlot, DirectReturns, TakeWaiters, SendResult,
       cancelVars
<1>5. ASSUME \/ \E c \in Calls : BatchStep(c)
             \/ \E x \in Closers : CloseStep(x)
             \/ UNCHANGED vars
      PROVE  UNCHANGED <<runCancelled, canceller>>
  BY <1>5 DEF BatchStep, DebouncerStep, StartBatch, FinishBatch, CloseStep, Close, CloseAgain,
       CloseSends, CloseReturns, vars, coordinatorVars, cancelVars
<1> QED BY <1>1, <1>2, <1>3, <1>4, <1>5 DEF Next

-----------------------------------------------------------------------------
(* Close: from the first Close on, callers only leave.                      *)
LEMMA CallersOnlyLeave ==
  ASSUME TypeOK, [Next]_vars, closed
  PROVE  closed' /\ InFlight' \subseteq InFlight
<1> USE DEF TypeOK, InFlight
<1>1. ASSUME NEW s \in Submissions, CallerStep(s) \/ ContextDone(s)
      PROVE  closed' /\ InFlight' \subseteq InFlight
  BY <1>1 DEF CallerStep, Begin, BeginRefused, Schedule, Call, ScheduleRefused, Receive, Leave,
       RemoveWaiter, ContextDone, Return, debouncerVars
<1>2. ASSUME NEW s \in Submissions, ExecuteStep(s)
      PROVE  closed' /\ InFlight' \subseteq InFlight
  BY <1>2 DEF ExecuteStep, AcquireSlot, AcquireCancelled, RegisterRun, ExecuteReturns,
       UnregisterRun, ReleaseSlot, DirectReturns, TakeWaiters, SendResult, Return,
       debouncerVars, submitVars
<1>3. ASSUME NEW c \in Calls, BatchStep(c) PROVE closed' /\ InFlight' \subseteq InFlight
  BY <1>3 DEF BatchStep, DebouncerStep, Fire, FlushStale, FlushDeferred, StartBatch, FlushTakes,
       FinishBatch, FinishRun, coordinatorVars, submitVars
<1>4. ASSUME \/ \E x \in Cancels : CancelLookup(x) \/ CancelCalls(x)
             \/ \E x \in Closers : CloseStep(x)
             \/ UNCHANGED vars
      PROVE  closed' /\ InFlight' \subseteq InFlight
  BY <1>4 DEF CancelLookup, CancelCalls, CloseStep, Close, CloseDebouncer, CloseAgain,
       CloseSends, CloseReturns, vars, debouncerVars, coordinatorVars, submitVars
<1> QED BY <1>1, <1>2, <1>3, <1>4 DEF Next

LEMMA StepKeepsClosed ==
  ASSUME TypeOK, ClosedInv, CloseDrainsCallers, [Next]_vars
  PROVE  ClosedInv' /\ CloseDrainsCallers'
<1> USE DEF TypeOK, ClosedInv, CloseDrainsCallers
<1>1. ASSUME NEW x \in Closers, Close(x) PROVE ClosedInv' /\ CloseDrainsCallers'
  <2>1. ~closed /\ closed' /\ closer' = [closer EXCEPT ![x] = "closing"]
    BY <1>1 DEF Close, CloseDebouncer
  <2>2. \A y \in Closers : closer[y] = "idle"
    BY <2>1
  <2>3. \A y \in Closers : closer'[y] # "returned"
    BY <2>1, <2>2
  <2> QED BY <2>1, <2>3
<1>2. ASSUME NEW x \in Closers, CloseAgain(x) PROVE ClosedInv' /\ CloseDrainsCallers'
  BY <1>2, CallersOnlyLeave DEF CloseAgain
<1>3. ASSUME NEW x \in Closers, CloseReturns(x) PROVE ClosedInv' /\ CloseDrainsCallers'
  <2>1. closed /\ InFlight = {}
    BY <1>3 DEF CloseReturns
  <2> QED BY <1>3, <2>1, CallersOnlyLeave DEF CloseReturns
<1>4. ASSUME closer' = closer PROVE ClosedInv' /\ CloseDrainsCallers'
  BY <1>4, CallersOnlyLeave
<1>5. ASSUME NEW s \in Submissions, CallerStep(s) \/ ContextDone(s) \/ ExecuteStep(s)
      PROVE  closer' = closer
  BY <1>5 DEF CallerStep, Begin, BeginRefused, Schedule, ScheduleRefused, Receive, Leave,
       RemoveWaiter, ContextDone, ExecuteStep, AcquireSlot, AcquireCancelled, RegisterRun,
       ExecuteReturns, UnregisterRun, ReleaseSlot, DirectReturns, TakeWaiters, SendResult,
       closeVars
<1>6. ASSUME \/ \E c \in Calls : BatchStep(c)
             \/ \E x \in Cancels : CancelLookup(x) \/ CancelCalls(x)
             \/ \E x \in Closers : CloseSends(x)
             \/ UNCHANGED vars
      PROVE  closer' = closer
  BY <1>6 DEF BatchStep, DebouncerStep, StartBatch, FinishBatch, CancelLookup, CancelCalls,
       CloseSends, vars, coordinatorVars, closeVars
<1> QED BY <1>1, <1>2, <1>3, <1>4, <1>5, <1>6 DEF Next, CloseStep

-----------------------------------------------------------------------------
(* Cancellation finds the executing run: activeRuns.                        *)
Listed(g) == phase[g] \in {"execute", "unregister"}

LEMMA StepKeepsActive ==
  ASSUME DebouncerTypeOK, DebouncerInv, TypeOK, PhaseInv, ActiveRunIsExecuting, [Next]_vars
  PROVE  ActiveRunIsExecuting'
<1> USE DebouncerAssumption, CoordinatorAssumption DEF TypeOK, ActiveRunIsExecuting, Submissions
<1>1. ASSUME activeRuns' = activeRuns, \A g \in Calls : Listed(g)' <=> Listed(g),
             \A g \in Calls : Listed(g) => batch'[g] = batch[g]
      PROVE  ActiveRunIsExecuting'
  <2>1. \A g \in Calls : Listed(g) => RunOf(g)' = RunOf(g)
    BY <1>1 DEF RunOf, Work
  <2>2. \A g \in Calls : Listed(g)' <=> Listed(g)
    BY <1>1
  <2>3. \A k \in Keys, r \in Calls :
          activeRuns'[k] = r <=> \E g \in Calls : Listed(g) /\ KeyOf[g] = k /\ RunOf(g) = r
    BY <1>1 DEF Listed
  <2>4. \A k \in Keys, r \in Calls :
          activeRuns'[k] = r <=> \E g \in Calls : Listed(g)' /\ KeyOf[g] = k /\ RunOf(g)' = r
    BY <2>1, <2>2, <2>3
  <2> QED BY <2>4 DEF Listed
<1>2. \A g, h \in Calls : phase[g] # "idle" /\ phase[h] # "idle" /\ KeyOf[g] = KeyOf[h] => g = h
  BY DEF PhaseInv, DebouncerInv, OneHandlerPerKey
<1>3. ASSUME NEW g \in Submissions, RegisterRun(g) PROVE ActiveRunIsExecuting'
  <2>1. g \in Calls /\ KeyOf[g] \in Keys
    BY <1>3 DEF RegisterRun, PhaseInv, Submissions, DebouncerTypeOK
  <2>2. RunOf(g) \in Calls
    BY <1>3, <2>1, WorkType DEF RegisterRun
  <2>3. /\ \A h \in Calls : RunOf(h)' = RunOf(h)
        /\ \A h \in Calls \ {g} : phase'[h] = phase[h]
        /\ phase[g] = "register" /\ phase'[g] = "execute"
        /\ activeRuns' = [activeRuns EXCEPT ![KeyOf[g]] = RunOf(g)]
    BY <1>3, <2>1 DEF RegisterRun, debouncerVars, RunOf, Work
  <2>4. \A h \in Calls : KeyOf[h] = KeyOf[g] /\ phase'[h] \in {"execute", "unregister"} => h = g
    BY <1>2, <2>1, <2>3
  <2>5. ASSUME NEW k \in Keys, NEW r \in Calls
        PROVE  activeRuns'[k] = r <=> \E h \in Calls : Listed(h)' /\ KeyOf[h] = k /\ RunOf(h) = r
    <3>1. CASE k = KeyOf[g]
      <4>1. activeRuns'[k] = RunOf(g) /\ Listed(g)'
        BY <2>1, <2>3, <3>1 DEF Listed
      <4> QED BY <2>1, <2>4, <3>1, <4>1 DEF Listed
    <3>2. CASE k # KeyOf[g]
      <4>1. activeRuns'[k] = activeRuns[k]
        BY <2>1, <2>3, <3>2
      <4>2. \A h \in Calls : KeyOf[h] = k => (Listed(h)' <=> Listed(h))
        BY <2>3, <3>2 DEF Listed
      <4>3. activeRuns[k] = r <=> \E h \in Calls : Listed(h) /\ KeyOf[h] = k /\ RunOf(h) = r
        BY DEF Listed
      <4> QED BY <4>1, <4>2, <4>3
    <3> QED BY <3>1, <3>2
  <2> QED BY <2>3, <2>5 DEF Listed
<1>4. ASSUME NEW g \in Submissions, UnregisterRun(g) PROVE ActiveRunIsExecuting'
  <2>1. g \in Calls /\ KeyOf[g] \in Keys
    BY <1>4 DEF UnregisterRun, PhaseInv, Submissions, DebouncerTypeOK
  <2>3. /\ \A h \in Calls : RunOf(h)' = RunOf(h)
        /\ \A h \in Calls \ {g} : phase'[h] = phase[h]
        /\ phase[g] = "unregister" /\ phase'[g] = "release"
        /\ activeRuns' = [activeRuns EXCEPT ![KeyOf[g]] = NoCall]
    BY <1>4, <2>1 DEF UnregisterRun, debouncerVars, RunOf, Work
  <2>4. \A h \in Calls : KeyOf[h] = KeyOf[g] => phase'[h] \notin {"execute", "unregister"}
    BY <1>2, <2>1, <2>3
  <2>5. ASSUME NEW k \in Keys, NEW r \in Calls
        PROVE  activeRuns'[k] = r <=> \E h \in Calls : Listed(h)' /\ KeyOf[h] = k /\ RunOf(h) = r
    <3>1. CASE k = KeyOf[g]
      <4>1. activeRuns'[k] = NoCall
        BY <2>1, <2>3, <3>1
      <4> QED BY <2>4, <3>1, <4>1 DEF Listed
    <3>2. CASE k # KeyOf[g]
      <4>1. activeRuns'[k] = activeRuns[k]
        BY <2>1, <2>3, <3>2
      <4>2. \A h \in Calls : KeyOf[h] = k => (Listed(h)' <=> Listed(h))
        BY <2>3, <3>2 DEF Listed
      <4>3. activeRuns[k] = r <=> \E h \in Calls : Listed(h) /\ KeyOf[h] = k /\ RunOf(h) = r
        BY DEF Listed
      <4> QED BY <4>1, <4>2, <4>3
    <3> QED BY <3>1, <3>2
  <2> QED BY <2>3, <2>5 DEF Listed
<1>5. ASSUME NEW g \in Submissions, ExecuteStep(g), ~RegisterRun(g), ~UnregisterRun(g)
      PROVE  ActiveRunIsExecuting'
  <2>1. activeRuns' = activeRuns /\ batch' = batch
    BY <1>5 DEF ExecuteStep, AcquireSlot, AcquireCancelled, ExecuteReturns,
         ReleaseSlot, DirectReturns, TakeWaiters, SendResult, debouncerVars, cancelVars
  <2>2. \A h \in Calls : Listed(h)' <=> Listed(h)
    BY <1>5 DEF ExecuteStep, AcquireSlot, AcquireCancelled, ExecuteReturns,
         ReleaseSlot, DirectReturns, TakeWaiters, SendResult, Listed
  <2> QED BY <1>1, <2>1, <2>2
<1>6. ASSUME NEW s \in Submissions, CallerStep(s) \/ ContextDone(s)
      PROVE  ActiveRunIsExecuting'
  <2>1. activeRuns' = activeRuns /\ batch' = batch
    BY <1>6 DEF CallerStep, Begin, BeginRefused, Schedule, Call, ScheduleRefused, Receive, Leave,
         RemoveWaiter, ContextDone, debouncerVars, cancelVars
  <2>2. \A h \in Calls : phase'[h] = phase[h]
    BY <1>6 DEF CallerStep, Begin, BeginRefused, Schedule, ScheduleRefused, Receive, Leave,
         RemoveWaiter, ContextDone, executeVars
  <2> QED BY <1>1, <2>1, <2>2 DEF Listed
<1>7. ASSUME NEW c \in Calls, BatchStep(c) PROVE ActiveRunIsExecuting'
  <2>1. CASE DebouncerStep(c)
    BY <1>1, <2>1 DEF DebouncerStep, Fire, FlushStale, FlushDeferred, coordinatorVars,
         executeVars, cancelVars, Listed
  <2>2. CASE StartBatch(c) \/ FinishBatch(c)
    <3>1. ~Listed(c) /\ ~Listed(c)'
      <4>1. CASE StartBatch(c)
        <5>1. phase[c] = "idle" /\ phase'[c] = "acquire"
          BY <4>1 DEF StartBatch, FlushTakes, PhaseInv, Handling, Submissions
        <5> QED BY <5>1 DEF Listed
      <4>2. CASE FinishBatch(c)
        BY <4>2 DEF FinishBatch, Listed
      <4> QED BY <2>2, <4>1, <4>2
    <3>2. \A h \in Calls \ {c} : phase'[h] = phase[h] /\ batch'[h] = batch[h]
      BY <2>2 DEF StartBatch, FlushTakes, FinishBatch, FinishRun, FinishNext, FinishIdle,
           FinishLeave, DebouncerTypeOK
    <3>3. activeRuns' = activeRuns
      BY <2>2 DEF StartBatch, FinishBatch, cancelVars
    <3> QED BY <1>1, <3>1, <3>2, <3>3 DEF Listed
  <2> QED BY <1>7, <2>1, <2>2 DEF BatchStep
<1>8. ASSUME \/ \E x \in Cancels : CancelLookup(x) \/ CancelCalls(x)
             \/ \E x \in Closers : CloseStep(x)
             \/ UNCHANGED vars
      PROVE  ActiveRunIsExecuting'
  <2>1. UNCHANGED <<activeRuns, phase, batch>>
    BY <1>8 DEF CancelLookup, CancelCalls, CloseStep, Close, CloseDebouncer, CloseAgain,
         CloseSends, CloseReturns, vars, debouncerVars, coordinatorVars, executeVars, cancelVars
  <2> QED BY <1>1, <2>1 DEF Listed
<1> QED BY <1>3, <1>4, <1>5, <1>6, <1>7, <1>8 DEF Next

-----------------------------------------------------------------------------
(* The submissions pending for a session and those in a goroutine's batch,  *)
(* and what the debouncer's operations do to them.                          *)
Pend(k) == Range(entries[k].pending)
Bat(g) == Range(batch[g])
Made(c) == task[c] # "none"

LEMMA EmptyRange == Range(<<>>) = {}
BY DEF Range

LEMMA AppendRange ==
  ASSUME NEW q \in Seq(Calls), NEW c \in Calls
  PROVE  Range(Append(q, c)) = Range(q) \cup {c}
<1>1. <<c>> \in Seq(Calls)
  OBVIOUS
<1>2. Append(q, c) = q \o <<c>>
  OBVIOUS
<1>4. Range(<<c>>) = {c}
  <2>1. DOMAIN <<c>> = {1} /\ <<c>>[1] = c
    OBVIOUS
  <2> QED BY <2>1 DEF Range
<1>3. Range(q \o <<c>>) = Range(q) \cup Range(<<c>>)
  <2>1. ASSUME NEW t \in Seq(Calls) PROVE Range(q \o t) = Range(q) \cup Range(t)
    BY RangeConcatenation
  <2> QED BY <1>1, <2>1
<1>5. Range(Append(q, c)) = Range(q \o <<c>>)
  BY <1>2
<1> QED BY <1>3, <1>4, <1>5, Zenon

LEMMA PendInCalls ==
  ASSUME DebouncerTypeOK
  PROVE  (\A k \in Keys : Pend(k) \subseteq Calls) /\ (\A g \in Calls : Bat(g) \subseteq Calls)
BY RangeOfSeq, EntryTypes DEF Pend, Bat, DebouncerTypeOK

LEMMA CallEffect ==
  ASSUME DebouncerTypeOK, NEW c \in Calls, Call(c)
  PROVE  /\ Pend(KeyOf[c])' = Pend(KeyOf[c]) \cup {c}
         /\ \A k \in Keys \ {KeyOf[c]} : Pend(k)' = Pend(k)
         /\ \A g \in Calls : Bat(g)' = Bat(g)
         /\ batch' = batch
         /\ ~Made(c) /\ Made(c)' /\ \A t \in Calls \ {c} : Made(t)' <=> Made(t)
<1> USE DebouncerAssumption, CoordinatorAssumption
<1>1. /\ entries'[KeyOf[c]].pending = Append(entries[KeyOf[c]].pending, c)
      /\ \A k \in Keys \ {KeyOf[c]} : entries'[k] = entries[k]
      /\ batch' = batch
  BY DEF Call, Merged, DebouncerTypeOK
<1>2. Pend(KeyOf[c])' = Pend(KeyOf[c]) \cup {c}
  BY <1>1, AppendRange, EntryTypes DEF Pend, DebouncerTypeOK
<1>3. ~Made(c) /\ Made(c)' /\ \A t \in Calls \ {c} : Made(t)' <=> Made(t)
  BY DEF Call, Made, DebouncerTypeOK
<1> QED BY <1>1, <1>2, <1>3 DEF Pend, Bat

LEMMA QuietEffect ==
  ASSUME DebouncerTypeOK, NEW c \in Calls, Fire(c) \/ FlushStale(c) \/ FlushDeferred(c)
  PROVE  /\ \A k \in Keys : Pend(k)' = Pend(k)
         /\ batch' = batch
         /\ \A g \in Calls : Bat(g)' = Bat(g)
         /\ \A t \in Calls : Made(t)' <=> Made(t)
<1>1. /\ \A k \in Keys : entries'[k].pending = entries[k].pending
      /\ batch' = batch
  <2>1. CASE FlushDeferred(c)
    BY <2>1 DEF FlushDeferred, DebouncerTypeOK, EntryType
  <2> QED BY <2>1 DEF Fire, FlushStale
<1>2. \A t \in Calls : Made(t)' <=> Made(t)
  BY DEF Fire, FlushStale, FlushDeferred, Made, DebouncerTypeOK
<1> QED BY <1>1, <1>2 DEF Pend, Bat

(* The goroutine of c takes what is pending for its session.                *)
LEMMA TakeEffect ==
  ASSUME DebouncerTypeOK, NEW c \in Calls,
         entries' = [entries EXCEPT ![KeyOf[c]] = Taken(entries[KeyOf[c]])],
         batch' = [batch EXCEPT ![c] = entries[KeyOf[c]].pending]
  PROVE  /\ Bat(c)' = Pend(KeyOf[c]) /\ \A g \in Calls \ {c} : Bat(g)' = Bat(g)
         /\ Pend(KeyOf[c])' = {} /\ \A k \in Keys \ {KeyOf[c]} : Pend(k)' = Pend(k)
<1>1. KeyOf[c] \in Keys /\ entries[KeyOf[c]] \in EntryType
  BY DebouncerAssumption DEF DebouncerTypeOK
<1>2. /\ entries'[KeyOf[c]].pending = <<>>
      /\ \A k \in Keys \ {KeyOf[c]} : entries'[k] = entries[k]
  BY <1>1 DEF Taken, DebouncerTypeOK, EntryType
<1>3. batch'[c] = entries[KeyOf[c]].pending /\ \A g \in Calls \ {c} : batch'[g] = batch[g]
  BY DEF DebouncerTypeOK
<1> QED BY <1>2, <1>3, EmptyRange DEF Pend, Bat

(* The goroutine of c returns and nothing changes for anybody else.         *)
LEMMA LeaveEffect ==
  ASSUME DebouncerTypeOK, NEW c \in Calls, FinishIdle(c) \/ FinishLeave(c)
  PROVE  /\ batch'[c] = <<>> /\ Bat(c)' = {} /\ \A g \in Calls \ {c} : Bat(g)' = Bat(g)
         /\ \A k \in Keys : Pend(k)' = Pend(k)
         /\ task' = [task EXCEPT ![c] = "done"]
<1> USE DebouncerAssumption
<1>1. \A k \in Keys : entries'[k].pending = entries[k].pending
  <2>1. CASE FinishIdle(c)
    BY <2>1 DEF FinishIdle, NoEntry, DebouncerTypeOK
  <2>2. CASE FinishLeave(c)
    BY <2>2 DEF FinishLeave, DebouncerTypeOK, EntryType
  <2> QED BY <2>1, <2>2
<1>2. batch' = [batch EXCEPT ![c] = <<>>] /\ task' = [task EXCEPT ![c] = "done"]
  BY DEF FinishIdle, FinishLeave
<1>3. batch'[c] = <<>> /\ \A g \in Calls \ {c} : batch'[g] = batch[g]
  BY <1>2 DEF DebouncerTypeOK
<1> QED BY <1>1, <1>2, <1>3, EmptyRange DEF Pend, Bat

LEMMA CloseEffect ==
  ASSUME DebouncerTypeOK, CloseDebouncer
  PROVE  /\ \A k \in Keys : Pend(k)' \subseteq Pend(k)
         /\ batch' = batch
         /\ \A g \in Calls : Bat(g)' = Bat(g)
         /\ \A t \in Calls : Made(t)' <=> Made(t)
<1>1. \A k \in Keys : entries'[k].pending \in {<<>>, entries[k].pending}
  <2> SUFFICES ASSUME NEW k \in Keys
               PROVE  entries'[k].pending \in {<<>>, entries[k].pending}
    OBVIOUS
  <2>1. entries'[k] = IF entries[k].running THEN [entries[k] EXCEPT !.timer = NoCall] ELSE NoEntry
    BY DEF CloseDebouncer
  <2> QED BY <2>1 DEF NoEntry, DebouncerTypeOK, EntryType
<1>2. \A k \in Keys : Pend(k)' \subseteq Pend(k)
  BY <1>1, EmptyRange DEF Pend
<1>3. batch' = batch /\ \A t \in Calls : Made(t)' <=> Made(t)
  BY DEF CloseDebouncer, Made, DebouncerTypeOK
<1> QED BY <1>2, <1>3 DEF Bat

-----------------------------------------------------------------------------
(* Parked callers: at most one message is under way to each.                *)
parkedVars == <<channel, waiters, outbox, closeOutbox>>

LEMMA ParkedUntouched ==
  ASSUME ParkedInv, UNCHANGED parkedVars,
         \A w \in Calls : caller'[w] \in {"idle", "begun"} => caller[w] \in {"idle", "begun"}
  PROVE  ParkedInv'
BY DEF ParkedInv, Owed, parkedVars

LEMMA CallerKeepsParked ==
  ASSUME TypeOK, ParkedInv, NEW s \in Submissions, CallerStep(s) \/ ContextDone(s)
  PROVE  ParkedInv'
<1> USE DEF TypeOK, Submissions
<1>1. CASE s \in Calls /\ Schedule(s)
  <2>1. /\ waiters' = waiters \cup {s} /\ ~Owed(s) /\ channel[s] = "empty"
        /\ UNCHANGED <<channel, outbox, closeOutbox>>
        /\ caller' = [caller EXCEPT ![s] = "waiting"]
    BY <1>1 DEF Schedule, ParkedInv, executeVars, closeVars
  <2> QED BY <1>1, <2>1 DEF ParkedInv, Owed
<1>2. CASE Receive(s)
  <2>1. ~Owed(s)
    BY <1>2 DEF Receive, ParkedInv
  <2> QED BY <1>2, <2>1 DEF Receive, Return, ParkedInv, Owed, executeVars, closeVars
<1>3. CASE RemoveWaiter(s)
  BY <1>3 DEF RemoveWaiter, Return, ParkedInv, Owed, executeVars, closeVars
<1>4. CASE \/ Begin(s) \/ BeginRefused(s) \/ ScheduleRefused(s) \/ Leave(s) \/ ContextDone(s)
  BY <1>4, ParkedUntouched DEF Begin, BeginRefused, ScheduleRefused, Leave, ContextDone, Return,
       parkedVars, executeVars, closeVars
<1> QED BY <1>1, <1>2, <1>3, <1>4 DEF CallerStep

LEMMA ExecuteKeepsParked ==
  ASSUME TypeOK, ParkedInv, NEW g \in Submissions, ExecuteStep(g)
  PROVE  ParkedInv'
<1> USE DEF TypeOK, Submissions
<1>1. CASE TakeWaiters(g)
  <2> DEFINE taken == Range(batch[g]) \cap waiters
  <2>1. /\ g \in Calls /\ taken \subseteq waiters
        /\ outbox' = [outbox EXCEPT ![g] = taken]
        /\ waiters' = waiters \ taken
        /\ UNCHANGED <<channel, caller, closeOutbox>>
    BY <1>1 DEF TakeWaiters, closeVars
  <2> HIDE DEF taken
  <2>2. \A w \in Calls : Owed(w)' => Owed(w)
    BY <2>1 DEF Owed
  <2> QED BY <2>1, <2>2 DEF ParkedInv
<1>2. CASE SendResult(g)
  <2>1. PICK w \in outbox[g] : /\ channel' = [channel EXCEPT ![w] = outcome[g]]
                                /\ outbox' = [outbox EXCEPT ![g] = @ \ {w}]
    BY <1>2 DEF SendResult
  <2>2. g \in Calls /\ w \in Calls /\ UNCHANGED <<waiters, caller, closeOutbox>>
    BY <1>2, <2>1 DEF SendResult, closeVars
  <2>3. ~Owed(w)' /\ caller[w] \notin {"idle", "begun"}
    BY <2>1, <2>2 DEF ParkedInv, Owed
  <2>4. \A v \in Calls : Owed(v)' => Owed(v)
    BY <2>1, <2>2 DEF Owed
  <2> QED BY <2>1, <2>2, <2>3, <2>4 DEF ParkedInv
<1>3. ASSUME ~TakeWaiters(g), ~SendResult(g) PROVE ParkedInv'
  <2>1. UNCHANGED parkedVars
    BY <1>3 DEF ExecuteStep, AcquireSlot, AcquireCancelled, RegisterRun, ExecuteReturns,
         UnregisterRun, ReleaseSlot, DirectReturns, parkedVars, submitVars, closeVars
  <2>2. \A w \in Calls : caller'[w] \in {"idle", "begun"} => caller[w] \in {"idle", "begun"}
    BY <1>3 DEF ExecuteStep, AcquireSlot, AcquireCancelled, RegisterRun, ExecuteReturns,
         UnregisterRun, ReleaseSlot, DirectReturns, Return, submitVars
  <2> QED BY <2>1, <2>2, ParkedUntouched
<1> QED BY <1>1, <1>2, <1>3

LEMMA CloseKeepsParked ==
  ASSUME TypeOK, ParkedInv, NEW x \in Closers, CloseStep(x)
  PROVE  ParkedInv'
<1> USE DEF TypeOK
<1>1. CASE Close(x)
  <2>1. /\ closeOutbox' = [closeOutbox EXCEPT ![x] = waiters]
        /\ waiters' = {}
        /\ UNCHANGED <<channel, caller, outbox>>
    BY <1>1 DEF Close, executeVars
  <2>2. \A w \in Calls : Owed(w)' => Owed(w)
    BY <2>1 DEF Owed
  <2> QED BY <2>1, <2>2 DEF ParkedInv
<1>2. CASE CloseSends(x)
  <2>1. PICK w \in closeOutbox[x] : /\ channel' = [channel EXCEPT ![w] = "closed"]
                                     /\ closeOutbox' = [closeOutbox EXCEPT ![x] = @ \ {w}]
    BY <1>2 DEF CloseSends
  <2>2. w \in Calls /\ UNCHANGED <<waiters, caller, outbox>>
    BY <1>2, <2>1 DEF CloseSends, executeVars
  <2>3. ~Owed(w)' /\ caller[w] \notin {"idle", "begun"}
    BY <2>1, <2>2 DEF ParkedInv, Owed
  <2>4. \A v \in Calls : Owed(v)' => Owed(v)
    BY <2>1, <2>2 DEF Owed
  <2> QED BY <2>1, <2>2, <2>3, <2>4 DEF ParkedInv
<1>3. CASE CloseAgain(x) \/ CloseReturns(x)
  BY <1>3, ParkedUntouched DEF CloseAgain, CloseReturns, parkedVars, submitVars, executeVars
<1> QED BY <1>1, <1>2, <1>3 DEF CloseStep

LEMMA StepKeepsParked ==
  ASSUME TypeOK, ParkedInv, [Next]_vars
  PROVE  ParkedInv'
<1>1. ASSUME \/ \E c \in Calls : BatchStep(c)
             \/ \E x \in Cancels : CancelLookup(x) \/ CancelCalls(x)
             \/ UNCHANGED vars
      PROVE  ParkedInv'
  <2>1. UNCHANGED parkedVars /\ caller' = caller
    BY <1>1 DEF BatchStep, DebouncerStep, StartBatch, FinishBatch, CancelLookup, CancelCalls,
         parkedVars, vars, coordinatorVars, submitVars, executeVars, closeVars
  <2> QED BY <2>1, ParkedUntouched
<1> QED BY <1>1, CallerKeepsParked, ExecuteKeepsParked, CloseKeepsParked DEF Next

-----------------------------------------------------------------------------
(* A parked caller's submission is pending or in a batch that will notify.  *)
Notifies(g) == phase[g] \notin {"idle", "send"}

Served(w) == w \in Pend(KeyOf[w]) \/ \E g \in Calls : w \in Bat(g) /\ Notifies(g)

LEMMA ServedIs == WaiterIsServed <=> \A w \in waiters : Served(w)
BY DEF WaiterIsServed, Served, Pend, Bat, Notifies

LEMMA StepKeepsServed ==
  ASSUME DebouncerTypeOK, TypeOK, PhaseInv, WaiterIsServed, [Next]_vars
  PROVE  WaiterIsServed'
<1> USE DebouncerAssumption, CoordinatorAssumption DEF TypeOK, Submissions
<1> SUFFICES \A w \in waiters' : Served(w)'
  BY DEF WaiterIsServed, Served, Pend, Bat, Notifies
<1>0. \A w \in waiters : w \in Calls /\ KeyOf[w] \in Keys /\ Served(w)
  BY ServedIs
<1>1. ASSUME NEW s \in Submissions, CallerStep(s) \/ ContextDone(s)
      PROVE  \A w \in waiters' : Served(w)'
  <2>1. CASE s \in Calls /\ Schedule(s)
    <3>1. Call(s) /\ waiters' = waiters \cup {s} /\ phase' = phase
      BY <2>1 DEF Schedule, executeVars
    <3> QED BY <2>1, <3>1, <1>0, CallEffect DEF Served, Notifies
  <2>2. CASE ~(s \in Calls /\ Schedule(s))
    <3>1. UNCHANGED debouncerVars /\ waiters' \subseteq waiters
      BY <1>1, <2>2 DEF CallerStep, Begin, BeginRefused, ScheduleRefused, Receive, Leave,
           RemoveWaiter, ContextDone
    <3>2. \A g \in Calls : phase'[g] = phase[g]
      BY <1>1, <2>2 DEF CallerStep, Begin, BeginRefused, ScheduleRefused, Receive, Leave,
           RemoveWaiter, ContextDone, executeVars
    <3> QED BY <3>1, <3>2, <1>0 DEF Served, Pend, Bat, Notifies, debouncerVars
  <2> QED BY <2>1, <2>2
<1>2. ASSUME NEW g \in Submissions, ExecuteStep(g) PROVE \A w \in waiters' : Served(w)'
  <2>1. CASE TakeWaiters(g)
    <3>1. /\ waiters' = waiters \ Bat(g) /\ UNCHANGED debouncerVars
          /\ \A h \in Calls \ {g} : phase'[h] = phase[h]
      BY <2>1 DEF TakeWaiters, Bat
    <3> QED BY <3>1, <1>0 DEF Served, Pend, Bat, Notifies, debouncerVars
  <2>2. CASE ~TakeWaiters(g)
    <3>1. UNCHANGED debouncerVars /\ waiters' = waiters
      BY <1>2, <2>2 DEF ExecuteStep, AcquireSlot, AcquireCancelled, RegisterRun, ExecuteReturns,
           UnregisterRun, ReleaseSlot, DirectReturns, SendResult, submitVars
    <3>2. \A h \in Calls : Notifies(h) => Notifies(h)'
      BY <1>2, <2>2 DEF ExecuteStep, AcquireSlot, AcquireCancelled, RegisterRun, ExecuteReturns,
           UnregisterRun, ReleaseSlot, DirectReturns, SendResult, Notifies
    <3> QED BY <3>1, <3>2, <1>0 DEF Served, Pend, Bat, debouncerVars
  <2> QED BY <2>1, <2>2
<1>3. ASSUME NEW c \in Calls, BatchStep(c) PROVE \A w \in waiters' : Served(w)'
  <2>1. CASE DebouncerStep(c)
    <3>1. UNCHANGED <<waiters, phase>>
      BY <2>1 DEF DebouncerStep, coordinatorVars, submitVars, executeVars
    <3> QED BY <2>1, <3>1, <1>0, QuietEffect DEF DebouncerStep, Served, Notifies
  <2>2. CASE StartBatch(c) \/ FinishBatch(c)
    <3>1. ~Notifies(c) /\ waiters' = waiters
      BY <2>2 DEF StartBatch, FlushTakes, FinishBatch, PhaseInv, Handling, Notifies, submitVars
    <3>2. \A g \in Calls \ {c} : Notifies(g)' <=> Notifies(g)
      BY <2>2 DEF StartBatch, FinishBatch, Notifies
    <3>3. CASE StartBatch(c) \/ FinishNext(c)
      <4>1. /\ entries' = [entries EXCEPT ![KeyOf[c]] = Taken(entries[KeyOf[c]])]
            /\ batch' = [batch EXCEPT ![c] = entries[KeyOf[c]].pending]
            /\ Notifies(c)'
        BY <2>2, <3>3 DEF StartBatch, FlushTakes, FinishBatch, FinishRun, FinishNext, Notifies,
             FinishIdle, FinishLeave, DebouncerTypeOK
      <4>2. /\ Bat(c)' = Pend(KeyOf[c]) /\ \A g \in Calls \ {c} : Bat(g)' = Bat(g)
            /\ \A k \in Keys \ {KeyOf[c]} : Pend(k)' = Pend(k)
        BY <4>1, TakeEffect
      <4>3. ASSUME NEW w \in waiters PROVE Served(w)'
        <5>1. CASE w \in Pend(KeyOf[c])
          BY <4>1, <4>2, <5>1 DEF Served
        <5>2. CASE w \notin Pend(KeyOf[c])
          <6>1. w \in Calls /\ KeyOf[w] \in Keys /\ Served(w)
            BY <1>0
          <6> QED BY <3>1, <3>2, <4>2, <5>2, <6>1 DEF Served
        <5> QED BY <5>1, <5>2
      <4> QED BY <3>1, <4>3
    <3>4. CASE FinishBatch(c) /\ (FinishIdle(c) \/ FinishLeave(c))
      BY <1>0, <3>1, <3>2, <3>4, LeaveEffect DEF Served
    <3> QED BY <2>2, <3>3, <3>4 DEF FinishBatch, FinishRun
  <2> QED BY <1>3, <2>1, <2>2 DEF BatchStep
<1>4. ASSUME NEW x \in Closers, Close(x) PROVE \A w \in waiters' : Served(w)'
  BY <1>4 DEF Close
<1>5. ASSUME \/ \E x \in Cancels : CancelLookup(x) \/ CancelCalls(x)
             \/ \E x \in Closers : CloseAgain(x) \/ CloseSends(x) \/ CloseReturns(x)
             \/ UNCHANGED vars
      PROVE  \A w \in waiters' : Served(w)'
  <2>1. UNCHANGED <<debouncerVars, waiters, phase>>
    BY <1>5 DEF CancelLookup, CancelCalls, CloseAgain, CloseSends, CloseReturns, vars,
         coordinatorVars, submitVars, executeVars
  <2> QED BY <2>1, <1>0 DEF Served, Pend, Bat, Notifies, debouncerVars
<1> QED BY <1>1, <1>2, <1>3, <1>4, <1>5 DEF Next, CloseStep

-----------------------------------------------------------------------------
(* Results: each submission is in one place, and gets one result there.     *)
IdleEmpty == \A c \in Calls : ~Handling(c) => batch[c] = <<>>

UnmadeFresh == \A c \in Calls : ~Made(c) => result[c] = "none"

PendFresh ==
  \A k \in Keys : \A s \in Pend(k) : KeyOf[s] = k /\ result[s] = "none" /\ Made(s)

BatResultOf(g, s) ==
  /\ KeyOf[s] = KeyOf[g] /\ Made(s) /\ s \notin Pend(KeyOf[g])
  /\ result[s] = IF Before(g) THEN "none" ELSE outcome[g]

BatResult == \A g \in Calls : \A s \in Bat(g) : BatResultOf(g, s)

ResultFacts == IdleEmpty /\ UnmadeFresh /\ PendFresh /\ BatResult

DirectFacts ==
  \A d \in Direct :
    IF phase[d] = "idle"
    THEN caller[d] = "idle" => result[d] = "none"
    ELSE result[d] = IF Before(d) THEN "none" ELSE outcome[d]

LEMMA ResultIs == ResultInv <=> ResultFacts /\ DirectFacts
BY DEF ResultInv, ResultFacts, IdleEmpty, UnmadeFresh, PendFresh, BatResult, BatResultOf,
   DirectFacts, Pend, Bat, Made

LEMMA ResultFrame ==
  ASSUME DebouncerTypeOK, ResultFacts,
         \A g \in Calls : /\ Handling(g)' <=> Handling(g)
                          /\ batch'[g] = batch[g] /\ Bat(g)' = Bat(g)
                          /\ Made(g)' <=> Made(g)
                          /\ Before(g)' <=> Before(g),
         \A k \in Keys : Pend(k)' \subseteq Pend(k),
         UNCHANGED <<result, outcome>>
  PROVE  ResultFacts'
<1> USE PendInCalls, DebouncerAssumption DEF ResultFacts, DebouncerTypeOK
<1>1. IdleEmpty'
  BY DEF IdleEmpty
<1>2. UnmadeFresh'
  BY DEF UnmadeFresh
<1>3. PendFresh'
  BY DEF PendFresh
<1>4. BatResult'
  BY DEF BatResult, BatResultOf
<1> QED BY <1>1, <1>2, <1>3, <1>4

(* Recording the outcome of a run touches its own submissions only.         *)
LEMMA RecordEffect ==
  ASSUME DebouncerTypeOK, DebouncerInv, TypeOK, PhaseInv, ResultFacts, DirectFacts,
         NEW g \in Submissions, Before(g), NEW o, Record(g, o)
  PROVE  /\ g \in Calls =>
              /\ \A s \in Bat(g) : result[s] = "none" /\ result'[s] = o
              /\ \A s \in Submissions \ Bat(g) : result'[s] = result[s]
              /\ \A h \in Calls \ {g} : Bat(h) \cap Bat(g) = {}
              /\ \A k \in Keys : Pend(k) \cap Bat(g) = {}
         /\ g \in Direct =>
              /\ result[g] = "none" /\ result'[g] = o
              /\ \A s \in Submissions \ {g} : result'[s] = result[s]
<1> USE DebouncerAssumption, CoordinatorAssumption DEF TypeOK, Submissions
<1>1. CASE g \in Calls
  <2>1. Range(Work(g)) = Bat(g) /\ Bat(g) \subseteq Calls
    BY <1>1, PendInCalls DEF Work, Bat
  <2>2. \A s \in Bat(g) : result[s] = "none" /\ KeyOf[s] = KeyOf[g] /\ s \notin Pend(KeyOf[g])
    BY <1>1 DEF ResultFacts, BatResult, BatResultOf
  <2>3. \A h \in Calls \ {g} : Bat(h) \cap Bat(g) = {}
    <3> SUFFICES ASSUME NEW h \in Calls \ {g}, NEW s \in Bat(h), s \in Bat(g) PROVE FALSE
      OBVIOUS
    <3>1. KeyOf[h] = KeyOf[g]
      BY <1>1 DEF ResultFacts, BatResult, BatResultOf
    <3>2. Handling(h)
      BY EmptyRange DEF ResultFacts, IdleEmpty, Bat
    <3>3. Handling(g)
      BY <1>1 DEF PhaseInv, Before
    <3> QED BY <1>1, <3>1, <3>2, <3>3 DEF DebouncerInv, OneHandlerPerKey
  <2>4. \A k \in Keys : Pend(k) \cap Bat(g) = {}
    BY <1>1, <2>2 DEF ResultFacts, PendFresh
  <2> QED BY <1>1, <2>1, <2>2, <2>3, <2>4 DEF Record
<1>2. CASE g \in Direct
  <2>1. Range(Work(g)) = {g}
    BY <1>2 DEF Work, Range
  <2> QED BY <1>2, <2>1 DEF Record, DirectFacts, Before
<1> QED BY <1>1, <1>2

LEMMA ExecuteKeepsResult ==
  ASSUME DebouncerTypeOK, DebouncerInv, TypeOK, PhaseInv, ResultFacts, DirectFacts,
         NEW g \in Submissions, ExecuteStep(g)
  PROVE  ResultFacts' /\ DirectFacts'
<1> USE DebouncerAssumption, CoordinatorAssumption DEF TypeOK, Submissions
<1>1. /\ UNCHANGED debouncerVars
      /\ \A h \in Calls : (Handling(h)' <=> Handling(h)) /\ batch'[h] = batch[h] /\ Bat(h)' = Bat(h)
      /\ \A c \in Calls : Made(c)' <=> Made(c)
      /\ \A k \in Keys : Pend(k)' = Pend(k)
  BY OutsideDebouncer DEF debouncerVars, Handling, Bat, Made, Pend
<1>2. CASE AcquireCancelled(g) \/ ExecuteReturns(g)
  <2>1. PICK o \in Outcomes : Record(g, o)
    BY <1>2 DEF AcquireCancelled, ExecuteReturns, Outcomes
  <2>2. Before(g) /\ ~Before(g)' /\ phase[g] # "idle" /\ phase'[g] # "idle"
    BY <1>2 DEF AcquireCancelled, ExecuteReturns, Before
  <2>3. outcome'[g] = o /\ \A h \in Submissions \ {g} :
          outcome'[h] = outcome[h] /\ phase'[h] = phase[h] /\ (Before(h)' <=> Before(h))
    BY <1>2, <2>1 DEF Record, AcquireCancelled, ExecuteReturns, Before
  <2>4. caller' = caller
    BY <1>2 DEF AcquireCancelled, ExecuteReturns, submitVars
  <2>5. CASE g \in Calls
    <3>1. /\ \A s \in Bat(g) : result'[s] = o /\ Made(s)
          /\ \A s \in Submissions \ Bat(g) : result'[s] = result[s]
          /\ \A h \in Calls \ {g} : Bat(h) \cap Bat(g) = {}
          /\ \A k \in Keys : Pend(k) \cap Bat(g) = {}
          /\ Bat(g) \subseteq Calls
      BY <2>1, <2>2, <2>5, RecordEffect, PendInCalls DEF ResultFacts, BatResult, BatResultOf
    <3>2. \A k \in Keys : \A s \in Pend(k) : result'[s] = result[s]
      BY <3>1, PendInCalls
    <3>3. \A h \in Calls \ {g} : \A s \in Bat(h) : result'[s] = result[s]
      BY <3>1, PendInCalls
    <3>4. ResultFacts'
      <4> USE <1>1 DEF ResultFacts
      <4>1. IdleEmpty'
        BY DEF IdleEmpty
      <4>2. UnmadeFresh'
        BY <3>1 DEF UnmadeFresh
      <4>3. PendFresh'
        BY <3>2, PendInCalls DEF PendFresh
      <4>4. \A s \in Bat(g) : result'[s] = IF Before(g)' THEN "none" ELSE outcome'[g]
        BY <2>2, <2>3, <3>1
      <4>5. ASSUME NEW h \in Calls, NEW s \in Bat(h) PROVE BatResultOf(h, s)'
        <5>1. s \in Calls /\ KeyOf[h] \in Keys /\ BatResultOf(h, s)
          BY PendInCalls DEF BatResult, DebouncerTypeOK
        <5>2. CASE h = g
          BY <4>4, <5>1, <5>2 DEF BatResultOf
        <5>3. CASE h # g
          BY <2>3, <3>3, <5>1, <5>3 DEF BatResultOf
        <5> QED BY <5>2, <5>3
      <4>6. BatResult'
        BY <4>5 DEF BatResult
      <4> QED BY <4>1, <4>2, <4>3, <4>6
    <3>5. DirectFacts'
      BY <2>3, <2>4, <2>5, <3>1 DEF DirectFacts
    <3> QED BY <3>4, <3>5
  <2>6. CASE g \in Direct
    <3>1. result'[g] = o /\ \A s \in Submissions \ {g} : result'[s] = result[s]
      BY <2>1, <2>2, <2>6, RecordEffect
    <3>2. ResultFacts'
      <4> USE <1>1, PendInCalls DEF ResultFacts
      <4>1. \A s \in Calls : result'[s] = result[s] /\ outcome'[s] = outcome[s] /\ (Before(s)' <=> Before(s))
        BY <2>3, <2>6, <3>1
      <4>2. IdleEmpty' /\ UnmadeFresh'
        BY <4>1 DEF IdleEmpty, UnmadeFresh
      <4>3. PendFresh'
        BY <4>1 DEF PendFresh
      <4>4. BatResult'
        BY <4>1 DEF BatResult, BatResultOf, DebouncerTypeOK
      <4> QED BY <4>2, <4>3, <4>4
    <3>3. DirectFacts'
      BY <2>2, <2>3, <2>4, <2>6, <3>1 DEF DirectFacts
    <3> QED BY <3>2, <3>3
  <2> QED BY <2>5, <2>6
<1>3. ASSUME ~(AcquireCancelled(g) \/ ExecuteReturns(g)) PROVE ResultFacts' /\ DirectFacts'
  <2>1. UNCHANGED <<result, outcome>>
    BY <1>3 DEF ExecuteStep, AcquireSlot, RegisterRun, UnregisterRun, ReleaseSlot, DirectReturns,
         TakeWaiters, SendResult
  <2>2. \A h \in Calls : Before(h)' <=> Before(h)
    BY <1>3 DEF ExecuteStep, AcquireSlot, RegisterRun, UnregisterRun, ReleaseSlot, DirectReturns,
         TakeWaiters, SendResult, Before
  <2>3. ResultFacts'
    BY <1>1, <2>1, <2>2, ResultFrame
  <2>4. DirectFacts'
    BY <1>3, <2>1 DEF ExecuteStep, AcquireSlot, RegisterRun, UnregisterRun, ReleaseSlot,
         DirectReturns, TakeWaiters, SendResult, Before, DirectFacts, PhaseInv, Return, submitVars
  <2> QED BY <2>3, <2>4
<1> QED BY <1>2, <1>3

LEMMA BatchKeepsResult ==
  ASSUME DebouncerTypeOK, DebouncerInv, TypeOK, PhaseInv, ResultFacts, NEW c \in Calls, BatchStep(c)
  PROVE  ResultFacts'
<1> USE DebouncerAssumption, CoordinatorAssumption DEF TypeOK, Submissions
<1>1. CASE DebouncerStep(c)
  <2>1. UNCHANGED <<result, outcome, phase>>
    BY <1>1 DEF DebouncerStep, coordinatorVars, executeVars
  <2>2. \A g \in Calls : Before(g)' <=> Before(g)
    BY <2>1 DEF Before
  <2> QED BY <1>1, <2>1, <2>2, QuietEffect, HandlersUnchanged, ResultFrame DEF DebouncerStep
<1>2. CASE StartBatch(c) \/ FinishBatch(c)
  <2>1. /\ UNCHANGED <<result, outcome>>
        /\ \A g \in Calls \ {c} : Before(g)' <=> Before(g)
    BY <1>2 DEF StartBatch, FinishBatch, Before
  <2>2. \A t \in Calls : Made(t)' <=> Made(t)
    BY <1>2 DEF StartBatch, FlushTakes, FinishBatch, FinishRun, FinishNext, FinishIdle,
         FinishLeave, Made, DebouncerTypeOK
  <2>3. \A g \in Calls \ {c} : (Handling(g)' <=> Handling(g)) /\ batch'[g] = batch[g]
    BY <1>2 DEF StartBatch, FlushTakes, FinishBatch, FinishRun, FinishNext, FinishIdle,
         FinishLeave, Handling, DebouncerTypeOK
  <2>4. CASE StartBatch(c) \/ FinishNext(c)
    <3>1. /\ entries' = [entries EXCEPT ![KeyOf[c]] = Taken(entries[KeyOf[c]])]
          /\ batch' = [batch EXCEPT ![c] = entries[KeyOf[c]].pending]
          /\ Before(c)' /\ Handling(c)'
      BY <1>2, <2>4 DEF StartBatch, FlushTakes, FinishBatch, FinishRun, FinishNext, Before,
           FinishIdle, FinishLeave, Handling, DebouncerTypeOK
    <3>2. /\ Bat(c)' = Pend(KeyOf[c]) /\ \A g \in Calls \ {c} : Bat(g)' = Bat(g)
          /\ Pend(KeyOf[c])' = {} /\ \A k \in Keys \ {KeyOf[c]} : Pend(k)' = Pend(k)
      BY <3>1, TakeEffect
    <3>3. KeyOf[c] \in Keys
      BY DEF DebouncerTypeOK
    <3> USE <2>1, <2>2, <2>3, <3>1, <3>2, <3>3, PendInCalls DEF ResultFacts
    <3>4. IdleEmpty' /\ UnmadeFresh'
      BY DEF IdleEmpty, UnmadeFresh
    <3>5. PendFresh'
      BY DEF PendFresh
    <3>6. ASSUME NEW g \in Calls, NEW s \in Bat(g)' PROVE BatResultOf(g, s)'
      <4>1. CASE g = c
        <5>1. s \in Pend(KeyOf[c]) /\ s \in Calls
          BY <4>1
        <5>2. KeyOf[s] = KeyOf[c] /\ Made(s) /\ result[s] = "none"
          BY <5>1 DEF PendFresh
        <5> QED BY <4>1, <5>1, <5>2 DEF BatResultOf
      <4>2. CASE g # c
        <5>1. s \in Bat(g) /\ s \in Calls /\ KeyOf[g] \in Keys /\ BatResultOf(g, s)
          BY <4>2 DEF BatResult, DebouncerTypeOK
        <5>2. Pend(KeyOf[g])' \subseteq Pend(KeyOf[g])
          BY <5>1
        <5> QED BY <4>2, <5>1, <5>2 DEF BatResultOf
      <4> QED BY <4>1, <4>2
    <3>7. BatResult'
      BY <3>6 DEF BatResult
    <3> QED BY <3>4, <3>5, <3>7
  <2>5. CASE FinishBatch(c) /\ (FinishIdle(c) \/ FinishLeave(c))
    <3>1. /\ batch'[c] = <<>> /\ Bat(c)' = {} /\ \A g \in Calls \ {c} : Bat(g)' = Bat(g)
          /\ \A k \in Keys : Pend(k)' = Pend(k)
      BY <2>5, LeaveEffect
    <3> USE <2>1, <2>2, <2>3, <3>1, PendInCalls DEF ResultFacts
    <3>2. IdleEmpty' /\ UnmadeFresh'
      BY DEF IdleEmpty, UnmadeFresh
    <3>3. PendFresh'
      BY DEF PendFresh
    <3>4. ASSUME NEW g \in Calls, NEW s \in Bat(g)' PROVE BatResultOf(g, s)'
      <4>1. g # c /\ s \in Bat(g) /\ s \in Calls /\ KeyOf[g] \in Keys /\ BatResultOf(g, s)
        BY DEF BatResult, DebouncerTypeOK
      <4> QED BY <4>1 DEF BatResultOf
    <3>5. BatResult'
      BY <3>4 DEF BatResult
    <3> QED BY <3>2, <3>3, <3>5
  <2> QED BY <1>2, <2>4, <2>5 DEF FinishBatch, FinishRun
<1> QED BY <1>1, <1>2 DEF BatchStep

LEMMA StepKeepsResult ==
  ASSUME DebouncerTypeOK, DebouncerInv, TypeOK, PhaseInv, ResultInv, [Next]_vars
  PROVE  ResultInv'
<1> USE DebouncerAssumption, CoordinatorAssumption DEF TypeOK, Submissions
<1>0. ResultFacts /\ DirectFacts
  BY ResultIs
<1> SUFFICES ResultFacts' /\ DirectFacts'
  BY DEF ResultInv, ResultFacts, IdleEmpty, UnmadeFresh, PendFresh, BatResult, BatResultOf,
   DirectFacts, Pend, Bat, Made
<1>1. ASSUME NEW s \in Submissions, CallerStep(s) \/ ContextDone(s)
      PROVE  ResultFacts' /\ DirectFacts'
  <2>1. UNCHANGED <<result, outcome>>
    BY <1>1 DEF CallerStep, Begin, BeginRefused, Schedule, ScheduleRefused, Receive, Leave,
         RemoveWaiter, ContextDone, executeVars
  <2>2. \A g \in Calls : phase'[g] = phase[g] /\ (Before(g)' <=> Before(g))
    BY <1>1 DEF CallerStep, Begin, BeginRefused, Schedule, ScheduleRefused, Receive, Leave,
         RemoveWaiter, ContextDone, executeVars, Before
  <2>3. DirectFacts'
    BY <1>0, <1>1, <2>1 DEF CallerStep, Begin, BeginRefused, Schedule, ScheduleRefused, Receive,
         Leave, RemoveWaiter, ContextDone, Return, executeVars, DirectFacts, Before, PhaseInv
  <2>4. CASE s \in Calls /\ Schedule(s)
    <3>1. Call(s)
      BY <2>4 DEF Schedule
    <3>2. \A g \in Calls : s \notin Bat(g)
      BY <1>0, <2>4, <3>1, CallEffect DEF ResultFacts, BatResult, BatResultOf
    <3>3. ResultFacts'
      <4>1. /\ Pend(KeyOf[s])' = Pend(KeyOf[s]) \cup {s}
            /\ \A k \in Keys \ {KeyOf[s]} : Pend(k)' = Pend(k)
            /\ \A g \in Calls : Bat(g)' = Bat(g) /\ (Handling(g)' <=> Handling(g))
            /\ batch' = batch
            /\ ~Made(s) /\ Made(s)' /\ \A t \in Calls \ {s} : Made(t)' <=> Made(t)
        BY <2>4, <3>1, CallEffect, HandlersUnchanged
      <4> USE <1>0, <2>1, <4>1, PendInCalls DEF ResultFacts
      <4>2. IdleEmpty' /\ UnmadeFresh'
        BY DEF IdleEmpty, UnmadeFresh
      <4>3. PendFresh'
        BY <2>4 DEF PendFresh, UnmadeFresh
      <4>4. BatResult'
        BY <2>2, <2>4, <3>2 DEF BatResult, BatResultOf, DebouncerTypeOK
      <4> QED BY <4>2, <4>3, <4>4
    <3> QED BY <2>3, <3>3
  <2>5. CASE ~(s \in Calls /\ Schedule(s))
    <3>1. UNCHANGED debouncerVars
      BY <1>1, <2>5, OutsideDebouncer DEF CallerStep
    <3>2. ResultFacts'
      BY <1>0, <2>1, <2>2, <3>1, ResultFrame DEF debouncerVars, Handling, Made, Pend, Bat
    <3> QED BY <2>3, <3>2
  <2> QED BY <2>4, <2>5
<1>2. ASSUME NEW g \in Submissions, ExecuteStep(g) PROVE ResultFacts' /\ DirectFacts'
  BY <1>0, <1>2, ExecuteKeepsResult
<1>3. ASSUME NEW c \in Calls, BatchStep(c) PROVE ResultFacts' /\ DirectFacts'
  <2>1. /\ UNCHANGED <<caller, result, outcome>>
        /\ \A d \in Direct : phase'[d] = phase[d]
    BY <1>3 DEF BatchStep, DebouncerStep, StartBatch, FinishBatch, coordinatorVars, submitVars,
         executeVars
  <2>2. DirectFacts'
    BY <1>0, <2>1 DEF DirectFacts, Before
  <2> QED BY <1>0, <1>3, <2>2, BatchKeepsResult
<1>4. ASSUME NEW x \in Closers, Close(x) PROVE ResultFacts' /\ DirectFacts'
  <2>1. CloseDebouncer /\ UNCHANGED <<caller, result, outcome, phase>>
    BY <1>4 DEF Close, executeVars
  <2>2. DirectFacts'
    BY <1>0, <2>1 DEF DirectFacts, Before
  <2>3. ResultFacts'
    BY <1>0, <2>1, CloseEffect, HandlersUnchanged, ResultFrame DEF Before
  <2> QED BY <2>2, <2>3
<1>5. ASSUME \/ \E x \in Cancels : CancelLookup(x) \/ CancelCalls(x)
             \/ \E x \in Closers : CloseAgain(x) \/ CloseSends(x) \/ CloseReturns(x)
             \/ UNCHANGED vars
      PROVE  ResultFacts' /\ DirectFacts'
  <2>1. UNCHANGED <<debouncerVars, caller, result, outcome, phase>>
    BY <1>5 DEF CancelLookup, CancelCalls, CloseAgain, CloseSends, CloseReturns, vars,
         coordinatorVars, submitVars, executeVars
  <2>2. ResultFacts'
    BY <1>0, <2>1, ResultFrame DEF debouncerVars, Handling, Made, Pend, Bat, Before
  <2> QED BY <1>0, <2>1, <2>2 DEF DirectFacts, Before
<1> QED BY <1>1, <1>2, <1>3, <1>4, <1>5 DEF Next, CloseStep

(* A step gives results only to submissions that have none.                 *)
LEMMA ResultsStay ==
  ASSUME DebouncerTypeOK, DebouncerInv, TypeOK, PhaseInv, ResultInv, [Next]_vars
  PROVE  \A s \in Submissions : result[s] # "none" => result'[s] = result[s]
<1>0. ResultFacts /\ DirectFacts
  BY ResultIs
<1>1. ASSUME NEW g \in Submissions, AcquireCancelled(g) \/ ExecuteReturns(g)
      PROVE  \A s \in Submissions : result[s] # "none" => result'[s] = result[s]
  <2>1. PICK o \in Outcomes : Record(g, o)
    BY <1>1 DEF AcquireCancelled, ExecuteReturns, Outcomes
  <2>2. Before(g)
    BY <1>1 DEF AcquireCancelled, ExecuteReturns, Before
  <2> QED BY <1>0, <2>1, <2>2, RecordEffect DEF Submissions
<1>2. ASSUME NEW g \in Submissions, ExecuteStep(g), ~(AcquireCancelled(g) \/ ExecuteReturns(g))
      PROVE  result' = result
  BY <1>2 DEF ExecuteStep, AcquireSlot, RegisterRun, UnregisterRun, ReleaseSlot, DirectReturns,
       TakeWaiters, SendResult
<1>3. ASSUME NEW s \in Submissions, CallerStep(s) \/ ContextDone(s) PROVE result' = result
  BY <1>3 DEF CallerStep, Begin, BeginRefused, Schedule, ScheduleRefused, Receive, Leave,
       RemoveWaiter, ContextDone, executeVars
<1>4. ASSUME \/ \E c \in Calls : BatchStep(c)
             \/ \E x \in Cancels : CancelLookup(x) \/ CancelCalls(x)
             \/ \E x \in Closers : CloseStep(x)
             \/ UNCHANGED vars
      PROVE  result' = result
  BY <1>4 DEF BatchStep, DebouncerStep, StartBatch, FinishBatch, CancelLookup, CancelCalls,
       CloseStep, Close, CloseAgain, CloseSends, CloseReturns, vars, coordinatorVars, executeVars
<1> QED BY <1>1, <1>2, <1>3, <1>4 DEF Next

-----------------------------------------------------------------------------
(* Answers                                                                  *)
OutboxInv ==
  \A g \in Calls : outbox[g] # {} => phase[g] = "send" /\ outbox[g] \subseteq Bat(g)

ChannelInv == \A w \in Calls : channel[w] \in Outcomes => channel[w] = result[w]

LEMMA AnswerIs == AnswerInv <=> OutboxInv /\ ChannelInv /\ AnswerIsRunResult
BY DEF AnswerInv, OutboxInv, ChannelInv, Bat

LEMMA StepKeepsOutbox ==
  ASSUME TypeOK, PhaseInv, OutboxInv, [Next]_vars
  PROVE  OutboxInv'
<1> USE DEF TypeOK, Submissions, OutboxInv
<1>1. ASSUME NEW g \in Submissions, ExecuteStep(g) PROVE OutboxInv'
  <2>1. \A h \in Calls : Bat(h)' = Bat(h)
    BY <1>1, OutsideDebouncer DEF debouncerVars, Bat
  <2>2. CASE TakeWaiters(g)
    BY <2>1, <2>2 DEF TakeWaiters, Bat
  <2>3. CASE SendResult(g)
    BY <2>1, <2>3 DEF SendResult
  <2>4. CASE ~TakeWaiters(g) /\ ~SendResult(g)
    <3>1. outbox' = outbox /\ phase[g] # "send" /\ \A h \in Calls \ {g} : phase'[h] = phase[h]
      BY <1>1, <2>4 DEF ExecuteStep, AcquireSlot, AcquireCancelled, RegisterRun, ExecuteReturns,
           UnregisterRun, ReleaseSlot, DirectReturns
    <3> QED BY <2>1, <3>1
  <2> QED BY <2>2, <2>3, <2>4
<1>2. ASSUME NEW s \in Submissions, CallerStep(s) \/ ContextDone(s) PROVE OutboxInv'
  <2>1. outbox' = outbox /\ \A h \in Calls : phase'[h] = phase[h]
    BY <1>2, CoordinatorAssumption DEF CallerStep, Begin, BeginRefused, Schedule, ScheduleRefused,
         Receive, Leave, RemoveWaiter, ContextDone, executeVars
  <2>2. batch' = batch
    BY <1>2 DEF CallerStep, Begin, BeginRefused, Schedule, Call, ScheduleRefused, Receive, Leave,
         RemoveWaiter, ContextDone, debouncerVars
  <2> QED BY <2>1, <2>2 DEF Bat
<1>3. ASSUME NEW c \in Calls, BatchStep(c) PROVE OutboxInv'
  <2>1. CASE DebouncerStep(c)
    <3>1. UNCHANGED <<outbox, phase>>
      BY <2>1 DEF DebouncerStep, coordinatorVars, executeVars
    <3> QED BY <2>1, <3>1, QuietEffect DEF DebouncerStep
  <2>2. CASE StartBatch(c) \/ FinishBatch(c)
    <3>1. outbox' = outbox /\ outbox[c] = {}
      BY <2>2 DEF StartBatch, FlushTakes, FinishBatch, PhaseInv, Handling
    <3>2. \A g \in Calls \ {c} : phase'[g] = phase[g] /\ Bat(g)' = Bat(g)
      BY <2>2 DEF StartBatch, FlushTakes, FinishBatch, FinishRun, FinishNext, FinishIdle,
           FinishLeave, Bat, DebouncerTypeOK
    <3> QED BY <3>1, <3>2
  <2> QED BY <1>3, <2>1, <2>2 DEF BatchStep
<1>4. ASSUME \/ \E x \in Cancels : CancelLookup(x) \/ CancelCalls(x)
             \/ \E x \in Closers : CloseStep(x)
             \/ UNCHANGED vars
      PROVE  OutboxInv'
  <2>1. UNCHANGED <<outbox, phase, batch>>
    BY <1>4 DEF CancelLookup, CancelCalls, CloseStep, Close, CloseDebouncer, CloseAgain,
         CloseSends, CloseReturns, vars, debouncerVars, coordinatorVars, executeVars
  <2> QED BY <2>1 DEF Bat
<1> QED BY <1>1, <1>2, <1>3, <1>4 DEF Next

LEMMA StepKeepsAnswer ==
  ASSUME DebouncerTypeOK, DebouncerInv, TypeOK, PhaseInv, ResultInv, AnswerInv, [Next]_vars
  PROVE  AnswerInv'
<1> USE DEF TypeOK, Submissions
<1>0. OutboxInv /\ ChannelInv /\ AnswerIsRunResult /\ ResultFacts /\ DirectFacts
  BY AnswerIs, ResultIs
<1>1. \A s \in Submissions : result[s] # "none" => result'[s] = result[s]
  BY ResultsStay
<1>2. "none" \notin Outcomes /\ "closed" \notin Outcomes /\ "empty" \notin Outcomes
      /\ "ctx" \notin Outcomes
  BY DEF Outcomes
<1>3. OutboxInv'
  BY <1>0, StepKeepsOutbox
<1>4. ASSUME UNCHANGED <<channel, answer>> PROVE ChannelInv' /\ AnswerIsRunResult'
  BY <1>0, <1>1, <1>2, <1>4 DEF ChannelInv, AnswerIsRunResult
<1>5. ASSUME NEW s \in Submissions, CallerStep(s) \/ ContextDone(s)
      PROVE  ChannelInv' /\ AnswerIsRunResult'
  <2>1. CASE Receive(s)
    <3>1. /\ channel' = [channel EXCEPT ![s] = "empty"] /\ answer' = [answer EXCEPT ![s] = channel[s]]
          /\ s \in Calls /\ result' = result
      BY <2>1 DEF Receive, Return, executeVars
    <3> QED BY <1>0, <1>2, <3>1 DEF ChannelInv, AnswerIsRunResult
  <2>2. CASE BeginRefused(s) \/ ScheduleRefused(s) \/ RemoveWaiter(s)
    <3>1. /\ channel' = channel /\ result' = result
          /\ answer'[s] \in {"closed", "ctx"} /\ \A t \in Submissions \ {s} : answer'[t] = answer[t]
      BY <2>2 DEF BeginRefused, ScheduleRefused, RemoveWaiter, Return, executeVars
    <3> QED BY <1>0, <1>2, <3>1 DEF ChannelInv, AnswerIsRunResult
  <2>3. CASE Begin(s) \/ (s \in Calls /\ Schedule(s)) \/ Leave(s) \/ ContextDone(s)
    BY <1>4, <2>3 DEF Begin, Schedule, Leave, ContextDone
  <2> QED BY <1>5, <2>1, <2>2, <2>3 DEF CallerStep
<1>6. ASSUME NEW g \in Submissions, ExecuteStep(g) PROVE ChannelInv' /\ AnswerIsRunResult'
  <2>1. CASE DirectReturns(g)
    <3>1. /\ channel' = channel /\ result' = result /\ answer' = [answer EXCEPT ![g] = outcome[g]]
          /\ result[g] = outcome[g]
      BY <1>0, <2>1 DEF DirectReturns, Return, DirectFacts, Before
    <3> QED BY <1>0, <3>1 DEF ChannelInv, AnswerIsRunResult
  <2>2. CASE SendResult(g)
    <3>1. PICK w \in outbox[g] : channel' = [channel EXCEPT ![w] = outcome[g]]
      BY <2>2 DEF SendResult
    <3>2. answer' = answer /\ result' = result /\ g \in Calls /\ phase[g] = "send"
      BY <2>2 DEF SendResult
    <3>3. w \in Calls /\ result[w] = outcome[g]
      <4>1. w \in Bat(g)
        BY <1>0, <3>1, <3>2 DEF OutboxInv
      <4> QED BY <1>0, <3>2, <4>1, PendInCalls DEF ResultFacts, BatResult, BatResultOf, Before
    <3> QED BY <1>0, <3>1, <3>2, <3>3 DEF ChannelInv, AnswerIsRunResult
  <2>3. CASE ~DirectReturns(g) /\ ~SendResult(g)
    BY <1>4, <1>6, <2>3 DEF ExecuteStep, AcquireSlot, AcquireCancelled, RegisterRun,
         ExecuteReturns, UnregisterRun, ReleaseSlot, TakeWaiters, submitVars
  <2> QED BY <2>1, <2>2, <2>3
<1>7. ASSUME NEW x \in Closers, CloseSends(x) PROVE ChannelInv' /\ AnswerIsRunResult'
  <2>1. PICK w \in closeOutbox[x] : channel' = [channel EXCEPT ![w] = "closed"]
    BY <1>7 DEF CloseSends
  <2>2. answer' = answer /\ result' = result
    BY <1>7 DEF CloseSends, executeVars
  <2> QED BY <1>0, <1>2, <2>1, <2>2 DEF ChannelInv, AnswerIsRunResult
<1>8. ASSUME \/ \E c \in Calls : BatchStep(c)
             \/ \E x \in Cancels : CancelLookup(x) \/ CancelCalls(x)
             \/ \E x \in Closers : Close(x) \/ CloseAgain(x) \/ CloseReturns(x)
             \/ UNCHANGED vars
      PROVE  ChannelInv' /\ AnswerIsRunResult'
  BY <1>4, <1>8 DEF BatchStep, DebouncerStep, StartBatch, FinishBatch, CancelLookup, CancelCalls,
       Close, CloseAgain, CloseReturns, vars, coordinatorVars, submitVars
<1>9. ChannelInv' /\ AnswerIsRunResult'
  BY <1>5, <1>6, <1>7, <1>8 DEF Next, CloseStep
<1> QED BY <1>3, <1>9 DEF AnswerInv, OutboxInv, ChannelInv, Bat

-----------------------------------------------------------------------------
(* The inductive invariant.                                                 *)
LEMMA CoordinatorInit ==
  Init /\ DebouncerTypeOK => TypeOK /\ CoordinatorInv /\ CancelStopsNamedRun
<1> SUFFICES ASSUME Init, DebouncerTypeOK
             PROVE  TypeOK /\ CoordinatorInv /\ CancelStopsNamedRun
  OBVIOUS
<1> USE DebouncerAssumption, CoordinatorAssumption DEF Init, Submissions
<1>1. TypeOK
  <2>1. canceller \in [Cancels -> CancelType]
    BY DEF CancelType
  <2> QED BY <2>1 DEF TypeOK, CallerState, Answers, PhaseState
<1>2. DebouncerInit /\ (\A k \in Keys : Pend(k) = {}) /\ (\A g \in Calls : Bat(g) = {})
      /\ (\A g \in Calls : batch[g] = <<>> /\ ~Handling(g)) /\ closed = FALSE
  BY EmptyRange DEF DebouncerInit, NoEntry, Pend, Bat, Handling
<1>3. PhaseInv /\ CancelInv /\ CancelStopsNamedRun
  BY <1>2 DEF PhaseInv, CancelInv, CancelStopsNamedRun
<1>4. ParkedInv
  BY DEF ParkedInv, Owed
<1>5. ResultInv
  <2>1. /\ IdleEmpty /\ UnmadeFresh
    BY <1>2 DEF IdleEmpty, UnmadeFresh
  <2>3. PendFresh /\ BatResult
    BY <1>2 DEF PendFresh, BatResult
  <2>4. ResultFacts
    BY <1>2, <2>1, <2>3 DEF ResultFacts
  <2>2. DirectFacts
    BY DEF DirectFacts
  <2> QED BY <2>2, <2>4, ResultIs
<1>6. AnswerInv
  BY DEF AnswerInv, AnswerIsRunResult, Outcomes
<1>7. SlotsCountRuns
  <2>1. {g \in Submissions : HoldsSlot(g)} = {}
    BY DEF HoldsSlot
  <2>2. Cardinality({}) = 0
    BY FS_EmptySet
  <2>3. slots = 0
    OBVIOUS
  <2>4. slots = Cardinality({g \in Submissions : HoldsSlot(g)})
    BY <2>1, <2>2, <2>3, Zenon
  <2>5. slots <= MaxConcurrency
    BY <2>3, CoordinatorAssumption DEF CoordinatorAssumption
  <2> QED BY <2>4, <2>5 DEF SlotsCountRuns
<1>8. ActiveRunIsExecuting
  BY DEF ActiveRunIsExecuting
<1>9. ClosedInv /\ WaiterIsServed /\ CloseDrainsCallers
  BY DEF ClosedInv, WaiterIsServed, CloseDrainsCallers
<1> QED BY <1>1, <1>3, <1>4, <1>5, <1>6, <1>7, <1>8, <1>9 DEF CoordinatorInv

LEMMA CoordinatorStep ==
  ASSUME DebouncerTypeOK, DebouncerInv, DebouncerTypeOK',
         TypeOK, CoordinatorInv, CancelStopsNamedRun, [Next]_vars
  PROVE  TypeOK' /\ CoordinatorInv' /\ CancelStopsNamedRun'
<1> USE DEF CoordinatorInv
<1>1. TypeOK'
  BY StepKeepsType
<1>2. PhaseInv'
  BY StepKeepsPhase
<1>3. SlotsCountRuns'
  BY StepKeepsSlots
<1>4. CancelInv' /\ CancelStopsNamedRun'
  BY StepKeepsCancel
<1>5. ClosedInv' /\ CloseDrainsCallers'
  BY StepKeepsClosed
<1>6. ActiveRunIsExecuting'
  BY StepKeepsActive
<1>7. ParkedInv'
  BY StepKeepsParked
<1>8. WaiterIsServed'
  BY StepKeepsServed
<1>9. ResultInv'
  BY StepKeepsResult
<1>10. AnswerInv'
  BY StepKeepsAnswer
<1> QED BY <1>1, <1>2, <1>3, <1>4, <1>5, <1>6, <1>7, <1>8, <1>9, <1>10

(* Types, and the invariant that ties callers, channels, goroutines, slots  *)
(* and results together, for all instances of the coordinator.              *)
THEOREM CoordinatorInvariant == Spec => [](TypeOK /\ CoordinatorInv /\ CancelStopsNamedRun)
<1> DEFINE I == TypeOK /\ CoordinatorInv /\ CancelStopsNamedRun
           D == DebouncerTypeOK /\ DebouncerInv
<1>1. Init /\ D => I
  BY CoordinatorInit
<1>2. D /\ D' /\ I /\ [Next]_vars => I'
  BY CoordinatorStep
<1>3. Spec => []D
  BY DebouncerFacts
<1> HIDE DEF I, D
<1>4. Spec => []I
  BY <1>1, <1>2, <1>3, PTL DEF Spec
<1> QED BY <1>4 DEF I

(* Every variable keeps its type; in particular slots never goes negative.  *)
THEOREM TypeCorrect == Spec => []TypeOK
BY CoordinatorInvariant, PTL

(* Runs of one session never overlap.                                       *)
THEOREM SessionsAreSerial == Spec => []SessionSerial
<1>1. DebouncerInv /\ CoordinatorInv => SessionSerial
  BY DEF DebouncerInv, OneHandlerPerKey, CoordinatorInv, PhaseInv, SessionSerial
<1> QED BY <1>1, DebouncerFacts, CoordinatorInvariant, PTL

(* The slots channel counts the executing runs, at most MaxConcurrency.     *)
THEOREM SlotsAreCounted == Spec => []SlotsCountRuns
<1>1. CoordinatorInv => SlotsCountRuns
  BY DEF CoordinatorInv
<1> QED BY <1>1, CoordinatorInvariant, PTL

(* A run is in activeRuns exactly while its executeFunc may be running.     *)
THEOREM ActiveRunsAreExecuting == Spec => []ActiveRunIsExecuting
<1>1. CoordinatorInv => ActiveRunIsExecuting
  BY DEF CoordinatorInv
<1> QED BY <1>1, CoordinatorInvariant, PTL

(* A Cancel stops the run it looked up and never its successor.             *)
THEOREM CancelStopsWhatItNamed == Spec => []CancelStopsNamedRun
BY CoordinatorInvariant, PTL

(* Sends to parked callers never block: at most one message per caller.     *)
THEOREM SendsNeverBlock == Spec => []SendNeverBlocks
<1>1. TypeOK /\ CoordinatorInv => SendNeverBlocks
  BY DEF TypeOK, CoordinatorInv, ParkedInv, Owed, SendNeverBlocks
<1> QED BY <1>1, CoordinatorInvariant, PTL

(* A parked caller is pending in the debouncer or about to be notified.     *)
THEOREM WaitersAreServed == Spec => []WaiterIsServed
<1>1. CoordinatorInv => WaiterIsServed
  BY DEF CoordinatorInv
<1> QED BY <1>1, CoordinatorInvariant, PTL

(* Submit returns the outcome of the run the submission was merged into.    *)
THEOREM AnswersAreResults == Spec => []AnswerIsRunResult
<1>1. CoordinatorInv => AnswerIsRunResult
  BY DEF CoordinatorInv, AnswerInv
<1> QED BY <1>1, CoordinatorInvariant, PTL

(* After Close has returned no Submit is running and none begins.           *)
THEOREM CloseDrains == Spec => []CloseDrainsCallers
<1>1. CoordinatorInv => CloseDrainsCallers
  BY DEF CoordinatorInv
<1> QED BY <1>1, CoordinatorInvariant, PTL

(* A submission is part of at most one executed run.                        *)
THEOREM SubmissionsRunOnce == Spec => RunOnce
<1>1. /\ DebouncerTypeOK /\ DebouncerInv /\ TypeOK /\ CoordinatorInv /\ [Next]_vars
      => [\A s \in Submissions : result[s] # "none" => result'[s] = result[s]]_vars
  BY ResultsStay DEF CoordinatorInv
<1> QED BY <1>1, DebouncerFacts, CoordinatorInvariant, PTL DEF Spec, RunOnce
=============================================================================
