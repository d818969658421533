------------------------- MODULE TrailingDebouncer -------------------------
(***************************************************************************)
(* backend/pkg/utils/trailing_debouncer.go: a keyed trailing-edge debouncer *)
(* built from a mutex, a map of entries and one time.AfterFunc timer per    *)
(* Call.  Every critical section of TrailingDebouncer.mu is one action.     *)
(*                                                                         *)
(* A Call, the timer it arms and the goroutine that timer starts share one  *)
(* identity: the goroutine of call c is the one that runs flush(key, seq)   *)
(* when c's timer fires.  A value is the sequence of calls merged into it.  *)
(* Real time is abstracted: an armed timer may fire at any moment, and a    *)
(* fired goroutine may reach the lock at any later moment.                  *)
(***************************************************************************)
EXTENDS Naturals, Sequences, Functions

CONSTANTS
  Calls,      \* invocations of Call, each made at most once
  Keys,       \* debounce keys
  KeyOf,      \* the key each call names
  NoCall,     \* nil
  HasMerge    \* whether a MergeFunc is configured

ASSUME DebouncerAssumption ==
  /\ KeyOf \in [Calls -> Keys]
  /\ NoCall \notin Calls
  /\ HasMerge \in BOOLEAN

VARIABLES
  entries,    \* the entries map; a record with seq 0 stands for no entry
  closed,     \* TrailingDebouncer.closed
  task,       \* the timer of each call, then its goroutine
  timerSeq,   \* the seq each timer's closure captured
  batch,      \* the value the goroutine's handler is working on
  handled     \* history: calls whose batch a handler has returned from

debouncerVars == <<entries, closed, task, timerSeq, batch, handled>>

NoEntry == [pending |-> <<>>, timer |-> NoCall, seq |-> 0, running |-> FALSE]

EntryType == [pending : Seq(Calls), timer : Calls \cup {NoCall},
              seq : Nat, running : BOOLEAN]

TaskState == {"none",      \* Call not made yet
              "dropped",   \* Call found the debouncer closed
              "armed",     \* timer running
              "stopped",   \* timer stopped before it fired
              "fired",     \* goroutine started, flush has not got the lock
              "handling",  \* inside run
              "done"}

DebouncerInit ==
  /\ entries = [k \in Keys |-> NoEntry]
  /\ closed = FALSE
  /\ task = [c \in Calls |-> "none"]
  /\ timerSeq = [c \in Calls |-> 0]
  /\ batch = [c \in Calls |-> <<>>]
  /\ handled = {}

-----------------------------------------------------------------------------
(* Call on an open debouncer: merge or replace, bump seq, stop the key's    *)
(* previous timer if it has not fired, arm a new one.                       *)
\* Mutant: merges the incoming value in front of the pending one.
MergedInFront(q, c) == IF HasMerge THEN <<c>> \o q ELSE <<c>>

Merged(q, c) == IF HasMerge THEN Append(q, c) ELSE <<c>>

Call(c) ==
  LET k == KeyOf[c]
      e == entries[k]
  IN  /\ task[c] = "none"
      /\ ~closed
      /\ entries' = [entries EXCEPT ![k] =
                       [pending |-> Merged(e.pending, c), timer |-> c,
                        seq |-> e.seq + 1, running |-> e.running]]
      /\ timerSeq' = [timerSeq EXCEPT ![c] = e.seq + 1]
      /\ task' = [t \in Calls |->
                    IF t = c THEN "armed"
                    ELSE IF t = e.timer /\ task[t] = "armed" THEN "stopped"
                    ELSE task[t]]
      /\ UNCHANGED <<closed, batch, handled>>

(* Call on a closed debouncer returns without a word. *)
CallDropped(c) ==
  /\ task[c] = "none"
  /\ closed
  /\ task' = [task EXCEPT ![c] = "dropped"]
  /\ UNCHANGED <<entries, closed, timerSeq, batch, handled>>

(* The timer of call c expires and starts its goroutine. *)
Fire(c) ==
  /\ task[c] = "armed"
  /\ task' = [task EXCEPT ![c] = "fired"]
  /\ UNCHANGED <<entries, closed, timerSeq, batch, handled>>

-----------------------------------------------------------------------------
(* takeReady, its three outcomes.  A missing entry has seq 0, which no      *)
(* timer captured, so it is a mismatch too.                                 *)
FlushStale(c) ==
  /\ task[c] = "fired"
  /\ entries[KeyOf[c]].seq # timerSeq[c]
  /\ task' = [task EXCEPT ![c] = "done"]
  /\ UNCHANGED <<entries, closed, timerSeq, batch, handled>>

(* The key's handler is running: leave the value to finishRun. *)
FlushDeferred(c) ==
  LET e == entries[KeyOf[c]]
  IN  /\ task[c] = "fired"
      /\ e.seq = timerSeq[c]
      /\ e.running \/ e.pending = <<>>
      /\ entries' = [entries EXCEPT ![KeyOf[c]].timer = NoCall]
      /\ task' = [task EXCEPT ![c] = "done"]
      /\ UNCHANGED <<closed, timerSeq, batch, handled>>

(* takePendingLocked *)
\* Mutant: does not clear the pending value it takes.
TakenNotCleared(e) == [e EXCEPT !.timer = NoCall, !.running = TRUE]

Taken(e) == [e EXCEPT !.timer = NoCall, !.pending = <<>>, !.running = TRUE]

\* Mutant: does not look at the running flag.
FlushTakesWhileRunning(c) ==
  LET e == entries[KeyOf[c]]
  IN  /\ task[c] = "fired"
      /\ e.seq = timerSeq[c]
      /\ e.pending # <<>>
      /\ entries' = [entries EXCEPT ![KeyOf[c]] = Taken(e)]
      /\ task' = [task EXCEPT ![c] = "handling"]
      /\ batch' = [batch EXCEPT ![c] = e.pending]
      /\ UNCHANGED <<closed, timerSeq, handled>>

FlushTakes(c) ==
  LET e == entries[KeyOf[c]]
  IN  /\ task[c] = "fired"
      /\ e.seq = timerSeq[c]
      /\ ~e.running
      /\ e.pending # <<>>
      /\ entries' = [entries EXCEPT ![KeyOf[c]] = Taken(e)]
      /\ task' = [task EXCEPT ![c] = "handling"]
      /\ batch' = [batch EXCEPT ![c] = e.pending]
      /\ UNCHANGED <<closed, timerSeq, handled>>

-----------------------------------------------------------------------------
(* finishRun, called by run after each handler call, its three outcomes:    *)
(* take what was left by a deferred flush, delete an idle entry, or leave   *)
(* the entry to its own timer.                                              *)
\* Mutant: the handler's goroutine ends without looking for deferred work.
FinishNextForgets(c) ==
  LET e == entries[KeyOf[c]]
  IN  /\ e.pending # <<>>
      /\ e.timer = NoCall
      /\ entries' = [entries EXCEPT ![KeyOf[c]].running = FALSE]
      /\ batch' = [batch EXCEPT ![c] = <<>>]
      /\ task' = [task EXCEPT ![c] = "done"]

FinishNext(c) ==
  LET e == entries[KeyOf[c]]
  IN  /\ e.pending # <<>>
      /\ e.timer = NoCall
      /\ entries' = [entries EXCEPT ![KeyOf[c]] = Taken(e)]
      /\ batch' = [batch EXCEPT ![c] = e.pending]
      /\ UNCHANGED task

FinishIdle(c) ==
  LET e == entries[KeyOf[c]]
  IN  /\ e.pending = <<>>
      /\ e.timer = NoCall
      /\ entries' = [entries EXCEPT ![KeyOf[c]] = NoEntry]
      /\ batch' = [batch EXCEPT ![c] = <<>>]
      /\ task' = [task EXCEPT ![c] = "done"]

FinishLeave(c) ==
  /\ entries[KeyOf[c]].timer # NoCall
  /\ entries' = [entries EXCEPT ![KeyOf[c]].running = FALSE]
  /\ batch' = [batch EXCEPT ![c] = <<>>]
  /\ task' = [task EXCEPT ![c] = "done"]

FinishRun(c) ==
  /\ task[c] = "handling"
  /\ FinishNext(c) \/ FinishIdle(c) \/ FinishLeave(c)
  /\ handled' = handled \cup Range(batch[c])
  /\ UNCHANGED <<closed, timerSeq>>

(* Close: stop every timer an entry still points to, forget the entries     *)
(* whose handler is not running.                                            *)
CloseDebouncer ==
  /\ ~closed
  /\ closed' = TRUE
  /\ entries' = [k \in Keys |-> IF entries[k].running
                                THEN [entries[k] EXCEPT !.timer = NoCall]
                                ELSE NoEntry]
  /\ task' = [t \in Calls |->
                IF task[t] = "armed" /\ entries[KeyOf[t]].timer = t
                THEN "stopped" ELSE task[t]]
  /\ UNCHANGED <<timerSeq, batch, handled>>

DebouncerNext ==
  \/ \E c \in Calls : \/ Call(c) \/ CallDropped(c) \/ Fire(c)
                      \/ FlushStale(c) \/ FlushDeferred(c) \/ FlushTakes(c)
                      \/ FinishRun(c)
  \/ CloseDebouncer

DebouncerSpec == DebouncerInit /\ [][DebouncerNext]_debouncerVars

-----------------------------------------------------------------------------
DebouncerTypeOK ==
  /\ entries \in [Keys -> EntryType]
  /\ closed \in BOOLEAN
  /\ task \in [Calls -> TaskState]
  /\ timerSeq \in [Calls -> Nat]
  /\ batch \in [Calls -> Seq(Calls)]
  /\ handled \subseteq Calls

Handling(c) == task[c] = "handling"

(* The handler is never entered for a key while an earlier invocation for   *)
(* that key has not returned, whatever the timers do (running flag,         *)
(* takeReady and finishRun).                                                *)
OneHandlerPerKey ==
  \A c, d \in Calls : Handling(c) /\ Handling(d) /\ KeyOf[c] = KeyOf[d] => c = d

(* A pending value always has somebody who will take it: the key's own      *)
(* timer, armed or fired with the entry's current seq, or the goroutine     *)
(* that is inside the handler.  Losing track of it would strand the caller. *)
PendingHasTaker ==
  \A k \in Keys :
    LET e == entries[k]
    IN  e.pending # <<>> =>
          \/ /\ e.timer \in Calls
             /\ task[e.timer] \in {"armed", "fired"}
             /\ timerSeq[e.timer] = e.seq
          \/ \E c \in Calls : Handling(c) /\ KeyOf[c] = k

(* finishRun deletes an entry as soon as nothing keeps it: the map does not *)
(* grow with keys nobody uses any more.                                     *)
NoLeakedEntry ==
  \A k \in Keys : entries[k].seq > 0 => entries[k].pending # <<>> \/ entries[k].running

(* The inductive strengthening of the invariants above: the running flag is *)
(* set exactly while a handler works for the key, a non-nil timer field is  *)
(* a live timer of the key with the current seq and a value to flush, and a *)
(* pending value waits for that timer or for the running handler.           *)
RunningFlag ==
  \A k \in Keys : entries[k].running <=> \E c \in Calls : Handling(c) /\ KeyOf[c] = k

TimerLive ==
  \A k \in Keys, t \in Calls :
    entries[k].timer = t => /\ KeyOf[t] = k
                            /\ task[t] \in {"armed", "fired"}
                            /\ timerSeq[t] = entries[k].seq
                            /\ entries[k].pending # <<>>

PendingOwned ==
  \A k \in Keys : entries[k].pending # <<>> => entries[k].timer # NoCall \/ entries[k].running

BatchFull == \A c \in Calls : Handling(c) => batch[c] # <<>>

DebouncerInv ==
  /\ OneHandlerPerKey
  /\ RunningFlag
  /\ TimerLive
  /\ PendingOwned
  /\ NoLeakedEntry
  /\ BatchFull

(* The debouncer implements SerialBatches.                                  *)
HandledBatch(tasks, batches, k) ==
  IF \E c \in Calls : tasks[c] = "handling" /\ KeyOf[c] = k
  THEN batches[CHOOSE c \in Calls : tasks[c] = "handling" /\ KeyOf[c] = k]
  ELSE <<>>

CurrentBatch(k) == HandledBatch(task, batch, k)

Promise == INSTANCE SerialBatches WITH
  called  <- {c \in Calls : task[c] # "none"},
  waiting <- [k \in Keys |-> entries[k].pending],
  current <- [k \in Keys |-> CurrentBatch(k)],
  stopped <- closed

KeepsPromise == Promise!Spec
=============================================================================
