---------------------- MODULE TrailingDebouncerProofs ----------------------
(***************************************************************************)
(* For every set of calls and keys, with and without a merge function: the *)
(* debouncer never runs two handlers for one key, never loses track of a   *)
(* pending value, never leaks an entry, and implements SerialBatches.      *)
(***************************************************************************)
EXTENDS TrailingDebouncer, SequenceTheorems, TLAPS

LEMMA MergedType ==
  ASSUME NEW q \in Seq(Calls), NEW c \in Calls
  PROVE  Merged(q, c) \in Seq(Calls) /\ Merged(q, c) # <<>>
<1>1. <<c>> \in Seq(Calls) /\ <<c>> # <<>>
  OBVIOUS
<1>2. Append(q, c) \in Seq(Calls) /\ Len(Append(q, c)) = Len(q) + 1
  OBVIOUS
<1>3. Append(q, c) # <<>>
  BY <1>2, EmptySeq, LenProperties
<1> QED BY <1>1, <1>2, <1>3 DEF Merged

(* The records the operations build are entries. *)
LEMMA EntryTypes ==
  /\ NoEntry \in EntryType
  /\ \A e \in EntryType :
       /\ Taken(e) \in EntryType
       /\ [e EXCEPT !.timer = NoCall] \in EntryType
       /\ [e EXCEPT !.running = FALSE] \in EntryType
  /\ \A e \in EntryType :
       /\ e.pending \in Seq(Calls)
       /\ e.timer \in Calls \cup {NoCall}
       /\ e.seq \in Nat
       /\ e.running \in BOOLEAN
<1>1. <<>> \in Seq(Calls)
  BY EmptySeq
<1>2. NoEntry \in EntryType
  BY <1>1 DEF NoEntry, EntryType
<1>3. ASSUME NEW e \in EntryType PROVE Taken(e) \in EntryType
  BY <1>1 DEF Taken, EntryType
<1> QED BY <1>2, <1>3 DEF EntryType

(* Every variable keeps its type. *)
THEOREM DebouncerTypeCorrect == DebouncerSpec => []DebouncerTypeOK
<1> USE DebouncerAssumption DEF DebouncerTypeOK, TaskState
<1>1. DebouncerInit => DebouncerTypeOK
  <2>1. NoEntry \in EntryType /\ <<>> \in Seq(Calls)
    BY EntryTypes, EmptySeq
  <2>2. ASSUME DebouncerInit PROVE entries \in [Keys -> EntryType]
    BY <2>1, <2>2 DEF DebouncerInit
  <2>3. ASSUME DebouncerInit PROVE batch \in [Calls -> Seq(Calls)]
    BY <2>1, <2>3, Zenon DEF DebouncerInit
  <2>4. ASSUME DebouncerInit PROVE task \in [Calls -> TaskState] /\ timerSeq \in [Calls -> Nat]
    BY <2>4 DEF DebouncerInit
  <2> QED BY <2>2, <2>3, <2>4 DEF DebouncerInit
<1>2. DebouncerTypeOK /\ [DebouncerNext]_debouncerVars => DebouncerTypeOK'
  <2> SUFFICES ASSUME DebouncerTypeOK, [DebouncerNext]_debouncerVars
               PROVE  DebouncerTypeOK'
    OBVIOUS
  <2>1. ASSUME NEW c \in Calls, Call(c) PROVE DebouncerTypeOK'
    <3> DEFINE e == entries[KeyOf[c]]
               new == [pending |-> Merged(e.pending, c), timer |-> c,
                       seq |-> e.seq + 1, running |-> e.running]
    <3>1. e \in EntryType /\ e.seq + 1 \in Nat
      BY EntryTypes
    <3>2. new \in EntryType
      BY <3>1, EntryTypes, MergedType DEF EntryType
    <3>3. entries' = [entries EXCEPT ![KeyOf[c]] = new]
      BY <2>1 DEF Call
    <3> HIDE DEF new
    <3>4. entries' \in [Keys -> EntryType]
      BY <3>2, <3>3
    <3> QED BY <2>1, <3>1, <3>4 DEF Call
  <2>2. ASSUME NEW c \in Calls, CallDropped(c) \/ Fire(c) \/ FlushStale(c)
        PROVE  DebouncerTypeOK'
    BY <2>2 DEF CallDropped, Fire, FlushStale
  <2>3. ASSUME NEW c \in Calls, FlushDeferred(c) PROVE DebouncerTypeOK'
    <3>1. entries' \in [Keys -> EntryType]
      BY <2>3, EntryTypes DEF FlushDeferred
    <3> QED BY <2>3, <3>1 DEF FlushDeferred
  <2>4. ASSUME NEW c \in Calls, FlushTakes(c) PROVE DebouncerTypeOK'
    <3>1. entries' \in [Keys -> EntryType]
      BY <2>4, EntryTypes DEF FlushTakes
    <3>2. batch' \in [Calls -> Seq(Calls)]
      BY <2>4, EntryTypes DEF FlushTakes
    <3> QED BY <2>4, <3>1, <3>2 DEF FlushTakes
  <2>5. ASSUME NEW c \in Calls, FinishRun(c) PROVE DebouncerTypeOK'
    <3>1. handled' \subseteq Calls
      BY <2>5, ElementOfSeq, LenProperties DEF FinishRun, Range
    <3>2. CASE FinishNext(c)
      <4>1. entries' \in [Keys -> EntryType] /\ batch' \in [Calls -> Seq(Calls)]
        BY <3>2, EntryTypes DEF FinishNext
      <4> QED BY <2>5, <3>1, <3>2, <4>1 DEF FinishRun, FinishNext
    <3>3. CASE FinishIdle(c)
      BY <2>5, <3>1, <3>3, EntryTypes, EmptySeq DEF FinishRun, FinishIdle
    <3>4. CASE FinishLeave(c)
      <4>1. entries' \in [Keys -> EntryType] /\ batch' \in [Calls -> Seq(Calls)]
        BY <3>4, EntryTypes, EmptySeq DEF FinishLeave
      <4> QED BY <2>5, <3>1, <3>4, <4>1 DEF FinishRun, FinishLeave
    <3> QED BY <2>5, <3>2, <3>3, <3>4 DEF FinishRun
  <2>6. CASE CloseDebouncer
    <3>1. entries' \in [Keys -> EntryType]
      BY <2>6, EntryTypes DEF CloseDebouncer
    <3> QED BY <2>6, <3>1 DEF CloseDebouncer
  <2>7. CASE UNCHANGED debouncerVars
    BY <2>7 DEF debouncerVars
  <2> QED BY <2>1, <2>2, <2>3, <2>4, <2>5, <2>6, <2>7 DEF DebouncerNext
<1> QED BY <1>1, <1>2, PTL DEF DebouncerSpec

-----------------------------------------------------------------------------
(* What a step that changes at most one entry, to a value that satisfies    *)
(* the per-entry parts, does to DebouncerInv, operation by operation.       *)
LEMMA CallKeepsInv ==
  ASSUME DebouncerTypeOK, DebouncerInv, NEW c \in Calls, Call(c)
  PROVE  DebouncerInv'
<1> USE DebouncerAssumption
<1> DEFINE k == KeyOf[c]
<1>1. /\ entries' = [entries EXCEPT ![k] =
                     [pending |-> Merged(entries[k].pending, c), timer |-> c,
                      seq |-> entries[k].seq + 1, running |-> entries[k].running]]
      /\ Merged(entries[k].pending, c) # <<>>
      /\ batch' = batch
  BY MergedType, EntryTypes DEF Call, DebouncerTypeOK
<1>2. /\ entries'[k].pending # <<>>
      /\ entries'[k].timer = c
      /\ entries'[k].seq = entries[k].seq + 1
      /\ entries'[k].running = entries[k].running
      /\ \A j \in Keys \ {k} : entries'[j] = entries[j]
  BY <1>1 DEF DebouncerTypeOK
<1>3. \A t \in Calls : Handling(t)' <=> Handling(t)
  BY DEF Call, Handling, DebouncerTypeOK
<1>4. OneHandlerPerKey'
  BY <1>3 DEF DebouncerInv, OneHandlerPerKey
<1>5. RunningFlag'
  BY <1>2, <1>3 DEF DebouncerInv, RunningFlag
<1>6. TimerLive'
  <2> SUFFICES ASSUME NEW j \in Keys, NEW t \in Calls, entries'[j].timer = t
               PROVE  /\ KeyOf[t] = j
                      /\ task'[t] \in {"armed", "fired"}
                      /\ timerSeq'[t] = entries'[j].seq
                      /\ entries'[j].pending # <<>>
    BY DEF TimerLive
  <2>1. CASE j = k
    BY <2>1, <1>2 DEF Call, DebouncerTypeOK
  <2>2. CASE j # k
    <3>1. /\ entries'[j] = entries[j]
          /\ KeyOf[t] = j
          /\ task[t] \in {"armed", "fired"}
          /\ timerSeq[t] = entries[j].seq
          /\ entries[j].pending # <<>>
      BY <2>2, <1>2 DEF DebouncerInv, TimerLive
    <3>2. t # c /\ t # entries[k].timer
      BY <3>1, <2>2 DEF DebouncerInv, TimerLive
    <3>3. task'[t] = task[t] /\ timerSeq'[t] = timerSeq[t]
      BY <3>2 DEF Call, DebouncerTypeOK
    <3> QED BY <3>1, <3>3
  <2> QED BY <2>1, <2>2
<1>7. PendingOwned' /\ NoLeakedEntry'
  BY <1>2 DEF DebouncerInv, PendingOwned, NoLeakedEntry
<1>8. BatchFull'
  BY <1>1, <1>3 DEF DebouncerInv, BatchFull
<1> QED BY <1>4, <1>5, <1>6, <1>7, <1>8 DEF DebouncerInv

(* Steps that touch no entry and start no handler. *)
LEMMA TimerStepKeepsInv ==
  ASSUME DebouncerTypeOK, DebouncerInv, NEW c \in Calls,
         CallDropped(c) \/ Fire(c) \/ FlushStale(c)
  PROVE  DebouncerInv'
<1>1. /\ UNCHANGED <<entries, timerSeq, batch>>
      /\ \A t \in Calls : t # c => task'[t] = task[t]
      /\ ~Handling(c) /\ ~Handling(c)'
  BY DEF CallDropped, Fire, FlushStale, DebouncerTypeOK, Handling
<1>2. \A t \in Calls : Handling(t)' <=> Handling(t)
  BY <1>1 DEF Handling
<1>3. TimerLive'
  <2> SUFFICES ASSUME NEW j \in Keys, NEW t \in Calls, entries[j].timer = t
               PROVE  task'[t] \in {"armed", "fired"}
    BY <1>1 DEF TimerLive, DebouncerInv
  <2>1. CASE t # c
    BY <2>1, <1>1 DEF TimerLive, DebouncerInv
  <2>2. CASE t = c
    <3>1. /\ KeyOf[c] = j
          /\ task[c] \in {"armed", "fired"}
          /\ timerSeq[c] = entries[j].seq
      BY <2>2 DEF DebouncerInv, TimerLive
    <3>2. Fire(c)
      BY <3>1 DEF CallDropped, FlushStale
    <3> QED BY <2>2, <3>2 DEF Fire, DebouncerTypeOK
  <2> QED BY <2>1, <2>2
<1> QED BY <1>1, <1>2, <1>3 DEF DebouncerInv, OneHandlerPerKey, RunningFlag,
           PendingOwned, NoLeakedEntry, BatchFull

LEMMA FlushDeferredKeepsInv ==
  ASSUME DebouncerTypeOK, DebouncerInv, NEW c \in Calls, FlushDeferred(c)
  PROVE  DebouncerInv'
<1> USE DebouncerAssumption
<1> DEFINE k == KeyOf[c]
<1>1. /\ entries' = [entries EXCEPT ![k].timer = NoCall]
      /\ UNCHANGED <<timerSeq, batch>>
      /\ \A t \in Calls : t # c => task'[t] = task[t]
      /\ ~Handling(c) /\ ~Handling(c)'
      /\ entries[k].running \/ entries[k].pending = <<>>
      /\ entries[k].seq = timerSeq[c]
  BY DEF FlushDeferred, DebouncerTypeOK, Handling
<1>2. /\ entries'[k].timer = NoCall
      /\ entries'[k].pending = entries[k].pending
      /\ entries'[k].seq = entries[k].seq
      /\ entries'[k].running = entries[k].running
      /\ \A j \in Keys \ {k} : entries'[j] = entries[j]
  BY <1>1, EntryTypes DEF DebouncerTypeOK, EntryType
<1>3. \A t \in Calls : Handling(t)' <=> Handling(t)
  BY <1>1 DEF Handling
<1>4. RunningFlag'
  BY <1>2, <1>3 DEF DebouncerInv, RunningFlag
<1>5. TimerLive'
  <2> SUFFICES ASSUME NEW j \in Keys, NEW t \in Calls, entries'[j].timer = t
               PROVE  /\ KeyOf[t] = j
                      /\ task'[t] \in {"armed", "fired"}
                      /\ timerSeq'[t] = entries'[j].seq
                      /\ entries'[j].pending # <<>>
    BY DEF TimerLive
  <2>1. j # k /\ entries[j].timer = t
    BY <1>2
  <2>2. KeyOf[t] = j /\ t # c
    BY <2>1 DEF DebouncerInv, TimerLive
  <2> QED BY <2>1, <2>2, <1>1, <1>2 DEF DebouncerInv, TimerLive
<1>6. PendingOwned' /\ NoLeakedEntry'
  BY <1>1, <1>2 DEF DebouncerInv, PendingOwned, NoLeakedEntry
<1> QED BY <1>1, <1>3, <1>4, <1>5, <1>6
        DEF DebouncerInv, OneHandlerPerKey, BatchFull

(* An entry taken by c's goroutine: c is the key's only handler.            *)
LEMMA TakeKeepsInv ==
  ASSUME DebouncerTypeOK, DebouncerInv, NEW c \in Calls,
         entries' = [entries EXCEPT ![KeyOf[c]] = Taken(entries[KeyOf[c]])],
         batch' = [batch EXCEPT ![c] = entries[KeyOf[c]].pending],
         task' = [task EXCEPT ![c] = "handling"],
         entries[KeyOf[c]].pending # <<>>,
         timerSeq' = timerSeq,
         entries[KeyOf[c]].running => Handling(c),
         task[c] = "fired" => timerSeq[c] = entries[KeyOf[c]].seq
  PROVE  DebouncerInv'
<1> USE DebouncerAssumption
<1> DEFINE k == KeyOf[c]
<1>1. /\ entries'[k].timer = NoCall
      /\ entries'[k].pending = <<>>
      /\ entries'[k].seq = entries[k].seq
      /\ entries'[k].running = TRUE
      /\ \A j \in Keys \ {k} : entries'[j] = entries[j]
  BY DEF Taken, DebouncerTypeOK, EntryType
<1>2. \A t \in Calls : t # c => task'[t] = task[t] /\ batch'[t] = batch[t]
  BY DEF DebouncerTypeOK
<1>3. Handling(c)' /\ \A t \in Calls : t # c => (Handling(t)' <=> Handling(t))
  BY <1>2 DEF Handling, DebouncerTypeOK
<1>4. \A t \in Calls : Handling(t) /\ KeyOf[t] = k => t = c
  BY DEF DebouncerInv, RunningFlag, OneHandlerPerKey
<1>5. OneHandlerPerKey'
  BY <1>3, <1>4 DEF DebouncerInv, OneHandlerPerKey
<1>6. RunningFlag'
  <2> SUFFICES ASSUME NEW j \in Keys
               PROVE  entries'[j].running <=> \E t \in Calls : Handling(t)' /\ KeyOf[t] = j
    BY DEF RunningFlag
  <2>1. CASE j = k
    BY <2>1, <1>1, <1>3
  <2>2. CASE j # k
    BY <2>2, <1>1, <1>3 DEF DebouncerInv, RunningFlag
  <2> QED BY <2>1, <2>2
<1>7. TimerLive'
  <2> SUFFICES ASSUME NEW j \in Keys, NEW t \in Calls, entries'[j].timer = t
               PROVE  /\ KeyOf[t] = j
                      /\ task'[t] \in {"armed", "fired"}
                      /\ timerSeq'[t] = entries'[j].seq
                      /\ entries'[j].pending # <<>>
    BY DEF TimerLive
  <2>1. j # k /\ entries[j].timer = t
    BY <1>1
  <2>2. /\ KeyOf[t] = j
        /\ task[t] \in {"armed", "fired"}
        /\ timerSeq[t] = entries[j].seq
        /\ entries[j].pending # <<>>
    BY <2>1 DEF DebouncerInv, TimerLive
  <2> QED BY <2>1, <2>2, <1>1, <1>2
<1>8. PendingOwned' /\ NoLeakedEntry'
  BY <1>1 DEF DebouncerInv, PendingOwned, NoLeakedEntry
<1>9. BatchFull'
  <2>1. batch'[c] # <<>>
    BY DEF DebouncerTypeOK
  <2> QED BY <2>1, <1>2, <1>3 DEF DebouncerInv, BatchFull
<1> QED BY <1>5, <1>6, <1>7, <1>8, <1>9 DEF DebouncerInv

(* The goroutine leaves the handler for good.                               *)
LEMMA LeaveKeepsInv ==
  ASSUME DebouncerTypeOK, DebouncerInv, NEW c \in Calls,
         FinishIdle(c) \/ FinishLeave(c), Handling(c), timerSeq' = timerSeq
  PROVE  DebouncerInv'
<1> USE DebouncerAssumption
<1> DEFINE k == KeyOf[c]
<1>1. /\ \A j \in Keys \ {k} : entries'[j] = entries[j]
      /\ ~entries'[k].running
      /\ \/ entries'[k] = NoEntry
         \/ /\ entries[k].timer # NoCall
            /\ entries'[k] = [entries[k] EXCEPT !.running = FALSE]
  <2>1. CASE FinishIdle(c)
    BY <2>1 DEF FinishIdle, DebouncerTypeOK, NoEntry
  <2>2. CASE FinishLeave(c)
    BY <2>2 DEF FinishLeave, DebouncerTypeOK, EntryType
  <2> QED BY <2>1, <2>2
<1>2. \A t \in Calls : t # c => task'[t] = task[t] /\ batch'[t] = batch[t]
  BY DEF DebouncerTypeOK, FinishIdle, FinishLeave
<1>3. ~Handling(c)' /\ \A t \in Calls : t # c => (Handling(t)' <=> Handling(t))
  BY <1>2 DEF Handling, DebouncerTypeOK, FinishIdle, FinishLeave
<1>4. \A t \in Calls : Handling(t)' => KeyOf[t] # k
  BY <1>3 DEF DebouncerInv, OneHandlerPerKey
<1>5. OneHandlerPerKey'
  BY <1>3 DEF DebouncerInv, OneHandlerPerKey
<1>6. RunningFlag'
  <2> SUFFICES ASSUME NEW j \in Keys
               PROVE  entries'[j].running <=> \E t \in Calls : Handling(t)' /\ KeyOf[t] = j
    BY DEF RunningFlag
  <2>1. CASE j = k
    BY <2>1, <1>1, <1>4
  <2>2. CASE j # k
    BY <2>2, <1>1, <1>3 DEF DebouncerInv, RunningFlag
  <2> QED BY <2>1, <2>2
<1>7. TimerLive'
  <2> SUFFICES ASSUME NEW j \in Keys, NEW t \in Calls, entries'[j].timer = t
               PROVE  /\ KeyOf[t] = j
                      /\ task'[t] \in {"armed", "fired"}
                      /\ timerSeq'[t] = entries'[j].seq
                      /\ entries'[j].pending # <<>>
    BY DEF TimerLive
  <2>0. entries'[j] # NoEntry
    BY DEF NoEntry
  <2>1. /\ entries[j].timer = t
        /\ entries'[j].seq = entries[j].seq
        /\ entries'[j].pending = entries[j].pending
    <3>1. CASE j = k
      BY <3>1, <2>0, <1>1 DEF DebouncerTypeOK, EntryType
    <3>2. CASE j # k
      BY <3>2, <1>1
    <3> QED BY <3>1, <3>2
  <2>2. /\ KeyOf[t] = j
        /\ task[t] \in {"armed", "fired"}
        /\ timerSeq[t] = entries[j].seq
        /\ entries[j].pending # <<>>
    BY <2>1 DEF DebouncerInv, TimerLive
  <2>3. t # c
    BY <2>2 DEF Handling
  <2> QED BY <2>1, <2>2, <2>3, <1>2
<1>8. PendingOwned' /\ NoLeakedEntry'
  <2> SUFFICES ASSUME NEW j \in Keys
               PROVE  /\ entries'[j].pending # <<>> =>
                           entries'[j].timer # NoCall \/ entries'[j].running
                      /\ entries'[j].seq > 0 =>
                           entries'[j].pending # <<>> \/ entries'[j].running
    BY DEF PendingOwned, NoLeakedEntry
  <2>1. CASE entries'[j] = NoEntry
    BY <2>1 DEF NoEntry
  <2>2. CASE j # k
    BY <2>2, <1>1 DEF DebouncerInv, PendingOwned, NoLeakedEntry
  <2>3. CASE j = k /\ entries'[k] # NoEntry
    <3>1. entries[k].timer # NoCall /\ entries'[k] = [entries[k] EXCEPT !.running = FALSE]
      BY <2>3, <1>1
    <3>2. entries[k].timer \in Calls
      BY <3>1 DEF DebouncerTypeOK, EntryType
    <3>3. entries[k].pending # <<>>
      BY <3>2 DEF DebouncerInv, TimerLive
    <3> QED BY <2>3, <3>1, <3>3 DEF DebouncerTypeOK, EntryType
  <2> QED BY <2>1, <2>2, <2>3
<1>9. BatchFull'
  BY <1>2, <1>3 DEF DebouncerInv, BatchFull
<1> QED BY <1>5, <1>6, <1>7, <1>8, <1>9 DEF DebouncerInv

LEMMA CloseKeepsInv ==
  ASSUME DebouncerTypeOK, DebouncerInv, CloseDebouncer
  PROVE  DebouncerInv'
<1> USE DebouncerAssumption
<1>1. \A j \in Keys :
        \/ ~entries[j].running /\ entries'[j] = NoEntry
        \/ /\ entries[j].running /\ entries'[j].running
           /\ entries'[j].timer = NoCall
           /\ entries'[j].seq = entries[j].seq
  BY DEF CloseDebouncer, DebouncerTypeOK, EntryType
<1>2. \A t \in Calls : Handling(t)' <=> Handling(t)
  BY DEF Handling, CloseDebouncer, DebouncerTypeOK
<1>3. \A j \in Keys : entries'[j].timer = NoCall
                     /\ (entries'[j].running <=> entries[j].running)
  BY <1>1 DEF NoEntry, DebouncerTypeOK, EntryType
<1>4. RunningFlag' /\ TimerLive'
  BY <1>2, <1>3 DEF DebouncerInv, RunningFlag, TimerLive
<1>5. PendingOwned' /\ NoLeakedEntry'
  BY <1>1 DEF PendingOwned, NoLeakedEntry, NoEntry
<1>6. OneHandlerPerKey' /\ BatchFull'
  BY <1>2 DEF DebouncerInv, OneHandlerPerKey, BatchFull, CloseDebouncer
<1> QED BY <1>4, <1>5, <1>6 DEF DebouncerInv

LEMMA FinishRunKeepsInv ==
  ASSUME DebouncerTypeOK, DebouncerInv, NEW c \in Calls, FinishRun(c)
  PROVE  DebouncerInv'
<1>1. Handling(c) /\ timerSeq' = timerSeq
  BY DEF FinishRun, Handling
<1>2. CASE FinishNext(c)
  <2>1. task' = [task EXCEPT ![c] = "handling"]
    BY <1>1, <1>2 DEF FinishNext, Handling, DebouncerTypeOK
  <2> QED BY <1>1, <1>2, <2>1, TakeKeepsInv DEF FinishNext, Handling
<1>3. CASE FinishIdle(c) \/ FinishLeave(c)
  BY <1>1, <1>3, LeaveKeepsInv
<1> QED BY <1>2, <1>3 DEF FinishRun

LEMMA DebouncerInvInductive ==
  DebouncerTypeOK /\ DebouncerInv /\ [DebouncerNext]_debouncerVars => DebouncerInv'
<1> SUFFICES ASSUME DebouncerTypeOK, DebouncerInv, [DebouncerNext]_debouncerVars
             PROVE  DebouncerInv'
  OBVIOUS
<1>1. ASSUME NEW c \in Calls, FlushTakes(c) PROVE DebouncerInv'
  <2>1. ~entries[KeyOf[c]].running /\ task[c] = "fired"
    BY <1>1 DEF FlushTakes
  <2> QED BY <1>1, <2>1, TakeKeepsInv DEF FlushTakes
<1>2. CASE UNCHANGED debouncerVars
  BY <1>2 DEF debouncerVars, DebouncerInv, OneHandlerPerKey, RunningFlag, TimerLive,
              PendingOwned, NoLeakedEntry, BatchFull, Handling
<1> QED BY <1>1, <1>2, CallKeepsInv, TimerStepKeepsInv, FlushDeferredKeepsInv,
           FinishRunKeepsInv, CloseKeepsInv DEF DebouncerNext

LEMMA DebouncerInvInit == DebouncerInit => DebouncerInv
<1> USE DebouncerAssumption
<1> SUFFICES ASSUME DebouncerInit PROVE DebouncerInv
  OBVIOUS
<1>1. \A k \in Keys : entries[k] = NoEntry
  BY DEF DebouncerInit
<1>2. \A c \in Calls : ~Handling(c)
  BY DEF DebouncerInit, Handling
<1> QED BY <1>1, <1>2 DEF DebouncerInv, OneHandlerPerKey, RunningFlag, TimerLive,
           PendingOwned, NoLeakedEntry, BatchFull, NoEntry

(* The inductive invariant holds in every reachable state. *)
THEOREM DebouncerInvariant == DebouncerSpec => []DebouncerInv
BY DebouncerTypeCorrect, DebouncerInvInit, DebouncerInvInductive, PTL DEF DebouncerSpec

(* No key ever has two handlers at work. *)
THEOREM HandlersSerialPerKey == DebouncerSpec => []OneHandlerPerKey
<1>1. DebouncerInv => OneHandlerPerKey
  BY DEF DebouncerInv
<1> QED BY <1>1, DebouncerInvariant, PTL

(* No pending value is ever without somebody who will take it. *)
THEOREM PendingNeverStranded == DebouncerSpec => []PendingHasTaker
<1>1. DebouncerTypeOK /\ DebouncerInv => PendingHasTaker
  <2> SUFFICES ASSUME DebouncerTypeOK, DebouncerInv, NEW k \in Keys,
                      entries[k].pending # <<>>
               PROVE  \/ /\ entries[k].timer \in Calls
                         /\ task[entries[k].timer] \in {"armed", "fired"}
                         /\ timerSeq[entries[k].timer] = entries[k].seq
                      \/ \E c \in Calls : Handling(c) /\ KeyOf[c] = k
    BY DEF PendingHasTaker
  <2>1. CASE entries[k].running
    BY <2>1 DEF DebouncerInv, RunningFlag
  <2>2. CASE entries[k].timer # NoCall
    <3>1. entries[k].timer \in Calls
      BY <2>2, EntryTypes DEF DebouncerTypeOK
    <3> QED BY <3>1 DEF DebouncerInv, TimerLive
  <2> QED BY <2>1, <2>2 DEF DebouncerInv, PendingOwned
<1> QED BY <1>1, DebouncerTypeCorrect, DebouncerInvariant, PTL

(* The entries map never keeps a key nobody uses. *)
THEOREM EntriesNeverLeak == DebouncerSpec => []NoLeakedEntry
<1>1. DebouncerInv => NoLeakedEntry
  BY DEF DebouncerInv
<1> QED BY <1>1, DebouncerInvariant, PTL

-----------------------------------------------------------------------------
(* The refinement.  The batch an abstract key is working on is the batch of *)
(* the one goroutine that handles it.                                       *)
LEMMA HandledBatchIs ==
  ASSUME NEW tasks, NEW batches, NEW c \in Calls, tasks[c] = "handling",
         \A d \in Calls : tasks[d] = "handling" /\ KeyOf[d] = KeyOf[c] => d = c
  PROVE  HandledBatch(tasks, batches, KeyOf[c]) = batches[c]
<1> DEFINE d == CHOOSE x \in Calls : tasks[x] = "handling" /\ KeyOf[x] = KeyOf[c]
<1>1. d \in Calls /\ tasks[d] = "handling" /\ KeyOf[d] = KeyOf[c]
  OBVIOUS
<1>2. d = c
  BY <1>1
<1> QED BY <1>2 DEF HandledBatch

LEMMA CurrentIsBatch ==
  ASSUME OneHandlerPerKey, NEW c \in Calls, Handling(c)
  PROVE  CurrentBatch(KeyOf[c]) = batch[c]
BY HandledBatchIs DEF CurrentBatch, OneHandlerPerKey, Handling

LEMMA CurrentIsBatchNext ==
  ASSUME OneHandlerPerKey', NEW c \in Calls, Handling(c)'
  PROVE  CurrentBatch(KeyOf[c])' = batch'[c]
BY HandledBatchIs DEF CurrentBatch, OneHandlerPerKey, Handling

LEMMA CurrentIsEmpty ==
  ASSUME OneHandlerPerKey, RunningFlag, BatchFull, NEW k \in Keys
  PROVE  CurrentBatch(k) = <<>> <=> ~entries[k].running
<1>1. CASE entries[k].running
  <2>1. PICK c \in Calls : Handling(c) /\ KeyOf[c] = k
    BY <1>1 DEF RunningFlag
  <2> QED BY <1>1, <2>1, CurrentIsBatch DEF BatchFull
<1>2. CASE ~entries[k].running
  BY <1>2 DEF RunningFlag, CurrentBatch, HandledBatch, Handling
<1> QED BY <1>1, <1>2

(* A key none of whose goroutines enters or leaves the handler keeps its    *)
(* current batch.                                                           *)
LEMMA CurrentUnchanged ==
  ASSUME OneHandlerPerKey, OneHandlerPerKey', NEW k \in Keys,
         \A c \in Calls : KeyOf[c] = k =>
            (Handling(c)' <=> Handling(c)) /\ batch'[c] = batch[c]
  PROVE  CurrentBatch(k)' = CurrentBatch(k)
<1>1. CASE \E c \in Calls : Handling(c) /\ KeyOf[c] = k
  <2>1. PICK c \in Calls : Handling(c) /\ KeyOf[c] = k
    BY <1>1
  <2>2. Handling(c)' /\ batch'[c] = batch[c]
    BY <2>1
  <2> QED BY <2>1, <2>2, CurrentIsBatch, CurrentIsBatchNext
<1>2. CASE ~ \E c \in Calls : Handling(c) /\ KeyOf[c] = k
  BY <1>2 DEF CurrentBatch, HandledBatch, Handling
<1> QED BY <1>1, <1>2

(* A step after which every key has the batch it had: what the abstract     *)
(* specification calls UNCHANGED current.                                   *)
LEMMA AllCurrentUnchanged ==
  ASSUME OneHandlerPerKey, OneHandlerPerKey',
         \A c \in Calls : (Handling(c)' <=> Handling(c)) /\ batch'[c] = batch[c]
  PROVE  [k \in Keys |-> CurrentBatch(k)]' = [k \in Keys |-> CurrentBatch(k)]
<1>1. \A k \in Keys : CurrentBatch(k)' = CurrentBatch(k)
  BY CurrentUnchanged
<1> QED BY <1>1

(* Entering or leaving the handler of key k changes the batch of k alone.   *)
LEMMA OneCurrentChanges ==
  ASSUME OneHandlerPerKey, OneHandlerPerKey', NEW c \in Calls, NEW b,
         \A d \in Calls : d # c => (Handling(d)' <=> Handling(d)) /\ batch'[d] = batch[d],
         CurrentBatch(KeyOf[c])' = b
  PROVE  [k \in Keys |-> CurrentBatch(k)]' =
           [[k \in Keys |-> CurrentBatch(k)] EXCEPT ![KeyOf[c]] = b]
<1>1. \A k \in Keys : k # KeyOf[c] => CurrentBatch(k)' = CurrentBatch(k)
  BY CurrentUnchanged
<1> QED BY <1>1

LEMMA InitRefines == DebouncerInit => Promise!Init
<1> SUFFICES ASSUME DebouncerInit PROVE Promise!Init
  OBVIOUS
<1>1. {c \in Calls : task[c] # "none"} = {}
  BY DEF DebouncerInit
<1>2. [k \in Keys |-> entries[k].pending] = [k \in Keys |-> <<>>]
  BY DEF DebouncerInit, NoEntry
<1>3. [k \in Keys |-> CurrentBatch(k)] = [k \in Keys |-> <<>>]
  BY DEF DebouncerInit, CurrentBatch, HandledBatch
<1> QED BY <1>1, <1>2, <1>3 DEF DebouncerInit, Promise!Init

LEMMA CallRefines ==
  ASSUME DebouncerTypeOK, DebouncerInv, DebouncerInv', NEW c \in Calls, Call(c)
  PROVE  Promise!Accept(c)
<1> USE DebouncerAssumption
<1>1. \A d \in Calls : (Handling(d)' <=> Handling(d)) /\ batch'[d] = batch[d]
  BY DEF Call, Handling, DebouncerTypeOK
<1>2. [k \in Keys |-> CurrentBatch(k)]' = [k \in Keys |-> CurrentBatch(k)]
  BY <1>1, AllCurrentUnchanged DEF DebouncerInv
<1>3. c \notin {d \in Calls : task[d] # "none"}
  BY DEF Call
<1>4. {d \in Calls : task'[d] # "none"} = {d \in Calls : task[d] # "none"} \cup {c}
  BY DEF Call, DebouncerTypeOK
<1>5. [k \in Keys |-> entries'[k].pending] =
        [[k \in Keys |-> entries[k].pending] EXCEPT ![KeyOf[c]] =
           IF HasMerge THEN Append(@, c) ELSE <<c>>]
  <2>1. \A k \in Keys : entries'[k].pending =
          IF k = KeyOf[c] THEN Merged(entries[k].pending, c) ELSE entries[k].pending
    BY DEF Call, DebouncerTypeOK
  <2> QED BY <2>1 DEF Merged
<1> QED BY <1>2, <1>3, <1>4, <1>5 DEF Call, Promise!Accept

LEMMA DropRefines ==
  ASSUME DebouncerTypeOK, DebouncerInv, DebouncerInv', NEW c \in Calls, CallDropped(c)
  PROVE  Promise!Drop(c)
<1>1. \A d \in Calls : (Handling(d)' <=> Handling(d)) /\ batch'[d] = batch[d]
  BY DEF CallDropped, Handling, DebouncerTypeOK
<1>2. [k \in Keys |-> CurrentBatch(k)]' = [k \in Keys |-> CurrentBatch(k)]
  BY <1>1, AllCurrentUnchanged DEF DebouncerInv
<1>3. c \notin {d \in Calls : task[d] # "none"}
  BY DEF CallDropped
<1>4. {d \in Calls : task'[d] # "none"} = {d \in Calls : task[d] # "none"} \cup {c}
  BY DEF CallDropped, DebouncerTypeOK
<1> QED BY <1>2, <1>3, <1>4 DEF CallDropped, Promise!Drop

LEMMA TimerRefines ==
  ASSUME DebouncerTypeOK, DebouncerInv, DebouncerInv', NEW c \in Calls,
         Fire(c) \/ FlushStale(c) \/ FlushDeferred(c)
  PROVE  UNCHANGED Promise!vars
<1> USE DebouncerAssumption
<1>1. \A d \in Calls : (Handling(d)' <=> Handling(d)) /\ batch'[d] = batch[d]
  BY DEF Fire, FlushStale, FlushDeferred, Handling, DebouncerTypeOK
<1>2. [k \in Keys |-> CurrentBatch(k)]' = [k \in Keys |-> CurrentBatch(k)]
  BY <1>1, AllCurrentUnchanged DEF DebouncerInv
<1>3. {d \in Calls : task'[d] # "none"} = {d \in Calls : task[d] # "none"}
  BY DEF Fire, FlushStale, FlushDeferred, DebouncerTypeOK
<1>4. \A k \in Keys : entries'[k].pending = entries[k].pending
  <2>1. CASE FlushDeferred(c)
    BY <2>1 DEF FlushDeferred, DebouncerTypeOK, EntryType
  <2>2. CASE entries' = entries
    BY <2>2
  <2> QED BY <2>1, <2>2 DEF Fire, FlushStale
<1>5. closed' = closed /\ handled' = handled
  BY DEF Fire, FlushStale, FlushDeferred
<1> QED BY <1>2, <1>3, <1>4, <1>5 DEF Promise!vars

LEMMA StartRefines ==
  ASSUME DebouncerTypeOK, DebouncerInv, DebouncerInv', NEW c \in Calls, FlushTakes(c)
  PROVE  Promise!Start(KeyOf[c])
<1> USE DebouncerAssumption
<1> DEFINE k == KeyOf[c]
<1>1. /\ entries' = [entries EXCEPT ![k] = Taken(entries[k])]
      /\ ~entries[k].running
      /\ entries[k].pending # <<>>
      /\ batch'[c] = entries[k].pending
      /\ Handling(c)'
  BY DEF FlushTakes, Handling, DebouncerTypeOK
<1>2. \A d \in Calls : d # c => (Handling(d)' <=> Handling(d)) /\ batch'[d] = batch[d]
  BY DEF FlushTakes, Handling, DebouncerTypeOK
<1>3. CurrentBatch(k)' = entries[k].pending
  BY <1>1, CurrentIsBatchNext DEF DebouncerInv
<1>4. [j \in Keys |-> CurrentBatch(j)]' =
        [[j \in Keys |-> CurrentBatch(j)] EXCEPT ![k] = entries[k].pending]
  BY <1>2, <1>3, OneCurrentChanges DEF DebouncerInv
<1>5. CurrentBatch(k) = <<>>
  BY <1>1, CurrentIsEmpty DEF DebouncerInv
<1>6. [j \in Keys |-> entries'[j].pending] =
        [[j \in Keys |-> entries[j].pending] EXCEPT ![k] = <<>>]
  BY <1>1 DEF Taken, DebouncerTypeOK, EntryType
<1>7. {d \in Calls : task'[d] # "none"} = {d \in Calls : task[d] # "none"}
  BY DEF FlushTakes, DebouncerTypeOK
<1> QED BY <1>1, <1>4, <1>5, <1>6, <1>7 DEF FlushTakes, Promise!Start

LEMMA FinishRefines ==
  ASSUME DebouncerTypeOK, DebouncerInv, DebouncerInv', NEW c \in Calls, FinishRun(c)
  PROVE  Promise!Finish(KeyOf[c]) \/ Promise!Handoff(KeyOf[c])
<1> USE DebouncerAssumption
<1> DEFINE k == KeyOf[c]
           q == entries[k].pending
<1>1. Handling(c) /\ UNCHANGED closed /\ handled' = handled \cup Range(batch[c])
  BY DEF FinishRun, Handling
<1>2. CurrentBatch(k) = batch[c] /\ batch[c] # <<>>
  BY <1>1, CurrentIsBatch DEF DebouncerInv, BatchFull
<1>3. /\ \A d \in Calls : d # c => (Handling(d)' <=> Handling(d)) /\ batch'[d] = batch[d]
      /\ {d \in Calls : task'[d] # "none"} = {d \in Calls : task[d] # "none"}
  BY <1>1 DEF FinishRun, FinishNext, FinishIdle, FinishLeave, Handling, DebouncerTypeOK
<1> DEFINE cur == [j \in Keys |-> CurrentBatch(j)]
           wait == [j \in Keys |-> entries[j].pending]
<1>6. /\ cur[k] = batch[c]
      /\ cur[k] # <<>>
      /\ handled' = handled \cup Promise!Range(cur[k])
      /\ wait[k] = q
  BY <1>1, <1>2 DEF Range, Promise!Range
<1>4. CASE FinishNext(c)
  <2>1. batch'[c] = q /\ Handling(c)' /\ q # <<>>
    BY <1>1, <1>4 DEF FinishNext, Handling, DebouncerTypeOK
  <2>2. CurrentBatch(k)' = q
    BY <2>1, CurrentIsBatchNext DEF DebouncerInv
  <2>3. [j \in Keys |-> CurrentBatch(j)]' = [[j \in Keys |-> CurrentBatch(j)] EXCEPT ![k] = q]
    BY <1>3, <2>2, OneCurrentChanges DEF DebouncerInv
  <2>4. [j \in Keys |-> entries'[j].pending] =
          [[j \in Keys |-> entries[j].pending] EXCEPT ![k] = <<>>]
    BY <1>4 DEF FinishNext, Taken, DebouncerTypeOK, EntryType
  <2>5. wait[k] # <<>> /\ cur' = [cur EXCEPT ![k] = wait[k]] /\ wait' = [wait EXCEPT ![k] = <<>>]
    BY <1>6, <2>1, <2>3, <2>4
  <2> HIDE DEF cur, wait
  <2>6. Promise!Handoff(k)
    BY <1>1, <1>6, <1>3, <2>5 DEF Promise!Handoff, cur, wait
  <2> QED BY <2>6
<1>5. CASE FinishIdle(c) \/ FinishLeave(c)
  <2>1. ~Handling(c)'
    BY <1>5 DEF FinishIdle, FinishLeave, Handling, DebouncerTypeOK
  <2>2. \A d \in Calls : Handling(d)' => KeyOf[d] # k
    BY <1>1, <1>3, <2>1 DEF DebouncerInv, OneHandlerPerKey
  <2>3. CurrentBatch(k)' = <<>>
    BY <2>2 DEF CurrentBatch, HandledBatch, Handling
  <2>4. [j \in Keys |-> CurrentBatch(j)]' = [[j \in Keys |-> CurrentBatch(j)] EXCEPT ![k] = <<>>]
    BY <1>3, <2>3, OneCurrentChanges DEF DebouncerInv
  <2>5. \A j \in Keys : entries'[j].pending = entries[j].pending
    <3>1. CASE FinishIdle(c)
      <4>1. entries'[k] = NoEntry /\ entries[k].pending = <<>>
        BY <3>1 DEF FinishIdle, DebouncerTypeOK
      <4>2. \A j \in Keys \ {k} : entries'[j] = entries[j]
        BY <3>1 DEF FinishIdle, DebouncerTypeOK
      <4> QED BY <4>1, <4>2 DEF NoEntry
    <3>2. CASE FinishLeave(c)
      BY <3>2 DEF FinishLeave, DebouncerTypeOK, EntryType
    <3> QED BY <1>5, <3>1, <3>2
  <2>6. Promise!Finish(k)
    <3>1. wait' = wait /\ cur' = [cur EXCEPT ![k] = <<>>]
      BY <2>4, <2>5
    <3> QED BY <1>1, <1>6, <1>3, <3>1 DEF Promise!Finish
  <2> QED BY <2>6
<1> QED BY <1>4, <1>5 DEF FinishRun

LEMMA CloseRefines ==
  ASSUME DebouncerTypeOK, DebouncerInv, DebouncerInv', CloseDebouncer
  PROVE  Promise!Stop
<1> USE DebouncerAssumption
<1>1. \A d \in Calls : (Handling(d)' <=> Handling(d)) /\ batch'[d] = batch[d]
  BY DEF CloseDebouncer, Handling, DebouncerTypeOK
<1>2. [k \in Keys |-> CurrentBatch(k)]' = [k \in Keys |-> CurrentBatch(k)]
  BY <1>1, AllCurrentUnchanged DEF DebouncerInv
<1>3. {d \in Calls : task'[d] # "none"} = {d \in Calls : task[d] # "none"}
  BY DEF CloseDebouncer, DebouncerTypeOK
<1>4. \A k \in Keys : entries'[k].pending =
        IF CurrentBatch(k) = <<>> THEN <<>> ELSE entries[k].pending
  <2> SUFFICES ASSUME NEW k \in Keys
               PROVE  entries'[k].pending =
                        IF entries[k].running THEN entries[k].pending ELSE <<>>
    BY CurrentIsEmpty DEF DebouncerInv
  <2> QED BY DEF CloseDebouncer, NoEntry, DebouncerTypeOK, EntryType
<1>5. [k \in Keys |-> entries'[k].pending] =
        [k \in Keys |-> IF [j \in Keys |-> CurrentBatch(j)][k] = <<>> THEN <<>>
                        ELSE [j \in Keys |-> entries[j].pending][k]]
  BY <1>4
<1> QED BY <1>2, <1>3, <1>5 DEF CloseDebouncer, Promise!Stop

(* The debouncer implements SerialBatches: calls of a key run in call       *)
(* order, in batches, one batch at a time, each call in at most one batch.  *)
THEOREM DebouncerImplementsSerialBatches == DebouncerSpec => KeepsPromise
<1> USE DebouncerAssumption
<1>1. ASSUME DebouncerTypeOK, DebouncerInv, DebouncerInv', [DebouncerNext]_debouncerVars
      PROVE  [Promise!Next]_Promise!vars
  <2>1. ASSUME NEW c \in Calls,
               Call(c) \/ CallDropped(c) \/ Fire(c) \/ FlushStale(c)
                 \/ FlushDeferred(c) \/ FlushTakes(c) \/ FinishRun(c)
        PROVE  [Promise!Next]_Promise!vars
    <3>1. KeyOf[c] \in Keys
      OBVIOUS
    <3> QED BY <1>1, <2>1, <3>1, CallRefines, DropRefines, TimerRefines, StartRefines,
               FinishRefines DEF Promise!Next
  <2>2. CASE CloseDebouncer
    BY <1>1, <2>2, CloseRefines DEF Promise!Next
  <2>3. CASE UNCHANGED debouncerVars
    BY <2>3 DEF debouncerVars, Promise!vars, CurrentBatch
  <2> QED BY <1>1, <2>1, <2>2, <2>3 DEF DebouncerNext
<1> QED BY <1>1, InitRefines, DebouncerTypeCorrect, DebouncerInvariant, PTL
        DEF DebouncerSpec, KeepsPromise, Promise!Spec
=============================================================================
