--------------------------- MODULE SerialBatches ---------------------------
(***************************************************************************)
(* What a keyed trailing debouncer promises to its callers, with no timer, *)
(* no goroutine and no map of entries: per key, accepted calls queue up,   *)
(* the whole queue becomes one batch, batches of a key run one at a time   *)
(* and in call order, and a call is in at most one batch.                  *)
(* TrailingDebouncer implements this specification.                        *)
(***************************************************************************)
EXTENDS Sequences, Functions

CONSTANTS
  Calls,     \* invocations of Call, each made at most once
  Keys,      \* debounce keys
  KeyOf,     \* the key a call names
  HasMerge   \* TRUE: calls accumulate; FALSE: the latest call replaces

VARIABLES
  called,    \* calls made so far
  waiting,   \* per key, the accepted calls no batch has taken
  current,   \* per key, the batch its handler is working on, or <<>>
  handled,   \* calls whose batch the handler has returned from
  stopped    \* Close has been called

vars == <<called, waiting, current, handled, stopped>>

Init ==
  /\ called = {}
  /\ waiting = [k \in Keys |-> <<>>]
  /\ current = [k \in Keys |-> <<>>]
  /\ handled = {}
  /\ stopped = FALSE

(* A call joins (or, without merge, replaces) the queue of its key. *)
Accept(c) ==
  /\ c \notin called
  /\ ~stopped
  /\ called' = called \cup {c}
  /\ waiting' = [waiting EXCEPT ![KeyOf[c]] =
                   IF HasMerge THEN Append(@, c) ELSE <<c>>]
  /\ UNCHANGED <<current, handled, stopped>>

(* A call made after Close is dropped. *)
Drop(c) ==
  /\ c \notin called
  /\ stopped
  /\ called' = called \cup {c}
  /\ UNCHANGED <<waiting, current, handled, stopped>>

(* The whole queue of an idle key becomes its batch. *)
Start(k) ==
  /\ current[k] = <<>>
  /\ waiting[k] # <<>>
  /\ current' = [current EXCEPT ![k] = waiting[k]]
  /\ waiting' = [waiting EXCEPT ![k] = <<>>]
  /\ UNCHANGED <<called, handled, stopped>>

(* The handler returns and the key becomes idle. *)
Finish(k) ==
  /\ current[k] # <<>>
  /\ current' = [current EXCEPT ![k] = <<>>]
  /\ handled' = handled \cup Range(current[k])
  /\ UNCHANGED <<called, waiting, stopped>>

(* The handler returns and at once starts on what queued up meanwhile. *)
Handoff(k) ==
  /\ current[k] # <<>>
  /\ waiting[k] # <<>>
  /\ handled' = handled \cup Range(current[k])
  /\ current' = [current EXCEPT ![k] = waiting[k]]
  /\ waiting' = [waiting EXCEPT ![k] = <<>>]
  /\ UNCHANGED <<called, stopped>>

(* Close forgets the queue of every key whose handler is not running. *)
Stop ==
  /\ ~stopped
  /\ stopped' = TRUE
  /\ waiting' = [k \in Keys |-> IF current[k] = <<>> THEN <<>> ELSE waiting[k]]
  /\ UNCHANGED <<called, current, handled>>

Next ==
  \/ \E c \in Calls : Accept(c) \/ Drop(c)
  \/ \E k \in Keys : Start(k) \/ Finish(k) \/ Handoff(k)
  \/ Stop

Spec == Init /\ [][Next]_vars
=============================================================================
