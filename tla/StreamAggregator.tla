-------------------------- MODULE StreamAggregator --------------------------
(***************************************************************************)
(* The StreamAggregator of backend/pkg/llmprotocol: it stands between the  *)
(* adapter of the model's provider and the adapter of the client, and      *)
(* completes the life cycle of the streamed items.  An event is a record   *)
(* of what its handlers look at; the text it carries is left out.  The     *)
(* slice a handler returns is what it appends to emitted; the loop of      *)
(* handleDone over the open items is the action CloseItem.                 *)
(***************************************************************************)
EXTENDS Integers, Sequences

CONSTANT Indices          \* the output indices of a stream

ASSUME IndicesAssumption == Indices \subseteq Nat /\ 0 \in Indices

Kinds == {"text", "tool_call", "reasoning"}
StopReasons == {"", "end_turn", "tool_use", "max_tokens"}
EventTypes == {"message_start", "content_part_start", "content_part_delta",
               "content_part_stop", "message_delta", "done", "error"}

\* body: the part of a start event carries the provider's data for its kind.
Event == [type: EventTypes, index: Indices, kind: Kinds \cup {"unknown"},
          stop: StopReasons, usage: BOOLEAN, body: BOOLEAN]

Bare(type, i, kind) ==
  [type |-> type, index |-> i, kind |-> kind,
   stop |-> "", usage |-> FALSE, body |-> FALSE]

VARIABLES
  responseStarted,        \* response.created has been sent
  items,                  \* the type of each item, "absent" before it is added
  stopped,                \* the items whose stop has been sent
  stopReason, usage,      \* the last ones the provider reported
  finishing,              \* handleDone is closing the open items
  doneSent,
  emitted                 \* the events handed to the client's adapter

aggVars == <<responseStarted, items, stopped, stopReason, usage, finishing,
             doneSent, emitted>>

AggTypeOK ==
  /\ responseStarted \in BOOLEAN
  /\ items \in [Indices -> Kinds \cup {"unknown", "absent"}]
  /\ stopped \subseteq Indices
  /\ stopReason \in StopReasons /\ usage \in BOOLEAN
  /\ finishing \in BOOLEAN /\ doneSent \in BOOLEAN
  /\ emitted \in Seq(Event)

AggInit ==
  /\ responseStarted = FALSE
  /\ items = [i \in Indices |-> "absent"]
  /\ stopped = {}
  /\ stopReason = "" /\ usage = FALSE
  /\ finishing = FALSE /\ doneSent = FALSE
  /\ emitted = <<>>

Created == Bare("message_start", 0, "unknown")
Stop(i) == Bare("content_part_stop", i, "unknown")

\* synthesizeOutputItemAdded: an item of unknown type is started as text.
ItemAdded(i, kind) ==
  Bare("content_part_start", i, IF kind = "unknown" THEN "text" ELSE kind)

Preamble == IF responseStarted THEN <<>> ELSE <<Created>>

\* ensureItem.  Every caller marks the item as added before it returns, so an
\* item that is present has been added.
EnsureItem(i, kind) ==
  items' = [items EXCEPT ![i] = IF @ \in {"absent", "unknown"} THEN kind ELSE @]

AddedFirst(i, kind) ==
  IF items[i] = "absent" THEN <<ItemAdded(i, kind)>> ELSE <<>>

HandleMessageStart(e) ==
  /\ responseStarted' = TRUE
  /\ emitted' = Append(emitted, e)
  /\ UNCHANGED <<items, stopped, stopReason, usage, finishing, doneSent>>

HandleContentStart(e) ==
  /\ EnsureItem(e.index, e.kind)
  /\ responseStarted' = TRUE
  /\ emitted' = emitted \o Preamble \o <<e>>
  /\ UNCHANGED <<stopped, stopReason, usage, finishing, doneSent>>

\* Mutant: the delta comes before the start of its item.
DeltaBeforeItem(e) ==
  /\ EnsureItem(e.index, e.kind)
  /\ responseStarted' = TRUE
  /\ emitted' = emitted \o Preamble \o <<e>> \o AddedFirst(e.index, e.kind)
  /\ UNCHANGED <<stopped, stopReason, usage, finishing, doneSent>>

\* Mutant: the delta that starts an item is not sent itself.
DeltaBecomesItem(e) ==
  /\ EnsureItem(e.index, e.kind)
  /\ responseStarted' = TRUE
  /\ emitted' = emitted \o Preamble \o
       (IF items[e.index] = "absent" THEN AddedFirst(e.index, e.kind) ELSE <<e>>)
  /\ UNCHANGED <<stopped, stopReason, usage, finishing, doneSent>>

HandleContentDelta(e) ==
  /\ EnsureItem(e.index, e.kind)
  /\ responseStarted' = TRUE
  /\ emitted' = emitted \o Preamble \o AddedFirst(e.index, e.kind) \o <<e>>
  /\ UNCHANGED <<stopped, stopReason, usage, finishing, doneSent>>

HandleContentStop(e) ==
  /\ EnsureItem(e.index, "unknown")
  /\ responseStarted' = TRUE
  /\ stopped' = stopped \cup {e.index}
  /\ emitted' = emitted \o Preamble \o AddedFirst(e.index, "unknown") \o <<e>>
  /\ UNCHANGED <<stopReason, usage, finishing, doneSent>>

\* Mutant: a report without a reason erases the reason.
MessageDeltaOverwrites(e) ==
  /\ stopReason' = e.stop
  /\ usage' = (usage \/ e.usage)
  /\ emitted' = emitted \o Preamble \o <<e>>
  /\ UNCHANGED <<responseStarted, items, stopped, finishing, doneSent>>

\* The preamble is sent, but responseStarted is not set.
HandleMessageDelta(e) ==
  /\ stopReason' = IF e.stop # "" THEN e.stop ELSE stopReason
  /\ usage' = (usage \/ e.usage)
  /\ emitted' = emitted \o Preamble \o <<e>>
  /\ UNCHANGED <<responseStarted, items, stopped, finishing, doneSent>>

HandleError(e) ==
  /\ emitted' = Append(emitted, e)
  /\ UNCHANGED <<responseStarted, items, stopped, stopReason, usage, finishing,
                 doneSent>>

HandleDone ==
  /\ responseStarted' = TRUE
  /\ finishing' = TRUE
  /\ emitted' = emitted \o Preamble
  /\ UNCHANGED <<items, stopped, stopReason, usage, doneSent>>

\* Mutant: only the texts are closed.
OpenTexts == {i \in Indices : items[i] = "text" /\ i \notin stopped}

OpenItems == {i \in Indices : items[i] # "absent" /\ i \notin stopped}

\* One round of the loop over the sorted indices.  The loop leaves the stopped
\* flag of the item alone; here stopped records its progress, which nothing
\* else reads once handleDone has begun.
CloseItem ==
  /\ finishing
  /\ \E i \in OpenItems :
       /\ \A j \in OpenItems : i <= j
       /\ stopped' = stopped \cup {i}
       /\ emitted' = Append(emitted, Stop(i))
  /\ UNCHANGED <<responseStarted, items, stopReason, usage, finishing, doneSent>>

SendDone ==
  /\ finishing
  /\ OpenItems = {}
  /\ emitted' = emitted \o
       <<[Bare("message_delta", 0, "unknown") EXCEPT !.stop = stopReason,
                                                     !.usage = usage],
         [Bare("done", 0, "unknown") EXCEPT !.usage = usage]>>
  /\ finishing' = FALSE
  /\ doneSent' = TRUE
  /\ UNCHANGED <<responseStarted, items, stopped, stopReason, usage>>

Handle(e) ==
  \/ e.type = "message_start" /\ HandleMessageStart(e)
  \/ e.type = "content_part_start" /\ HandleContentStart(e)
  \/ e.type = "content_part_delta" /\ HandleContentDelta(e)
  \/ e.type = "content_part_stop" /\ HandleContentStop(e)
  \/ e.type = "message_delta" /\ HandleMessageDelta(e)
  \/ e.type = "error" /\ HandleError(e)
  \/ e.type = "done" /\ HandleDone

\* Once done was sent, all events are ignored.
ProcessIREvent(e) ==
  IF doneSent THEN UNCHANGED aggVars ELSE Handle(e)

\* Mutant: does nothing for an answer that has not begun.
FinalizeStarted ==
  IF doneSent \/ ~responseStarted THEN UNCHANGED aggVars ELSE HandleDone

\* The provider's stream ends, with or without its last event.
Finalize == IF doneSent THEN UNCHANGED aggVars ELSE HandleDone

\* What the aggregator relies on: no provider reopens an item it has closed.
Legal(e) ==
  e.type \in {"content_part_start", "content_part_delta"} => e.index \notin stopped

AggNext ==
  \/ /\ ~finishing
     /\ \/ \E e \in Event : Legal(e) /\ ProcessIREvent(e)
        \/ Finalize
  \/ CloseItem
  \/ SendDone

AggSpec == AggInit /\ [][AggNext]_aggVars

-----------------------------------------------------------------------------
(* The four guarantees in the comment of the StreamAggregator.             *)

OutputTypes == {"content_part_start", "content_part_delta", "content_part_stop",
                "message_delta", "done"}

\* Guarantee 1: response.created precedes all output events.
CreatedFirst ==
  \A p \in 1..Len(emitted) :
    emitted[p].type \in OutputTypes =>
      \E q \in 1..(p - 1) : emitted[q].type = "message_start"

\* Guarantee 2: the start of its item precedes every delta, and no delta comes
\* after the stop of its item.
DeltasInsideItems ==
  \A p \in 1..Len(emitted) :
    emitted[p].type = "content_part_delta" =>
      /\ \E q \in 1..(p - 1) : /\ emitted[q].type = "content_part_start"
                               /\ emitted[q].index = emitted[p].index
      /\ ~ \E q \in 1..(p - 1) : /\ emitted[q].type = "content_part_stop"
                                 /\ emitted[q].index = emitted[p].index

\* Guarantee 3: every started item is stopped before the stream is done.
ClosedBeforeDone ==
  \A p, q \in 1..Len(emitted) :
    emitted[p].type = "done" /\ emitted[q].type = "content_part_start"
    => \E r \in (q + 1)..(p - 1) : /\ emitted[r].type = "content_part_stop"
                                   /\ emitted[r].index = emitted[q].index

\* Guarantee 4: done is sent at most once, and it is the last event.
DoneIsLast ==
  \A p \in 1..Len(emitted) : emitted[p].type = "done" => p = Len(emitted)
=============================================================================
