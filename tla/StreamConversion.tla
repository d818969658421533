-------------------------- MODULE StreamConversion --------------------------
(***************************************************************************)
(* A streamed model answer on its way through the model router: the SSE    *)
(* events of the provider are decoded by its adapter, completed by the     *)
(* StreamAggregator and encoded by the adapter of the client's protocol    *)
(* (pipeConvertedSSE of backend/internal/modelrouter/handler.go, the       *)
(* protocol_*.go adapters of backend/pkg/llmprotocol).                     *)
(*                                                                         *)
(* The provider answers with items of three kinds, as its protocol frames  *)
(* them, until it finishes or its connection drops.  Chat completions      *)
(* number only the tool calls; a Gemini chunk carries one part.  Texts are *)
(* left out: an event stands for one delta of its kind.                    *)
(***************************************************************************)
EXTENDS StreamAggregator, FiniteSets, Functions

CONSTANTS
  Routes,     \* pairs <<protocol of the provider, protocol of the client>>
  MaxItems,   \* bound: items of an answer
  MaxDeltas   \* bound: deltas of an answer

Protocols == {"chat", "responses", "anthropic", "gemini"}
NamesEvents == {"responses", "anthropic"} \* whose providers send event names

ASSUME ConversionAssumption ==
  /\ MaxItems \in Nat /\ MaxDeltas \in Nat
  /\ Routes \subseteq {r \in Protocols \X Protocols : r[1] # r[2]}
  /\ 0..MaxItems \subseteq Indices

VARIABLES
  route,
  answer,    \* the provider: its items, the deltas it sent, where its stream is
  decoded,   \* events of the current chunk the aggregator has not processed
  encoded,   \* emitted events that have been encoded
  enc,       \* the state of the client's adapter
  written,   \* what the client received
  header,    \* the chunk came with an event name: currentEventType
  misnamed,  \* what was written under the provider's event name, not its own
  panicked   \* the handler has panicked

convVars == <<route, answer, decoded, encoded, enc, written, header, misnamed, panicked>>
vars == <<aggVars, convVars>>

Upstream == route[1]
Entry == route[2]

Payload(type, i, kind, stop) ==
  [type |-> type, index |-> i, kind |-> kind, stop |-> stop]

Init ==
  /\ AggInit
  /\ route \in Routes
  /\ answer = [phase |-> "new", items |-> <<>>, open |-> FALSE,
               deltas |-> <<>>, stop |-> ""]
  /\ decoded = <<>> /\ encoded = 0 /\ written = <<>> /\ panicked = FALSE
  /\ header = FALSE /\ misnamed = {}
  /\ enc = [text |-> {}, tool |-> {}, last |-> [i \in Indices |-> "absent"], stop |-> ""]

-----------------------------------------------------------------------------
(* Decoding: the events of a chunk.                                        *)

Start(i, kind) == [Bare("content_part_start", i, kind) EXCEPT !.body = TRUE]
Delta(i, kind) == Bare("content_part_delta", i, kind)
Report(stop, withUsage) ==
  [Bare("message_delta", 0, "unknown") EXCEPT !.stop = stop, !.usage = withUsage]
Done == Bare("done", 0, "unknown")
Error == Bare("error", 0, "unknown")

\* The global index of a tool call of chat completions: nextGlobalIndex starts
\* at 0 and counts the tool calls; texts are at index 0.
ToolIndex(n) == Cardinality({m \in 1..(n - 1) : answer.items[m] = "tool_call"})

\* The first part of a Gemini stream starts an item, of type text whatever it is.
GeminiStart == IF answer.items = <<>> THEN <<Start(0, "text")>> ELSE <<>>

\* All but Gemini announce the response, with the event that the aggregator
\* sends on its own when nothing has announced it.
DecodeBegin == IF Upstream = "gemini" THEN <<>> ELSE <<Created>>

\* The n-th item is announced: in chat a tool call is, by the chunk with its id.
DecodeOpen(n, kind) ==
  CASE Upstream = "chat" ->
         IF kind = "tool_call" THEN <<Start(ToolIndex(n), kind)>> ELSE <<>>
    [] Upstream = "anthropic" -> <<Start(n - 1, kind)>>
    [] Upstream = "responses" ->
         <<Start(n - 1, IF kind = "tool_call" THEN kind ELSE "text")>>
    [] Upstream = "gemini" -> GeminiStart

\* A delta of the n-th item.  Anthropic's thinking deltas are decoded as text;
\* the reasoning deltas of the Responses API and the function calls of Gemini
\* are not decoded at all.
DecodeDelta(n, kind) ==
  CASE Upstream = "chat" ->
         <<Delta(IF kind = "tool_call" THEN ToolIndex(n) ELSE 0, kind)>>
    [] Upstream = "anthropic" ->
         <<Delta(n - 1, IF kind = "tool_call" THEN kind ELSE "text")>>
    [] Upstream = "responses" ->
         IF kind = "reasoning" THEN <<>> ELSE <<Delta(n - 1, kind)>>
    [] Upstream = "gemini" ->
         IF kind = "tool_call" THEN <<>> ELSE <<Delta(0, "text")>>

DecodeClose(n) ==
  IF Upstream \in {"anthropic", "responses"} THEN <<Stop(n - 1)>> ELSE <<>>

\* The statuses of the Responses API and the finish reasons of Gemini do not
\* tell a tool call from the end of the turn.
Decoded(stop) ==
  IF Upstream \in {"responses", "gemini"} /\ stop = "tool_use" THEN "end_turn" ELSE stop

\* A finish the adapter may not read: response.incomplete, the event of an answer
\* that was cut short (response.completed with that status is read), and a last
\* Gemini chunk without content.
Unread(stop) ==
  \/ Upstream = "responses" /\ stop = "max_tokens"
  \/ Upstream = "gemini"

DecodeFinish(stop, withUsage) ==
  CASE Upstream = "chat" -> <<Report(stop, withUsage)>>
    [] Upstream = "anthropic" -> <<Report(stop, TRUE)>>
    [] Upstream = "responses" -> <<Report(Decoded(stop), withUsage), Done>>
    [] Upstream = "gemini" ->
         (IF answer.items = <<>> THEN <<>> ELSE <<Stop(0)>>)
           \o <<Report(Decoded(stop), withUsage), Done>>

-----------------------------------------------------------------------------
(* The provider.  The next chunk is read when the last one has been written. *)

Idle ==
  /\ ~panicked /\ ~finishing
  /\ decoded = <<>> /\ encoded = Len(emitted)

Chunk(events) ==
  /\ Idle
  /\ decoded' = events
  /\ header' = (Upstream \in NamesEvents)
  /\ UNCHANGED <<aggVars, route, encoded, enc, written, misnamed, panicked>>

Begin ==
  /\ answer.phase = "new"
  /\ answer' = [answer EXCEPT !.phase = "answering"]
  /\ Chunk(DecodeBegin)

Items == Len(answer.items)

Open(kind) ==
  /\ answer.phase = "answering" /\ ~answer.open /\ Items < MaxItems
  /\ answer' = [answer EXCEPT !.items = Append(@, kind), !.open = TRUE]
  /\ Chunk(DecodeOpen(Items + 1, kind))

SendDelta ==
  /\ answer.phase = "answering" /\ answer.open
  /\ Len(answer.deltas) < MaxDeltas
  /\ answer' = [answer EXCEPT !.deltas = Append(@, answer.items[Items])]
  /\ Chunk(DecodeDelta(Items, answer.items[Items]))

Close ==
  /\ answer.phase = "answering" /\ answer.open
  /\ answer' = [answer EXCEPT !.open = FALSE]
  /\ Chunk(DecodeClose(Items))

StopOf(cut) ==
  IF cut THEN "max_tokens"
  ELSE IF "tool_call" \in Range(answer.items) THEN "tool_use" ELSE "end_turn"

Finish ==
  /\ answer.phase = "answering" /\ ~answer.open
  /\ \E cut, withUsage \in BOOLEAN :
       /\ answer' = [answer EXCEPT !.phase = "finished", !.stop = StopOf(cut)]
       /\ Chunk(DecodeFinish(StopOf(cut), withUsage))

\* The reason is lost: answer.stop is the reason the provider's adapter has read.
FinishUnread ==
  /\ answer.phase = "answering" /\ ~answer.open
  /\ \E cut \in BOOLEAN : Unread(StopOf(cut))
  /\ answer' = [answer EXCEPT !.phase = "finished"]
  /\ Chunk(<<>>)

\* The usage chunk of chat completions comes after the finish reason, once.
SendUsage ==
  /\ Upstream = "chat" /\ answer.phase = "finished" /\ ~usage
  /\ answer' = answer
  /\ Chunk(<<Report("", TRUE)>>)

\* message_stop; [DONE] and the end of the body are Finalize.
SendStop ==
  /\ Upstream = "anthropic" /\ answer.phase = "finished" /\ ~doneSent
  /\ answer' = answer
  /\ Chunk(<<Done>>)

\* An error event ends the stream.  The chat and Gemini adapters ignore it, and
\* that of Responses ignores response.failed.
Fail ==
  /\ answer.phase = "answering"
  /\ answer' = [answer EXCEPT !.phase = "failed"]
  /\ \/ Upstream \in {"anthropic", "responses"} /\ Chunk(<<Error>>)
     \/ Upstream # "anthropic" /\ Chunk(<<>>)

Provider ==
  \/ Begin
  \/ \E kind \in Kinds : Open(kind)
  \/ SendDelta
  \/ Close
  \/ Finish
  \/ FinishUnread
  \/ SendUsage
  \/ SendStop
  \/ Fail

\* The body ends, complete or because the connection dropped; [DONE] of a chat
\* provider is passed on to every client.  A connection that drops inside an
\* event leaves the name of that event behind.
EndOfStream ==
  /\ Idle
  /\ answer.phase # "ended"
  /\ Finalize
  /\ answer' = [answer EXCEPT !.phase = "ended"]
  /\ \E inside \in BOOLEAN : header' = (inside /\ Upstream \in NamesEvents)
  /\ UNCHANGED <<route, decoded, encoded, enc, written, misnamed, panicked>>

-----------------------------------------------------------------------------
(* The handler: writeIREvents and the client's adapter.                    *)

\* A report without a reason is written as the end of the turn; Responses and
\* Gemini have no word for a tool call.
Class(kind) == IF kind = "tool_call" THEN kind ELSE "text"
Ended(stop) == IF stop = "" THEN "end_turn" ELSE stop
Completed(stop) == IF stop = "max_tokens" THEN stop ELSE "end_turn"

\* What the chat adapter writes.  A report that carries usage is a usage-only
\* chunk, without the finish reason.
EncodeChat(e) ==
  CASE e.type = "message_start" -> <<Payload("begin", 0, "", "")>>
    [] e.type = "content_part_start" ->
         IF e.kind = "tool_call" THEN <<Payload("start", e.index, e.kind, "")>> ELSE <<>>
    [] e.type = "content_part_delta" ->
         <<Payload("delta", e.index, Class(e.kind), "")>>
    [] e.type = "message_delta" ->
         <<IF e.usage THEN Payload("usage", 0, "", "")
           ELSE Payload("finish", 0, "", Ended(e.stop))>>
    [] e.type = "done" -> <<Payload("done", 0, "", "")>>
    [] e.type = "error" -> <<Payload("error", 0, "", "")>>
    [] OTHER -> <<>>

\* The Anthropic adapter starts a block on its own when a delta has none.
EncodeAnthropic(e) ==
  CASE e.type = "message_start" -> <<Payload("begin", 0, "", "")>>
    [] e.type = "content_part_start" -> <<Payload("start", e.index, e.kind, "")>>
    [] e.type = "content_part_delta" ->
         LET kind == Class(e.kind)
             started == IF kind = "tool_call" THEN enc.tool ELSE enc.text
         IN (IF e.index \in started THEN <<>>
             ELSE <<Payload("start", e.index, kind, "")>>)
              \o <<Payload("delta", e.index, kind, "")>>
    [] e.type = "content_part_stop" -> <<Payload("stop", e.index, "", "")>>
    [] e.type = "message_delta" ->
         <<Payload("finish", 0, "", Ended(e.stop))>>
    [] e.type = "done" -> <<Payload("done", 0, "", "")>>
    [] e.type = "error" -> <<Payload("error", 0, "", "")>>

\* The Responses adapter closes the item that was started last at an index, and
\* tells the last reason it was told with response.completed.
EncodeResponses(e) ==
  CASE e.type = "message_start" -> <<Payload("begin", 0, "", "")>>
    [] e.type = "content_part_start" -> <<Payload("start", e.index, Class(e.kind), "")>>
    [] e.type = "content_part_delta" -> <<Payload("delta", e.index, Class(e.kind), "")>>
    [] e.type = "content_part_stop" ->
         IF enc.last[e.index] = "absent" THEN <<>>
         ELSE <<Payload("stop", e.index, enc.last[e.index], "")>>
    [] e.type = "done" -> <<Payload("done", 0, "", Completed(enc.stop))>>
    [] e.type = "error" -> <<Payload("error", 0, "", "")>>
    [] OTHER -> <<>>

\* Gemini has no events for items, and none of its payloads carries a tool call.
EncodeGemini(e) ==
  CASE e.type = "content_part_start" /\ e.kind = "text" ->
         <<Payload("start", 0, "text", "")>>
    [] e.type = "content_part_delta" /\ e.kind # "tool_call" ->
         <<Payload("delta", 0, "text", "")>>
    [] e.type = "message_delta" -> <<Payload("finish", 0, "", Completed(e.stop))>>
    [] OTHER -> <<>>

Encode(e) ==
  CASE Entry = "chat" -> EncodeChat(e)
    [] Entry = "anthropic" -> EncodeAnthropic(e)
    [] Entry = "responses" -> EncodeResponses(e)
    [] Entry = "gemini" -> EncodeGemini(e)

\* Mutant: every block is noted as a text.
TrackedAsText(e) ==
  [enc EXCEPT
     !.text = IF e.type = "content_part_start" THEN @ \cup {e.index} ELSE @,
     !.last = IF e.type = "content_part_start"
              THEN [@ EXCEPT ![e.index] = Class(e.kind)] ELSE @,
     !.stop = IF e.type = "message_delta" /\ e.stop # "" THEN e.stop ELSE @]

\* The blocks the adapter has started, and the last reason it was told.
Tracked(e) ==
  LET starts == \/ e.type = "content_part_start"
                \/ Entry = "anthropic" /\ e.type = "content_part_delta"
      isTool == e.kind = "tool_call"
  IN [enc EXCEPT
        !.text = IF starts /\ ~isTool THEN @ \cup {e.index} ELSE @,
        !.tool = IF starts /\ isTool THEN @ \cup {e.index} ELSE @,
        !.last = IF e.type = "content_part_start"
                 THEN [@ EXCEPT ![e.index] = Class(e.kind)] ELSE @,
        !.stop = IF e.type = "message_delta" /\ e.stop # "" THEN e.stop ELSE @]

\* The start of a reasoning item that the aggregator made up has no Reasoning,
\* which the Anthropic adapter reads.
Panics(e) ==
  /\ Entry = "anthropic"
  /\ e.type = "content_part_start" /\ e.kind = "reasoning" /\ ~e.body

Aggregate ==
  /\ ~panicked /\ ~finishing
  /\ decoded # <<>> /\ encoded = Len(emitted)
  /\ decoded' = Tail(decoded)
  /\ ProcessIREvent(Head(decoded))
  /\ UNCHANGED <<route, answer, encoded, enc, written, header, misnamed, panicked>>

\* Each payload goes out under the event name the chunk came with, if any; chat
\* clients get no names.
WriteNext ==
  /\ ~panicked
  /\ encoded < Len(emitted)
  /\ LET e == emitted[encoded + 1]
     IN IF Panics(e)
        THEN panicked' = TRUE /\ UNCHANGED <<encoded, enc, written, misnamed>>
        ELSE /\ written' = written \o Encode(e)
             /\ misnamed' = IF header /\ Entry # "chat"
                            THEN misnamed \cup (Len(written) + 1)..Len(written')
                            ELSE misnamed
             /\ enc' = Tracked(e)
             /\ encoded' = encoded + 1
             /\ UNCHANGED panicked
  /\ UNCHANGED <<aggVars, route, answer, decoded, header>>

Finishes ==
  /\ ~panicked /\ encoded = Len(emitted)
  /\ CloseItem \/ SendDone
  /\ UNCHANGED convVars

Handler == Aggregate \/ WriteNext \/ Finishes

Next == Provider \/ EndOfStream \/ Handler

\* The handler's loop runs, and every body ends or is cut.
Spec == Init /\ [][Next]_vars
FairSpec == Spec /\ WF_vars(Handler) /\ WF_vars(EndOfStream)

-----------------------------------------------------------------------------
(* Properties.                                                             *)

\* The handler has returned with the last event written.
Settled == ~panicked /\ answer.phase = "ended" /\ doneSent /\ encoded = Len(emitted)

\* What a client sees that goes by the payloads, and one that goes by the names of
\* the events.  The names are those of another protocol when the provider sends
\* names and the client gets them: nothing is claimed of the second client then.
Views ==
  {1..Len(written)} \cup
  (IF Upstream \in NamesEvents /\ Entry # "chat" THEN {} ELSE {1..Len(written) \ misnamed})

\* The deltas of some kinds the provider sent; those of a kind the client sees.
Sent(kinds) == {n \in 1..Len(answer.deltas) : answer.deltas[n] \in kinds}
Arrived(view, kind) == {p \in view : written[p].type = "delta" /\ written[p].kind = kind}

\* Every delta the provider sent reaches the client, a thought as text; except
\* the reasoning of the Responses API and the tool calls where Gemini is one of
\* the two protocols.
TextKinds == IF Upstream = "responses" THEN {"text"} ELSE {"text", "reasoning"}
DeltasArrive ==
  Settled =>
    \A view \in Views :
      /\ Cardinality(Arrived(view, "text")) = Cardinality(Sent(TextKinds))
      /\ "gemini" \notin {Upstream, Entry} =>
           Cardinality(Arrived(view, "tool_call")) = Cardinality(Sent({"tool_call"}))

\* The reason for the end that the provider's adapter has read is the last one
\* the client is told, as far as both protocols can say it, whatever usage
\* reports come with it or after it.  Chat clients are left out, and the reasons
\* no adapter reads (Unread): see the README.
LastTold(stop) ==
  \E p \in 1..Len(written) : /\ written[p].stop = stop
                             /\ \A q \in (p + 1)..Len(written) : written[q].stop = ""
StopReasonSurvives ==
  Settled /\ answer.stop # "" /\ Entry # "chat" =>
    LET said == Decoded(answer.stop)
    IN LastTold(IF Entry = "anthropic" THEN said ELSE Completed(said))

\* An index, as the client sees it: one item is started, gets deltas of its own
\* kind and is stopped.
Framing == {"start", "delta", "stop"}
Own(view, i) == {p \in view : written[p].type \in Framing /\ written[p].index = i}
WellFormed(view, i) ==
  Own(view, i) # {} =>
    \E f, l \in Own(view, i) :
      /\ written[f].type = "start" /\ written[l].type = "stop" /\ f < l
      /\ \A p \in Own(view, i) \ {f, l} :
           /\ f < p /\ p < l /\ written[p].type = "delta"
           /\ Class(written[p].kind) = Class(written[f].kind)

\* Clients whose protocol frames items see each framed once, at an index of its
\* own: in the payloads, and from Gemini providers by the event names as well.
ItemsWellFormed ==
  Settled /\ Upstream # "chat" /\ Entry \in {"anthropic", "responses"} =>
    \A view \in Views, i \in Indices : WellFormed(view, i)

\* The same of the answers of chat completions, whose tool calls the adapter is
\* said to move to an index of their own.
ChatItemsWellFormed ==
  Settled /\ Upstream = "chat" /\ Entry \in {"anthropic", "responses"} =>
    \A view \in Views, i \in Indices : WellFormed(view, i)

\* However the provider's body ends, the client gets the end of its stream.
StreamCompletes == <>(Settled \/ panicked)
=============================================================================
