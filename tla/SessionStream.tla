----------------------------- MODULE SessionStream -----------------------------
(***************************************************************************)
(* The event streams browsers hold on a session: StreamSessionEvents of    *)
(* backend/internal/service/session_service.go over SubscribeFrom of       *)
(* backend/internal/infra/mq/nats.go, with the worker and the projector of *)
(* SessionTranscript beside it.                                            *)
(*                                                                         *)
(* A stream reads the two lanes of run events by two subscriptions, each   *)
(* in its own order.  The window of 30 minutes in which a question counts  *)
(* as processing is taken to be long enough.  A crash of the server cuts   *)
(* every stream: the model follows them up to it.                          *)
(***************************************************************************)
EXTENDS SessionTranscript

CONSTANTS Streams, MaxOpens  \* bound: streams opened

VARIABLES stream, opens
streamVars == <<stream, opens>>

Lanes == {"stream", "state"}
LaneOf(i) == IF IsState(i) THEN "state" ELSE "stream"

\* Body.Seq: the journal of a run numbers its events from 1.
NumberOf(i) == Cardinality({j \in 1..i : log[j].run = log[i].run})

NoStream == [at |-> "closed", replay |-> FALSE, ids |-> {}, start |-> 0,
             lanes |-> {}, from |-> [l \in Lanes |-> 0], pos |-> [l \in Lanes |-> 0], out |-> {}]

StreamInit == Init /\ stream = [x \in Streams |-> NoStream] /\ opens = 0

\* getSessionReplayState: the questions being answered and the first event of
\* the oldest of their runs.
ReplayStarts ==
  LET starts == {question[q].start : q \in Processing} \ {0}
  IN IF starts = {} THEN {0} ELSE {n \in starts : \A m \in starts : n <= m}

Open(x) ==
  /\ stream[x].at = "closed" /\ opens < MaxOpens
  /\ opens' = opens + 1
  /\ \/ stream' = [stream EXCEPT ![x] = [NoStream EXCEPT !.at = "open"]]
     \/ \E n \in ReplayStarts :
          stream' = [stream EXCEPT ![x] =
            [NoStream EXCEPT !.at = "open", !.replay = TRUE, !.ids = Processing, !.start = n]]
  /\ UNCHANGED vars

\* Mutant: takes the start sequence for the last one received.
SubscribeAfter(x, l) ==
  /\ stream[x].at = "open" /\ l \notin stream[x].lanes
  /\ LET n == IF stream[x].start > 0 THEN stream[x].start ELSE Len(log)
     IN stream' = [stream EXCEPT ![x].lanes = @ \cup {l}, ![x].from[l] = n, ![x].pos[l] = n]
  /\ UNCHANGED <<vars, opens>>

\* SubscribeFrom: from the start sequence, or only what is published from now on.
Subscribe(x, l) ==
  /\ stream[x].at = "open" /\ l \notin stream[x].lanes
  /\ LET n == IF stream[x].start > 0 THEN stream[x].start - 1 ELSE Len(log)
     IN stream' = [stream EXCEPT ![x].lanes = @ \cup {l}, ![x].from[l] = n, ![x].pos[l] = n]
  /\ UNCHANGED <<vars, opens>>

Answers(x, i) == stream[x].replay => log[i].to \cap stream[x].ids # {}
\* Mutant: deduplicates before it filters by question.
SeenDelivered(x, i) ==
  \E j \in 1..Len(log) : /\ stream[x].from[LaneOf(j)] < j /\ j <= stream[x].pos[LaneOf(j)]
                         /\ NumberOf(j) = NumberOf(i)

Seen(x, i) == \E j \in stream[x].out : NumberOf(j) = NumberOf(i)
Emits(x, i) == Answers(x, i) /\ ~Seen(x, i)

IsNext(x, l, i) ==
  /\ i > stream[x].pos[l] /\ LaneOf(i) = l
  /\ \A j \in (stream[x].pos[l] + 1)..(i - 1) : LaneOf(j) # l

\* The handler; a terminal event that is emitted cancels the subscriptions,
\* and the other lane may still be handling an event.
Receive(x, l) ==
  /\ stream[x].at \in {"open", "ending"} /\ l \in stream[x].lanes
  /\ \E i \in 1..Len(log) :
       /\ IsNext(x, l, i)
       /\ stream' = [stream EXCEPT
            ![x].pos[l] = i,
            ![x].out = IF Emits(x, i) THEN @ \cup {i} ELSE @,
            ![x].at = IF Emits(x, i) /\ log[i].kind \in Outcomes THEN "ending" ELSE @]
  /\ UNCHANGED <<vars, opens>>

Return(x) ==
  /\ stream[x].at = "ending"
  /\ stream' = [stream EXCEPT ![x] = NoStream]
  /\ UNCHANGED <<vars, opens>>

ClientLeaves(x) ==
  /\ stream[x].at = "open"
  /\ stream' = [stream EXCEPT ![x] = NoStream]
  /\ UNCHANGED <<vars, opens>>

StreamNext ==
  \/ \E x \in Streams : \/ Open(x) \/ Return(x) \/ ClientLeaves(x)
                        \/ \E l \in Lanes : Subscribe(x, l) \/ Receive(x, l)
  \/ (\E q \in Questions : Post(q)) /\ UNCHANGED streamVars
  \/ (Work \/ WorkerDies \/ Project \/ DatabaseFails \/ AckLost \/ RecordStream \/ RemoveRows)
       /\ UNCHANGED streamVars

StreamSpec == StreamInit /\ [][StreamNext]_<<vars, streamVars>>

-----------------------------------------------------------------------------
(* A replay that ends with the terminal event of the only run of its        *)
(* questions has shown every event of that run on the state lane, from its  *)
(* first, although it subscribed while the run went on.                     *)
ReplayIsWhole ==
  \A x \in Streams : stream[x].at = "ending" /\ stream[x].replay =>
    \A i \in stream[x].out :
      (/\ log[i].kind \in Outcomes
       /\ \A j \in 1..Len(log) : Answers(x, j) => log[j].run = log[i].run)
      => \A j \in 1..i : log[j].run = log[i].run /\ IsState(j) => j \in stream[x].out

(* A stream to which the terminal event of a run was delivered does not stay *)
(* open once no run goes on and all events are delivered, if its lanes began *)
(* at one point.  The numbers of the runs of a session collide and the lanes *)
(* overtake each other, but unless a worker dies the longest run has a       *)
(* terminal event whose number no other event has.                           *)
Delivered(x, i) == stream[x].from[LaneOf(i)] < i /\ i <= stream[x].pos[LaneOf(i)]
Exhausted(x) == /\ stream[x].lanes = Lanes
                /\ \A i \in 1..Len(log) : i <= stream[x].pos[LaneOf(i)]
StreamOver ==
  \A x \in Streams :
    (/\ stream[x].at = "open" /\ Exhausted(x) /\ run.at # "running"
     /\ stream[x].from["stream"] = stream[x].from["state"])
    => ~ \E i \in 1..Len(log) : log[i].kind \in Outcomes /\ Answers(x, i) /\ Delivered(x, i)
=============================================================================
