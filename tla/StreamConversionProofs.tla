----------------------- MODULE StreamConversionProofs -----------------------
(***************************************************************************)
(* The guarantees of the StreamAggregator, for any indices and any legal   *)
(* sequence of provider events; and those of a converted stream, for any   *)
(* routes and any length of the answer.                                    *)
(*                                                                         *)
(* Each handler of the aggregator appends a short sequence to emitted.     *)
(* The lemma Appended says what any sequence must satisfy for the          *)
(* invariant to be kept; the proof of each action shows that what it       *)
(* appends satisfies it.                                                   *)
(*                                                                         *)
(* The conversion is shown to feed the aggregator legal events only        *)
(* (ConvInv), so the aggregator's invariant holds of it too.  On both rest *)
(* three invariants of the whole way: the counts of deltas before and      *)
(* after each of the two queues (SentOn, WrittenOn), the reason in the     *)
(* state, in the last report and in the client's hands (ReasonInv), and    *)
(* the items, emitted (FramesInv) and written (Framed).                    *)
(***************************************************************************)
EXTENDS StreamConversion, SequenceTheorems, FiniteSetTheorems, TLAPS

IsStart(e, i) == e.type = "content_part_start" /\ e.index = i
IsStop(e, i) == e.type = "content_part_stop" /\ e.index = i

\* What relates the aggregator's state to what it has emitted.
Announced ==
  responseStarted => \E q \in 1..Len(emitted) : emitted[q].type = "message_start"

ItemsAreStarted ==
  \A i \in Indices :
    items[i] # "absent" <=> \E q \in 1..Len(emitted) : IsStart(emitted[q], i)

StopsAreRecorded ==
  \A q \in 1..Len(emitted) :
    emitted[q].type = "content_part_stop" => emitted[q].index \in stopped

StopFollowsStart ==
  \A q \in 1..Len(emitted) :
    emitted[q].type = "content_part_start" /\ emitted[q].index \in stopped
    => \E r \in (q + 1)..Len(emitted) : IsStop(emitted[r], emitted[q].index)

NotDoneYet ==
  ~doneSent => \A q \in 1..Len(emitted) : emitted[q].type # "done"

StoppedAreItems == \A i \in stopped : items[i] # "absent"

Finishing == finishing => ~doneSent /\ responseStarted

OrderInv ==
  /\ Announced
  /\ ItemsAreStarted
  /\ StopsAreRecorded
  /\ StopFollowsStart
  /\ StoppedAreItems
  /\ CreatedFirst
  /\ DeltasInsideItems

AggInv ==
  /\ OrderInv
  /\ NotDoneYet
  /\ Finishing
  /\ ClosedBeforeDone
  /\ DoneIsLast

-----------------------------------------------------------------------------

\* The events the aggregator makes up are events.
LEMMA MadeUpEvents ==
  /\ Created \in Event
  /\ \A i \in Indices : Stop(i) \in Event
  /\ \A i \in Indices, k \in Kinds \cup {"unknown"} : ItemAdded(i, k) \in Event
  /\ \A s \in StopReasons, u \in BOOLEAN :
       /\ [Bare("message_delta", 0, "unknown") EXCEPT !.stop = s, !.usage = u] \in Event
       /\ [Bare("done", 0, "unknown") EXCEPT !.usage = u] \in Event
BY IndicesAssumption
   DEF Created, Stop, ItemAdded, Bare, Event, EventTypes, Kinds, StopReasons

\* The elements of a concatenation.
LEMMA Concatenation ==
  ASSUME NEW S, NEW s \in Seq(S), NEW t \in Seq(S)
  PROVE  /\ s \o t \in Seq(S)
         /\ Len(s) \in Nat /\ Len(t) \in Nat
         /\ Len(s \o t) = Len(s) + Len(t)
         /\ \A p \in 1..Len(s) : (s \o t)[p] = s[p]
         /\ \A p \in 1..Len(t) : (s \o t)[Len(s) + p] = t[p]
OBVIOUS

\* What a handler appends is a sequence of events.
LEMMA EventSequences ==
  /\ Preamble \in Seq(Event)
  /\ \A i \in Indices, k \in Kinds \cup {"unknown"} : AddedFirst(i, k) \in Seq(Event)
<1>1. <<>> \in Seq(Event) /\ \A x \in Event : <<x>> \in Seq(Event)
  OBVIOUS
<1>2. Created \in Event
  BY MadeUpEvents
<1>3. \A i \in Indices, k \in Kinds \cup {"unknown"} : ItemAdded(i, k) \in Event
  BY MadeUpEvents
<1>4. Preamble \in Seq(Event)
  BY <1>1, <1>2, Zenon DEF Preamble
<1>5. \A i \in Indices, k \in Kinds \cup {"unknown"} : AddedFirst(i, k) \in Seq(Event)
  BY <1>1, <1>3, Zenon DEF AddedFirst
<1> QED BY <1>4, <1>5

LEMMA AddOne ==
  ASSUME NEW S, NEW s \in Seq(S), NEW x \in S
  PROVE  /\ s \o <<x>> \in Seq(S) /\ Len(s) \in Nat /\ Len(s \o <<x>>) = Len(s) + 1
         /\ (s \o <<x>>)[Len(s) + 1] = x
         /\ \A p \in 1..Len(s) : (s \o <<x>>)[p] = s[p]
<1>1. <<x>> \in Seq(S) /\ Len(<<x>>) = 1 /\ <<x>>[1] = x
  OBVIOUS
<1>2. ASSUME NEW t \in Seq(S), Len(t) = 1, t[1] = x
      PROVE  /\ s \o t \in Seq(S) /\ Len(s) \in Nat /\ Len(s \o t) = Len(s) + 1
             /\ (s \o t)[Len(s) + 1] = x
             /\ \A p \in 1..Len(s) : (s \o t)[p] = s[p]
  <2>1. /\ s \o t \in Seq(S) /\ Len(s) \in Nat /\ Len(s \o t) = Len(s) + Len(t)
        /\ \A p \in 1..Len(s) : (s \o t)[p] = s[p]
    BY Concatenation
  <2>2. \A p \in 1..Len(t) : (s \o t)[Len(s) + p] = t[p]
    BY Concatenation
  <2>3. 1 \in 1..Len(t)
    BY <1>2
  <2>4. (s \o t)[Len(s) + 1] = t[1]
    BY <2>2, <2>3, Zenon
  <2> QED BY <1>2, <2>1, <2>4
<1> QED BY <1>1, <1>2, Zenon

\* Short suffixes, joined.
LEMMA JoinOne ==
  ASSUME NEW S, NEW s \in Seq(S), NEW x \in S
  PROVE  <<x>> \in Seq(S) /\ Append(s, x) = s \o <<x>> /\ s \o <<>> = s
OBVIOUS

LEMMA JoinTwo ==
  ASSUME NEW S, NEW s \in Seq(S), NEW x \in S, NEW y \in S
  PROVE  <<x, y>> \in Seq(S) /\ (s \o <<x>>) \o <<y>> = s \o <<x, y>>
<1> DEFINE u == <<x>> \o <<y>>
           v == <<x, y>>
<1>1. <<x>> \in Seq(S) /\ <<y>> \in Seq(S)
  OBVIOUS
<1>2. Len(v) = 2 /\ v[1] = x /\ v[2] = y /\ v \in Seq(S)
  OBVIOUS
<1>3. u \in Seq(S) /\ Len(u) = 2 /\ u[1] = x /\ u[2] = y
  BY <1>1, ConcatProperties
<1>4. (s \o <<x>>) \o <<y>> = s \o u
  BY <1>1, ConcatAssociative
<1> HIDE DEF u, v
<1>5. \A i \in 1..Len(u) : u[i] = v[i]
  <2> SUFFICES ASSUME NEW i \in 1..2 PROVE u[i] = v[i]
    BY <1>3
  <2>1. i = 1 \/ i = 2
    OBVIOUS
  <2> QED BY <1>2, <1>3, <2>1
<1>6. u = v
  BY <1>2, <1>3, <1>5, SeqEqual
<1>7. (s \o <<x>>) \o <<y>> = s \o v /\ v \in Seq(S)
  BY <1>2, <1>4, <1>6
<1> QED BY <1>7 DEF v

LEMMA EventsJoined ==
  \A s \in Seq(Event) : \A x, y \in Event : (s \o <<x>>) \o <<y>> = s \o <<x, y>>
<1> SUFFICES ASSUME NEW s \in Seq(Event), NEW x \in Event, NEW y \in Event
             PROVE  (s \o <<x>>) \o <<y>> = s \o <<x, y>>
  OBVIOUS
<1> QED BY JoinTwo

LEMMA JoinThree ==
  ASSUME NEW S, NEW s \in Seq(S), NEW x \in S, NEW y \in S, NEW z \in S
  PROVE  /\ <<x, y, z>> \in Seq(S)
         /\ ((s \o <<x>>) \o <<y>>) \o <<z>> = s \o <<x, y, z>>
<1> DEFINE u == <<x, y>> \o <<z>>
           v == <<x, y, z>>
<1>1. <<x, y>> \in Seq(S) /\ <<z>> \in Seq(S)
  OBVIOUS
<1>2. Len(v) = 3 /\ v[1] = x /\ v[2] = y /\ v[3] = z /\ v \in Seq(S)
  OBVIOUS
<1>3. u \in Seq(S) /\ Len(u) = 3 /\ u[1] = x /\ u[2] = y /\ u[3] = z
  BY <1>1, ConcatProperties
<1>4. (s \o <<x, y>>) \o <<z>> = s \o u
  BY <1>1, ConcatAssociative
<1>5. (s \o <<x>>) \o <<y>> = s \o <<x, y>>
  BY JoinTwo
<1> HIDE DEF u, v
<1>6. \A i \in 1..Len(u) : u[i] = v[i]
  <2> SUFFICES ASSUME NEW i \in 1..3 PROVE u[i] = v[i]
    BY <1>3
  <2>1. i = 1 \/ i = 2 \/ i = 3
    OBVIOUS
  <2> QED BY <1>2, <1>3, <2>1
<1>7. u = v
  BY <1>2, <1>3, <1>6, SeqEqual
<1>8. ((s \o <<x>>) \o <<y>>) \o <<z>> = s \o v /\ v \in Seq(S)
  BY <1>2, <1>4, <1>5, <1>7
<1> QED BY <1>8 DEF v

LEMMA AggTypeInit == AggInit => AggTypeOK
<1>1. <<>> \in Seq(Event)
  OBVIOUS
<1> QED BY <1>1 DEF AggInit, AggTypeOK, StopReasons

LEMMA AggTypeNext == AggTypeOK /\ [AggNext]_aggVars => AggTypeOK'
<1> SUFFICES ASSUME AggTypeOK, [AggNext]_aggVars PROVE AggTypeOK'
  OBVIOUS
<1> USE DEF AggTypeOK
<1> DEFINE K == Kinds \cup {"unknown"}
<1>1. Preamble \in Seq(Event)
  BY EventSequences
<1>2. \A i \in Indices, k \in K : AddedFirst(i, k) \in Seq(Event)
  BY EventSequences
<1>3. ASSUME NEW i \in Indices, NEW k \in K, EnsureItem(i, k)
      PROVE  items' \in [Indices -> K \cup {"absent"}]
  BY <1>3 DEF EnsureItem
<1>4. ASSUME NEW e \in Event, Handle(e) PROVE AggTypeOK'
  <2>0. /\ e.type \in EventTypes /\ e.index \in Indices /\ e.kind \in K
        /\ e.stop \in StopReasons /\ e.usage \in BOOLEAN /\ "unknown" \in K
    BY DEF Event
  <2>a. <<e>> \in Seq(Event)
    OBVIOUS
  <2>1. CASE HandleMessageStart(e)
    BY <2>1 DEF HandleMessageStart
  <2>2. CASE HandleContentStart(e)
    BY <2>2, <2>0, <2>a, <1>1, <1>3, Concatenation DEF HandleContentStart
  <2>3. CASE HandleContentDelta(e)
    BY <2>3, <2>0, <2>a, <1>1, <1>2, <1>3, Concatenation DEF HandleContentDelta
  <2>4. CASE HandleContentStop(e)
    BY <2>4, <2>0, <2>a, <1>1, <1>2, <1>3, Concatenation DEF HandleContentStop
  <2>5. CASE HandleMessageDelta(e)
    BY <2>5, <2>0, <2>a, <1>1, Concatenation DEF HandleMessageDelta
  <2>6. CASE HandleError(e)
    BY <2>6 DEF HandleError
  <2>7. CASE HandleDone
    BY <2>7, <1>1, Concatenation DEF HandleDone
  <2> QED
    BY <1>4, <2>1, <2>2, <2>3, <2>4, <2>5, <2>6, <2>7 DEF Handle
<1>5. CASE HandleDone
  BY <1>5, <1>1, Concatenation DEF HandleDone
<1>6. CASE CloseItem
  <2> PICK i \in OpenItems : stopped' = stopped \cup {i} /\ emitted' = Append(emitted, Stop(i))
    BY <1>6 DEF CloseItem
  <2> i \in Indices /\ Stop(i) \in Event
    BY MadeUpEvents DEF OpenItems
  <2>1. emitted' \in Seq(Event)
    OBVIOUS
  <2> QED BY <1>6, <2>1 DEF CloseItem
<1>7. CASE SendDone
  <2> DEFINE md == [Bare("message_delta", 0, "unknown") EXCEPT !.stop = stopReason,
                                                               !.usage = usage]
             dn == [Bare("done", 0, "unknown") EXCEPT !.usage = usage]
  <2>1. md \in Event /\ dn \in Event
    BY MadeUpEvents
  <2>2. emitted' = emitted \o <<md, dn>>
    BY <1>7 DEF SendDone
  <2> HIDE DEF md, dn
  <2>3. emitted' \in Seq(Event)
    BY <2>1, <2>2
  <2> QED BY <1>7, <2>3 DEF SendDone
<1>8. CASE UNCHANGED aggVars
  BY <1>8 DEF aggVars
<1> QED
  BY <1>4, <1>5, <1>6, <1>7, <1>8 DEF AggNext, ProcessIREvent, Finalize

\* The types of the variables are kept: the type invariant of the aggregator.
THEOREM AggTypeCorrect == AggSpec => []AggTypeOK
BY AggTypeInit, AggTypeNext, PTL DEF AggSpec

-----------------------------------------------------------------------------
\* What the sequence t that a step appends must satisfy.
Extends(t) ==
  /\ t \in Seq(Event) /\ emitted' = emitted \o t
  /\ stopped \subseteq stopped'
  /\ \A p \in 1..Len(t) :
       t[p].type \in OutputTypes =>
         responseStarted \/ \E q \in 1..(p - 1) : t[q].type = "message_start"
  /\ responseStarted' =>
       responseStarted \/ \E q \in 1..Len(t) : t[q].type = "message_start"
  /\ \A i \in Indices :
       items'[i] # "absent" <=>
         items[i] # "absent" \/ \E q \in 1..Len(t) : IsStart(t[q], i)
  /\ \A i \in stopped' : items'[i] # "absent"
  /\ \A p \in 1..Len(t) :
       t[p].type = "content_part_stop" => t[p].index \in stopped'
  /\ \A p \in 1..Len(t) :
       t[p].type = "content_part_delta" =>
         /\ t[p].index \notin stopped'
         /\ \/ items[t[p].index] # "absent"
            \/ \E q \in 1..(p - 1) : IsStart(t[q], t[p].index)
  /\ \A i \in stopped' :
       IF i \in stopped THEN \A q \in 1..Len(t) : ~IsStart(t[q], i)
       ELSE \E r \in 1..Len(t) : /\ IsStop(t[r], i)
                                /\ \A q \in 1..Len(t) : IsStart(t[q], i) => q < r

NoDone(t) == \A p \in 1..Len(t) : t[p].type # "done"

LEMMA Appended ==
  ASSUME AggTypeOK, AggInv, stopped' \subseteq Indices, NEW t, Extends(t)
  PROVE  /\ OrderInv'
         /\ ~doneSent /\ NoDone(t) =>
              NotDoneYet' /\ ClosedBeforeDone' /\ DoneIsLast'
<1> DEFINE n == Len(emitted)
<1>0. emitted \in Seq(Event) /\ stopped \subseteq Indices
  BY DEF AggTypeOK
<1>1. /\ t \in Seq(Event) /\ n \in Nat /\ Len(t) \in Nat /\ emitted' \in Seq(Event)
      /\ Len(emitted') = n + Len(t)
      /\ \A p \in 1..n : emitted'[p] = emitted[p]
      /\ \A p \in 1..Len(t) : emitted'[n + p] = t[p]
  BY <1>0, Concatenation DEF Extends
<1> HIDE DEF n
<1>2. \A p \in 1..Len(emitted') :
        \/ p \in 1..n /\ emitted'[p] = emitted[p]
        \/ p - n \in 1..Len(t) /\ p = n + (p - n) /\ emitted'[p] = t[p - n]
  <2> SUFFICES ASSUME NEW p \in 1..Len(emitted'), p \notin 1..n
               PROVE  p - n \in 1..Len(t) /\ p = n + (p - n) /\ emitted'[p] = t[p - n]
    BY <1>1
  <2>1. p - n \in 1..Len(t) /\ p = n + (p - n)
    BY <1>1
  <2> QED BY <1>1, <2>1
<1>3. /\ \A p \in 1..n : emitted[p].index \in Indices
      /\ \A p \in 1..Len(t) : t[p].index \in Indices
  <2>1. \A x \in Event : x.index \in Indices
    BY DEF Event
  <2>2. /\ \A p \in 1..n : emitted[p] \in Event
        /\ \A p \in 1..Len(t) : t[p] \in Event
    BY <1>0, <1>1 DEF n
  <2> QED BY <2>1, <2>2
<1>a. Announced'
  <2> SUFFICES ASSUME responseStarted'
               PROVE  \E q \in 1..Len(emitted') : emitted'[q].type = "message_start"
    BY DEF Announced
  <2>1. CASE responseStarted
    <3> PICK q \in 1..n : emitted[q].type = "message_start"
      BY <2>1 DEF AggInv, OrderInv, Announced, n
    <3> q \in 1..Len(emitted') /\ emitted'[q].type = "message_start"
      BY <1>1
    <3> QED OBVIOUS
  <2>2. CASE ~responseStarted
    <3> PICK q \in 1..Len(t) : t[q].type = "message_start"
      BY <2>2 DEF Extends
    <3> n + q \in 1..Len(emitted') /\ emitted'[n + q].type = "message_start"
      BY <1>1
    <3> QED OBVIOUS
  <2> QED BY <2>1, <2>2
<1>b. ItemsAreStarted'
  <2> SUFFICES ASSUME NEW i \in Indices
               PROVE  items'[i] # "absent" <=>
                        \E q \in 1..Len(emitted') : IsStart(emitted'[q], i)
    BY DEF ItemsAreStarted, IsStart
  <2>1. items'[i] # "absent" <=>
          items[i] # "absent" \/ \E q \in 1..Len(t) : IsStart(t[q], i)
    BY DEF Extends
  <2>2. items[i] # "absent" <=> \E q \in 1..n : IsStart(emitted[q], i)
    BY DEF AggInv, OrderInv, ItemsAreStarted, n
  <2>3. ASSUME NEW q \in 1..n, IsStart(emitted[q], i)
        PROVE  \E p \in 1..Len(emitted') : IsStart(emitted'[p], i)
    <3> q \in 1..Len(emitted') /\ emitted'[q] = emitted[q]
      BY <1>1
    <3> QED BY <2>3
  <2>4. ASSUME NEW q \in 1..Len(t), IsStart(t[q], i)
        PROVE  \E p \in 1..Len(emitted') : IsStart(emitted'[p], i)
    <3> n + q \in 1..Len(emitted') /\ emitted'[n + q] = t[q]
      BY <1>1
    <3> QED BY <2>4
  <2>5. ASSUME NEW p \in 1..Len(emitted'), IsStart(emitted'[p], i)
        PROVE  \/ \E q \in 1..n : IsStart(emitted[q], i)
               \/ \E q \in 1..Len(t) : IsStart(t[q], i)
    BY <1>2, <2>5
  <2> QED BY <2>1, <2>2, <2>3, <2>4, <2>5
<1>c. StopsAreRecorded'
  <2> SUFFICES ASSUME NEW p \in 1..Len(emitted'), emitted'[p].type = "content_part_stop"
               PROVE  emitted'[p].index \in stopped'
    BY DEF StopsAreRecorded
  <2>1. CASE p \in 1..n /\ emitted'[p] = emitted[p]
    BY <2>1 DEF AggInv, OrderInv, StopsAreRecorded, Extends, n
  <2>2. CASE p - n \in 1..Len(t) /\ emitted'[p] = t[p - n]
    BY <2>2 DEF Extends
  <2> QED BY <1>2, <2>1, <2>2
<1>d. StopFollowsStart'
  <2> SUFFICES ASSUME NEW q \in 1..Len(emitted'), NEW i \in stopped',
                      IsStart(emitted'[q], i)
               PROVE  \E r \in (q + 1)..Len(emitted') : IsStop(emitted'[r], i)
    BY DEF StopFollowsStart, IsStart, IsStop
  <2> i \in Indices
    OBVIOUS
  <2>1. CASE i \in stopped
    <3>1. \A p \in 1..Len(t) : ~IsStart(t[p], i)
      BY <2>1 DEF Extends
    <3>2. q \in 1..n /\ IsStart(emitted[q], i)
      BY <1>2, <3>1
    <3>3. PICK r \in (q + 1)..n : IsStop(emitted[r], i)
      BY <2>1, <3>2 DEF AggInv, OrderInv, StopFollowsStart, IsStart, n
    <3>4. r \in (q + 1)..Len(emitted') /\ emitted'[r] = emitted[r]
      BY <1>1, <3>2, <3>3
    <3> QED BY <3>3, <3>4
  <2>2. CASE i \notin stopped
    <3>1. PICK r \in 1..Len(t) : /\ IsStop(t[r], i)
                                 /\ \A p \in 1..Len(t) : IsStart(t[p], i) => p < r
      BY <2>2 DEF Extends
    <3>2. n + r \in (q + 1)..Len(emitted')
      <4>1. CASE q \in 1..n
        BY <4>1, <1>1, <3>1
      <4>2. CASE q - n \in 1..Len(t) /\ emitted'[q] = t[q - n]
        <5>1. q - n < r
          BY <4>2, <3>1
        <5> QED BY <4>2, <5>1, <1>1, <3>1
      <4> QED BY <1>2, <4>1, <4>2
    <3>3. IsStop(emitted'[n + r], i)
      BY <1>1, <3>1
    <3> QED BY <3>2, <3>3
  <2> QED BY <2>1, <2>2
<1>e. ASSUME ~doneSent, NoDone(t)
      PROVE  NotDoneYet' /\ ClosedBeforeDone' /\ DoneIsLast'
  <2>1. \A p \in 1..n : emitted[p].type # "done"
    BY <1>e DEF AggInv, OrderInv, NotDoneYet, n
  <2>2. \A p \in 1..Len(t) : t[p].type # "done"
    BY <1>e DEF NoDone
  <2>3. \A p \in 1..Len(emitted') : emitted'[p].type # "done"
    BY <1>2, <2>1, <2>2
  <2> QED BY <2>3 DEF NotDoneYet, ClosedBeforeDone, DoneIsLast
<1>g. CreatedFirst'
  <2> SUFFICES ASSUME NEW p \in 1..Len(emitted'), emitted'[p].type \in OutputTypes
               PROVE  \E q \in 1..(p - 1) : emitted'[q].type = "message_start"
    BY DEF CreatedFirst, OutputTypes
  <2>1. CASE p \in 1..n /\ emitted'[p] = emitted[p]
    <3> PICK q \in 1..(p - 1) : emitted[q].type = "message_start"
      BY <2>1 DEF AggInv, OrderInv, CreatedFirst, n
    <3> q \in 1..n /\ emitted'[q] = emitted[q]
      BY <2>1, <1>1
    <3> QED OBVIOUS
  <2>2. CASE p - n \in 1..Len(t) /\ p = n + (p - n) /\ emitted'[p] = t[p - n]
    <3>1. responseStarted \/ \E q \in 1..(p - n - 1) : t[q].type = "message_start"
      BY <2>2 DEF Extends
    <3>2. CASE responseStarted
      <4> PICK q \in 1..n : emitted[q].type = "message_start"
        BY <3>2 DEF AggInv, OrderInv, Announced, n
      <4> q \in 1..(p - 1) /\ emitted'[q] = emitted[q]
        BY <2>2, <1>1
      <4> QED OBVIOUS
    <3>3. CASE \E q \in 1..(p - n - 1) : t[q].type = "message_start"
      <4> PICK q \in 1..(p - n - 1) : t[q].type = "message_start"
        BY <3>3
      <4>1. q \in 1..Len(t) /\ n + q \in 1..(p - 1)
        BY <2>2, <1>1
      <4>2. emitted'[n + q] = t[q]
        BY <4>1, <1>1
      <4> QED BY <4>1, <4>2
    <3> QED BY <3>1, <3>2, <3>3
  <2> QED BY <1>2, <2>1, <2>2
<1>h. DeltasInsideItems'
  <2> SUFFICES ASSUME NEW p \in 1..Len(emitted'), emitted'[p].type = "content_part_delta"
               PROVE  LET i == emitted'[p].index
                      IN /\ \E q \in 1..(p - 1) : IsStart(emitted'[q], i)
                         /\ \A q \in 1..(p - 1) : ~IsStop(emitted'[q], i)
    BY DEF DeltasInsideItems, IsStart, IsStop
  <2>1. CASE p \in 1..n /\ emitted'[p] = emitted[p]
    <3> \A q \in 1..(p - 1) : q \in 1..n /\ emitted'[q] = emitted[q]
      BY <2>1, <1>1
    <3> QED BY <2>1 DEF AggInv, OrderInv, DeltasInsideItems, IsStart, IsStop, n
  <2>2. CASE p - n \in 1..Len(t) /\ p = n + (p - n) /\ emitted'[p] = t[p - n]
    <3> DEFINE i == t[p - n].index
    <3>0. i \in Indices /\ emitted'[p].index = i
      BY <2>2, <1>3
    <3>1. /\ i \notin stopped'
          /\ items[i] # "absent" \/ \E q \in 1..(p - n - 1) : IsStart(t[q], i)
      BY <2>2 DEF Extends
    <3>2. \A q \in 1..Len(emitted') : ~IsStop(emitted'[q], i)
      BY <3>1, <1>c DEF StopsAreRecorded, IsStop
    <3>3. CASE items[i] # "absent"
      <4> PICK q \in 1..n : IsStart(emitted[q], i)
        BY <3>3, <3>0 DEF AggInv, OrderInv, ItemsAreStarted, n
      <4>1. q \in 1..(p - 1) /\ emitted'[q] = emitted[q]
        BY <2>2, <1>1
      <4>2. \A r \in 1..(p - 1) : r \in 1..Len(emitted')
        BY <1>1
      <4> QED BY <3>0, <3>2, <4>1, <4>2
    <3>4. CASE \E q \in 1..(p - n - 1) : IsStart(t[q], i)
      <4> PICK q \in 1..(p - n - 1) : IsStart(t[q], i)
        BY <3>4
      <4>1. q \in 1..Len(t) /\ n + q \in 1..(p - 1)
        BY <2>2, <1>1
      <4>2. emitted'[n + q] = t[q]
        BY <4>1, <1>1
      <4>3. \A r \in 1..(p - 1) : r \in 1..Len(emitted')
        BY <1>1
      <4> QED BY <3>0, <3>2, <4>1, <4>2, <4>3
    <3> QED BY <3>1, <3>3, <3>4
  <2> QED BY <1>2, <2>1, <2>2
<1>j. StoppedAreItems'
  BY DEF Extends, StoppedAreItems
<1> QED
  BY <1>a, <1>b, <1>c, <1>d, <1>e, <1>g, <1>h, <1>j DEF OrderInv

-----------------------------------------------------------------------------
\* Each handler appends a suffix the lemma accepts.
LEMMA HandlersExtend ==
  ASSUME AggTypeOK, AggInv, ~doneSent, NEW e \in Event, Legal(e),
         Handle(e) \/ HandleDone
  PROVE  /\ \E t : Extends(t) /\ NoDone(t)
         /\ doneSent' = doneSent /\ stopped' \subseteq Indices
<1>0. /\ e.type \in EventTypes /\ e.index \in Indices /\ <<e>> \in Seq(Event)
      /\ emitted \in Seq(Event) /\ stopped \subseteq Indices
      /\ e.kind # "absent" /\ e.kind \in Kinds \cup {"unknown"}
      /\ "unknown" \in Kinds \cup {"unknown"}
      /\ \A i \in stopped : items[i] # "absent"
      /\ DOMAIN items = Indices
  BY DEF Event, AggTypeOK, AggInv, OrderInv, StoppedAreItems, Kinds
<1>1. \/ Preamble = <<>> /\ responseStarted
      \/ Preamble = <<Created>> /\ ~responseStarted
  BY DEF Preamble
<1>2. Created \in Event /\ Created.type = "message_start"
  BY MadeUpEvents DEF Created, Bare
<1>3. \A k \in Kinds \cup {"unknown"} :
        LET a == ItemAdded(e.index, k)
        IN a \in Event /\ a.type = "content_part_start" /\ a.index = e.index
  BY <1>0, MadeUpEvents DEF ItemAdded, Bare
<1>j. /\ emitted \o <<>> = emitted
      /\ (emitted \o <<Created>>) \o <<e>> = emitted \o <<Created, e>>
      /\ <<Created, e>> \in Seq(Event)
      /\ Append(emitted, e) = emitted \o <<e>>
  <2>1. emitted \in Seq(Event) /\ e \in Event
    BY <1>0
  <2>2. emitted \o <<>> = emitted /\ Append(emitted, e) = emitted \o <<e>>
    BY <2>1, JoinOne, Zenon
  <2>3. /\ (emitted \o <<Created>>) \o <<e>> = emitted \o <<Created, e>>
        /\ <<Created, e>> \in Seq(Event)
    BY <1>2, <2>1, JoinTwo
  <2> QED BY <2>2, <2>3
<1>k. \A k \in Kinds \cup {"unknown"} :
        LET a == ItemAdded(e.index, k)
        IN /\ (emitted \o <<a>>) \o <<e>> = emitted \o <<a, e>>
           /\ ((emitted \o <<Created>>) \o <<a>>) \o <<e>> = emitted \o <<Created, a, e>>
           /\ <<a, e>> \in Seq(Event) /\ <<Created, a, e>> \in Seq(Event)
  <2> TAKE k \in Kinds \cup {"unknown"}
  <2>1. ItemAdded(e.index, k) \in Event
    BY <1>3
  <2> DEFINE a == ItemAdded(e.index, k)
  <2>2. a \in Event /\ e \in Event /\ Created \in Event /\ emitted \in Seq(Event)
    BY <2>1, <1>0, <1>2
  <2> HIDE DEF a
  <2>3. (emitted \o <<a>>) \o <<e>> = emitted \o <<a, e>> /\ <<a, e>> \in Seq(Event)
    BY <2>2, JoinTwo
  <2>4. /\ ((emitted \o <<Created>>) \o <<a>>) \o <<e>> = emitted \o <<Created, a, e>>
        /\ <<Created, a, e>> \in Seq(Event)
    BY <2>2, JoinThree
  <2> QED BY <2>3, <2>4 DEF a
<1>4. CASE HandleMessageStart(e) /\ e.type = "message_start"
  <2>1. Extends(<<e>>) /\ NoDone(<<e>>)
    BY <1>4, <1>0 DEF HandleMessageStart, Extends, NoDone, OutputTypes, IsStart, IsStop
  <2> QED BY <2>1, <1>4, <1>0 DEF HandleMessageStart
<1>5. CASE HandleContentStart(e) /\ e.type = "content_part_start"
  <2>0. e.index \notin stopped /\ stopped' = stopped /\ responseStarted' = TRUE
    BY <1>5 DEF Legal, HandleContentStart
  <2>1. \A i \in Indices : items'[i] # "absent" <=> items[i] # "absent" \/ i = e.index
    BY <1>5, <1>0 DEF HandleContentStart, EnsureItem
  <2>2. CASE responseStarted
    <3>1. emitted' = emitted \o <<e>>
      BY <1>5, <1>0, <1>1, <1>j, <2>2 DEF HandleContentStart
    <3>2. Extends(<<e>>) /\ NoDone(<<e>>)
      BY <3>1, <1>0, <1>5, <2>0, <2>1, <2>2 DEF Extends, NoDone, OutputTypes, IsStart, IsStop
    <3> QED BY <3>2, <1>5, <1>0 DEF HandleContentStart
  <2>3. CASE ~responseStarted
    <3>1. emitted' = emitted \o <<Created, e>>
      BY <1>5, <1>1, <1>j, <2>3 DEF HandleContentStart
    <3>2. Extends(<<Created, e>>) /\ NoDone(<<Created, e>>)
      BY <3>1, <1>0, <1>2, <1>j, <1>5, <2>0, <2>1, <2>3
         DEF Extends, NoDone, OutputTypes, IsStart, IsStop
    <3> QED BY <3>2, <1>5, <1>0 DEF HandleContentStart
  <2> QED BY <2>2, <2>3
<1>6. CASE HandleContentDelta(e) /\ e.type = "content_part_delta"
  <2> DEFINE a == ItemAdded(e.index, e.kind)
  <2>0. responseStarted' = TRUE /\ doneSent' = doneSent
    BY <1>6 DEF HandleContentDelta
  <2>s. e.index \notin stopped /\ stopped' = stopped /\ stopped' \subseteq Indices
    BY <1>6, <1>0 DEF Legal, HandleContentDelta
  <2>1. \A i \in Indices : items'[i] # "absent" <=> items[i] # "absent" \/ i = e.index
    BY <1>6, <1>0 DEF HandleContentDelta, EnsureItem
  <2>2. a \in Event /\ a.type = "content_part_start" /\ a.index = e.index
    BY <1>0, <1>3
  <2>3. /\ (emitted \o <<a>>) \o <<e>> = emitted \o <<a, e>>
        /\ ((emitted \o <<Created>>) \o <<a>>) \o <<e>> = emitted \o <<Created, a, e>>
        /\ <<a, e>> \in Seq(Event) /\ <<Created, a, e>> \in Seq(Event)
    BY <1>0, <1>k
  <2>4. emitted' = ((emitted \o Preamble) \o AddedFirst(e.index, e.kind)) \o <<e>>
    BY <1>6 DEF HandleContentDelta
  <2>5. AddedFirst(e.index, e.kind) = IF items[e.index] = "absent" THEN <<a>> ELSE <<>>
    BY DEF AddedFirst
  <2>6. /\ (emitted \o <<Created>>) \o <<>> = emitted \o <<Created>>
        /\ emitted \o <<>> = emitted
    BY <1>0, <1>2, JoinOne, Concatenation
  <2> HIDE DEF a
  <2>7. CASE responseStarted /\ items[e.index] # "absent"
    <3>1. emitted' = emitted \o <<e>>
      BY <1>1, <2>4, <2>5, <2>6, <2>7
    <3>2. Extends(<<e>>) /\ NoDone(<<e>>)
      BY <3>1, <1>0, <1>6, <2>s, <2>0, <2>1, <2>7
         DEF Extends, NoDone, OutputTypes, IsStart, IsStop
    <3> QED BY <3>2, <2>s, <2>0
  <2>8. CASE responseStarted /\ items[e.index] = "absent"
    <3>1. emitted' = emitted \o <<a, e>>
      BY <1>1, <2>3, <2>4, <2>5, <2>6, <2>8
    <3>2. Extends(<<a, e>>) /\ NoDone(<<a, e>>)
      BY <3>1, <1>0, <1>6, <2>s, <2>0, <2>1, <2>2, <2>3, <2>8
         DEF Extends, NoDone, OutputTypes, IsStart, IsStop
    <3> QED BY <3>2, <2>s, <2>0
  <2>9. CASE ~responseStarted /\ items[e.index] # "absent"
    <3>1. emitted' = emitted \o <<Created, e>>
      BY <1>1, <1>j, <2>4, <2>5, <2>6, <2>9
    <3>2. Extends(<<Created, e>>)
      BY <3>1, <1>0, <1>2, <1>j, <1>6, <2>s, <2>0, <2>1, <2>9
         DEF Extends, OutputTypes, IsStart, IsStop
    <3>3. NoDone(<<Created, e>>)
      BY <1>2, <1>6 DEF NoDone
    <3> QED BY <3>2, <3>3, <2>s, <2>0
  <2>10. CASE ~responseStarted /\ items[e.index] = "absent"
    <3>1. emitted' = emitted \o <<Created, a, e>>
      BY <1>1, <2>3, <2>4, <2>5, <2>10
    <3>2. Extends(<<Created, a, e>>) /\ NoDone(<<Created, a, e>>)
      BY <3>1, <1>0, <1>2, <1>6, <2>s, <2>0, <2>1, <2>2, <2>3, <2>10
         DEF Extends, NoDone, OutputTypes, IsStart, IsStop
    <3> QED BY <3>2, <2>s, <2>0
  <2> QED BY <2>7, <2>8, <2>9, <2>10
<1>7. CASE HandleContentStop(e) /\ e.type = "content_part_stop"
  <2> DEFINE a == ItemAdded(e.index, "unknown")
  <2>0. responseStarted' = TRUE /\ doneSent' = doneSent
    BY <1>7 DEF HandleContentStop
  <2>s. stopped' = stopped \cup {e.index} /\ stopped' \subseteq Indices
    BY <1>7, <1>0 DEF Legal, HandleContentStop
  <2>1. \A i \in Indices : items'[i] # "absent" <=> items[i] # "absent" \/ i = e.index
    BY <1>7, <1>0 DEF HandleContentStop, EnsureItem
  <2>2. a \in Event /\ a.type = "content_part_start" /\ a.index = e.index
    BY <1>0, <1>3
  <2>3. /\ (emitted \o <<a>>) \o <<e>> = emitted \o <<a, e>>
        /\ ((emitted \o <<Created>>) \o <<a>>) \o <<e>> = emitted \o <<Created, a, e>>
        /\ <<a, e>> \in Seq(Event) /\ <<Created, a, e>> \in Seq(Event)
    BY <1>0, <1>k
  <2>4. emitted' = ((emitted \o Preamble) \o AddedFirst(e.index, "unknown")) \o <<e>>
    BY <1>7 DEF HandleContentStop
  <2>5. AddedFirst(e.index, "unknown") = IF items[e.index] = "absent" THEN <<a>> ELSE <<>>
    BY DEF AddedFirst
  <2>6. /\ (emitted \o <<Created>>) \o <<>> = emitted \o <<Created>>
        /\ emitted \o <<>> = emitted
    BY <1>0, <1>2, JoinOne, Concatenation
  <2> HIDE DEF a
  <2>7. CASE responseStarted /\ items[e.index] # "absent"
    <3>1. emitted' = emitted \o <<e>>
      BY <1>1, <2>4, <2>5, <2>6, <2>7
    <3>2. Extends(<<e>>) /\ NoDone(<<e>>)
      BY <3>1, <1>0, <1>7, <2>s, <2>0, <2>1, <2>7
         DEF Extends, NoDone, OutputTypes, IsStart, IsStop
    <3> QED BY <3>2, <2>s, <2>0
  <2>8. CASE responseStarted /\ items[e.index] = "absent"
    <3>1. emitted' = emitted \o <<a, e>>
      BY <1>1, <2>3, <2>4, <2>5, <2>6, <2>8
    <3> DEFINE t == <<a, e>>
    <3>2. Len(t) = 2 /\ t \in Seq(Event) /\ t[1] = a /\ t[2] = e
      BY <2>3
    <3> HIDE DEF t
    <3>3. \A i \in stopped' :
            IF i \in stopped THEN \A q \in 1..Len(t) : ~IsStart(t[q], i)
            ELSE \E r \in 1..Len(t) : /\ IsStop(t[r], i)
                                     /\ \A q \in 1..Len(t) : IsStart(t[q], i) => q < r
      <4> TAKE i \in stopped'
      <4>1. 2 \in 1..Len(t) /\ \A q \in 1..Len(t) : q = 1 \/ q = 2
        BY <3>2
      <4>2. CASE i \in stopped
        BY <4>1, <4>2, <3>2, <1>0, <1>2, <1>7, <2>2, <2>8 DEF IsStart
      <4>3. CASE i \notin stopped
        <5>1. i = e.index
          BY <4>3, <2>s
        <5>2. IsStop(t[2], i) /\ ~IsStart(t[2], i)
          BY <5>1, <1>7, <3>2 DEF IsStop, IsStart
        <5>3. \A q \in 1..Len(t) : IsStart(t[q], i) => q < 2
          BY <5>2, <4>1
        <5> QED BY <4>1, <4>3, <5>2, <5>3
      <4> QED BY <4>2, <4>3
    <3>b. emitted' = emitted \o t /\ \A q \in 1..Len(t) : q = 1 \/ q = 2
      BY <3>1, <3>2 DEF t
    <3>c. 1 \in 1..Len(t) /\ 2 \in 1..Len(t)
      BY <3>2
    <3>d. \A i \in Indices : items'[i] # "absent" <=>
            items[i] # "absent" \/ \E q \in 1..Len(t) : IsStart(t[q], i)
      BY <3>2, <3>b, <3>c, <1>0, <1>2, <1>7, <2>1, <2>2, <2>8 DEF IsStart
    <3>e. \A i \in stopped' : items'[i] # "absent"
      BY <3>d, <1>0, <2>s, <2>1
    <3>f. \A p \in 1..Len(t) :
            t[p].type = "content_part_stop" => t[p].index \in stopped'
      BY <3>2, <3>b, <1>2, <1>7, <2>s, <2>2, <2>8
    <3>g. \A p \in 1..Len(t) : t[p].type \notin {"content_part_delta", "done"}
      BY <3>2, <3>b, <1>2, <1>7, <2>2, <2>8
    <3>h. \A p \in 1..Len(t) : t[p].type \in OutputTypes =>
            responseStarted \/ \E q \in 1..(p - 1) : t[q].type = "message_start"
      BY <3>2, <3>b, <1>2, <1>7, <2>2, <2>8 DEF OutputTypes
    <3>i. responseStarted \/ \E q \in 1..Len(t) : t[q].type = "message_start"
      BY <3>2, <3>c, <1>2, <2>2, <2>8
    <3>4. Extends(t) /\ NoDone(t)
      BY <3>2, <3>3, <3>b, <3>d, <3>e, <3>f, <3>g, <3>h, <3>i, <2>s DEF Extends, NoDone
    <3> QED BY <3>4, <2>s, <2>0
  <2>9. CASE ~responseStarted /\ items[e.index] # "absent"
    <3>1. emitted' = emitted \o <<Created, e>>
      BY <1>1, <1>j, <2>4, <2>5, <2>6, <2>9
    <3> DEFINE t == <<Created, e>>
    <3>2. Len(t) = 2 /\ t \in Seq(Event) /\ t[1] = Created /\ t[2] = e
      BY <1>j
    <3> HIDE DEF t
    <3>3. \A i \in stopped' :
            IF i \in stopped THEN \A q \in 1..Len(t) : ~IsStart(t[q], i)
            ELSE \E r \in 1..Len(t) : /\ IsStop(t[r], i)
                                     /\ \A q \in 1..Len(t) : IsStart(t[q], i) => q < r
      <4> TAKE i \in stopped'
      <4>1. 2 \in 1..Len(t) /\ \A q \in 1..Len(t) : q = 1 \/ q = 2
        BY <3>2
      <4>2. CASE i \in stopped
        BY <4>1, <4>2, <3>2, <1>0, <1>2, <1>7, <2>9 DEF IsStart
      <4>3. CASE i \notin stopped
        <5>1. i = e.index
          BY <4>3, <2>s
        <5>2. IsStop(t[2], i) /\ ~IsStart(t[2], i)
          BY <5>1, <1>7, <3>2 DEF IsStop, IsStart
        <5>3. \A q \in 1..Len(t) : IsStart(t[q], i) => q < 2
          BY <5>2, <4>1
        <5> QED BY <4>1, <4>3, <5>2, <5>3
      <4> QED BY <4>2, <4>3
    <3>b. emitted' = emitted \o t /\ \A q \in 1..Len(t) : q = 1 \/ q = 2
      BY <3>1, <3>2 DEF t
    <3>c. 1 \in 1..Len(t) /\ 2 \in 1..Len(t)
      BY <3>2
    <3>d. \A i \in Indices : items'[i] # "absent" <=>
            items[i] # "absent" \/ \E q \in 1..Len(t) : IsStart(t[q], i)
      BY <3>2, <3>b, <3>c, <1>0, <1>2, <1>7, <2>1, <2>9 DEF IsStart
    <3>e. \A i \in stopped' : items'[i] # "absent"
      BY <3>d, <1>0, <2>s, <2>1
    <3>f. \A p \in 1..Len(t) :
            t[p].type = "content_part_stop" => t[p].index \in stopped'
      BY <3>2, <3>b, <1>2, <1>7, <2>s, <2>9
    <3>g. \A p \in 1..Len(t) : t[p].type \notin {"content_part_delta", "done"}
      BY <3>2, <3>b, <1>2, <1>7, <2>9
    <3>h. \A p \in 1..Len(t) : t[p].type \in OutputTypes =>
            responseStarted \/ \E q \in 1..(p - 1) : t[q].type = "message_start"
      BY <3>2, <3>b, <1>2, <1>7, <2>9 DEF OutputTypes
    <3>i. responseStarted \/ \E q \in 1..Len(t) : t[q].type = "message_start"
      BY <3>2, <3>c, <1>2, <2>9
    <3>4. Extends(t) /\ NoDone(t)
      BY <3>2, <3>3, <3>b, <3>d, <3>e, <3>f, <3>g, <3>h, <3>i, <2>s DEF Extends, NoDone
    <3> QED BY <3>4, <2>s, <2>0
  <2>10. CASE ~responseStarted /\ items[e.index] = "absent"
    <3>1. emitted' = emitted \o <<Created, a, e>>
      BY <1>1, <2>3, <2>4, <2>5, <2>10
    <3>2. Extends(<<Created, a, e>>) /\ NoDone(<<Created, a, e>>)
      BY <3>1, <1>0, <1>2, <1>7, <2>s, <2>0, <2>1, <2>2, <2>3, <2>10
         DEF Extends, NoDone, OutputTypes, IsStart, IsStop
    <3> QED BY <3>2, <2>s, <2>0
  <2> QED BY <2>7, <2>8, <2>9, <2>10
<1>8. CASE HandleMessageDelta(e) /\ e.type = "message_delta"
  <2>0. /\ UNCHANGED <<responseStarted, items, stopped, doneSent>>
        /\ emitted' = (emitted \o Preamble) \o <<e>>
    BY <1>8 DEF HandleMessageDelta
  <2>1. CASE responseStarted
    <3>1. emitted' = emitted \o <<e>>
      BY <1>1, <1>j, <2>0, <2>1
    <3>2. Extends(<<e>>) /\ NoDone(<<e>>)
      BY <3>1, <1>0, <1>8, <2>0, <2>1 DEF Extends, NoDone, OutputTypes, IsStart, IsStop
    <3> QED BY <3>2, <2>0, <1>0
  <2>2. CASE ~responseStarted
    <3>1. emitted' = emitted \o <<Created, e>>
      BY <1>1, <1>j, <2>0, <2>2
    <3>2. Extends(<<Created, e>>) /\ NoDone(<<Created, e>>)
      BY <3>1, <1>0, <1>2, <1>j, <1>8, <2>0, <2>2
         DEF Extends, NoDone, OutputTypes, IsStart, IsStop
    <3> QED BY <3>2, <2>0, <1>0
  <2> QED BY <2>1, <2>2
<1>9. CASE HandleError(e) /\ e.type = "error"
  <2>1. emitted' = emitted \o <<e>>
    BY <1>9, <1>j DEF HandleError
  <2>2. Extends(<<e>>) /\ NoDone(<<e>>)
    BY <2>1, <1>0, <1>9 DEF HandleError, Extends, NoDone, OutputTypes, IsStart, IsStop
  <2> QED BY <2>2, <1>9, <1>0 DEF HandleError
<1>10. CASE HandleDone
  <2>0. /\ UNCHANGED <<items, stopped, doneSent>> /\ responseStarted' = TRUE
        /\ emitted' = emitted \o Preamble
    BY <1>10 DEF HandleDone
  <2>1. CASE responseStarted
    <3>1. <<>> \in Seq(Event) /\ Len(<<>>) = 0
      OBVIOUS
    <3>a. emitted' = emitted \o <<>>
      BY <1>1, <2>0, <2>1
    <3>2. Extends(<<>>) /\ NoDone(<<>>)
      BY <3>1, <3>a, <1>0, <2>0, <2>1 DEF Extends, NoDone
    <3> QED BY <3>2, <2>0, <1>0
  <2>2. CASE ~responseStarted
    <3>1. emitted' = emitted \o <<Created>>
      BY <1>1, <2>0, <2>2
    <3>a. <<Created>> \in Seq(Event)
      BY <1>2
    <3>2. Extends(<<Created>>) /\ NoDone(<<Created>>)
      BY <3>1, <3>a, <1>0, <1>2, <2>0, <2>2 DEF Extends, NoDone, OutputTypes, IsStart, IsStop
    <3> QED BY <3>2, <2>0, <1>0
  <2> QED BY <2>1, <2>2
<1> QED
  BY <1>4, <1>5, <1>6, <1>7, <1>8, <1>9, <1>10 DEF Handle

-----------------------------------------------------------------------------
\* The invariant is inductive.
LEMMA AggInvInit == AggInit => AggInv
<1> SUFFICES ASSUME AggInit PROVE AggInv
  OBVIOUS
<1>1. /\ emitted = <<>> /\ Len(emitted) = 0 /\ 1..Len(emitted) = {} /\ stopped = {}
      /\ ~responseStarted /\ ~finishing /\ ~doneSent
      /\ \A i \in Indices : items[i] = "absent"
  <2>1. Len(<<>>) = 0 /\ 1..0 = {}
    OBVIOUS
  <2> QED BY <2>1 DEF AggInit
<1> QED
  BY <1>1 DEF AggInv, OrderInv, Announced, ItemsAreStarted, StopsAreRecorded,
     StopFollowsStart, StoppedAreItems, CreatedFirst, DeltasInsideItems,
     NotDoneYet, Finishing, ClosedBeforeDone, DoneIsLast

LEMMA AggInvNext ==
  ASSUME AggTypeOK, AggInv, [AggNext]_aggVars
  PROVE  AggInv'
<1>1. ASSUME NEW e \in Event, Legal(e), ~finishing, ~doneSent,
             Handle(e) \/ HandleDone
      PROVE  AggInv'
  <2>1. PICK t : Extends(t) /\ NoDone(t)
    BY <1>1, HandlersExtend
  <2>2. doneSent' = doneSent /\ stopped' \subseteq Indices
    BY <1>1, HandlersExtend
  <2>3. OrderInv' /\ NotDoneYet' /\ ClosedBeforeDone' /\ DoneIsLast'
    BY <1>1, <2>1, <2>2, Appended
  <2>4. Finishing'
    <3>1. CASE Handle(e) /\ ~HandleDone
      BY <3>1, <1>1 DEF Handle, HandleMessageStart, HandleContentStart,
         HandleContentDelta, HandleContentStop, HandleMessageDelta, HandleError,
         Finishing
    <3>2. CASE HandleDone
      BY <3>2, <1>1 DEF HandleDone, Finishing
    <3> QED BY <1>1, <3>1, <3>2
  <2> QED BY <2>3, <2>4 DEF AggInv
<1>2. CASE UNCHANGED aggVars
  <2>1. /\ emitted' = emitted /\ stopped' = stopped /\ items' = items
        /\ doneSent' = doneSent /\ finishing' = finishing
        /\ responseStarted' = responseStarted
    BY <1>2 DEF aggVars
  <2>2. (Announced /\ ItemsAreStarted /\ StopsAreRecorded /\ StopFollowsStart)'
    BY <2>1 DEF AggInv, OrderInv, Announced, ItemsAreStarted, StopsAreRecorded,
       StopFollowsStart, IsStart, IsStop
  <2>3. StoppedAreItems' /\ CreatedFirst' /\ DeltasInsideItems'
    BY <2>1 DEF AggInv, OrderInv, StoppedAreItems, CreatedFirst, DeltasInsideItems
  <2>4. NotDoneYet' /\ Finishing' /\ ClosedBeforeDone' /\ DoneIsLast'
    BY <2>1 DEF AggInv, NotDoneYet, Finishing, ClosedBeforeDone, DoneIsLast
  <2> QED BY <2>2, <2>3, <2>4 DEF AggInv, OrderInv
<1>3. CASE CloseItem
  <2>1. PICK i \in OpenItems :
          stopped' = stopped \cup {i} /\ emitted' = Append(emitted, Stop(i))
    BY <1>3 DEF CloseItem
  <2>2. /\ i \in Indices /\ items[i] # "absent" /\ i \notin stopped
        /\ stopped \subseteq Indices /\ emitted \in Seq(Event)
        /\ finishing /\ ~doneSent /\ responseStarted
        /\ UNCHANGED <<responseStarted, items, finishing, doneSent>>
        /\ \A j \in stopped : items[j] # "absent"
    BY <1>3 DEF OpenItems, AggTypeOK, CloseItem, AggInv, OrderInv, Finishing,
       StoppedAreItems
  <2>3. /\ Stop(i) \in Event /\ Stop(i).type = "content_part_stop"
        /\ Stop(i).index = i
    BY <2>2, MadeUpEvents DEF Stop, Bare
  <2>4. emitted' = emitted \o <<Stop(i)>> /\ <<Stop(i)>> \in Seq(Event)
    BY <2>1, <2>2, <2>3, JoinOne
  <2>5. Extends(<<Stop(i)>>)
    BY <2>1, <2>2, <2>3, <2>4 DEF Extends, IsStart, IsStop
  <2>6. NoDone(<<Stop(i)>>)
    BY <2>3 DEF NoDone
  <2>7. OrderInv' /\ NotDoneYet' /\ ClosedBeforeDone' /\ DoneIsLast'
    BY <2>1, <2>2, <2>5, <2>6, Appended
  <2> QED BY <2>2, <2>7 DEF AggInv, Finishing
<1>4. CASE SendDone
  <2> DEFINE md == [Bare("message_delta", 0, "unknown") EXCEPT !.stop = stopReason,
                                                               !.usage = usage]
             dn == [Bare("done", 0, "unknown") EXCEPT !.usage = usage]
             n == Len(emitted)
  <2>1. md \in Event /\ dn \in Event
    BY MadeUpEvents DEF AggTypeOK
  <2>2. md.type = "message_delta" /\ dn.type = "done"
    BY DEF Bare
  <2>3. emitted' = emitted \o <<md, dn>>
    BY <1>4 DEF SendDone
  <2>4. /\ finishing /\ ~doneSent /\ responseStarted /\ OpenItems = {}
        /\ ~finishing' /\ UNCHANGED <<responseStarted, items, stopped>>
        /\ emitted \in Seq(Event) /\ stopped \subseteq Indices
        /\ \A j \in stopped : items[j] # "absent"
    BY <1>4 DEF SendDone, AggInv, OrderInv, Finishing, AggTypeOK, StoppedAreItems
  <2> HIDE DEF md, dn
  <2>5. <<md, dn>> \in Seq(Event) /\ Len(<<md, dn>>) = 2
    BY <2>1
  <2>6. Extends(<<md, dn>>)
    BY <2>2, <2>3, <2>4, <2>5 DEF Extends, IsStart, IsStop
  <2>7. OrderInv'
    BY <2>4, <2>6, Appended
  <2>8. /\ n \in Nat /\ Len(emitted') = n + 2
        /\ \A p \in 1..n : emitted'[p] = emitted[p]
        /\ emitted'[n + 1] = md /\ emitted'[n + 2] = dn
    <3>1. \A p \in 1..2 : (emitted \o <<md, dn>>)[Len(emitted) + p] = <<md, dn>>[p]
      BY <2>4, <2>5, Concatenation
    <3> QED BY <2>3, <2>4, <2>5, <3>1, Concatenation
  <2>9. \A p \in 1..n : emitted'[p].type # "done"
    BY <2>4, <2>8 DEF AggInv, NotDoneYet
  <2> HIDE DEF n
  <2>10. \A p \in 1..Len(emitted') : emitted'[p].type = "done" => p = n + 2
    <3> SUFFICES ASSUME NEW p \in 1..Len(emitted'), p # n + 2
                 PROVE  emitted'[p].type # "done"
      OBVIOUS
    <3>1. p \in 1..n \/ p = n + 1
      BY <2>8
    <3> QED BY <3>1, <2>2, <2>8, <2>9
  <2>11. DoneIsLast'
    BY <2>8, <2>10 DEF DoneIsLast
  <2>12. ClosedBeforeDone'
    <3> SUFFICES ASSUME NEW q \in 1..Len(emitted'),
                        emitted'[q].type = "content_part_start"
                 PROVE  \E r \in (q + 1)..(n + 1) :
                          /\ emitted'[r].type = "content_part_stop"
                          /\ emitted'[r].index = emitted'[q].index
      BY <2>8, <2>10 DEF ClosedBeforeDone
    <3>1. q \in 1..n /\ emitted'[q] = emitted[q]
      <4>1. q # n + 1 /\ q # n + 2
        BY <2>2, <2>8
      <4> QED BY <4>1, <2>8
    <3>2. emitted[q].index \in Indices
      <4>1. emitted[q] \in Event
        BY <2>4, <3>1 DEF n
      <4> QED BY <4>1 DEF Event
    <3>3. items[emitted[q].index] # "absent"
      BY <3>1, <3>2 DEF AggInv, OrderInv, ItemsAreStarted, IsStart, n
    <3>4. emitted[q].index \in stopped
      BY <2>4, <3>2, <3>3 DEF OpenItems
    <3>5. PICK r \in (q + 1)..n : IsStop(emitted[r], emitted[q].index)
      BY <3>1, <3>4 DEF AggInv, OrderInv, StopFollowsStart, n
    <3>6. r \in 1..n /\ r \in (q + 1)..(n + 1) /\ emitted'[r] = emitted[r]
      BY <2>8, <3>1, <3>5
    <3> QED BY <3>1, <3>5, <3>6 DEF IsStop
  <2>13. doneSent'
    BY <1>4 DEF SendDone
  <2> QED BY <2>4, <2>7, <2>11, <2>12, <2>13 DEF AggInv, NotDoneYet, Finishing
<1>5. ASSUME Finalize, ~finishing PROVE AggInv'
  <2> DEFINE e == Bare("done", 0, "unknown")
  <2>1. e \in Event /\ Legal(e)
    BY IndicesAssumption DEF Bare, Event, EventTypes, Kinds, StopReasons, Legal
  <2> QED BY <1>1, <1>2, <1>5, <2>1 DEF Finalize
<1> QED
  BY <1>1, <1>2, <1>3, <1>4, <1>5 DEF AggNext, ProcessIREvent

(* The flags of the aggregator and its items always agree with what it has   *)
(* emitted, whatever the provider sends.                                     *)
THEOREM AggInvariant == AggSpec => []AggInv
BY AggTypeCorrect, AggInvInit, AggInvNext, PTL DEF AggSpec

\* Guarantee 1: no output event is sent before response.created.
THEOREM CreatedPrecedes == AggSpec => []CreatedFirst
<1>1. AggInv => CreatedFirst
  BY DEF AggInv, OrderInv
<1> QED BY <1>1, AggInvariant, PTL

\* Guarantee 2: each delta lies between the start and the stop of its item.
THEOREM DeltasAreInside == AggSpec => []DeltasInsideItems
<1>1. AggInv => DeltasInsideItems
  BY DEF AggInv, OrderInv
<1> QED BY <1>1, AggInvariant, PTL

\* Guarantee 3: when done is sent, every started item was stopped before it.
THEOREM ItemsAreClosed == AggSpec => []ClosedBeforeDone
<1>1. AggInv => ClosedBeforeDone
  BY DEF AggInv
<1> QED BY <1>1, AggInvariant, PTL

\* Guarantee 4: done is sent once, and nothing is sent after it.
THEOREM DoneEnds == AggSpec => []DoneIsLast
<1>1. AggInv => DoneIsLast
  BY DEF AggInv
<1> QED BY <1>1, AggInvariant, PTL

-----------------------------------------------------------------------------
(* The conversion drives the aggregator.                                     *)

Phases == {"new", "answering", "finished", "failed", "ended"}
Payloads == [type: {"begin", "start", "delta", "stop", "usage", "finish", "done", "error"},
             index: Indices, kind: Kinds \cup {"unknown", ""}, stop: StopReasons]

\* The types of the conversion's variables.
ConvTypeOK ==
  /\ route \in Routes
  /\ answer \in [phase: Phases, items: Seq(Kinds), open: BOOLEAN,
                 deltas: Seq(Kinds), stop: StopReasons]
  /\ Items <= MaxItems /\ (answer.open => Items > 0)
  /\ decoded \in Seq(Event)
  /\ encoded \in 0..Len(emitted)
  /\ enc \in [text: SUBSET Indices, tool: SUBSET Indices,
              last: [Indices -> {"absent", "text", "tool_call"}], stop: StopReasons]
  /\ written \in Seq(Payloads)
  /\ panicked \in BOOLEAN

\* The answer may still grow; the aggregator still takes events.
Begun == answer.phase \in {"new", "answering"}
Live == ~finishing /\ ~doneSent

Opening(e) == e.type \in {"content_part_start", "content_part_delta"}
Stopping(e) == e.type = "content_part_stop"

\* Nothing has ended while the provider may still send items.
NothingEnded ==
  Begun => /\ Live /\ answer.stop = ""
           /\ \A p \in 1..Len(decoded) : decoded[p].type # "done"

\* The items that may have been stopped by the provider: in the framed
\* protocols the closed ones, in Gemini none before the end, in chat none.
Closed == IF answer.open THEN Items - 1 ELSE Items
Stoppable(i) ==
  CASE Upstream = "chat" -> FALSE
    [] Upstream = "gemini" -> ~Begun
    [] OTHER -> i < Closed

StopsInOrder ==
  /\ Live => \A i \in stopped : Stoppable(i)
  /\ \A p \in 1..Len(decoded) :
       Stopping(decoded[p]) =>
         /\ p = 1 /\ Stoppable(decoded[p].index)
         /\ Live => decoded[p].index \notin stopped

\* A start or a delta is alone in its chunk, and of an item that is open.
OpensAlone ==
  \A p \in 1..Len(decoded) :
    Opening(decoded[p]) => /\ Len(decoded) = 1
                           /\ answer.phase = "answering"
                           /\ decoded[p].index \notin stopped

ConvInv == ConvTypeOK /\ NothingEnded /\ StopsInOrder /\ OpensAlone

-----------------------------------------------------------------------------
(* The counts.                                                               *)

Tally(s, S) == Cardinality({p \in 1..Len(s) : s[p] \in S})
DeltasOf(class) == {e \in Event : e.type = "content_part_delta" /\ Class(e.kind) = class}
PayloadsOf(class) == {e \in Payloads : e.type = "delta" /\ e.kind = class}

\* The deltas the provider sent are those the aggregator has sent on and those
\* it will take next.
SentOn ==
  /\ Tally(answer.deltas, TextKinds)
       = Tally(emitted, DeltasOf("text")) + Tally(decoded, DeltasOf("text"))
  /\ Upstream # "gemini" =>
       Tally(answer.deltas, {"tool_call"})
         = Tally(emitted, DeltasOf("tool_call")) + Tally(decoded, DeltasOf("tool_call"))

\* The deltas the client got are those of the events that have been encoded.
Encoded(S) == Cardinality({p \in 1..encoded : emitted[p] \in S})
WrittenOn ==
  /\ Tally(written, PayloadsOf("text")) = Encoded(DeltasOf("text"))
  /\ Entry # "gemini" =>
       Tally(written, PayloadsOf("tool_call")) = Encoded(DeltasOf("tool_call"))

-----------------------------------------------------------------------------
(* The reason.                                                               *)

Reports(e) == e.type = "message_delta"

\* No report gives another reason than the provider's.
OneReason ==
  /\ stopReason \in {"", Decoded(answer.stop)}
  /\ \A p \in 1..Len(decoded) :
       Reports(decoded[p]) => decoded[p].stop \in {"", Decoded(answer.stop)}

\* The aggregator knows the reason or will know it before it is done.
ReasonKnown ==
  answer.stop # "" =>
    \/ stopReason = Decoded(answer.stop)
    \/ /\ Live
       /\ \E p \in 1..Len(decoded) :
            /\ Reports(decoded[p]) /\ decoded[p].stop = Decoded(answer.stop)
            /\ \A q \in 1..(p - 1) : decoded[q].type # "done"

\* The last events are a report of that reason and done.
ReasonLast ==
  doneSent =>
    /\ Len(emitted) >= 2
    /\ Reports(emitted[Len(emitted) - 1]) /\ emitted[Len(emitted) - 1].stop = stopReason
    /\ emitted[Len(emitted)].type = "done"

\* The client has been told.
ReasonTold ==
  doneSent /\ stopReason # "" /\ encoded >= Len(emitted) - 1 =>
    /\ Entry = "anthropic" => LastTold(stopReason)
    /\ Entry = "gemini" => LastTold(Completed(stopReason))
    /\ Entry = "responses" => /\ enc.stop = stopReason
                              /\ encoded = Len(emitted) => LastTold(Completed(stopReason))

ReasonInv == OneReason /\ ReasonKnown /\ ReasonLast /\ ReasonTold

-----------------------------------------------------------------------------
(* The items.                                                                *)

\* The items of a provider that frames them, and the class of their deltas.
Opened(i) == IF Upstream = "gemini" THEN i = 0 /\ Items > 0 ELSE i < Items
ClassOf(i) == IF Upstream = "gemini" THEN "text" ELSE Class(answer.items[i + 1])
PendingStart(i) == \E p \in 1..Len(decoded) : IsStart(decoded[p], i)

ItemsFollow ==
  \A i \in Indices :
    /\ items[i] # "absent" <=> Opened(i) /\ ~PendingStart(i)
    /\ items[i] # "absent" => items[i] \in Kinds /\ Class(items[i]) = ClassOf(i)

\* A decoded event is of an item of the answer, and an opening one of its class.
EventFollows(e) ==
  /\ (Opening(e) \/ Stopping(e)) => Opened(e.index)
  /\ Opening(e) => e.kind \in Kinds /\ Class(e.kind) = ClassOf(e.index)

DecodedFollow == \A p \in 1..Len(decoded) : EventFollows(decoded[p])

OneStart ==
  \A p, q \in 1..Len(emitted) :
    /\ emitted[p].type = "content_part_start" /\ emitted[q].type = "content_part_start"
    /\ emitted[p].index = emitted[q].index
    => p = q

OneStop ==
  \A p, q \in 1..Len(emitted) :
    /\ Stopping(emitted[p]) /\ Stopping(emitted[q])
    /\ emitted[p].index = emitted[q].index
    => p = q

ClassesAgree ==
  \A p \in 1..Len(emitted) :
    Opening(emitted[p]) => Class(emitted[p].kind) = Class(items[emitted[p].index])

FramesInv ==
  Upstream # "chat" => ItemsFollow /\ DecodedFollow /\ OneStart /\ OneStop /\ ClassesAgree

\* What the client knows of an item.
StartSent(i) == \E p \in 1..encoded : IsStart(emitted[p], i)
StopSent(i) == \E p \in 1..encoded : IsStop(emitted[p], i)

\* A payload that is the start, a delta or the stop of an item.
Opens(d, i, class) == d.type = "start" /\ d.index = i /\ Class(d.kind) = class
Carries(d, i, class) == d.type = "delta" /\ d.index = i /\ Class(d.kind) = class
Closes(d, i) == d.type = "stop" /\ d.index = i
OfItem(d, i) == d.type \in Framing /\ d.index = i

\* An item in a sequence of payloads: open, or closed.
OwnIn(w, i) == {p \in 1..Len(w) : OfItem(w[p], i)}
IsOpen(w, i, class) ==
  \E f \in OwnIn(w, i) :
    /\ Opens(w[f], i, class)
    /\ \A p \in OwnIn(w, i) \ {f} : f < p /\ Carries(w[p], i, class)
IsClosed(w, i, class) ==
  \E f, l \in OwnIn(w, i) :
    /\ Opens(w[f], i, class) /\ Closes(w[l], i) /\ f < l
    /\ \A p \in OwnIn(w, i) \ {f, l} : f < p /\ p < l /\ Carries(w[p], i, class)

\* What the adapter remembers of an item.
Noted(i, kind) == i \in IF Class(kind) = "text" THEN enc.text ELSE enc.tool

FramedAt(i) ==
  /\ ~StartSent(i) => ~StopSent(i) /\ OwnIn(written, i) = {}
  /\ StartSent(i) => enc.last[i] # "absent" /\ Noted(i, items[i])
  /\ StartSent(i) /\ ~StopSent(i) => IsOpen(written, i, Class(items[i]))
  /\ StopSent(i) => IsClosed(written, i, Class(items[i]))

Framed ==
  Upstream # "chat" /\ Entry \in {"anthropic", "responses"} =>
    \A i \in Indices : FramedAt(i)

-----------------------------------------------------------------------------
(* What the provider's chunks are decoded to.                                *)

LEMMA RouteTyped ==
  ASSUME route \in Routes
  PROVE  /\ Upstream \in Protocols /\ Entry \in Protocols /\ Upstream # Entry
         /\ MaxItems \in Nat /\ MaxDeltas \in Nat /\ 0..MaxItems \subseteq Indices
<1>1. route \in {r \in Protocols \X Protocols : r[1] # r[2]}
  BY ConversionAssumption
<1> QED BY <1>1, ConversionAssumption DEF Upstream, Entry

\* The events the provider's adapter makes.
LEMMA ProviderEvents ==
  /\ \A i \in Indices, k \in Kinds :
       /\ Start(i, k) \in Event /\ Start(i, k).type = "content_part_start"
       /\ Start(i, k).index = i /\ Start(i, k).kind = k
       /\ Delta(i, k) \in Event /\ Delta(i, k).type = "content_part_delta"
       /\ Delta(i, k).index = i /\ Delta(i, k).kind = k
  /\ \A i \in Indices :
       Stop(i) \in Event /\ Stop(i).type = "content_part_stop" /\ Stop(i).index = i
  /\ \A s \in StopReasons, u \in BOOLEAN :
       /\ Report(s, u) \in Event /\ Report(s, u).type = "message_delta"
       /\ Report(s, u).stop = s
  /\ Created \in Event /\ Created.type = "message_start"
  /\ Done \in Event /\ Done.type = "done"
  /\ Error \in Event /\ Error.type = "error"
<1>1. \A type \in EventTypes, i \in Indices, k \in Kinds \cup {"unknown"} :
        /\ Bare(type, i, k) \in Event /\ Bare(type, i, k).type = type
        /\ Bare(type, i, k).index = i /\ Bare(type, i, k).kind = k
  BY DEF Bare, Event, StopReasons
<1>2. /\ 0 \in Indices
      /\ \A type \in {"message_start", "content_part_start", "content_part_delta",
                      "content_part_stop", "message_delta", "done", "error"} :
           type \in EventTypes
  BY IndicesAssumption DEF EventTypes
<1>3. \A i \in Indices, k \in Kinds :
        /\ Delta(i, k) \in Event /\ Delta(i, k).type = "content_part_delta"
        /\ Delta(i, k).index = i /\ Delta(i, k).kind = k
  BY <1>1, <1>2 DEF Delta
<1>4. \A i \in Indices, k \in Kinds :
        /\ Start(i, k) \in Event /\ Start(i, k).type = "content_part_start"
        /\ Start(i, k).index = i /\ Start(i, k).kind = k
  BY <1>2 DEF Start, Bare, Event, StopReasons
<1>5. \A i \in Indices :
        Stop(i) \in Event /\ Stop(i).type = "content_part_stop" /\ Stop(i).index = i
  BY <1>1, <1>2 DEF Stop
<1>6. \A s \in StopReasons, u \in BOOLEAN :
        /\ Report(s, u) \in Event /\ Report(s, u).type = "message_delta"
        /\ Report(s, u).stop = s
  BY <1>2 DEF Report, Bare, Event
<1>7. /\ Created \in Event /\ Created.type = "message_start"
      /\ Done \in Event /\ Done.type = "done"
      /\ Error \in Event /\ Error.type = "error"
  BY <1>1, <1>2 DEF Created, Done, Error
<1> QED BY <1>3, <1>4, <1>5, <1>6, <1>7

\* What the types say of the answer.
LEMMA AnswerTyped ==
  ASSUME ConvTypeOK
  PROVE  /\ answer.items \in Seq(Kinds) /\ Items \in Nat /\ Items <= MaxItems
         /\ answer.open \in BOOLEAN /\ answer.stop \in StopReasons
         /\ answer.deltas \in Seq(Kinds) /\ answer.phase \in Phases
         /\ answer.open => Items - 1 \in Nat /\ answer.items[Items] \in Kinds
         /\ \A n \in 1..Items : answer.items[n] \in Kinds
<1>1. /\ answer.items \in Seq(Kinds) /\ Items <= MaxItems
      /\ answer.open \in BOOLEAN /\ answer.stop \in StopReasons
      /\ answer.deltas \in Seq(Kinds) /\ answer.phase \in Phases
      /\ answer.open => Items > 0
  BY DEF ConvTypeOK
<1>2. Items \in Nat /\ \A n \in 1..Items : answer.items[n] \in Kinds
  BY <1>1 DEF Items
<1> QED BY <1>1, <1>2

LEMMA ToolIndexTyped ==
  ASSUME ConvTypeOK, NEW n \in 1..(Items + 1)
  PROVE  ToolIndex(n) \in Indices
<1>1. Items \in Nat /\ Items <= MaxItems /\ MaxItems \in Nat /\ 0..MaxItems \subseteq Indices
  BY AnswerTyped, RouteTyped DEF ConvTypeOK
<1> DEFINE T == {m \in 1..(n - 1) : answer.items[m] = "tool_call"}
<1>2. n - 1 \in Nat /\ n - 1 <= MaxItems
  BY <1>1
<1>3. IsFiniteSet(1..(n - 1)) /\ Cardinality(1..(n - 1)) = n - 1
  BY <1>2, FS_Interval
<1>4. T \in SUBSET (1..(n - 1))
  OBVIOUS
<1>5. Cardinality(T) \in Nat /\ Cardinality(T) <= n - 1
  BY <1>3, <1>4, FS_Subset, FS_CardinalityType
<1>6. Cardinality(T) \in 0..MaxItems
  BY <1>1, <1>2, <1>5
<1> QED BY <1>1, <1>6 DEF ToolIndex

LEMMA OpenChunk ==
  ASSUME ConvTypeOK, NEW kind \in Kinds, Open(kind)
  PROVE  \/ /\ decoded' = <<>> /\ Upstream \in {"chat", "gemini"}
            /\ Upstream = "gemini" => Items > 0
         \/ \E i \in Indices, k \in Kinds :
              /\ decoded' = <<Start(i, k)>>
              /\ Upstream = "gemini" => i = 0 /\ k = "text" /\ Items = 0
              /\ Upstream \in {"anthropic", "responses"} =>
                   i = Items /\ Class(k) = Class(kind)
<1>1. /\ Items \in Nat /\ Items < MaxItems /\ answer.items \in Seq(Kinds)
      /\ MaxItems \in Nat /\ 0..MaxItems \subseteq Indices /\ Upstream \in Protocols
      /\ decoded' = DecodeOpen(Items + 1, kind)
  BY AnswerTyped, RouteTyped DEF ConvTypeOK, Open, Chunk
<1>2. Items \in Indices /\ (Items + 1) - 1 = Items /\ 0 \in Indices
  BY <1>1
<1>3. ToolIndex(Items + 1) \in Indices
  BY <1>1, ToolIndexTyped
<1>4. CASE Upstream = "chat"
  <2>1. decoded' = IF kind = "tool_call" THEN <<Start(ToolIndex(Items + 1), kind)>> ELSE <<>>
    BY <1>1, <1>4 DEF DecodeOpen
  <2> QED BY <2>1, <1>3, <1>4
<1>5. CASE Upstream = "anthropic"
  <2>1. decoded' = <<Start(Items, kind)>>
    BY <1>1, <1>2, <1>5 DEF DecodeOpen
  <2> QED BY <2>1, <1>2, <1>5
<1>6. CASE Upstream = "responses"
  <2> DEFINE k == IF kind = "tool_call" THEN kind ELSE "text"
  <2>1. decoded' = <<Start(Items, k)>>
    BY <1>1, <1>2, <1>6 DEF DecodeOpen
  <2>2. k \in Kinds /\ Class(k) = Class(kind)
    BY DEF Kinds, Class
  <2> HIDE DEF k
  <2> QED BY <2>1, <2>2, <1>2, <1>6
<1>7. CASE Upstream = "gemini"
  <2>1. decoded' = IF answer.items = <<>> THEN <<Start(0, "text")>> ELSE <<>>
    BY <1>1, <1>7 DEF DecodeOpen, GeminiStart
  <2>2. answer.items = <<>> <=> Items = 0
    BY <1>1 DEF Items
  <2>3. "text" \in Kinds
    BY DEF Kinds
  <2>4. Items # 0 => Items > 0
    BY <1>1
  <2> QED BY <2>1, <2>2, <2>3, <2>4, <1>2, <1>7
<1> QED BY <1>1, <1>4, <1>5, <1>6, <1>7 DEF Protocols

LEMMA DeltaChunk ==
  ASSUME ConvTypeOK, SendDelta
  PROVE  LET kind == answer.items[Items]
         IN \/ /\ decoded' = <<>>
               /\ \/ Upstream = "gemini" /\ kind = "tool_call"
                  \/ Upstream = "responses" /\ kind = "reasoning"
            \/ \E i \in Indices, k \in Kinds :
                 /\ decoded' = <<Delta(i, k)>> /\ Class(k) = Class(kind)
                 /\ Upstream = "gemini" => i = 0 /\ k = "text"
                 /\ Upstream \in {"anthropic", "responses"} => i = Items - 1
                 /\ Upstream = "responses" => kind # "reasoning"
<1> DEFINE kind == answer.items[Items]
<1>1. /\ Items \in Nat /\ Items <= MaxItems /\ Items - 1 \in Nat /\ kind \in Kinds
      /\ MaxItems \in Nat /\ 0..MaxItems \subseteq Indices /\ Upstream \in Protocols
      /\ decoded' = DecodeDelta(Items, kind)
  BY AnswerTyped, RouteTyped DEF ConvTypeOK, SendDelta, Chunk
<1> HIDE DEF kind
<1>2. Items - 1 \in Indices /\ 0 \in Indices /\ Items \in 1..(Items + 1)
  BY <1>1
<1>3. ToolIndex(Items) \in Indices
  BY <1>2, ToolIndexTyped
<1>c. /\ "text" \in Kinds
      /\ kind # "tool_call" => Class(kind) = "text" /\ Class("text") = "text"
  BY DEF Class, Kinds
<1>s. SUFFICES \/ /\ decoded' = <<>>
                  /\ \/ Upstream = "gemini" /\ kind = "tool_call"
                     \/ Upstream = "responses" /\ kind = "reasoning"
               \/ \E i \in Indices, k \in Kinds :
                    /\ decoded' = <<Delta(i, k)>> /\ Class(k) = Class(kind)
                    /\ Upstream = "gemini" => i = 0 /\ k = "text"
                    /\ Upstream \in {"anthropic", "responses"} => i = Items - 1
                    /\ Upstream = "responses" => kind # "reasoning"
  BY DEF kind
<1>4. CASE Upstream = "chat"
  <2>1. decoded' = <<Delta(IF kind = "tool_call" THEN ToolIndex(Items) ELSE 0, kind)>>
    BY <1>1, <1>4 DEF DecodeDelta
  <2> QED BY <2>1, <1>1, <1>2, <1>3, <1>4
<1>5. CASE Upstream = "anthropic"
  <2> DEFINE k == IF kind = "tool_call" THEN kind ELSE "text"
  <2>1. decoded' = <<Delta(Items - 1, k)>>
    BY <1>1, <1>5 DEF DecodeDelta
  <2>2. k \in Kinds /\ Class(k) = Class(kind)
    BY <1>1, <1>c
  <2> HIDE DEF k
  <2> QED BY <2>1, <2>2, <1>2, <1>5
<1>6. CASE Upstream = "responses"
  <2>1. decoded' = IF kind = "reasoning" THEN <<>> ELSE <<Delta(Items - 1, kind)>>
    BY <1>1, <1>6 DEF DecodeDelta
  <2> QED BY <2>1, <1>1, <1>2, <1>6
<1>7. CASE Upstream = "gemini"
  <2>1. decoded' = IF kind = "tool_call" THEN <<>> ELSE <<Delta(0, "text")>>
    BY <1>1, <1>7 DEF DecodeDelta
  <2> QED BY <2>1, <1>c, <1>2, <1>7
<1> QED BY <1>1, <1>4, <1>5, <1>6, <1>7 DEF Protocols

LEMMA CloseChunk ==
  ASSUME ConvTypeOK, Close
  PROVE  \/ decoded' = <<>>
         \/ /\ Upstream \in {"anthropic", "responses"}
            /\ Items - 1 \in Indices /\ decoded' = <<Stop(Items - 1)>>
<1>1. /\ Items \in Nat /\ Items <= MaxItems /\ Items - 1 \in Nat
      /\ MaxItems \in Nat /\ 0..MaxItems \subseteq Indices
      /\ decoded' = DecodeClose(Items)
  BY AnswerTyped, RouteTyped DEF ConvTypeOK, Close, Chunk
<1>2. Items - 1 \in Indices
  BY <1>1
<1> QED BY <1>1, <1>2 DEF DecodeClose

\* The chunk that ends the answer carries its reason; Gemini's also stops the
\* item.  A done comes last.
LEMMA FinishChunk ==
  ASSUME ConvTypeOK, Finish
  PROVE  /\ answer'.stop \in StopReasons \ {""} /\ Decoded(answer'.stop) # ""
         /\ answer' = [answer EXCEPT !.phase = "finished", !.stop = answer'.stop]
         /\ decoded' \in Seq(Event)
         /\ \A p \in 1..Len(decoded') :
              \/ p = 1 /\ Upstream = "gemini" /\ Items > 0 /\ decoded'[p] = Stop(0)
              \/ /\ decoded'[p].type = "message_delta"
                 /\ decoded'[p].stop = Decoded(answer'.stop)
              \/ decoded'[p].type = "done"
         /\ \E p \in 1..Len(decoded') :
              /\ decoded'[p].type = "message_delta"
              /\ decoded'[p].stop = Decoded(answer'.stop)
              /\ \A q \in 1..(p - 1) : decoded'[q].type # "done"
<1>1. PICK cut, withUsage \in BOOLEAN :
        /\ answer' = [answer EXCEPT !.phase = "finished", !.stop = StopOf(cut)]
        /\ decoded' = DecodeFinish(StopOf(cut), withUsage)
  BY DEF Finish, Chunk
<1> DEFINE stop == StopOf(cut)
<1>2. stop \in StopReasons \ {""}
  BY DEF StopOf, StopReasons
<1>a. answer'.stop = stop
  BY <1>1 DEF ConvTypeOK
<1> HIDE DEF stop
<1>3. Decoded(stop) \in StopReasons \ {""}
  BY <1>2 DEF Decoded, StopReasons
<1>4. answer' = [answer EXCEPT !.phase = "finished", !.stop = answer'.stop]
  BY <1>1, <1>a DEF stop
<1>5. \E u \in BOOLEAN :
        \/ decoded' = <<Report(Decoded(stop), u)>>
        \/ decoded' = <<Report(Decoded(stop), u), Done>>
        \/ /\ Upstream = "gemini" /\ Items > 0
           /\ decoded' = <<Stop(0)>> \o <<Report(Decoded(stop), u), Done>>
  <2>0. Upstream \in Protocols /\ answer.items \in Seq(Kinds) /\ Items \in Nat
    BY AnswerTyped, RouteTyped DEF ConvTypeOK
  <2>1. CASE Upstream \in {"chat", "anthropic"}
    <3>1. Decoded(stop) = stop
      BY <2>1 DEF Decoded
    <3>2. decoded' = IF Upstream = "chat" THEN <<Report(stop, withUsage)>>
                     ELSE <<Report(stop, TRUE)>>
      BY <1>1, <2>1 DEF DecodeFinish, stop
    <3> QED BY <3>1, <3>2
  <2>2. CASE Upstream = "responses"
    <3>1. decoded' = <<Report(Decoded(stop), withUsage), Done>>
      BY <1>1, <2>2 DEF DecodeFinish, stop
    <3> QED BY <3>1
  <2>3. CASE Upstream = "gemini"
    <3> DEFINE t == <<Report(Decoded(stop), withUsage), Done>>
    <3>1. decoded' = (IF answer.items = <<>> THEN <<>> ELSE <<Stop(0)>>) \o t
      BY <1>1, <2>3 DEF DecodeFinish, stop
    <3>2. answer.items # <<>> => Items > 0
      BY <2>0 DEF Items
    <3>3. <<>> \o t = t
      <4>1. t \in Seq(Event)
        <5>1. Report(Decoded(stop), withUsage) \in Event /\ Done \in Event
          BY <1>3, ProviderEvents
        <5> QED BY <5>1
      <4> HIDE DEF t
      <4> QED BY <4>1
    <3> QED BY <2>3, <3>1, <3>2, <3>3
  <2> QED BY <2>0, <2>1, <2>2, <2>3 DEF Protocols
<1>6. PICK u \in BOOLEAN :
        \/ decoded' = <<Report(Decoded(stop), u)>>
        \/ decoded' = <<Report(Decoded(stop), u), Done>>
        \/ /\ Upstream = "gemini" /\ Items > 0
           /\ decoded' = <<Stop(0)>> \o <<Report(Decoded(stop), u), Done>>
  BY <1>5
<1> DEFINE r == Report(Decoded(stop), u)
<1>7. /\ r \in Event /\ r.type = "message_delta" /\ r.stop = Decoded(stop)
      /\ Done \in Event /\ Done.type = "done"
      /\ Stop(0) \in Event /\ Stop(0).type = "content_part_stop"
  <2>1. 0 \in Indices
    BY IndicesAssumption
  <2>2. \A s \in StopReasons, v \in BOOLEAN :
          /\ Report(s, v) \in Event /\ Report(s, v).type = "message_delta"
          /\ Report(s, v).stop = s
    BY ProviderEvents
  <2>3. r \in Event /\ r.type = "message_delta" /\ r.stop = Decoded(stop)
    BY <1>3, <2>2
  <2>4. Done \in Event /\ Done.type = "done"
    BY ProviderEvents
  <2>5. Stop(0) \in Event /\ Stop(0).type = "content_part_stop"
    BY <2>1, ProviderEvents
  <2> QED BY <2>3, <2>4, <2>5
<1> HIDE DEF r
<1>8. \/ decoded' = <<r>>
      \/ decoded' = <<r, Done>>
      \/ /\ Upstream = "gemini" /\ Items > 0
         /\ decoded' = <<Stop(0)>> \o <<r, Done>>
  BY <1>6 DEF r
<1> HIDE DEF Done, Stop
<1>s. SUFFICES
        /\ decoded' \in Seq(Event)
        /\ \A p \in 1..Len(decoded') :
             \/ p = 1 /\ Upstream = "gemini" /\ Items > 0 /\ decoded'[p] = Stop(0)
             \/ decoded'[p] = r
             \/ decoded'[p] = Done
        /\ \E p \in 1..Len(decoded') :
             /\ decoded'[p] = r
             /\ \A q \in 1..(p - 1) : decoded'[q].type # "done"
  BY <1>2, <1>3, <1>4, <1>7, <1>a, Zenon
<1>9. CASE decoded' = <<r>>
  BY <1>7, <1>9
<1>10. CASE decoded' = <<r, Done>>
  BY <1>7, <1>10
<1>11. CASE /\ Upstream = "gemini" /\ Items > 0
            /\ decoded' = <<Stop(0)>> \o <<r, Done>>
  <2>1. <<Stop(0)>> \in Seq(Event) /\ <<r, Done>> \in Seq(Event)
    BY <1>7
  <2>2. /\ Len(<<Stop(0)>>) = 1 /\ <<Stop(0)>>[1] = Stop(0)
        /\ Len(<<r, Done>>) = 2 /\ <<r, Done>>[1] = r /\ <<r, Done>>[2] = Done
    OBVIOUS
  <2>3. /\ decoded' \in Seq(Event) /\ Len(decoded') = 3
        /\ decoded'[1] = Stop(0)
        /\ \A p \in 1..2 : decoded'[1 + p] = <<r, Done>>[p]
    BY <1>11, <2>1, <2>2, Concatenation
  <2>4. decoded'[2] = r /\ decoded'[3] = Done
    BY <2>2, <2>3
  <2>5. \A p \in 1..Len(decoded') : p = 1 \/ p = 2 \/ p = 3
    BY <2>3
  <2>6. \A q \in 1..(2 - 1) : decoded'[q].type # "done"
    BY <2>3, <1>7
  <2>7. 2 \in 1..Len(decoded')
    BY <2>3
  <2> QED BY <1>11, <2>3, <2>4, <2>5, <2>6, <2>7
<1> QED BY <1>8, <1>9, <1>10, <1>11

-----------------------------------------------------------------------------
(* The conversion takes the steps of the aggregator.                         *)

\* A step of the provider is the next chunk.
LEMMA ProviderFrame ==
  ASSUME Provider
  PROVE  Idle /\ UNCHANGED <<aggVars, route, encoded, enc, written, panicked>>
BY DEF Provider, Begin, Open, SendDelta, Close, Finish, FinishUnread, SendUsage, SendStop,
   Fail, Chunk

\* The next event to process.
LEMMA NextDecoded ==
  ASSUME ConvTypeOK, decoded # <<>>
  PROVE  /\ Len(decoded) \in Nat /\ Len(decoded) > 0 /\ 1 \in 1..Len(decoded)
         /\ Head(decoded) = decoded[1] /\ Head(decoded) \in Event
         /\ Tail(decoded) \in Seq(Event) /\ Len(Tail(decoded)) = Len(decoded) - 1
         /\ \A p \in 1..Len(Tail(decoded)) :
              /\ p + 1 \in 1..Len(decoded) /\ Tail(decoded)[p] = decoded[p + 1]
         /\ \A p \in 1..Len(decoded) : decoded[p] \in Event
BY DEF ConvTypeOK

LEMMA AggregatorSteps ==
  ASSUME ConvInv, [Next]_vars
  PROVE  [AggNext]_aggVars
<1>1. CASE Provider
  BY <1>1, ProviderFrame
<1>2. CASE EndOfStream
  BY <1>2 DEF EndOfStream, Idle, AggNext
<1>3. CASE Aggregate
  <2>1. Head(decoded) \in Event /\ Head(decoded) = decoded[1] /\ 1 \in 1..Len(decoded)
    BY <1>3, NextDecoded DEF Aggregate, ConvInv
  <2>2. ~finishing /\ ProcessIREvent(Head(decoded))
    BY <1>3 DEF Aggregate
  <2>3. Legal(Head(decoded))
    BY <2>1 DEF ConvInv, OpensAlone, Opening, Legal
  <2> QED BY <2>1, <2>2, <2>3 DEF AggNext
<1>4. CASE WriteNext
  BY <1>4 DEF WriteNext
<1>5. CASE Finishes
  BY <1>5 DEF Finishes, AggNext
<1>6. CASE UNCHANGED vars
  BY <1>6 DEF vars
<1> QED
  BY <1>1, <1>2, <1>3, <1>4, <1>5, <1>6 DEF Next, Handler

\* What the client's adapter reads only grows.
LEMMA EmittedGrows ==
  ASSUME AggTypeOK, AggInv, [AggNext]_aggVars
  PROVE  \E t \in Seq(Event) : emitted' = emitted \o t
<1>0. emitted \in Seq(Event)
  BY DEF AggTypeOK
<1>1. ASSUME NEW e \in Event, Legal(e), ~doneSent, Handle(e) \/ HandleDone
      PROVE  \E t \in Seq(Event) : emitted' = emitted \o t
  <2>1. PICK t : Extends(t) /\ NoDone(t)
    BY <1>1, HandlersExtend
  <2> QED BY <2>1 DEF Extends
<1>2. CASE UNCHANGED aggVars
  <2>1. <<>> \in Seq(Event) /\ emitted' = emitted
    BY <1>2 DEF aggVars
  <2>2. emitted' = emitted \o <<>>
    BY <1>0, <2>1
  <2> QED BY <2>1, <2>2
<1>3. CASE CloseItem
  <2>1. PICK i \in Indices : emitted' = Append(emitted, Stop(i))
    BY <1>3 DEF CloseItem, OpenItems
  <2>2. Stop(i) \in Event
    BY ProviderEvents
  <2> HIDE DEF Stop
  <2>3. <<Stop(i)>> \in Seq(Event) /\ emitted' = emitted \o <<Stop(i)>>
    BY <1>0, <2>1, <2>2
  <2> QED BY <2>3
<1>4. CASE SendDone
  <2> DEFINE md == [Bare("message_delta", 0, "unknown") EXCEPT !.stop = stopReason,
                                                               !.usage = usage]
             dn == [Bare("done", 0, "unknown") EXCEPT !.usage = usage]
  <2>1. md \in Event /\ dn \in Event
    BY MadeUpEvents DEF AggTypeOK
  <2>2. emitted' = emitted \o <<md, dn>>
    BY <1>4 DEF SendDone
  <2> HIDE DEF md, dn
  <2>3. <<md, dn>> \in Seq(Event)
    BY <2>1
  <2> QED BY <2>2, <2>3
<1>5. ASSUME Finalize PROVE \E t \in Seq(Event) : emitted' = emitted \o t
  <2>1. Done \in Event /\ Legal(Done)
    BY ProviderEvents DEF Legal
  <2> QED BY <1>1, <1>2, <1>5, <2>1 DEF Finalize
<1> QED
  BY <1>1, <1>2, <1>3, <1>4, <1>5 DEF AggNext, ProcessIREvent

LEMMA ConvTypeInit == Init => ConvTypeOK
<1> SUFFICES ASSUME Init PROVE ConvTypeOK
  OBVIOUS
<1>1. /\ <<>> \in Seq(Kinds) /\ <<>> \in Seq(Event) /\ <<>> \in Seq(Payloads)
      /\ Len(<<>>) = 0
  OBVIOUS
<1>2. Items = 0 /\ answer.open = FALSE
  BY <1>1 DEF Init, Items
<1>3. 0 <= MaxItems
  BY ConversionAssumption
<1>4. encoded \in 0..Len(emitted)
  <2>1. encoded = 0 /\ emitted = <<>>
    BY DEF Init, AggInit
  <2>2. Len(emitted) = 0
    BY <1>1, <2>1
  <2> QED BY <2>1, <2>2
<1>5. answer \in [phase: Phases, items: Seq(Kinds), open: BOOLEAN,
                  deltas: Seq(Kinds), stop: StopReasons]
  BY <1>1 DEF Init, Phases, StopReasons
<1>6. enc \in [text: SUBSET Indices, tool: SUBSET Indices,
               last: [Indices -> {"absent", "text", "tool_call"}], stop: StopReasons]
  BY DEF Init, StopReasons
<1> QED BY <1>1, <1>2, <1>3, <1>4, <1>5, <1>6 DEF Init, ConvTypeOK

LEMMA Singleton ==
  ASSUME NEW S, NEW x \in S
  PROVE  <<x>> \in Seq(S) /\ Len(<<x>>) = 1 /\ <<x>>[1] = x
OBVIOUS

\* What an adapter writes for an event.
LEMMA PayloadTyped ==
  ASSUME NEW type \in {"begin", "start", "delta", "stop", "usage", "finish", "done", "error"},
         NEW i \in Indices, NEW kind \in Kinds \cup {"unknown", ""}, NEW stop \in StopReasons
  PROVE  /\ Payload(type, i, kind, stop) \in Payloads
         /\ <<Payload(type, i, kind, stop)>> \in Seq(Payloads)
         /\ Payload(type, i, kind, stop).type = type
         /\ Payload(type, i, kind, stop).index = i
         /\ Payload(type, i, kind, stop).kind = kind
         /\ Payload(type, i, kind, stop).stop = stop
<1>1. Payload(type, i, kind, stop) \in Payloads
  BY DEF Payload, Payloads
<1>2. <<Payload(type, i, kind, stop)>> \in Seq(Payloads)
  BY <1>1, Singleton
<1> QED BY <1>1, <1>2 DEF Payload

\* The words of the client's protocols are among the types.
LEMMA WordsTyped ==
  /\ 0 \in Indices /\ "" \in StopReasons
  /\ "text" \in Kinds /\ "tool_call" \in Kinds /\ "reasoning" \in Kinds
  /\ \A s \in StopReasons : Ended(s) \in StopReasons /\ Completed(s) \in StopReasons
  /\ \A k : Class(k) \in {"text", "tool_call"} /\ (Class(k) = "tool_call" <=> k = "tool_call")
  /\ \A e \in Event : /\ e.index \in Indices /\ e.kind \in Kinds \cup {"unknown"}
                      /\ e.stop \in StopReasons /\ e.type \in EventTypes
BY IndicesAssumption DEF StopReasons, Kinds, Ended, Completed, Class, Event

LEMMA EncodeTyped ==
  ASSUME ConvTypeOK, NEW e \in Event
  PROVE  Encode(e) \in Seq(Payloads)
<1>0. <<>> \in Seq(Payloads)
  OBVIOUS
<1>1. /\ 0 \in Indices /\ e.index \in Indices /\ e.kind \in Kinds \cup {"unknown", ""}
      /\ e.stop \in StopReasons /\ e.type \in EventTypes
      /\ "" \in StopReasons /\ "" \in Kinds \cup {"unknown", ""}
      /\ "text" \in Kinds \cup {"unknown", ""}
      /\ Ended(e.stop) \in StopReasons /\ Completed(e.stop) \in StopReasons
      /\ Class(e.kind) \in Kinds \cup {"unknown", ""}
      /\ Completed(enc.stop) \in StopReasons
      /\ enc.last[e.index] \in {"absent", "text", "tool_call"}
  <2>1. e.index \in Indices /\ e.kind \in Kinds \cup {"unknown"}
    BY WordsTyped
  <2>2. enc.stop \in StopReasons /\ enc.last[e.index] \in {"absent", "text", "tool_call"}
    BY <2>1 DEF ConvTypeOK
  <2>3. Class(e.kind) \in Kinds
    BY DEF Class, Kinds
  <2> QED BY <2>1, <2>2, <2>3, WordsTyped
<1>k. enc.last[e.index] # "absent" => enc.last[e.index] \in Kinds \cup {"unknown", ""}
  <2>1. {"text", "tool_call"} \subseteq Kinds
    BY DEF Kinds
  <2> QED BY <1>1, <2>1
<1>2. /\ <<Payload("begin", 0, "", "")>> \in Seq(Payloads)
      /\ <<Payload("done", 0, "", "")>> \in Seq(Payloads)
      /\ <<Payload("error", 0, "", "")>> \in Seq(Payloads)
      /\ <<Payload("start", e.index, e.kind, "")>> \in Seq(Payloads)
      /\ <<Payload("start", e.index, Class(e.kind), "")>> \in Seq(Payloads)
      /\ <<Payload("delta", e.index, Class(e.kind), "")>> \in Seq(Payloads)
      /\ <<Payload("stop", e.index, "", "")>> \in Seq(Payloads)
      /\ <<Payload("finish", 0, "", Ended(e.stop))>> \in Seq(Payloads)
      /\ <<Payload("finish", 0, "", Completed(e.stop))>> \in Seq(Payloads)
      /\ <<Payload("done", 0, "", Completed(enc.stop))>> \in Seq(Payloads)
      /\ <<Payload("start", 0, "text", "")>> \in Seq(Payloads)
      /\ <<Payload("delta", 0, "text", "")>> \in Seq(Payloads)
      /\ <<Payload("usage", 0, "", "")>> \in Seq(Payloads)
  <2> DEFINE K == Kinds \cup {"unknown", ""}
  <2>0. \A type \in {"begin", "start", "delta", "stop", "usage", "finish", "done", "error"},
           i \in Indices, kind \in K, stop \in StopReasons :
          <<Payload(type, i, kind, stop)>> \in Seq(Payloads)
    <3>1. \A type \in {"begin", "start", "delta", "stop", "usage", "finish", "done", "error"},
             i \in Indices, kind \in K, stop \in StopReasons :
            Payload(type, i, kind, stop) \in Payloads
      BY DEF Payload, Payloads
    <3>2. \A d \in Payloads : <<d>> \in Seq(Payloads)
      OBVIOUS
    <3> QED BY <3>1, <3>2, Zenon
  <2> HIDE DEF K
  <2>1. /\ <<Payload("begin", 0, "", "")>> \in Seq(Payloads)
        /\ <<Payload("done", 0, "", "")>> \in Seq(Payloads)
        /\ <<Payload("error", 0, "", "")>> \in Seq(Payloads)
        /\ <<Payload("usage", 0, "", "")>> \in Seq(Payloads)
    BY <1>1, <2>0 DEF K
  <2>2. /\ <<Payload("start", e.index, e.kind, "")>> \in Seq(Payloads)
        /\ <<Payload("start", e.index, Class(e.kind), "")>> \in Seq(Payloads)
        /\ <<Payload("delta", e.index, Class(e.kind), "")>> \in Seq(Payloads)
        /\ <<Payload("stop", e.index, "", "")>> \in Seq(Payloads)
    BY <1>1, <2>0 DEF K
  <2>3. /\ <<Payload("finish", 0, "", Ended(e.stop))>> \in Seq(Payloads)
        /\ <<Payload("finish", 0, "", Completed(e.stop))>> \in Seq(Payloads)
        /\ <<Payload("done", 0, "", Completed(enc.stop))>> \in Seq(Payloads)
    BY <1>1, <2>0 DEF K
  <2>4. /\ <<Payload("start", 0, "text", "")>> \in Seq(Payloads)
        /\ <<Payload("delta", 0, "text", "")>> \in Seq(Payloads)
    BY <1>1, <2>0 DEF K
  <2> QED BY <2>1, <2>2, <2>3, <2>4
<1>3. EncodeChat(e) \in Seq(Payloads)
  BY <1>0, <1>1, <1>2, Zenon DEF EncodeChat
<1>4. EncodeAnthropic(e) \in Seq(Payloads)
  <2> DEFINE kind == Class(e.kind)
             first == IF e.index \in (IF kind = "tool_call" THEN enc.tool ELSE enc.text)
                      THEN <<>> ELSE <<Payload("start", e.index, kind, "")>>
             second == <<Payload("delta", e.index, kind, "")>>
  <2>1. first \in Seq(Payloads) /\ second \in Seq(Payloads)
    BY <1>0, <1>2
  <2>2. e.type = "content_part_delta" => EncodeAnthropic(e) = first \o second
    BY DEF EncodeAnthropic
  <2> HIDE DEF first, second
  <2>3. first \o second \in Seq(Payloads)
    BY <2>1
  <2>4. CASE e.type = "content_part_delta"
    BY <2>2, <2>3, <2>4
  <2>5. CASE e.type # "content_part_delta"
    BY <1>1, <1>2, <2>5, Zenon DEF EncodeAnthropic, EventTypes
  <2> QED BY <2>4, <2>5
<1>5. EncodeResponses(e) \in Seq(Payloads)
  <2>1. enc.last[e.index] # "absent" =>
          <<Payload("stop", e.index, enc.last[e.index], "")>> \in Seq(Payloads)
    <3>1. \A kind \in Kinds \cup {"unknown", ""} :
            <<Payload("stop", e.index, kind, "")>> \in Seq(Payloads)
      <4>1. "" \in StopReasons
        BY DEF StopReasons
      <4>2. \A kind \in Kinds \cup {"unknown", ""} :
              Payload("stop", e.index, kind, "") \in Payloads
        BY <1>1, <4>1 DEF Payload, Payloads
      <4>3. \A d \in Payloads : <<d>> \in Seq(Payloads)
        OBVIOUS
      <4> QED BY <4>2, <4>3, Zenon
    <3> QED BY <1>k, <3>1, Zenon
  <2> QED BY <1>0, <1>2, <2>1, ZenonT(60) DEF EncodeResponses
<1>6. EncodeGemini(e) \in Seq(Payloads)
  BY <1>0, <1>2, Zenon DEF EncodeGemini
<1> QED
  BY <1>3, <1>4, <1>5, <1>6, RouteTyped DEF ConvTypeOK, Encode, Protocols

LEMMA TrackedTyped ==
  ASSUME ConvTypeOK, NEW e \in Event
  PROVE  Tracked(e) \in [text: SUBSET Indices, tool: SUBSET Indices,
                         last: [Indices -> {"absent", "text", "tool_call"}],
                         stop: StopReasons]
<1>1. /\ e.index \in Indices /\ e.stop \in StopReasons /\ Class(e.kind) \in {"text", "tool_call"}
      /\ enc \in [text: SUBSET Indices, tool: SUBSET Indices,
                  last: [Indices -> {"absent", "text", "tool_call"}], stop: StopReasons]
  BY WordsTyped DEF ConvTypeOK
<1> QED BY <1>1 DEF Tracked

\* Each action of the provider gives a typed answer and a chunk of events.
LEMMA ProviderTyped ==
  ASSUME ConvTypeOK, Provider
  PROVE  /\ answer' \in [phase: Phases, items: Seq(Kinds), open: BOOLEAN,
                         deltas: Seq(Kinds), stop: StopReasons]
         /\ Len(answer'.items) <= MaxItems
         /\ answer'.open => Len(answer'.items) > 0
         /\ decoded' \in Seq(Event)
<1> DEFINE Answers == [phase: Phases, items: Seq(Kinds), open: BOOLEAN,
                       deltas: Seq(Kinds), stop: StopReasons]
<1>0. /\ answer \in Answers /\ Len(answer.items) <= MaxItems
      /\ answer.open => Len(answer.items) > 0
  BY DEF ConvTypeOK, Items
<1>t. /\ answer.items \in Seq(Kinds) /\ Len(answer.items) \in Nat /\ MaxItems \in Nat
      /\ {"answering", "finished", "failed"} \subseteq Phases
      /\ answer.open => answer.items[Items] \in Kinds
  BY AnswerTyped, RouteTyped DEF ConvTypeOK, Items, Phases
<1>e. <<>> \in Seq(Event)
  OBVIOUS
<1>1. CASE Begin
  <2>1. answer' = [answer EXCEPT !.phase = "answering"] /\ decoded' = DecodeBegin
    BY <1>1 DEF Begin, Chunk
  <2>2. <<Created>> \in Seq(Event)
    BY ProviderEvents, Singleton
  <2>3. decoded' \in Seq(Event)
    BY <2>1, <2>2, <1>e, Zenon DEF DecodeBegin
  <2> QED BY <2>1, <2>3, <1>0, <1>t
<1>2. ASSUME NEW kind \in Kinds, Open(kind)
      PROVE  /\ answer' \in Answers /\ Len(answer'.items) <= MaxItems
             /\ answer'.open => Len(answer'.items) > 0
             /\ decoded' \in Seq(Event)
  <2>1. /\ answer' = [answer EXCEPT !.items = Append(answer.items, kind), !.open = TRUE]
        /\ Len(answer.items) < MaxItems
    BY <1>2 DEF Open, Items
  <2>2. Append(answer.items, kind) \in Seq(Kinds)
        /\ Len(Append(answer.items, kind)) = Len(answer.items) + 1
    BY <1>t
  <2>3. answer'.items = Append(answer.items, kind)
    BY <2>1, <1>0
  <2>4. \A i \in Indices, k \in Kinds : <<Start(i, k)>> \in Seq(Event)
    BY ProviderEvents, Singleton
  <2>5. decoded' \in Seq(Event)
    BY <1>2, <1>e, <2>4, OpenChunk, Zenon
  <2>6. answer' \in Answers
    BY <1>0, <2>1, <2>2
  <2> QED BY <1>t, <2>1, <2>2, <2>3, <2>5, <2>6
<1>3. CASE SendDelta
  <2>1. /\ answer' = [answer EXCEPT !.deltas = Append(answer.deltas, answer.items[Items])]
        /\ answer.open
    BY <1>3 DEF SendDelta
  <2>2. Append(answer.deltas, answer.items[Items]) \in Seq(Kinds)
    BY <1>0, <1>t, <2>1
  <2>3. \A i \in Indices, k \in Kinds : <<Delta(i, k)>> \in Seq(Event)
    BY ProviderEvents, Singleton
  <2>4. decoded' \in Seq(Event)
    BY <1>3, <1>e, <2>3, DeltaChunk, Zenon
  <2>5. answer' \in Answers /\ answer'.items = answer.items /\ answer'.open = answer.open
    BY <1>0, <2>1, <2>2
  <2> QED BY <1>0, <2>4, <2>5
<1>4. CASE Close
  <2>1. answer' = [answer EXCEPT !.open = FALSE]
    BY <1>4 DEF Close
  <2>2. \A i \in Indices : <<Stop(i)>> \in Seq(Event)
    BY ProviderEvents, Singleton
  <2>3. decoded' \in Seq(Event)
    BY <1>4, <1>e, <2>2, CloseChunk, Zenon
  <2> QED BY <1>0, <2>1, <2>3
<1>5. CASE Finish
  <2>1. /\ answer' = [answer EXCEPT !.phase = "finished", !.stop = answer'.stop]
        /\ answer'.stop \in StopReasons /\ decoded' \in Seq(Event)
    BY <1>5, FinishChunk
  <2> DEFINE stop == answer'.stop
  <2> HIDE DEF stop
  <2>2. answer' = [answer EXCEPT !.phase = "finished", !.stop = stop] /\ stop \in StopReasons
    BY <2>1 DEF stop
  <2> QED BY <1>0, <1>t, <2>1, <2>2
<1>6. CASE SendUsage
  <2>1. "" \in StopReasons
    BY DEF StopReasons
  <2>2. <<Report("", TRUE)>> \in Seq(Event)
    BY <2>1, ProviderEvents, Singleton
  <2>3. answer' = answer /\ decoded' = <<Report("", TRUE)>>
    BY <1>6 DEF SendUsage, Chunk
  <2> QED BY <1>0, <2>2, <2>3
<1>7. CASE SendStop
  <2>1. <<Done>> \in Seq(Event)
    BY ProviderEvents, Singleton
  <2>2. answer' = answer /\ decoded' = <<Done>>
    BY <1>7 DEF SendStop, Chunk
  <2> QED BY <1>0, <2>1, <2>2
<1>9. CASE FinishUnread
  <2>1. answer' = [answer EXCEPT !.phase = "finished"] /\ decoded' = <<>>
    BY <1>9 DEF FinishUnread, Chunk
  <2> QED BY <1>0, <1>t, <1>e, <2>1
<1>8. CASE Fail
  <2>1. <<Error>> \in Seq(Event)
    BY ProviderEvents, Singleton
  <2>2. /\ answer' = [answer EXCEPT !.phase = "failed"]
        /\ decoded' = <<Error>> \/ decoded' = <<>>
    BY <1>8 DEF Fail, Chunk
  <2> QED BY <1>0, <1>t, <1>e, <2>1, <2>2
<1> QED
  BY <1>1, <1>2, <1>3, <1>4, <1>5, <1>6, <1>7, <1>8, <1>9 DEF Provider

LEMMA ConvTypeNext ==
  ASSUME AggTypeOK, AggInv, ConvInv, [Next]_vars
  PROVE  ConvTypeOK'
<1>0. PICK t \in Seq(Event) : emitted' = emitted \o t
  BY AggregatorSteps, EmittedGrows
<1>1. /\ ConvTypeOK /\ encoded \in Nat /\ encoded <= Len(emitted)
      /\ emitted \in Seq(Event) /\ Len(emitted) \in Nat /\ Len(emitted') \in Nat
      /\ Len(emitted) <= Len(emitted')
  <2>1. ConvTypeOK /\ emitted \in Seq(Event)
    BY DEF ConvInv, AggTypeOK
  <2>2. Len(emitted) \in Nat /\ Len(t) \in Nat /\ Len(emitted') = Len(emitted) + Len(t)
    BY <2>1, <1>0, Concatenation
  <2>3. encoded \in Nat /\ encoded <= Len(emitted)
    BY <2>1, <2>2 DEF ConvTypeOK
  <2> QED BY <2>1, <2>2, <2>3
<1>2. CASE Provider
  <2>1. UNCHANGED <<emitted, route, encoded, enc, written, panicked>>
    BY <1>2, ProviderFrame DEF aggVars
  <2> QED BY <1>1, <1>2, <2>1, ProviderTyped DEF ConvTypeOK, Items
<1>3. CASE EndOfStream
  <2>1. /\ UNCHANGED <<route, decoded, encoded, enc, written, panicked>>
        /\ answer' = [answer EXCEPT !.phase = "ended"]
    BY <1>3 DEF EndOfStream
  <2>2. encoded' \in 0..Len(emitted')
    BY <1>1, <2>1
  <2>3. /\ answer' \in [phase: Phases, items: Seq(Kinds), open: BOOLEAN,
                        deltas: Seq(Kinds), stop: StopReasons]
        /\ answer'.items = answer.items /\ answer'.open = answer.open
    BY <1>1, <2>1 DEF ConvTypeOK, Phases
  <2> QED BY <1>1, <2>1, <2>2, <2>3 DEF ConvTypeOK, Items
<1>4. CASE Aggregate
  <2>1. /\ UNCHANGED <<route, answer, encoded, enc, written, panicked>>
        /\ decoded' = Tail(decoded) /\ decoded # <<>>
    BY <1>4 DEF Aggregate
  <2>2. encoded' \in 0..Len(emitted')
    BY <1>1, <2>1
  <2>3. decoded' \in Seq(Event)
    BY <1>1, <2>1, NextDecoded
  <2> QED BY <1>1, <2>1, <2>2, <2>3 DEF ConvTypeOK, Items
<1>5. CASE WriteNext
  <2> DEFINE e == emitted[encoded + 1]
  <2>1. /\ UNCHANGED <<aggVars, route, answer, decoded>> /\ encoded < Len(emitted)
        /\ \/ panicked' = TRUE /\ UNCHANGED <<encoded, enc, written>>
           \/ /\ written' = written \o Encode(e) /\ enc' = Tracked(e)
              /\ encoded' = encoded + 1 /\ panicked' = panicked
    BY <1>5 DEF WriteNext
  <2>2. e \in Event
    BY <1>1, <2>1
  <2> HIDE DEF e
  <2>3. emitted' = emitted
    BY <2>1 DEF aggVars
  <2>4. encoded' \in 0..Len(emitted')
    BY <1>1, <2>1, <2>3
  <2>5. written' \in Seq(Payloads)
    <3>1. Encode(e) \in Seq(Payloads) /\ written \in Seq(Payloads)
      BY <1>1, <2>2, EncodeTyped DEF ConvTypeOK
    <3>2. written \o Encode(e) \in Seq(Payloads)
      BY <3>1, Concatenation
    <3> QED BY <2>1, <3>1, <3>2
  <2>6. enc' \in [text: SUBSET Indices, tool: SUBSET Indices,
                  last: [Indices -> {"absent", "text", "tool_call"}], stop: StopReasons]
    <3>1. enc \in [text: SUBSET Indices, tool: SUBSET Indices,
                   last: [Indices -> {"absent", "text", "tool_call"}], stop: StopReasons]
      BY <1>1 DEF ConvTypeOK
    <3> QED BY <3>1, <1>1, <2>1, <2>2, TrackedTyped
  <2>7. panicked' \in BOOLEAN
    BY <1>1, <2>1 DEF ConvTypeOK
  <2> QED BY <1>1, <2>1, <2>4, <2>5, <2>6, <2>7 DEF ConvTypeOK, Items
<1>6. CASE Finishes \/ UNCHANGED vars
  <2>1. UNCHANGED convVars
    BY <1>6 DEF Finishes, vars
  <2>2. encoded' \in 0..Len(emitted')
    BY <1>1, <2>1 DEF convVars
  <2> QED BY <1>1, <2>1, <2>2 DEF convVars, ConvTypeOK, Items
<1> QED
  BY <1>2, <1>3, <1>4, <1>5, <1>6 DEF Next, Handler

\* What an event may change.
LEMMA HandlerFrame ==
  ASSUME NEW e, Handle(e)
  PROVE  /\ doneSent' = doneSent
         /\ e.type # "done" => finishing' = finishing
         /\ e.type = "done" => finishing' = TRUE
         /\ e.type # "content_part_stop" => stopped' = stopped
         /\ e.type = "content_part_stop" => stopped' = stopped \cup {e.index}
         /\ e.type # "message_delta" => stopReason' = stopReason
         /\ e.type = "message_delta" =>
              stopReason' = IF e.stop # "" THEN e.stop ELSE stopReason
         /\ e.type \notin {"content_part_start", "content_part_delta", "content_part_stop"}
              => items' = items
BY DEF Handle, HandleMessageStart, HandleContentStart, HandleContentDelta,
   HandleContentStop, HandleMessageDelta, HandleError, HandleDone

\* The end of the stream and its last steps.
LEMMA EndFrame ==
  /\ Finalize => /\ UNCHANGED <<stopped, stopReason, items, doneSent>>
                 /\ ~Live' /\ (doneSent => emitted' = emitted)
                 /\ ~doneSent => HandleDone
  /\ ConvInv /\ Finishes =>
       /\ ~Live /\ ~Live' /\ ~Begun /\ UNCHANGED convVars
       /\ UNCHANGED <<stopReason, items>>
<1>1. Finalize => /\ UNCHANGED <<stopped, stopReason, items, doneSent>>
                  /\ ~Live' /\ (doneSent => emitted' = emitted)
                  /\ ~doneSent => HandleDone
  BY DEF Finalize, HandleDone, aggVars, Live
<1>2. ASSUME ConvInv, Finishes
      PROVE  /\ ~Live /\ ~Live' /\ ~Begun /\ UNCHANGED convVars
             /\ UNCHANGED <<stopReason, items>>
  <2>1. /\ finishing /\ UNCHANGED convVars /\ UNCHANGED <<stopReason, items>>
        /\ finishing' = TRUE \/ doneSent' = TRUE
    <3>1. CASE CloseItem
      BY <3>1, <1>2 DEF Finishes, CloseItem
    <3>2. CASE SendDone
      BY <3>2, <1>2 DEF Finishes, SendDone
    <3> QED BY <1>2, <3>1, <3>2 DEF Finishes
  <2>2. ~Live /\ ~Live'
    BY <2>1 DEF Live
  <2>3. ~Begun
    BY <1>2, <2>2 DEF ConvInv, NothingEnded
  <2> QED BY <2>1, <2>2, <2>3
<1> QED BY <1>1, <1>2

LEMMA NothingEndedNext ==
  ASSUME ConvInv, ConvTypeOK', [Next]_vars
  PROVE  NothingEnded'
<1>0. ConvTypeOK /\ NothingEnded
  BY DEF ConvInv
<1>s. SUFFICES ASSUME Begun'
               PROVE  /\ Live' /\ answer'.stop = ""
                      /\ \A p \in 1..Len(decoded') : decoded'[p].type # "done"
  BY DEF NothingEnded
<1>1. CASE Provider
  <2>1. /\ Live' = Live
    BY <1>1, ProviderFrame DEF aggVars, Live
  <2>2. CASE Begin
    <3>1. answer.phase = "new" /\ answer' = [answer EXCEPT !.phase = "answering"]
          /\ decoded' = DecodeBegin
      BY <2>2 DEF Begin, Chunk
    <3>2. answer'.stop = answer.stop
      BY <3>1, <1>0 DEF ConvTypeOK
    <3>3. \A p \in 1..Len(decoded') : decoded'[p].type # "done"
      BY <3>1, ProviderEvents DEF DecodeBegin
    <3> QED BY <3>1, <3>2, <3>3, <2>1, <1>0 DEF NothingEnded, Begun
  <2>3. ASSUME NEW kind \in Kinds, Open(kind)
        PROVE  /\ Live' /\ answer'.stop = ""
               /\ \A p \in 1..Len(decoded') : decoded'[p].type # "done"
    <3>1. answer.phase = "answering"
          /\ answer' = [answer EXCEPT !.items = Append(@, kind), !.open = TRUE]
      BY <2>3 DEF Open
    <3>2. answer'.stop = answer.stop
      BY <3>1, <1>0 DEF ConvTypeOK
    <3>3. \A p \in 1..Len(decoded') : decoded'[p].type # "done"
      BY <2>3, <1>0, OpenChunk, ProviderEvents
    <3> QED BY <3>1, <3>2, <3>3, <2>1, <1>0 DEF NothingEnded, Begun
  <2>4. CASE SendDelta
    <3>1. answer.phase = "answering"
          /\ answer' = [answer EXCEPT !.deltas = Append(@, answer.items[Items])]
      BY <2>4 DEF SendDelta
    <3>2. answer'.stop = answer.stop
      BY <3>1, <1>0 DEF ConvTypeOK
    <3>3. \A p \in 1..Len(decoded') : decoded'[p].type # "done"
      BY <2>4, <1>0, DeltaChunk, ProviderEvents
    <3> QED BY <3>1, <3>2, <3>3, <2>1, <1>0 DEF NothingEnded, Begun
  <2>5. CASE Close
    <3>1. answer.phase = "answering" /\ answer' = [answer EXCEPT !.open = FALSE]
      BY <2>5 DEF Close
    <3>2. answer'.stop = answer.stop
      BY <3>1, <1>0 DEF ConvTypeOK
    <3>3. \A p \in 1..Len(decoded') : decoded'[p].type # "done"
      BY <2>5, <1>0, CloseChunk, ProviderEvents
    <3> QED BY <3>1, <3>2, <3>3, <2>1, <1>0 DEF NothingEnded, Begun
  <2>6. CASE Finish \/ FinishUnread \/ SendUsage \/ SendStop \/ Fail
    <3>1. answer'.phase \in {"finished", "failed"}
      BY <2>6, <1>0 DEF Finish, FinishUnread, SendUsage, SendStop, Fail, ConvTypeOK
    <3> QED BY <3>1, <1>s DEF Begun
  <2> QED BY <1>1, <2>2, <2>3, <2>4, <2>5, <2>6 DEF Provider
<1>2. CASE EndOfStream
  <2>1. answer'.phase = "ended"
    BY <1>2, <1>0 DEF EndOfStream, ConvTypeOK
  <2> QED BY <2>1, <1>s DEF Begun
<1>3. CASE Aggregate
  <2>1. /\ answer' = answer /\ decoded' = Tail(decoded) /\ decoded # <<>>
        /\ ProcessIREvent(Head(decoded))
    BY <1>3 DEF Aggregate
  <2>2. Begun /\ Live /\ answer.stop = ""
        /\ \A p \in 1..Len(decoded) : decoded[p].type # "done"
    BY <2>1, <1>s, <1>0 DEF Begun, NothingEnded
  <2>3. Head(decoded).type # "done"
    BY <2>1, <2>2, <1>0, NextDecoded
  <2>4. Handle(Head(decoded))
    BY <2>1, <2>2 DEF ProcessIREvent, Live
  <2>5. Live'
    BY <2>2, <2>3, <2>4, HandlerFrame DEF Live
  <2>6. \A p \in 1..Len(decoded') : decoded'[p].type # "done"
    BY <2>1, <2>2, <1>0, NextDecoded
  <2> QED BY <2>1, <2>2, <2>5, <2>6
<1>4. CASE WriteNext
  BY <1>4, <1>s, <1>0 DEF WriteNext, aggVars, NothingEnded, Begun, Live
<1>5. CASE Finishes
  <2>1. ~Begun /\ answer' = answer
    BY <1>5, EndFrame DEF convVars
  <2> QED BY <2>1, <1>s DEF Begun
<1>6. CASE UNCHANGED vars
  BY <1>6, <1>s, <1>0 DEF vars, convVars, aggVars, NothingEnded, Begun, Live
<1> QED
  BY <1>1, <1>2, <1>3, <1>4, <1>5, <1>6 DEF Next, Handler

\* An item that may have been stopped stays one.
LEMMA StoppableStays ==
  ASSUME ConvTypeOK, Provider, NEW i \in Indices, Stoppable(i)
  PROVE  Stoppable(i)'
<1>0. /\ Items \in Nat /\ Upstream' = Upstream /\ i \in Nat
      /\ answer \in [phase: Phases, items: Seq(Kinds), open: BOOLEAN,
                     deltas: Seq(Kinds), stop: StopReasons]
  BY AnswerTyped, ProviderFrame, IndicesAssumption DEF Upstream, ConvTypeOK
<1>1. Begun' => Begun
  BY <1>0 DEF Provider, Begin, Open, SendDelta, Close, Finish, FinishUnread, SendUsage,
              SendStop, Fail, Begun
<1>2. /\ Closed \in Int /\ Closed' \in Int /\ Closed <= Closed'
  <2>1. ASSUME NEW kind \in Kinds, Open(kind)
        PROVE  Closed \in Int /\ Closed' \in Int /\ Closed <= Closed'
    <3>1. /\ answer' = [answer EXCEPT !.items = Append(answer.items, kind), !.open = TRUE]
          /\ ~answer.open
      BY <2>1 DEF Open
    <3>2. Len(Append(answer.items, kind)) = Items + 1
      BY <1>0 DEF Items
    <3>3. answer'.open = TRUE /\ answer'.items = Append(answer.items, kind)
      BY <1>0, <3>1
    <3>4. Items' = Items + 1
      BY <3>2, <3>3 DEF Items
    <3> QED BY <1>0, <3>1, <3>3, <3>4 DEF Closed
  <2>2. CASE Close
    <3>1. answer'.open = FALSE /\ answer'.items = answer.items /\ answer.open
      BY <1>0, <2>2 DEF Close
    <3> QED BY <1>0, <3>1 DEF Closed, Items
  <2>3. CASE Begin \/ SendDelta \/ Finish \/ FinishUnread \/ SendUsage \/ SendStop \/ Fail
    <3>1. answer'.open = answer.open /\ answer'.items = answer.items
      BY <1>0, <2>3 DEF Begin, SendDelta, Finish, FinishUnread, SendUsage, SendStop, Fail
    <3> QED BY <1>0, <3>1 DEF Closed, Items
  <2> QED BY <2>1, <2>2, <2>3 DEF Provider
<1> QED BY <1>0, <1>1, <1>2 DEF Stoppable

\* While the answer grows no item is stopped but a closed one.
LEMMA OpenNotStopped ==
  ASSUME ConvInv, AggTypeOK, answer.phase = "answering"
  PROVE  /\ Live /\ Begun
         /\ Upstream \in {"chat", "gemini"} => stopped = {}
         /\ Upstream \in {"anthropic", "responses"} =>
              \A i \in stopped : i < Closed
<1>1. Begun /\ Live
  BY DEF ConvInv, NothingEnded, Begun
<1>2. \A i \in stopped : Stoppable(i)
  BY <1>1 DEF ConvInv, StopsInOrder
<1> QED BY <1>1, <1>2 DEF Stoppable

\* The chunk a provider sends next, by what it holds.
LEMMA NextChunk ==
  ASSUME AggTypeOK, ConvInv, Provider
  PROVE  /\ \A p \in 1..Len(decoded') :
              Stopping(decoded'[p]) =>
                /\ p = 1 /\ decoded'[p].index \notin stopped
                /\ \A i : i = decoded'[p].index => Stoppable(i)'
         /\ \A p \in 1..Len(decoded') :
              Opening(decoded'[p]) =>
                /\ Len(decoded') = 1 /\ answer'.phase = "answering"
                /\ decoded'[p].index \notin stopped
<1>0. /\ ConvTypeOK /\ Upstream \in Protocols /\ Items \in Nat /\ Upstream' = Upstream
      /\ 0 \in Indices /\ stopped \subseteq Nat
      /\ answer \in [phase: Phases, items: Seq(Kinds), open: BOOLEAN,
                     deltas: Seq(Kinds), stop: StopReasons]
  BY AnswerTyped, RouteTyped, ProviderFrame, IndicesAssumption
     DEF ConvInv, ConvTypeOK, Upstream, AggTypeOK
<1> DEFINE Fits(d) ==
      /\ \A p \in 1..Len(d) :
           Stopping(d[p]) =>
             /\ p = 1 /\ d[p].index \notin stopped
             /\ \A i : i = d[p].index => Stoppable(i)'
      /\ \A p \in 1..Len(d) :
           Opening(d[p]) => /\ Len(d) = 1 /\ answer'.phase = "answering"
                            /\ d[p].index \notin stopped
<1> SUFFICES Fits(decoded')
  OBVIOUS
<1>e. Fits(<<>>)
  OBVIOUS
<1>n. ASSUME NEW e \in Event, ~Opening(e), ~Stopping(e)
      PROVE  Fits(<<e>>)
  BY <1>n
<1>o. ASSUME NEW e \in Event, Opening(e), e.index \notin stopped, answer'.phase = "answering"
      PROVE  Fits(<<e>>)
  <2>1. ~Stopping(e)
    BY <1>o DEF Opening, Stopping
  <2> QED BY <1>o, <2>1
<1> HIDE DEF Fits
<1>1. CASE Begin
  <2>1. decoded' = <<>> \/ decoded' = <<Created>>
    BY <1>1 DEF Begin, Chunk, DecodeBegin
  <2>2. Created \in Event /\ ~Opening(Created) /\ ~Stopping(Created)
    BY ProviderEvents DEF Opening, Stopping
  <2> QED BY <2>1, <2>2, <1>e, <1>n, Zenon
<1>2. ASSUME NEW kind \in Kinds, Open(kind) PROVE Fits(decoded')
  <2>1. /\ answer' = [answer EXCEPT !.items = Append(answer.items, kind), !.open = TRUE]
        /\ ~answer.open /\ answer.phase = "answering"
    BY <1>2 DEF Open
  <2>2. answer'.phase = "answering" /\ Closed = Items
    BY <1>0, <2>1 DEF Closed
  <2>3. CASE decoded' = <<>>
    BY <2>3, <1>e
  <2>4. CASE decoded' # <<>>
    <3>1. PICK i \in Indices, k \in Kinds :
            /\ decoded' = <<Start(i, k)>>
            /\ Upstream \in {"anthropic", "responses"} => i = Items
      BY <1>0, <1>2, <2>4, OpenChunk
    <3>2. i \notin stopped
      <4>1. CASE Upstream \in {"chat", "gemini"}
        BY <4>1, <2>1, OpenNotStopped
      <4>2. CASE Upstream \in {"anthropic", "responses"}
        <5>1. i = Items /\ \A j \in stopped : j < Items
          BY <4>2, <3>1, <2>1, <2>2, OpenNotStopped
        <5> QED BY <5>1, <1>0
      <4> QED BY <1>0, <4>1, <4>2 DEF Protocols
    <3>3. /\ Start(i, k) \in Event /\ Opening(Start(i, k))
          /\ Start(i, k).index \notin stopped
      BY <3>2, ProviderEvents DEF Opening
    <3> QED BY <3>1, <3>3, <1>o, <2>2
  <2> QED BY <2>3, <2>4
<1>3. CASE SendDelta
  <2>1. /\ answer' = [answer EXCEPT !.deltas = Append(answer.deltas, answer.items[Items])]
        /\ answer.open /\ answer.phase = "answering"
    BY <1>3 DEF SendDelta
  <2>2. answer'.phase = "answering" /\ Closed = Items - 1
    BY <1>0, <2>1 DEF Closed
  <2>3. CASE decoded' = <<>>
    BY <2>3, <1>e
  <2>4. CASE decoded' # <<>>
    <3>1. PICK i \in Indices, k \in Kinds :
            /\ decoded' = <<Delta(i, k)>>
            /\ Upstream \in {"anthropic", "responses"} => i = Items - 1
      BY <1>0, <1>3, <2>4, DeltaChunk
    <3>2. i \notin stopped
      <4>1. CASE Upstream \in {"chat", "gemini"}
        BY <4>1, <2>1, OpenNotStopped
      <4>2. CASE Upstream \in {"anthropic", "responses"}
        <5>1. i = Items - 1 /\ \A j \in stopped : j < Items - 1
          BY <4>2, <3>1, <2>1, <2>2, OpenNotStopped
        <5> QED BY <5>1, <1>0
      <4> QED BY <1>0, <4>1, <4>2 DEF Protocols
    <3>3. /\ Delta(i, k) \in Event /\ Opening(Delta(i, k))
          /\ Delta(i, k).index \notin stopped
      BY <3>2, ProviderEvents DEF Opening
    <3> QED BY <3>1, <3>3, <1>o, <2>2
  <2> QED BY <2>3, <2>4
<1>4. CASE Close
  <2>1. /\ answer' = [answer EXCEPT !.open = FALSE]
        /\ answer.open /\ answer.phase = "answering"
    BY <1>4 DEF Close
  <2>2. answer'.open = FALSE /\ answer'.items = answer.items
    BY <1>0, <2>1
  <2>3. Closed = Items - 1 /\ Closed' = Items
    BY <2>1, <2>2 DEF Closed, Items
  <2>4. CASE decoded' = <<>>
    BY <2>4, <1>e
  <2>5. CASE decoded' # <<>>
    <3>1. /\ Upstream \in {"anthropic", "responses"}
          /\ Items - 1 \in Indices /\ decoded' = <<Stop(Items - 1)>>
      BY <1>0, <1>4, <2>5, CloseChunk
    <3>2. \A j \in stopped : j < Items - 1
      BY <3>1, <2>1, <2>3, OpenNotStopped
    <3>3. Items - 1 \notin stopped
      BY <3>2, <1>0
    <3>4. \A i : i = Items - 1 => Stoppable(i)'
      <4>1. \A i : i < Closed' /\ Upstream' \notin {"chat", "gemini"} => Stoppable(i)'
        BY DEF Stoppable
      <4>2. Items - 1 < Items /\ Upstream' \notin {"chat", "gemini"}
        BY <3>1, <1>0
      <4> QED BY <4>1, <4>2, <2>3
    <3> DEFINE e == Stop(Items - 1)
    <3>5. e \in Event /\ e.type = "content_part_stop" /\ e.index = Items - 1
      BY <3>1, ProviderEvents
    <3>6. decoded' = <<e>>
      BY <3>1
    <3> HIDE DEF e
    <3>7. Len(decoded') = 1 /\ decoded'[1] = e
      BY <3>6
    <3> QED BY <3>3, <3>4, <3>5, <3>7 DEF Fits, Opening
  <2> QED BY <2>4, <2>5
<1>5. CASE Finish
  <2>1. answer.phase = "answering" /\ answer'.phase = "finished"
    <3>1. answer.phase = "answering" /\ answer' = [answer EXCEPT !.phase = "finished", !.stop = answer'.stop]
      BY <1>5, <1>0, FinishChunk DEF Finish
    <3> QED BY <3>1, <1>0
  <2>2. \A p \in 1..Len(decoded') :
          \/ p = 1 /\ Upstream = "gemini" /\ decoded'[p] = Stop(0)
          \/ decoded'[p].type \in {"message_delta", "done"}
    BY <1>5, <1>0, FinishChunk
  <2>3. Upstream = "gemini" => stopped = {}
    BY <2>1, OpenNotStopped
  <2>4. Stop(0).type = "content_part_stop"
    BY <1>0, ProviderEvents
  <2>5. \A i : Upstream = "gemini" => Stoppable(i)'
    BY <1>0, <2>1 DEF Stoppable, Begun
  <2> QED BY <2>2, <2>3, <2>4, <2>5 DEF Fits, Opening, Stopping
<1>6. CASE FinishUnread \/ SendUsage \/ SendStop \/ Fail
  <2>1. \/ decoded' = <<Report("", TRUE)>> \/ decoded' = <<Done>>
        \/ decoded' = <<Error>> \/ decoded' = <<>>
    BY <1>6 DEF FinishUnread, SendUsage, SendStop, Fail, Chunk
  <2>2. "" \in StopReasons
    BY DEF StopReasons
  <2>3. \A e \in {Report("", TRUE), Done, Error} : e \in Event /\ ~Opening(e) /\ ~Stopping(e)
    BY <2>2, ProviderEvents DEF Opening, Stopping
  <2> QED BY <2>1, <2>3, <1>e, <1>n, Zenon
<1> QED
  BY <1>1, <1>2, <1>3, <1>4, <1>5, <1>6 DEF Provider

LEMMA StopsInOrderNext ==
  ASSUME AggTypeOK, ConvInv, [Next]_vars
  PROVE  StopsInOrder' /\ OpensAlone'
<1>0. ConvTypeOK /\ StopsInOrder /\ OpensAlone /\ stopped \subseteq Indices
  BY DEF ConvInv, AggTypeOK
<1>1. CASE Provider
  <2>1. stopped' = stopped /\ Live' = Live
    BY <1>1, ProviderFrame DEF aggVars, Live
  <2>2. Live' => \A i \in stopped' : Stoppable(i)'
    <3> SUFFICES ASSUME Live, NEW i \in stopped PROVE Stoppable(i)'
      BY <2>1
    <3> QED BY <1>0, <1>1, StoppableStays DEF StopsInOrder
  <2> QED BY <1>1, <2>1, <2>2, NextChunk DEF StopsInOrder, OpensAlone
<1>2. CASE EndOfStream
  <2>1. ~Live' /\ stopped' = stopped /\ decoded = <<>> /\ decoded' = decoded
    BY <1>2, EndFrame DEF EndOfStream, Idle
  <2>2. \A p \in 1..Len(decoded') : FALSE
    <3>1. 1..Len(<<>>) = {}
      OBVIOUS
    <3> QED BY <2>1, <3>1
  <2> QED BY <2>1, <2>2 DEF StopsInOrder, OpensAlone
<1>3. CASE Aggregate
  <2>1. /\ UNCHANGED <<answer, route>> /\ decoded' = Tail(decoded) /\ decoded # <<>>
        /\ ProcessIREvent(Head(decoded)) /\ ~finishing
    BY <1>3 DEF Aggregate
  <2> DEFINE e == Head(decoded)
  <2>2. e = decoded[1] /\ 1 \in 1..Len(decoded) /\ e \in Event
    BY <1>0, <2>1, NextDecoded
  <2>3. \A i : Stoppable(i)' <=> Stoppable(i)
    BY <2>1 DEF Stoppable, Closed, Items, Begun, Upstream
  <2>4. doneSent \/ Handle(e)
    BY <2>1 DEF ProcessIREvent
  <2>5. Live' => Live /\ Handle(e)
    BY <2>1, <2>4, HandlerFrame DEF ProcessIREvent, Live, aggVars
  <2> HIDE DEF e
  <2>6. Live' => \A i \in stopped' : Stoppable(i)'
    <3> SUFFICES ASSUME Live', NEW i \in stopped' PROVE Stoppable(i)
      BY <2>3
    <3>1. i \in stopped \/ (Stopping(e) /\ i = e.index)
      BY <2>5, HandlerFrame DEF Stopping
    <3> QED BY <3>1, <2>2, <2>5, <1>0 DEF StopsInOrder
  <2>7. \A p \in 1..Len(decoded') : ~Stopping(decoded'[p]) /\ ~Opening(decoded'[p])
    <3> SUFFICES ASSUME NEW p \in 1..Len(decoded')
                 PROVE  ~Stopping(decoded'[p]) /\ ~Opening(decoded'[p])
      OBVIOUS
    <3>1. /\ p + 1 \in 1..Len(decoded) /\ decoded'[p] = decoded[p + 1]
          /\ p \in Nat /\ p > 0 /\ Len(decoded) \in Nat
      BY <1>0, <2>1, NextDecoded
    <3>2. p + 1 # 1 /\ Len(decoded) # 1
      BY <3>1
    <3> QED BY <3>1, <3>2, <1>0 DEF StopsInOrder, OpensAlone
  <2> QED BY <2>6, <2>7 DEF StopsInOrder, OpensAlone
<1>4. CASE WriteNext \/ UNCHANGED vars
  <2>1. UNCHANGED <<stopped, finishing, doneSent, answer, decoded, route>>
    BY <1>4 DEF WriteNext, aggVars, vars, convVars
  <2>2. \A i : Stoppable(i)' <=> Stoppable(i)
    BY <2>1 DEF Stoppable, Closed, Items, Begun, Upstream
  <2>3. Live' = Live
    BY <2>1 DEF Live
  <2> QED BY <1>0, <2>1, <2>2, <2>3 DEF StopsInOrder, OpensAlone
<1>5. CASE Finishes
  <2>1. ~Live' /\ ~Begun /\ UNCHANGED convVars
    BY <1>5, EndFrame
  <2>2. UNCHANGED <<answer, decoded, route>>
    BY <2>1 DEF convVars
  <2>3. \A i : Stoppable(i)' <=> Stoppable(i)
    BY <2>2 DEF Stoppable, Closed, Items, Begun, Upstream
  <2>4. \A p \in 1..Len(decoded) : ~Opening(decoded[p])
    BY <1>0, <2>1 DEF OpensAlone, Begun
  <2> QED BY <1>0, <2>1, <2>2, <2>3, <2>4 DEF StopsInOrder, OpensAlone
<1> QED
  BY <1>1, <1>2, <1>3, <1>4, <1>5 DEF Next, Handler

LEMMA ConvInvInit == Init => ConvInv
<1> SUFFICES ASSUME Init PROVE ConvInv
  OBVIOUS
<1>1. decoded = <<>> /\ stopped = {} /\ answer.stop = "" /\ Live
  BY DEF Init, AggInit, Live
<1>2. \A p \in 1..Len(decoded) : FALSE
  <2>1. 1..Len(<<>>) = {}
    OBVIOUS
  <2> QED BY <1>1, <2>1
<1> QED
  BY <1>1, <1>2, ConvTypeInit DEF ConvInv, NothingEnded, StopsInOrder, OpensAlone

LEMMA ConvInvNext ==
  ASSUME AggTypeOK, AggInv, ConvInv, [Next]_vars
  PROVE  AggTypeOK' /\ AggInv' /\ ConvInv'
<1>1. [AggNext]_aggVars
  BY AggregatorSteps
<1>2. AggTypeOK' /\ AggInv'
  BY <1>1, AggTypeNext, AggInvNext
<1>3. ConvTypeOK' /\ NothingEnded' /\ StopsInOrder' /\ OpensAlone'
  BY ConvTypeNext, NothingEndedNext, StopsInOrderNext
<1> QED BY <1>2, <1>3 DEF ConvInv

(* What the adapters of the providers decode is legal, whatever the provider *)
(* answers and wherever its stream is cut: an item is opened while nothing    *)
(* has stopped it, and nothing is decoded after the end.                      *)
THEOREM ConversionInvariant == Spec => [](AggTypeOK /\ AggInv /\ ConvInv)
<1>1. Init => AggTypeOK /\ AggInv /\ ConvInv
  BY ConvInvInit, AggTypeInit, AggInvInit DEF Init
<1> QED BY <1>1, ConvInvNext, PTL DEF Spec

(* A converted stream is a behaviour of the aggregator, for all protocols.   *)
THEOREM ConversionAggregates == Spec => AggSpec
<1>1. Init => AggInit
  BY DEF Init
<1>2. ConvInv /\ [Next]_vars => [AggNext]_aggVars
  BY AggregatorSteps
<1> QED BY <1>1, <1>2, ConversionInvariant, PTL DEF Spec, AggSpec

-----------------------------------------------------------------------------
(* Counting.                                                                 *)

LEMMA TallyNone ==
  ASSUME NEW s, NEW S, \A p \in 1..Len(s) : s[p] \notin S
  PROVE  Tally(s, S) = 0
<1>1. {p \in 1..Len(s) : s[p] \in S} = {}
  OBVIOUS
<1> QED BY <1>1, FS_EmptySet DEF Tally

LEMMA TallyType ==
  ASSUME NEW T, NEW s \in Seq(T), NEW S
  PROVE  Tally(s, S) \in Nat
<1>1. Len(s) \in Nat /\ {p \in 1..Len(s) : s[p] \in S} \in SUBSET (1..Len(s))
  OBVIOUS
<1>2. IsFiniteSet(1..Len(s))
  BY <1>1, FS_Interval
<1> QED BY <1>1, <1>2, FS_Subset, FS_CardinalityType DEF Tally

LEMMA TallyOne ==
  ASSUME NEW T, NEW s \in Seq(T), NEW x \in T, NEW S
  PROVE  /\ Tally(s, S) \in Nat
         /\ Tally(s \o <<x>>, S) = Tally(s, S) + (IF x \in S THEN 1 ELSE 0)
         /\ Tally(<<x>>, S) = IF x \in S THEN 1 ELSE 0
<1> DEFINE n == Len(s)
           t == s \o <<x>>
           A == {p \in 1..n : s[p] \in S}
           B == {p \in 1..(n + 1) : t[p] \in S}
<1>1. /\ n \in Nat /\ Len(t) = n + 1 /\ t[n + 1] = x
      /\ \A p \in 1..n : t[p] = s[p]
  <2>1. <<x>> \in Seq(T) /\ Len(<<x>>) = 1 /\ <<x>>[1] = x
    OBVIOUS
  <2>2. /\ Len(t) = n + 1 /\ n \in Nat
        /\ \A p \in 1..n : t[p] = s[p]
        /\ \A p \in 1..1 : t[n + p] = <<x>>[p]
    BY <2>1, Concatenation
  <2> QED BY <2>1, <2>2
<1> HIDE DEF n, t
<1>2. IsFiniteSet(1..n) /\ A \in SUBSET (1..n)
  BY <1>1, FS_Interval
<1>3. IsFiniteSet(A) /\ Cardinality(A) \in Nat
  BY <1>2, FS_Subset, FS_CardinalityType
<1>4. n + 1 \notin A
  BY <1>1
<1>5. B = IF x \in S THEN A \cup {n + 1} ELSE A
  BY <1>1
<1>6. Cardinality(A \cup {n + 1}) = Cardinality(A) + 1
  BY <1>3, <1>4, FS_AddElement
<1>7. Tally(s, S) = Cardinality(A) /\ Tally(t, S) = Cardinality(B)
  BY <1>1 DEF Tally, n
<1>8. Tally(<<x>>, S) = IF x \in S THEN 1 ELSE 0
  <2>1. {p \in 1..1 : <<x>>[p] \in S} = IF x \in S THEN {1} ELSE {}
    OBVIOUS
  <2>2. Len(<<x>>) = 1
    OBVIOUS
  <2>3. Cardinality({1}) = 1 /\ Cardinality({}) = 0
    BY FS_Singleton, FS_EmptySet
  <2> QED BY <2>1, <2>2, <2>3 DEF Tally
<1> HIDE DEF A, B
<1>9. Tally(t, S) = Tally(s, S) + (IF x \in S THEN 1 ELSE 0)
  BY <1>3, <1>5, <1>6, <1>7
<1> QED BY <1>3, <1>7, <1>8, <1>9 DEF t

\* What the aggregator adds on its own are no deltas: the count grows by the
\* event it was given.
LEMMA HandleTally ==
  ASSUME AggTypeOK, NEW e \in Event, NEW class
  PROVE  /\ Tally(emitted, DeltasOf(class)) \in Nat
         /\ Handle(e) => Tally(emitted', DeltasOf(class))
              = Tally(emitted, DeltasOf(class)) + (IF e \in DeltasOf(class) THEN 1 ELSE 0)
         /\ HandleDone \/ CloseItem \/ SendDone =>
              Tally(emitted', DeltasOf(class)) = Tally(emitted, DeltasOf(class))
<1> DEFINE D == DeltasOf(class)
<1>0. emitted \in Seq(Event) /\ e.kind \in Kinds \cup {"unknown"} /\ e.index \in Indices
  BY DEF AggTypeOK, Event
<1>1. \A x \in Event : x.type # "content_part_delta" => x \notin D
  BY DEF DeltasOf
<1> HIDE DEF D
<1>2. \A s \in Seq(Event), x \in Event :
        /\ s \o <<x>> \in Seq(Event) /\ s \o <<>> = s
        /\ Tally(s, D) \in Nat
        /\ x \notin D => Tally(s \o <<x>>, D) = Tally(s, D)
        /\ x \in D => Tally(s \o <<x>>, D) = Tally(s, D) + 1
  <2> TAKE s \in Seq(Event), x \in Event
  <2>1. s \o <<x>> \in Seq(Event) /\ s \o <<>> = s
    OBVIOUS
  <2>2. /\ Tally(s, D) \in Nat
        /\ Tally(s \o <<x>>, D) = Tally(s, D) + (IF x \in D THEN 1 ELSE 0)
    BY TallyOne
  <2> QED BY <2>1, <2>2
<1>3. /\ emitted \o Preamble \in Seq(Event)
      /\ Tally(emitted \o Preamble, D) = Tally(emitted, D)
  <2>1. Created \in Event /\ Created \notin D
    BY <1>1, ProviderEvents
  <2> QED BY <1>0, <1>2, <2>1 DEF Preamble
<1>4. \A k \in Kinds \cup {"unknown"} :
        /\ emitted \o Preamble \o AddedFirst(e.index, k) \in Seq(Event)
        /\ Tally(emitted \o Preamble \o AddedFirst(e.index, k), D) = Tally(emitted, D)
  <2> TAKE k \in Kinds \cup {"unknown"}
  <2>1. ItemAdded(e.index, k) \in Event /\ ItemAdded(e.index, k).type # "content_part_delta"
    BY <1>0, MadeUpEvents DEF ItemAdded, Bare
  <2>2. ItemAdded(e.index, k) \notin D
    BY <1>1, <2>1
  <2> QED BY <1>2, <1>3, <2>1, <2>2 DEF AddedFirst
<1>5. ASSUME Handle(e)
      PROVE  Tally(emitted', D) = Tally(emitted, D) + (IF e \in D THEN 1 ELSE 0)
  <2>0. Tally(emitted, D) \in Nat /\ "unknown" \in Kinds \cup {"unknown"}
    BY <1>0, <1>2
  <2>1. CASE HandleMessageStart(e) \/ HandleError(e)
    <3>1. emitted' = emitted \o <<e>>
      BY <2>1, <1>0, JoinOne DEF HandleMessageStart, HandleError
    <3> QED BY <3>1, <1>0, <1>2, <2>0
  <2>2. CASE HandleContentStart(e) \/ HandleMessageDelta(e)
    <3> DEFINE s == emitted \o Preamble
    <3>1. emitted' = s \o <<e>>
      BY <2>2 DEF HandleContentStart, HandleMessageDelta
    <3>2. s \in Seq(Event) /\ Tally(s, D) = Tally(emitted, D)
      BY <1>3
    <3> HIDE DEF s
    <3> QED BY <3>1, <3>2, <1>2, <2>0
  <2>3. CASE HandleContentDelta(e) \/ HandleContentStop(e)
    <3>1. PICK k \in Kinds \cup {"unknown"} :
            emitted' = (emitted \o Preamble \o AddedFirst(e.index, k)) \o <<e>>
      BY <2>3, <1>0, <2>0 DEF HandleContentDelta, HandleContentStop
    <3> DEFINE s == emitted \o Preamble \o AddedFirst(e.index, k)
    <3>2. /\ emitted' = s \o <<e>> /\ s \in Seq(Event)
          /\ Tally(s, D) = Tally(emitted, D)
      BY <3>1, <1>4
    <3> HIDE DEF s
    <3> QED BY <3>2, <1>2, <2>0
  <2>4. CASE HandleDone /\ e.type = "done"
    <3>1. emitted' = emitted \o Preamble /\ e \notin D
      BY <2>4, <1>1 DEF HandleDone
    <3> QED BY <3>1, <1>3, <2>0
  <2> QED BY <1>5, <2>1, <2>2, <2>3, <2>4 DEF Handle
<1>6. ASSUME HandleDone PROVE Tally(emitted', D) = Tally(emitted, D)
  <2>1. emitted' = emitted \o Preamble
    BY <1>6 DEF HandleDone
  <2> QED BY <2>1, <1>3
<1>7. ASSUME CloseItem PROVE Tally(emitted', D) = Tally(emitted, D)
  <2>1. PICK i \in Indices : emitted' = Append(emitted, Stop(i))
    BY <1>7 DEF CloseItem, OpenItems
  <2>2. Stop(i) \in Event /\ Stop(i) \notin D
    BY <1>1, ProviderEvents
  <2>3. emitted' = emitted \o <<Stop(i)>>
    BY <1>0, <2>1, <2>2, JoinOne
  <2> HIDE DEF Stop
  <2> QED BY <1>0, <1>2, <2>2, <2>3
<1>8. ASSUME SendDone PROVE Tally(emitted', D) = Tally(emitted, D)
  <2> DEFINE md == [Bare("message_delta", 0, "unknown") EXCEPT !.stop = stopReason,
                                                               !.usage = usage]
             dn == [Bare("done", 0, "unknown") EXCEPT !.usage = usage]
  <2>1. md \in Event /\ dn \in Event
    BY MadeUpEvents DEF AggTypeOK
  <2>2. md.type = "message_delta" /\ dn.type = "done"
    BY DEF Bare
  <2>3. emitted' = emitted \o <<md, dn>>
    BY <1>8 DEF SendDone
  <2> HIDE DEF md, dn
  <2> DEFINE s == emitted \o <<md>>
  <2>j. (emitted \o <<md>>) \o <<dn>> = emitted \o <<md, dn>>
    BY <1>0, <2>1, JoinTwo
  <2>4. emitted' = s \o <<dn>>
    BY <2>3, <2>j
  <2>5. s \in Seq(Event) /\ Tally(s, D) = Tally(emitted, D)
    BY <1>0, <1>1, <1>2, <2>1, <2>2
  <2> HIDE DEF s
  <2>6. Tally(s \o <<dn>>, D) = Tally(s, D)
    BY <1>1, <1>2, <2>1, <2>2, <2>5
  <2> QED BY <2>4, <2>5, <2>6
<1>9. Tally(emitted, D) \in Nat
  BY <1>0, <1>2
<1> QED BY <1>5, <1>6, <1>7, <1>8, <1>9 DEF D

\* The next delta of the provider is decoded to one of its class; no other
\* chunk carries one.
LEMMA ChunkTally ==
  ASSUME AggTypeOK, ConvInv, Provider, NEW class \in {"text", "tool_call"},
         class = "tool_call" => Upstream # "gemini"
  PROVE  LET kinds == IF class = "text" THEN TextKinds ELSE {"tool_call"}
         IN /\ Tally(answer.deltas, kinds) \in Nat
            /\ Tally(answer'.deltas, kinds)
                 = Tally(answer.deltas, kinds) + Tally(decoded', DeltasOf(class))
<1> DEFINE D == DeltasOf(class)
           kinds == IF class = "text" THEN TextKinds ELSE {"tool_call"}
<1>0. /\ ConvTypeOK /\ answer.deltas \in Seq(Kinds)
      /\ answer \in [phase: Phases, items: Seq(Kinds), open: BOOLEAN,
                     deltas: Seq(Kinds), stop: StopReasons]
  BY AnswerTyped DEF ConvInv, ConvTypeOK
<1>1. /\ \A x \in Event : x.type # "content_part_delta" => x \notin D
      /\ \A i \in Indices, k \in Kinds : Delta(i, k) \in D <=> Class(k) = class
  BY ProviderEvents DEF DeltasOf
<1>2. Tally(answer.deltas, kinds) \in Nat
  BY <1>0, TallyType
<1>3. ASSUME answer'.deltas = answer.deltas,
             \A p \in 1..Len(decoded') : decoded'[p] \notin D
      PROVE  Tally(answer'.deltas, kinds) = Tally(answer.deltas, kinds) + Tally(decoded', D)
  <2> HIDE DEF D, kinds
  <2>1. Tally(decoded', D) = 0
    BY <1>3, TallyNone
  <2> QED BY <2>1, <1>2, <1>3
<1>s. SUFFICES Tally(answer'.deltas, kinds) = Tally(answer.deltas, kinds) + Tally(decoded', D)
  BY <1>2
<1>4. CASE SendDelta
  <2> DEFINE kind == answer.items[Items]
  <2>1. /\ answer' = [answer EXCEPT !.deltas = Append(answer.deltas, kind)]
        /\ kind \in Kinds
    BY <1>4, <1>0, AnswerTyped DEF SendDelta
  <2>2. /\ kind \in kinds => Class(kind) = class
        /\ Class(kind) = class => kind \in kinds \/ (kind = "reasoning" /\ Upstream = "responses")
    <3>1. Class(kind) = "text" \/ Class(kind) = "tool_call"
      BY DEF Class
    <3>2. Class(kind) = "tool_call" <=> kind = "tool_call"
      BY DEF Class
    <3>3. kind \in {"text", "tool_call", "reasoning"}
      BY <2>1 DEF Kinds
    <3> QED BY <3>1, <3>2, <3>3 DEF TextKinds
  <2>3. \/ /\ decoded' = <<>>
           /\ \/ Upstream = "gemini" /\ kind = "tool_call"
              \/ Upstream = "responses" /\ kind = "reasoning"
        \/ \E i \in Indices, k \in Kinds :
             /\ decoded' = <<Delta(i, k)>> /\ Class(k) = Class(kind)
             /\ Upstream = "responses" => kind # "reasoning"
             /\ Upstream = "gemini" => k = "text"
    BY <1>0, <1>4, DeltaChunk
  <2>4. answer'.deltas = answer.deltas \o <<kind>>
    BY <1>0, <2>1, JoinOne
  <2>5. Tally(answer'.deltas, kinds)
          = Tally(answer.deltas, kinds) + (IF kind \in kinds THEN 1 ELSE 0)
    <3> HIDE DEF kind, kinds
    <3>1. Tally(answer.deltas \o <<kind>>, kinds)
            = Tally(answer.deltas, kinds) + (IF kind \in kinds THEN 1 ELSE 0)
      BY <1>0, <2>1, TallyOne
    <3> QED BY <2>4, <3>1
  <2>6. CASE decoded' = <<>>
    <3>1. kind \notin kinds
      <4>1. "tool_call" \notin TextKinds /\ (Upstream = "responses" => "reasoning" \notin TextKinds)
        BY DEF TextKinds
      <4>2. \/ Upstream = "gemini" /\ kind = "tool_call"
            \/ Upstream = "responses" /\ kind = "reasoning"
        BY <2>3, <2>6
      <4> QED BY <4>1, <4>2
    <3>2. Tally(decoded', D) = 0
      <4>1. Len(decoded') = 0
        BY <2>6
      <4> HIDE DEF D
      <4> QED BY <4>1, TallyNone
    <3> QED BY <1>2, <2>5, <3>1, <3>2
  <2>7. CASE decoded' # <<>>
    <3>1. PICK i \in Indices, k \in Kinds :
            /\ decoded' = <<Delta(i, k)>> /\ Class(k) = Class(kind)
            /\ Upstream = "responses" => kind # "reasoning"
      BY <2>3, <2>7
    <3>2. Delta(i, k) \in Event /\ (Delta(i, k) \in D <=> kind \in kinds)
      BY <3>1, <2>2, <1>1, ProviderEvents
    <3> HIDE DEF D, kinds, kind
    <3>3. <<>> \in Seq(Event)
      OBVIOUS
    <3>4. Tally(decoded', D) = IF Delta(i, k) \in D THEN 1 ELSE 0
      BY <3>1, <3>2, <3>3, TallyOne
    <3> QED BY <1>2, <2>5, <3>2, <3>4
  <2> QED BY <2>6, <2>7
<1>5. CASE Begin
  <2>1. answer'.deltas = answer.deltas /\ (decoded' = <<>> \/ decoded' = <<Created>>)
    BY <1>0, <1>5 DEF Begin, Chunk, DecodeBegin
  <2>2. Created \notin D
    BY <1>1, ProviderEvents
  <2> HIDE DEF D, kinds
  <2> QED BY <2>1, <2>2, <1>3
<1>6. ASSUME NEW kind \in Kinds, Open(kind)
      PROVE  Tally(answer'.deltas, kinds) = Tally(answer.deltas, kinds) + Tally(decoded', D)
  <2>1. answer'.deltas = answer.deltas
    BY <1>0, <1>6 DEF Open
  <2>2. \A i \in Indices, k \in Kinds : Start(i, k) \notin D
    BY <1>1, ProviderEvents
  <2>3. decoded' = <<>> \/ \E i \in Indices, k \in Kinds : decoded' = <<Start(i, k)>>
    BY <1>0, <1>6, OpenChunk
  <2> HIDE DEF D, kinds
  <2> QED BY <2>1, <2>2, <2>3, <1>3
<1>7. CASE Close
  <2>1. answer'.deltas = answer.deltas
    BY <1>0, <1>7 DEF Close
  <2>2. \A i \in Indices : Stop(i) \notin D
    BY <1>1, ProviderEvents
  <2>3. decoded' = <<>> \/ \E i \in Indices : decoded' = <<Stop(i)>>
    BY <1>0, <1>7, CloseChunk
  <2> HIDE DEF D, kinds
  <2> QED BY <2>1, <2>2, <2>3, <1>3
<1>8. CASE Finish
  <2>1. answer' = [answer EXCEPT !.phase = "finished", !.stop = answer'.stop]
    BY <1>0, <1>8, FinishChunk
  <2>2. answer'.deltas = answer.deltas
    <3> DEFINE stop == answer'.stop
    <3> HIDE DEF stop
    <3>1. answer' = [answer EXCEPT !.phase = "finished", !.stop = stop]
      BY <2>1 DEF stop
    <3> QED BY <3>1, <1>0
  <2>3. \A p \in 1..Len(decoded') : decoded'[p].type # "content_part_delta"
    <3>1. Stop(0).type = "content_part_stop"
      BY IndicesAssumption, ProviderEvents
    <3> QED BY <1>0, <1>8, <3>1, FinishChunk
  <2>4. \A p \in 1..Len(decoded') : decoded'[p] \notin D
    BY <2>3 DEF DeltasOf
  <2> HIDE DEF D, kinds
  <2> QED BY <2>2, <2>4, <1>3
<1>9. CASE FinishUnread \/ SendUsage \/ SendStop \/ Fail
  <2>1. /\ answer'.deltas = answer.deltas
        /\ \/ decoded' = <<Report("", TRUE)>> \/ decoded' = <<Done>>
           \/ decoded' = <<Error>> \/ decoded' = <<>>
    BY <1>0, <1>9 DEF FinishUnread, SendUsage, SendStop, Fail, Chunk
  <2>2. "" \in StopReasons
    BY DEF StopReasons
  <2>3. Report("", TRUE) \notin D /\ Done \notin D /\ Error \notin D
    <3>1. Report("", TRUE) \in Event /\ Report("", TRUE).type = "message_delta"
      BY <2>2, ProviderEvents
    <3>2. /\ Done \in Event /\ Done.type = "done"
          /\ Error \in Event /\ Error.type = "error"
      BY ProviderEvents
    <3> HIDE DEF D
    <3> QED BY <1>1, <3>1, <3>2
  <2> HIDE DEF D, kinds
  <2>4. (\E e : e \notin D /\ decoded' = <<e>>) \/ decoded' = <<>>
    BY <2>1, <2>3, Zenon
  <2>5. \A p \in 1..Len(decoded') : decoded'[p] \notin D
    BY <2>4
  <2> QED BY <2>1, <2>5, <1>3
<1> QED
  BY <1>4, <1>5, <1>6, <1>7, <1>8, <1>9 DEF Provider

\* The count of one class is kept.
SentAs(kinds, class) ==
  Tally(answer.deltas, kinds)
    = Tally(emitted, DeltasOf(class)) + Tally(decoded, DeltasOf(class))

LEMMA SentAsNext ==
  ASSUME AggTypeOK, ConvInv, [Next]_vars, NEW class \in {"text", "tool_call"},
         class = "tool_call" => Upstream # "gemini",
         NEW kinds, kinds = IF class = "text" THEN TextKinds ELSE {"tool_call"},
         SentAs(kinds, class)
  PROVE  Tally(answer'.deltas, kinds)
           = Tally(emitted', DeltasOf(class)) + Tally(decoded', DeltasOf(class))
<1>0. /\ ConvTypeOK /\ OpensAlone /\ NothingEnded
      /\ Tally(answer.deltas, kinds) = Tally(emitted, DeltasOf(class)) + Tally(decoded, DeltasOf(class))
      /\ Tally(emitted, DeltasOf(class)) \in Nat
  <2>1. Done \in Event
    BY ProviderEvents
  <2> QED BY <2>1, HandleTally DEF ConvInv, SentAs
<1>e. Tally(<<>>, DeltasOf(class)) = 0
  <2>1. Len(<<>>) = 0
    OBVIOUS
  <2> QED BY <2>1, TallyNone
<1>1. CASE Provider
  <2>1. emitted' = emitted /\ decoded = <<>>
    BY <1>1, ProviderFrame DEF aggVars, Idle
  <2>2. /\ Tally(answer.deltas, kinds) \in Nat
        /\ Tally(answer'.deltas, kinds) = Tally(answer.deltas, kinds) + Tally(decoded', DeltasOf(class))
    BY <1>1, ChunkTally
  <2>3. Tally(emitted, DeltasOf(class)) = Tally(answer.deltas, kinds)
    BY <1>0, <1>e, <2>1, <2>2
  <2> QED BY <2>1, <2>2, <2>3
<1>2. CASE EndOfStream
  <2>1. decoded = <<>> /\ decoded' = decoded /\ answer'.deltas = answer.deltas
    BY <1>0, <1>2 DEF EndOfStream, Idle, ConvTypeOK
  <2>2. doneSent \/ HandleDone
    BY <1>2, EndFrame DEF EndOfStream
  <2>3. doneSent => emitted' = emitted
    BY <1>2, EndFrame DEF EndOfStream
  <2>4. Done \in Event
    BY ProviderEvents
  <2>5. Tally(emitted', DeltasOf(class)) = Tally(emitted, DeltasOf(class))
    BY <2>2, <2>3, <2>4, HandleTally
  <2> QED BY <1>0, <2>1, <2>5
<1>3. CASE Aggregate
  <2>1. /\ answer' = answer /\ decoded' = Tail(decoded) /\ decoded # <<>>
        /\ ProcessIREvent(Head(decoded))
    BY <1>3 DEF Aggregate
  <2> DEFINE e == Head(decoded)
  <2>2. /\ e = decoded[1] /\ e \in Event /\ 1 \in 1..Len(decoded)
        /\ decoded \in Seq(Event) /\ Len(decoded) \in Nat
        /\ \A p \in 1..Len(decoded') :
             p + 1 \in 1..Len(decoded) /\ decoded'[p] = decoded[p + 1]
        /\ Len(decoded') = Len(decoded) - 1
    BY <2>1, <1>0, NextDecoded DEF ConvTypeOK
  <2>3. IF doneSent THEN emitted' = emitted ELSE Handle(e)
    BY <2>1 DEF ProcessIREvent, aggVars
  <2> HIDE DEF e
  <2>4. CASE \A p \in 1..Len(decoded) : decoded[p] \notin DeltasOf(class)
    <3>1. \A p \in 1..Len(decoded') : decoded'[p] \notin DeltasOf(class)
      BY <2>2, <2>4
    <3>2. e \notin DeltasOf(class)
      BY <2>2, <2>4
    <3>3. Tally(emitted', DeltasOf(class)) = Tally(emitted, DeltasOf(class))
      BY <1>0, <2>2, <2>3, <3>2, HandleTally
    <3>4. Tally(decoded, DeltasOf(class)) = 0 /\ Tally(decoded', DeltasOf(class)) = 0
      BY <2>4, <3>1, TallyNone
    <3> QED BY <1>0, <2>1, <3>3, <3>4
  <2>5. CASE \E p \in 1..Len(decoded) : decoded[p] \in DeltasOf(class)
    <3>1. PICK p \in 1..Len(decoded) : decoded[p] \in DeltasOf(class)
      BY <2>5
    <3>2. Opening(decoded[p])
      BY <3>1 DEF DeltasOf, Opening
    <3>3. Len(decoded) = 1 /\ answer.phase = "answering"
      BY <3>2, <1>0 DEF OpensAlone
    <3>4. e \in DeltasOf(class) /\ ~doneSent
      <4>1. p = 1
        BY <3>3
      <4>2. Begun
        BY <3>3 DEF Begun
      <4> QED BY <1>0, <2>2, <3>1, <4>1, <4>2 DEF NothingEnded, Live
    <3>5. Tally(emitted', DeltasOf(class)) = Tally(emitted, DeltasOf(class)) + 1
      BY <2>2, <2>3, <3>4, HandleTally
    <3>6. decoded = <<e>> /\ Len(decoded') = 0
      BY <2>2, <3>3
    <3>7. Tally(decoded, DeltasOf(class)) = 1 /\ Tally(decoded', DeltasOf(class)) = 0
      <4>1. <<>> \in Seq(Event)
        OBVIOUS
      <4>2. Tally(<<e>>, DeltasOf(class)) = 1
        BY <2>2, <3>4, <4>1, TallyOne
      <4>3. Tally(decoded', DeltasOf(class)) = 0
        BY <3>6, TallyNone
      <4> QED BY <3>6, <4>2, <4>3
    <3> QED BY <1>0, <2>1, <3>5, <3>7
  <2> QED BY <2>4, <2>5
<1>4. CASE WriteNext \/ UNCHANGED vars
  <2>1. UNCHANGED <<emitted, decoded, answer>>
    BY <1>4 DEF WriteNext, vars, aggVars, convVars
  <2> QED BY <2>1, <1>0
<1>5. CASE Finishes
  <2>1. UNCHANGED <<decoded, answer>> /\ (CloseItem \/ SendDone)
    BY <1>5 DEF Finishes, convVars
  <2>2. Done \in Event
    BY ProviderEvents
  <2>3. Tally(emitted', DeltasOf(class)) = Tally(emitted, DeltasOf(class))
    BY <2>1, <2>2, HandleTally
  <2> QED BY <2>1, <2>3, <1>0
<1> QED
  BY <1>1, <1>2, <1>3, <1>4, <1>5 DEF Next, Handler

LEMMA SentOnNext ==
  ASSUME AggTypeOK, ConvInv, [Next]_vars, SentOn
  PROVE  SentOn'
<1>1. route' = route
  BY DEF Next, Provider, Begin, Open, SendDelta, Close, Finish, FinishUnread, SendUsage,
     SendStop, Fail, Chunk, EndOfStream, Handler, Aggregate, WriteNext, Finishes, vars, convVars
<1>2. TextKinds' = TextKinds /\ Upstream' = Upstream
  BY <1>1 DEF TextKinds, Upstream
<1>3. Tally(answer'.deltas, TextKinds)
        = Tally(emitted', DeltasOf("text")) + Tally(decoded', DeltasOf("text"))
  <2>1. SentAs(TextKinds, "text")
    BY DEF SentOn, SentAs
  <2> QED BY <2>1, SentAsNext
<1>4. ASSUME Upstream # "gemini"
      PROVE  Tally(answer'.deltas, {"tool_call"})
               = Tally(emitted', DeltasOf("tool_call")) + Tally(decoded', DeltasOf("tool_call"))
  <2>1. SentAs({"tool_call"}, "tool_call")
    BY <1>4 DEF SentOn, SentAs
  <2> QED BY <1>4, <2>1, SentAsNext
<1> QED BY <1>2, <1>3, <1>4 DEF SentOn

\* What is written for an event holds a delta only when the event is one.
LEMMA EncodeShape ==
  ASSUME ConvTypeOK, NEW e \in Event
  PROVE  /\ e.type = "content_part_delta" =>
              \/ Entry = "gemini" /\ e.kind = "tool_call" /\ Encode(e) = <<>>
              \/ \E d \in Payloads :
                   /\ d.type = "delta" /\ d.kind = Class(e.kind)
                   /\ \/ Encode(e) = <<d>>
                      \/ \E x \in Payloads : x.type = "start" /\ Encode(e) = <<x>> \o <<d>>
         /\ e.type # "content_part_delta" =>
              \/ Encode(e) = <<>>
              \/ \E x \in Payloads : x.type # "delta" /\ Encode(e) = <<x>>
<1> DEFINE T == Kinds \cup {"unknown", ""}
<1>0. /\ 0 \in Indices /\ e.index \in Indices /\ e.kind \in T
      /\ e.stop \in StopReasons /\ e.type \in EventTypes /\ "" \in StopReasons
      /\ "" \in T /\ "text" \in T /\ Class(e.kind) \in T
      /\ Ended(e.stop) \in StopReasons /\ Completed(e.stop) \in StopReasons
      /\ Entry \in Protocols
  <2>1. e.index \in Indices /\ e.kind \in Kinds \cup {"unknown"}
    BY WordsTyped
  <2>2. Class(e.kind) \in Kinds
    BY DEF Class, Kinds
  <2> QED BY <2>1, <2>2, WordsTyped, RouteTyped DEF ConvTypeOK
<1>l. /\ enc.stop \in StopReasons /\ Completed(enc.stop) \in StopReasons
      /\ enc.last[e.index] # "absent" => enc.last[e.index] \in T
  <2>1. enc.stop \in StopReasons /\ enc.last[e.index] \in {"absent", "text", "tool_call"}
    BY <1>0 DEF ConvTypeOK
  <2> QED BY <2>1, WordsTyped
<1> DEFINE W == {x \in Payloads : x.type # "delta"}
<1>w. \A type \in {"begin", "start", "stop", "usage", "finish", "done", "error"},
         i \in Indices, k \in T, s \in StopReasons :
        Payload(type, i, k, s) \in W
  BY DEF Payload, Payloads
<1>d. \A i \in Indices, k \in T :
        /\ Payload("delta", i, k, "") \in Payloads
        /\ Payload("delta", i, k, "").type = "delta" /\ Payload("delta", i, k, "").kind = k
  BY <1>0 DEF Payload, Payloads
<1> HIDE DEF T
<1>p. /\ Payload("begin", 0, "", "") \in W
      /\ Payload("done", 0, "", "") \in W
      /\ Payload("error", 0, "", "") \in W
      /\ Payload("usage", 0, "", "") \in W
      /\ Payload("start", e.index, e.kind, "") \in W
      /\ Payload("start", e.index, Class(e.kind), "") \in W
      /\ Payload("stop", e.index, "", "") \in W
      /\ Payload("finish", 0, "", Ended(e.stop)) \in W
      /\ Payload("finish", 0, "", Completed(e.stop)) \in W
      /\ Payload("done", 0, "", Completed(enc.stop)) \in W
      /\ Payload("start", 0, "text", "") \in W
      /\ enc.last[e.index] # "absent" =>
           Payload("stop", e.index, enc.last[e.index], "") \in W
  <2> HIDE DEF W
  <2> QED BY <1>0, <1>l, <1>w
<1>s. ASSUME Encode(e) = <<>> \/ \E x \in W : Encode(e) = <<x>>
      PROVE  \/ Encode(e) = <<>>
             \/ \E x \in Payloads : x.type # "delta" /\ Encode(e) = <<x>>
  BY <1>s
<1>x. Payload("start", e.index, Class(e.kind), "") \in Payloads
      /\ Payload("start", e.index, Class(e.kind), "").type = "start"
  BY <1>p DEF Payload
<1> HIDE DEF W
<1>1. CASE Entry = "chat"
  <2>0. Encode(e) = EncodeChat(e)
    BY <1>1 DEF Encode
  <2>1. CASE e.type = "content_part_delta"
    <3>1. Encode(e) = <<Payload("delta", e.index, Class(e.kind), "")>>
      BY <2>0, <2>1 DEF EncodeChat
    <3> QED BY <3>1, <2>1, <1>0, <1>d
  <2>2. CASE e.type # "content_part_delta"
    <3>1. \/ Encode(e) = <<>>
          \/ Encode(e) = <<Payload("begin", 0, "", "")>>
          \/ Encode(e) = <<Payload("start", e.index, e.kind, "")>>
          \/ Encode(e) = <<Payload("usage", 0, "", "")>>
          \/ Encode(e) = <<Payload("finish", 0, "", Ended(e.stop))>>
          \/ Encode(e) = <<Payload("done", 0, "", "")>>
          \/ Encode(e) = <<Payload("error", 0, "", "")>>
      BY <2>0, <2>2, Zenon DEF EncodeChat
    <3>2. Encode(e) = <<>> \/ \E x \in W : Encode(e) = <<x>>
      BY <3>1, <1>p, Zenon
    <3> QED BY <3>2, <2>2, <1>s
  <2> QED BY <2>1, <2>2
<1>2. CASE Entry = "anthropic"
  <2>0. Encode(e) = EncodeAnthropic(e)
    BY <1>2 DEF Encode
  <2>1. CASE e.type = "content_part_delta"
    <3> DEFINE d == Payload("delta", e.index, Class(e.kind), "")
               x == Payload("start", e.index, Class(e.kind), "")
    <3>0. /\ d \in Payloads /\ d.type = "delta" /\ d.kind = Class(e.kind)
          /\ x \in Payloads /\ x.type = "start"
      BY <1>0, <1>d, <1>x
    <3>1. Encode(e) = <<>> \o <<d>> \/ Encode(e) = <<x>> \o <<d>>
      BY <2>0, <2>1 DEF EncodeAnthropic
    <3> HIDE DEF d, x
    <3>2. <<>> \o <<d>> = <<d>>
      BY <3>0
    <3> QED BY <3>0, <3>1, <3>2, <2>1
  <2>2. CASE e.type # "content_part_delta"
    <3>1. \/ Encode(e) = <<Payload("begin", 0, "", "")>>
          \/ Encode(e) = <<Payload("start", e.index, e.kind, "")>>
          \/ Encode(e) = <<Payload("stop", e.index, "", "")>>
          \/ Encode(e) = <<Payload("finish", 0, "", Ended(e.stop))>>
          \/ Encode(e) = <<Payload("done", 0, "", "")>>
          \/ Encode(e) = <<Payload("error", 0, "", "")>>
      BY <2>0, <2>2, <1>0, Zenon DEF EncodeAnthropic, EventTypes
    <3>2. Encode(e) = <<>> \/ \E x \in W : Encode(e) = <<x>>
      BY <3>1, <1>p, Zenon
    <3> QED BY <3>2, <2>2, <1>s
  <2> QED BY <2>1, <2>2
<1>3. CASE Entry = "responses"
  <2>0. Encode(e) = EncodeResponses(e)
    BY <1>3 DEF Encode
  <2>1. CASE e.type = "content_part_delta"
    <3>1. Encode(e) = <<Payload("delta", e.index, Class(e.kind), "")>>
      BY <2>0, <2>1 DEF EncodeResponses
    <3> QED BY <3>1, <2>1, <1>0, <1>d
  <2>2. CASE e.type # "content_part_delta"
    <3>1. \/ Encode(e) = <<>>
          \/ Encode(e) = <<Payload("begin", 0, "", "")>>
          \/ Encode(e) = <<Payload("start", e.index, Class(e.kind), "")>>
          \/ /\ enc.last[e.index] # "absent"
             /\ Encode(e) = <<Payload("stop", e.index, enc.last[e.index], "")>>
          \/ Encode(e) = <<Payload("done", 0, "", Completed(enc.stop))>>
          \/ Encode(e) = <<Payload("error", 0, "", "")>>
      BY <2>0, <2>2, Zenon DEF EncodeResponses
    <3>2. Encode(e) = <<>> \/ \E x \in W : Encode(e) = <<x>>
      BY <3>1, <1>p, Zenon
    <3> QED BY <3>2, <2>2, <1>s
  <2> QED BY <2>1, <2>2
<1>4. CASE Entry = "gemini"
  <2>0. Encode(e) = EncodeGemini(e)
    BY <1>4 DEF Encode
  <2>1. CASE e.type = "content_part_delta"
    <3>1. CASE e.kind = "tool_call"
      <4>1. Encode(e) = <<>>
        BY <2>0, <2>1, <3>1 DEF EncodeGemini
      <4> QED BY <4>1, <3>1, <2>1, <1>4
    <3>2. CASE e.kind # "tool_call"
      <4>1. Encode(e) = <<Payload("delta", 0, "text", "")>>
        BY <2>0, <2>1, <3>2 DEF EncodeGemini
      <4>2. Class(e.kind) = "text"
        BY <3>2 DEF Class
      <4> QED BY <4>1, <4>2, <2>1, <1>0, <1>d
    <3> QED BY <3>1, <3>2
  <2>2. CASE e.type # "content_part_delta"
    <3>1. \/ Encode(e) = <<>>
          \/ Encode(e) = <<Payload("start", 0, "text", "")>>
          \/ Encode(e) = <<Payload("finish", 0, "", Completed(e.stop))>>
      BY <2>0, <2>2, Zenon DEF EncodeGemini
    <3>2. Encode(e) = <<>> \/ \E x \in W : Encode(e) = <<x>>
      BY <3>1, <1>p, Zenon
    <3> QED BY <3>2, <2>2, <1>s
  <2> QED BY <2>1, <2>2
<1> QED BY <1>0, <1>1, <1>2, <1>3, <1>4 DEF Protocols

LEMMA EncodeTally ==
  ASSUME ConvTypeOK, NEW e \in Event, NEW class \in {"text", "tool_call"},
         class = "tool_call" => Entry # "gemini"
  PROVE  Tally(written \o Encode(e), PayloadsOf(class))
           = Tally(written, PayloadsOf(class)) + (IF e \in DeltasOf(class) THEN 1 ELSE 0)
<1> DEFINE S == PayloadsOf(class)
<1>0. written \in Seq(Payloads) /\ written \o <<>> = written
  BY DEF ConvTypeOK
<1>1. /\ \A x \in Payloads : x.type # "delta" => x \notin S
      /\ \A x \in Payloads : x.type = "delta" => (x \in S <=> x.kind = class)
      /\ e \in DeltasOf(class) <=> e.type = "content_part_delta" /\ Class(e.kind) = class
  BY DEF PayloadsOf, DeltasOf
<1>2. Class(e.kind) = "tool_call" <=> e.kind = "tool_call"
  BY DEF Class
<1> HIDE DEF S
<1>s. SUFFICES Tally(written \o Encode(e), S)
                 = Tally(written, S) + (IF e \in DeltasOf(class) THEN 1 ELSE 0)
  BY DEF S
<1>3. Tally(written, S) \in Nat
  BY <1>0, TallyType
<1>4. CASE Encode(e) = <<>>
  <2>1. e \notin DeltasOf(class)
    <3> SUFFICES ASSUME e \in DeltasOf(class) PROVE FALSE
      OBVIOUS
    <3>1. ~ \E d : Encode(e) = <<d>>
      BY <1>4
    <3>2. ~ \E d \in Payloads, x \in Payloads : Encode(e) = <<x>> \o <<d>>
      <4> SUFFICES ASSUME NEW d \in Payloads, NEW x \in Payloads, <<x>> \o <<d>> = <<>>
                   PROVE  FALSE
        BY <1>4
      <4>1. Len(<<x>> \o <<d>>) = 2
        <5>1. <<x>> \in Seq(Payloads) /\ <<d>> \in Seq(Payloads) /\ Len(<<x>>) = 1 /\ Len(<<d>>) = 1
          OBVIOUS
        <5> QED BY <5>1, Concatenation
      <4> QED BY <4>1
    <3>3. Entry = "gemini" /\ e.kind = "tool_call"
      BY <1>1, <3>1, <3>2, EncodeShape
    <3> QED BY <1>1, <1>2, <3>3
  <2> QED BY <1>0, <1>3, <1>4, <2>1
<1>5. CASE e.type # "content_part_delta" /\ Encode(e) # <<>>
  <2>1. PICK x \in Payloads : x.type # "delta" /\ Encode(e) = <<x>>
    BY <1>5, EncodeShape
  <2>2. Tally(written \o <<x>>, S) = Tally(written, S) + (IF x \in S THEN 1 ELSE 0)
    BY <1>0, TallyOne
  <2> QED BY <1>1, <1>3, <1>5, <2>1, <2>2
<1>6. CASE e.type = "content_part_delta" /\ Encode(e) # <<>>
  <2>1. PICK d \in Payloads :
          /\ d.type = "delta" /\ d.kind = Class(e.kind)
          /\ \/ Encode(e) = <<d>>
             \/ \E x \in Payloads : x.type = "start" /\ Encode(e) = <<x>> \o <<d>>
    BY <1>6, EncodeShape
  <2>2. d \in S <=> e \in DeltasOf(class)
    BY <1>1, <1>6, <2>1
  <2>3. CASE Encode(e) = <<d>>
    <3>1. Tally(written \o <<d>>, S) = Tally(written, S) + (IF d \in S THEN 1 ELSE 0)
      BY <1>0, TallyOne
    <3> QED BY <2>2, <2>3, <3>1
  <2>4. CASE \E x \in Payloads : x.type = "start" /\ Encode(e) = <<x>> \o <<d>>
    <3>1. PICK x \in Payloads : x.type = "start" /\ Encode(e) = <<x>> \o <<d>>
      BY <2>4
    <3>2. <<x>> \in Seq(Payloads) /\ <<d>> \in Seq(Payloads)
      BY Singleton
    <3>3. written \o (<<x>> \o <<d>>) = (written \o <<x>>) \o <<d>>
      BY <1>0, <3>2, ConcatAssociative
    <3>4. Tally(written \o <<x>>, S) = Tally(written, S) + (IF x \in S THEN 1 ELSE 0)
      BY <1>0, TallyOne
    <3>5. x \notin S
      BY <1>1, <3>1
    <3> DEFINE s == written \o <<x>>
    <3>6. s \in Seq(Payloads) /\ Tally(s, S) = Tally(written, S)
      BY <1>0, <1>3, <3>2, <3>4, <3>5, Concatenation
    <3> HIDE DEF s
    <3>7. Tally(s \o <<d>>, S) = Tally(s, S) + (IF d \in S THEN 1 ELSE 0)
      BY <3>6, TallyOne
    <3>8. written \o Encode(e) = s \o <<d>>
      BY <3>1, <3>3 DEF s
    <3> QED BY <2>2, <3>6, <3>7, <3>8
  <2> QED BY <2>1, <2>3, <2>4
<1> QED BY <1>4, <1>5, <1>6

\* What has been emitted is not changed.
LEMMA EmittedKept ==
  ASSUME AggTypeOK, AggInv, ConvInv, [Next]_vars
  PROVE  /\ emitted \in Seq(Event) /\ Len(emitted) \in Nat /\ Len(emitted') \in Nat
         /\ Len(emitted) <= Len(emitted')
         /\ \A p \in 1..Len(emitted) : emitted'[p] = emitted[p]
         /\ encoded \in Nat /\ encoded <= Len(emitted)
<1>1. PICK t \in Seq(Event) : emitted' = emitted \o t
  BY AggregatorSteps, EmittedGrows
<1>2. emitted \in Seq(Event) /\ encoded \in 0..Len(emitted)
  BY DEF AggTypeOK, ConvInv, ConvTypeOK
<1>3. /\ Len(emitted) \in Nat /\ Len(t) \in Nat /\ Len(emitted') = Len(emitted) + Len(t)
      /\ \A p \in 1..Len(emitted) : emitted'[p] = emitted[p]
  BY <1>1, <1>2, Concatenation
<1> QED BY <1>2, <1>3

\* A step of the client's adapter.
LEMMA WriteStep ==
  ASSUME AggTypeOK, ConvInv, WriteNext
  PROVE  LET e == emitted[encoded + 1]
         IN /\ e \in Event /\ encoded + 1 \in 1..Len(emitted)
            /\ UNCHANGED <<aggVars, route, answer, decoded>>
            /\ \/ UNCHANGED <<encoded, enc, written>>
               \/ /\ written' = written \o Encode(e) /\ enc' = Tracked(e)
                  /\ encoded' = encoded + 1
<1>1. emitted \in Seq(Event) /\ encoded \in Nat /\ encoded < Len(emitted)
  BY DEF AggTypeOK, ConvInv, ConvTypeOK, WriteNext
<1>2. emitted[encoded + 1] \in Event /\ encoded + 1 \in 1..Len(emitted)
  BY <1>1
<1> QED BY <1>2 DEF WriteNext

LEMMA OtherSteps ==
  ASSUME [Next]_vars, ~WriteNext
  PROVE  UNCHANGED <<route, written, enc, encoded>>
BY DEF Next, Provider, Begin, Open, SendDelta, Close, Finish, FinishUnread, SendUsage,
   SendStop, Fail, Chunk, EndOfStream, Handler, Aggregate, Finishes, vars, convVars

LEMMA EncodedOne ==
  ASSUME AggTypeOK, ConvInv, encoded + 1 \in 1..Len(emitted), NEW S
  PROVE  /\ Encoded(S) \in Nat
         /\ Cardinality({p \in 1..(encoded + 1) : emitted[p] \in S})
              = Encoded(S) + (IF emitted[encoded + 1] \in S THEN 1 ELSE 0)
<1> DEFINE A == {p \in 1..encoded : emitted[p] \in S}
           B == {p \in 1..(encoded + 1) : emitted[p] \in S}
<1>1. encoded \in Nat
  BY DEF ConvInv, ConvTypeOK
<1>2. IsFiniteSet(1..encoded) /\ A \in SUBSET (1..encoded)
  BY <1>1, FS_Interval
<1>3. IsFiniteSet(A) /\ Cardinality(A) \in Nat
  BY <1>2, FS_Subset, FS_CardinalityType
<1>4. encoded + 1 \notin A
  BY <1>1
<1>5. B = IF emitted[encoded + 1] \in S THEN A \cup {encoded + 1} ELSE A
  BY <1>1
<1>6. Cardinality(A \cup {encoded + 1}) = Cardinality(A) + 1
  BY <1>3, <1>4, FS_AddElement
<1>7. Encoded(S) = Cardinality(A)
  BY DEF Encoded
<1> HIDE DEF A, B
<1>8. Cardinality(B) = Encoded(S) + (IF emitted[encoded + 1] \in S THEN 1 ELSE 0)
  BY <1>3, <1>5, <1>6, <1>7
<1> QED BY <1>3, <1>7, <1>8 DEF B

LEMMA WrittenOnNext ==
  ASSUME AggTypeOK, AggInv, ConvInv, [Next]_vars, WrittenOn
  PROVE  WrittenOn'
<1>0. ConvTypeOK
  BY DEF ConvInv
<1>1. CASE WriteNext
  <2> DEFINE e == emitted[encoded + 1]
  <2>1. /\ e \in Event /\ encoded + 1 \in 1..Len(emitted)
        /\ UNCHANGED <<aggVars, route>>
        /\ \/ UNCHANGED <<encoded, enc, written>>
           \/ /\ written' = written \o Encode(e) /\ encoded' = encoded + 1
    BY <1>1, WriteStep
  <2>2. emitted' = emitted /\ Entry' = Entry
    BY <2>1 DEF aggVars, Entry
  <2>3. CASE UNCHANGED <<encoded, written>>
    BY <2>2, <2>3 DEF WrittenOn, Encoded
  <2>4. CASE written' = written \o Encode(e) /\ encoded' = encoded + 1
    <3>1. ASSUME NEW class \in {"text", "tool_call"}, class = "tool_call" => Entry # "gemini",
                 Tally(written, PayloadsOf(class)) = Encoded(DeltasOf(class))
          PROVE  Tally(written', PayloadsOf(class))
                   = Cardinality({p \in 1..encoded' : emitted'[p] \in DeltasOf(class)})
      <4>1. Tally(written \o Encode(e), PayloadsOf(class))
              = Tally(written, PayloadsOf(class)) + (IF e \in DeltasOf(class) THEN 1 ELSE 0)
        BY <1>0, <2>1, <3>1, EncodeTally
      <4>2. Cardinality({p \in 1..(encoded + 1) : emitted[p] \in DeltasOf(class)})
              = Encoded(DeltasOf(class)) + (IF e \in DeltasOf(class) THEN 1 ELSE 0)
        BY <2>1, EncodedOne
      <4> QED BY <2>2, <2>4, <3>1, <4>1, <4>2
    <3>2. Tally(written', PayloadsOf("text"))
            = Cardinality({p \in 1..encoded' : emitted'[p] \in DeltasOf("text")})
      BY <3>1 DEF WrittenOn
    <3>3. Entry # "gemini" =>
            Tally(written', PayloadsOf("tool_call"))
              = Cardinality({p \in 1..encoded' : emitted'[p] \in DeltasOf("tool_call")})
      BY <3>1 DEF WrittenOn
    <3> QED BY <2>2, <3>2, <3>3 DEF WrittenOn, Encoded
  <2> QED BY <2>1, <2>3, <2>4
<1>2. CASE ~WriteNext
  <2>1. UNCHANGED <<route, written, encoded>>
    BY <1>2, OtherSteps
  <2>2. \A p \in 1..encoded : emitted'[p] = emitted[p]
    BY EmittedKept
  <2>3. \A S : {p \in 1..encoded : emitted'[p] \in S} = {p \in 1..encoded : emitted[p] \in S}
    BY <2>2
  <2>4. /\ Cardinality({p \in 1..encoded' : emitted'[p] \in DeltasOf("text")})
             = Encoded(DeltasOf("text"))
        /\ Cardinality({p \in 1..encoded' : emitted'[p] \in DeltasOf("tool_call")})
             = Encoded(DeltasOf("tool_call"))
    BY <2>1, <2>3 DEF Encoded
  <2> QED BY <2>1, <2>4 DEF WrittenOn, Encoded, Entry
<1> QED BY <1>1, <1>2

LEMMA CountsInit == Init => SentOn /\ WrittenOn
<1> SUFFICES ASSUME Init PROVE SentOn /\ WrittenOn
  OBVIOUS
<1>1. /\ answer.deltas = <<>> /\ emitted = <<>> /\ decoded = <<>> /\ written = <<>>
      /\ encoded = 0
  BY DEF Init, AggInit
<1>2. \A S : Tally(<<>>, S) = 0
  <2> TAKE S
  <2>1. Len(<<>>) = 0
    OBVIOUS
  <2> QED BY <2>1, TallyNone
<1>3. \A S : Encoded(S) = 0
  <2> TAKE S
  <2>1. {p \in 1..encoded : emitted[p] \in S} = {}
    BY <1>1
  <2> QED BY <2>1, FS_EmptySet DEF Encoded
<1> QED BY <1>1, <1>2, <1>3 DEF SentOn, WrittenOn

(* No delta is lost or doubled on the way, whatever the two protocols: the     *)
(* deltas the provider sent are those emitted and those to be processed, and   *)
(* what the client got is what has been encoded.                               *)
THEOREM DeltasAreConserved == Spec => [](SentOn /\ WrittenOn)
<1>1. AggTypeOK /\ AggInv /\ ConvInv /\ SentOn /\ WrittenOn /\ [Next]_vars
      => (SentOn /\ WrittenOn)'
  BY SentOnNext, WrittenOnNext
<1> QED BY <1>1, CountsInit, ConversionInvariant, PTL DEF Spec

\* A client sees a payload under a wrong name only when its protocol has names and
\* the provider's has them too.
NamesInv ==
  /\ header => Upstream \in NamesEvents
  /\ misnamed # {} => Upstream \in NamesEvents /\ Entry # "chat"

LEMMA NamesInit == Init => NamesInv
BY DEF Init, NamesInv

LEMMA NamesNext ==
  ASSUME NamesInv, [Next]_vars
  PROVE  NamesInv'
<1>1. CASE Provider
  <2>1. /\ UNCHANGED <<route, misnamed>> /\ header' = (Upstream \in NamesEvents)
    BY <1>1 DEF Provider, Begin, Open, SendDelta, Close, Finish, FinishUnread, SendUsage,
                SendStop, Fail, Chunk
  <2> QED BY <2>1 DEF NamesInv, Upstream, Entry
<1>2. CASE EndOfStream
  <2>1. UNCHANGED <<route, misnamed>> /\ (header' => Upstream \in NamesEvents)
    BY <1>2 DEF EndOfStream
  <2> QED BY <2>1 DEF NamesInv, Upstream, Entry
<1>3. CASE WriteNext
  <2>1. /\ UNCHANGED <<route, header>>
        /\ misnamed' = misnamed \/ (header /\ Entry # "chat")
    BY <1>3 DEF WriteNext
  <2> QED BY <2>1 DEF NamesInv, Upstream, Entry
<1>4. CASE Aggregate \/ Finishes \/ UNCHANGED vars
  <2>1. UNCHANGED <<route, header, misnamed>>
    BY <1>4 DEF Aggregate, Finishes, vars, convVars
  <2> QED BY <2>1 DEF NamesInv, Upstream, Entry
<1> QED BY <1>1, <1>2, <1>3, <1>4 DEF Next, Handler

LEMMA NamesAreRight == Spec => []NamesInv
<1> QED BY NamesInit, NamesNext, PTL DEF Spec

\* What is claimed of a client's view is claimed of all it was sent.
LEMMA WholeView ==
  ASSUME NamesInv, NEW view \in Views
  PROVE  view = 1..Len(written)
BY DEF NamesInv, Views

(* Every delta the provider sent has reached the client, as one of its kind,  *)
(* when the handler has returned: in the payloads, and under the name of an    *)
(* event of the client's protocol when the provider's events have no names or  *)
(* the client's have none.                                                     *)
THEOREM DeltasReachTheClient == Spec => []DeltasArrive
<1>1. AggTypeOK /\ ConvInv /\ SentOn /\ WrittenOn /\ NamesInv => DeltasArrive
  <2> SUFFICES ASSUME AggTypeOK, ConvInv, SentOn, WrittenOn, NamesInv, Settled,
                      NEW view \in Views
               PROVE  /\ Cardinality(Arrived(view, "text")) = Cardinality(Sent(TextKinds))
                      /\ "gemini" \notin {Upstream, Entry} =>
                           Cardinality(Arrived(view, "tool_call"))
                             = Cardinality(Sent({"tool_call"}))
    BY DEF DeltasArrive
  <2>1. answer.phase = "ended" /\ encoded = Len(emitted) /\ written \in Seq(Payloads)
        /\ decoded \in Seq(Event)
    BY DEF Settled, ConvInv, ConvTypeOK
  <2>2. \A class : Tally(decoded, DeltasOf(class)) = 0
    <3> TAKE class
    <3>1. \A p \in 1..Len(decoded) : ~Opening(decoded[p])
      BY <2>1 DEF ConvInv, OpensAlone
    <3>2. \A p \in 1..Len(decoded) : decoded[p] \notin DeltasOf(class)
      BY <3>1 DEF Opening, DeltasOf
    <3> QED BY <3>2, TallyNone
  <2>3. \A class : /\ Encoded(DeltasOf(class)) = Tally(emitted, DeltasOf(class))
                   /\ Tally(emitted, DeltasOf(class)) \in Nat
    <3> TAKE class
    <3>1. emitted \in Seq(Event)
      BY DEF AggTypeOK
    <3> QED BY <2>1, <3>1, TallyType DEF Encoded, Tally
  <2>4. \A class : Arrived(view, class)
                    = {p \in 1..Len(written) : written[p] \in PayloadsOf(class)}
    BY <2>1, WholeView DEF Arrived, PayloadsOf
  <2>5. \A class : Cardinality(Arrived(view, class)) = Tally(written, PayloadsOf(class))
    BY <2>4 DEF Tally
  <2>6. \A kinds : Cardinality(Sent(kinds)) = Tally(answer.deltas, kinds)
    BY DEF Sent, Tally
  <2> QED BY <2>2, <2>3, <2>5, <2>6 DEF SentOn, WrittenOn
<1> QED BY <1>1, ConversionInvariant, DeltasAreConserved, NamesAreRight, PTL

-----------------------------------------------------------------------------
(* The reason the answer ended for.                                          *)

\* An event that reports no reason.
NoReason(e) == Reports(e) => e.stop = ""

LEMMA DecodedNothing == Decoded("") = "" /\ "" \in StopReasons
BY DEF Decoded, StopReasons

\* What a chunk reports: nothing but the provider's reason.
LEMMA ChunkReports ==
  ASSUME AggTypeOK, ConvInv, Provider
  PROVE  /\ Upstream' = Upstream
         /\ ~Finish => answer'.stop = answer.stop
         /\ Finish => answer.stop = "" /\ answer'.stop # "" /\ Decoded(answer'.stop) # ""
         /\ \A p \in 1..Len(decoded') :
              Reports(decoded'[p]) =>
                decoded'[p].stop = "" \/ (Finish /\ decoded'[p].stop = Decoded(answer'.stop))
<1>0. /\ ConvTypeOK /\ NothingEnded /\ Upstream' = Upstream
      /\ answer \in [phase: Phases, items: Seq(Kinds), open: BOOLEAN,
                     deltas: Seq(Kinds), stop: StopReasons]
  BY ProviderFrame DEF ConvInv, ConvTypeOK, Upstream
<1> DEFINE Quiet(d) == \A p \in 1..Len(d) : NoReason(d[p])
<1>e. Quiet(<<>>)
  <2>1. 1..Len(<<>>) = {}
    OBVIOUS
  <2> QED BY <2>1
<1>o. ASSUME NEW e \in Event, NoReason(e) PROVE Quiet(<<e>>)
  BY <1>o
<1> HIDE DEF Quiet
<1>1. CASE Finish
  <2>1. answer.phase = "answering"
    BY <1>1 DEF Finish
  <2>2. answer.stop = ""
    BY <2>1, <1>0 DEF NothingEnded, Begun
  <2>3. /\ answer'.stop # "" /\ Decoded(answer'.stop) # ""
        /\ \A p \in 1..Len(decoded') :
             \/ decoded'[p] = Stop(0)
             \/ decoded'[p].type = "message_delta" /\ decoded'[p].stop = Decoded(answer'.stop)
             \/ decoded'[p].type = "done"
    BY <1>0, <1>1, FinishChunk
  <2>4. Stop(0).type = "content_part_stop"
    BY IndicesAssumption, ProviderEvents
  <2> QED BY <1>0, <1>1, <2>2, <2>3, <2>4 DEF Reports
<1>2. ASSUME ~Finish PROVE answer'.stop = answer.stop /\ Quiet(decoded')
  <2>1. CASE Begin
    <3>1. answer'.stop = answer.stop /\ (decoded' = <<>> \/ decoded' = <<Created>>)
      BY <1>0, <2>1 DEF Begin, Chunk, DecodeBegin
    <3>2. Created \in Event /\ NoReason(Created)
      BY ProviderEvents DEF Reports, NoReason
    <3> QED BY <3>1, <3>2, <1>e, <1>o, Zenon
  <2>2. ASSUME NEW kind \in Kinds, Open(kind)
        PROVE  answer'.stop = answer.stop /\ Quiet(decoded')
    <3>1. answer'.stop = answer.stop
      BY <1>0, <2>2 DEF Open
    <3>2. \A i \in Indices, k \in Kinds : Start(i, k) \in Event /\ NoReason(Start(i, k))
      BY ProviderEvents DEF Reports, NoReason
    <3>3. decoded' = <<>> \/ \E i \in Indices, k \in Kinds : decoded' = <<Start(i, k)>>
      BY <1>0, <2>2, OpenChunk
    <3> QED BY <3>1, <3>2, <3>3, <1>e, <1>o, Zenon
  <2>3. CASE SendDelta
    <3>1. answer'.stop = answer.stop
      BY <1>0, <2>3 DEF SendDelta
    <3>2. \A i \in Indices, k \in Kinds : Delta(i, k) \in Event /\ NoReason(Delta(i, k))
      BY ProviderEvents DEF Reports, NoReason
    <3>3. decoded' = <<>> \/ \E i \in Indices, k \in Kinds : decoded' = <<Delta(i, k)>>
      BY <1>0, <2>3, DeltaChunk
    <3> QED BY <3>1, <3>2, <3>3, <1>e, <1>o, Zenon
  <2>4. CASE Close
    <3>1. answer'.stop = answer.stop
      BY <1>0, <2>4 DEF Close
    <3>2. \A i \in Indices : Stop(i) \in Event /\ NoReason(Stop(i))
      BY ProviderEvents DEF Reports, NoReason
    <3>3. decoded' = <<>> \/ \E i \in Indices : decoded' = <<Stop(i)>>
      BY <1>0, <2>4, CloseChunk
    <3> QED BY <3>1, <3>2, <3>3, <1>e, <1>o, Zenon
  <2>5. CASE FinishUnread \/ SendUsage \/ SendStop \/ Fail
    <3>1. /\ answer'.stop = answer.stop
          /\ \/ decoded' = <<Report("", TRUE)>> \/ decoded' = <<Done>>
             \/ decoded' = <<Error>> \/ decoded' = <<>>
      BY <1>0, <2>5 DEF FinishUnread, SendUsage, SendStop, Fail, Chunk
    <3>2. /\ Report("", TRUE) \in Event /\ NoReason(Report("", TRUE))
          /\ Done \in Event /\ NoReason(Done) /\ Error \in Event /\ NoReason(Error)
      BY DecodedNothing, ProviderEvents DEF Reports, NoReason
    <3> QED BY <3>1, <3>2, <1>e, <1>o, Zenon
  <2> QED BY <1>2, <2>1, <2>2, <2>3, <2>4, <2>5 DEF Provider
<1> QED BY <1>0, <1>1, <1>2 DEF Quiet, NoReason

LEMMA OneReasonNext ==
  ASSUME AggTypeOK, ConvInv, [Next]_vars, OneReason
  PROVE  OneReason'
<1>0. ConvTypeOK
  BY DEF ConvInv
<1>1. CASE Provider
  <2>1. stopReason' = stopReason
    BY <1>1, ProviderFrame DEF aggVars
  <2>2. \A s : Decoded(s)' = Decoded(s)
    BY <1>1, ChunkReports DEF Decoded
  <2>3. CASE Finish
    <3>1. stopReason = ""
      BY <1>1, <2>3, ChunkReports, DecodedNothing DEF OneReason
    <3> QED BY <1>1, <2>1, <2>3, <3>1, ChunkReports DEF OneReason, Decoded
  <2>4. CASE ~Finish
    <3>1. answer'.stop = answer.stop /\ Upstream' = Upstream
      BY <1>1, <2>4, ChunkReports
    <3>2. \A p \in 1..Len(decoded') : Reports(decoded'[p]) => decoded'[p].stop = ""
      BY <1>1, <2>4, ChunkReports
    <3> QED BY <2>1, <3>1, <3>2 DEF OneReason, Decoded
  <2> QED BY <2>3, <2>4
<1>2. CASE EndOfStream
  <2>1. /\ stopReason' = stopReason /\ decoded' = decoded /\ Upstream' = Upstream
        /\ answer'.stop = answer.stop
    BY <1>0, <1>2, EndFrame DEF EndOfStream, ConvTypeOK, Upstream
  <2> QED BY <2>1 DEF OneReason, Decoded
<1>3. CASE Aggregate
  <2>1. /\ UNCHANGED <<route, answer>> /\ decoded' = Tail(decoded) /\ decoded # <<>>
        /\ ProcessIREvent(Head(decoded))
    BY <1>3 DEF Aggregate
  <2> DEFINE e == Head(decoded)
  <2>2. /\ e = decoded[1] /\ 1 \in 1..Len(decoded)
        /\ \A p \in 1..Len(decoded') :
             p + 1 \in 1..Len(decoded) /\ decoded'[p] = decoded[p + 1]
    BY <2>1, <1>0, NextDecoded
  <2>3. stopReason' = stopReason \/ Handle(e)
    BY <2>1 DEF ProcessIREvent, aggVars
  <2> HIDE DEF e
  <2>4. Reports(e) => e.stop \in {"", Decoded(answer.stop)}
    BY <2>2 DEF OneReason
  <2>5. stopReason' \in {"", Decoded(answer.stop)}
    BY <2>3, <2>4, HandlerFrame DEF OneReason, Reports
  <2>6. \A p \in 1..Len(decoded') :
          Reports(decoded'[p]) => decoded'[p].stop \in {"", Decoded(answer.stop)}
    BY <2>2 DEF OneReason
  <2>7. Decoded(answer.stop)' = Decoded(answer.stop)
    BY <2>1 DEF Decoded, Upstream
  <2> QED BY <2>5, <2>6, <2>7 DEF OneReason
<1>4. CASE WriteNext \/ UNCHANGED vars
  <2>1. UNCHANGED <<stopReason, decoded, answer, route>>
    BY <1>4 DEF WriteNext, aggVars, vars, convVars
  <2> QED BY <2>1 DEF OneReason, Decoded, Upstream
<1>5. CASE Finishes
  <2>1. UNCHANGED <<stopReason, decoded, answer, route>>
    BY <1>5, EndFrame DEF convVars
  <2> QED BY <2>1 DEF OneReason, Decoded, Upstream
<1> QED
  BY <1>1, <1>2, <1>3, <1>4, <1>5 DEF Next, Handler

LEMMA ReasonKnownNext ==
  ASSUME AggTypeOK, AggInv, ConvInv, [Next]_vars, OneReason, ReasonKnown
  PROVE  ReasonKnown'
<1>0. ConvTypeOK
  BY DEF ConvInv
<1>1. CASE Provider
  <2>1. stopReason' = stopReason /\ Live' = Live /\ decoded = <<>>
    BY <1>1, ProviderFrame DEF aggVars, Idle, Live
  <2>2. CASE Finish
    <3>1. Live
      <4>1. answer.phase = "answering"
        BY <2>2 DEF Finish
      <4> QED BY <4>1, OpenNotStopped
    <3>2. \E p \in 1..Len(decoded') :
            /\ decoded'[p].type = "message_delta"
            /\ decoded'[p].stop = Decoded(answer'.stop)
            /\ \A q \in 1..(p - 1) : decoded'[q].type # "done"
      BY <1>0, <2>2, FinishChunk
    <3>3. \A s : Decoded(s)' = Decoded(s)
      BY <1>1, ChunkReports DEF Decoded
    <3>4. Upstream' = Upstream
      BY <1>1, ChunkReports
    <3> QED BY <2>1, <3>1, <3>2, <3>4 DEF ReasonKnown, Reports, Decoded
  <2>3. CASE ~Finish
    <3>1. answer'.stop = answer.stop /\ Upstream' = Upstream
      BY <1>1, <2>3, ChunkReports
    <3>2. 1..Len(<<>>) = {}
      OBVIOUS
    <3>3. answer.stop # "" => stopReason = Decoded(answer.stop)
      BY <2>1, <3>2 DEF ReasonKnown
    <3> QED BY <2>1, <3>1, <3>3 DEF ReasonKnown, Decoded
  <2> QED BY <2>2, <2>3
<1>2. CASE EndOfStream
  <2>1. /\ stopReason' = stopReason /\ decoded = <<>> /\ Upstream' = Upstream
        /\ answer'.stop = answer.stop
    BY <1>0, <1>2, EndFrame DEF EndOfStream, Idle, ConvTypeOK, Upstream
  <2>2. 1..Len(<<>>) = {}
    OBVIOUS
  <2>3. answer.stop # "" => stopReason = Decoded(answer.stop)
    BY <2>1, <2>2 DEF ReasonKnown
  <2> QED BY <2>1, <2>3 DEF ReasonKnown, Decoded
<1>3. CASE Aggregate
  <2>1. /\ UNCHANGED <<route, answer>> /\ decoded' = Tail(decoded) /\ decoded # <<>>
        /\ ProcessIREvent(Head(decoded))
    BY <1>3 DEF Aggregate
  <2> DEFINE e == Head(decoded)
             said == Decoded(answer.stop)
  <2>2. /\ e = decoded[1] /\ 1 \in 1..Len(decoded) /\ Len(decoded) \in Nat
        /\ Len(decoded') = Len(decoded) - 1
        /\ \A p \in 1..Len(decoded') :
             p + 1 \in 1..Len(decoded) /\ decoded'[p] = decoded[p + 1]
    BY <2>1, <1>0, NextDecoded
  <2>3. IF doneSent THEN stopReason' = stopReason ELSE Handle(e)
    BY <2>1 DEF ProcessIREvent, aggVars
  <2>4. Decoded(answer.stop)' = said
    BY <2>1 DEF Decoded, Upstream
  <2> HIDE DEF e
  <2>5. Reports(e) => e.stop \in {"", said}
    BY <2>2 DEF OneReason
  <2>s. SUFFICES ASSUME answer.stop # ""
                 PROVE  \/ stopReason' = said
                        \/ /\ Live'
                           /\ \E p \in 1..Len(decoded') :
                                /\ Reports(decoded'[p]) /\ decoded'[p].stop = said
                                /\ \A q \in 1..(p - 1) : decoded'[q].type # "done"
    BY <2>1, <2>4 DEF ReasonKnown
  <2>6. CASE stopReason = said
    <3>1. doneSent \/ Handle(e)
      BY <2>3
    <3> QED BY <2>3, <2>5, <2>6, <3>1, HandlerFrame DEF Reports
  <2>7. CASE stopReason # said
    <3>1. Live
      BY <2>s, <2>7 DEF ReasonKnown
    <3>2. PICK p \in 1..Len(decoded) :
            /\ Reports(decoded[p]) /\ decoded[p].stop = said
            /\ \A q \in 1..(p - 1) : decoded[q].type # "done"
      BY <2>s, <2>7 DEF ReasonKnown
    <3>3. Handle(e)
      BY <2>3, <3>1 DEF Live
    <3>4. CASE p = 1
      <4>1. Reports(e) /\ e.stop = said
        BY <2>2, <3>2, <3>4
      <4>2. stopReason' = said
        <5>1. e.type = "message_delta"
          BY <4>1 DEF Reports
        <5>2. stopReason' = IF e.stop # "" THEN e.stop ELSE stopReason
          BY <3>3, <5>1, HandlerFrame
        <5>3. said # ""
          <6>1. answer.stop # ""
            BY <2>s
          <6> QED BY <6>1 DEF Decoded
        <5> QED BY <4>1, <5>2, <5>3
      <4> QED BY <4>2
    <3>5. CASE p # 1
      <4>1. p - 1 \in 1..Len(decoded') /\ (p - 1) + 1 = p /\ 1 \in 1..(p - 1)
        BY <2>2, <3>5
      <4>2. decoded'[p - 1] = decoded[p]
        BY <4>1, <2>2
      <4>3. e.type # "done"
        BY <2>2, <3>2, <4>1
      <4>4. Live'
        BY <3>1, <3>3, <4>3, HandlerFrame DEF Live
      <4>5. \A q \in 1..((p - 1) - 1) : decoded'[q].type # "done"
        <5> SUFFICES ASSUME NEW q \in 1..((p - 1) - 1) PROVE decoded'[q].type # "done"
          OBVIOUS
        <5>1. q \in 1..Len(decoded') /\ q + 1 \in 1..(p - 1)
          BY <4>1
        <5> QED BY <5>1, <2>2, <3>2
      <4> QED BY <3>2, <4>1, <4>2, <4>4, <4>5
    <3> QED BY <3>4, <3>5
  <2> QED BY <2>6, <2>7
<1>4. CASE WriteNext \/ UNCHANGED vars
  <2>1. UNCHANGED <<stopReason, decoded, answer, route, finishing, doneSent>>
    BY <1>4 DEF WriteNext, aggVars, vars, convVars
  <2> QED BY <2>1 DEF ReasonKnown, Decoded, Upstream, Live
<1>5. CASE Finishes
  <2>1. UNCHANGED <<stopReason, decoded, answer, route>> /\ ~Live
    BY <1>5, EndFrame DEF convVars
  <2> QED BY <2>1 DEF ReasonKnown, Decoded, Upstream
<1> QED
  BY <1>1, <1>2, <1>3, <1>4, <1>5 DEF Next, Handler

\* Once done is sent the aggregator stands still, and nothing but its last step
\* sends it.
LEMMA DoneStep ==
  ASSUME AggInv, ConvInv, [Next]_vars
  PROVE  /\ doneSent => UNCHANGED aggVars
         /\ ~doneSent /\ doneSent' => SendDone /\ UNCHANGED convVars
<1>0. doneSent => ~finishing
  BY DEF AggInv, Finishing
<1>1. CASE Provider
  BY <1>1, ProviderFrame DEF aggVars
<1>2. CASE EndOfStream
  <2>1. Finalize
    BY <1>2 DEF EndOfStream
  <2> QED BY <2>1, EndFrame DEF Finalize
<1>3. CASE Aggregate
  <2>1. IF doneSent THEN UNCHANGED aggVars ELSE Handle(Head(decoded))
    BY <1>3 DEF Aggregate, ProcessIREvent
  <2> QED BY <2>1, HandlerFrame
<1>4. CASE WriteNext \/ UNCHANGED vars
  BY <1>4 DEF WriteNext, vars, aggVars
<1>5. CASE Finishes
  <2>1. (CloseItem \/ SendDone) /\ UNCHANGED convVars
    BY <1>5 DEF Finishes
  <2>2. CloseItem => finishing /\ doneSent' = doneSent
    BY DEF CloseItem
  <2>3. SendDone => finishing
    BY DEF SendDone
  <2> QED BY <1>0, <2>1, <2>2, <2>3
<1> QED
  BY <1>1, <1>2, <1>3, <1>4, <1>5 DEF Next, Handler

\* The two events that end a stream.
LEMMA LastTwo ==
  ASSUME AggTypeOK, SendDone
  PROVE  /\ stopReason' = stopReason /\ Len(emitted) \in Nat
         /\ Len(emitted') = Len(emitted) + 2
         /\ Reports(emitted'[Len(emitted) + 1])
         /\ emitted'[Len(emitted) + 1].stop = stopReason
         /\ emitted'[Len(emitted) + 2].type = "done"
<1> DEFINE md == [Bare("message_delta", 0, "unknown") EXCEPT !.stop = stopReason,
                                                             !.usage = usage]
           dn == [Bare("done", 0, "unknown") EXCEPT !.usage = usage]
<1>1. md \in Event /\ dn \in Event
  BY MadeUpEvents DEF AggTypeOK
<1>2. md.type = "message_delta" /\ md.stop = stopReason /\ dn.type = "done"
  BY DEF Bare
<1>3. emitted' = emitted \o <<md, dn>> /\ stopReason' = stopReason
  BY DEF SendDone
<1>4. emitted \in Seq(Event)
  BY DEF AggTypeOK
<1> HIDE DEF md, dn
<1>5. <<md, dn>> \in Seq(Event) /\ Len(<<md, dn>>) = 2
      /\ <<md, dn>>[1] = md /\ <<md, dn>>[2] = dn
  BY <1>1
<1>6. /\ Len(emitted) \in Nat /\ Len(emitted') = Len(emitted) + 2
      /\ emitted'[Len(emitted) + 1] = md /\ emitted'[Len(emitted) + 2] = dn
  BY <1>3, <1>4, <1>5
<1> QED BY <1>2, <1>3, <1>6 DEF Reports

LEMMA ReasonLastNext ==
  ASSUME AggTypeOK, AggInv, ConvInv, [Next]_vars, ReasonLast
  PROVE  ReasonLast'
<1>1. CASE doneSent
  <2>1. UNCHANGED <<doneSent, emitted, stopReason>>
    BY <1>1, DoneStep DEF aggVars
  <2> QED BY <2>1 DEF ReasonLast, Reports
<1>2. CASE ~doneSent /\ doneSent'
  <2>1. SendDone
    BY <1>2, DoneStep
  <2>2. /\ Len(emitted) \in Nat /\ Len(emitted') = Len(emitted) + 2
        /\ Reports(emitted'[Len(emitted) + 1])
        /\ emitted'[Len(emitted) + 1].stop = stopReason'
        /\ emitted'[Len(emitted) + 2].type = "done"
    BY <2>1, LastTwo
  <2>3. Len(emitted') >= 2 /\ Len(emitted') - 1 = Len(emitted) + 1
    BY <2>2
  <2> QED BY <2>2, <2>3 DEF ReasonLast, Reports
<1> QED BY <1>1, <1>2 DEF ReasonLast

\* The reason that a sequence of payloads tells last.
TellsLast(w, stop) ==
  \E p \in 1..Len(w) : /\ w[p].stop = stop
                       /\ \A q \in (p + 1)..Len(w) : w[q].stop = ""

Silent(d) == d.stop = ""

LEMMA TellsNow ==
  ASSUME NEW w \in Seq(Payloads), NEW d \in Payloads
  PROVE  TellsLast(w \o <<d>>, d.stop)
<1> DEFINE v == w \o <<d>>
<1>1. Len(w) \in Nat /\ Len(v) = Len(w) + 1 /\ v[Len(w) + 1] = d
  BY AddOne
<1> HIDE DEF v
<1>2. /\ Len(w) + 1 \in 1..Len(v)
      /\ \A q \in ((Len(w) + 1) + 1)..Len(v) : FALSE
  BY <1>1
<1>3. TellsLast(v, d.stop)
  BY <1>1, <1>2 DEF TellsLast
<1> QED BY <1>3 DEF v

LEMMA TellsStill ==
  ASSUME NEW w \in Seq(Payloads), NEW d \in Payloads, Silent(d),
         NEW told, TellsLast(w, told)
  PROVE  TellsLast(w \o <<d>>, told)
<1> DEFINE v == w \o <<d>>
<1>1. /\ Len(w) \in Nat /\ Len(v) = Len(w) + 1 /\ v[Len(w) + 1] = d
      /\ \A p \in 1..Len(w) : v[p] = w[p]
  BY AddOne
<1> HIDE DEF v
<1> DEFINE Tells(p) == w[p].stop = told
<1>2. PICK p \in 1..Len(w) : Tells(p) /\ \A q \in (p + 1)..Len(w) : Silent(w[q])
  BY DEF TellsLast, Silent
<1>p. p \in 1..Len(w)
  OBVIOUS
<1> HIDE DEF Tells
<1>3. p \in 1..Len(v) /\ v[p] = w[p]
  BY <1>1, <1>p
<1>4. \A q \in (p + 1)..Len(v) : Silent(v[q])
  <2> SUFFICES ASSUME NEW q \in (p + 1)..Len(v) PROVE Silent(v[q])
    OBVIOUS
  <2>1. CASE q = Len(w) + 1
    BY <1>1, <2>1
  <2>2. CASE q # Len(w) + 1
    <3>1. q \in (p + 1)..Len(w) /\ q \in 1..Len(w)
      BY <1>1, <1>p, <2>2
    <3> QED BY <1>1, <1>2, <3>1
  <2> QED BY <2>1, <2>2
<1>5. TellsLast(v, told)
  BY <1>2, <1>3, <1>4 DEF TellsLast, Tells, Silent
<1> QED BY <1>5 DEF v

\* What the adapters write for a report and for done.
LEMMA ReportsEncoded ==
  ASSUME ConvTypeOK, NEW e \in Event
  PROVE  /\ Tracked(e).stop = IF Reports(e) /\ e.stop # "" THEN e.stop ELSE enc.stop
         /\ Reports(e) =>
              /\ Entry = "anthropic" => \E d \in Payloads : d.stop = Ended(e.stop) /\ Encode(e) = <<d>>
              /\ Entry = "gemini" => \E d \in Payloads : d.stop = Completed(e.stop) /\ Encode(e) = <<d>>
         /\ e.type = "done" =>
              /\ Entry = "anthropic" => \E d \in Payloads : d.stop = "" /\ Encode(e) = <<d>>
              /\ Entry = "gemini" => Encode(e) = <<>>
              /\ Entry = "responses" =>
                   \E d \in Payloads : d.stop = Completed(enc.stop) /\ Encode(e) = <<d>>
<1> DEFINE T == Kinds \cup {"unknown", ""}
           fin(s) == Payload("finish", 0, "", s)
           dn(s) == Payload("done", 0, "", s)
<1>0. /\ 0 \in Indices /\ e.stop \in StopReasons /\ "" \in StopReasons /\ "" \in T
      /\ Ended(e.stop) \in StopReasons /\ Completed(e.stop) \in StopReasons
      /\ Completed(enc.stop) \in StopReasons
      /\ enc \in [text: SUBSET Indices, tool: SUBSET Indices,
                  last: [Indices -> {"absent", "text", "tool_call"}], stop: StopReasons]
  BY WordsTyped DEF ConvTypeOK
<1>1. Tracked(e).stop = IF Reports(e) /\ e.stop # "" THEN e.stop ELSE enc.stop
  BY <1>0 DEF Tracked, Reports
<1>2. \A s \in StopReasons : /\ fin(s) \in Payloads /\ fin(s).stop = s
                             /\ dn(s) \in Payloads /\ dn(s).stop = s
  <2> SUFFICES ASSUME NEW s \in StopReasons
               PROVE  /\ fin(s) \in Payloads /\ fin(s).stop = s
                      /\ dn(s) \in Payloads /\ dn(s).stop = s
    OBVIOUS
  <2>1. fin(s) \in Payloads /\ dn(s) \in Payloads
    BY <1>0 DEF Payload, Payloads
  <2>2. fin(s).stop = s /\ dn(s).stop = s
    BY DEF Payload
  <2> QED BY <2>1, <2>2
<1>3. /\ Reports(e) /\ Entry = "anthropic" => Encode(e) = <<fin(Ended(e.stop))>>
      /\ Reports(e) /\ Entry = "gemini" => Encode(e) = <<fin(Completed(e.stop))>>
      /\ e.type = "done" /\ Entry = "anthropic" => Encode(e) = <<dn("")>>
      /\ e.type = "done" /\ Entry = "gemini" => Encode(e) = <<>>
      /\ e.type = "done" /\ Entry = "responses" => Encode(e) = <<dn(Completed(enc.stop))>>
  BY DEF Reports, Encode, EncodeAnthropic, EncodeGemini, EncodeResponses
<1> HIDE DEF fin, dn
<1> QED BY <1>0, <1>1, <1>2, <1>3

\* What a report tells a client that is told at once, and one that is told last.
LEMMA ReasonToldNext ==
  ASSUME AggTypeOK, AggInv, ConvInv, [Next]_vars, ReasonLast, ReasonTold
  PROVE  ReasonTold'
<1>0. ConvTypeOK /\ encoded \in Nat /\ Len(emitted) \in Nat /\ encoded <= Len(emitted)
      /\ written \in Seq(Payloads) /\ stopReason \in StopReasons
  BY EmittedKept DEF ConvInv, ConvTypeOK, AggTypeOK
<1>1. CASE ~WriteNext
  <2>1. UNCHANGED <<route, written, enc, encoded>>
    BY <1>1, OtherSteps
  <2>2. CASE doneSent
    <3>1. UNCHANGED <<doneSent, stopReason, emitted>>
      BY <2>2, DoneStep DEF aggVars
    <3> QED BY <2>1, <3>1 DEF ReasonTold, LastTold, Completed, Entry
  <2>3. CASE ~doneSent /\ doneSent'
    <3>1. Len(emitted') = Len(emitted) + 2
      BY <2>3, DoneStep, LastTwo
    <3>2. ~(encoded' >= Len(emitted') - 1)
      BY <1>0, <2>1, <3>1
    <3> QED BY <3>2 DEF ReasonTold
  <2> QED BY <2>2, <2>3 DEF ReasonTold
<1>2. CASE WriteNext
  <2> DEFINE e == emitted[encoded + 1]
             r == stopReason
             due == encoded' >= Len(emitted) - 1
  <2>1. /\ e \in Event /\ UNCHANGED <<aggVars, route>>
        /\ \/ UNCHANGED <<encoded, enc, written>>
           \/ written' = written \o Encode(e) /\ enc' = Tracked(e) /\ encoded' = encoded + 1
    BY <1>2, WriteStep
  <2>2. UNCHANGED <<doneSent, stopReason, emitted, route>>
    BY <2>1 DEF aggVars
  <2>3. CASE UNCHANGED <<encoded, enc, written>>
    BY <2>2, <2>3 DEF ReasonTold, LastTold, Completed, Entry
  <2>a. encoded' = encoded + 1 /\ encoded + 1 \in 1..Len(emitted) /\ due
        => encoded' = Len(emitted) - 1 \/ encoded' = Len(emitted)
    BY <1>0
  <2>b. encoded' = Len(emitted) - 1 => encoded' # Len(emitted)
    BY <1>0
  <2>4. ASSUME written' = written \o Encode(e), enc' = Tracked(e), encoded' = encoded + 1,
               encoded + 1 \in 1..Len(emitted), doneSent, r # "", due
        PROVE  /\ Entry = "anthropic" => TellsLast(written', r)
               /\ Entry = "gemini" => TellsLast(written', Completed(r))
               /\ Entry = "responses" =>
                    /\ enc'.stop = r
                    /\ encoded' = Len(emitted) => TellsLast(written', Completed(r))
    <3>1. encoded + 1 = Len(emitted) - 1 \/ encoded + 1 = Len(emitted)
      BY <2>4, <2>a, Zenon
    <3>2. CASE encoded + 1 = Len(emitted) - 1
      <4>1. Reports(e) /\ e.stop = r
        BY <2>4, <3>2 DEF ReasonLast
      <4>2. encoded' # Len(emitted)
        BY <2>4, <2>b, <3>2, Zenon
      <4>3. enc'.stop = r
        BY <1>0, <2>1, <2>4, <4>1, ReportsEncoded
      <4>4. Entry = "anthropic" => TellsLast(written', r)
        <5> SUFFICES ASSUME Entry = "anthropic" PROVE TellsLast(written', r)
          OBVIOUS
        <5>1. PICK d \in Payloads : d.stop = Ended(e.stop) /\ Encode(e) = <<d>>
          BY <1>0, <2>1, <4>1, ReportsEncoded
        <5>2. d.stop = r /\ written' = written \o <<d>>
          BY <2>4, <4>1, <5>1 DEF Ended
        <5>3. TellsLast(written \o <<d>>, d.stop)
          BY <1>0, TellsNow
        <5> QED BY <5>2, <5>3
      <4>5. Entry = "gemini" => TellsLast(written', Completed(r))
        <5> SUFFICES ASSUME Entry = "gemini" PROVE TellsLast(written', Completed(r))
          OBVIOUS
        <5>1. PICK d \in Payloads : d.stop = Completed(e.stop) /\ Encode(e) = <<d>>
          BY <1>0, <2>1, <4>1, ReportsEncoded
        <5>2. d.stop = Completed(r) /\ written' = written \o <<d>>
          BY <2>4, <4>1, <5>1
        <5>3. TellsLast(written \o <<d>>, d.stop)
          BY <1>0, TellsNow
        <5> QED BY <5>2, <5>3
      <4> QED BY <4>2, <4>3, <4>4, <4>5
    <3>3. CASE encoded + 1 = Len(emitted)
      <4>1. e.type = "done" /\ ~Reports(e)
        BY <2>4, <3>3 DEF ReasonLast, Reports
      <4>2. /\ Entry = "anthropic" => TellsLast(written, r)
            /\ Entry = "gemini" => TellsLast(written, Completed(r))
            /\ Entry = "responses" => enc.stop = r
        <5>1. encoded >= Len(emitted) - 1
          BY <1>0, <3>3
        <5> QED BY <2>4, <5>1 DEF ReasonTold, LastTold, TellsLast
      <4>3. enc'.stop = enc.stop
        BY <1>0, <2>1, <2>4, <4>1, ReportsEncoded
      <4>4. Entry = "anthropic" => TellsLast(written', r)
        <5> SUFFICES ASSUME Entry = "anthropic" PROVE TellsLast(written', r)
          OBVIOUS
        <5>1. PICK d \in Payloads : d.stop = "" /\ Encode(e) = <<d>>
          BY <1>0, <2>1, <4>1, ReportsEncoded
        <5>2. Silent(d) /\ written' = written \o <<d>>
          BY <2>4, <5>1 DEF Silent
        <5>3. TellsLast(written \o <<d>>, r)
          BY <1>0, <4>2, <5>2, TellsStill
        <5> QED BY <5>2, <5>3
      <4>5. Entry = "gemini" => TellsLast(written', Completed(r))
        <5> SUFFICES ASSUME Entry = "gemini" PROVE TellsLast(written', Completed(r))
          OBVIOUS
        <5>1. Encode(e) = <<>>
          BY <1>0, <2>1, <4>1, ReportsEncoded
        <5>2. written' = written \o <<>>
          BY <2>4, <5>1, Zenon
        <5>3. written \o <<>> = written
          BY <1>0
        <5> QED BY <4>2, <5>2, <5>3
      <4>6. Entry = "responses" => TellsLast(written', Completed(r))
        <5> SUFFICES ASSUME Entry = "responses" PROVE TellsLast(written', Completed(r))
          OBVIOUS
        <5>1. PICK d \in Payloads : d.stop = Completed(enc.stop) /\ Encode(e) = <<d>>
          BY <1>0, <2>1, <4>1, ReportsEncoded
        <5>2. d.stop = Completed(r) /\ written' = written \o <<d>>
          BY <2>4, <4>2, <5>1
        <5>3. TellsLast(written \o <<d>>, d.stop)
          BY <1>0, TellsNow
        <5> QED BY <5>2, <5>3
      <4> QED BY <4>2, <4>3, <4>4, <4>5, <4>6
    <3> QED BY <3>1, <3>2, <3>3
  <2>5. encoded + 1 \in 1..Len(emitted)
    BY <1>2, WriteStep
  <2>6. CASE written' = written \o Encode(e) /\ enc' = Tracked(e) /\ encoded' = encoded + 1
    <3> HIDE DEF e
    <3>1. \A w : LastTold(w)' <=> TellsLast(written', w)
      BY DEF LastTold, TellsLast
    <3>2. Completed(stopReason)' = Completed(r) /\ Entry' = Entry
      BY <2>2 DEF Completed, Entry
    <3>3. LastTold(stopReason)' <=> TellsLast(written', r)
      BY <2>2 DEF LastTold, TellsLast
    <3>4. LastTold(Completed(stopReason))' <=> TellsLast(written', Completed(r))
      BY <3>2 DEF LastTold, TellsLast
    <3> QED BY <2>2, <2>4, <2>5, <2>6, <3>2, <3>3, <3>4 DEF ReasonTold
  <2> QED BY <2>1, <2>3, <2>6
<1> QED BY <1>1, <1>2

LEMMA ReasonInvInit == Init => ReasonInv
<1> SUFFICES ASSUME Init PROVE ReasonInv
  OBVIOUS
<1>1. decoded = <<>> /\ answer.stop = "" /\ stopReason = "" /\ ~doneSent
  BY DEF Init, AggInit
<1>2. 1..Len(<<>>) = {}
  OBVIOUS
<1> QED BY <1>1, <1>2 DEF ReasonInv, OneReason, ReasonKnown, ReasonLast, ReasonTold

(* What the aggregator knows of the reason is the one the provider's adapter   *)
(* has read, it is in the last report, and a client that has got that report   *)
(* has been told.                                                              *)
THEOREM ReasonIsKept == Spec => []ReasonInv
<1>1. AggTypeOK /\ AggInv /\ ConvInv /\ ReasonInv /\ [Next]_vars => ReasonInv'
  BY OneReasonNext, ReasonKnownNext, ReasonLastNext, ReasonToldNext DEF ReasonInv
<1> QED BY <1>1, ReasonInvInit, ConversionInvariant, PTL DEF Spec

(* The reason that the provider's adapter has read is the last one a client is *)
(* told, whatever usage reports come with it or after it.  Nothing is claimed  *)
(* of a reason no adapter reads (FinishUnread).                                *)
THEOREM TheReasonSurvives == Spec => []StopReasonSurvives
<1>0. ConvInv /\ encoded = Len(emitted) => encoded >= Len(emitted) - 1
  BY DEF ConvInv, ConvTypeOK
<1>1. ConvInv /\ ReasonInv => StopReasonSurvives
  <2> SUFFICES ASSUME ConvInv, ReasonInv, Settled, answer.stop # "", Entry # "chat"
               PROVE  LastTold(IF Entry = "anthropic" THEN Decoded(answer.stop)
                               ELSE Completed(Decoded(answer.stop)))
    BY DEF StopReasonSurvives
  <2>1. doneSent /\ encoded = Len(emitted) /\ ~Live
    BY DEF Settled, Live
  <2>2. stopReason = Decoded(answer.stop) /\ stopReason # ""
    BY <2>1 DEF ReasonInv, ReasonKnown, Decoded
  <2>3. Entry \in Protocols
    BY RouteTyped DEF ConvInv, ConvTypeOK
  <2>4. encoded >= Len(emitted) - 1
    BY <1>0, <2>1, Zenon
  <2>5. /\ Entry = "anthropic" => LastTold(stopReason)
        /\ Entry = "gemini" => LastTold(Completed(stopReason))
        /\ Entry = "responses" => LastTold(Completed(stopReason))
    BY <2>1, <2>2, <2>4 DEF ReasonInv, ReasonTold
  <2> QED BY <2>2, <2>3, <2>5 DEF Protocols
<1> QED BY <1>1, ConversionInvariant, ReasonIsKept, PTL

-----------------------------------------------------------------------------
(* The items, of the providers that frame them.                              *)

LEMMA OpenedStays ==
  ASSUME ConvTypeOK, Upstream' = Upstream, answer'.items = answer.items
  PROVE  \A i \in Indices : (Opened(i)' <=> Opened(i)) /\ ClassOf(i)' = ClassOf(i)
BY DEF Opened, ClassOf, Items

\* The next item is opened, and its start is in the chunk.
LEMMA OpenFrames ==
  ASSUME ConvTypeOK, NEW kind \in Kinds, Open(kind), Upstream # "chat", Upstream' = Upstream
  PROVE  /\ \A i \in Indices : /\ Opened(i)' <=> (Opened(i) \/ PendingStart(i)')
                               /\ PendingStart(i)' => ~Opened(i)
                               /\ Opened(i) => ClassOf(i)' = ClassOf(i)
         /\ \A p \in 1..Len(decoded') : \A e : e = decoded'[p] => EventFollows(e)'
<1>0. /\ Items \in Nat /\ answer.items \in Seq(Kinds) /\ Indices \subseteq Nat
      /\ answer \in [phase: Phases, items: Seq(Kinds), open: BOOLEAN,
                     deltas: Seq(Kinds), stop: StopReasons]
      /\ Upstream \in Protocols
  BY AnswerTyped, RouteTyped, IndicesAssumption DEF ConvTypeOK
<1>1. answer'.items = Append(answer.items, kind)
  BY <1>0 DEF Open
<1>2. /\ Items' = Items + 1
      /\ \A i \in Nat : i < Items => answer'.items[i + 1] = answer.items[i + 1]
      /\ answer'.items[Items + 1] = kind
  BY <1>0, <1>1 DEF Items
<1>3. CASE decoded' = <<>> /\ Upstream = "gemini" /\ Items > 0
  <2>1. 1..Len(<<>>) = {}
    OBVIOUS
  <2>2. \A i : ~PendingStart(i)'
    BY <1>3, <2>1 DEF PendingStart
  <2>3. \A i \in Indices : (Opened(i)' <=> Opened(i)) /\ ClassOf(i)' = ClassOf(i)
    BY <1>0, <1>2, <1>3 DEF Opened, ClassOf
  <2>4. \A p \in 1..Len(decoded') : FALSE
    BY <1>3, <2>1
  <2> QED BY <2>2, <2>3, <2>4
<1>4. ASSUME NEW j \in Indices, NEW k \in Kinds, decoded' = <<Start(j, k)>>,
             Upstream = "gemini" => j = 0 /\ k = "text" /\ Items = 0,
             Upstream \in {"anthropic", "responses"} => j = Items /\ Class(k) = Class(kind)
      PROVE  /\ \A i \in Indices : /\ Opened(i)' <=> (Opened(i) \/ PendingStart(i)')
                                   /\ PendingStart(i)' => ~Opened(i)
                                   /\ Opened(i) => ClassOf(i)' = ClassOf(i)
             /\ \A p \in 1..Len(decoded') : \A e : e = decoded'[p] => EventFollows(e)'
  <2> DEFINE x == Start(j, k)
  <2>1. /\ x \in Event /\ x.type = "content_part_start" /\ x.index = j /\ x.kind = k
    BY ProviderEvents
  <2>x. decoded' = <<x>>
    BY <1>4
  <2> HIDE DEF x
  <2>2. Len(decoded') = 1 /\ decoded'[1] = x
    BY <2>x, <2>1, Singleton, Zenon
  <2>3. \A p \in 1..Len(decoded') : p = 1 /\ decoded'[p] = x
    BY <2>2
  <2>4. \A i : PendingStart(i)' <=> i = j
    BY <2>1, <2>2, <2>3 DEF PendingStart, IsStart
  <2>5. \A i \in Indices : Opened(i)' <=> (Opened(i) \/ i = j)
    BY <1>0, <1>2, <1>4 DEF Opened, Protocols
  <2>6. ~Opened(j)
    BY <1>0, <1>4 DEF Opened, Protocols
  <2>7. \A i \in Indices : Opened(i) => ClassOf(i)' = ClassOf(i)
    BY <1>0, <1>2 DEF Opened, ClassOf
  <2>8. k \in Kinds /\ Class(k) = ClassOf(j)'
    <3>1. CASE Upstream = "gemini"
      <4>1. Class(k) = "text"
        BY <1>4, <3>1 DEF Class
      <4> QED BY <3>1, <4>1 DEF ClassOf
    <3>2. CASE Upstream # "gemini"
      <4>1. j = Items /\ Class(k) = Class(kind)
        BY <1>0, <1>4, <3>2 DEF Protocols
      <4>2. answer'.items[j + 1] = kind
        BY <1>2, <4>1
      <4> QED BY <3>2, <4>1, <4>2 DEF ClassOf
    <3> QED BY <3>1, <3>2
  <2>9. \A p \in 1..Len(decoded') : \A e : e = decoded'[p] => EventFollows(e)'
    <3> SUFFICES ASSUME NEW p \in 1..Len(decoded'), NEW e, e = decoded'[p]
                 PROVE  EventFollows(e)'
      OBVIOUS
    <3>1. e = x
      BY <2>3
    <3> QED BY <2>1, <2>5, <2>8, <3>1 DEF EventFollows, Opening
  <2> QED BY <2>4, <2>5, <2>6, <2>7, <2>9
<1>5. \/ decoded' = <<>> /\ Upstream \in {"chat", "gemini"} /\ (Upstream = "gemini" => Items > 0)
      \/ \E i \in Indices, k \in Kinds :
           /\ decoded' = <<Start(i, k)>>
           /\ Upstream = "gemini" => i = 0 /\ k = "text" /\ Items = 0
           /\ Upstream \in {"anthropic", "responses"} => i = Items /\ Class(k) = Class(kind)
  BY OpenChunk
<1>6. CASE decoded' = <<>> /\ Upstream \in {"chat", "gemini"} /\ (Upstream = "gemini" => Items > 0)
  BY <1>3, <1>6
<1>7. CASE \E i \in Indices, k \in Kinds :
             /\ decoded' = <<Start(i, k)>>
             /\ Upstream = "gemini" => i = 0 /\ k = "text" /\ Items = 0
             /\ Upstream \in {"anthropic", "responses"} => i = Items /\ Class(k) = Class(kind)
  BY <1>4, <1>7, Zenon
<1> QED BY <1>5, <1>6, <1>7

\* A chunk that starts nothing leaves the items as they are.
LEMMA OneEventFollows ==
  ASSUME ConvTypeOK, Upstream' = Upstream, answer'.items = answer.items,
         NEW e \in Event, decoded' = <<e>>, e.type # "content_part_start", EventFollows(e)
  PROVE  /\ \A i \in Indices : ~PendingStart(i)'
         /\ \A p \in 1..Len(decoded') : \A x : x = decoded'[p] => EventFollows(x)'
<1>1. Len(decoded') = 1 /\ decoded'[1] = e
  BY Singleton, Zenon
<1>2. \A p \in 1..Len(decoded') : decoded'[p] = e
  BY <1>1
<1>3. \A i \in Indices : ~PendingStart(i)'
  BY <1>2 DEF PendingStart, IsStart
<1>4. e.index \in Indices
  BY WordsTyped
<1>5. Opened(e.index)' = Opened(e.index) /\ ClassOf(e.index)' = ClassOf(e.index)
  BY DEF Opened, ClassOf, Items
<1>6. EventFollows(e)'
  BY <1>5 DEF EventFollows
<1>7. \A p \in 1..Len(decoded') : \A x : x = decoded'[p] => EventFollows(x)'
  BY <1>2, <1>6, Zenon
<1> QED BY <1>3, <1>7

LEMMA ChunkFrames ==
  ASSUME AggTypeOK, ConvInv, Provider, Upstream # "chat"
  PROVE  /\ \A i \in Indices : /\ Opened(i)' <=> (Opened(i) \/ PendingStart(i)')
                               /\ PendingStart(i)' => ~Opened(i)
                               /\ Opened(i) => ClassOf(i)' = ClassOf(i)
         /\ \A p \in 1..Len(decoded') : \A e : e = decoded'[p] => EventFollows(e)'
<1>0. /\ ConvTypeOK /\ Upstream' = Upstream /\ Items \in Nat
      /\ answer \in [phase: Phases, items: Seq(Kinds), open: BOOLEAN,
                     deltas: Seq(Kinds), stop: StopReasons]
  BY ProviderFrame, AnswerTyped DEF ConvInv, ConvTypeOK, Upstream
<1> DEFINE Fits == /\ \A i \in Indices : ~PendingStart(i)'
                   /\ \A p \in 1..Len(decoded') : \A e : e = decoded'[p] => EventFollows(e)'
<1>n. ASSUME decoded' = <<>> PROVE Fits
  <2>1. 1..Len(<<>>) = {}
    OBVIOUS
  <2>2. \A p \in 1..Len(decoded') : FALSE
    BY <1>n, <2>1
  <2> QED BY <2>2 DEF PendingStart
<1>o. ASSUME answer'.items = answer.items, NEW e \in Event, decoded' = <<e>>,
             e.type # "content_part_start", EventFollows(e)
      PROVE  Fits
  BY <1>0, <1>o, OneEventFollows
<1>p. \A e \in Event : ~Opening(e) /\ ~Stopping(e) =>
        e.type # "content_part_start" /\ EventFollows(e)
  BY DEF EventFollows, Opening
<1>k. ASSUME answer'.items = answer.items, Fits
      PROVE  /\ \A i \in Indices : /\ Opened(i)' <=> (Opened(i) \/ PendingStart(i)')
                                   /\ PendingStart(i)' => ~Opened(i)
                                   /\ Opened(i) => ClassOf(i)' = ClassOf(i)
             /\ \A p \in 1..Len(decoded') : \A e : e = decoded'[p] => EventFollows(e)'
  BY <1>0, <1>k, OpenedStays
<1> HIDE DEF Fits
<1>1. CASE Begin
  <2>1. answer'.items = answer.items /\ (decoded' = <<>> \/ decoded' = <<Created>>)
    BY <1>0, <1>1 DEF Begin, Chunk, DecodeBegin
  <2>2. Created \in Event /\ ~Opening(Created) /\ ~Stopping(Created)
    BY ProviderEvents DEF Opening, Stopping
  <2>3. Fits
    BY <2>1, <2>2, <1>n, <1>o, <1>p, Zenon
  <2> QED BY <2>1, <2>3, <1>k
<1>2. ASSUME NEW kind \in Kinds, Open(kind)
      PROVE  /\ \A i \in Indices : /\ Opened(i)' <=> (Opened(i) \/ PendingStart(i)')
                                   /\ PendingStart(i)' => ~Opened(i)
                                   /\ Opened(i) => ClassOf(i)' = ClassOf(i)
             /\ \A p \in 1..Len(decoded') : \A e : e = decoded'[p] => EventFollows(e)'
  BY <1>0, <1>2, OpenFrames
<1>3. CASE SendDelta
  <2>0. /\ answer'.items = answer.items /\ Items - 1 \in Nat /\ answer.open
        /\ Upstream \in Protocols
    BY <1>0, <1>3, AnswerTyped, RouteTyped DEF SendDelta, ConvTypeOK
  <2>1. CASE decoded' = <<>>
    BY <2>0, <2>1, <1>n, <1>k
  <2>2. CASE \E i \in Indices, k \in Kinds :
               /\ decoded' = <<Delta(i, k)>> /\ Class(k) = Class(answer.items[Items])
               /\ Upstream = "gemini" => i = 0 /\ k = "text"
               /\ Upstream \in {"anthropic", "responses"} => i = Items - 1
    <3>1. PICK i \in Indices, k \in Kinds :
            /\ decoded' = <<Delta(i, k)>> /\ Class(k) = Class(answer.items[Items])
            /\ Upstream = "gemini" => i = 0 /\ k = "text"
            /\ Upstream \in {"anthropic", "responses"} => i = Items - 1
      BY <2>2
    <3>2. Opened(i) /\ Class(k) = ClassOf(i)
      <4>1. CASE Upstream = "gemini"
        <5>1. Class(k) = "text"
          BY <3>1, <4>1 DEF Class
        <5> QED BY <1>0, <2>0, <3>1, <4>1, <5>1 DEF Opened, ClassOf
      <4>2. CASE Upstream # "gemini"
        <5>1. i = Items - 1
          BY <2>0, <3>1, <4>2 DEF Protocols
        <5>2. i < Items /\ i + 1 = Items
          BY <1>0, <5>1
        <5> QED BY <3>1, <4>2, <5>2 DEF Opened, ClassOf
      <4> QED BY <4>1, <4>2
    <3>3. /\ Delta(i, k) \in Event /\ Delta(i, k).type = "content_part_delta"
          /\ Delta(i, k).index = i /\ Delta(i, k).kind = k
      BY ProviderEvents
    <3>4. EventFollows(Delta(i, k))
      BY <3>2, <3>3 DEF EventFollows
    <3> HIDE DEF Delta
    <3>5. Delta(i, k).type # "content_part_start"
      BY <3>3
    <3>6. Fits
      BY <1>o, <2>0, <3>1, <3>3, <3>4, <3>5, Zenon
    <3> QED BY <2>0, <3>6, <1>k
  <2>3. \/ decoded' = <<>>
        \/ \E i \in Indices, k \in Kinds :
             /\ decoded' = <<Delta(i, k)>> /\ Class(k) = Class(answer.items[Items])
             /\ Upstream = "gemini" => i = 0 /\ k = "text"
             /\ Upstream \in {"anthropic", "responses"} => i = Items - 1
    BY <1>0, <1>3, DeltaChunk, Zenon
  <2> QED BY <2>1, <2>2, <2>3
<1>4. CASE Close
  <2>0. /\ answer'.items = answer.items
        /\ \/ decoded' = <<>>
           \/ /\ Upstream \in {"anthropic", "responses"}
              /\ Items - 1 \in Indices /\ decoded' = <<Stop(Items - 1)>>
    BY <1>0, <1>4, CloseChunk DEF Close
  <2>1. CASE decoded' = <<>>
    BY <2>0, <2>1, <1>n, <1>k
  <2>2. CASE /\ Upstream \in {"anthropic", "responses"}
             /\ Items - 1 \in Indices /\ decoded' = <<Stop(Items - 1)>>
    <3>1. Opened(Items - 1)
      BY <1>0, <2>2 DEF Opened
    <3>2. /\ Stop(Items - 1) \in Event /\ Stop(Items - 1).type = "content_part_stop"
          /\ Stop(Items - 1).index = Items - 1
      BY <2>2, ProviderEvents
    <3>3. EventFollows(Stop(Items - 1)) /\ Stop(Items - 1).type # "content_part_start"
      BY <3>1, <3>2 DEF EventFollows, Opening
    <3>4. Fits
      BY <1>o, <2>0, <2>2, <3>2, <3>3, Zenon
    <3> QED BY <2>0, <3>4, <1>k
  <2> QED BY <2>0, <2>1, <2>2
<1>5. CASE Finish
  <2>1. /\ answer'.items = answer.items
        /\ \A p \in 1..Len(decoded') :
             \/ Upstream = "gemini" /\ Items > 0 /\ decoded'[p] = Stop(0)
             \/ decoded'[p].type = "message_delta"
             \/ decoded'[p].type = "done"
    <3>1. answer' = [answer EXCEPT !.phase = "finished", !.stop = answer'.stop]
      BY <1>0, <1>5, FinishChunk
    <3>2. answer'.items = answer.items
      BY <1>0, <3>1
    <3> QED BY <1>0, <1>5, <3>2, FinishChunk
  <2>2. Stop(0).type = "content_part_stop" /\ Stop(0).index = 0 /\ 0 \in Indices
    BY IndicesAssumption, ProviderEvents
  <2>3. Upstream = "gemini" /\ Items > 0 => Opened(0)
    BY DEF Opened
  <2>4. \A i \in Indices : ~PendingStart(i)'
    BY <2>1, <2>2 DEF PendingStart, IsStart
  <2>5. Opened(0)' = Opened(0)
    BY <1>0, <2>1 DEF Opened, Items
  <2>6. \A p \in 1..Len(decoded') : \A e : e = decoded'[p] => EventFollows(e)'
    <3> SUFFICES ASSUME NEW p \in 1..Len(decoded'), NEW e, e = decoded'[p]
                 PROVE  EventFollows(e)'
      OBVIOUS
    <3>1. CASE Upstream = "gemini" /\ Items > 0 /\ e = Stop(0)
      <4>1. ~Opening(e) /\ e.index = 0
        BY <2>2, <3>1 DEF Opening
      <4> QED BY <2>3, <2>5, <3>1, <4>1 DEF EventFollows, Opening
    <3>2. CASE e.type \in {"message_delta", "done"}
      BY <3>2 DEF EventFollows, Opening, Stopping
    <3> QED BY <2>1, <3>1, <3>2
  <2> QED BY <2>1, <2>4, <2>6, <1>k DEF Fits
<1>6. CASE FinishUnread \/ SendUsage \/ SendStop \/ Fail
  <2>1. /\ answer'.items = answer.items
        /\ \/ decoded' = <<Report("", TRUE)>> \/ decoded' = <<Done>>
           \/ decoded' = <<Error>> \/ decoded' = <<>>
    BY <1>0, <1>6 DEF FinishUnread, SendUsage, SendStop, Fail, Chunk
  <2>2. /\ Report("", TRUE) \in Event /\ Report("", TRUE).type = "message_delta"
        /\ Done \in Event /\ Done.type = "done" /\ Error \in Event /\ Error.type = "error"
    BY ProviderEvents, DecodedNothing
  <2>3. \A e \in {Report("", TRUE), Done, Error} : e \in Event /\ ~Opening(e) /\ ~Stopping(e)
    BY <2>2 DEF Opening, Stopping
  <2>4. Fits
    BY <2>1, <2>3, <1>n, <1>o, <1>p, Zenon
  <2> QED BY <2>1, <2>4, <1>k
<1> QED
  BY <1>1, <1>2, <1>3, <1>4, <1>5, <1>6 DEF Provider

\* Where the next event finds its item.
LEMMA HeadPlace ==
  ASSUME AggTypeOK, ConvInv, ItemsFollow, DecodedFollow, decoded # <<>>
  PROVE  LET e == decoded[1]
         IN /\ e \in Event /\ e.index \in Indices /\ EventFollows(e)
            /\ e.type = "content_part_start" => items[e.index] = "absent"
            /\ e.type = "content_part_delta" => items[e.index] # "absent"
            /\ Stopping(e) => items[e.index] # "absent" /\ (Live => e.index \notin stopped)
            /\ \A i \in Indices : PendingStart(i) <=> IsStart(e, i)
<1> DEFINE e == decoded[1]
<1>1. /\ e \in Event /\ e.index \in Indices /\ EventFollows(e) /\ 1 \in 1..Len(decoded)
  <2>1. 1 \in 1..Len(decoded) /\ e \in Event
    BY NextDecoded DEF ConvInv
  <2> QED BY <2>1, WordsTyped DEF DecodedFollow
<1>2. \A i \in Indices : PendingStart(i) <=> IsStart(e, i)
  <2> SUFFICES ASSUME NEW i \in Indices PROVE PendingStart(i) <=> IsStart(e, i)
    OBVIOUS
  <2>1. ASSUME NEW p \in 1..Len(decoded), IsStart(decoded[p], i) PROVE p = 1
    <3>1. Len(decoded) = 1
      BY <2>1 DEF ConvInv, OpensAlone, Opening, IsStart
    <3> QED BY <3>1
  <2> QED BY <1>1, <2>1 DEF PendingStart
<1>3. Stopping(e) => (Live => e.index \notin stopped)
  BY <1>1 DEF ConvInv, StopsInOrder
<1> HIDE DEF e
<1>4. e.type = "content_part_start" => items[e.index] = "absent"
  BY <1>1, <1>2 DEF ItemsFollow, IsStart
<1>5. e.type \in {"content_part_delta", "content_part_stop"} => items[e.index] # "absent"
  BY <1>1, <1>2 DEF ItemsFollow, IsStart, EventFollows, Opening, Stopping
<1> QED BY <1>1, <1>2, <1>3, <1>4, <1>5 DEF e, Stopping

\* What a step emits: the event that it handles is the only one of its own that
\* opens or stops an item, and the last one.
Adds(e) ==
  \A p \in 1..Len(emitted') :
    \/ p \in 1..Len(emitted) /\ emitted'[p] = emitted[p]
    \/ ~Opening(emitted'[p]) /\ ~Stopping(emitted'[p])
    \/ p = Len(emitted') /\ p > Len(emitted) /\ emitted'[p] = e

Plain(a) == \A p \in 1..Len(a) : ~Opening(a[p]) /\ ~Stopping(a[p])

LEMMA AddsPlain ==
  ASSUME emitted \in Seq(Event), NEW a \in Seq(Event), Plain(a), NEW e \in Event,
         emitted' = emitted \o a \/ emitted' = (emitted \o a) \o <<e>>
  PROVE  Adds(e)
<1> DEFINE s == emitted \o a
<1>1. /\ s \in Seq(Event) /\ Len(s) = Len(emitted) + Len(a)
      /\ Len(emitted) \in Nat /\ Len(a) \in Nat
      /\ \A p \in 1..Len(emitted) : s[p] = emitted[p]
      /\ \A p \in 1..Len(a) : s[Len(emitted) + p] = a[p]
  <2>1. /\ emitted \o a \in Seq(Event) /\ Len(emitted \o a) = Len(emitted) + Len(a)
        /\ Len(emitted) \in Nat /\ Len(a) \in Nat
        /\ \A p \in 1..Len(emitted) : (emitted \o a)[p] = emitted[p]
    BY Concatenation
  <2>2. \A p \in 1..Len(a) : (emitted \o a)[Len(emitted) + p] = a[p]
    BY Concatenation
  <2> QED BY <2>1, <2>2, Zenon
<1>2. emitted' = s \/ emitted' = s \o <<e>>
  OBVIOUS
<1> HIDE DEF s
<1>3. \A p \in 1..Len(s) : \/ p \in 1..Len(emitted) /\ s[p] = emitted[p]
                           \/ ~Opening(s[p]) /\ ~Stopping(s[p])
  <2> SUFFICES ASSUME NEW p \in 1..Len(s), p \notin 1..Len(emitted)
               PROVE  ~Opening(s[p]) /\ ~Stopping(s[p])
    BY <1>1
  <2>1. p - Len(emitted) \in 1..Len(a) /\ Len(emitted) + (p - Len(emitted)) = p
    BY <1>1
  <2>2. s[Len(emitted) + (p - Len(emitted))] = a[p - Len(emitted)]
    BY <1>1, <2>1
  <2> QED BY <2>1, <2>2 DEF Plain
<1>4. CASE emitted' = s
  BY <1>3, <1>4 DEF Adds
<1>5. CASE emitted' = s \o <<e>>
  <2>1. /\ Len(emitted') = Len(s) + 1 /\ emitted'[Len(s) + 1] = e
        /\ \A p \in 1..Len(s) : emitted'[p] = s[p]
    BY <1>1, <1>5, AddOne
  <2>2. ASSUME NEW p \in 1..Len(emitted'), p \notin 1..Len(s)
        PROVE  p = Len(emitted') /\ p > Len(emitted) /\ emitted'[p] = e
    BY <1>1, <2>1, <2>2
  <2> QED BY <1>3, <2>1, <2>2 DEF Adds
<1> QED BY <1>2, <1>4, <1>5

LEMMA PlainSequences ==
  /\ <<>> \in Seq(Event) /\ Plain(<<>>)
  /\ Preamble \in Seq(Event) /\ Plain(Preamble)
  /\ \A e \in Event : ~Opening(e) /\ ~Stopping(e) => <<e>> \in Seq(Event) /\ Plain(<<e>>)
<1>1. <<>> \in Seq(Event) /\ Plain(<<>>)
  <2>1. 1..Len(<<>>) = {} /\ <<>> \in Seq(Event)
    OBVIOUS
  <2> QED BY <2>1 DEF Plain
<1>2. \A e \in Event : ~Opening(e) /\ ~Stopping(e) => <<e>> \in Seq(Event) /\ Plain(<<e>>)
  BY Singleton DEF Plain
<1>3. Created \in Event /\ ~Opening(Created) /\ ~Stopping(Created)
  BY ProviderEvents DEF Opening, Stopping
<1> QED BY <1>1, <1>2, <1>3, Zenon DEF Preamble

LEMMA HandleAdds ==
  ASSUME AggTypeOK, NEW e \in Event, Handle(e),
         e.type \in {"content_part_delta", "content_part_stop"} => items[e.index] # "absent"
  PROVE  Adds(e)
<1>0. emitted \in Seq(Event)
  BY DEF AggTypeOK
<1>1. CASE HandleMessageStart(e) \/ HandleError(e)
  <2>1. emitted' = emitted \o <<e>> /\ emitted \o <<>> = emitted
    BY <1>0, <1>1, JoinOne DEF HandleMessageStart, HandleError
  <2>2. emitted' = (emitted \o <<>>) \o <<e>>
    BY <2>1
  <2> QED BY <1>0, <2>2, AddsPlain, PlainSequences
<1>2. CASE HandleContentStart(e) \/ HandleMessageDelta(e)
  <2>1. emitted' = (emitted \o Preamble) \o <<e>>
    BY <1>2 DEF HandleContentStart, HandleMessageDelta
  <2> QED BY <1>0, <2>1, AddsPlain, PlainSequences
<1>3. CASE \/ e.type = "content_part_delta" /\ HandleContentDelta(e)
           \/ e.type = "content_part_stop" /\ HandleContentStop(e)
  <2>1. items[e.index] # "absent"
    BY <1>3
  <2>2. \E k : emitted' = ((emitted \o Preamble) \o AddedFirst(e.index, k)) \o <<e>>
    BY <1>3 DEF HandleContentDelta, HandleContentStop
  <2>3. emitted' = ((emitted \o Preamble) \o <<>>) \o <<e>>
    BY <2>1, <2>2 DEF AddedFirst
  <2>4. emitted \o Preamble \in Seq(Event)
    BY <1>0, PlainSequences, Concatenation
  <2>5. (emitted \o Preamble) \o <<>> = emitted \o Preamble
    BY <2>4, JoinOne
  <2>6. emitted' = (emitted \o Preamble) \o <<e>>
    BY <2>3, <2>5
  <2> QED BY <1>0, <2>6, AddsPlain, PlainSequences
<1>4. CASE HandleDone
  <2>1. emitted' = emitted \o Preamble
    BY <1>4 DEF HandleDone
  <2> QED BY <1>0, <2>1, AddsPlain, PlainSequences
<1> QED BY <1>1, <1>2, <1>3, <1>4 DEF Handle

\* What a handler does to the items.
LEMMA HandleItems ==
  ASSUME AggTypeOK, NEW e \in Event, Handle(e),
         e.type \in {"content_part_delta", "content_part_stop"} =>
           items[e.index] \notin {"absent", "unknown"},
         e.type = "content_part_start" => items[e.index] = "absent"
  PROVE  /\ e.type = "content_part_start" => items' = [items EXCEPT ![e.index] = e.kind]
         /\ e.type # "content_part_start" => items' = items
<1>0. /\ items \in [Indices -> Kinds \cup {"unknown", "absent"}] /\ e.index \in Indices
      /\ items' = items \/ \E k : EnsureItem(e.index, k)
  BY WordsTyped DEF AggTypeOK, Handle, HandleMessageStart, HandleContentStart, HandleContentDelta,
     HandleContentStop, HandleMessageDelta, HandleError, HandleDone
<1>1. CASE e.type = "content_part_start"
  <2>1. EnsureItem(e.index, e.kind)
    BY <1>1 DEF Handle, HandleContentStart
  <2> QED BY <1>0, <1>1, <2>1 DEF EnsureItem
<1>2. CASE e.type \in {"content_part_delta", "content_part_stop"}
  <2>1. items[e.index] \notin {"absent", "unknown"}
    BY <1>2
  <2> QED BY <1>0, <1>2, <2>1 DEF EnsureItem
<1>3. CASE e.type \notin {"content_part_start", "content_part_delta", "content_part_stop"}
  BY <1>3, HandlerFrame
<1> QED BY <1>1, <1>2, <1>3

\* What the next step adds to what has been emitted.
LEMMA StepAdds ==
  ASSUME AggTypeOK, AggInv, ConvInv, [Next]_vars, ItemsFollow, DecodedFollow
  PROVE  /\ \A i \in Indices : items[i] # "absent" => items'[i] = items[i]
         /\ \E e \in Event :
              /\ Adds(e)
              /\ e.type = "content_part_start" => items[e.index] = "absent"
              /\ Stopping(e) => e.index \notin stopped
              /\ Opening(e) => Class(e.kind) = Class(items'[e.index])
<1>0. /\ emitted \in Seq(Event) /\ items \in [Indices -> Kinds \cup {"unknown", "absent"}]
      /\ Created \in Event /\ ~Opening(Created) /\ ~Stopping(Created)
      /\ Created.type # "content_part_start"
  BY ProviderEvents DEF AggTypeOK, Opening, Stopping
<1> DEFINE Fits(e) == /\ e.type = "content_part_start" => items[e.index] = "absent"
                      /\ Stopping(e) => e.index \notin stopped
                      /\ Opening(e) => Class(e.kind) = Class(items'[e.index])
<1>c. Fits(Created)
  BY <1>0
<1>s. SUFFICES /\ \A i \in Indices : items[i] # "absent" => items'[i] = items[i]
               /\ \E e \in Event : Adds(e) /\ Fits(e)
  OBVIOUS
<1> HIDE DEF Fits
<1>p. ASSUME NEW a \in Seq(Event), Plain(a), emitted' = emitted \o a
      PROVE  \E e \in Event : Adds(e) /\ Fits(e)
  <2>1. Adds(Created)
    BY <1>0, <1>p, AddsPlain
  <2> QED BY <1>0, <1>c, <2>1
<1>n. ASSUME emitted' = emitted PROVE \E e \in Event : Adds(e) /\ Fits(e)
  <2>1. emitted' = emitted \o <<>>
    BY <1>0, <1>n
  <2> QED BY <2>1, <1>p, PlainSequences
<1>1. CASE Provider \/ WriteNext \/ UNCHANGED vars
  <2>1. emitted' = emitted /\ items' = items
    BY <1>1, ProviderFrame DEF WriteNext, vars, aggVars
  <2> QED BY <2>1, <1>n
<1>2. CASE EndOfStream
  <2>1. items' = items /\ (emitted' = emitted \/ HandleDone)
    BY <1>2, EndFrame DEF EndOfStream
  <2>2. CASE HandleDone
    <3>1. emitted' = emitted \o Preamble
      BY <2>2 DEF HandleDone
    <3> QED BY <2>1, <3>1, <1>p, PlainSequences
  <2> QED BY <2>1, <2>2, <1>n
<1>3. CASE Aggregate
  <2> DEFINE e == Head(decoded)
  <2>1. /\ decoded # <<>> /\ ~finishing /\ ProcessIREvent(e) /\ e = decoded[1]
    BY <1>3, NextDecoded DEF Aggregate, ConvInv
  <2>2. /\ e \in Event /\ e.index \in Indices /\ EventFollows(e)
        /\ e.type = "content_part_start" => items[e.index] = "absent"
        /\ e.type = "content_part_delta" => items[e.index] # "absent"
        /\ Stopping(e) => items[e.index] # "absent" /\ (Live => e.index \notin stopped)
    BY <2>1, HeadPlace
  <2> HIDE DEF e
  <2>3. CASE doneSent
    <3>1. emitted' = emitted /\ items' = items
      BY <2>1, <2>3 DEF ProcessIREvent, aggVars
    <3> QED BY <3>1, <1>n
  <2>4. CASE ~doneSent
    <3>1. Handle(e) /\ Live
      BY <2>1, <2>4 DEF ProcessIREvent, Live
    <3>2. \A i \in Indices : items[i] # "absent" => items[i] \in Kinds /\ Class(items[i]) = ClassOf(i)
      BY DEF ItemsFollow
    <3>3. e.type \in {"content_part_delta", "content_part_stop"} =>
            /\ items[e.index] # "absent"
            /\ items[e.index] \notin {"absent", "unknown"}
      BY <2>2, <3>2 DEF Kinds, Stopping
    <3>4. Adds(e)
      BY <2>2, <3>1, <3>3, HandleAdds
    <3>5. /\ e.type = "content_part_start" => items' = [items EXCEPT ![e.index] = e.kind]
          /\ e.type # "content_part_start" => items' = items
      BY <2>2, <3>1, <3>3, HandleItems
    <3>6. \A i \in Indices : items[i] # "absent" => items'[i] = items[i]
      BY <1>0, <2>2, <3>5
    <3>7. Opening(e) => Class(e.kind) = Class(items'[e.index])
      <4>1. CASE e.type = "content_part_start"
        <5>1. items'[e.index] = e.kind
          BY <1>0, <2>2, <3>5, <4>1
        <5> QED BY <5>1
      <4>2. CASE e.type = "content_part_delta"
        <5>1. items'[e.index] = items[e.index] /\ Class(items[e.index]) = ClassOf(e.index)
          BY <2>2, <3>2, <3>5, <4>2
        <5>2. Class(e.kind) = ClassOf(e.index)
          BY <2>2, <4>2 DEF EventFollows, Opening
        <5> QED BY <5>1, <5>2
      <4> QED BY <4>1, <4>2 DEF Opening
    <3>8. Fits(e)
      BY <2>2, <3>1, <3>7 DEF Fits
    <3> QED BY <2>2, <3>4, <3>6, <3>8
  <2> QED BY <2>3, <2>4
<1>4. CASE CloseItem
  <2>1. PICK i \in Indices : i \notin stopped /\ emitted' = Append(emitted, Stop(i))
    BY <1>4 DEF CloseItem, OpenItems
  <2>2. /\ Stop(i) \in Event /\ Stop(i).type = "content_part_stop" /\ Stop(i).index = i
    BY ProviderEvents
  <2>3. emitted' = (emitted \o <<>>) \o <<Stop(i)>>
    <3>1. Append(emitted, Stop(i)) = emitted \o <<Stop(i)>> /\ emitted \o <<>> = emitted
      BY <1>0, <2>2, JoinOne
    <3> QED BY <2>1, <3>1
  <2>4. Adds(Stop(i))
    BY <1>0, <2>2, <2>3, AddsPlain, PlainSequences
  <2>5. Fits(Stop(i))
    BY <2>1, <2>2 DEF Fits, Opening
  <2>6. items' = items
    BY <1>4 DEF CloseItem
  <2> QED BY <2>2, <2>4, <2>5, <2>6
<1>5. CASE SendDone
  <2> DEFINE md == [Bare("message_delta", 0, "unknown") EXCEPT !.stop = stopReason,
                                                               !.usage = usage]
             dn == [Bare("done", 0, "unknown") EXCEPT !.usage = usage]
  <2>1. md \in Event /\ dn \in Event
    BY MadeUpEvents DEF AggTypeOK
  <2>2. md.type = "message_delta" /\ dn.type = "done"
    BY DEF Bare
  <2>3. emitted' = emitted \o <<md, dn>> /\ items' = items
    BY <1>5 DEF SendDone
  <2> HIDE DEF md, dn
  <2>4. <<md>> \in Seq(Event) /\ Plain(<<md>>)
    BY <2>1, <2>2, PlainSequences DEF Opening, Stopping
  <2>5. \A x, y \in Event : (emitted \o <<x>>) \o <<y>> = emitted \o <<x, y>>
    BY <1>0, EventsJoined
  <2>6. emitted' = (emitted \o <<md>>) \o <<dn>>
    BY <2>1, <2>3, <2>5
  <2>7. Adds(dn)
    BY <1>0, <2>1, <2>4, <2>6, AddsPlain
  <2>8. Fits(dn)
    BY <2>2 DEF Fits, Opening, Stopping
  <2> QED BY <2>1, <2>3, <2>7, <2>8
<1> QED
  BY <1>1, <1>2, <1>3, <1>4, <1>5 DEF Next, Handler, Finishes

\* No item is started or stopped twice, and its deltas are of its class.
LEMMA FramesNext ==
  ASSUME AggTypeOK, AggInv, ConvInv, [Next]_vars, ItemsFollow, DecodedFollow,
         OneStart, OneStop, ClassesAgree
  PROVE  OneStart' /\ OneStop' /\ ClassesAgree'
<1>0. /\ emitted \in Seq(Event) /\ \A p \in 1..Len(emitted) : emitted[p].index \in Indices
  <2>1. emitted \in Seq(Event) /\ \A p \in 1..Len(emitted) : emitted[p] \in Event
    BY DEF AggTypeOK
  <2>2. \A e \in Event : e.index \in Indices
    BY WordsTyped
  <2> QED BY <2>1, <2>2
<1>1. \A i \in Indices : items[i] # "absent" => items'[i] = items[i]
  BY StepAdds
<1>2. PICK e \in Event :
        /\ Adds(e)
        /\ e.type = "content_part_start" => items[e.index] = "absent"
        /\ Stopping(e) => e.index \notin stopped
        /\ Opening(e) => Class(e.kind) = Class(items'[e.index])
  BY StepAdds
<1>3. \A p \in 1..Len(emitted) :
        /\ emitted[p].type = "content_part_start" => items[emitted[p].index] # "absent"
        /\ Stopping(emitted[p]) => emitted[p].index \in stopped
  BY <1>0 DEF AggInv, OrderInv, ItemsAreStarted, StopsAreRecorded, IsStart, Stopping
<1>4. OneStart'
  <2> SUFFICES ASSUME NEW p \in 1..Len(emitted'), NEW q \in 1..Len(emitted'),
                      emitted'[p].type = "content_part_start",
                      emitted'[q].type = "content_part_start",
                      emitted'[p].index = emitted'[q].index
               PROVE  p = q
    BY DEF OneStart
  <2>1. Opening(emitted'[p]) /\ Opening(emitted'[q])
    BY DEF Opening
  <2>2. /\ \/ p \in 1..Len(emitted) /\ emitted'[p] = emitted[p]
           \/ p = Len(emitted') /\ emitted'[p] = e
        /\ \/ q \in 1..Len(emitted) /\ emitted'[q] = emitted[q]
           \/ q = Len(emitted') /\ emitted'[q] = e
    BY <1>2, <2>1 DEF Adds
  <2> QED BY <1>2, <1>3, <2>2 DEF OneStart
<1>5. OneStop'
  <2> SUFFICES ASSUME NEW p \in 1..Len(emitted'), NEW q \in 1..Len(emitted'),
                      Stopping(emitted'[p]), Stopping(emitted'[q]),
                      emitted'[p].index = emitted'[q].index
               PROVE  p = q
    BY DEF OneStop, Stopping
  <2>2. /\ \/ p \in 1..Len(emitted) /\ emitted'[p] = emitted[p]
           \/ p = Len(emitted') /\ emitted'[p] = e
        /\ \/ q \in 1..Len(emitted) /\ emitted'[q] = emitted[q]
           \/ q = Len(emitted') /\ emitted'[q] = e
    BY <1>2 DEF Adds
  <2> QED BY <1>2, <1>3, <2>2 DEF OneStop
<1>6. ClassesAgree'
  <2> SUFFICES ASSUME NEW p \in 1..Len(emitted'), Opening(emitted'[p])
               PROVE  Class(emitted'[p].kind) = Class(items'[emitted'[p].index])
    BY DEF ClassesAgree, Class, Opening
  <2>1. CASE p \in 1..Len(emitted) /\ emitted'[p] = emitted[p]
    <3>1. items[emitted[p].index] # "absent"
      <4>1. CASE emitted[p].type = "content_part_start"
        BY <1>3, <2>1, <4>1
      <4>2. CASE emitted[p].type = "content_part_delta"
        <5>1. PICK q \in 1..(p - 1) : /\ emitted[q].type = "content_part_start"
                                      /\ emitted[q].index = emitted[p].index
          BY <2>1, <4>2 DEF AggInv, OrderInv, DeltasInsideItems
        <5>2. q \in 1..Len(emitted)
          BY <1>0, <2>1, <5>1
        <5> QED BY <1>3, <5>1, <5>2
      <4> QED BY <2>1, <4>1, <4>2 DEF Opening
    <3>2. emitted[p].index \in Indices
      BY <1>0, <2>1
    <3> QED BY <1>1, <2>1, <3>1, <3>2 DEF ClassesAgree
  <2>2. CASE emitted'[p] = e
    BY <1>2, <2>2
  <2> QED BY <1>2, <2>1, <2>2 DEF Adds
<1> QED BY <1>4, <1>5, <1>6

LEMMA FollowsStays ==
  ASSUME Upstream' = Upstream, answer'.items = answer.items, items' = items, decoded' = decoded,
         ItemsFollow, DecodedFollow
  PROVE  ItemsFollow' /\ DecodedFollow'
<1>1. \A i : (Opened(i)' <=> Opened(i)) /\ ClassOf(i)' = ClassOf(i)
  BY DEF Opened, ClassOf, Items
<1>2. \A i : PendingStart(i)' <=> PendingStart(i)
  BY DEF PendingStart
<1>3. ItemsFollow'
  BY <1>1, <1>2 DEF ItemsFollow
<1>4. DecodedFollow'
  <2> SUFFICES ASSUME NEW p \in 1..Len(decoded), NEW e, e = decoded[p]
               PROVE  EventFollows(e)'
    BY DEF DecodedFollow, EventFollows
  <2>1. EventFollows(e)
    BY DEF DecodedFollow
  <2> QED BY <1>1, <2>1 DEF EventFollows
<1> QED BY <1>3, <1>4

\* The items follow the answer: an item is added when its start is processed.
LEMMA FollowNext ==
  ASSUME AggTypeOK, AggInv, ConvInv, [Next]_vars, ItemsFollow, DecodedFollow, Upstream # "chat"
  PROVE  ItemsFollow' /\ DecodedFollow'
<1>0. /\ ConvTypeOK /\ items \in [Indices -> Kinds \cup {"unknown", "absent"}]
      /\ answer \in [phase: Phases, items: Seq(Kinds), open: BOOLEAN,
                     deltas: Seq(Kinds), stop: StopReasons]
  BY DEF ConvInv, ConvTypeOK, AggTypeOK
<1>1. CASE Provider
  <2>1. items' = items /\ decoded = <<>>
    BY <1>1, ProviderFrame DEF aggVars, Idle
  <2>2. \A i : ~PendingStart(i)
    <3>1. 1..Len(<<>>) = {}
      OBVIOUS
    <3> QED BY <2>1, <3>1 DEF PendingStart
  <2>3. /\ \A i \in Indices : /\ Opened(i)' <=> (Opened(i) \/ PendingStart(i)')
                              /\ PendingStart(i)' => ~Opened(i)
                              /\ Opened(i) => ClassOf(i)' = ClassOf(i)
        /\ \A p \in 1..Len(decoded') : \A e : e = decoded'[p] => EventFollows(e)'
    BY <1>1, ChunkFrames
  <2>4. ItemsFollow'
    BY <2>1, <2>2, <2>3 DEF ItemsFollow
  <2>5. DecodedFollow'
    <3> SUFFICES ASSUME NEW p \in 1..Len(decoded'), NEW e, e = decoded'[p]
                 PROVE  EventFollows(e)'
      BY DEF DecodedFollow, EventFollows
    <3> QED BY <2>3
  <2> QED BY <2>4, <2>5
<1>2. CASE EndOfStream
  <2>1. /\ items' = items /\ decoded' = decoded /\ Upstream' = Upstream
        /\ answer'.items = answer.items
    BY <1>0, <1>2, EndFrame DEF EndOfStream, Upstream
  <2> QED BY <2>1, FollowsStays
<1>3. CASE Aggregate
  <2> DEFINE e == Head(decoded)
  <2>1. /\ UNCHANGED <<answer, route>> /\ decoded # <<>> /\ ~finishing
        /\ ProcessIREvent(e) /\ e = decoded[1]
        /\ Len(decoded) \in Nat /\ Len(decoded') = Len(decoded) - 1
        /\ \A p \in 1..Len(decoded') :
             p + 1 \in 1..Len(decoded) /\ decoded'[p] = decoded[p + 1]
    BY <1>0, <1>3, NextDecoded DEF Aggregate
  <2>2. /\ e \in Event /\ e.index \in Indices /\ EventFollows(e)
        /\ e.type = "content_part_start" => items[e.index] = "absent"
        /\ e.type = "content_part_delta" => items[e.index] # "absent"
        /\ Stopping(e) => items[e.index] # "absent"
        /\ \A i \in Indices : PendingStart(i) <=> IsStart(e, i)
    BY <2>1, HeadPlace
  <2>3. \A i : (Opened(i)' <=> Opened(i)) /\ ClassOf(i)' = ClassOf(i)
    BY <2>1 DEF Opened, ClassOf, Items, Upstream
  <2> HIDE DEF e
  <2>4. \A i : ~PendingStart(i)'
    <3> SUFFICES ASSUME NEW i, NEW p \in 1..Len(decoded'), IsStart(decoded'[p], i) PROVE FALSE
      BY DEF PendingStart
    <3>1. p + 1 \in 1..Len(decoded) /\ Opening(decoded[p + 1])
      BY <2>1 DEF Opening, IsStart
    <3>2. Len(decoded) = 1
      BY <3>1 DEF ConvInv, OpensAlone
    <3>3. p + 1 > 1 /\ p + 1 <= Len(decoded)
      BY <2>1, <3>1
    <3> QED BY <3>2, <3>3
  <2>5. DecodedFollow'
    <3> SUFFICES ASSUME NEW p \in 1..Len(decoded'), NEW x, x = decoded'[p]
                 PROVE  EventFollows(x)'
      BY DEF DecodedFollow, EventFollows
    <3>1. EventFollows(x)
      BY <2>1 DEF DecodedFollow
    <3> QED BY <2>3, <3>1 DEF EventFollows
  <2>6. ASSUME items' = items, e.type # "content_part_start" PROVE ItemsFollow'
    <3>1. \A i \in Indices : ~PendingStart(i)
      BY <2>2, <2>6 DEF IsStart
    <3> QED BY <2>3, <2>4, <2>6, <3>1 DEF ItemsFollow
  <2>7. CASE doneSent
    <3>1. items' = items
      BY <2>1, <2>7 DEF ProcessIREvent, aggVars
    <3>2. ~Opening(e)
      <4>1. 1 \in 1..Len(decoded)
        BY <1>0, <2>1, NextDecoded
      <4> QED BY <2>1, <2>7, <4>1 DEF ConvInv, OpensAlone, NothingEnded, Begun, Live
    <3> QED BY <2>5, <2>6, <3>1, <3>2 DEF Opening
  <2>8. CASE ~doneSent
    <3>1. Handle(e)
      BY <2>1, <2>8 DEF ProcessIREvent
    <3>2. e.type \in {"content_part_delta", "content_part_stop"} =>
            items[e.index] \notin {"absent", "unknown"}
      BY <2>2 DEF ItemsFollow, Kinds, Stopping
    <3>3. /\ e.type = "content_part_start" => items' = [items EXCEPT ![e.index] = e.kind]
          /\ e.type # "content_part_start" => items' = items
      BY <2>2, <3>1, <3>2, HandleItems
    <3>4. CASE e.type = "content_part_start"
      <4>1. /\ items'[e.index] = e.kind /\ \A i \in Indices : i # e.index => items'[i] = items[i]
        BY <1>0, <2>2, <3>3, <3>4
      <4>2. e.kind \in Kinds /\ Class(e.kind) = ClassOf(e.index) /\ Opened(e.index)
        BY <2>2, <3>4 DEF EventFollows, Opening
      <4>3. \A i \in Indices : PendingStart(i) <=> i = e.index
        BY <2>2, <3>4 DEF IsStart
      <4>4. e.kind # "absent"
        BY <4>2 DEF Kinds
      <4>5. ItemsFollow'
        BY <2>3, <2>4, <4>1, <4>2, <4>3, <4>4 DEF ItemsFollow
      <4> QED BY <2>5, <4>5
    <3> QED BY <2>5, <2>6, <3>3, <3>4
  <2> QED BY <2>7, <2>8
<1>4. CASE WriteNext \/ Finishes \/ UNCHANGED vars
  <2>1. UNCHANGED <<items, decoded, answer, route>>
    BY <1>4, EndFrame DEF WriteNext, vars, aggVars, convVars
  <2> QED BY <2>1, FollowsStays DEF Upstream
<1> QED
  BY <1>1, <1>2, <1>3, <1>4 DEF Next, Handler

LEMMA FramesInvInit == Init => FramesInv
<1> SUFFICES ASSUME Init PROVE FramesInv
  OBVIOUS
<1>1. /\ decoded = <<>> /\ emitted = <<>> /\ answer.items = <<>>
      /\ items = [i \in Indices |-> "absent"]
  BY DEF Init, AggInit
<1>2. 1..Len(<<>>) = {} /\ Len(<<>>) = 0
  OBVIOUS
<1>3. \A i \in Indices : ~Opened(i)
  <2>1. Items = 0
    BY <1>1, <1>2 DEF Items
  <2>2. \A i \in Nat : ~(i < 0)
    OBVIOUS
  <2> QED BY <2>1, <2>2, IndicesAssumption DEF Opened
<1>4. ItemsFollow
  BY <1>1, <1>3 DEF ItemsFollow
<1> QED
  BY <1>1, <1>2, <1>4 DEF FramesInv, DecodedFollow, OneStart, OneStop, ClassesAgree

(* Of the answers of the protocols that frame their items, the aggregator     *)
(* starts and stops no item twice, and sends no delta of another class.        *)
THEOREM ItemsAreFramedOnce == Spec => []FramesInv
<1>1. AggTypeOK /\ AggInv /\ ConvInv /\ FramesInv /\ [Next]_vars => FramesInv'
  <2> SUFFICES ASSUME AggTypeOK, AggInv, ConvInv, FramesInv, [Next]_vars, Upstream' # "chat"
               PROVE  (ItemsFollow /\ DecodedFollow /\ OneStart /\ OneStop /\ ClassesAgree)'
    BY DEF FramesInv
  <2>1. Upstream' = Upstream
    BY OtherSteps, WriteStep DEF Upstream
  <2>2. ItemsFollow /\ DecodedFollow /\ OneStart /\ OneStop /\ ClassesAgree
    BY <2>1 DEF FramesInv
  <2> QED BY <2>1, <2>2, FollowNext, FramesNext
<1> QED BY <1>1, FramesInvInit, ConversionInvariant, PTL DEF Spec

-----------------------------------------------------------------------------
(* The client's view of an item.                                             *)

\* A payload that an event is framed by.
Frames(d, e) ==
  \/ /\ e.type = "content_part_start" /\ d.type = "start"
     /\ d.index = e.index /\ Class(d.kind) = Class(e.kind)
  \/ /\ e.type = "content_part_delta" /\ d.type = "delta"
     /\ d.index = e.index /\ Class(d.kind) = Class(e.kind)
  \/ e.type = "content_part_stop" /\ d.type = "stop" /\ d.index = e.index
  \/ ~Opening(e) /\ ~Stopping(e) /\ d.type \notin Framing

\* An adapter that knows the item writes one payload for one event.
LEMMA EncodeFrames ==
  ASSUME ConvTypeOK, NEW e \in Event, Entry \in {"anthropic", "responses"},
         e.type = "content_part_delta" =>
           e.index \in IF Class(e.kind) = "text" THEN enc.text ELSE enc.tool,
         e.type = "content_part_stop" => enc.last[e.index] # "absent"
  PROVE  \/ Encode(e) = <<>> /\ ~Opening(e) /\ ~Stopping(e)
         \/ \E d \in Payloads : Encode(e) = <<d>> /\ Frames(d, e)
<1> DEFINE T == Kinds \cup {"unknown", ""}
<1>0. /\ 0 \in Indices /\ e.index \in Indices /\ e.kind \in T
      /\ e.stop \in StopReasons /\ "" \in StopReasons /\ "" \in T
      /\ Class(e.kind) \in T /\ Class(Class(e.kind)) = Class(e.kind)
      /\ Ended(e.stop) \in StopReasons /\ Completed(enc.stop) \in StopReasons
      /\ enc.last[e.index] # "absent" => enc.last[e.index] \in T
      /\ e.type \in EventTypes
  <2>1. /\ enc.stop \in StopReasons /\ enc.last[e.index] \in {"absent", "text", "tool_call"}
        /\ e.index \in Indices /\ e.kind \in Kinds \cup {"unknown"}
    BY WordsTyped DEF ConvTypeOK
  <2>2. Class(e.kind) \in Kinds /\ Class(Class(e.kind)) = Class(e.kind)
    BY DEF Class, Kinds
  <2>3. /\ e.stop \in StopReasons /\ e.type \in EventTypes
        /\ Ended(e.stop) \in StopReasons /\ Completed(enc.stop) \in StopReasons
    BY <2>1, WordsTyped
  <2>4. enc.last[e.index] # "absent" => enc.last[e.index] \in T
    <3>1. {"text", "tool_call"} \subseteq T
      BY DEF Kinds
    <3> HIDE DEF T
    <3> QED BY <2>1, <3>1
  <2>5. /\ 0 \in Indices /\ "" \in StopReasons /\ "" \in T
        /\ e.kind \in T /\ Class(e.kind) \in T
    BY <2>1, <2>2, WordsTyped
  <2> QED BY <2>1, <2>2, <2>3, <2>4, <2>5
<1>i. 0 \in Indices /\ e.index \in Indices /\ "" \in StopReasons /\ "" \in T /\ Class(e.kind) \in T
  BY <1>0
<1> HIDE DEF T
<1>f. \A type \in {"begin", "finish", "done", "error"} : type \notin Framing
  BY DEF Framing
<1>1. CASE e.type = "content_part_start"
  <2>1. \/ Encode(e) = <<Payload("start", e.index, e.kind, "")>>
        \/ Encode(e) = <<Payload("start", e.index, Class(e.kind), "")>>
    BY <1>1 DEF Encode, EncodeAnthropic, EncodeResponses
  <2>2. \A k \in T : Class(k) = Class(e.kind) =>
          /\ Payload("start", e.index, k, "") \in Payloads
          /\ Frames(Payload("start", e.index, k, ""), e)
    <3> SUFFICES ASSUME NEW k \in T, Class(k) = Class(e.kind)
                 PROVE  /\ Payload("start", e.index, k, "") \in Payloads
                        /\ Frames(Payload("start", e.index, k, ""), e)
      OBVIOUS
    <3> DEFINE d == Payload("start", e.index, k, "")
    <3>1. d \in Payloads /\ d.type = "start" /\ d.index = e.index /\ d.kind = k
      BY <1>i DEF Payload, Payloads, T
    <3> HIDE DEF d
    <3>2. Frames(d, e)
      BY <1>1, <3>1 DEF Frames
    <3> QED BY <3>1, <3>2 DEF d
  <2> QED BY <1>0, <2>1, <2>2
<1>2. CASE e.type = "content_part_delta"
  <2>1. Encode(e) = <<Payload("delta", e.index, Class(e.kind), "")>>
    <3>1. CASE Entry = "responses"
      BY <1>2, <3>1 DEF Encode, EncodeResponses
    <3>2. CASE Entry = "anthropic"
      <4> DEFINE d == <<Payload("delta", e.index, Class(e.kind), "")>>
                 started == IF Class(e.kind) = "tool_call" THEN enc.tool ELSE enc.text
      <4>1. e.index \in started
        BY <1>2 DEF Class
      <4>2. Encode(e) = (IF e.index \in started THEN <<>>
                         ELSE <<Payload("start", e.index, Class(e.kind), "")>>) \o d
        BY <1>2, <3>2 DEF Encode, EncodeAnthropic
      <4>3. Encode(e) = <<>> \o d
        BY <4>1, <4>2
      <4>4. d \in Seq(Payloads)
        <5>1. Payload("delta", e.index, Class(e.kind), "") \in Payloads
          BY <1>i DEF Payload, Payloads, T
        <5> QED BY <5>1, Singleton
      <4> HIDE DEF d
      <4>5. <<>> \o d = d
        BY <4>4
      <4> QED BY <4>3, <4>5 DEF d
    <3> QED BY <3>1, <3>2
  <2>2. /\ Payload("delta", e.index, Class(e.kind), "") \in Payloads
        /\ Frames(Payload("delta", e.index, Class(e.kind), ""), e)
    <3> DEFINE d == Payload("delta", e.index, Class(e.kind), "")
    <3>1. d \in Payloads /\ d.type = "delta" /\ d.index = e.index /\ d.kind = Class(e.kind)
      BY <1>i DEF Payload, Payloads, T
    <3> HIDE DEF d
    <3>2. Frames(d, e)
      BY <1>0, <1>2, <3>1 DEF Frames
    <3> QED BY <3>1, <3>2 DEF d
  <2> QED BY <2>1, <2>2
<1>3. CASE e.type = "content_part_stop"
  <2>1. \/ Encode(e) = <<Payload("stop", e.index, "", "")>>
        \/ Encode(e) = <<Payload("stop", e.index, enc.last[e.index], "")>>
    BY <1>3 DEF Encode, EncodeAnthropic, EncodeResponses
  <2>2. \A k \in T : /\ Payload("stop", e.index, k, "") \in Payloads
                     /\ Frames(Payload("stop", e.index, k, ""), e)
    <3> SUFFICES ASSUME NEW k \in T
                 PROVE  /\ Payload("stop", e.index, k, "") \in Payloads
                        /\ Frames(Payload("stop", e.index, k, ""), e)
      OBVIOUS
    <3> DEFINE d == Payload("stop", e.index, k, "")
    <3>1. d \in Payloads /\ d.type = "stop" /\ d.index = e.index
      BY <1>i DEF Payload, Payloads, T
    <3> HIDE DEF d
    <3>2. Frames(d, e)
      BY <1>3, <3>1 DEF Frames
    <3> QED BY <3>1, <3>2 DEF d
  <2> QED BY <1>0, <1>3, <2>1, <2>2
<1>4. CASE e.type \notin {"content_part_start", "content_part_delta", "content_part_stop"}
  <2>1. ~Opening(e) /\ ~Stopping(e)
    BY <1>4 DEF Opening, Stopping
  <2>2. \/ Encode(e) = <<>>
        \/ \E type \in {"begin", "finish", "done", "error"}, s \in StopReasons :
             Encode(e) = <<Payload(type, 0, "", s)>>
    BY <1>0, <1>4 DEF Encode, EncodeAnthropic, EncodeResponses, EventTypes
  <2>3. \A type \in {"begin", "finish", "done", "error"}, s \in StopReasons :
          /\ Payload(type, 0, "", s) \in Payloads /\ Frames(Payload(type, 0, "", s), e)
    <3> SUFFICES ASSUME NEW type \in {"begin", "finish", "done", "error"}, NEW s \in StopReasons
                 PROVE  /\ Payload(type, 0, "", s) \in Payloads
                        /\ Frames(Payload(type, 0, "", s), e)
      OBVIOUS
    <3> DEFINE d == Payload(type, 0, "", s)
    <3>1. d \in Payloads /\ d.type = type
      BY <1>i DEF Payload, Payloads, T
    <3> HIDE DEF d
    <3>2. Frames(d, e)
      BY <1>f, <2>1, <3>1 DEF Frames
    <3> QED BY <3>1, <3>2 DEF d
  <2> QED BY <2>1, <2>2, <2>3, Zenon
<1> QED BY <1>1, <1>2, <1>3, <1>4

LEMMA TrackedFrames ==
  ASSUME ConvTypeOK, NEW e \in Event, enc' = Tracked(e), NEW i \in Indices, NEW kind
  PROVE  /\ Noted(i, kind) => Noted(i, kind)'
         /\ enc.last[i] # "absent" => enc'.last[i] # "absent"
         /\ IsStart(e, i) => enc'.last[i] # "absent"
         /\ IsStart(e, i) /\ Class(e.kind) = Class(kind) => Noted(i, kind)'
<1>0. /\ enc \in [text: SUBSET Indices, tool: SUBSET Indices,
                  last: [Indices -> {"absent", "text", "tool_call"}], stop: StopReasons]
      /\ e.index \in Indices
  BY WordsTyped DEF ConvTypeOK
<1>1. /\ enc.text \subseteq enc'.text /\ enc.tool \subseteq enc'.tool
      /\ e.type = "content_part_start" =>
           /\ e.kind = "tool_call" => e.index \in enc'.tool
           /\ e.kind # "tool_call" => e.index \in enc'.text
           /\ enc'.last = [enc.last EXCEPT ![e.index] = Class(e.kind)]
      /\ e.type # "content_part_start" => enc'.last = enc.last
  BY <1>0 DEF Tracked
<1>2. Class(e.kind) # "absent"
  BY DEF Class
<1>3. /\ enc.last[i] # "absent" => enc'.last[i] # "absent"
      /\ IsStart(e, i) => enc'.last[i] # "absent"
  BY <1>0, <1>1, <1>2 DEF IsStart
<1>4. Noted(i, kind) => Noted(i, kind)'
  BY <1>1 DEF Noted
<1>5. IsStart(e, i) /\ Class(e.kind) = Class(kind) => Noted(i, kind)'
  BY <1>1 DEF Noted, IsStart, Class
<1> QED BY <1>3, <1>4, <1>5

\* A payload more.
LEMMA OwnOne ==
  ASSUME NEW w \in Seq(Payloads), NEW d \in Payloads, NEW i
  PROVE  /\ OfItem(d, i) => OwnIn(w \o <<d>>, i) = OwnIn(w, i) \cup {Len(w) + 1}
         /\ ~OfItem(d, i) => OwnIn(w \o <<d>>, i) = OwnIn(w, i)
         /\ (w \o <<d>>)[Len(w) + 1] = d
<1> DEFINE v == w \o <<d>>
<1>1. /\ Len(w) \in Nat /\ Len(v) = Len(w) + 1 /\ v[Len(w) + 1] = d
      /\ \A p \in 1..Len(w) : v[p] = w[p]
  BY AddOne
<1> HIDE DEF v
<1>2. \A p \in OwnIn(w, i) : p \in 1..Len(w) /\ p < Len(w) + 1 /\ v[p] = w[p]
  BY <1>1 DEF OwnIn
<1>3. 1..Len(v) = 1..Len(w) \cup {Len(w) + 1}
  BY <1>1
<1>4. \A p \in 1..Len(v) : p \in OwnIn(v, i) <=>
        (p \in OwnIn(w, i) \/ (p = Len(w) + 1 /\ OfItem(d, i)))
  <2> SUFFICES ASSUME NEW p \in 1..Len(v)
               PROVE  p \in OwnIn(v, i) <=>
                        (p \in OwnIn(w, i) \/ (p = Len(w) + 1 /\ OfItem(d, i)))
    OBVIOUS
  <2>1. CASE p = Len(w) + 1
    BY <1>1, <1>2, <2>1 DEF OwnIn
  <2>2. CASE p # Len(w) + 1
    <3>1. p \in 1..Len(w)
      BY <1>3, <2>2
    <3> QED BY <1>1, <2>2, <3>1 DEF OwnIn
  <2> QED BY <2>1, <2>2
<1>5. OwnIn(v, i) \subseteq 1..Len(v) /\ OwnIn(w, i) \subseteq 1..Len(v)
      /\ Len(w) + 1 \in 1..Len(v)
  BY <1>1, <1>3 DEF OwnIn
<1>6. OfItem(d, i) => OwnIn(v, i) = OwnIn(w, i) \cup {Len(w) + 1}
  BY <1>4, <1>5
<1>7. ~OfItem(d, i) => OwnIn(v, i) = OwnIn(w, i)
  BY <1>4, <1>5
<1> QED BY <1>1, <1>2, <1>6, <1>7 DEF v

LEMMA OwnKept ==
  ASSUME NEW w \in Seq(Payloads), NEW d \in Payloads, NEW i, NEW p \in OwnIn(w, i)
  PROVE  p < Len(w) + 1 /\ (w \o <<d>>)[p] = w[p]
<1>1. p \in 1..Len(w) /\ Len(w) \in Nat
  BY DEF OwnIn
<1>2. (w \o <<d>>)[p] = w[p]
  BY <1>1, AddOne
<1> QED BY <1>1, <1>2

LEMMA ItemStarts ==
  ASSUME NEW w \in Seq(Payloads), NEW d \in Payloads, NEW i, NEW class,
         OwnIn(w, i) = {}, OfItem(d, i), Opens(d, i, class)
  PROVE  IsOpen(w \o <<d>>, i, class)
<1> DEFINE v == w \o <<d>>
<1>1. OwnIn(v, i) = {Len(w) + 1} /\ v[Len(w) + 1] = d
  BY OwnOne
<1> HIDE DEF v
<1>2. IsOpen(v, i, class)
  BY <1>1 DEF IsOpen
<1> QED BY <1>2 DEF v

LEMMA ItemGoesOn ==
  ASSUME NEW w \in Seq(Payloads), NEW d \in Payloads, NEW i, NEW class,
         IsOpen(w, i, class), OfItem(d, i), Carries(d, i, class)
  PROVE  IsOpen(w \o <<d>>, i, class)
<1> DEFINE v == w \o <<d>>
<1>1. /\ OwnIn(v, i) = OwnIn(w, i) \cup {Len(w) + 1} /\ v[Len(w) + 1] = d
      /\ \A p \in OwnIn(w, i) : p < Len(w) + 1 /\ v[p] = w[p]
  <2>1. OwnIn(v, i) = OwnIn(w, i) \cup {Len(w) + 1} /\ v[Len(w) + 1] = d
    BY OwnOne
  <2>2. \A p \in OwnIn(w, i) : p < Len(w) + 1 /\ v[p] = w[p]
    BY OwnKept
  <2> QED BY <2>1, <2>2, Zenon
<1> HIDE DEF v
<1>2. PICK f \in OwnIn(w, i) :
        /\ Opens(w[f], i, class)
        /\ \A p \in OwnIn(w, i) \ {f} : f < p /\ Carries(w[p], i, class)
  BY DEF IsOpen
<1>3. f \in OwnIn(v, i) /\ Opens(v[f], i, class)
  BY <1>1, <1>2
<1>4. \A p \in OwnIn(v, i) \ {f} : f < p /\ Carries(v[p], i, class)
  BY <1>1, <1>2
<1>5. IsOpen(v, i, class)
  BY <1>3, <1>4 DEF IsOpen
<1> QED BY <1>5 DEF v

LEMMA ItemStops ==
  ASSUME NEW w \in Seq(Payloads), NEW d \in Payloads, NEW i, NEW class,
         IsOpen(w, i, class), OfItem(d, i), Closes(d, i)
  PROVE  IsClosed(w \o <<d>>, i, class)
<1> DEFINE v == w \o <<d>>
           l == Len(w) + 1
<1>1. /\ OwnIn(v, i) = OwnIn(w, i) \cup {l} /\ v[l] = d
      /\ \A p \in OwnIn(w, i) : p < l /\ v[p] = w[p]
  <2>1. OwnIn(v, i) = OwnIn(w, i) \cup {l} /\ v[l] = d
    BY OwnOne
  <2>2. \A p \in OwnIn(w, i) : p < l /\ v[p] = w[p]
    BY OwnKept
  <2> QED BY <2>1, <2>2, Zenon
<1> HIDE DEF v, l
<1>2. PICK f \in OwnIn(w, i) :
        /\ Opens(w[f], i, class)
        /\ \A p \in OwnIn(w, i) \ {f} : f < p /\ Carries(w[p], i, class)
  BY DEF IsOpen
<1>3. /\ f \in OwnIn(v, i) /\ l \in OwnIn(v, i) /\ Opens(v[f], i, class)
      /\ Closes(v[l], i) /\ f < l
  BY <1>1, <1>2
<1>4. \A p \in OwnIn(v, i) \ {f, l} : f < p /\ p < l /\ Carries(v[p], i, class)
  BY <1>1, <1>2
<1>5. IsClosed(v, i, class)
  BY <1>3, <1>4 DEF IsClosed
<1> QED BY <1>5 DEF v

LEMMA ItemStays ==
  ASSUME NEW w \in Seq(Payloads), NEW d \in Payloads, NEW i, NEW class, ~OfItem(d, i)
  PROVE  /\ OwnIn(w \o <<d>>, i) = OwnIn(w, i)
         /\ IsOpen(w, i, class) => IsOpen(w \o <<d>>, i, class)
         /\ IsClosed(w, i, class) => IsClosed(w \o <<d>>, i, class)
<1> DEFINE v == w \o <<d>>
<1>1. OwnIn(v, i) = OwnIn(w, i) /\ \A p \in OwnIn(w, i) : v[p] = w[p]
  <2>1. OwnIn(v, i) = OwnIn(w, i)
    BY OwnOne
  <2>2. \A p \in OwnIn(w, i) : v[p] = w[p]
    BY OwnKept
  <2> QED BY <2>1, <2>2, Zenon
<1> HIDE DEF v
<1>2. IsOpen(w, i, class) => IsOpen(v, i, class)
  BY <1>1 DEF IsOpen
<1>3. IsClosed(w, i, class) => IsClosed(v, i, class)
  BY <1>1 DEF IsClosed
<1> QED BY <1>1, <1>2, <1>3 DEF v

\* What the client already knows of the item of the next event.
LEMMA FramedEvent ==
  ASSUME AggTypeOK, AggInv, ConvInv, OneStart, OneStop, ClassesAgree,
         encoded + 1 \in 1..Len(emitted)
  PROVE  LET e == emitted[encoded + 1]
         IN /\ e \in Event /\ e.index \in Indices
            /\ Opening(e) => Class(e.kind) = Class(items[e.index])
            /\ e.type = "content_part_start" => ~StartSent(e.index)
            /\ e.type \in {"content_part_delta", "content_part_stop"} =>
                 StartSent(e.index) /\ ~StopSent(e.index)
<1> DEFINE n == encoded + 1
           e == emitted[n]
<1>0. encoded \in Nat /\ n \in 1..Len(emitted) /\ n - 1 = encoded /\ Len(emitted) \in Nat
  BY DEF ConvInv, ConvTypeOK
<1>1. e \in Event
  <2>1. emitted \in Seq(Event)
    BY DEF AggTypeOK
  <2> QED BY <1>0, <2>1
<1>2. e.index \in Indices
  BY <1>1, WordsTyped
<1>3. \A p \in 1..encoded : p \in 1..Len(emitted) /\ p # n
  BY <1>0
<1> HIDE DEF n
<1>4. Opening(e) => Class(e.kind) = Class(items[e.index])
  BY <1>0 DEF ClassesAgree
<1>5. e.type = "content_part_start" => ~StartSent(e.index)
  BY <1>0, <1>3 DEF StartSent, IsStart, OneStart
<1>6. ASSUME e.type = "content_part_delta" PROVE StartSent(e.index) /\ ~StopSent(e.index)
  <2>1. /\ \E q \in 1..encoded : IsStart(emitted[q], e.index)
        /\ ~ \E q \in 1..encoded : IsStop(emitted[q], e.index)
    BY <1>0, <1>6 DEF AggInv, OrderInv, DeltasInsideItems, IsStart, IsStop
  <2> QED BY <2>1 DEF StartSent, StopSent
<1>7. ASSUME e.type = "content_part_stop" PROVE StartSent(e.index) /\ ~StopSent(e.index)
  <2>1. e.index \in stopped
    BY <1>0, <1>7 DEF AggInv, OrderInv, StopsAreRecorded
  <2>2. PICK q \in 1..Len(emitted) : IsStart(emitted[q], e.index)
    BY <1>2, <2>1 DEF AggInv, OrderInv, StoppedAreItems, ItemsAreStarted
  <2>3. PICK r \in (q + 1)..Len(emitted) : IsStop(emitted[r], e.index)
    BY <2>1, <2>2 DEF AggInv, OrderInv, StopFollowsStart, IsStart
  <2>4. r \in 1..Len(emitted) /\ q < r
    BY <1>0, <2>2, <2>3
  <2>5. r = n
    BY <1>0, <1>7, <2>3, <2>4 DEF OneStop, IsStop, Stopping
  <2>6. q \in 1..encoded
    BY <1>0, <2>4, <2>5
  <2>7. ~StopSent(e.index)
    BY <1>0, <1>3, <1>7 DEF StopSent, IsStop, OneStop, Stopping
  <2> QED BY <2>2, <2>6, <2>7 DEF StartSent
<1> QED BY <1>1, <1>2, <1>4, <1>5, <1>6, <1>7 DEF n

LEMMA SentNext ==
  ASSUME encoded \in Nat, emitted' = emitted, encoded' = encoded + 1, NEW i
  PROVE  /\ StartSent(i)' <=> (StartSent(i) \/ IsStart(emitted[encoded + 1], i))
         /\ StopSent(i)' <=> (StopSent(i) \/ IsStop(emitted[encoded + 1], i))
<1>1. \A p : p \in 1..(encoded + 1) <=> (p \in 1..encoded \/ p = encoded + 1)
  OBVIOUS
<1>2. StartSent(i)' <=> (StartSent(i) \/ IsStart(emitted[encoded + 1], i))
  BY <1>1 DEF StartSent, IsStart
<1>3. StopSent(i)' <=> (StopSent(i) \/ IsStop(emitted[encoded + 1], i))
  BY <1>1 DEF StopSent, IsStop
<1> QED BY <1>2, <1>3

\* The next event goes where the client expects it.
LEMMA FramedWrite ==
  ASSUME AggTypeOK, AggInv, ConvInv, OneStart, OneStop, ClassesAgree,
         Entry \in {"anthropic", "responses"}, \A i \in Indices : FramedAt(i),
         encoded + 1 \in 1..Len(emitted), UNCHANGED aggVars,
         written' = written \o Encode(emitted[encoded + 1]),
         enc' = Tracked(emitted[encoded + 1]), encoded' = encoded + 1,
         NEW i \in Indices
  PROVE  FramedAt(i)'
<1> DEFINE e == emitted[encoded + 1]
<1>0. ConvTypeOK /\ encoded \in Nat /\ written \in Seq(Payloads) /\ items' = items
      /\ emitted' = emitted
  BY DEF ConvInv, ConvTypeOK, aggVars
<1>1. /\ e \in Event /\ e.index \in Indices
      /\ Opening(e) => Class(e.kind) = Class(items[e.index])
      /\ e.type = "content_part_start" => ~StartSent(e.index)
      /\ e.type \in {"content_part_delta", "content_part_stop"} =>
           StartSent(e.index) /\ ~StopSent(e.index)
  BY FramedEvent
<1>2. /\ StartSent(i)' <=> (StartSent(i) \/ IsStart(e, i))
      /\ StopSent(i)' <=> (StopSent(i) \/ IsStop(e, i))
  BY <1>0, SentNext
<1>3. written' = written \o Encode(e) /\ enc' = Tracked(e)
  OBVIOUS
<1> HIDE DEF e
<1>k. PICK k : k = items[i]
  OBVIOUS
<1>4. /\ Noted(i, k) => Noted(i, k)'
      /\ enc.last[i] # "absent" => enc'.last[i] # "absent"
      /\ IsStart(e, i) => enc'.last[i] # "absent"
      /\ IsStart(e, i) /\ Class(e.kind) = Class(k) => Noted(i, k)'
  BY <1>0, <1>1, <1>3, TrackedFrames
<1>5. /\ ~StartSent(i) => ~StopSent(i) /\ OwnIn(written, i) = {}
      /\ StartSent(i) => enc.last[i] # "absent" /\ Noted(i, k)
      /\ StartSent(i) /\ ~StopSent(i) => IsOpen(written, i, Class(k))
      /\ StopSent(i) => IsClosed(written, i, Class(k))
  BY <1>k DEF FramedAt
<1>g. SUFFICES /\ ~StartSent(i)' => ~StopSent(i)' /\ OwnIn(written', i) = {}
               /\ StartSent(i)' => enc'.last[i] # "absent" /\ Noted(i, k)'
               /\ StartSent(i)' /\ ~StopSent(i)' => IsOpen(written', i, Class(k))
               /\ StopSent(i)' => IsClosed(written', i, Class(k))
  BY <1>0, <1>k DEF FramedAt, Noted
<1>6. \/ Encode(e) = <<>> /\ ~Opening(e) /\ ~Stopping(e)
      \/ \E d \in Payloads : Encode(e) = <<d>> /\ Frames(d, e)
  <2>1. FramedAt(e.index)
    BY <1>1
  <2>2. e.type = "content_part_delta" =>
          e.index \in IF Class(e.kind) = "text" THEN enc.text ELSE enc.tool
    BY <1>1, <2>1 DEF FramedAt, Noted, Opening
  <2>3. e.type = "content_part_stop" => enc.last[e.index] # "absent"
    BY <1>1, <2>1 DEF FramedAt
  <2> QED BY <1>0, <1>1, <2>2, <2>3, EncodeFrames
<1>7. CASE Encode(e) = <<>> /\ ~Opening(e) /\ ~Stopping(e)
  <2>1. written' = written \o <<>>
    BY <1>3, <1>7, Zenon
  <2>2. written' = written
    BY <1>0, <2>1
  <2>3. ~IsStart(e, i) /\ ~IsStop(e, i)
    BY <1>7 DEF IsStart, IsStop, Opening, Stopping
  <2> QED BY <1>2, <1>4, <1>5, <2>2, <2>3
<1>8. ASSUME NEW d \in Payloads, Encode(e) = <<d>>, Frames(d, e)
      PROVE  /\ ~StartSent(i)' => ~StopSent(i)' /\ OwnIn(written', i) = {}
             /\ StartSent(i)' => enc'.last[i] # "absent" /\ Noted(i, k)'
             /\ StartSent(i)' /\ ~StopSent(i)' => IsOpen(written', i, Class(k))
             /\ StopSent(i)' => IsClosed(written', i, Class(k))
  <2>1. written' = written \o <<d>>
    BY <1>3, <1>8, Zenon
  <2>2. CASE ~OfItem(d, i)
    <3>1. ~IsStart(e, i) /\ ~IsStop(e, i)
      BY <1>8, <2>2 DEF Frames, OfItem, IsStart, IsStop, Framing, Opening, Stopping
    <3>2. /\ OwnIn(written', i) = OwnIn(written, i)
          /\ IsOpen(written, i, Class(k)) => IsOpen(written', i, Class(k))
          /\ IsClosed(written, i, Class(k)) => IsClosed(written', i, Class(k))
      BY <1>0, <2>1, <2>2, ItemStays
    <3> QED BY <1>2, <1>4, <1>5, <3>1, <3>2
  <2>3. CASE OfItem(d, i)
    <3>1. e.index = i
      BY <1>8, <2>3 DEF Frames, OfItem
    <3>2. Opening(e) => Class(e.kind) = Class(k)
      BY <1>1, <1>k, <3>1
    <3>3. CASE e.type = "content_part_start"
      <4>1. ~StartSent(i) /\ IsStart(e, i) /\ ~IsStop(e, i)
        BY <1>1, <3>1, <3>3 DEF IsStart, IsStop
      <4>2. Opens(d, i, Class(k))
        BY <1>8, <3>1, <3>2, <3>3 DEF Frames, Opens, Opening, Stopping
      <4>3. IsOpen(written', i, Class(k))
        BY <1>0, <1>5, <2>1, <2>3, <4>1, <4>2, ItemStarts
      <4>4. Class(e.kind) = Class(k)
        BY <3>2, <3>3 DEF Opening
      <4> QED BY <1>2, <1>4, <1>5, <4>1, <4>3, <4>4
    <3>4. CASE e.type = "content_part_delta"
      <4>1. StartSent(i) /\ ~StopSent(i) /\ ~IsStop(e, i)
        BY <1>1, <3>1, <3>4 DEF IsStop
      <4>2. Carries(d, i, Class(k))
        BY <1>8, <3>1, <3>2, <3>4 DEF Frames, Carries, Opening, Stopping
      <4>3. IsOpen(written', i, Class(k))
        BY <1>0, <1>5, <2>1, <2>3, <4>1, <4>2, ItemGoesOn
      <4> QED BY <1>2, <1>4, <1>5, <4>1, <4>3
    <3>5. CASE e.type = "content_part_stop"
      <4>1. StartSent(i) /\ ~StopSent(i) /\ IsStop(e, i)
        BY <1>1, <3>1, <3>5 DEF IsStop
      <4>2. Closes(d, i)
        BY <1>8, <3>1, <3>5 DEF Frames, Closes, Opening, Stopping
      <4>3. IsClosed(written', i, Class(k))
        BY <1>0, <1>5, <2>1, <2>3, <4>1, <4>2, ItemStops
      <4> QED BY <1>2, <1>4, <1>5, <4>1, <4>3
    <3>6. e.type \in {"content_part_start", "content_part_delta", "content_part_stop"}
      BY <1>8, <2>3 DEF Frames, OfItem, Opening, Stopping
    <3> QED BY <3>3, <3>4, <3>5, <3>6
  <2> QED BY <2>2, <2>3
<1> QED BY <1>6, <1>7, <1>8

LEMMA FramedNext ==
  ASSUME AggTypeOK, AggInv, ConvInv, FramesInv, [Next]_vars, Framed
  PROVE  Framed'
<1>1. Upstream' = Upstream /\ Entry' = Entry
  BY OtherSteps, WriteStep DEF Upstream, Entry
<1>2. SUFFICES ASSUME Upstream # "chat", Entry \in {"anthropic", "responses"},
                      NEW i \in Indices
               PROVE  FramedAt(i)'
  BY <1>1 DEF Framed
<1>3. \A j \in Indices : FramedAt(j)
  BY <1>2 DEF Framed
<1>4. ItemsFollow /\ DecodedFollow /\ OneStart /\ OneStop /\ ClassesAgree
  BY <1>2 DEF FramesInv
<1>5. CASE WriteNext
  <2>1. /\ encoded + 1 \in 1..Len(emitted) /\ UNCHANGED aggVars
        /\ \/ UNCHANGED <<encoded, enc, written>>
           \/ /\ written' = written \o Encode(emitted[encoded + 1])
              /\ enc' = Tracked(emitted[encoded + 1]) /\ encoded' = encoded + 1
    BY <1>5, WriteStep
  <2>2. CASE UNCHANGED <<encoded, enc, written>>
    <3>1. items' = items /\ emitted' = emitted
      BY <2>1 DEF aggVars
    <3>2. FramedAt(i)
      BY <1>3
    <3> QED
      BY <2>2, <3>1, <3>2 DEF FramedAt, StartSent, StopSent, Noted
  <2>3. CASE ~UNCHANGED <<encoded, enc, written>>
    BY <1>2, <1>3, <1>4, <2>1, <2>3, FramedWrite
  <2> QED BY <2>2, <2>3
<1>6. CASE ~WriteNext
  <2>1. UNCHANGED <<written, enc, encoded>>
    BY <1>6, OtherSteps
  <2>2. \A p \in 1..encoded : p \in 1..Len(emitted) /\ emitted'[p] = emitted[p]
    BY EmittedKept
  <2>3. (StartSent(i)' <=> StartSent(i)) /\ (StopSent(i)' <=> StopSent(i))
    BY <2>1, <2>2 DEF StartSent, StopSent, IsStart, IsStop
  <2>4. FramedAt(i)
    BY <1>3
  <2>5. CASE ~StartSent(i)
    BY <2>1, <2>3, <2>4, <2>5 DEF FramedAt
  <2>6. CASE StartSent(i)
    <3>1. items[i] # "absent"
      BY <2>2, <2>6 DEF StartSent, AggInv, OrderInv, ItemsAreStarted
    <3>2. items'[i] = items[i]
      BY <1>4, <3>1, StepAdds
    <3> QED BY <2>1, <2>3, <2>4, <2>6, <3>2 DEF FramedAt, Noted
  <2> QED BY <2>5, <2>6
<1> QED BY <1>5, <1>6

LEMMA FramedInit == Init => Framed
<1> SUFFICES ASSUME Init, NEW i \in Indices PROVE FramedAt(i)
  BY DEF Framed
<1>1. encoded = 0 /\ written = <<>>
  BY DEF Init
<1>2. 1..0 = {} /\ 1..Len(<<>>) = {}
  OBVIOUS
<1>3. ~StartSent(i) /\ ~StopSent(i) /\ OwnIn(written, i) = {}
  BY <1>1, <1>2 DEF StartSent, StopSent, OwnIn
<1> QED BY <1>3 DEF FramedAt

(* What the client has been sent of an item is a start and deltas of its       *)
(* class, and a stop after them once the stop of the item has been encoded.    *)
THEOREM FramesAreSent == Spec => []Framed
<1>1. AggTypeOK /\ AggInv /\ ConvInv /\ FramesInv /\ Framed /\ [Next]_vars => Framed'
  BY FramedNext
<1> QED
  BY <1>1, FramedInit, ConversionInvariant, ItemsAreFramedOnce, PTL DEF Spec

\* A closed item is well formed.
LEMMA ClosedIsWhole ==
  ASSUME NEW view, view = 1..Len(written), NEW i, NEW class, IsClosed(written, i, class)
  PROVE  WellFormed(view, i)
<1>1. Own(view, i) = OwnIn(written, i)
  BY DEF Own, OwnIn, OfItem
<1>2. PICK f \in Own(view, i), l \in Own(view, i) :
        /\ Opens(written[f], i, class) /\ Closes(written[l], i) /\ f < l
        /\ \A p \in Own(view, i) \ {f, l} : f < p /\ p < l /\ Carries(written[p], i, class)
  BY <1>1 DEF IsClosed
<1> QED BY <1>2 DEF WellFormed, Opens, Closes, Carries

(* A client whose protocol frames the items sees each framed once, at an index *)
(* of its own, when the provider's protocol frames them too: in the payloads,  *)
(* and from Gemini providers, whose events have no names, by the names too.     *)
THEOREM ItemsReachTheClientWhole == Spec => []ItemsWellFormed
<1>1. ConvInv /\ AggInv /\ ReasonInv /\ Framed /\ NamesInv => ItemsWellFormed
  <2> SUFFICES ASSUME ConvInv, AggInv, ReasonInv, Framed, NamesInv, Settled, Upstream # "chat",
                      Entry \in {"anthropic", "responses"}, NEW view \in Views, NEW i \in Indices
               PROVE  WellFormed(view, i)
    BY DEF ItemsWellFormed
  <2>v. view = 1..Len(written)
    BY WholeView
  <2>1. FramedAt(i)
    BY DEF Framed
  <2>2. encoded = Len(emitted) /\ doneSent
    BY DEF Settled
  <2>3. Len(emitted) \in 1..encoded /\ emitted[Len(emitted)].type = "done"
    <3>1. encoded \in Nat /\ encoded >= 2
      BY <2>2 DEF ConvInv, ConvTypeOK, ReasonInv, ReasonLast
    <3> QED BY <2>2, <3>1 DEF ReasonInv, ReasonLast
  <2>4. StartSent(i) => StopSent(i)
    BY <2>2, <2>3 DEF StartSent, StopSent, IsStart, IsStop, AggInv, ClosedBeforeDone
  <2>5. CASE StopSent(i)
    BY <2>v, <2>1, <2>5, ClosedIsWhole DEF FramedAt
  <2>6. CASE ~StopSent(i)
    <3>1. OwnIn(written, i) = {}
      BY <2>1, <2>4, <2>6 DEF FramedAt
    <3>2. Own(view, i) = {}
      BY <2>v, <3>1 DEF Own, OwnIn, OfItem
    <3> QED BY <3>2 DEF WellFormed
  <2> QED BY <2>5, <2>6
<1> QED
  BY <1>1, ConversionInvariant, ReasonIsKept, FramesAreSent, NamesAreRight, PTL
=============================================================================
