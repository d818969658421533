---------------------------- MODULE CodexRunsProofs ----------------------------
(***************************************************************************)
(* The guarantees of CodexRuns, for sessions and turns of any length and   *)
(* any number of faults.                                                   *)
(***************************************************************************)
EXTENDS CodexRuns, SequenceTheorems, TLAPS

Duty      == {"thread", "announce", "turn", "delta", "end"}
Requests  == {"thread", "turn"}
Responses == {"granted", "refused"}
Ends      == {"completed", "failed"}

\* The sequence s has an element of S, at most one, and only at its end.
Has(s, S)      == \E i \in 1..Len(s) : s[i] \in S
Once(s, S)     == \A i, j \in 1..Len(s) : s[i] \in S /\ s[j] \in S => i = j
LastOnly(s, S) == \A i \in 1..Len(s) : s[i] \in S => i = Len(s)

-----------------------------------------------------------------------------
LEMMA EmptyHas ==
  ASSUME NEW S
  PROVE  ~ Has(<<>>, S) /\ Once(<<>>, S) /\ LastOnly(<<>>, S)
BY DEF Has, Once, LastOnly

LEMMA AppendHas ==
  ASSUME NEW T, NEW s \in Seq(T), NEW y \in T, NEW S
  PROVE  LET t == Append(s, y)
         IN /\ t \in Seq(T) /\ t # <<>>
            /\ Has(t, S) <=> Has(s, S) \/ y \in S
            /\ ~ Has(s, S) => Once(t, S) /\ LastOnly(t, S)
            /\ y \notin S /\ Once(s, S) => Once(t, S)
<1> DEFINE t == Append(s, y)
<1>1. /\ t \in Seq(T) /\ Len(t) = Len(s) + 1 /\ Len(s) \in Nat
      /\ \A i \in 1..Len(s) : t[i] = s[i]
      /\ t[Len(s) + 1] = y
  OBVIOUS
<1> HIDE DEF t
<1>2. \A i \in 1..Len(t) : i \in 1..Len(s) \/ i = Len(s) + 1
  BY <1>1
<1>3. Len(s) + 1 \in 1..Len(t) /\ \A i \in 1..Len(s) : i \in 1..Len(t)
  BY <1>1
<1>4. t # <<>>
  BY <1>1
<1>5. Has(t, S) <=> Has(s, S) \/ y \in S
  BY <1>1, <1>2, <1>3 DEF Has
<1>6. ~ Has(s, S) => Once(t, S) /\ LastOnly(t, S)
  BY <1>1, <1>2 DEF Has, Once, LastOnly
<1>7. y \notin S /\ Once(s, S) => Once(t, S)
  BY <1>1, <1>2 DEF Once
<1> QED BY <1>1, <1>4, <1>5, <1>6, <1>7 DEF t

LEMMA TailHas ==
  ASSUME NEW T, NEW s \in Seq(T), s # <<>>, NEW S
  PROVE  LET t == Tail(s)
         IN /\ t \in Seq(T) /\ Head(s) \in T
            /\ Has(s, S) <=> Has(t, S) \/ Head(s) \in S
            /\ Once(s, S) => Once(t, S) /\ (Head(s) \in S => ~ Has(t, S))
            /\ LastOnly(s, S) => LastOnly(t, S) /\ (Head(s) \in S => t = <<>>)
<1> DEFINE t == Tail(s)
<1>1. /\ t \in Seq(T) /\ Head(s) \in T /\ Len(t) = Len(s) - 1 /\ Len(t) \in Nat
      /\ \A i \in 1..Len(t) : t[i] = s[i + 1]
      /\ Head(s) = s[1]
  OBVIOUS
<1> HIDE DEF t
<1>2. \A i \in 1..Len(s) : i = 1 \/ (i - 1 \in 1..Len(t) /\ t[i - 1] = s[i])
  BY <1>1
<1>3. 1 \in 1..Len(s) /\ \A i \in 1..Len(t) : i + 1 \in 1..Len(s)
  BY <1>1
<1>4. Has(s, S) <=> Has(t, S) \/ Head(s) \in S
  <2>1. Has(t, S) => Has(s, S)
    BY <1>1, <1>3 DEF Has
  <2>2. Head(s) \in S => Has(s, S)
    BY <1>1, <1>3 DEF Has
  <2>3. Has(s, S) => Has(t, S) \/ Head(s) \in S
    BY <1>1, <1>2 DEF Has
  <2> QED BY <2>1, <2>2, <2>3
<1>5. Once(s, S) => Once(t, S) /\ (Head(s) \in S => ~ Has(t, S))
  <2> SUFFICES ASSUME Once(s, S) PROVE Once(t, S) /\ (Head(s) \in S => ~ Has(t, S))
    OBVIOUS
  <2>1. Once(t, S)
    <3> SUFFICES ASSUME NEW i \in 1..Len(t), NEW j \in 1..Len(t), t[i] \in S, t[j] \in S
                 PROVE  i = j
      BY DEF Once
    <3>1. s[i + 1] \in S /\ s[j + 1] \in S /\ i + 1 \in 1..Len(s) /\ j + 1 \in 1..Len(s)
      BY <1>1, <1>3
    <3>2. i + 1 = j + 1
      BY <3>1 DEF Once
    <3> QED BY <3>2
  <2>2. ASSUME Head(s) \in S, NEW i \in 1..Len(t), t[i] \in S PROVE FALSE
    <3>1. s[1] \in S /\ s[i + 1] \in S /\ i + 1 \in 1..Len(s) /\ 1 \in 1..Len(s)
      BY <1>1, <1>3, <2>2
    <3>2. 1 = i + 1
      BY <3>1 DEF Once
    <3> QED BY <3>2
  <2> QED BY <2>1, <2>2 DEF Has
<1>6. LastOnly(s, S) => LastOnly(t, S) /\ (Head(s) \in S => t = <<>>)
  <2> SUFFICES ASSUME LastOnly(s, S) PROVE LastOnly(t, S) /\ (Head(s) \in S => t = <<>>)
    OBVIOUS
  <2>1. LastOnly(t, S)
    <3> SUFFICES ASSUME NEW i \in 1..Len(t), t[i] \in S PROVE i = Len(t)
      BY DEF LastOnly
    <3>1. s[i + 1] \in S /\ i + 1 \in 1..Len(s)
      BY <1>1, <1>3
    <3>2. i + 1 = Len(s)
      BY <3>1 DEF LastOnly
    <3> QED BY <1>1, <3>2
  <2>2. Head(s) \in S => Len(t) = 0
    <3>1. Head(s) \in S => 1 = Len(s)
      BY <1>1, <1>3 DEF LastOnly
    <3> QED BY <1>1, <3>1
  <2>3. Len(t) = 0 => t = <<>>
    BY <1>1
  <2> QED BY <2>1, <2>2, <2>3
<1> QED BY <1>1, <1>4, <1>5, <1>6 DEF t

LEMMA JoinHas ==
  ASSUME NEW T, NEW s \in Seq(T), NEW u \in Seq(T), NEW S
  PROVE  LET t == s \o u
         IN /\ t \in Seq(T)
            /\ Has(t, S) <=> Has(s, S) \/ Has(u, S)
            /\ ~ Has(s, S) /\ Once(u, S) => Once(t, S)
            /\ ~ Has(s, S) /\ LastOnly(u, S) => LastOnly(t, S)
<1> DEFINE t == s \o u
<1>1. /\ t \in Seq(T) /\ Len(t) = Len(s) + Len(u) /\ Len(s) \in Nat /\ Len(u) \in Nat
      /\ \A i \in 1..Len(s) : t[i] = s[i]
      /\ \A i \in 1..Len(u) : t[Len(s) + i] = u[i]
  OBVIOUS
<1> HIDE DEF t
<1>2. \A i \in 1..Len(t) : i \in 1..Len(s) \/ (i - Len(s) \in 1..Len(u) /\ t[i] = u[i - Len(s)])
  <2> SUFFICES ASSUME NEW i \in 1..Len(t), i \notin 1..Len(s)
               PROVE  i - Len(s) \in 1..Len(u) /\ t[i] = u[i - Len(s)]
    OBVIOUS
  <2>1. i - Len(s) \in 1..Len(u)
    BY <1>1
  <2>2. Len(s) + (i - Len(s)) = i
    BY <1>1
  <2> QED BY <1>1, <2>1, <2>2
<1>3. /\ \A i \in 1..Len(s) : i \in 1..Len(t)
      /\ \A i \in 1..Len(u) : Len(s) + i \in 1..Len(t)
  BY <1>1
<1>4. Has(t, S) <=> Has(s, S) \/ Has(u, S)
  <2>1. Has(s, S) => Has(t, S)
    BY <1>1, <1>3 DEF Has
  <2>2. Has(u, S) => Has(t, S)
    BY <1>1, <1>3 DEF Has
  <2>3. Has(t, S) => Has(s, S) \/ Has(u, S)
    BY <1>1, <1>2 DEF Has
  <2> QED BY <2>1, <2>2, <2>3
<1>5. ASSUME ~ Has(s, S), Once(u, S) PROVE Once(t, S)
  <2> SUFFICES ASSUME NEW i \in 1..Len(t), NEW j \in 1..Len(t), t[i] \in S, t[j] \in S PROVE i = j
    BY DEF Once
  <2>1. i \notin 1..Len(s) /\ j \notin 1..Len(s)
    BY <1>1, <1>5 DEF Has
  <2>2. i - Len(s) \in 1..Len(u) /\ j - Len(s) \in 1..Len(u)
        /\ u[i - Len(s)] \in S /\ u[j - Len(s)] \in S
    BY <1>2, <2>1
  <2>3. i - Len(s) = j - Len(s)
    BY <1>5, <2>2 DEF Once
  <2> QED BY <1>1, <2>3
<1>6. ASSUME ~ Has(s, S), LastOnly(u, S) PROVE LastOnly(t, S)
  <2> SUFFICES ASSUME NEW i \in 1..Len(t), t[i] \in S PROVE i = Len(t)
    BY DEF LastOnly
  <2>1. i \notin 1..Len(s)
    BY <1>1, <1>6 DEF Has
  <2>2. i - Len(s) \in 1..Len(u) /\ u[i - Len(s)] \in S
    BY <1>2, <2>1
  <2>3. i - Len(s) = Len(u)
    BY <1>6, <2>2 DEF LastOnly
  <2> QED BY <1>1, <2>3
<1> QED BY <1>1, <1>4, <1>5, <1>6 DEF t

\* The duties of a request.
LEMMA DutiesHave ==
  ASSUME TypeOK, at \in {"thread", "turn"}, NEW d \in Duties
  PROVE  /\ d \in Seq(Duty)
         /\ Has(d, Requests) /\ Once(d, Requests) /\ LastOnly(d, {"end"})
         /\ Has(d, {"end"}) <=> at = "turn"
         /\ Has(d, {"announce"}) <=> at = "thread" /\ resume[run] = None
         /\ d # <<>>
<1>1. CASE at = "turn"
  <2>1. PICK n \in 0..MaxDeltas : d = <<"turn">> \o [i \in 1..n |-> "delta"] \o <<"end">>
    BY <1>1 DEF Duties
  <2> DEFINE m == [i \in 1..n |-> "delta"]
  <2>2. n \in Nat
    BY CodexAssumption
  <2>3. m \in Seq(Duty) /\ Len(m) = n /\ \A i \in 1..n : m[i] = "delta"
    BY <2>2 DEF Duty
  <2> HIDE DEF m
  <2>4. d = <<"turn">> \o m \o <<"end">>
    BY <2>1 DEF m
  <2> DEFINE h == <<"turn">> \o m
  <2>5. <<"turn">> \in Seq(Duty) /\ <<"end">> \in Seq(Duty)
    BY DEF Duty
  <2>6. h \in Seq(Duty) /\ Len(h) = n + 1 /\ h[1] = "turn" /\ \A i \in 1..n : h[i + 1] = "delta"
    BY <2>2, <2>3, <2>5
  <2> HIDE DEF h
  <2>7. /\ d \in Seq(Duty) /\ Len(d) = n + 2 /\ d[1] = "turn" /\ d[n + 2] = "end"
        /\ \A i \in 1..(n + 1) : d[i] = h[i]
    BY <2>2, <2>4, <2>5, <2>6 DEF h
  <2>8. \A i \in 1..Len(d) : i = 1 \/ i = n + 2 \/ (i - 1 \in 1..n /\ d[i] = "delta")
    <3> SUFFICES ASSUME NEW i \in 1..Len(d), i # 1, i # n + 2
                 PROVE  i - 1 \in 1..n /\ d[i] = "delta"
      OBVIOUS
    <3>1. i - 1 \in 1..n /\ i \in 1..(n + 1)
      BY <2>2, <2>7
    <3>2. (i - 1) + 1 = i
      BY <3>1
    <3> QED BY <2>6, <2>7, <3>1, <3>2
  <2>9. 1 \in 1..Len(d) /\ n + 2 \in 1..Len(d) /\ d # <<>>
    BY <2>2, <2>7
  <2>10. Has(d, Requests) /\ Has(d, {"end"})
    BY <2>7, <2>9 DEF Has, Requests
  <2>11. Once(d, Requests)
    <3>1. \A i \in 1..Len(d) : d[i] \in Requests => i = 1
      BY <2>7, <2>8 DEF Requests
    <3> QED BY <3>1 DEF Once
  <2>12. LastOnly(d, {"end"}) /\ ~ Has(d, {"announce"})
    <3>1. \A i \in 1..Len(d) : d[i] # "announce" /\ (d[i] = "end" => i = Len(d))
      BY <2>2, <2>7, <2>8
    <3> QED BY <3>1 DEF LastOnly, Has
  <2> QED BY <1>1, <2>7, <2>9, <2>10, <2>11, <2>12
<1>2. CASE at = "thread" /\ resume[run] = None
  <2>1. d = <<"thread", "announce">>
    BY <1>2 DEF Duties
  <2>2. d \in Seq(Duty) /\ Len(d) = 2 /\ d[1] = "thread" /\ d[2] = "announce"
    BY <2>1 DEF Duty
  <2>3. \A i \in 1..Len(d) : i = 1 \/ i = 2
    BY <2>2
  <2>9. Len(d) = 2 /\ 1 \in 1..2 /\ 2 \in 1..2
    BY <2>2
  <2>10. Len(<<>>) = 0
    OBVIOUS
  <2>11. d # <<>>
    BY <2>9, <2>10
  <2>4. 1 \in 1..Len(d) /\ 2 \in 1..Len(d) /\ d # <<>>
    BY <2>9, <2>11, Zenon
  <2>7. Has(d, Requests) /\ Has(d, {"announce"})
    BY <2>2, <2>4 DEF Has, Requests
  <2>8. \A i \in 1..Len(d) : d[i] # "end" /\ (d[i] \in Requests => i = 1)
    BY <2>2, <2>3 DEF Requests
  <2>5. Has(d, Requests) /\ Has(d, {"announce"}) /\ ~ Has(d, {"end"}) /\ LastOnly(d, {"end"})
    BY <2>7, <2>8 DEF Has, LastOnly
  <2>6. Once(d, Requests)
    BY <2>8 DEF Once
  <2> QED BY <1>2, <2>2, <2>4, <2>5, <2>6
<1>3. CASE at = "thread" /\ resume[run] # None
  <2>1. d = <<"thread">>
    BY <1>3 DEF Duties
  <2>2. d \in Seq(Duty) /\ Len(d) = 1 /\ d[1] = "thread"
    BY <2>1 DEF Duty
  <2>3. \A i \in 1..Len(d) : i = 1
    BY <2>2
  <2>4. 1 \in 1..Len(d) /\ d # <<>>
    BY <2>2
  <2>5. Has(d, Requests) /\ ~ Has(d, {"announce"}) /\ ~ Has(d, {"end"}) /\ LastOnly(d, {"end"})
    BY <2>2, <2>3, <2>4 DEF Has, LastOnly, Requests
  <2>6. Once(d, Requests)
    BY <2>2, <2>3 DEF Once, Requests
  <2> QED BY <1>3, <2>2, <2>4, <2>5, <2>6
<1> QED BY <1>1, <1>2, <1>3

-----------------------------------------------------------------------------
(* Types, and the run under way.                                            *)

\* The run under way has no outcome, and no run after it has.
BaseInv ==
  /\ at # "idle" => run \in Runs /\ outcome[run] = "none"
  /\ \A r \in Runs : r > run => outcome[r] = "none"
  /\ seen # None => run \in Runs /\ seen = ThreadOf(run)

Sound == TypeOK /\ BaseInv

LEMMA RunsAreNumbers ==
  /\ Runs \subseteq Nat \ {0} /\ None \notin Runs /\ None = 0
  /\ \A n \in 0..MaxRuns : n + 1 \in Runs
BY CodexAssumption DEF Runs, None

LEMMA TypeParts ==
  ASSUME TypeOK, NEW r \in Runs
  PROVE  /\ duty[r] \in Seq(Duty) /\ pipe[r] \in Seq(Lines) /\ events[r] \in Seq(Lines)
         /\ duty \in [Runs -> Seq(Duty)] /\ pipe \in [Runs -> Seq(Lines)]
         /\ events \in [Runs -> Seq(Lines)]
BY DEF TypeOK, Duty

LEMMA KilledTyped ==
  ASSUME TypeOK, NEW r \in Runs, Killed(r)
  PROVE  /\ server' \in [Runs -> {"none", "up", "dead"}] /\ duty' \in [Runs -> Seq(Duty)]
         /\ server'[r] = IF server[r] = "up" THEN "dead" ELSE server[r]
         /\ duty'[r] = <<>>
         /\ \A x \in Runs : x # r => server'[x] = server[x] /\ duty'[x] = duty[x]
<1>1. server \in [Runs -> {"none", "up", "dead"}] /\ duty \in [Runs -> Seq(Duty)]
  BY DEF TypeOK, Duty
<1>2. <<>> \in Seq(Duty)
  OBVIOUS
<1> QED BY <1>1, <1>2 DEF Killed

LEMMA SendTyped ==
  ASSUME TypeOK, NEW r \in Runs, NEW e \in Lines, Send(r, e)
  PROVE  /\ events' \in [Runs -> Seq(Lines)]
         /\ events'[r] = IF outcome[r] = "none" THEN Append(events[r], e) ELSE events[r]
         /\ \A x \in Runs : x # r => events'[x] = events[x]
<1>1. events \in [Runs -> Seq(Lines)] /\ Append(events[r], e) \in Seq(Lines)
  BY TypeParts
<1> QED BY <1>1 DEF Send

LEMMA ReturnsTyped ==
  ASSUME TypeOK, run \in Runs, NEW how \in {"refused", "ok", "error"}, Returns(how)
  PROVE  /\ at' = "idle"
         /\ events' \in [Runs -> Seq(Lines)]
         /\ outcome' \in [Runs -> {"none", "refused", "ok", "error"}]
         /\ outcome'[run] = how /\ events'[run] = <<>>
         /\ \A x \in Runs : x # run => outcome'[x] = outcome[x] /\ events'[x] = events[x]
<1>1. events \in [Runs -> Seq(Lines)] /\ outcome \in [Runs -> {"none", "refused", "ok", "error"}]
  BY DEF TypeOK
<1>2. <<>> \in Seq(Lines)
  OBVIOUS
<1> QED BY <1>1, <1>2 DEF Returns

LEMMA BindingTyped ==
  ASSUME Sound, run \in Runs
  PROVE  /\ Persisted \in [thread : Runs \cup {None}, failed : BOOLEAN]
         /\ MarkedAsFailed \in [thread : Runs \cup {None}, failed : BOOLEAN]
BY DEF Sound, TypeOK, Persisted, MarkedAsFailed

\* Writes by the app server.
LEMMA WritesTyped ==
  ASSUME TypeOK, NEW r \in Runs, Serve(r)
  PROVE  \E line \in Lines, rest \in Seq(Duty) :
           /\ pipe' = [pipe EXCEPT ![r] = Append(@, line)]
           /\ duty' = [duty EXCEPT ![r] = rest]
           /\ pipe' \in [Runs -> Seq(Lines)] /\ duty' \in [Runs -> Seq(Duty)]
           /\ \/ Head(duty[r]) \in Requests /\ line = "granted" /\ rest = Tail(duty[r])
              \/ Head(duty[r]) \in Requests /\ line = "refused" /\ rest = <<>>
              \/ Head(duty[r]) = "announce" /\ line = "session" /\ rest = Tail(duty[r])
              \/ Head(duty[r]) = "delta" /\ line = "delta" /\ rest = Tail(duty[r])
              \/ Head(duty[r]) = "end" /\ line \in Ends /\ rest = Tail(duty[r])
<1>1. duty[r] \in Seq(Duty) /\ pipe[r] \in Seq(Lines) /\ duty[r] # <<>>
      /\ duty \in [Runs -> Seq(Duty)] /\ pipe \in [Runs -> Seq(Lines)]
  BY TypeParts DEF Serve
<1>2. Tail(duty[r]) \in Seq(Duty) /\ <<>> \in Seq(Duty)
  BY <1>1
<1>3. \A line \in Lines : Append(pipe[r], line) \in Seq(Lines)
  BY <1>1
<1>4. \A line \in Lines, rest \in Seq(Duty) : Writes(r, line, rest) =>
        /\ pipe' = [pipe EXCEPT ![r] = Append(@, line)]
        /\ duty' = [duty EXCEPT ![r] = rest]
        /\ pipe' \in [Runs -> Seq(Lines)] /\ duty' \in [Runs -> Seq(Duty)]
  BY <1>1, <1>3 DEF Writes
<1>5. {"granted", "refused", "session", "delta", "completed", "failed"} = Lines
  BY DEF Lines
<1>6. CASE Answers(r)
  <2>1. Head(duty[r]) \in Requests
    BY <1>6 DEF Answers, Requests
  <2>2. Writes(r, "granted", Tail(duty[r])) \/ Writes(r, "refused", <<>>)
    BY <1>6 DEF Answers
  <2>3. "granted" \in Lines /\ "refused" \in Lines
    BY <1>5
  <2> QED BY <1>2, <1>4, <2>1, <2>2, <2>3
<1>7. CASE Notifies(r)
  <2>1. \E line \in Lines : /\ Writes(r, line, Tail(duty[r]))
                            /\ \/ Head(duty[r]) = "announce" /\ line = "session"
                               \/ Head(duty[r]) = "delta" /\ line = "delta"
                               \/ Head(duty[r]) = "end" /\ line \in Ends
    BY <1>5, <1>7 DEF Notifies, Ends
  <2> QED BY <1>2, <1>4, <2>1
<1> QED BY <1>6, <1>7 DEF Serve

\* The parts of TypeOK a group of actions touches.
DriverTyped ==
  /\ binding \in [thread : Runs \cup {None}, failed : BOOLEAN]
  /\ run \in Runs \cup {0} /\ seen \in Runs \cup {None}
  /\ at \in {"idle", "start", "thread", "turn", "consume"}
  /\ resume \in [Runs -> Runs \cup {None}]
  /\ outcome \in [Runs -> {"none", "refused", "ok", "error"}]
FaultTyped == stopped \subseteq Runs /\ broken \subseteq Runs /\ faults \in Nat
ProcessTyped ==
  server \in [Runs -> {"none", "up", "dead"}] /\ duty \in [Runs -> Seq(Duty)]
ReaderTyped ==
  /\ pipe \in [Runs -> Seq(Lines)]
  /\ reader \in [Runs -> Lines \cup {"none", "scan", "ended"}]
  /\ hooked \in [Runs -> BOOLEAN] /\ shut \in [Runs -> BOOLEAN]
  /\ call \in [Runs -> {"none", "waiting", "granted", "refused"}]
  /\ turn \in [Runs -> {"none", "completed", "failed"}]
ChannelTyped ==
  /\ events \in [Runs -> Seq(Lines)] /\ sealed \subseteq Runs
  /\ watcher \in [Runs -> {"none", "wait", "close", "seal", "done"}]
  /\ panic \in Runs \cup {None}

LEMMA TypeGroups ==
  /\ TypeOK <=> DriverTyped /\ FaultTyped /\ ProcessTyped /\ ReaderTyped /\ ChannelTyped
  /\ DriverTyped /\ UNCHANGED driverVars => DriverTyped'
  /\ FaultTyped /\ UNCHANGED faultVars => FaultTyped'
  /\ ProcessTyped /\ UNCHANGED processVars => ProcessTyped'
  /\ ReaderTyped /\ UNCHANGED readerVars => ReaderTyped'
  /\ ChannelTyped /\ UNCHANGED channelVars => ChannelTyped'
<1>1. TypeOK <=> DriverTyped /\ FaultTyped /\ ProcessTyped /\ ReaderTyped /\ ChannelTyped
  BY DEF TypeOK, DriverTyped, FaultTyped, ProcessTyped, ReaderTyped, ChannelTyped, Duty
<1>2. DriverTyped /\ UNCHANGED driverVars => DriverTyped'
  BY DEF DriverTyped, driverVars
<1>3. FaultTyped /\ UNCHANGED faultVars => FaultTyped'
  BY DEF FaultTyped, faultVars
<1>4. ProcessTyped /\ UNCHANGED processVars => ProcessTyped'
  BY DEF ProcessTyped, processVars
<1>5. ReaderTyped /\ UNCHANGED readerVars => ReaderTyped'
  BY DEF ReaderTyped, readerVars
<1>6. ChannelTyped /\ UNCHANGED channelVars => ChannelTyped'
  BY DEF ChannelTyped, channelVars
<1> QED BY <1>1, <1>2, <1>3, <1>4, <1>5, <1>6

\* The step from the groups to Sound'.
LEMMA Regrouped ==
  ASSUME \/ DriverTyped'  \/ (DriverTyped /\ UNCHANGED driverVars),
         \/ FaultTyped'   \/ (FaultTyped /\ UNCHANGED faultVars),
         \/ ProcessTyped' \/ (ProcessTyped /\ UNCHANGED processVars),
         \/ ReaderTyped'  \/ (ReaderTyped /\ UNCHANGED readerVars),
         \/ ChannelTyped' \/ (ChannelTyped /\ UNCHANGED channelVars),
         BaseInv'
  PROVE  Sound'
<1>1. DriverTyped' /\ FaultTyped' /\ ProcessTyped' /\ ReaderTyped' /\ ChannelTyped'
  BY TypeGroups
<1>2. TypeOK'
  BY <1>1 DEF TypeOK, DriverTyped, FaultTyped, ProcessTyped, ReaderTyped, ChannelTyped, Duty
<1> QED BY <1>2 DEF Sound

LEMMA BaseSame ==
  ASSUME BaseInv, UNCHANGED <<at, run, seen, resume, outcome>>
  PROVE  BaseInv'
BY DEF BaseInv, ThreadOf

LEMMA InvokeTyped == ASSUME Sound, Begin \/ Invoke PROVE Sound'
<1>t. /\ DriverTyped /\ FaultTyped /\ ProcessTyped /\ ReaderTyped /\ ChannelTyped
      /\ TypeOK /\ BaseInv
  BY TypeGroups DEF Sound
<1>r. at # "idle" => run \in Runs
  BY <1>t DEF BaseInv
<1>1. CASE Begin
  <2>1. run + 1 \in Runs /\ run \in Nat /\ run' = run + 1
    BY <1>1, RunsAreNumbers DEF Begin
  <2>2. DriverTyped'
    BY <1>1, <1>t, <2>1, RunsAreNumbers DEF Begin, DriverTyped
  <2>3. BaseInv'
    BY <1>1, <1>t, <2>1, RunsAreNumbers DEF Begin, BaseInv
  <2> QED BY <1>1, <1>t, <2>2, <2>3, Regrouped DEF Begin
<1>2. CASE ServerStarts
  <2>0. run \in Runs
    BY <1>2, <1>r DEF ServerStarts
  <2>1. DriverTyped'
    BY <1>2, <1>t DEF ServerStarts, DriverTyped
  <2>2. ProcessTyped'
    BY <1>2, <1>t, <2>0 DEF ServerStarts, ProcessTyped
  <2>3. ReaderTyped'
    BY <1>2, <1>t, <2>0 DEF ServerStarts, ReaderTyped
  <2>4. BaseInv'
    BY <1>2, <1>t DEF ServerStarts, BaseInv, ThreadOf
  <2> QED BY <1>2, <1>t, <2>1, <2>2, <2>3, <2>4, Regrouped DEF ServerStarts
<1>3. CASE ServerFails \/ InvokeFails
  <2>0. run \in Runs /\ Returns("refused") /\ UNCHANGED <<binding, run, seen, resume>>
    BY <1>3, <1>r DEF ServerFails, InvokeFails
  <2>1. DriverTyped'
    BY <1>t, <2>0, ReturnsTyped DEF DriverTyped
  <2>2. BaseInv'
    <3>1. /\ at' = "idle" /\ outcome'[run] = "refused"
          /\ \A x \in Runs : x # run => outcome'[x] = outcome[x]
      BY <1>t, <2>0, ReturnsTyped
    <3>2. run \in Nat
      BY <2>0, RunsAreNumbers
    <3> QED BY <1>t, <2>0, <3>1, <3>2 DEF BaseInv, ThreadOf
  <2>3. CASE ServerFails
    <3>1. ChannelTyped'
      BY <1>t, <2>0, <2>3, ReturnsTyped DEF ServerFails, ChannelTyped
    <3> QED BY <1>t, <2>1, <2>2, <2>3, <3>1, Regrouped DEF ServerFails
  <2>4. CASE InvokeFails
    <3>1. ChannelTyped'
      BY <1>t, <2>0, <2>4, ReturnsTyped DEF InvokeFails, ChannelTyped
    <3>2. ProcessTyped'
      BY <1>t, <2>0, <2>4, KilledTyped DEF InvokeFails, ProcessTyped
    <3>3. ReaderTyped'
      BY <1>t, <2>0, <2>4 DEF InvokeFails, ReaderTyped
    <3> QED BY <1>t, <2>1, <2>2, <2>4, <3>1, <3>2, <3>3, Regrouped DEF InvokeFails
  <2> QED BY <1>3, <2>3, <2>4
<1>4. CASE Call
  <2>0. run \in Runs /\ at \in {"thread", "turn"}
    BY <1>4, <1>r DEF Call
  <2>1. ProcessTyped'
    <3>1. PICK d \in Duties : duty' = [duty EXCEPT ![run] = @ \o d]
      BY <1>4 DEF Call
    <3>2. d \in Seq(Duty) /\ duty[run] \in Seq(Duty)
      BY <1>t, <2>0, DutiesHave, TypeParts
    <3>3. duty[run] \o d \in Seq(Duty)
      BY <3>2
    <3> QED BY <1>4, <1>t, <2>0, <3>1, <3>3 DEF Call, ProcessTyped
  <2>2. ReaderTyped'
    BY <1>4, <1>t, <2>0 DEF Call, ReaderTyped
  <2>3. BaseInv'
    BY <1>4, <1>t, BaseSame DEF Call, driverVars
  <2> QED BY <1>4, <1>t, <2>1, <2>2, <2>3, Regrouped DEF Call
<1>5. CASE ThreadReady \/ TurnStarted
  <2>0. run \in Runs
    BY <1>5, <1>r DEF ThreadReady, TurnStarted
  <2>1. DriverTyped'
    BY <1>5, <1>t DEF ThreadReady, TurnStarted, DriverTyped
  <2>2. ReaderTyped'
    BY <1>5, <1>t, <2>0 DEF ThreadReady, TurnStarted, ReaderTyped
  <2>3. ChannelTyped'
    <3>1. CASE ThreadReady
      <4>1. Append(events[run], "session") \in Seq(Lines)
        BY <1>t, <2>0, TypeParts DEF Lines
      <4> QED BY <3>1, <4>1, <1>t, <2>0 DEF ThreadReady, ChannelTyped
    <3>2. CASE TurnStarted
      BY <3>2, <1>t, <2>0 DEF TurnStarted, ChannelTyped
    <3> QED BY <1>5, <3>1, <3>2
  <2>4. BaseInv'
    BY <1>5, <1>t DEF ThreadReady, TurnStarted, BaseInv, ThreadOf
  <2> QED BY <1>5, <1>t, <2>1, <2>2, <2>3, <2>4, Regrouped DEF ThreadReady, TurnStarted
<1> QED BY <1>1, <1>2, <1>3, <1>4, <1>5 DEF Invoke

LEMMA ConsumeTyped == ASSUME Sound, Consume \/ Cancel PROVE Sound'
<1>t. /\ DriverTyped /\ FaultTyped /\ ProcessTyped /\ ReaderTyped /\ ChannelTyped
      /\ TypeOK /\ BaseInv
  BY TypeGroups DEF Sound
<1>r. at # "idle" => run \in Runs
  BY <1>t DEF BaseInv
<1>1. ASSUME NEW how \in {"ok", "error"}, Returns(how), run \in Runs,
             UNCHANGED <<run, seen, resume>>,
             binding' \in {Persisted, MarkedAsFailed}
      PROVE  DriverTyped' /\ BaseInv'
  <2>1. DriverTyped'
    BY <1>1, <1>t, ReturnsTyped, BindingTyped DEF DriverTyped, Sound
  <2>2. BaseInv'
    <3>1. /\ at' = "idle" /\ \A x \in Runs : x # run => outcome'[x] = outcome[x]
      BY <1>1, <1>t, ReturnsTyped
    <3>2. run \in Nat
      BY <1>1, RunsAreNumbers
    <3> QED BY <1>1, <1>t, <3>1, <3>2 DEF BaseInv, ThreadOf
  <2> QED BY <2>1, <2>2
<1>2. CASE Take
  <2>0. run \in Runs /\ UNCHANGED <<run, resume, faultVars, processVars, readerVars, sealed,
                                    watcher, panic>>
    BY <1>2, <1>r DEF Take
  <2>1. CASE Head(events[run]) \in {"completed", "failed"}
    <3>1. \E how \in {"ok", "error"} : Returns(how) /\ UNCHANGED seen
                                       /\ binding' \in {Persisted, MarkedAsFailed}
      BY <1>2, <2>1 DEF Take
    <3>2. DriverTyped' /\ BaseInv'
      BY <1>1, <2>0, <3>1
    <3>3. ChannelTyped'
      BY <1>t, <2>0, <3>1, ReturnsTyped DEF ChannelTyped
    <3> QED BY <1>t, <2>0, <3>2, <3>3, Regrouped
  <2>2. CASE Head(events[run]) \notin {"completed", "failed"}
    <3>1. /\ seen' \in {ThreadOf(run), seen} /\ UNCHANGED <<binding, at, outcome>>
          /\ events' = [events EXCEPT ![run] = Tail(@)] /\ events[run] # <<>>
      BY <1>2, <2>2 DEF Take
    <3>2. ThreadOf(run) \in Runs
      BY <1>t, <2>0 DEF DriverTyped, ThreadOf
    <3>3. Tail(events[run]) \in Seq(Lines)
      BY <1>t, <2>0, <3>1, TypeParts
    <3>4. DriverTyped'
      BY <1>t, <2>0, <3>1, <3>2 DEF DriverTyped
    <3>5. ChannelTyped'
      BY <1>t, <2>0, <3>1, <3>3 DEF ChannelTyped
    <3>6. BaseInv'
      BY <1>t, <2>0, <3>1 DEF BaseInv, ThreadOf
    <3> QED BY <1>t, <2>0, <3>4, <3>5, <3>6, Regrouped
  <2> QED BY <2>1, <2>2
<1>3. CASE EmitFails
  <2>0. /\ run \in Runs /\ Returns("error") /\ binding' = MarkedAsFailed
        /\ UNCHANGED <<run, seen, resume, stopped, processVars, readerVars, sealed, watcher, panic>>
    BY <1>3, <1>r DEF EmitFails
  <2>1. DriverTyped' /\ BaseInv'
    BY <1>1, <2>0
  <2>2. FaultTyped'
    BY <1>3, <1>t, <2>0 DEF EmitFails, FaultTyped
  <2>3. ChannelTyped'
    BY <1>t, <2>0, ReturnsTyped DEF ChannelTyped
  <2> QED BY <1>t, <2>0, <2>1, <2>2, <2>3, Regrouped
<1>4. CASE Cancel
  <2>1. FaultTyped'
    BY <1>4, <1>r, <1>t DEF Cancel, FaultTyped
  <2>2. BaseInv'
    BY <1>4, <1>t, BaseSame DEF Cancel, driverVars
  <2> QED BY <1>4, <1>t, <2>1, <2>2, Regrouped DEF Cancel
<1> QED BY <1>2, <1>3, <1>4 DEF Consume

LEMMA OthersTyped ==
  ASSUME Sound, NEW r \in Runs, Serve(r) \/ ServerExits(r) \/ Kill(r) \/ Reader(r) \/ Watcher(r)
  PROVE  Sound'
<1>t. /\ DriverTyped /\ FaultTyped /\ ProcessTyped /\ ReaderTyped /\ ChannelTyped
      /\ TypeOK /\ BaseInv
  BY TypeGroups DEF Sound
<1>b. UNCHANGED driverVars /\ DriverTyped' /\ BaseInv'
  <2>1. UNCHANGED driverVars
    BY DEF Serve, ServerExits, Kill, Reader, Watcher, Read, Forward, TurnOver, ReaderEnds,
       WatcherWakes, CloseServer, CloseEvents
  <2> QED BY <1>t, <2>1, BaseSame, TypeGroups DEF driverVars
<1>1. CASE Serve(r)
  <2>1. ReaderTyped' /\ ProcessTyped'
    BY <1>1, <1>t, WritesTyped DEF Serve, ReaderTyped, ProcessTyped
  <2> QED BY <1>1, <1>t, <1>b, <2>1, Regrouped DEF Serve
<1>2. CASE ServerExits(r)
  <2>1. ProcessTyped'
    BY <1>2, <1>t, KilledTyped DEF ServerExits, ProcessTyped
  <2>2. FaultTyped'
    BY <1>2, <1>t DEF ServerExits, FaultTyped
  <2> QED BY <1>2, <1>t, <1>b, <2>1, <2>2, Regrouped DEF ServerExits
<1>3. CASE Kill(r)
  <2>1. ProcessTyped'
    BY <1>3, <1>t, KilledTyped DEF Kill, ProcessTyped
  <2> QED BY <1>3, <1>t, <1>b, <2>1, Regrouped DEF Kill
<1>4. CASE Read(r)
  <2>1. Head(pipe[r]) \in Lines /\ Tail(pipe[r]) \in Seq(Lines)
    BY <1>4, <1>t, TypeParts DEF Read
  <2>2. pipe' \in [Runs -> Seq(Lines)]
    BY <1>4, <1>t, <2>1 DEF Read, ReaderTyped
  <2>3. ReaderTyped'
    BY <1>4, <1>t, <2>1, <2>2 DEF Read, ReaderTyped
  <2> QED BY <1>4, <1>t, <1>b, <2>3, Regrouped DEF Read
<1>5. CASE Forward(r)
  <2>1. reader[r] \in Lines
    BY <1>5 DEF Forward, Lines
  <2>2. ReaderTyped'
    BY <1>5, <1>t DEF Forward, ReaderTyped
  <2>3. ChannelTyped'
    BY <1>5, <1>t, <2>1, SendTyped DEF Forward, ChannelTyped
  <2> QED BY <1>5, <1>t, <1>b, <2>2, <2>3, Regrouped DEF Forward
<1>6. CASE TurnOver(r)
  <2>1. ReaderTyped'
    BY <1>6, <1>t DEF TurnOver, ReaderTyped
  <2> QED BY <1>6, <1>t, <1>b, <2>1, Regrouped DEF TurnOver
<1>7. CASE ReaderEnds(r)
  <2>1. ReaderTyped'
    BY <1>7, <1>t DEF ReaderEnds, ReaderTyped
  <2> QED BY <1>7, <1>t, <1>b, <2>1, Regrouped DEF ReaderEnds
<1>8. CASE WatcherWakes(r)
  <2>1. \E e \in Lines : Send(r, e)
    BY <1>8, <1>t DEF WatcherWakes, ReaderTyped, Lines
  <2>2. ChannelTyped'
    BY <1>8, <1>t, <2>1, SendTyped DEF WatcherWakes, ChannelTyped
  <2> QED BY <1>8, <1>t, <1>b, <2>2, Regrouped DEF WatcherWakes
<1>9. CASE CloseServer(r)
  <2>1. ProcessTyped'
    BY <1>9, <1>t, KilledTyped DEF CloseServer, ProcessTyped
  <2>2. ReaderTyped'
    BY <1>9, <1>t DEF CloseServer, ReaderTyped
  <2>3. ChannelTyped'
    BY <1>9, <1>t DEF CloseServer, ChannelTyped
  <2> QED BY <1>9, <1>t, <1>b, <2>1, <2>2, <2>3, Regrouped DEF CloseServer
<1>10. CASE CloseEvents(r)
  <2>1. ChannelTyped'
    BY <1>10, <1>t DEF CloseEvents, ChannelTyped
  <2> QED BY <1>10, <1>t, <1>b, <2>1, Regrouped DEF CloseEvents
<1> QED BY <1>1, <1>2, <1>3, <1>4, <1>5, <1>6, <1>7, <1>8, <1>9, <1>10 DEF Reader, Watcher

(* The variables keep their types, and only runs that returned have an      *)
(* outcome.                                                                 *)
THEOREM CodexTyped == Spec => []Sound
<1>1. Init => Sound
  <2> SUFFICES ASSUME Init PROVE Sound
    OBVIOUS
  <2>1. TypeOK
    BY RunsAreNumbers DEF Init, TypeOK, Each
  <2>2. BaseInv
    BY DEF Init, BaseInv, Each
  <2> QED BY <2>1, <2>2 DEF Sound
<1>2. Sound /\ [Next]_vars => Sound'
  <2> SUFFICES ASSUME Sound, [Next]_vars PROVE Sound'
    OBVIOUS
  <2>1. CASE UNCHANGED vars
    <3>1. UNCHANGED <<driverVars, faultVars, processVars, readerVars, channelVars>>
      BY <2>1 DEF vars
    <3>2. BaseInv'
      BY <3>1, BaseSame DEF Sound, driverVars
    <3> QED BY <3>1, <3>2, TypeGroups, Regrouped DEF Sound
  <2>2. CASE Next
    BY <2>2, InvokeTyped, ConsumeTyped, OthersTyped DEF Next
  <2> QED BY <2>1, <2>2
<1> QED BY <1>1, <1>2, PTL DEF Spec

-----------------------------------------------------------------------------
(* The conversation a run resumes.                                          *)

\* Among the runs up to n one ended well with the thread t, and none that
\* resumed it failed since.
Well(t, n) ==
  \E s \in 1..n : /\ outcome[s] = "ok" /\ ThreadOf(s) = t
                   /\ \A x \in s..n : resume[x] = t => outcome[x] # "error"

\* The same after a step, for a t and an n of the state before it or after it.
WellAfter(t, n) ==
  \E s \in 1..n :
    /\ outcome'[s] = "ok" /\ t = IF resume'[s] # None THEN resume'[s] ELSE s
    /\ \A x \in s..n : resume'[x] = t => outcome'[x] # "error"

\* What is saved and not marked as failed may be resumed; the run under way
\* resumes it.
SavedInv ==
  /\ at # "idle" => resume[run] = IF binding.failed THEN None ELSE binding.thread
  /\ \A r \in Runs : r > run => resume[r] = None
  /\ binding.thread # None /\ ~ binding.failed => Well(binding.thread, run)

ResumeInv == SavedInv /\ ResumesWhatEndedWell

\* How a run returns, and what it makes of the saved conversation.
Settles(how) ==
  /\ run \in Runs /\ at # "idle" /\ at' = "idle" /\ outcome' = [outcome EXCEPT ![run] = how]
  /\ UNCHANGED <<run, resume, seen>>
  /\ \/ how = "refused" /\ binding' = binding
     \/ how = "ok" /\ binding' = Persisted
     \/ how = "error" /\ binding' = MarkedAsFailed

LEMMA StepKinds ==
  ASSUME Sound, Next
  PROVE  \/ Begin
         \/ \E how \in {"refused", "ok", "error"} : Settles(how)
         \/ UNCHANGED <<binding, run, resume, outcome>> /\ at # "idle" /\ at' # "idle"
         \/ UNCHANGED <<binding, run, resume, outcome, at>>
<1>1. at # "idle" => run \in Runs
  BY DEF Sound, BaseInv
<1>2. CASE Invoke
  BY <1>1, <1>2 DEF Invoke, ServerStarts, ServerFails, Call, ThreadReady, TurnStarted,
     InvokeFails, Settles, Returns, driverVars
<1>3. CASE Take
  BY <1>1, <1>3 DEF Take, Settles, Returns
<1>4. CASE EmitFails
  BY <1>1, <1>4 DEF EmitFails, Settles, Returns
<1>5. CASE Cancel
  BY <1>5 DEF Cancel, driverVars
<1>6. CASE \E r \in Runs : Serve(r) \/ ServerExits(r) \/ Kill(r)
  BY <1>6 DEF Serve, ServerExits, Kill, driverVars
<1>7. CASE \E r \in Runs : Reader(r) \/ Watcher(r)
  BY <1>7 DEF Reader, Watcher, Read, Forward, TurnOver, ReaderEnds, WatcherWakes, CloseServer,
     CloseEvents, driverVars
<1> QED BY <1>2, <1>3, <1>4, <1>5, <1>6, <1>7 DEF Next, Consume

LEMMA RunNumbers ==
  ASSUME TypeOK
  PROVE  /\ run \in Nat /\ run \in Runs \cup {0}
         /\ \A r \in Runs : r \in Nat /\ r - 1 \in Nat /\ r - 1 \in Runs \cup {0}
         /\ \A r \in Runs : \A x \in 1..(r - 1) : x \in Runs
         /\ \A x \in 1..run : x \in Runs
BY CodexAssumption DEF TypeOK, Runs

\* Runs up to n keep their threads and outcomes, but for a new outcome of the
\* last that is no error of the thread; and a run after n has no error.
LEMMA WellKept ==
  ASSUME NEW n \in Nat, NEW t, Well(t, n),
         \A x \in 1..n : resume'[x] = resume[x],
         \A x \in 1..n : outcome'[x] = outcome[x]
                         \/ (outcome[x] = "none" /\ (resume[x] = t => outcome'[x] # "error"))
  PROVE  /\ WellAfter(t, n)
         /\ outcome'[n + 1] # "error" => WellAfter(t, n + 1)
<1>1. PICK s \in 1..n : /\ outcome[s] = "ok" /\ ThreadOf(s) = t
                        /\ \A x \in s..n : resume[x] = t => outcome[x] # "error"
  BY DEF Well
<1>2. outcome'[s] = "ok" /\ t = IF resume'[s] # None THEN resume'[s] ELSE s
  BY <1>1 DEF ThreadOf
<1>3. \A x \in s..n : x \in 1..n
  BY <1>1
<1>4. \A x \in s..n : resume'[x] = t => outcome'[x] # "error"
  BY <1>1, <1>3
<1>5. (\A x \in s..(n + 1) : x \in s..n \/ x = n + 1) /\ s \in 1..(n + 1)
  BY <1>1
<1> QED BY <1>1, <1>2, <1>4, <1>5 DEF WellAfter

LEMMA ResumeAfter ==
  /\ (binding'.thread # None /\ ~ binding'.failed => WellAfter(binding'.thread, run'))
     <=> (binding.thread # None /\ ~ binding.failed => Well(binding.thread, run))'
  /\ (\A r \in Runs : resume'[r] # None => WellAfter(resume'[r], r - 1))
     <=> ResumesWhatEndedWell'
<1>1. ASSUME NEW t, NEW n
      PROVE  WellAfter(t, n) <=>
               \E s \in 1..n : /\ outcome'[s] = "ok" /\ ThreadOf(s)' = t
                                /\ \A x \in s..n : resume'[x] = t => outcome'[x] # "error"
  BY Zenon DEF WellAfter, ThreadOf
<1>2. (binding'.thread # None /\ ~ binding'.failed => WellAfter(binding'.thread, run'))
      <=> (binding.thread # None /\ ~ binding.failed => Well(binding.thread, run))'
  BY <1>1, Zenon DEF Well
<1>3. (\A r \in Runs : resume'[r] # None => WellAfter(resume'[r], r - 1))
      <=> ResumesWhatEndedWell'
  BY <1>1 DEF ResumesWhatEndedWell
<1> QED BY <1>2, <1>3

LEMMA ResumeStep == ASSUME Sound, ResumeInv, Next PROVE ResumeInv'
<1>t. TypeOK /\ BaseInv /\ SavedInv /\ ResumesWhatEndedWell
  BY DEF Sound, ResumeInv
<1>n. /\ run \in Nat /\ run \in Runs \cup {0}
      /\ \A r \in Runs : r \in Nat /\ r - 1 \in Nat /\ r - 1 \in Runs \cup {0}
      /\ \A r \in Runs : \A x \in 1..(r - 1) : x \in Runs
      /\ \A x \in 1..run : x \in Runs
  BY <1>t, RunNumbers
<1>w. \A r \in Runs : resume[r] # None => Well(resume[r], r - 1)
  BY <1>t DEF ResumesWhatEndedWell, Well
<1>b. binding.thread # None /\ ~ binding.failed => Well(binding.thread, run)
  BY <1>t DEF SavedInv
<1>1. CASE Begin
  <2>1. /\ at = "idle" /\ run' = run + 1 /\ run + 1 \in Runs /\ at' = "start"
        /\ UNCHANGED <<binding, outcome>>
        /\ resume' = [resume EXCEPT ![run + 1] = IF binding.failed THEN None ELSE binding.thread]
    BY <1>1, RunsAreNumbers DEF Begin
  <2>2. /\ resume'[run + 1] = IF binding.failed THEN None ELSE binding.thread
        /\ \A x \in Runs : x # run + 1 => resume'[x] = resume[x]
        /\ outcome'[run + 1] = "none"
    BY <1>t, <1>n, <2>1 DEF TypeOK, BaseInv
  <2>3. \A n \in Nat : n <= run => \A x \in 1..n : resume'[x] = resume[x] /\ outcome'[x] = outcome[x]
    BY <1>n, <2>1, <2>2
  <2>4. binding'.thread # None /\ ~ binding'.failed => WellAfter(binding'.thread, run')
    BY <1>n, <1>b, <2>1, <2>2, <2>3, WellKept
  <2>5. ASSUME NEW r \in Runs, resume'[r] # None PROVE WellAfter(resume'[r], r - 1)
    <3>1. CASE r = run + 1
      <4>1. binding.thread # None /\ ~ binding.failed /\ resume'[r] = binding.thread
        BY <2>2, <2>5, <3>1
      <4>2. WellAfter(binding.thread, run)
        BY <1>n, <1>b, <2>3, <4>1, WellKept
      <4>3. r - 1 = run
        BY <1>n, <3>1
      <4> QED BY <4>1, <4>2, <4>3
    <3>2. CASE r # run + 1
      <4>1. resume'[r] = resume[r] /\ ~ r > run
        BY <1>t, <2>2, <2>5, <3>2 DEF SavedInv
      <4>2. r - 1 \in Nat /\ r - 1 <= run /\ Well(resume[r], r - 1)
        BY <1>n, <1>w, <2>5, <4>1
      <4> QED BY <2>3, <4>1, <4>2, WellKept
    <3> QED BY <3>1, <3>2
  <2>6. ResumesWhatEndedWell'
    BY <2>5, ResumeAfter
  <2>7. \A r \in Runs : r > run' => resume'[r] = None
    BY <1>t, <1>n, <2>1, <2>2 DEF SavedInv
  <2>8. SavedInv'
    BY <2>1, <2>2, <2>4, <2>7, ResumeAfter DEF SavedInv
  <2> QED BY <2>6, <2>8 DEF ResumeInv
<1>2. ASSUME NEW how \in {"refused", "ok", "error"}, Settles(how) PROVE ResumeInv'
  <2>1. /\ run \in Runs /\ at' = "idle" /\ run' = run /\ resume' = resume
        /\ outcome[run] = "none" /\ outcome'[run] = how
        /\ \A x \in Runs : x # run => outcome'[x] = outcome[x]
        /\ resume[run] = IF binding.failed THEN None ELSE binding.thread
    BY <1>2, <1>t DEF Settles, BaseInv, SavedInv, TypeOK
  <2>2. ASSUME NEW r \in Runs, resume'[r] # None PROVE WellAfter(resume'[r], r - 1)
    <3>1. resume[r] # None /\ ~ r > run
      BY <1>t, <2>1, <2>2 DEF SavedInv
    <3>2. r - 1 \in Nat /\ Well(resume[r], r - 1) /\ r - 1 < run
      BY <1>n, <1>w, <3>1
    <3>3. \A x \in 1..(r - 1) : outcome'[x] = outcome[x]
      BY <1>n, <2>1, <3>2
    <3> QED BY <2>1, <3>2, <3>3, WellKept
  <2>3. ASSUME binding' = binding, binding.thread # None, ~ binding.failed,
               resume[run] = binding.thread => how # "error"
        PROVE  WellAfter(binding.thread, run)
    <3>1. \A x \in 1..run :
            outcome'[x] = outcome[x]
            \/ (outcome[x] = "none" /\ (resume[x] = binding.thread => outcome'[x] # "error"))
      BY <1>n, <2>1, <2>3
    <3> QED BY <1>n, <1>b, <2>1, <2>3, <3>1, WellKept
  <2>4. ASSUME binding'.thread # None, ~ binding'.failed PROVE WellAfter(binding'.thread, run')
    <3>1. CASE binding' = binding /\ how # "error"
      BY <2>1, <2>3, <2>4, <3>1
    <3>2. CASE how = "ok" /\ binding' # binding
      <4>1. binding'.thread = seen /\ seen # None
        BY <1>2, <3>2 DEF Settles, Persisted
      <4>2. seen = IF resume[run] # None THEN resume[run] ELSE run
        BY <1>t, <4>1 DEF BaseInv, ThreadOf
      <4>3. run \in 1..run /\ \A x \in run..run : x = run
        BY <1>n, <2>1
      <4>4. /\ outcome'[run] = "ok"
            /\ seen = IF resume'[run] # None THEN resume'[run] ELSE run
            /\ \A x \in run..run : resume'[x] = seen => outcome'[x] # "error"
        BY <2>1, <3>2, <4>2, <4>3
      <4>5. WellAfter(seen, run)
        BY <4>3, <4>4 DEF WellAfter
      <4> QED BY <2>1, <4>1, <4>5
    <3>3. CASE how = "error"
      <4>1. binding' = MarkedAsFailed
        BY <1>2, <3>3 DEF Settles
      <4>2. binding' = binding /\ resume[run] = None
        BY <1>t, <2>4, <4>1 DEF MarkedAsFailed, TypeOK
      <4> QED BY <2>1, <2>3, <2>4, <4>2
    <3> QED BY <1>2, <3>1, <3>2, <3>3 DEF Settles
  <2>5. ResumesWhatEndedWell'
    BY <2>2, ResumeAfter
  <2>6. SavedInv'
    BY <1>t, <2>1, <2>4, ResumeAfter DEF SavedInv
  <2> QED BY <2>5, <2>6 DEF ResumeInv
<1>3. ASSUME UNCHANGED <<binding, run, resume, outcome>>, at' # "idle" => at # "idle"
      PROVE  ResumeInv'
  BY <1>3, <1>t DEF ResumeInv, SavedInv, ResumesWhatEndedWell, Well, ThreadOf
<1> QED BY <1>1, <1>2, <1>3, StepKinds

LEMMA ResumeInvariant == Spec => []ResumeInv
<1>1. Init => ResumeInv
  BY RunsAreNumbers DEF Init, ResumeInv, SavedInv, ResumesWhatEndedWell, Each
<1>2. Sound /\ ResumeInv /\ [Next]_vars => ResumeInv'
  <2>1. ASSUME ResumeInv, UNCHANGED vars PROVE ResumeInv'
    BY <2>1 DEF ResumeInv, SavedInv, ResumesWhatEndedWell, Well, ThreadOf, vars, driverVars
  <2> QED BY <2>1, ResumeStep
<1> QED BY <1>1, <1>2, CodexTyped, PTL DEF Spec

(* A run resumes only what an earlier run ended well with and no run failed *)
(* in since, in sessions of any length.                                     *)
THEOREM ResumedRunsEndedWell == Spec => []ResumesWhatEndedWell
<1>1. ResumeInv => ResumesWhatEndedWell
  BY DEF ResumeInv
<1> QED BY <1>1, ResumeInvariant, PTL

-----------------------------------------------------------------------------
(* The lines between the app server and the reader.                         *)

\* Nothing is on its way from the app server of the run.
Quiet(r) == duty[r] = <<>> /\ pipe[r] = <<>> /\ reader[r] \in {"none", "scan", "ended"}

\* The run has no app server yet; it is in Invoke; the app server has not been
\* asked for a turn.
New(r)    == r > run \/ (r = run /\ at = "start")
Active(r) == r = run /\ at \in {"thread", "turn"}
Early(r)  == r = run /\ (at = "thread" \/ (at = "turn" /\ call[r] = "none"))

Untouched(r) ==
  /\ server[r] = "none" /\ Quiet(r) /\ ~ hooked[r] /\ call[r] = "none" /\ ~ shut[r]
  /\ turn[r] = "none" /\ r \notin sealed /\ watcher[r] = "none"

\* One request at a time, and one response to it.
RequestInv(r) ==
  /\ Once(duty[r], Requests) /\ Once(pipe[r], Responses)
  /\ Has(duty[r], Requests) => ~ Has(pipe[r], Responses)
  /\ Has(duty[r], Requests) \/ Has(pipe[r], Responses) =>
       call[r] = "waiting" \/ outcome[r] # "none"
  /\ call[r] # "none" => Active(r)

\* Nothing follows a refusal.
RefusalInv(r) ==
  /\ LastOnly(pipe[r], {"refused"})
  /\ Has(pipe[r], {"refused"}) => duty[r] = <<>>
  /\ call[r] = "refused" => Quiet(r)

\* Nothing follows the end of the turn.
EndInv(r) ==
  /\ LastOnly(duty[r], {"end"}) /\ LastOnly(pipe[r], Ends)
  /\ Has(pipe[r], Ends) => duty[r] = <<>>
  /\ reader[r] \in Ends => duty[r] = <<>> /\ pipe[r] = <<>>
  /\ turn[r] # "none" => Quiet(r)
  /\ Early(r) => /\ ~ Has(duty[r], {"end"}) /\ ~ Has(pipe[r], Ends)
                 /\ reader[r] \notin Ends /\ turn[r] = "none"

StageInv(r) ==
  /\ New(r) => Untouched(r)
  /\ Active(r) => watcher[r] = "none" /\ r \notin sealed /\ hooked[r]
  /\ watcher[r] \in {"wait", "close"} => hooked[r]

LinesInv == \A r \in Runs : RequestInv(r) /\ RefusalInv(r) /\ EndInv(r) /\ StageInv(r)

\* The run was cancelled, or something of it failed.
Trouble(r) == r \in stopped \cup broken

Closing(r) == watcher[r] \in {"close", "seal", "done"}

TroubleInv(r) ==
  /\ server[r] = "dead" \/ shut[r] =>
       Trouble(r) \/ outcome[r] # "none" \/ watcher[r] \in {"seal", "done"}
  /\ Closing(r) => Trouble(r) \/ turn[r] # "none"
  /\ outcome[r] \in {"ok", "error"} => Trouble(r) \/ Closing(r)
  /\ outcome[r] = "refused" => watcher[r] = "none"
  /\ Has(events[r], Ends) => Closing(r)
  /\ r \in sealed => Trouble(r) \/ Quiet(r)

\* The thread the run creates is announced, or RunInvocation knows it.
Announced(r) ==
  \/ Has(duty[r], {"announce"}) \/ Has(pipe[r], {"session"}) \/ reader[r] = "session"
  \/ Has(events[r], {"session"}) \/ seen # None

\* The end of the turn is on its way, or has come.
Ended(r) ==
  Has(duty[r], {"end"}) \/ Has(pipe[r], Ends) \/ reader[r] \in Ends \/ turn[r] # "none"

\* The lines of a run that creates its thread, before it returns.
Announces(r) ==
  /\ at = "thread" =>
       /\ duty[r] \in {<<>>, <<"thread", "announce">>, <<"announce">>}
       /\ call[r] = "none" => duty[r] = <<>>
  /\ server[r] = "up" /\ at = "thread" /\ (Has(pipe[r], {"granted"}) \/ call[r] = "granted") =>
       Announced(r)
  /\ server[r] = "up" /\ at = "turn" /\ call[r] = "none" => Announced(r)
  /\ hooked[r] /\ Ended(r) => Announced(r)
  /\ LastOnly(events[r], {"completed"})
  /\ Has(events[r], {"completed"}) =>
       turn[r] # "none" /\ (Has(events[r], {"session"}) \/ seen # None)

Creates(r) == r = run /\ at # "idle" /\ resume[r] = None

AnnounceInv == \A r \in Runs : Creates(r) => Announces(r)

\* The saved conversation is that of the last run that ended well, if only
\* refused attempts followed.
LastInv ==
  \A s \in 1..run :
    (/\ outcome[s] = "ok"
     /\ \A x \in (s + 1)..run : outcome[x] = "refused" \/ (x = run /\ at # "idle"))
    => binding = [thread |-> ThreadOf(s), failed |-> FALSE]

LinesOf(r) == RequestInv(r) /\ RefusalInv(r) /\ EndInv(r) /\ StageInv(r)

\* A step leaves the lines of a run alone.
SameLines(x) ==
  /\ server'[x] = server[x] /\ duty'[x] = duty[x] /\ pipe'[x] = pipe[x]
  /\ reader'[x] = reader[x] /\ hooked'[x] = hooked[x] /\ call'[x] = call[x]
  /\ shut'[x] = shut[x] /\ turn'[x] = turn[x] /\ watcher'[x] = watcher[x]
  /\ (x \in sealed') <=> (x \in sealed)

LEMMA LinesFrame ==
  ASSUME NEW x \in Runs, LinesOf(x), SameLines(x),
         outcome[x] # "none" => outcome'[x] # "none",
         New(x)' => New(x), Early(x)' => Early(x), Active(x)' <=> Active(x)
  PROVE  LinesOf(x)'
<1>1. Quiet(x)' <=> Quiet(x)
  BY DEF SameLines, Quiet
<1>2. RequestInv(x)'
  BY DEF LinesOf, SameLines, RequestInv
<1>3. RefusalInv(x)'
  BY <1>1 DEF LinesOf, SameLines, RefusalInv
<1>4. EndInv(x)'
  BY <1>1 DEF LinesOf, SameLines, EndInv
<1>5. Untouched(x) => Untouched(x)'
  BY <1>1 DEF SameLines, Untouched
<1>6. StageInv(x)'
  BY <1>5 DEF LinesOf, SameLines, StageInv
<1> QED BY <1>2, <1>3, <1>4, <1>6 DEF LinesOf

\* A step of a goroutine or of the app server of one run, for the other runs.
LEMMA LinesOthers ==
  ASSUME NEW r \in Runs, \A x \in Runs : LinesOf(x), UNCHANGED driverVars,
         \A x \in Runs : x # r => SameLines(x),
         LinesOf(r)'
  PROVE  \A x \in Runs : LinesOf(x)'
<1> SUFFICES ASSUME NEW x \in Runs, x # r PROVE LinesOf(x)'
  OBVIOUS
<1>1. UNCHANGED <<run, at, outcome>>
  BY DEF driverVars
<1>2. SameLines(x) /\ LinesOf(x)
  OBVIOUS
<1>3. New(x)' <=> New(x)
  BY <1>1 DEF New
<1>4. Active(x)' <=> Active(x)
  BY <1>1 DEF Active
<1>5. Early(x)' <=> Early(x)
  BY <1>1, <1>2 DEF Early, SameLines
<1> QED BY <1>1, <1>2, <1>3, <1>4, <1>5, LinesFrame

\* The lines of r after a write.
LEMMA AfterWrite ==
  ASSUME TypeOK, NEW r \in Runs, Serve(r)
  PROVE  \E line \in Lines :
           /\ duty[r] # <<>>
           /\ \A x \in Runs : x # r => pipe'[x] = pipe[x] /\ duty'[x] = duty[x]
           /\ \A S : Has(pipe'[r], S) <=> Has(pipe[r], S) \/ line \in S
           /\ \A S : ~ Has(pipe[r], S) => Once(pipe'[r], S) /\ LastOnly(pipe'[r], S)
           /\ \A S : line \notin S /\ Once(pipe[r], S) => Once(pipe'[r], S)
           /\ \A S : Has(duty'[r], S) => Has(duty[r], S)
           /\ \A S : Head(duty[r]) \in S => Has(duty[r], S)
           /\ \A S : Once(duty[r], S) =>
                       Once(duty'[r], S) /\ (Head(duty[r]) \in S => ~ Has(duty'[r], S))
           /\ \A S : LastOnly(duty[r], S) =>
                       LastOnly(duty'[r], S) /\ (Head(duty[r]) \in S => duty'[r] = <<>>)
           /\ \/ Head(duty[r]) \in Requests /\ line = "granted" /\ duty'[r] = Tail(duty[r])
              \/ Head(duty[r]) \in Requests /\ line = "refused" /\ duty'[r] = <<>>
              \/ Head(duty[r]) = "announce" /\ line = "session" /\ duty'[r] = Tail(duty[r])
              \/ Head(duty[r]) = "delta" /\ line = "delta" /\ duty'[r] = Tail(duty[r])
              \/ Head(duty[r]) = "end" /\ line \in Ends /\ duty'[r] = Tail(duty[r])
<1>1. PICK line \in Lines, rest \in Seq(Duty) :
           /\ pipe' = [pipe EXCEPT ![r] = Append(@, line)]
           /\ duty' = [duty EXCEPT ![r] = rest]
           /\ \/ Head(duty[r]) \in Requests /\ line = "granted" /\ rest = Tail(duty[r])
              \/ Head(duty[r]) \in Requests /\ line = "refused" /\ rest = <<>>
              \/ Head(duty[r]) = "announce" /\ line = "session" /\ rest = Tail(duty[r])
              \/ Head(duty[r]) = "delta" /\ line = "delta" /\ rest = Tail(duty[r])
              \/ Head(duty[r]) = "end" /\ line \in Ends /\ rest = Tail(duty[r])
  BY WritesTyped, Zenon
<1>2. /\ duty[r] \in Seq(Duty) /\ pipe[r] \in Seq(Lines) /\ duty[r] # <<>>
      /\ duty \in [Runs -> Seq(Duty)] /\ pipe \in [Runs -> Seq(Lines)]
  BY TypeParts DEF Serve
<1>3. /\ pipe'[r] = Append(pipe[r], line) /\ duty'[r] = rest
      /\ \A x \in Runs : x # r => pipe'[x] = pipe[x] /\ duty'[x] = duty[x]
  BY <1>1, <1>2
<1>4. /\ \A S : Has(pipe'[r], S) <=> Has(pipe[r], S) \/ line \in S
      /\ \A S : ~ Has(pipe[r], S) => Once(pipe'[r], S) /\ LastOnly(pipe'[r], S)
      /\ \A S : line \notin S /\ Once(pipe[r], S) => Once(pipe'[r], S)
  BY <1>2, <1>3, AppendHas
<1> DEFINE t == Tail(duty[r])
<1>5. /\ \A S : Has(duty[r], S) <=> Has(t, S) \/ Head(duty[r]) \in S
      /\ \A S : Once(duty[r], S) => Once(t, S) /\ (Head(duty[r]) \in S => ~ Has(t, S))
      /\ \A S : LastOnly(duty[r], S) => LastOnly(t, S) /\ (Head(duty[r]) \in S => t = <<>>)
  BY <1>2, TailHas
<1>6. rest = t \/ rest = <<>>
  BY <1>1
<1> HIDE DEF t
<1>7. \A S : ~ Has(<<>>, S) /\ Once(<<>>, S) /\ LastOnly(<<>>, S)
  BY EmptyHas
<1>8. /\ \A S : Has(duty'[r], S) => Has(duty[r], S)
      /\ \A S : Head(duty[r]) \in S => Has(duty[r], S)
  BY <1>3, <1>5, <1>6, <1>7
<1>9. \A S : Once(duty[r], S) =>
                       Once(duty'[r], S) /\ (Head(duty[r]) \in S => ~ Has(duty'[r], S))
  BY <1>3, <1>5, <1>6, <1>7
<1>10. \A S : LastOnly(duty[r], S) =>
                       LastOnly(duty'[r], S) /\ (Head(duty[r]) \in S => duty'[r] = <<>>)
  BY <1>3, <1>5, <1>6, <1>7
<1> QED BY <1>1, <1>2, <1>3, <1>4, <1>8, <1>9, <1>10

LEMMA ServeLines ==
  ASSUME Sound, \A x \in Runs : LinesOf(x), NEW r \in Runs, Serve(r)
  PROVE  \A x \in Runs : LinesOf(x)'
<1>t. TypeOK
  BY DEF Sound
<1>i. RequestInv(r) /\ RefusalInv(r) /\ EndInv(r) /\ StageInv(r)
  BY DEF LinesOf
<1>u. /\ server[r] = "up" /\ UNCHANGED driverVars
      /\ UNCHANGED <<run, at, outcome, server, reader, hooked, call, shut, turn, sealed, watcher>>
  BY DEF Serve, driverVars, channelVars
<1>s. (New(r)' <=> New(r)) /\ (Active(r)' <=> Active(r)) /\ (Early(r)' <=> Early(r))
  BY <1>u DEF New, Active, Early
<1>1. PICK line \in Lines :
           /\ duty[r] # <<>>
           /\ \A x \in Runs : x # r => pipe'[x] = pipe[x] /\ duty'[x] = duty[x]
           /\ \A S : Has(pipe'[r], S) <=> Has(pipe[r], S) \/ line \in S
           /\ \A S : ~ Has(pipe[r], S) => Once(pipe'[r], S) /\ LastOnly(pipe'[r], S)
           /\ \A S : line \notin S /\ Once(pipe[r], S) => Once(pipe'[r], S)
           /\ \A S : Has(duty'[r], S) => Has(duty[r], S)
           /\ \A S : Head(duty[r]) \in S => Has(duty[r], S)
           /\ \A S : Once(duty[r], S) =>
                       Once(duty'[r], S) /\ (Head(duty[r]) \in S => ~ Has(duty'[r], S))
           /\ \A S : LastOnly(duty[r], S) =>
                       LastOnly(duty'[r], S) /\ (Head(duty[r]) \in S => duty'[r] = <<>>)
           /\ \/ Head(duty[r]) \in Requests /\ line = "granted" /\ duty'[r] = Tail(duty[r])
              \/ Head(duty[r]) \in Requests /\ line = "refused" /\ duty'[r] = <<>>
              \/ Head(duty[r]) = "announce" /\ line = "session" /\ duty'[r] = Tail(duty[r])
              \/ Head(duty[r]) = "delta" /\ line = "delta" /\ duty'[r] = Tail(duty[r])
              \/ Head(duty[r]) = "end" /\ line \in Ends /\ duty'[r] = Tail(duty[r])
  BY <1>t, AfterWrite
<1>2. ~ Quiet(r)
  BY <1>1 DEF Quiet
<1>3. RequestInv(r)'
  <2>1. Once(duty'[r], Requests)
    BY <1>1, <1>i DEF RequestInv
  <2>2. CASE Head(duty[r]) \in Requests
    <3>1. /\ Has(duty[r], Requests) /\ ~ Has(duty'[r], Requests) /\ ~ Has(pipe[r], Responses)
      BY <1>1, <1>i, <2>2 DEF RequestInv
    <3>2. Once(pipe'[r], Responses)
      BY <1>1, <3>1
    <3> QED BY <1>i, <1>s, <1>u, <2>1, <3>1, <3>2 DEF RequestInv
  <2>3. CASE Head(duty[r]) \notin Requests
    <3>1. line \notin Responses
      BY <1>1, <2>3 DEF Responses, Ends
    <3>2. Once(pipe'[r], Responses) /\ (Has(pipe'[r], Responses) <=> Has(pipe[r], Responses))
      BY <1>1, <1>i, <3>1 DEF RequestInv
    <3>3. Has(duty'[r], Requests) => Has(duty[r], Requests)
      BY <1>1
    <3> QED BY <1>i, <1>s, <1>u, <2>1, <3>2, <3>3 DEF RequestInv
  <2> QED BY <2>2, <2>3
<1>4. RefusalInv(r)'
  <2>1. ~ Has(pipe[r], {"refused"}) /\ call[r] # "refused"
    BY <1>1, <1>2, <1>i DEF RefusalInv
  <2>2. LastOnly(pipe'[r], {"refused"})
    BY <1>1, <2>1
  <2>3. Has(pipe'[r], {"refused"}) => duty'[r] = <<>>
    <3>1. Has(pipe'[r], {"refused"}) => line \in {"refused"}
      BY <1>1, <2>1
    <3>2. line = "refused" => duty'[r] = <<>>
      BY <1>1 DEF Ends
    <3> QED BY <3>1, <3>2
  <2> QED BY <1>u, <2>1, <2>2, <2>3 DEF RefusalInv
<1>5. EndInv(r)'
  <2>1. ~ Has(pipe[r], Ends) /\ reader[r] \notin Ends /\ turn[r] = "none" /\ LastOnly(duty[r], {"end"})
    BY <1>1, <1>2, <1>i DEF EndInv
  <2>2. LastOnly(pipe'[r], Ends) /\ LastOnly(duty'[r], {"end"})
    BY <1>1, <2>1
  <2>3. line \in Ends => Head(duty[r]) \in {"end"}
    BY <1>1 DEF Ends
  <2>4. Has(pipe'[r], Ends) => Head(duty[r]) \in {"end"}
    BY <1>1, <2>1, <2>3
  <2>5. Has(pipe'[r], Ends) => duty'[r] = <<>>
    BY <1>1, <2>1, <2>4
  <2>6. Early(r) => ~ Has(duty'[r], {"end"}) /\ ~ Has(pipe'[r], Ends)
    <3>1. Early(r) => ~ Has(duty[r], {"end"})
      BY <1>i DEF EndInv
    <3> QED BY <1>1, <2>4, <3>1
  <2> QED BY <1>s, <1>u, <2>1, <2>2, <2>5, <2>6 DEF EndInv
<1>6. StageInv(r)'
  BY <1>i, <1>s, <1>u DEF StageInv, Untouched
<1>7. \A x \in Runs : x # r => SameLines(x)
  BY <1>1, <1>u DEF SameLines
<1> QED BY <1>3, <1>4, <1>5, <1>6, <1>7, <1>u, LinesOthers DEF LinesOf

LEMMA ReadLines ==
  ASSUME Sound, \A x \in Runs : LinesOf(x), NEW r \in Runs, Read(r)
  PROVE  \A x \in Runs : LinesOf(x)'
<1>t. TypeOK
  BY DEF Sound
<1>i. RequestInv(r) /\ RefusalInv(r) /\ EndInv(r) /\ StageInv(r)
  BY DEF LinesOf
<1>u. /\ reader[r] = "scan" /\ pipe[r] # <<>> /\ UNCHANGED driverVars
      /\ UNCHANGED <<run, at, outcome, server, duty, hooked, shut, turn, sealed, watcher>>
  BY DEF Read, driverVars, processVars, channelVars
<1> DEFINE line == Head(pipe[r])
<1>1. /\ pipe'[r] = Tail(pipe[r]) /\ \A x \in Runs : x # r => pipe'[x] = pipe[x]
      /\ line \in Lines
  BY <1>t, <1>u, TypeParts DEF Read
<1>2. /\ \A x \in Runs : x # r => call'[x] = call[x] /\ reader'[x] = reader[x]
      /\ call'[r] = IF line \in Responses /\ call[r] = "waiting" THEN line ELSE call[r]
      /\ reader'[r] = IF line \notin Responses /\ hooked[r] THEN line ELSE "scan"
  <2>1. Responses = {"granted", "refused"}
    BY DEF Responses
  <2>4. DOMAIN call = Runs /\ DOMAIN reader = Runs
    BY <1>t DEF TypeOK
  <2>2. CASE line \in Responses
    <3>1. reader' = reader /\ call' = [call EXCEPT ![r] = IF @ = "waiting" THEN line ELSE @]
      BY <2>1, <2>2 DEF Read
    <3> QED BY <1>u, <2>2, <2>4, <3>1
  <2>3. CASE line \notin Responses
    <3>1. call' = call /\ reader' = IF hooked[r] THEN [reader EXCEPT ![r] = line] ELSE reader
      BY <2>1, <2>3 DEF Read
    <3> QED BY <1>u, <2>3, <2>4, <3>1
  <2> QED BY <2>2, <2>3
<1>3. /\ \A S : Has(pipe[r], S) <=> Has(pipe'[r], S) \/ line \in S
      /\ \A S : Once(pipe[r], S) => Once(pipe'[r], S) /\ (line \in S => ~ Has(pipe'[r], S))
      /\ \A S : LastOnly(pipe[r], S) =>
                   LastOnly(pipe'[r], S) /\ (line \in S => pipe'[r] = <<>>)
  BY <1>t, <1>u, <1>1, TypeParts, TailHas
<1> HIDE DEF line
<1>4. ~ Quiet(r)
  BY <1>u DEF Quiet
<1>c. (call'[r] = "none" <=> call[r] = "none") /\ (call'[r] = "waiting" => call[r] = "waiting")
  BY <1>1, <1>2 DEF Responses
<1>s. (New(r)' <=> New(r)) /\ (Active(r)' <=> Active(r)) /\ (Early(r)' <=> Early(r))
  BY <1>u, <1>c DEF New, Active, Early
<1>5. RequestInv(r)'
  <2>1. Once(pipe'[r], Responses) /\ Once(duty'[r], Requests)
    BY <1>3, <1>i, <1>u DEF RequestInv
  <2>2. Has(duty[r], Requests) => ~ Has(pipe'[r], Responses)
    BY <1>3, <1>i DEF RequestInv
  <2>3. Has(duty[r], Requests) \/ Has(pipe'[r], Responses) =>
          call'[r] = "waiting" \/ outcome[r] # "none"
    BY <1>2, <1>3, <1>i DEF RequestInv
  <2> QED BY <1>c, <1>i, <1>s, <1>u, <2>1, <2>2, <2>3 DEF RequestInv
<1>6. RefusalInv(r)'
  <2>1. LastOnly(pipe'[r], {"refused"}) /\ (Has(pipe'[r], {"refused"}) => duty'[r] = <<>>)
    BY <1>3, <1>i, <1>u DEF RefusalInv
  <2>2. ASSUME call'[r] = "refused" PROVE Quiet(r)'
    <3>1. line = "refused"
      BY <1>2, <1>4, <1>i, <2>2 DEF RefusalInv
    <3>2. pipe'[r] = <<>> /\ duty[r] = <<>>
      BY <1>3, <1>i, <3>1 DEF RefusalInv
    <3>3. reader'[r] = "scan"
      BY <1>2, <3>1 DEF Responses
    <3> QED BY <1>u, <3>2, <3>3 DEF Quiet
  <2> QED BY <2>1, <2>2 DEF RefusalInv
<1>7. EndInv(r)'
  <2>1. LastOnly(pipe'[r], Ends) /\ (Has(pipe'[r], Ends) => duty[r] = <<>>) /\ turn[r] = "none"
    BY <1>3, <1>4, <1>i DEF EndInv
  <2>2. reader'[r] \in Ends => line \in Ends
    BY <1>2 DEF Ends
  <2>3. line \in Ends => pipe'[r] = <<>> /\ duty[r] = <<>>
    BY <1>3, <1>i DEF EndInv
  <2>4. Early(r) => ~ Has(pipe'[r], Ends) /\ line \notin Ends /\ ~ Has(duty[r], {"end"})
    BY <1>3, <1>i DEF EndInv
  <2>5. LastOnly(duty[r], {"end"})
    BY <1>i DEF EndInv
  <2> QED BY <1>s, <1>u, <2>1, <2>2, <2>3, <2>4, <2>5 DEF EndInv
<1>8. StageInv(r)'
  BY <1>4, <1>i, <1>s, <1>u DEF StageInv, Untouched
<1>9. \A x \in Runs : x # r => SameLines(x)
  BY <1>1, <1>2, <1>u DEF SameLines
<1> QED BY <1>5, <1>6, <1>7, <1>8, <1>9, <1>u, LinesOthers DEF LinesOf

LEMMA ReaderLines ==
  ASSUME Sound, \A x \in Runs : LinesOf(x), NEW r \in Runs,
         Forward(r) \/ TurnOver(r) \/ ReaderEnds(r)
  PROVE  \A x \in Runs : LinesOf(x)'
<1>t. TypeOK
  BY DEF Sound
<1>i. RequestInv(r) /\ RefusalInv(r) /\ EndInv(r) /\ StageInv(r)
  BY DEF LinesOf
<1>u. /\ UNCHANGED driverVars
      /\ UNCHANGED <<run, at, outcome, server, duty, pipe, hooked, call, sealed, watcher>>
  BY DEF Forward, TurnOver, ReaderEnds, driverVars, processVars, channelVars
<1>s. (New(r)' <=> New(r)) /\ (Active(r)' <=> Active(r)) /\ (Early(r)' <=> Early(r))
  BY <1>u DEF New, Active, Early
<1>1. \A x \in Runs : x # r => SameLines(x)
  <2>1. CASE Forward(r)
    BY <1>t, <1>u, <2>1 DEF SameLines, Forward, TypeOK
  <2>2. CASE TurnOver(r)
    BY <1>t, <1>u, <2>2 DEF SameLines, TurnOver, TypeOK
  <2>3. CASE ReaderEnds(r)
    BY <1>t, <1>u, <2>3 DEF SameLines, ReaderEnds, TypeOK
  <2> QED BY <2>1, <2>2, <2>3
<1>2. RequestInv(r)'
  BY <1>i, <1>s, <1>u DEF RequestInv
<1>3. CASE Forward(r)
  <2>1. ~ Quiet(r) /\ turn' = turn /\ reader'[r] \in {"scan", reader[r]} /\ reader[r] \notin Ends
    BY <1>3, <1>t DEF Quiet, Forward, TypeOK, Ends
  <2>2. RefusalInv(r)'
    BY <1>i, <1>u, <2>1 DEF RefusalInv
  <2>3. EndInv(r)'
    BY <1>i, <1>s, <1>u, <2>1 DEF EndInv, Ends
  <2>4. StageInv(r)'
    BY <1>i, <1>s, <1>u, <2>1 DEF StageInv, Untouched
  <2> QED BY <1>1, <1>2, <1>u, <2>2, <2>3, <2>4, LinesOthers DEF LinesOf
<1>4. CASE TurnOver(r)
  <2>1. ~ Quiet(r) /\ reader[r] \in Ends /\ reader'[r] = "scan"
    BY <1>4, <1>t DEF Quiet, TurnOver, TypeOK, Ends
  <2>2. duty[r] = <<>> /\ pipe[r] = <<>> /\ Quiet(r)'
    BY <1>i, <1>u, <2>1 DEF EndInv, Quiet
  <2>3. RefusalInv(r)'
    BY <1>i, <1>u, <2>1 DEF RefusalInv
  <2>4. EndInv(r)'
    BY <1>i, <1>s, <1>u, <2>1, <2>2 DEF EndInv, Ends
  <2>5. StageInv(r)'
    BY <1>i, <1>s, <1>u, <2>1 DEF StageInv, Untouched
  <2> QED BY <1>1, <1>2, <1>u, <2>3, <2>4, <2>5, LinesOthers DEF LinesOf
<1>5. CASE ReaderEnds(r)
  <2>1. reader[r] = "scan" /\ reader'[r] = "ended" /\ turn' = turn /\ server[r] = "dead"
    BY <1>5, <1>t DEF ReaderEnds, TypeOK
  <2>2. Quiet(r)' <=> Quiet(r)
    BY <1>u, <2>1 DEF Quiet
  <2>3. RefusalInv(r)'
    BY <1>i, <1>u, <2>2 DEF RefusalInv
  <2>4. EndInv(r)'
    BY <1>i, <1>s, <1>u, <2>1, <2>2 DEF EndInv, Ends
  <2>5. StageInv(r)'
    BY <1>i, <1>s, <1>u, <2>1 DEF StageInv, Untouched
  <2> QED BY <1>1, <1>2, <1>u, <2>3, <2>4, <2>5, LinesOthers DEF LinesOf
<1> QED BY <1>3, <1>4, <1>5

\* The app server is killed or exits, and waitTurnDone goes on.
LEMMA ClosingLines ==
  ASSUME Sound, \A x \in Runs : LinesOf(x), NEW r \in Runs,
         ServerExits(r) \/ Kill(r) \/ Watcher(r)
  PROVE  \A x \in Runs : LinesOf(x)'
<1>t. TypeOK
  BY DEF Sound
<1>i. RequestInv(r) /\ RefusalInv(r) /\ EndInv(r) /\ StageInv(r)
  BY DEF LinesOf
<1>u. /\ UNCHANGED driverVars
      /\ UNCHANGED <<run, at, outcome, pipe, reader, call, turn>>
  BY DEF ServerExits, Kill, Watcher, WatcherWakes, CloseServer, CloseEvents, driverVars, readerVars
<1>s. (New(r)' <=> New(r)) /\ (Active(r)' <=> Active(r)) /\ (Early(r)' <=> Early(r))
  BY <1>u DEF New, Active, Early
<1>1. \A x \in Runs : x # r => SameLines(x)
  BY <1>t, <1>u, KilledTyped DEF SameLines, ServerExits, Kill, Watcher, WatcherWakes, CloseServer,
     CloseEvents, TypeOK, readerVars, channelVars, processVars
<1>2. duty'[r] = duty[r] \/ duty'[r] = <<>>
  BY <1>t, KilledTyped DEF ServerExits, Kill, Watcher, WatcherWakes, CloseServer, CloseEvents,
     processVars
<1>3. \A S : /\ Has(duty'[r], S) => Has(duty[r], S)
             /\ Once(duty[r], S) => Once(duty'[r], S)
             /\ LastOnly(duty[r], S) => LastOnly(duty'[r], S)
  BY <1>2, EmptyHas
<1>4. Quiet(r) => Quiet(r)'
  BY <1>2, <1>u DEF Quiet
<1>5. RequestInv(r)'
  BY <1>3, <1>i, <1>s, <1>u DEF RequestInv
<1>6. RefusalInv(r)'
  BY <1>2, <1>4, <1>i, <1>u DEF RefusalInv
<1>7. EndInv(r)'
  BY <1>2, <1>3, <1>4, <1>i, <1>s, <1>u DEF EndInv
<1>8. StageInv(r)'
  <2>1. CASE ServerExits(r) \/ Kill(r)
    <3>1. server[r] = "up" /\ UNCHANGED <<hooked, watcher, sealed>>
      BY <2>1 DEF ServerExits, Kill, readerVars, channelVars
    <3> QED BY <1>i, <1>s, <3>1 DEF StageInv, Untouched
  <2>2. CASE Watcher(r)
    <3>1. ~ New(r) /\ ~ Active(r)
      BY <1>i, <2>2 DEF StageInv, Untouched, Watcher, WatcherWakes, CloseServer, CloseEvents
    <3>2. watcher'[r] \in {"wait", "close"} => hooked'[r]
      BY <1>i, <1>t, <2>2 DEF StageInv, Watcher, WatcherWakes, CloseServer, CloseEvents, TypeOK,
         readerVars
    <3> QED BY <1>s, <3>1, <3>2 DEF StageInv
  <2> QED BY <2>1, <2>2
<1> QED BY <1>1, <1>5, <1>6, <1>7, <1>8, <1>u, LinesOthers DEF LinesOf

\* A step of RunInvocation, for the other runs.
LEMMA LinesOfRun ==
  ASSUME \A x \in Runs : LinesOf(x), NEW r \in Runs, r = run, run' = run,
         \A x \in Runs : x # r => SameLines(x) /\ outcome'[x] = outcome[x],
         LinesOf(r)'
  PROVE  \A x \in Runs : LinesOf(x)'
<1> SUFFICES ASSUME NEW x \in Runs, x # r PROVE LinesOf(x)'
  OBVIOUS
<1>1. LinesOf(x) /\ SameLines(x) /\ outcome'[x] = outcome[x]
  OBVIOUS
<1>2. (New(x)' <=> New(x)) /\ ~ Active(x) /\ ~ Active(x)' /\ ~ Early(x)'
  BY DEF New, Active, Early
<1> QED BY <1>1, <1>2, LinesFrame

LEMMA InvokeLines ==
  ASSUME Sound, \A x \in Runs : LinesOf(x), Invoke
  PROVE  \A x \in Runs : LinesOf(x)'
<1>0. TypeOK /\ run \in Runs /\ outcome[run] = "none" /\ at # "idle"
  BY DEF Sound, BaseInv, Invoke, ServerStarts, ServerFails, Call, ThreadReady, TurnStarted,
     InvokeFails
<1>r. PICK r \in Runs : r = run
  BY <1>0
<1>e. r = run /\ run' = run /\ TypeOK /\ outcome[r] = "none" /\ at # "idle"
  BY <1>0, <1>r DEF Invoke, ServerStarts, ServerFails, Call, ThreadReady, TurnStarted, InvokeFails,
     driverVars
<1>n. ~ r > run /\ ~ r > run'
  BY <1>e, RunsAreNumbers
<1>i. RequestInv(r) /\ RefusalInv(r) /\ EndInv(r) /\ StageInv(r)
  BY DEF LinesOf
<1>1. CASE ServerStarts
  <2>1. /\ Untouched(r) /\ at' = "thread"
        /\ UNCHANGED <<outcome, duty, pipe, call, shut, turn, sealed, watcher>>
        /\ server'[r] = "up" /\ reader'[r] = "scan" /\ hooked'[r]
    BY <1>1, <1>e, <1>i DEF ServerStarts, StageInv, New, TypeOK, channelVars
  <2>2. /\ duty'[r] = <<>> /\ pipe'[r] = <<>> /\ call'[r] = "none" /\ turn'[r] = "none"
        /\ r \notin sealed' /\ watcher'[r] = "none"
    BY <2>1 DEF Untouched, Quiet
  <2>3. \A x \in Runs : x # r => SameLines(x) /\ outcome'[x] = outcome[x]
    BY <1>1, <1>e, <2>1 DEF SameLines, ServerStarts, TypeOK
  <2>4. RequestInv(r)'
    BY <2>2, EmptyHas DEF RequestInv
  <2>5. RefusalInv(r)'
    BY <2>2, EmptyHas DEF RefusalInv
  <2>6. EndInv(r)'
    BY <2>1, <2>2, EmptyHas DEF EndInv, Ends, Quiet
  <2>7. StageInv(r)'
    BY <1>n, <2>1, <2>2 DEF StageInv, New
  <2> QED BY <1>e, <2>3, <2>4, <2>5, <2>6, <2>7, LinesOfRun DEF LinesOf
<1>2. CASE ServerFails
  <2>1. /\ UNCHANGED <<server, duty, pipe, reader, hooked, call, shut, turn, sealed, watcher>>
        /\ at = "start" /\ at' = "idle" /\ outcome'[r] = "refused"
        /\ \A x \in Runs : x # r => outcome'[x] = outcome[x]
    BY <1>2, <1>e, ReturnsTyped DEF ServerFails, processVars, readerVars
  <2>2. \A x \in Runs : SameLines(x)
    BY <2>1 DEF SameLines
  <2>3. ~ Active(r) /\ ~ Active(r)' /\ ~ Early(r)' /\ ~ New(r)'
    BY <1>n, <2>1 DEF Active, Early, New
  <2>4. LinesOf(r)'
    BY <2>1, <2>2, <2>3, LinesFrame
  <2> QED BY <1>e, <2>1, <2>2, <2>4, LinesOfRun
<1>3. CASE Call
  <2>1. /\ UNCHANGED <<at, outcome, server, pipe, reader, hooked, shut, turn, sealed, watcher>>
        /\ call[r] = "none" /\ call'[r] = "waiting" /\ at \in {"thread", "turn"}
        /\ \A x \in Runs : x # r => SameLines(x) /\ outcome'[x] = outcome[x]
    BY <1>3, <1>e DEF Call, TypeOK, SameLines, driverVars, channelVars
  <2>2. PICK d \in Duties : duty'[r] = duty[r] \o d
    BY <1>3, <1>e DEF Call, TypeOK
  <2>3. /\ d \in Seq(Duty) /\ Has(d, Requests) /\ Once(d, Requests) /\ LastOnly(d, {"end"})
        /\ Has(d, {"end"}) <=> at = "turn"
        /\ duty[r] \in Seq(Duty) /\ d # <<>>
    BY <1>e, <2>1, DutiesHave, TypeParts
  <2>4. /\ \A S : Has(duty'[r], S) <=> Has(duty[r], S) \/ Has(d, S)
        /\ \A S : ~ Has(duty[r], S) /\ Once(d, S) => Once(duty'[r], S)
        /\ \A S : ~ Has(duty[r], S) /\ LastOnly(d, S) => LastOnly(duty'[r], S)
    BY <2>2, <2>3, JoinHas
  <2>5. Early(r) /\ Active(r) /\ Active(r)' /\ ~ New(r)'
        /\ (Early(r)' => at = "thread")
    BY <1>e, <1>n, <2>1 DEF Early, Active, New
  <2>6. /\ ~ Has(duty[r], {"end"}) /\ ~ Has(pipe[r], Ends) /\ reader[r] \notin Ends
        /\ turn[r] = "none"
    BY <1>i, <2>5 DEF EndInv
  <2>7. ~ Has(duty[r], Requests) /\ ~ Has(pipe[r], Responses)
    BY <1>e, <1>i, <2>1 DEF RequestInv
  <2>8. ~ Has(pipe[r], {"refused"})
    BY <2>7 DEF Has, Responses
  <2>9. RequestInv(r)'
    BY <1>i, <2>1, <2>3, <2>4, <2>5, <2>7 DEF RequestInv
  <2>10. RefusalInv(r)'
    BY <1>i, <2>1, <2>8 DEF RefusalInv
  <2>11. EndInv(r)'
    <3>1. LastOnly(duty'[r], {"end"}) /\ LastOnly(pipe[r], Ends)
      BY <1>i, <2>3, <2>4, <2>6 DEF EndInv
    <3>2. Early(r)' => ~ Has(duty'[r], {"end"})
      BY <2>3, <2>4, <2>5, <2>6
    <3> QED BY <2>1, <2>6, <3>1, <3>2 DEF EndInv
  <2>12. StageInv(r)'
    BY <1>i, <2>1, <2>5 DEF StageInv
  <2> QED BY <1>e, <2>1, <2>9, <2>10, <2>11, <2>12, LinesOfRun DEF LinesOf
<1>4. CASE ThreadReady \/ TurnStarted
  <2>1. /\ UNCHANGED <<outcome, server, duty, pipe, reader, hooked, shut, turn, sealed>>
        /\ call[r] = "granted" /\ call'[r] = "none" /\ at \in {"thread", "turn"}
        /\ \A x \in Runs : x # r => SameLines(x) /\ outcome'[x] = outcome[x]
    <3>1. CASE ThreadReady
      BY <3>1, <1>e DEF ThreadReady, TypeOK, SameLines, processVars
    <3>2. CASE TurnStarted
      BY <3>2, <1>e DEF TurnStarted, TypeOK, SameLines, processVars
    <3> QED BY <1>4, <3>1, <3>2
  <2>2. Active(r) /\ ~ New(r)'
    BY <1>4, <1>e, <1>n, <2>1 DEF Active, New, ThreadReady, TurnStarted
  <2>3. ~ Has(duty[r], Requests) /\ ~ Has(pipe[r], Responses)
    BY <1>e, <1>i, <2>1 DEF RequestInv
  <2>4. RequestInv(r)'
    BY <1>i, <2>1, <2>3 DEF RequestInv
  <2>5. RefusalInv(r)'
    BY <1>i, <2>1 DEF RefusalInv
  <2>6. Early(r)' => Early(r)
    BY <1>4, <1>e DEF Early, ThreadReady, TurnStarted
  <2>7. EndInv(r)'
    <3>1. Quiet(r)' <=> Quiet(r)
      BY <2>1 DEF Quiet
    <3> QED BY <1>i, <2>1, <2>6, <3>1 DEF EndInv
  <2>8. StageInv(r)'
    <3>1. hooked[r] /\ watcher[r] = "none" /\ r \notin sealed
      BY <1>i, <2>2 DEF StageInv
    <3>2. CASE ThreadReady
      <4>1. watcher' = watcher
        BY <3>2 DEF ThreadReady
      <4> QED BY <2>1, <2>2, <3>1, <4>1 DEF StageInv
    <3>3. CASE TurnStarted
      <4>1. at' = "consume"
        BY <3>3 DEF TurnStarted
      <4>2. ~ Active(r)'
        BY <4>1 DEF Active
      <4> QED BY <2>1, <2>2, <3>1, <4>2 DEF StageInv
    <3> QED BY <1>4, <3>2, <3>3
  <2> QED BY <1>e, <2>1, <2>4, <2>5, <2>7, <2>8, LinesOfRun DEF LinesOf
<1>5. CASE InvokeFails
  <2>1. /\ UNCHANGED <<pipe, reader, hooked, turn, watcher>>
        /\ Killed(r) /\ at' = "idle" /\ outcome'[r] = "refused"
        /\ \A x \in Runs : x # r => outcome'[x] = outcome[x]
        /\ call'[r] = "none" /\ at \in {"thread", "turn"}
    BY <1>5, <1>e, ReturnsTyped DEF InvokeFails, TypeOK
  <2>2. /\ duty'[r] = <<>>
        /\ \A x \in Runs : x # r => server'[x] = server[x] /\ duty'[x] = duty[x]
    BY <1>e, <2>1, KilledTyped
  <2>3. \A x \in Runs : x # r => SameLines(x) /\ outcome'[x] = outcome[x]
    BY <1>5, <1>e, <2>1, <2>2 DEF InvokeFails, TypeOK, SameLines
  <2>4. ~ New(r)' /\ ~ Active(r)' /\ ~ Early(r)' /\ Active(r)
    BY <1>e, <1>n, <2>1 DEF New, Active, Early
  <2>5. RequestInv(r)'
    BY <1>i, <2>1, <2>2, EmptyHas DEF RequestInv
  <2>6. RefusalInv(r)'
    BY <1>i, <2>1, <2>2 DEF RefusalInv
  <2>7. EndInv(r)'
    BY <1>i, <2>1, <2>2, <2>4, EmptyHas DEF EndInv, Quiet
  <2>8. StageInv(r)'
    BY <1>i, <2>1, <2>4 DEF StageInv
  <2> QED BY <1>e, <2>3, <2>5, <2>6, <2>7, <2>8, LinesOfRun DEF LinesOf
<1> QED BY <1>1, <1>2, <1>3, <1>4, <1>5 DEF Invoke

LEMMA DriverLines ==
  ASSUME Sound, \A x \in Runs : LinesOf(x), Begin \/ Consume \/ Cancel
  PROVE  \A x \in Runs : LinesOf(x)'
<1>1. /\ \A x \in Runs : SameLines(x)
      /\ \A x \in Runs : outcome[x] # "none" => outcome'[x] # "none"
      /\ \A x \in Runs : New(x)' => New(x)
      /\ \A x \in Runs : Early(x)' => Early(x)
      /\ \A x \in Runs : Active(x)' <=> Active(x)
  <2>1. CASE Begin
    <3>1. /\ \A x \in Runs : SameLines(x) /\ outcome' = outcome
          /\ at = "idle" /\ at' = "start" /\ run' = run + 1
      BY <2>1 DEF Begin, SameLines, processVars, readerVars, channelVars
    <3>2. run \in Nat
      BY RunNumbers DEF Sound
    <3>3. \A x \in Runs : New(x)' => New(x)
      BY <3>1, <3>2, RunsAreNumbers DEF New
    <3> QED BY <3>1, <3>3 DEF Early, Active
  <2>2. CASE Consume
    <3>1. /\ \A x \in Runs : SameLines(x) /\ run' = run /\ at = "consume"
          /\ at' \in {"consume", "idle"} /\ run \in Runs
      BY <2>2 DEF Consume, Take, EmitFails, Returns, SameLines, processVars, readerVars, Sound,
         BaseInv
    <3>2. \A x \in Runs : outcome[x] # "none" => outcome'[x] # "none"
      BY <2>2, <3>1 DEF Consume, Take, EmitFails, Returns, Sound, TypeOK
    <3> QED BY <3>1, <3>2 DEF Early, Active, New
  <2>3. CASE Cancel
    <3>1. UNCHANGED <<run, at, outcome, call>> /\ \A x \in Runs : SameLines(x)
      BY <2>3 DEF Cancel, SameLines, driverVars, processVars, readerVars, channelVars
    <3> QED BY <3>1 DEF Early, Active, New
  <2> QED BY <2>1, <2>2, <2>3
<1> QED BY <1>1, LinesFrame

LEMMA LinesInvariant == Spec => []LinesInv
<1>0. LinesInv <=> \A x \in Runs : LinesOf(x)
  BY DEF LinesInv, LinesOf
<1>00. LinesInv' <=> \A x \in Runs : LinesOf(x)'
  BY DEF LinesInv, LinesOf
<1>1. Init => LinesInv
  <2> SUFFICES ASSUME Init, NEW r \in Runs PROVE LinesOf(r)
    BY <1>0
  <2>1. /\ Untouched(r) /\ outcome[r] = "none" /\ ~ Active(r) /\ ~ Early(r)
        /\ duty[r] = <<>> /\ pipe[r] = <<>> /\ reader[r] = "none" /\ call[r] = "none"
        /\ turn[r] = "none" /\ watcher[r] = "none"
    BY DEF Init, Each, Untouched, Quiet, Active, Early
  <2> QED BY <2>1, EmptyHas DEF LinesOf, RequestInv, RefusalInv, EndInv, StageInv, Ends
<1>2. Sound /\ LinesInv /\ [Next]_vars => LinesInv'
  <2>1. ASSUME LinesInv, UNCHANGED vars PROVE LinesInv'
    <3>1. \A x \in Runs : /\ SameLines(x) /\ outcome'[x] = outcome[x]
                          /\ New(x)' <=> New(x)
                          /\ Early(x)' <=> Early(x)
                          /\ Active(x)' <=> Active(x)
      BY <2>1 DEF SameLines, vars, driverVars, processVars, readerVars, channelVars, New, Early,
         Active
    <3> QED BY <1>0, <1>00, <2>1, <3>1, LinesFrame
  <2>2. ASSUME Sound, LinesInv, Next PROVE LinesInv'
    BY <1>0, <1>00, <2>2, InvokeLines, DriverLines, ServeLines, ReadLines, ReaderLines, ClosingLines
       DEF Next, Reader
  <2> QED BY <2>1, <2>2
<1> QED BY <1>1, <1>2, CodexTyped, PTL DEF Spec

-----------------------------------------------------------------------------
(* A channel is closed under its reader only after trouble.                 *)

LEMMA TroubleFrame ==
  ASSUME NEW x \in Runs, TroubleInv(x), SameLines(x), outcome'[x] = outcome[x],
         Trouble(x) => Trouble(x)', Has(events'[x], Ends) => Has(events[x], Ends)
  PROVE  TroubleInv(x)'
<1>1. (Quiet(x)' <=> Quiet(x)) /\ (Closing(x)' <=> Closing(x))
  BY DEF SameLines, Quiet, Closing
<1> QED BY <1>1 DEF TroubleInv, SameLines

LEMMA TroubleStays ==
  ASSUME Sound, Next, NEW x \in Runs, Trouble(x)
  PROVE  Trouble(x)'
BY DEF Trouble, Next, Begin, Invoke, ServerStarts, ServerFails, Call, ThreadReady, TurnStarted,
   InvokeFails, Consume, Take, EmitFails, Cancel, Serve, ServerExits, Kill, Reader, Read, Forward,
   TurnOver, ReaderEnds, Watcher, WatcherWakes, CloseServer, CloseEvents, faultVars

\* The steps of RunInvocation and of Invoke.
LEMMA InvokeTrouble ==
  ASSUME Sound, LinesInv, \A x \in Runs : TroubleInv(x), Next, Begin \/ Invoke
  PROVE  \A x \in Runs : TroubleInv(x)'
<1>s. \A x \in Runs : Trouble(x) => Trouble(x)'
  BY TroubleStays
<1>0. CASE Begin
  BY <1>0, <1>s, TroubleFrame DEF Begin, SameLines, processVars, readerVars, channelVars
<1>x. CASE Invoke
  <2>0. TypeOK /\ run \in Runs /\ outcome[run] = "none" /\ at # "idle"
    BY <1>x DEF Sound, BaseInv, Invoke, ServerStarts, ServerFails, Call, ThreadReady, TurnStarted,
       InvokeFails
  <2>r. PICK r \in Runs : r = run
    BY <2>0
  <2>e. r = run /\ TypeOK /\ outcome[r] = "none" /\ at # "idle"
    BY <2>0, <2>r
  <2>i. RefusalInv(r) /\ StageInv(r) /\ RequestInv(r) /\ TroubleInv(r)
    BY DEF LinesInv
  <2>f. ASSUME \A x \in Runs : x # r => /\ SameLines(x) /\ outcome'[x] = outcome[x]
                                       /\ events'[x] = events[x],
               TroubleInv(r)'
        PROVE  \A x \in Runs : TroubleInv(x)'
    BY <1>s, <2>f, TroubleFrame
  <2>1. CASE ServerStarts
    <3>1. /\ Untouched(r) /\ UNCHANGED <<outcome, events, shut, sealed, watcher, turn>>
          /\ server'[r] = "up"
      BY <2>1, <2>e, <2>i DEF ServerStarts, StageInv, New, TypeOK, channelVars
    <3>2. TroubleInv(r)'
      BY <2>i, <2>e, <3>1 DEF TroubleInv, Untouched, Closing
    <3>3. \A x \in Runs : x # r => SameLines(x)
      BY <2>1, <2>e, <3>1 DEF ServerStarts, SameLines, TypeOK
    <3> QED BY <2>f, <3>1, <3>2, <3>3
  <2>2. CASE ServerFails
    <3>1. /\ Untouched(r) /\ outcome'[r] = "refused" /\ events'[r] = <<>>
          /\ \A x \in Runs : SameLines(x)
          /\ \A x \in Runs : x # r => outcome'[x] = outcome[x] /\ events'[x] = events[x]
      BY <2>2, <2>e, <2>i, ReturnsTyped DEF ServerFails, StageInv, New, processVars, readerVars,
         SameLines
    <3>2. TroubleInv(r)'
      BY <3>1, EmptyHas DEF TroubleInv, Untouched, Closing, SameLines
    <3> QED BY <2>f, <3>1, <3>2
  <2>3. CASE Call
    <3>1. /\ Active(r) /\ UNCHANGED <<outcome, events, server, shut, sealed, watcher, turn>>
          /\ \A x \in Runs : x # r => SameLines(x)
      BY <2>3, <2>e DEF Call, Active, SameLines, TypeOK, driverVars, channelVars
    <3>2. r \notin sealed
      BY <2>i, <3>1 DEF StageInv
    <3>3. TroubleInv(r)'
      BY <1>s, <2>i, <3>1, <3>2 DEF TroubleInv, Closing
    <3> QED BY <2>f, <3>1, <3>3 DEF Call
  <2>4. CASE ThreadReady
    <3>1. /\ UNCHANGED <<outcome, server, shut, sealed, watcher, turn, duty, pipe, reader>>
          /\ \A x \in Runs : x # r => SameLines(x) /\ events'[x] = events[x]
          /\ events'[r] = events[r] \/ events'[r] = Append(events[r], "session")
      BY <2>4, <2>e DEF ThreadReady, SameLines, TypeOK, processVars
    <3>2. events[r] \in Seq(Lines) /\ "session" \in Lines /\ "session" \notin Ends
      BY <2>e, TypeParts DEF Lines, Ends
    <3>3. Has(events'[r], Ends) => Has(events[r], Ends)
      BY <3>1, <3>2, AppendHas
    <3>4. Quiet(r)' <=> Quiet(r)
      BY <3>1 DEF Quiet
    <3>5. TroubleInv(r)'
      BY <1>s, <2>i, <3>1, <3>3, <3>4 DEF TroubleInv, Closing
    <3> QED BY <2>f, <3>1, <3>5
  <2>5. CASE TurnStarted
    <3>1. /\ Active(r)
          /\ UNCHANGED <<outcome, events, server, shut, sealed, turn, duty, pipe, reader>>
          /\ \A x \in Runs : x # r => SameLines(x)
          /\ watcher'[r] = "wait"
      BY <2>5, <2>e DEF TurnStarted, Active, SameLines, TypeOK, processVars
    <3>2. watcher[r] = "none" /\ r \notin sealed
      BY <2>i, <3>1 DEF StageInv
    <3>3. TroubleInv(r)'
      BY <1>s, <2>i, <2>e, <3>1, <3>2 DEF TroubleInv, Closing
    <3> QED BY <2>f, <3>1, <3>3
  <2>6. CASE InvokeFails
    <3>1. /\ Active(r) /\ UNCHANGED <<pipe, reader, turn, watcher>>
          /\ Killed(r) /\ outcome'[r] = "refused" /\ events'[r] = <<>>
          /\ \A x \in Runs : x # r => outcome'[x] = outcome[x] /\ events'[x] = events[x]
      BY <2>6, <2>e, ReturnsTyped DEF InvokeFails, Active
    <3>2. /\ duty'[r] = <<>>
          /\ \A x \in Runs : x # r => server'[x] = server[x] /\ duty'[x] = duty[x]
      BY <2>e, <3>1, KilledTyped
    <3>3. \A x \in Runs : x # r => SameLines(x)
      BY <2>6, <2>e, <3>1, <3>2 DEF InvokeFails, SameLines, TypeOK
    <3>4. watcher[r] = "none"
      BY <2>i, <3>1 DEF StageInv
    <3>5. Trouble(r) \/ Quiet(r)
      <4>1. CASE call[r] = "refused"
        BY <2>i, <4>1 DEF RefusalInv
      <4>2. CASE shut[r] \/ server[r] = "dead"
        BY <2>i, <2>e, <3>4, <4>2 DEF TroubleInv
      <4>3. CASE ContextOver(run)
        BY <2>e, <4>3 DEF ContextOver, Trouble
      <4> QED BY <2>6, <2>e, <4>1, <4>2, <4>3 DEF InvokeFails
    <3>6. Trouble(r)' \/ Quiet(r)'
      BY <1>s, <3>1, <3>2, <3>5 DEF Quiet
    <3>7. TroubleInv(r)'
      BY <3>1, <3>4, <3>6, EmptyHas DEF TroubleInv, Closing
    <3> QED BY <2>f, <3>1, <3>3, <3>7
  <2> QED BY <1>x, <2>1, <2>2, <2>3, <2>4, <2>5, <2>6 DEF Invoke
<1> QED BY <1>0, <1>x

LEMMA ConsumeTrouble ==
  ASSUME Sound, LinesInv, \A x \in Runs : TroubleInv(x), Next, Consume \/ Cancel
  PROVE  \A x \in Runs : TroubleInv(x)'
<1>s. \A x \in Runs : Trouble(x) => Trouble(x)'
  BY TroubleStays
<1>0. CASE Cancel
  BY <1>0, <1>s, TroubleFrame DEF Cancel, SameLines, driverVars, processVars, readerVars, channelVars
<1>x. CASE Consume
  <2>r. PICK r \in Runs : r = run /\ outcome[r] = "none" /\ TypeOK
    BY <1>x DEF Sound, BaseInv, Consume, Take, EmitFails
  <2>1. \A x \in Runs : SameLines(x)
    BY <1>x DEF Consume, Take, EmitFails, SameLines, processVars, readerVars
  <2>i. TroubleInv(r)
    OBVIOUS
  <2>2. ASSUME NEW how \in {"ok", "error"}, Returns(how), Trouble(r)' \/ Closing(r)
        PROVE  \A x \in Runs : TroubleInv(x)'
    <3>1. /\ outcome'[r] = how /\ events'[r] = <<>>
          /\ \A x \in Runs : x # r => outcome'[x] = outcome[x] /\ events'[x] = events[x]
      BY <2>2, <2>r, ReturnsTyped
    <3>2. (Quiet(r)' <=> Quiet(r)) /\ (Closing(r)' <=> Closing(r))
      BY <2>1 DEF SameLines, Quiet, Closing
    <3>3. TroubleInv(r)'
      BY <1>s, <2>1, <2>2, <2>i, <3>1, <3>2, EmptyHas DEF TroubleInv, SameLines
    <3> QED BY <1>s, <2>1, <3>1, <3>3, TroubleFrame
  <2>3. CASE Take
    <3>1. /\ events[r] \in Seq(Lines) /\ events[r] # <<>> /\ events \in [Runs -> Seq(Lines)]
      BY <2>3, <2>r, TypeParts DEF Take
    <3>2. \A S : Has(events[r], S) <=> Has(Tail(events[r]), S) \/ Head(events[r]) \in S
      BY <3>1, TailHas
    <3>3. CASE Head(events[r]) \in Ends
      <4>1. Closing(r)
        BY <2>i, <3>2, <3>3 DEF TroubleInv
      <4>2. Returns("ok") \/ Returns("error")
        BY <2>3, <2>r, <3>3 DEF Take, Ends
      <4> QED BY <2>2, <4>1, <4>2
    <3>4. CASE Head(events[r]) \notin Ends
      <4>1. UNCHANGED outcome /\ events' = [events EXCEPT ![r] = Tail(@)]
        BY <2>3, <2>r, <3>4 DEF Take, Ends
      <4>2. \A x \in Runs : Has(events'[x], Ends) => Has(events[x], Ends)
        BY <3>1, <3>2, <4>1
      <4> QED BY <1>s, <2>1, <4>1, <4>2, TroubleFrame
    <3> QED BY <3>3, <3>4
  <2>4. CASE EmitFails
    <3>1. Returns("error") /\ (r \in stopped \/ r \in broken') /\ stopped' = stopped
      BY <2>4, <2>r DEF EmitFails
    <3> QED BY <2>2, <3>1 DEF Trouble
  <2> QED BY <1>x, <2>3, <2>4 DEF Consume
<1> QED BY <1>0, <1>x

\* The app server, the reader and the watcher of a run.
LEMMA OthersTrouble ==
  ASSUME Sound, LinesInv, \A x \in Runs : TroubleInv(x), Next, NEW r \in Runs,
         Serve(r) \/ ServerExits(r) \/ Kill(r) \/ Reader(r) \/ Watcher(r)
  PROVE  \A x \in Runs : TroubleInv(x)'
<1>s. \A x \in Runs : Trouble(x) => Trouble(x)'
  BY TroubleStays
<1>i. RefusalInv(r) /\ EndInv(r) /\ StageInv(r) /\ TroubleInv(r)
  BY DEF LinesInv
<1>t. TypeOK
  BY DEF Sound
<1>o. outcome' = outcome
  BY DEF Serve, ServerExits, Kill, Reader, Watcher, Read, Forward, TurnOver, ReaderEnds,
     WatcherWakes, CloseServer, CloseEvents, driverVars
<1>f. ASSUME \A x \in Runs : x # r => SameLines(x) /\ events'[x] = events[x], TroubleInv(r)'
      PROVE  \A x \in Runs : TroubleInv(x)'
  BY <1>f, <1>o, <1>s, TroubleFrame
<1>1. CASE Serve(r)
  <2>3. /\ UNCHANGED <<server, reader, hooked, call, shut, turn, events, sealed, watcher>>
        /\ duty[r] # <<>>
    BY <1>1 DEF Serve, channelVars
  <2>4. \A x \in Runs : x # r => duty'[x] = duty[x] /\ pipe'[x] = pipe[x]
    BY <1>1, <1>t, AfterWrite DEF Serve
  <2>1. /\ UNCHANGED <<server, reader, hooked, call, shut, turn, events, sealed, watcher>>
        /\ ~ Quiet(r) /\ \A x \in Runs : x # r => SameLines(x)
    BY <2>3, <2>4 DEF Quiet, SameLines
  <2>2. TroubleInv(r)'
    BY <1>i, <1>o, <1>s, <2>1 DEF TroubleInv, Closing
  <2> QED BY <1>f, <2>1, <2>2
<1>2. CASE ServerExits(r) \/ Kill(r)
  <2>1. /\ Killed(r) /\ UNCHANGED <<pipe, reader, hooked, call, shut, turn, events, sealed, watcher>>
    BY <1>2 DEF ServerExits, Kill, readerVars, channelVars
  <2>2. /\ duty'[r] = <<>>
        /\ \A x \in Runs : x # r => SameLines(x)
    BY <1>t, <2>1, KilledTyped DEF SameLines
  <2>3. Quiet(r) => Quiet(r)'
    BY <2>1, <2>2 DEF Quiet
  <2>4. Trouble(r)' \/ outcome[r] # "none"
    BY <1>2, <1>s DEF ServerExits, Kill, ContextOver, Trouble
  <2>5. TroubleInv(r)'
    BY <1>i, <1>o, <1>s, <2>1, <2>3, <2>4 DEF TroubleInv, Closing
  <2> QED BY <1>f, <2>1, <2>2, <2>5
<1>3. CASE Read(r) \/ TurnOver(r)
  <2>1. /\ UNCHANGED <<server, duty, hooked, shut, events, sealed, watcher>>
        /\ ~ Quiet(r) /\ \A x \in Runs : x # r => SameLines(x)
    <3>0. DOMAIN pipe = Runs /\ DOMAIN call = Runs /\ DOMAIN reader = Runs /\ DOMAIN turn = Runs
      BY <1>t DEF TypeOK
    <3>1. CASE Read(r)
      <4>1. UNCHANGED <<server, duty, hooked, shut, turn, events, sealed, watcher>>
            /\ reader[r] = "scan" /\ pipe[r] # <<>>
        BY <3>1 DEF Read, processVars, channelVars
      <4>2. \A x \in Runs : x # r => pipe'[x] = pipe[x] /\ call'[x] = call[x]
                                     /\ reader'[x] = reader[x]
        BY <3>0, <3>1 DEF Read
      <4> QED BY <4>1, <4>2 DEF Quiet, SameLines
    <3>2. CASE TurnOver(r)
      BY <3>0, <3>2 DEF TurnOver, Quiet, SameLines, processVars, channelVars
    <3> QED BY <1>3, <3>1, <3>2
  <2>2. turn[r] # "none" => turn'[r] # "none"
    BY <1>3, <1>t DEF Read, TurnOver, TypeOK
  <2>3. TroubleInv(r)'
    BY <1>i, <1>o, <1>s, <2>1, <2>2 DEF TroubleInv, Closing
  <2> QED BY <1>f, <2>1, <2>3
<1>4. CASE Forward(r)
  <2>1. /\ UNCHANGED <<server, duty, pipe, hooked, call, shut, turn, sealed, watcher>>
        /\ ~ Quiet(r) /\ \A x \in Runs : x # r => SameLines(x)
    BY <1>4, <1>t DEF Forward, Quiet, SameLines, processVars, TypeOK
  <2>2. /\ \A x \in Runs : x # r => events'[x] = events[x]
        /\ Has(events'[r], Ends) => Has(events[r], Ends)
    <3>1. CASE UNCHANGED events
      BY <3>1
    <3>2. CASE Send(r, reader[r])
      <4>1. reader[r] \in Lines /\ reader[r] \notin Ends /\ events[r] \in Seq(Lines)
        BY <1>4, <1>t, TypeParts DEF Forward, Lines, Ends
      <4>2. events'[r] \in {Append(events[r], reader[r]), events[r]}
            /\ \A x \in Runs : x # r => events'[x] = events[x]
        BY <1>t, <3>2, <4>1, SendTyped
      <4> QED BY <4>1, <4>2, AppendHas
    <3> QED BY <1>4, <3>1, <3>2 DEF Forward
  <2>3. TroubleInv(r)'
    BY <1>i, <1>o, <1>s, <2>1, <2>2 DEF TroubleInv, Closing
  <2> QED BY <1>f, <2>1, <2>2, <2>3
<1>5. CASE ReaderEnds(r)
  <2>1. /\ UNCHANGED <<server, duty, pipe, hooked, call, turn, events, sealed, watcher>>
        /\ server[r] = "dead" /\ reader'[r] = "ended"
        /\ \A x \in Runs : x # r => SameLines(x)
    BY <1>5, <1>t DEF ReaderEnds, SameLines, processVars, channelVars, TypeOK
  <2>2. Quiet(r) => Quiet(r)'
    BY <2>1 DEF Quiet
  <2>3. TroubleInv(r)'
    BY <1>i, <1>o, <1>s, <2>1, <2>2 DEF TroubleInv, Closing
  <2> QED BY <1>f, <2>1, <2>3
<1>6. CASE WatcherWakes(r)
  <2>1. /\ UNCHANGED <<server, duty, pipe, reader, hooked, call, shut, turn, sealed>>
        /\ watcher[r] = "wait" /\ watcher'[r] = "close"
        /\ \A x \in Runs : x # r => SameLines(x)
    BY <1>6, <1>t DEF WatcherWakes, SameLines, processVars, readerVars, TypeOK
  <2>2. \A x \in Runs : x # r => events'[x] = events[x]
    <3>1. \E e \in Lines : Send(r, e)
      BY <1>6, <1>t DEF WatcherWakes, TypeOK, Lines
    <3> QED BY <1>t, <3>1, SendTyped
  <2>3. Quiet(r)' <=> Quiet(r)
    BY <2>1 DEF Quiet
  <2>4. outcome[r] # "none" => Trouble(r)
    BY <1>i, <1>t, <2>1 DEF TroubleInv, Closing, TypeOK
  <2>5. Trouble(r) \/ turn[r] # "none"
    BY <1>6, <2>4 DEF WatcherWakes, ContextOver, Trouble
  <2>6. Closing(r)'
    BY <2>1 DEF Closing
  <2>7. TroubleInv(r)'
    BY <1>i, <1>o, <1>s, <2>1, <2>3, <2>4, <2>5, <2>6 DEF TroubleInv
  <2> QED BY <1>f, <2>1, <2>2, <2>7
<1>7. CASE CloseServer(r)
  <2>1. /\ UNCHANGED <<pipe, reader, call, turn, events, sealed>> /\ Killed(r)
        /\ watcher[r] = "close" /\ watcher'[r] = "seal"
    BY <1>7, <1>t DEF CloseServer, TypeOK
  <2>2. /\ duty'[r] = <<>>
        /\ \A x \in Runs : x # r => SameLines(x)
    BY <1>7, <1>t, <2>1, KilledTyped DEF CloseServer, SameLines, TypeOK
  <2>3. Quiet(r) => Quiet(r)'
    BY <2>1, <2>2 DEF Quiet
  <2>4. Closing(r) /\ Closing(r)'
    BY <2>1 DEF Closing
  <2>5. TroubleInv(r)'
    BY <1>i, <1>o, <1>s, <2>1, <2>3, <2>4 DEF TroubleInv
  <2> QED BY <1>f, <2>1, <2>2, <2>5
<1>8. CASE CloseEvents(r)
  <2>1. /\ UNCHANGED <<server, duty, pipe, reader, hooked, call, shut, turn, events>>
        /\ watcher[r] = "seal" /\ watcher'[r] = "done"
        /\ \A x \in Runs : x # r => SameLines(x)
    <3>1. DOMAIN watcher = Runs
      BY <1>t DEF TypeOK
    <3>2. UNCHANGED <<server, duty, pipe, reader, hooked, call, shut, turn, events>>
      BY <1>8 DEF CloseEvents, processVars, readerVars
    <3> QED BY <1>8, <3>1, <3>2 DEF CloseEvents, SameLines
  <2>2. Quiet(r)' <=> Quiet(r)
    BY <2>1 DEF Quiet
  <2>3. Closing(r) /\ Closing(r)'
    BY <2>1 DEF Closing
  <2>4. Trouble(r) \/ Quiet(r)
    BY <1>i, <2>3 DEF TroubleInv, EndInv
  <2>5. TroubleInv(r)'
    BY <1>i, <1>o, <1>s, <2>1, <2>2, <2>3, <2>4 DEF TroubleInv
  <2> QED BY <1>f, <2>1, <2>5
<1> QED BY <1>1, <1>2, <1>3, <1>4, <1>5, <1>6, <1>7, <1>8 DEF Reader, Watcher

ChannelInv == PanicNeedsTrouble /\ \A x \in Runs : TroubleInv(x)

LEMMA PanicStep ==
  ASSUME Sound, LinesInv, ChannelInv, Next
  PROVE  PanicNeedsTrouble'
<1>1. CASE UNCHANGED panic
  BY <1>1 DEF Next, PanicNeedsTrouble
<1>2. CASE \E r \in Runs : Forward(r)
  <2>1. PICK r \in Runs : Forward(r)
    BY <1>2
  <2>2. CASE r \in sealed
    <3>1. ~ Quiet(r) /\ panic' = r
      BY <2>1, <2>2 DEF Forward, Quiet
    <3>2. Trouble(r)
      BY <2>2, <3>1 DEF ChannelInv, TroubleInv
    <3>3. Trouble(r)'
      BY <3>2, TroubleStays
    <3> QED BY <3>1, <3>3 DEF PanicNeedsTrouble, Trouble
  <2>3. CASE r \notin sealed
    BY <1>1, <2>1, <2>3 DEF Forward
  <2> QED BY <2>2, <2>3
<1>3. UNCHANGED panic \/ \E r \in Runs : Forward(r)
  BY DEF Next, Begin, Invoke, ServerStarts, ServerFails, Call, ThreadReady, TurnStarted,
     InvokeFails, Consume, Take, EmitFails, Cancel, Serve, ServerExits, Kill, Reader, Read,
     TurnOver, ReaderEnds, Watcher, WatcherWakes, CloseServer, CloseEvents, channelVars
<1> QED BY <1>1, <1>2, <1>3

LEMMA ChannelInvariant == Spec => []ChannelInv
<1>1. Init => ChannelInv
  <2> SUFFICES ASSUME Init PROVE ChannelInv
    OBVIOUS
  <2>1. \A r \in Runs : TroubleInv(r)
    BY EmptyHas DEF Init, Each, TroubleInv, Closing
  <2> QED BY <2>1 DEF Init, ChannelInv, PanicNeedsTrouble
<1>2. Sound /\ LinesInv /\ ChannelInv /\ [Next]_vars => ChannelInv'
  <2>1. ASSUME ChannelInv, UNCHANGED vars PROVE ChannelInv'
    <3>1. /\ \A x \in Runs : SameLines(x)
          /\ UNCHANGED <<outcome, events, panic, stopped, broken>>
      BY <2>1 DEF SameLines, vars, driverVars, faultVars, processVars, readerVars, channelVars
    <3>2. \A x \in Runs : TroubleInv(x)'
      BY <2>1, <3>1, TroubleFrame DEF ChannelInv, Trouble
    <3> QED BY <2>1, <3>1, <3>2 DEF ChannelInv, PanicNeedsTrouble
  <2>2. ASSUME Sound, LinesInv, ChannelInv, Next PROVE ChannelInv'
    <3>1. \A x \in Runs : TroubleInv(x)
      BY <2>2 DEF ChannelInv
    <3>2. \A x \in Runs : TroubleInv(x)'
      <4>1. CASE Begin \/ Invoke
        BY <2>2, <3>1, <4>1, InvokeTrouble
      <4>2. CASE Consume \/ Cancel
        BY <2>2, <3>1, <4>2, ConsumeTrouble
      <4>3. CASE \E r \in Runs : Serve(r) \/ ServerExits(r) \/ Kill(r) \/ Reader(r) \/ Watcher(r)
        BY <2>2, <3>1, <4>3, OthersTrouble
      <4> QED BY <2>2, <4>1, <4>2, <4>3 DEF Next
    <3>3. PanicNeedsTrouble'
      BY <2>2, PanicStep
    <3> QED BY <3>2, <3>3 DEF ChannelInv
  <2> QED BY <2>1, <2>2
<1> QED BY <1>1, <1>2, CodexTyped, LinesInvariant, PTL DEF Spec

(* The worker ends by a send on a closed channel only for a run that was    *)
(* cancelled or had a failure: the order of the lines keeps the reader of   *)
(* any other run quiet before its channel is closed.                        *)
THEOREM PanicsNeedTrouble == Spec => []PanicNeedsTrouble
<1>1. ChannelInv => PanicNeedsTrouble
  BY DEF ChannelInv
<1> QED BY <1>1, ChannelInvariant, PTL

-----------------------------------------------------------------------------
(* A run that creates its thread and ends well has been told of it.         *)

LEMMA AnnounceFrame ==
  ASSUME NEW x \in Runs, Announces(x), SameLines(x), events'[x] = events[x], UNCHANGED seen,
         at' = at \/ at' = "consume"
  PROVE  Announces(x)'
<1>1. (Announced(x)' <=> Announced(x)) /\ (Ended(x)' <=> Ended(x))
  BY DEF SameLines, Announced, Ended
<1> QED BY <1>1 DEF Announces, SameLines

LEMMA InvokeAnnounce ==
  ASSUME Sound, LinesInv, ChannelInv, AnnounceInv, Begin \/ Invoke
  PROVE  AnnounceInv'
<1> SUFFICES ASSUME NEW r \in Runs, Creates(r)' PROVE Announces(r)'
  BY DEF AnnounceInv
<1>t. TypeOK /\ BaseInv
  BY DEF Sound
<1>i. RequestInv(r) /\ EndInv(r) /\ StageInv(r) /\ TroubleInv(r)
  BY DEF LinesInv, ChannelInv
<1>p. duty[r] \in Seq(Duty) /\ pipe[r] \in Seq(Lines) /\ events[r] \in Seq(Lines)
  BY <1>t, TypeParts
<1>1. CASE Begin
  <2>1. r = run + 1 /\ run \in Nat
    BY <1>1, <1>t, RunNumbers DEF Begin, Creates
  <2>2. Untouched(r)
    BY <1>i, <2>1, RunsAreNumbers DEF StageInv, New
  <2>3. ~ Has(events[r], {"completed"})
    <3>1. ~ Has(events[r], Ends)
      BY <1>i, <2>2 DEF TroubleInv, Closing, Untouched
    <3> QED BY <3>1 DEF Has, Ends
  <2>4. LastOnly(events[r], {"completed"})
    BY <2>3 DEF Has, LastOnly
  <2>5. UNCHANGED <<events, hooked, server, duty>> /\ at' = "start"
    BY <1>1 DEF Begin, processVars, readerVars, channelVars
  <2> QED BY <2>2, <2>3, <2>4, <2>5 DEF Announces, Untouched
<1>x. CASE Invoke
  <2>e. r = run /\ at # "idle" /\ resume[r] = None /\ outcome[r] = "none" /\ run' = run
        /\ at' # "idle" /\ UNCHANGED <<seen, resume>>
    BY <1>x, <1>t DEF Creates, BaseInv, Invoke, ServerStarts, ServerFails, Call, ThreadReady,
       TurnStarted, InvokeFails, driverVars, Returns
  <2>a. Announces(r)
    BY <2>e DEF AnnounceInv, Creates
  <2>1. CASE ServerStarts
    <3>1. /\ Untouched(r) /\ at' = "thread" /\ reader'[r] = "scan"
          /\ UNCHANGED <<events, duty, pipe, call, turn>>
      BY <1>i, <1>t, <2>1, <2>e DEF ServerStarts, StageInv, New, TypeOK, channelVars
    <3>2. /\ duty'[r] = <<>> /\ pipe'[r] = <<>> /\ call'[r] = "none" /\ turn'[r] = "none"
      BY <3>1 DEF Untouched, Quiet
    <3>3. ~ Ended(r)'
      BY <3>1, <3>2, EmptyHas DEF Ended, Ends
    <3> QED BY <2>a, <2>e, <3>1, <3>2, <3>3, EmptyHas DEF Announces
  <2>2. CASE ServerFails \/ InvokeFails
    BY <2>2, <2>e DEF ServerFails, InvokeFails, Returns
  <2>3. CASE Call
    <3>1. /\ UNCHANGED <<at, server, pipe, reader, hooked, turn, events, seen>>
          /\ call[r] = "none" /\ call'[r] = "waiting" /\ at \in {"thread", "turn"}
          /\ server[r] = "up"
      BY <1>t, <2>3, <2>e DEF Call, TypeOK, driverVars, channelVars
    <3>2. PICK d \in Duties : duty'[r] = duty[r] \o d
      BY <1>t, <2>3, <2>e DEF Call, TypeOK
    <3>3. d \in Seq(Duty)
      BY <1>t, <3>1, DutiesHave
    <3>4. \A S : Has(duty'[r], S) <=> Has(duty[r], S) \/ Has(d, S)
      BY <1>p, <3>2, <3>3, JoinHas
    <3>5. CASE at = "thread"
      <4>1. duty[r] = <<>> /\ d = <<"thread", "announce">>
        BY <2>a, <2>e, <3>1, <3>5 DEF Announces, Duties
      <4>2. duty'[r] = <<"thread", "announce">>
        BY <3>2, <3>3, <4>1
      <4>3. ~ Has(d, {"end"})
        BY <1>t, <2>e, <3>1, <3>5, DutiesHave
      <4>4. ~ Ended(r)'
        <5>1. ~ Has(duty'[r], {"end"})
          BY <3>4, <4>1, <4>3, EmptyHas
        <5>2. ~ Has(pipe[r], Ends) /\ reader[r] \notin Ends /\ turn[r] = "none"
          BY <1>i, <2>e, <3>5 DEF EndInv, Early
        <5> QED BY <3>1, <5>1, <5>2 DEF Ended
      <4>5. ~ Has(pipe[r], {"granted"})
        <5>1. ~ Has(pipe[r], Responses)
          BY <1>i, <2>e, <3>1 DEF RequestInv
        <5> QED BY <5>1 DEF Has, Responses
      <4> QED BY <2>a, <3>1, <3>5, <4>2, <4>4, <4>5 DEF Announces
    <3>6. CASE at = "turn"
      <4>1. Announced(r)
        BY <2>a, <3>1, <3>6 DEF Announces
      <4>2. Announced(r)'
        BY <3>1, <3>4, <4>1 DEF Announced
      <4> QED BY <2>a, <3>1, <3>6, <4>2 DEF Announces
    <3> QED BY <3>1, <3>5, <3>6
  <2>4. CASE ThreadReady
    <3>1. /\ UNCHANGED <<server, duty, pipe, reader, hooked, turn, events, seen>>
          /\ call[r] = "granted" /\ at = "thread" /\ at' = "turn"
      BY <2>4, <2>e DEF ThreadReady, processVars
    <3>2. (Announced(r)' <=> Announced(r)) /\ (Ended(r)' <=> Ended(r))
      BY <3>1 DEF Announced, Ended
    <3> QED BY <2>a, <3>1, <3>2 DEF Announces
  <2>5. CASE TurnStarted
    <3>1. /\ UNCHANGED <<server, duty, pipe, reader, hooked, turn, events, seen>>
          /\ at' = "consume"
      BY <2>5, <2>e DEF TurnStarted, processVars
    <3>2. (Announced(r)' <=> Announced(r)) /\ (Ended(r)' <=> Ended(r))
      BY <3>1 DEF Announced, Ended
    <3> QED BY <2>a, <3>1, <3>2 DEF Announces
  <2> QED BY <1>x, <2>1, <2>2, <2>3, <2>4, <2>5 DEF Invoke
<1> QED BY <1>1, <1>x

LEMMA ConsumeAnnounce ==
  ASSUME Sound, AnnounceInv, Consume \/ Cancel
  PROVE  AnnounceInv'
<1> SUFFICES ASSUME NEW r \in Runs, Creates(r)' PROVE Announces(r)'
  BY DEF AnnounceInv
<1>t. TypeOK /\ BaseInv
  BY DEF Sound
<1>e. r = run /\ at # "idle" /\ resume[r] = None /\ at' = at /\ resume' = resume
  BY DEF Creates, Consume, Take, EmitFails, Cancel, driverVars, Returns
<1>a. Announces(r)
  BY <1>e DEF AnnounceInv, Creates
<1>1. SameLines(r)
  BY DEF Consume, Take, EmitFails, Cancel, SameLines, driverVars, processVars, readerVars,
     channelVars
<1>2. CASE Cancel
  BY <1>1, <1>2, <1>a, <1>e, AnnounceFrame DEF Cancel, driverVars, channelVars
<1>3. CASE Consume
  <2>1. /\ events[r] # <<>> /\ events'[r] = Tail(events[r]) /\ at = "consume"
        /\ seen' = IF Head(events[r]) = "session" THEN ThreadOf(run) ELSE seen
    <3>1. Take /\ Head(events[run]) \notin Ends
      BY <1>3, <1>e DEF Consume, Take, EmitFails, Returns, Ends, Creates
    <3> QED BY <1>e, <1>t, <3>1 DEF Take, TypeOK, Ends
  <2>2. ThreadOf(run) # None
    BY <1>e, <1>t, RunsAreNumbers DEF ThreadOf
  <2>3. /\ \A S : Has(events[r], S) <=> Has(events'[r], S) \/ Head(events[r]) \in S
        /\ \A S : LastOnly(events[r], S) => LastOnly(events'[r], S)
    BY <1>t, <2>1, TypeParts, TailHas
  <2>4. Has(events[r], {"session"}) \/ seen # None => Has(events'[r], {"session"}) \/ seen' # None
    BY <2>1, <2>2, <2>3
  <2>5. Announced(r) => Announced(r)'
    BY <1>1, <2>4 DEF Announced, SameLines
  <2>6. Ended(r)' <=> Ended(r)
    BY <1>1 DEF Ended, SameLines
  <2>7. Has(events'[r], {"completed"}) => Has(events[r], {"completed"})
    BY <2>3
  <2> QED BY <1>1, <1>a, <1>e, <2>1, <2>3, <2>4, <2>5, <2>6, <2>7 DEF Announces, SameLines
<1> QED BY <1>2, <1>3

\* The app server, the reader and the watcher of the run.
LEMMA OthersAnnounce ==
  ASSUME Sound, LinesInv, ChannelInv, AnnounceInv, NEW r \in Runs, Creates(r),
         Serve(r) \/ ServerExits(r) \/ Kill(r) \/ Reader(r) \/ Watcher(r)
  PROVE  Announces(r)'
<1>t. TypeOK /\ outcome[r] = "none"
  BY DEF Sound, BaseInv, Creates
<1>i. RequestInv(r) /\ RefusalInv(r) /\ EndInv(r) /\ StageInv(r) /\ TroubleInv(r)
  BY DEF LinesInv, ChannelInv
<1>p. /\ duty[r] \in Seq(Duty) /\ pipe[r] \in Seq(Lines) /\ events[r] \in Seq(Lines)
      /\ events \in [Runs -> Seq(Lines)]
  BY <1>t, TypeParts
<1>a. Announces(r)
  BY DEF AnnounceInv
<1>o. UNCHANGED <<run, at, seen, resume, outcome>>
  BY DEF Serve, ServerExits, Kill, Reader, Watcher, Read, Forward, TurnOver, ReaderEnds,
     WatcherWakes, CloseServer, CloseEvents, driverVars
<1>g. at \in {"thread", "turn"} => hooked[r]
  BY <1>i DEF StageInv, Active, Creates
<1>1. CASE Serve(r)
  <2>1. PICK line \in Lines :
           /\ duty[r] # <<>>
           /\ \A S : Has(pipe'[r], S) <=> Has(pipe[r], S) \/ line \in S
           /\ \A S : Has(duty'[r], S) => Has(duty[r], S)
           /\ \A S : Head(duty[r]) \in S => Has(duty[r], S)
           /\ \/ Head(duty[r]) \in Requests /\ line = "granted" /\ duty'[r] = Tail(duty[r])
              \/ Head(duty[r]) \in Requests /\ line = "refused" /\ duty'[r] = <<>>
              \/ Head(duty[r]) = "announce" /\ line = "session" /\ duty'[r] = Tail(duty[r])
              \/ Head(duty[r]) = "delta" /\ line = "delta" /\ duty'[r] = Tail(duty[r])
              \/ Head(duty[r]) = "end" /\ line \in Ends /\ duty'[r] = Tail(duty[r])
    BY <1>1, <1>t, AfterWrite
  <2>2. UNCHANGED <<server, reader, hooked, call, turn, events>>
    BY <1>1 DEF Serve, channelVars
  <2>3. \A S : Has(duty[r], S) <=> Has(Tail(duty[r]), S) \/ Head(duty[r]) \in S
    BY <1>p, <2>1, TailHas
  <2>4. ~ Has(pipe[r], Ends) /\ reader[r] \notin Ends /\ turn[r] = "none"
    BY <1>i, <2>1 DEF EndInv, Quiet
  <2>5. line \in Ends => Head(duty[r]) \in {"end"} /\ line # "refused"
    BY <2>1 DEF Ends
  <2>6. Ended(r)' => Has(duty[r], {"end"}) /\ line # "refused"
    <3>1. Ended(r)' => Has(duty'[r], {"end"}) \/ line \in Ends
      BY <2>1, <2>2, <2>4 DEF Ended
    <3>2. line \in Ends => Has(duty[r], {"end"}) /\ line # "refused"
      BY <2>1, <2>5
    <3>3. Has(duty'[r], {"end"}) => Has(duty[r], {"end"}) /\ duty'[r] # <<>>
      BY <2>1, EmptyHas
    <3>4. line = "refused" => duty'[r] = <<>>
      BY <2>1 DEF Ends
    <3> QED BY <3>1, <3>2, <3>3, <3>4
  <2>7. line # "refused" /\ Announced(r) => Announced(r)'
    <3>1. ASSUME line # "refused", Has(duty[r], {"announce"})
          PROVE  Has(duty'[r], {"announce"}) \/ Has(pipe'[r], {"session"})
      <4>1. duty'[r] = Tail(duty[r])
        BY <2>1, <3>1
      <4>2. CASE Head(duty[r]) = "announce"
        <5>1. line \in {"session"}
          BY <2>1, <4>2 DEF Requests
        <5> QED BY <2>1, <5>1
      <4>3. CASE Head(duty[r]) # "announce"
        BY <2>3, <3>1, <4>1, <4>3
      <4> QED BY <4>2, <4>3
    <3>2. Has(pipe[r], {"session"}) => Has(pipe'[r], {"session"})
      BY <2>1
    <3> QED BY <1>o, <2>2, <3>1, <3>2 DEF Announced
  <2>8. ASSUME at = "thread"
        PROVE  /\ duty'[r] \in {<<>>, <<"thread", "announce">>, <<"announce">>}
               /\ call[r] # "none"
               /\ line = "granted" => Announced(r)'
    <3>1. duty[r] = <<"thread", "announce">> \/ duty[r] = <<"announce">>
      BY <1>a, <2>1, <2>8 DEF Announces
    <3>2. Tail(<<"thread", "announce">>) = <<"announce">> /\ Tail(<<"announce">>) = <<>>
          /\ Head(<<"announce">>) = "announce"
      OBVIOUS
    <3>3. call[r] # "none"
      BY <1>a, <2>1, <2>8 DEF Announces
    <3>4. ASSUME line = "granted" PROVE Announced(r)'
      <4>1. Head(duty[r]) \in Requests /\ duty'[r] = Tail(duty[r])
        BY <2>1, <3>4 DEF Ends
      <4>2. duty'[r] = <<"announce">>
        BY <3>1, <3>2, <4>1 DEF Requests
      <4>3. Has(<<"announce">>, {"announce"})
        BY DEF Has
      <4> QED BY <4>2, <4>3 DEF Announced
    <3> QED BY <2>1, <3>1, <3>2, <3>3, <3>4
  <2>9. ASSUME at = "thread", server[r] = "up", Has(pipe'[r], {"granted"}) \/ call[r] = "granted"
        PROVE  Announced(r)'
    <3>1. CASE line = "granted"
      BY <2>8, <2>9, <3>1
    <3>2. CASE line # "granted"
      <4>1. Has(pipe[r], {"granted"}) \/ call[r] = "granted"
        BY <2>1, <2>9, <3>2
      <4>2. Announced(r)
        BY <1>a, <2>9, <4>1 DEF Announces
      <4>3. ~ Has(duty[r], Requests)
        <5>1. Has(pipe[r], {"granted"}) => Has(pipe[r], Responses)
          BY DEF Has, Responses
        <5> QED BY <1>i, <1>t, <4>1, <5>1 DEF RequestInv
      <4>4. line # "refused"
        BY <2>1, <4>3 DEF Ends
      <4> QED BY <2>7, <4>2, <4>4
    <3> QED BY <3>1, <3>2
  <2>10. ASSUME at = "turn", server[r] = "up", call[r] = "none" PROVE Announced(r)'
    <3>1. Announced(r)
      BY <1>a, <2>10 DEF Announces
    <3>2. ~ Has(duty[r], Requests)
      BY <1>i, <1>t, <2>10 DEF RequestInv
    <3>3. line # "refused"
      BY <2>1, <3>2 DEF Ends
    <3> QED BY <2>7, <3>1, <3>3
  <2>11. ASSUME hooked[r], Ended(r)' PROVE Announced(r)'
    <3>1. Ended(r) /\ line # "refused"
      BY <2>6, <2>11 DEF Ended
    <3>2. Announced(r)
      BY <1>a, <2>11, <3>1 DEF Announces
    <3> QED BY <2>7, <3>1, <3>2
  <2>12. /\ LastOnly(events'[r], {"completed"})
         /\ Has(events'[r], {"completed"}) =>
              turn'[r] # "none" /\ (Has(events'[r], {"session"}) \/ seen' # None)
    BY <1>a, <1>o, <2>2 DEF Announces
  <2> QED BY <1>o, <2>2, <2>8, <2>9, <2>10, <2>11, <2>12 DEF Announces
<1>2. CASE ServerExits(r) \/ Kill(r)
  <2>1. /\ Killed(r) /\ server[r] = "up" /\ UNCHANGED <<pipe, reader, hooked, call, turn, events>>
    BY <1>2 DEF ServerExits, Kill, readerVars, channelVars
  <2>2. duty'[r] = <<>> /\ server'[r] = "dead"
    BY <1>t, <2>1, KilledTyped
  <2>3. Ended(r)' => Ended(r) /\ duty[r] = <<>>
    BY <1>i, <2>1, <2>2, EmptyHas DEF Ended, EndInv, Quiet
  <2>4. duty[r] = <<>> /\ Announced(r) => Announced(r)'
    BY <1>o, <2>1, <2>2 DEF Announced
  <2> QED BY <1>a, <1>o, <2>1, <2>2, <2>3, <2>4 DEF Announces
<1>3. CASE Read(r)
  <2>1. /\ reader[r] = "scan" /\ pipe[r] # <<>>
        /\ UNCHANGED <<server, duty, hooked, turn, events>>
    BY <1>3 DEF Read, processVars, channelVars
  <2> DEFINE line == Head(pipe[r])
  <2>2. /\ pipe'[r] = Tail(pipe[r]) /\ line \in Lines
        /\ call'[r] = IF line \in Responses /\ call[r] = "waiting" THEN line ELSE call[r]
        /\ reader'[r] = IF line \notin Responses /\ hooked[r] THEN line ELSE "scan"
    BY <1>3, <1>p, <1>t, <2>1 DEF Read, TypeOK, Responses
  <2>3. \A S : Has(pipe[r], S) <=> Has(pipe'[r], S) \/ line \in S
    BY <1>p, <2>1, <2>2, TailHas
  <2> HIDE DEF line
  <2>4. hooked[r] /\ Announced(r) => Announced(r)'
    <3>1. ASSUME hooked[r], Has(pipe[r], {"session"}), ~ Has(pipe'[r], {"session"})
          PROVE  reader'[r] = "session"
      <4>1. line = "session"
        BY <2>3, <3>1
      <4> QED BY <2>2, <3>1, <4>1 DEF Responses
    <3> QED BY <1>o, <2>1, <3>1 DEF Announced
  <2>5. Ended(r)' => Ended(r)
    <3>1. reader'[r] \in Ends => line \in Ends
      BY <2>2 DEF Ends
    <3> QED BY <2>1, <2>3, <3>1 DEF Ended
  <2>6. call'[r] = "none" <=> call[r] = "none"
    BY <2>2 DEF Responses
  <2>7. Has(pipe'[r], {"granted"}) \/ call'[r] = "granted" =>
          Has(pipe[r], {"granted"}) \/ call[r] = "granted"
    <3>1. call'[r] = "granted" => call[r] = "granted" \/ line \in {"granted"}
      BY <2>2
    <3> QED BY <2>3, <3>1
  <2> QED BY <1>a, <1>g, <1>o, <2>1, <2>4, <2>5, <2>6, <2>7 DEF Announces
<1>4. CASE Forward(r) /\ r \in sealed
  <2>1. SameLines(r) /\ events'[r] = events[r]
    BY <1>4 DEF Forward, SameLines, processVars
  <2> QED BY <1>a, <1>o, <2>1, AnnounceFrame
<1>5. CASE Forward(r) /\ r \notin sealed
  <2>1. /\ UNCHANGED <<server, duty, pipe, hooked, call, turn>>
        /\ Send(r, reader[r]) /\ reader'[r] = "scan" /\ reader[r] \in {"session", "delta"}
    BY <1>5, <1>t DEF Forward, TypeOK, processVars
  <2>2. events'[r] = Append(events[r], reader[r]) /\ reader[r] \in Lines
    BY <1>t, <2>1, SendTyped DEF Lines
  <2>3. /\ \A S : Has(events'[r], S) <=> Has(events[r], S) \/ reader[r] \in S
        /\ \A S : ~ Has(events[r], S) => LastOnly(events'[r], S)
    BY <1>p, <2>2, AppendHas
  <2>4. ~ Has(events[r], {"completed"})
    BY <1>a, <1>i, <2>1 DEF Announces, EndInv, Quiet
  <2>5. ~ Has(events'[r], {"completed"}) /\ LastOnly(events'[r], {"completed"})
    BY <2>1, <2>3, <2>4
  <2>6. Announced(r) => Announced(r)'
    BY <1>o, <2>1, <2>3 DEF Announced
  <2>7. Ended(r)' => Ended(r)
    BY <2>1 DEF Ended, Ends
  <2> QED BY <1>a, <1>o, <2>1, <2>5, <2>6, <2>7 DEF Announces
<1>6. CASE TurnOver(r) \/ ReaderEnds(r)
  <2>1. /\ UNCHANGED <<server, duty, pipe, hooked, call, events>>
        /\ reader[r] # "session" /\ (turn[r] # "none" => turn'[r] # "none")
        /\ Ended(r)' => Ended(r)
    BY <1>6, <1>t DEF TurnOver, ReaderEnds, TypeOK, Ended, Ends, processVars, channelVars
  <2>2. Announced(r) => Announced(r)'
    BY <1>o, <2>1 DEF Announced
  <2> QED BY <1>a, <1>o, <2>1, <2>2 DEF Announces
<1>7. CASE WatcherWakes(r)
  <2>1. /\ UNCHANGED <<server, duty, pipe, reader, hooked, call, turn>> /\ watcher[r] = "wait"
    BY <1>7 DEF WatcherWakes, processVars, readerVars
  <2>2. PICK e \in Ends : Send(r, e) /\ (e = "completed" => turn[r] # "none")
    BY <1>7, <1>t DEF WatcherWakes, TypeOK, Ends
  <2>3. events'[r] = Append(events[r], e) /\ e \in Lines
    <3>1. e \in Lines
      BY <2>2 DEF Ends, Lines
    <3> QED BY <1>t, <2>2, <3>1, SendTyped
  <2>4. /\ \A S : Has(events'[r], S) <=> Has(events[r], S) \/ e \in S
        /\ \A S : ~ Has(events[r], S) => LastOnly(events'[r], S)
    BY <1>p, <2>3, AppendHas
  <2>5. ~ Has(events[r], {"completed"})
    <3>1. ~ Has(events[r], Ends)
      BY <1>i, <2>1 DEF TroubleInv, Closing
    <3> QED BY <3>1 DEF Has, Ends
  <2>6. Has(events'[r], {"completed"}) => turn[r] # "none"
    BY <2>2, <2>4, <2>5
  <2>7. turn[r] # "none" => Has(events[r], {"session"}) \/ seen # None
    <3> SUFFICES ASSUME turn[r] # "none" PROVE Has(events[r], {"session"}) \/ seen # None
      OBVIOUS
    <3>1. hooked[r] /\ Quiet(r)
      BY <1>i, <2>1 DEF StageInv, EndInv
    <3>2. Announced(r)
      BY <1>a, <3>1 DEF Announces, Ended
    <3>3. ~ Has(duty[r], {"announce"}) /\ ~ Has(pipe[r], {"session"}) /\ reader[r] # "session"
      BY <3>1, EmptyHas DEF Quiet
    <3> QED BY <3>2, <3>3 DEF Announced
  <2>8. Has(events[r], {"session"}) => Has(events'[r], {"session"})
    BY <2>4
  <2>9. LastOnly(events'[r], {"completed"})
    BY <2>4, <2>5
  <2>10. Announced(r) => Announced(r)'
    BY <1>o, <2>1, <2>8 DEF Announced
  <2>11. Ended(r)' <=> Ended(r)
    BY <2>1 DEF Ended
  <2> QED BY <1>a, <1>o, <2>1, <2>6, <2>7, <2>8, <2>9, <2>10, <2>11 DEF Announces
<1>8. CASE CloseServer(r)
  <2>1. /\ ~ hooked'[r] /\ UNCHANGED <<events, turn>> /\ watcher[r] = "close"
    BY <1>8, <1>t DEF CloseServer, TypeOK
  <2>2. at \notin {"thread", "turn"}
    BY <1>i, <2>1 DEF StageInv, Active, Creates
  <2> QED BY <1>a, <1>o, <2>1, <2>2 DEF Announces
<1>9. CASE CloseEvents(r)
  <2>1. UNCHANGED <<server, duty, pipe, reader, hooked, call, turn, events>>
    BY <1>9 DEF CloseEvents, processVars, readerVars
  <2>2. (Announced(r)' <=> Announced(r)) /\ (Ended(r)' <=> Ended(r))
    BY <1>o, <2>1 DEF Announced, Ended
  <2> QED BY <1>a, <1>o, <2>1, <2>2 DEF Announces
<1> QED BY <1>1, <1>2, <1>3, <1>4, <1>5, <1>6, <1>7, <1>8, <1>9 DEF Reader, Watcher

KeptInv == AnnounceInv /\ LastInv /\ ConversationKept

\* A run that ends well resumed a thread, or was told of the one it created.
LEMMA EndsKnowing ==
  ASSUME Sound, AnnounceInv, Next, Settles("ok")
  PROVE  seen # None \/ resume[run] # None
<1>t. TypeOK /\ outcome'[run] = "ok" /\ outcome[run] = "none" /\ run \in Runs /\ at # "idle"
  BY DEF Sound, BaseInv, Settles, TypeOK
<1>1. Take /\ Head(events[run]) = "completed"
  <2>1. CASE Invoke
    BY <1>t, <2>1 DEF Invoke, ServerStarts, ServerFails, Call, ThreadReady, TurnStarted,
       InvokeFails, Returns, driverVars, TypeOK
  <2>2. CASE EmitFails
    BY <1>t, <2>2 DEF EmitFails, Returns, TypeOK
  <2>3. CASE Take
    BY <1>t, <2>3 DEF Take, Returns, TypeOK
  <2>4. CASE UNCHANGED outcome
    BY <1>t, <2>4
  <2>5. Invoke \/ EmitFails \/ Take \/ UNCHANGED outcome
    BY DEF Next, Consume, Begin, Cancel, Serve, ServerExits, Kill, Reader, Watcher, Read, Forward,
       TurnOver, ReaderEnds, WatcherWakes, CloseServer, CloseEvents, driverVars
  <2> QED BY <2>1, <2>2, <2>3, <2>4, <2>5
<1>2. ASSUME resume[run] = None PROVE seen # None
  <2>1. Announces(run)
    BY <1>2, <1>t DEF AnnounceInv, Creates
  <2>2. events[run] \in Seq(Lines) /\ events[run] # <<>>
    BY <1>1, <1>t, TypeParts DEF Take
  <2>3. /\ \A S : Has(events[run], S) <=> Has(Tail(events[run]), S) \/ Head(events[run]) \in S
        /\ \A S : LastOnly(events[run], S) /\ Head(events[run]) \in S => Tail(events[run]) = <<>>
    BY <2>2, TailHas
  <2>4. Has(events[run], {"completed"}) /\ Tail(events[run]) = <<>>
    BY <1>1, <2>1, <2>3 DEF Announces
  <2>5. ~ Has(events[run], {"session"})
    BY <1>1, <2>3, <2>4, EmptyHas
  <2> QED BY <2>1, <2>4, <2>5 DEF Announces
<1> QED BY <1>2

LEMMA KeptStep ==
  ASSUME Sound, ResumeInv, AnnounceInv, LastInv, ConversationKept, Next
  PROVE  LastInv' /\ ConversationKept'
<1>t. TypeOK /\ BaseInv /\ SavedInv
  BY DEF Sound, ResumeInv
<1>n. /\ run \in Nat /\ run \in Runs \cup {0} /\ \A x \in 1..run : x \in Runs
  BY <1>t, RunNumbers
<1>1. CASE Begin
  <2>1. /\ at = "idle" /\ run' = run + 1 /\ run + 1 \in Runs /\ UNCHANGED <<binding, outcome>>
        /\ resume'[run + 1] = IF binding.failed THEN None ELSE binding.thread
        /\ \A x \in Runs : x # run + 1 => resume'[x] = resume[x]
        /\ outcome'[run + 1] = "none" /\ outcome[run + 1] = "none"
    BY <1>1, <1>n, <1>t, RunsAreNumbers DEF Begin, TypeOK, BaseInv
  <2>2. \A s \in 1..run : ThreadOf(s)' = ThreadOf(s) /\ resume'[s] = resume[s]
    BY <1>n, <2>1 DEF ThreadOf
  <2>3. \A s \in 1..(run + 1) : outcome[s] = "ok" => s \in 1..run
    BY <1>n, <2>1
  <2>4. \A s \in 1..run : \A x \in (s + 1)..run : x \in (s + 1)..(run + 1) /\ x # run + 1
    BY <1>n
  <2>5. ASSUME NEW s \in 1..run, outcome[s] = "ok", \A x \in (s + 1)..run : outcome[x] = "refused"
        PROVE  binding = [thread |-> ThreadOf(s), failed |-> FALSE]
    BY <2>5 DEF LastInv
  <2>6. LastInv'
    <3> SUFFICES ASSUME NEW s \in 1..run', outcome'[s] = "ok",
                        \A x \in (s + 1)..run' : outcome'[x] = "refused" \/ (x = run' /\ at' # "idle")
                 PROVE  binding' = [thread |-> ThreadOf(s)', failed |-> FALSE]
      BY DEF LastInv
    <3>1. s \in 1..run /\ outcome[s] = "ok"
      BY <2>1, <2>3
    <3>2. \A x \in (s + 1)..run : outcome[x] = "refused"
      BY <2>1, <2>4, <3>1
    <3> QED BY <2>1, <2>2, <2>5, <3>1, <3>2
  <2>7. ConversationKept'
    <3> SUFFICES ASSUME NEW s \in 1..run', NEW r \in 1..run', s < r, outcome'[s] = "ok",
                        \A x \in (s + 1)..(r - 1) : outcome'[x] = "refused"
                 PROVE  resume'[r] = ThreadOf(s)'
      BY DEF ConversationKept
    <3>1. s \in 1..run /\ outcome[s] = "ok"
      BY <2>1, <2>3
    <3>2. CASE r = run + 1
      <4>1. r - 1 = run
        BY <1>n, <3>2
      <4>2. binding = [thread |-> ThreadOf(s), failed |-> FALSE]
        BY <2>1, <2>5, <3>1, <4>1
      <4>3. ~ binding.failed /\ binding.thread = ThreadOf(s)
        BY <4>2
      <4> QED BY <2>1, <2>2, <3>1, <3>2, <4>3
    <3>3. CASE r # run + 1
      <4>1. r \in 1..run
        BY <1>n, <2>1, <3>3
      <4>2. resume[r] = ThreadOf(s)
        BY <2>1, <3>1, <4>1 DEF ConversationKept
      <4> QED BY <2>2, <3>1, <4>1, <4>2
    <3> QED BY <3>2, <3>3
  <2> QED BY <2>6, <2>7
<1>2. ASSUME NEW how \in {"refused", "ok", "error"}, Settles(how) PROVE LastInv' /\ ConversationKept'
  <2>1. /\ run \in Runs /\ at # "idle" /\ at' = "idle" /\ run' = run /\ resume' = resume
        /\ outcome[run] = "none" /\ outcome'[run] = how
        /\ \A x \in Runs : x # run => outcome'[x] = outcome[x]
        /\ resume[run] = IF binding.failed THEN None ELSE binding.thread
    BY <1>2, <1>t DEF Settles, BaseInv, SavedInv, TypeOK
  <2>2. \A s : ThreadOf(s)' = ThreadOf(s)
    BY <2>1 DEF ThreadOf
  <2>3. ASSUME how = "ok" PROVE binding' = [thread |-> ThreadOf(run), failed |-> FALSE]
    <3>1. binding' = Persisted
      BY <1>2, <2>3 DEF Settles
    <3>2. seen # None \/ resume[run] # None
      BY <1>2, <2>3, EndsKnowing
    <3>3. CASE seen \in {None, resume[run]}
      <4>1. resume[run] # None
        BY <3>2, <3>3
      <4>2. ~ binding.failed /\ binding.thread = resume[run] /\ ThreadOf(run) = resume[run]
        BY <2>1, <4>1 DEF ThreadOf
      <4>3. binding = [thread |-> binding.thread, failed |-> binding.failed]
            /\ binding.failed \in BOOLEAN
        BY <1>t DEF TypeOK
      <4>4. binding.failed = FALSE
        BY <4>2, <4>3
      <4> QED BY <3>1, <3>3, <4>2, <4>3, <4>4 DEF Persisted
    <3>4. CASE seen \notin {None, resume[run]}
      <4>1. seen = ThreadOf(run)
        BY <1>t, <3>4 DEF BaseInv
      <4> QED BY <3>1, <3>4, <4>1 DEF Persisted
    <3> QED BY <3>3, <3>4
  <2>4. LastInv'
    <3> SUFFICES ASSUME NEW s \in 1..run, outcome'[s] = "ok",
                        \A x \in (s + 1)..run : outcome'[x] = "refused"
                 PROVE  binding' = [thread |-> ThreadOf(s), failed |-> FALSE]
      BY <2>1, <2>2 DEF LastInv
    <3>1. CASE s = run
      BY <2>1, <2>3, <3>1
    <3>2. CASE s # run
      <4>1. run \in (s + 1)..run /\ outcome[s] = "ok"
        BY <1>n, <2>1, <3>2
      <4>2. how = "refused"
        BY <2>1, <4>1
      <4>3. \A x \in (s + 1)..run : outcome[x] = "refused" \/ (x = run /\ at # "idle")
        BY <1>n, <2>1
      <4>4. binding = [thread |-> ThreadOf(s), failed |-> FALSE]
        BY <4>1, <4>3 DEF LastInv
      <4> QED BY <1>2, <4>2, <4>4 DEF Settles
    <3> QED BY <3>1, <3>2
  <2>5. ConversationKept'
    <3> SUFFICES ASSUME NEW s \in 1..run, NEW r \in 1..run, s < r, outcome'[s] = "ok",
                        \A x \in (s + 1)..(r - 1) : outcome'[x] = "refused"
                 PROVE  resume[r] = ThreadOf(s)
      BY <2>1, <2>2 DEF ConversationKept
    <3>1. outcome[s] = "ok" /\ \A x \in (s + 1)..(r - 1) : outcome[x] = "refused"
      BY <1>n, <2>1
    <3> QED BY <3>1 DEF ConversationKept
  <2> QED BY <2>4, <2>5
<1>3. ASSUME UNCHANGED <<binding, run, resume, outcome>>,
             UNCHANGED at \/ (at # "idle" /\ at' # "idle")
      PROVE  LastInv' /\ ConversationKept'
  <2>1. \A s : ThreadOf(s)' = ThreadOf(s)
    BY <1>3 DEF ThreadOf
  <2>2. ConversationKept'
    BY <1>3, <2>1 DEF ConversationKept
  <2>3. LastInv'
    BY <1>3, <2>1 DEF LastInv
  <2> QED BY <2>2, <2>3
<1> QED BY <1>1, <1>2, <1>3, StepKinds

LEMMA AnnounceStep ==
  ASSUME Sound, LinesInv, ChannelInv, AnnounceInv, Next
  PROVE  AnnounceInv'
<1>1. CASE Begin \/ Invoke
  BY <1>1, InvokeAnnounce
<1>2. CASE Consume \/ Cancel
  BY <1>2, ConsumeAnnounce
<1>3. CASE \E r \in Runs : Serve(r) \/ ServerExits(r) \/ Kill(r) \/ Reader(r) \/ Watcher(r)
  <2>1. PICK a \in Runs : Serve(a) \/ ServerExits(a) \/ Kill(a) \/ Reader(a) \/ Watcher(a)
    BY <1>3
  <2>2. UNCHANGED <<run, at, seen, resume, outcome>>
    BY <2>1 DEF Serve, ServerExits, Kill, Reader, Watcher, Read, Forward, TurnOver, ReaderEnds,
       WatcherWakes, CloseServer, CloseEvents, driverVars
  <2> SUFFICES ASSUME NEW r \in Runs, Creates(r)' PROVE Announces(r)'
    BY DEF AnnounceInv
  <2>3. Creates(r)
    BY <2>2 DEF Creates
  <2>4. CASE r = a
    BY <2>1, <2>3, <2>4, OthersAnnounce
  <2>5. CASE r # a
    <3>1. TypeOK
      BY DEF Sound
    <3>2. CASE Serve(a) \/ ServerExits(a) \/ Kill(a)
      <4>1. duty'[r] = duty[r] /\ pipe'[r] = pipe[r] /\ server'[r] = server[r]
        <5>1. CASE Serve(a)
          BY <2>5, <3>1, <5>1, AfterWrite DEF Serve
        <5>2. CASE ServerExits(a) \/ Kill(a)
          BY <2>5, <3>1, <5>2, KilledTyped DEF ServerExits, Kill, readerVars
        <5> QED BY <3>2, <5>1, <5>2
      <4>2. UNCHANGED <<reader, hooked, call, shut, turn, events, sealed, watcher>>
        BY <3>2 DEF Serve, ServerExits, Kill, readerVars, channelVars
      <4> QED BY <2>2, <2>3, <4>1, <4>2, AnnounceFrame DEF AnnounceInv, SameLines
    <3>3. CASE Reader(a) \/ Watcher(a)
      <4>1. server'[r] = server[r] /\ duty'[r] = duty[r]
        BY <2>5, <3>1, <3>3, KilledTyped DEF Reader, Watcher, Read, Forward, TurnOver, ReaderEnds,
           WatcherWakes, CloseServer, CloseEvents, processVars
      <4>2. /\ pipe'[r] = pipe[r] /\ reader'[r] = reader[r] /\ hooked'[r] = hooked[r]
            /\ call'[r] = call[r] /\ shut'[r] = shut[r] /\ turn'[r] = turn[r]
            /\ watcher'[r] = watcher[r] /\ ((r \in sealed') <=> (r \in sealed))
        <5>0. /\ DOMAIN pipe = Runs /\ DOMAIN reader = Runs /\ DOMAIN hooked = Runs
              /\ DOMAIN call = Runs /\ DOMAIN shut = Runs /\ DOMAIN turn = Runs
              /\ DOMAIN watcher = Runs
          BY <3>1 DEF TypeOK
        <5>1. CASE Reader(a)
          BY <2>5, <3>1, <5>0, <5>1 DEF Reader, Read, Forward, TurnOver, ReaderEnds, channelVars
        <5>2. CASE Watcher(a)
          BY <2>5, <3>1, <5>0, <5>2 DEF Watcher, WatcherWakes, CloseServer, CloseEvents, readerVars
        <5> QED BY <3>3, <5>1, <5>2
      <4>3. events'[r] = events[r]
        <5>1. CASE Reader(a)
          BY <2>5, <3>1, <5>1 DEF TypeOK, Reader, Read, Forward, TurnOver, ReaderEnds,
             channelVars, Send
        <5>2. CASE Watcher(a)
          BY <2>5, <3>1, <5>2 DEF TypeOK, Watcher, WatcherWakes, CloseServer, CloseEvents,
             Send
        <5> QED BY <3>3, <5>1, <5>2
      <4> QED BY <2>2, <2>3, <4>1, <4>2, <4>3, AnnounceFrame DEF AnnounceInv, SameLines
    <3> QED BY <2>1, <3>2, <3>3
  <2> QED BY <2>4, <2>5
<1> QED BY <1>1, <1>2, <1>3 DEF Next

LEMMA KeptInvariant == Spec => []KeptInv
<1>1. Init => KeptInv
  BY DEF Init, KeptInv, AnnounceInv, Creates, LastInv, ConversationKept
<1>2. Sound /\ ResumeInv /\ LinesInv /\ ChannelInv /\ KeptInv /\ [Next]_vars => KeptInv'
  <2>1. ASSUME KeptInv, UNCHANGED vars PROVE KeptInv'
    <3>1. /\ \A x \in Runs : SameLines(x)
          /\ UNCHANGED <<binding, run, at, seen, resume, outcome, events>>
      BY <2>1 DEF SameLines, vars, driverVars, faultVars, processVars, readerVars, channelVars
    <3>2. AnnounceInv'
      BY <2>1, <3>1, AnnounceFrame DEF KeptInv, AnnounceInv, Creates
    <3>3. \A s : ThreadOf(s)' = ThreadOf(s)
      BY <3>1 DEF ThreadOf
    <3>4. LastInv'
      BY <2>1, <3>1, <3>3 DEF KeptInv, LastInv
    <3>5. ConversationKept'
      BY <2>1, <3>1, <3>3 DEF KeptInv, ConversationKept
    <3> QED BY <3>2, <3>4, <3>5 DEF KeptInv
  <2>2. ASSUME Sound, ResumeInv, LinesInv, ChannelInv, KeptInv, Next PROVE KeptInv'
    BY <2>2, AnnounceStep, KeptStep DEF KeptInv
  <2> QED BY <2>1, <2>2
<1> QED BY <1>1, <1>2, CodexTyped, ResumeInvariant, LinesInvariant, ChannelInvariant, PTL DEF Spec

(* A session goes on with the conversation of its last run that ended well: *)
(* the thread is announced before the turn can end, so it is always saved.  *)
THEOREM ConversationsAreKept == Spec => []ConversationKept
<1>1. KeptInv => ConversationKept
  BY DEF KeptInv
<1> QED BY <1>1, KeptInvariant, PTL
=============================================================================
