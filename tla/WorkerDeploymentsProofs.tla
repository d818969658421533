------------------------ MODULE WorkerDeploymentsProofs ------------------------
(***************************************************************************)
(* The guarantee of WorkerDeployments, for any number of assistants,       *)
(* requests, processes and restarts: the process of an assistant that is   *)
(* no longer active is not forgotten.                                      *)
(***************************************************************************)
EXTENDS WorkerDeployments, TLAPS

\* The assistants that requests and the reconciler work on.
Owners ==
  /\ \A u \in Requests : req[u].at \in {"mark", "stop"} => req[u].of \in Assistants
  /\ rec.at = "idle" <=> rec.of = None

\* Who holds the lock of the table stops an instance that is still in it.
LockInv ==
  /\ \A u \in Requests : mu = u => req[u].at = "stop" /\ table[req[u].of] # 0
  /\ mu = Reconciler => rec.at = "stop" /\ table[rec.of] # 0

\* The reconciler is about to write "stopped" only when the table is empty.
MarkInv ==
  /\ rec.at = "mark" => rec.mark \in Listed \/ (rec.mark = "stopped" /\ table[rec.of] = 0)
  /\ rec.at = "check" => rec.pid # 0

\* A record that says "stopped" is right unless the reconciler or a request
\* is at work on the assistant.
Settled(a) ==
  /\ rec.of # a
  /\ \A u \in Requests : req[u].of = a => req[u].at # "stop"
StoppedInv ==
  \A a \in Assistants :
    record[a] = "stopped" /\ Settled(a) => table[a] = 0 \/ ~ At(table[a], Alive)

DeploymentInv == TypeOK /\ Owners /\ LockInv /\ MarkInv /\ StoppedInv

-----------------------------------------------------------------------------
(* The types of the records, and what moves them.                           *)
Proc == [of : Assistants, at : Places]
Req  == [at : {"idle", "mark", "stop", "done"},
         of : Assistants \cup {None}, to : {"none", "active", "inactive"}]
Rec(n) == [at : {"idle", "stop", "begin", "start", "health", "check", "mark"},
           of : Assistants \cup {None}, row : Listed \cup {"none"},
           pid : 0..n, mark : Status \cup {"none"}]

LEMMA TypeParts ==
  TypeOK <=> /\ assistant \in [Assistants -> {"draft", "active", "inactive", "deleted"}]
             /\ record \in [Assistants -> Status]
             /\ procs \in Seq(Proc)
             /\ table \in [Assistants -> 0..Len(procs)]
             /\ mu \in Requests \cup {Reconciler, None}
             /\ todo \in [Assistants -> Listed \cup {"none"}]
             /\ rec \in Rec(Len(procs))
             /\ req \in [Requests -> Req]
             /\ restarts \in Nat
BY DEF TypeOK, Proc, Req, Rec

LEMMA ProcMoved ==
  ASSUME NEW s \in Seq(Proc), NEW p \in 1..Len(s), NEW x \in Places
  PROVE  LET t == [s EXCEPT ![p].at = x]
         IN /\ t \in Seq(Proc) /\ Len(t) = Len(s)
            /\ \A i \in 1..Len(s) : t[i].at = IF i = p THEN x ELSE s[i].at
<1> DEFINE y == [s[p] EXCEPT !.at = x]
<1>0. s[p] \in Proc
  OBVIOUS
<1>1. y \in Proc /\ y.at = x
  BY <1>0 DEF Proc
<1> HIDE DEF y
<1>2. [s EXCEPT ![p] = y] \in Seq(Proc) /\ Len([s EXCEPT ![p] = y]) = Len(s)
  BY <1>1
<1>3. \A i \in 1..Len(s) : [s EXCEPT ![p] = y][i].at = IF i = p THEN x ELSE s[i].at
  BY <1>1
<1>4. [s EXCEPT ![p].at = x] = [s EXCEPT ![p] = y]
  BY DEF y
<1> QED BY <1>2, <1>3, <1>4

LEMMA ReqMoved ==
  ASSUME NEW f \in [Requests -> Req], NEW u \in Requests,
         NEW x \in {"idle", "mark", "stop", "done"}
  PROVE  [f EXCEPT ![u].at = x] \in [Requests -> Req]
<1>1. f[u] \in Req
  OBVIOUS
<1>2. [f[u] EXCEPT !.at = x] \in Req
  BY <1>1 DEF Req
<1> QED BY <1>2

LEMMA RestingTyped == \A n \in Nat : Resting \in Rec(n)
BY DEF Resting, Rec

-----------------------------------------------------------------------------
\* The types, and with them the owners of places and locks.
Typed == TypeOK /\ Owners /\ LockInv /\ MarkInv

(* The variables keep their types; a monitor and a stop hold the locks the  *)
(* model says they hold, and the reconciler marks only what it works on.    *)
THEOREM DeploymentsTyped == Spec => []Typed
<1>1. Init => Typed
  <2> SUFFICES ASSUME Init PROVE Typed
    OBVIOUS
  <2>1. TypeOK
    BY DEF Init, TypeOK, Resting, NoRows, Status, Listed
  <2>2. Owners /\ LockInv /\ MarkInv
    BY DeploymentAssumption DEF Init, Owners, LockInv, MarkInv, Resting
  <2> QED BY <2>1, <2>2 DEF Typed
<1>2. Typed /\ [Next]_vars => Typed'
  <2> SUFFICES ASSUME Typed, [Next]_vars PROVE Typed'
    OBVIOUS
  <2> USE DEF Typed
  <2>t. TypeOK /\ Owners /\ LockInv /\ MarkInv
    OBVIOUS
  <2>1. CASE UNCHANGED vars
    BY <2>t, <2>1 DEF vars, dbVars, procVars, recVars, TypeOK, Owners, LockInv, MarkInv
  <2>2. ASSUME NEW u \in Requests, SetAssistant(u) PROVE Typed'
    <3>1. TypeOK'
      BY <2>t, <2>2 DEF SetAssistant, procVars, recVars, TypeOK
    <3>2. Owners' /\ LockInv' /\ MarkInv'
      BY <2>t, <2>2 DEF SetAssistant, procVars, recVars, TypeOK, Owners, LockInv, MarkInv
    <3> QED BY <3>1, <3>2
  <2>3. ASSUME NEW u \in Requests, MarkAssistant(u) PROVE Typed'
    <3>1. TypeOK'
      BY <2>t, <2>3 DEF MarkAssistant, procVars, recVars, TypeOK, Owners, Status, Listed
    <3>2. Owners' /\ LockInv' /\ MarkInv'
      BY <2>t, <2>3 DEF MarkAssistant, procVars, recVars, TypeOK, Owners, LockInv, MarkInv
    <3> QED BY <3>1, <3>2
  <2>4. ASSUME NEW u \in Requests, StopForRequest(u) PROVE Typed'
    <3>0. req[u].at = "stop" /\ req[u].of \in Assistants /\ UNCHANGED <<dbVars, recVars, restarts>>
      BY <2>t, <2>4 DEF StopForRequest, Owners
    <3>1. CASE /\ StopMissing(req[u].of) /\ req' = [req EXCEPT ![u].at = "done"]
               /\ UNCHANGED procVars
      <4>0. req' \in [Requests -> Req]
        BY <2>t, <3>1, TypeParts, ReqMoved
      <4>1. TypeOK'
        BY <2>t, <3>0, <3>1, <4>0, TypeParts DEF procVars, dbVars, recVars, TypeOK, Req
      <4>2. Owners' /\ LockInv' /\ MarkInv'
        BY <2>t, <3>0, <3>1, DeploymentAssumption
           DEF StopMissing, procVars, dbVars, recVars, TypeOK, Owners, LockInv, MarkInv
      <4> QED BY <4>1, <4>2
    <3>2. CASE StopWaits(u, req[u].of) /\ UNCHANGED <<table, procs, req>>
      <4>1. TypeOK'
        BY <2>t, <3>0, <3>2 DEF StopWaits, dbVars, recVars, TypeOK
      <4>2. Owners' /\ LockInv' /\ MarkInv'
        BY <2>t, <3>0, <3>2, DeploymentAssumption
           DEF StopWaits, dbVars, recVars, TypeOK, Owners, LockInv, MarkInv
      <4> QED BY <4>1, <4>2
    <3>3. CASE StopSucceeds(u, req[u].of) /\ req' = [req EXCEPT ![u].at = "done"]
      <4>1. table[req[u].of] \in 1..Len(procs)
        BY <2>t, <3>0, <3>3 DEF StopSucceeds, LockInv, TypeOK
      <4>2. procs' \in Seq(Proc) /\ Len(procs') = Len(procs)
        <5>1. "interrupted" \in Places /\ procs \in Seq(Proc)
          BY <2>t, TypeParts DEF Places, Alive
        <5>2. \/ procs' = procs
              \/ procs' = [procs EXCEPT ![table[req[u].of]].at = "interrupted"]
          BY <3>3 DEF StopSucceeds
        <5> QED BY <4>1, <5>1, <5>2, ProcMoved
      <4>0. req' \in [Requests -> Req]
        BY <2>t, <3>3, TypeParts, ReqMoved
      <4>3. TypeOK'
        BY <2>t, <3>0, <3>3, <4>0, <4>2 DEF StopSucceeds, dbVars, recVars, TypeOK, Req, Proc
      <4>4. Owners' /\ LockInv' /\ MarkInv'
        BY <2>t, <3>0, <3>3, DeploymentAssumption
           DEF StopSucceeds, dbVars, recVars, TypeOK, Owners, LockInv, MarkInv
      <4> QED BY <4>3, <4>4
    <3>4. CASE StopFails(u, req[u].of) /\ req' = [req EXCEPT ![u].at = "done"]
      <4>0. req' \in [Requests -> Req]
        BY <2>t, <3>4, TypeParts, ReqMoved
      <4>1. TypeOK'
        BY <2>t, <3>0, <3>4, <4>0 DEF StopFails, dbVars, recVars, TypeOK, Req
      <4>2. Owners' /\ LockInv' /\ MarkInv'
        BY <2>t, <3>0, <3>4, DeploymentAssumption
           DEF StopFails, dbVars, recVars, TypeOK, Owners, LockInv, MarkInv
      <4> QED BY <4>1, <4>2
    <3> QED BY <2>4, <3>1, <3>2, <3>3, <3>4 DEF StopForRequest
  <2>5. ASSUME NEW a \in Assistants, DeleteAssistant(a) PROVE Typed'
    BY <2>t, <2>5 DEF DeleteAssistant, procVars, recVars, TypeOK, Owners, LockInv, MarkInv
  <2>6. CASE ListRows
    <3>1. TypeOK'
      BY <2>t, <2>6 DEF ListRows, procVars, dbVars, TypeOK
    <3>2. Owners' /\ LockInv' /\ MarkInv'
      BY <2>t, <2>6 DEF ListRows, procVars, dbVars, Owners, LockInv, MarkInv
    <3> QED BY <3>1, <3>2
  <2>7. ASSUME NEW a \in Assistants, TakeRow(a) PROVE Typed'
    <3>0. todo[a] \in Listed /\ todo' \in [Assistants -> Listed \cup {"none"}]
      BY <2>t, <2>7 DEF TakeRow, TypeOK
    <3>3. rec'.at \in {"stop", "begin", "health"} /\ rec' \in Rec(Len(procs))
      <4>1. Len(procs) \in Nat
        BY <2>t, TypeParts
      <4>2. \E x \in {"stop", "begin", "health"} :
              rec' = [Resting EXCEPT !.of = a, !.row = todo[a], !.at = x]
        <5> DEFINE x == IF assistant[a] # "active" THEN "stop"
                        ELSE IF todo[a] \in {"pending", "failed"} THEN "begin" ELSE "health"
        <5>1. rec' = [Resting EXCEPT !.of = a, !.row = todo[a], !.at = x]
          BY <2>7 DEF TakeRow
        <5>2. x \in {"stop", "begin", "health"}
          OBVIOUS
        <5> HIDE DEF x
        <5> QED BY <5>1, <5>2
      <4>3. PICK x \in {"stop", "begin", "health"} :
              rec' = [Resting EXCEPT !.of = a, !.row = todo[a], !.at = x]
        BY <4>2
      <4>4. rec' = [at |-> x, of |-> a, row |-> todo[a], pid |-> 0, mark |-> "none"]
        BY <4>3 DEF Resting
      <4> QED BY <3>0, <4>1, <4>4 DEF Rec
    <3>1. TypeOK'
      BY <2>t, <2>7, <3>0, <3>3 DEF TakeRow, procVars, dbVars, TypeOK, Rec
    <3>2. Owners' /\ LockInv' /\ MarkInv'
      BY <2>t, <2>7, DeploymentAssumption
         DEF TakeRow, procVars, dbVars, Owners, LockInv, MarkInv, Resting, TypeOK
    <3> QED BY <3>1, <3>2
  <2>8. CASE StopInactive
    <3>0. rec.at = "stop" /\ rec.of \in Assistants /\ UNCHANGED <<dbVars, todo, req, restarts>>
      BY <2>t, <2>8, DeploymentAssumption DEF StopInactive, Owners, TypeOK
    <3>1. CASE StopMissing(rec.of) /\ NextRow /\ UNCHANGED procVars
      <4>1. TypeOK'
        BY <2>t, <3>0, <3>1 DEF NextRow, Resting, procVars, dbVars, TypeOK
      <4>2. Owners' /\ LockInv' /\ MarkInv'
        BY <2>t, <3>0, <3>1, DeploymentAssumption
           DEF StopMissing, NextRow, Resting, procVars, dbVars, Owners, LockInv, MarkInv
      <4> QED BY <4>1, <4>2
    <3>2. CASE StopWaits(Reconciler, rec.of) /\ UNCHANGED <<table, procs, rec>>
      <4>1. TypeOK'
        BY <2>t, <3>0, <3>2 DEF StopWaits, dbVars, TypeOK
      <4>2. Owners' /\ LockInv' /\ MarkInv'
        BY <2>t, <3>0, <3>2, DeploymentAssumption
           DEF StopWaits, dbVars, TypeOK, Owners, LockInv, MarkInv
      <4> QED BY <4>1, <4>2
    <3>3. CASE StopFails(Reconciler, rec.of) /\ NextRow
      <4>1. TypeOK'
        BY <2>t, <3>0, <3>3 DEF StopFails, NextRow, Resting, dbVars, TypeOK
      <4>2. Owners' /\ LockInv' /\ MarkInv'
        BY <2>t, <3>0, <3>3, DeploymentAssumption
           DEF StopFails, NextRow, Resting, dbVars, Owners, LockInv, MarkInv
      <4> QED BY <4>1, <4>2
    <3>4. CASE /\ StopSucceeds(Reconciler, rec.of)
               /\ rec' = [rec EXCEPT !.at = "mark", !.mark = "stopped"]
      <4>1. table[rec.of] \in 1..Len(procs)
        BY <2>t, <3>0, <3>4 DEF StopSucceeds, LockInv, TypeOK
      <4>2. procs' \in Seq(Proc) /\ Len(procs') = Len(procs)
        <5>1. "interrupted" \in Places /\ procs \in Seq(Proc)
          BY <2>t, TypeParts DEF Places, Alive
        <5>2. \/ procs' = procs
              \/ procs' = [procs EXCEPT ![table[rec.of]].at = "interrupted"]
          BY <3>4 DEF StopSucceeds
        <5> QED BY <4>1, <5>1, <5>2, ProcMoved
      <4>0. rec' \in Rec(Len(procs))
        BY <2>t, <3>4 DEF Rec, TypeOK, Status
      <4>3. TypeOK'
        BY <2>t, <3>0, <3>4, <4>0, <4>2 DEF StopSucceeds, dbVars, TypeOK, Rec, Proc
      <4>4. Owners' /\ LockInv' /\ MarkInv'
        BY <2>t, <3>0, <3>4, DeploymentAssumption
           DEF StopSucceeds, dbVars, TypeOK, Owners, LockInv, MarkInv
      <4> QED BY <4>3, <4>4
    <3> QED BY <2>8, <3>1, <3>2, <3>3, <3>4 DEF StopInactive
  <2>9. CASE MarkStarted
    <3>1. TypeOK'
      BY <2>t, <2>9 DEF MarkStarted, Go, procVars, TypeOK, Status, Listed
    <3>2. Owners' /\ LockInv' /\ MarkInv'
      BY <2>t, <2>9 DEF MarkStarted, Go, procVars, TypeOK, Owners, LockInv, MarkInv
    <3> QED BY <3>1, <3>2
  <2>10. CASE StartWorker
    <3>0. rec.of \in Assistants /\ mu = None
      BY <2>t, <2>10, DeploymentAssumption DEF StartWorker, Owners, TypeOK
    <3>1. CASE StartProcess(rec.of) /\ Go("health")
      <4>1. procs' \in Seq(Proc) /\ Len(procs') = Len(procs) + 1
        BY <2>t, <3>0, <3>1 DEF StartProcess, TypeOK, Places, Alive, Proc
      <4>0. rec' \in Rec(Len(procs')) /\ table' \in [Assistants -> 0..Len(procs')]
        <5>1. rec \in Rec(Len(procs)) /\ Len(procs) \in Nat
          BY <2>t, TypeParts
        <5>2. rec' = [rec EXCEPT !.at = "health"]
          BY <3>1 DEF Go
        <5>3. rec' \in Rec(Len(procs) + 1)
          BY <5>1, <5>2 DEF Rec
        <5> QED BY <2>t, <3>0, <3>1, <4>1, <5>3 DEF StartProcess, TypeOK
      <4>2. TypeOK'
        BY <2>t, <2>10, <3>0, <3>1, <4>0, <4>1 DEF StartWorker, dbVars, TypeOK, Rec, Proc
      <4>3. Owners' /\ LockInv' /\ MarkInv'
        BY <2>t, <2>10, <3>0, <3>1, DeploymentAssumption
           DEF StartWorker, Go, dbVars, TypeOK, Owners, LockInv, MarkInv
      <4> QED BY <4>2, <4>3
    <3>2. CASE rec' = [rec EXCEPT !.at = "mark", !.mark = "failed"] /\ UNCHANGED <<table, procs>>
      <4>1. TypeOK'
        BY <2>t, <2>10, <3>0, <3>2 DEF StartWorker, dbVars, TypeOK, Status, Listed
      <4>2. Owners' /\ LockInv' /\ MarkInv'
        BY <2>t, <2>10, <3>0, <3>2, DeploymentAssumption
           DEF StartWorker, dbVars, TypeOK, Owners, LockInv, MarkInv, Listed
      <4> QED BY <4>1, <4>2
    <3> QED BY <2>10, <3>1, <3>2 DEF StartWorker
  <2>11. CASE LookUp
    <3>0. rec.of \in Assistants /\ mu = None /\ UNCHANGED <<dbVars, procVars, todo, req, restarts>>
      BY <2>t, <2>11, DeploymentAssumption DEF LookUp, Owners, TypeOK
    <3>1. CASE table[rec.of] = 0
      <4>1. PICK s \in IfUnhealthy(rec.row) : rec' = [rec EXCEPT !.at = "mark", !.mark = s]
        BY <2>11, <3>1 DEF LookUp
      <4>2. s \in Listed
        BY <4>1 DEF IfUnhealthy, Listed
      <4>3. TypeOK'
        BY <2>t, <3>0, <4>1, <4>2 DEF dbVars, procVars, TypeOK, Status
      <4>4. Owners' /\ LockInv' /\ MarkInv'
        BY <2>t, <2>11, <3>0, <4>1, <4>2, DeploymentAssumption
           DEF LookUp, dbVars, procVars, TypeOK, Owners, LockInv, MarkInv
      <4> QED BY <4>3, <4>4
    <3>2. CASE table[rec.of] # 0
      <4>1. rec' = [rec EXCEPT !.at = "check", !.pid = table[rec.of]]
        BY <2>11, <3>2 DEF LookUp
      <4>2. TypeOK'
        BY <2>t, <3>0, <4>1 DEF dbVars, procVars, TypeOK
      <4>3. Owners' /\ LockInv' /\ MarkInv'
        BY <2>t, <2>11, <3>0, <3>2, <4>1, DeploymentAssumption
           DEF LookUp, dbVars, procVars, TypeOK, Owners, LockInv, MarkInv
      <4> QED BY <4>2, <4>3
    <3> QED BY <3>1, <3>2
  <2>12. CASE CheckHealth
    <3>0. rec.at = "check" /\ rec.pid \in 1..Len(procs)
      BY <2>t, <2>12 DEF CheckHealth, MarkInv, TypeOK
    <3>1. PICK s \in (IF Responds(rec.pid) THEN {"ready"} ELSE IfUnhealthy(rec.row)) :
            rec' = [rec EXCEPT !.at = "mark", !.mark = s]
      BY <2>12 DEF CheckHealth
    <3>2. s \in Listed
      BY <3>1 DEF IfUnhealthy, Listed
    <3>3. procs' \in Seq(Proc) /\ Len(procs') = Len(procs)
      <4>1. "interrupted" \in Places /\ procs \in Seq(Proc)
        BY <2>t, TypeParts DEF Places, Alive
      <4>2. \/ procs' = procs
            \/ procs' = [procs EXCEPT ![rec.pid].at = "interrupted"]
        BY <2>12 DEF CheckHealth, Signalled
      <4> QED BY <3>0, <4>1, <4>2, ProcMoved
    <3>4. TypeOK'
      <4>1. rec' \in Rec(Len(procs))
        BY <2>t, <3>1, <3>2 DEF Rec, TypeOK, Status
      <4> QED BY <2>t, <2>12, <3>3, <4>1 DEF CheckHealth, dbVars, TypeOK, Rec, Proc
    <3>5. Owners' /\ LockInv' /\ MarkInv'
      BY <2>t, <2>12, <3>1, <3>2
         DEF CheckHealth, dbVars, TypeOK, Owners, LockInv, MarkInv
    <3> QED BY <3>4, <3>5
  <2>13. CASE Mark
    <3>0. rec' \in Rec(Len(procs)) /\ rec.mark \in Status
      BY <2>t, <2>13, RestingTyped DEF Mark, MarkInv, NextRow, Status, TypeOK
    <3>1. TypeOK'
      BY <2>t, <2>13, <3>0 DEF Mark, procVars, TypeOK, Rec
    <3>2. Owners' /\ LockInv' /\ MarkInv'
      BY <2>t, <2>13 DEF Mark, NextRow, Resting, procVars, Owners, LockInv, MarkInv
    <3> QED BY <3>1, <3>2
  <2>14. ASSUME NEW p \in 1..Len(procs), Exit(p) \/ Monitor(p) PROVE Typed'
    <3>1. CASE Exit(p) \/ Wait(p) \/ LockInstance(p)
      <4>1. procs' \in Seq(Proc) /\ Len(procs') = Len(procs)
        <5>1. PICK x \in Places : procs' = [procs EXCEPT ![p].at = x]
          BY <3>1 DEF Exit, Wait, LockInstance, Move, Places, Alive
        <5>2. procs \in Seq(Proc)
          BY <2>t, TypeParts
        <5> QED BY <5>1, <5>2, ProcMoved
      <4>2. UNCHANGED <<dbVars, table, mu, recVars, req, restarts>>
        BY <3>1 DEF Exit, Wait, LockInstance
      <4>3. TypeOK'
        BY <2>t, <4>1, <4>2 DEF dbVars, recVars, TypeOK, Proc
      <4>4. Owners' /\ LockInv' /\ MarkInv'
        BY <2>t, <4>2 DEF dbVars, recVars, Owners, LockInv, MarkInv
      <4> QED BY <4>3, <4>4
    <3>2. CASE RemoveInstance(p)
      <4>1. procs' \in Seq(Proc) /\ Len(procs') = Len(procs)
        <5>1. procs' = [procs EXCEPT ![p].at = "gone"] /\ "gone" \in Places
          BY <3>2 DEF RemoveInstance, Move, Places, Alive
        <5>2. procs \in Seq(Proc)
          BY <2>t, TypeParts
        <5> QED BY <5>1, <5>2, ProcMoved
      <4>2. procs[p].of \in Assistants
        <5>1. procs[p] \in Proc
          BY <2>t, TypeParts
        <5> QED BY <5>1 DEF Proc
      <4>3. TypeOK'
        BY <2>t, <3>2, <4>1, <4>2 DEF RemoveInstance, dbVars, recVars, TypeOK, Proc
      <4>4. Owners' /\ LockInv' /\ MarkInv'
        BY <2>t, <3>2, <4>2, DeploymentAssumption
           DEF RemoveInstance, dbVars, recVars, TypeOK, Owners, LockInv, MarkInv
      <4> QED BY <4>3, <4>4
    <3> QED BY <2>14, <3>1, <3>2 DEF Monitor
  <2>15. CASE Restart
    <3>1. procs' \in Seq(Proc) /\ Len(procs') = Len(procs)
      <4>1. procs' = [p \in 1..Len(procs) |->
                       [procs[p] EXCEPT !.at = IF @ = "gone" THEN "gone" ELSE "orphan"]]
        BY <2>15 DEF Restart
      <4>2. \A p \in 1..Len(procs) : procs[p] \in Proc
        BY <2>t, TypeParts
      <4>3. \A p \in 1..Len(procs) :
              [procs[p] EXCEPT !.at = IF @ = "gone" THEN "gone" ELSE "orphan"] \in Proc
        BY <4>2 DEF Proc, Places
      <4>4. Len(procs) \in Nat
        BY <2>t, TypeParts
      <4> QED BY <4>1, <4>3, <4>4
    <3>2. req' \in [Requests -> Req]
      <4>1. \A u \in Requests : req[u] \in Req
        BY <2>t, TypeParts
      <4>2. \A u \in Requests : [req[u] EXCEPT !.at = "done"] \in Req
        BY <4>1 DEF Req
      <4> QED BY <2>15, <4>1, <4>2 DEF Restart
    <3>6. /\ rec' \in Rec(Len(procs')) /\ table' \in [Assistants -> 0..Len(procs')]
          /\ todo' \in [Assistants -> Listed \cup {"none"}]
      BY <2>t, <2>15, <3>1, RestingTyped DEF Restart, NoRows, TypeOK
    <3>3. TypeOK'
      BY <2>t, <2>15, <3>1, <3>2, <3>6 DEF Restart, dbVars, TypeOK, Rec, Req, Proc
    <3>4. \A u \in Requests : req'[u].at \notin {"mark", "stop"}
      BY <2>t, <2>15 DEF Restart, TypeOK
    <3>5. Owners' /\ LockInv' /\ MarkInv'
      BY <2>15, <3>4, DeploymentAssumption DEF Restart, Resting, Owners, LockInv, MarkInv
    <3> QED BY <3>3, <3>5
  <2> QED
    BY <2>1, <2>2, <2>3, <2>4, <2>5, <2>6, <2>7, <2>8, <2>9, <2>10, <2>11, <2>12, <2>13,
       <2>14, <2>15 DEF Next, Request, Reconcile
<1> QED BY <1>1, <1>2, PTL DEF Spec

-----------------------------------------------------------------------------
(* The record of an assistant that is not worked on is not wrong.           *)

\* A process that is not alive stays so.
Dies == \E q \in 1..Len(procs), x \in Places \ Alive : procs' = [procs EXCEPT ![q].at = x]
IsInterrupted ==
  \/ procs' = procs
  \/ \E q \in 1..Len(procs) : /\ At(q, {"running"})
                              /\ procs' = [procs EXCEPT ![q].at = "interrupted"]

LEMMA DeadStaysDead ==
  ASSUME TypeOK, NEW p \in 1..Len(procs), ~ At(p, Alive), Dies \/ IsInterrupted
  PROVE  ~ At(p, Alive)'
<1>1. procs \in Seq(Proc) /\ "interrupted" \in Places
  BY TypeParts DEF Places, Alive
<1>2. CASE Dies
  <2>1. PICK q \in 1..Len(procs), x \in Places \ Alive : procs' = [procs EXCEPT ![q].at = x]
    BY <1>2 DEF Dies
  <2>2. procs'[p].at = IF p = q THEN x ELSE procs[p].at
    BY <1>1, <2>1, ProcMoved
  <2> QED BY <2>1, <2>2 DEF At
<1>3. CASE procs' = procs
  BY <1>3 DEF At
<1>4. ASSUME NEW q \in 1..Len(procs), At(q, {"running"}),
             procs' = [procs EXCEPT ![q].at = "interrupted"]
      PROVE  ~ At(p, Alive)'
  <2>1. procs'[p].at = IF p = q THEN "interrupted" ELSE procs[p].at
    BY <1>1, <1>4, ProcMoved
  <2>2. p # q
    BY <1>4 DEF At, Alive
  <2> QED BY <2>1, <2>2 DEF At
<1> QED BY <1>2, <1>3, <1>4 DEF IsInterrupted

\* What keeps the record of an assistant right: its entry, its record and who
\* works on it do not change, and its process does not come back to life.
LEMMA Kept ==
  ASSUME TypeOK, StoppedInv, NEW a \in Assistants,
         record'[a] = "stopped" => record[a] = "stopped",
         Settled(a)' => Settled(a),
         table'[a] = table[a],
         Dies \/ IsInterrupted
  PROVE  record'[a] = "stopped" /\ Settled(a)' => (table[a] = 0 \/ ~ At(table[a], Alive))'
<1> SUFFICES ASSUME record'[a] = "stopped", Settled(a)', table[a] # 0
             PROVE  procs'[table[a]].at \notin Alive
  BY DEF At
<1>1. table[a] \in 1..Len(procs)
  BY DEF TypeOK
<1>2. ~ At(table[a], Alive)
  BY DEF StoppedInv
<1>3. ~ At(table[a], Alive)'
  BY <1>1, <1>2, DeadStaysDead
<1> QED BY <1>3 DEF At

(* A place that a request or the reconciler stopped has no process left, or *)
(* the record still asks for the stop.                                      *)
THEOREM DeploymentInvariant == Spec => []DeploymentInv
<1>1. Init => StoppedInv
  BY DEF Init, StoppedInv
<1>2. Typed /\ StoppedInv /\ [Next]_vars => StoppedInv'
  <2> SUFFICES ASSUME Typed, StoppedInv, [Next]_vars, NEW a \in Assistants
               PROVE  record'[a] = "stopped" /\ Settled(a)'
                        => (table[a] = 0 \/ ~ At(table[a], Alive))'
    BY DEF StoppedInv
  <2> DEFINE Goal == record'[a] = "stopped" /\ Settled(a)'
                       => (table[a] = 0 \/ ~ At(table[a], Alive))'
  <2>t. TypeOK /\ Owners /\ LockInv /\ MarkInv
    BY DEF Typed
  <2>n. a # None
    BY DeploymentAssumption
  <2>1. CASE UNCHANGED vars
    <3>1. IsInterrupted /\ UNCHANGED <<record, table, rec, req>>
      BY <2>1 DEF IsInterrupted, vars, dbVars, procVars, recVars
    <3> QED BY <2>t, <3>1, Kept DEF Settled
  <2>2. ASSUME NEW u \in Requests, SetAssistant(u) PROVE Goal
    <3>1. IsInterrupted /\ UNCHANGED <<record, table, rec>>
      BY <2>2 DEF SetAssistant, IsInterrupted, procVars, recVars
    <3>2. Settled(a)' => Settled(a)
      <4>1. req \in [Requests -> Req] /\ req[u].at = "idle"
        BY <2>2, <2>t, TypeParts DEF SetAssistant
      <4>2. \A w \in Requests : w # u => req'[w] = req[w]
        BY <2>2, <4>1 DEF SetAssistant
      <4> QED BY <3>1, <4>1, <4>2 DEF Settled
    <3> QED BY <2>t, <3>1, <3>2, Kept
  <2>3. ASSUME NEW u \in Requests, MarkAssistant(u) PROVE Goal
    <3>1. IsInterrupted /\ UNCHANGED <<table, rec>>
      BY <2>3 DEF MarkAssistant, IsInterrupted, procVars, recVars
    <3>2. CASE req[u].of = a
      BY <2>3, <2>t, <3>2 DEF MarkAssistant, Settled, TypeOK
    <3>3. CASE req[u].of # a
      <4>1. record'[a] = record[a]
        BY <2>3, <2>t, <3>3 DEF MarkAssistant, TypeOK
      <4>2. Settled(a)' => Settled(a)
        BY <2>3, <2>t, <3>1, <3>3 DEF MarkAssistant, Settled, TypeOK
      <4> QED BY <2>t, <3>1, <4>1, <4>2, Kept
    <3> QED BY <3>2, <3>3
  <2>4. ASSUME NEW u \in Requests, StopForRequest(u) PROVE Goal
    <3>1. UNCHANGED <<record, rec>> /\ req[u].at = "stop"
      BY <2>4 DEF StopForRequest, dbVars, recVars
    <3>2. CASE StopWaits(u, req[u].of) /\ UNCHANGED <<table, procs, req>>
      <4>1. IsInterrupted
        BY <3>2 DEF IsInterrupted
      <4> QED BY <2>t, <3>1, <3>2, <4>1, Kept DEF Settled
    <3>3. CASE req' = [req EXCEPT ![u].at = "done"] /\ req[u].of # a /\ table'[a] = table[a]
               /\ IsInterrupted
      <4>1. Settled(a)' => Settled(a)
        BY <2>t, <3>1, <3>3 DEF Settled, TypeOK
      <4> QED BY <2>t, <3>1, <3>3, <4>1, Kept
    <3>4. CASE req[u].of = a /\ StopMissing(a) /\ UNCHANGED procVars
      BY <3>4 DEF StopMissing, procVars
    <3>5. CASE req[u].of = a /\ StopSucceeds(u, a)
      BY <2>t, <3>5 DEF StopSucceeds, TypeOK
    <3>6. CASE req[u].of = a /\ StopFails(u, a)
      BY <3>6 DEF StopFails, At, Alive
    <3>7. CASE req[u].of # a /\ req' = [req EXCEPT ![u].at = "done"]
               /\ StopSucceeds(u, req[u].of)
      <4>1. table[req[u].of] \in 1..Len(procs) /\ req[u].of \in Assistants
        BY <2>t, <3>1, <3>7 DEF StopSucceeds, LockInv, Owners, TypeOK
      <4>2. IsInterrupted /\ table'[a] = table[a]
        BY <2>t, <3>7, <4>1 DEF StopSucceeds, IsInterrupted, TypeOK
      <4> QED BY <3>3, <3>7, <4>2
    <3>8. CASE req[u].of # a /\ req' = [req EXCEPT ![u].at = "done"]
               /\ UNCHANGED <<table, procs>>
      <4>1. IsInterrupted
        BY <3>8 DEF IsInterrupted
      <4> QED BY <3>3, <3>8, <4>1
    <3> QED BY <2>4, <3>2, <3>4, <3>5, <3>6, <3>7, <3>8 DEF StopForRequest, StopFails, procVars
  <2>5. ASSUME NEW b \in Assistants, DeleteAssistant(b) PROVE Goal
    <3>1. IsInterrupted /\ UNCHANGED <<record, table, rec, req>>
      BY <2>5 DEF DeleteAssistant, IsInterrupted, procVars, recVars
    <3> QED BY <2>t, <3>1, Kept DEF Settled
  <2>6. CASE ListRows
    <3>1. IsInterrupted /\ UNCHANGED <<record, table, rec, req>>
      BY <2>6 DEF ListRows, IsInterrupted, procVars, dbVars
    <3> QED BY <2>t, <3>1, Kept DEF Settled
  <2>7. ASSUME NEW b \in Assistants, TakeRow(b) PROVE Goal
    <3>1. IsInterrupted /\ UNCHANGED <<record, table, req>>
      BY <2>7 DEF TakeRow, IsInterrupted, procVars, dbVars
    <3>2. rec.of # a
      BY <2>7, <2>t, <2>n DEF TakeRow, Owners
    <3>3. Settled(a)' => Settled(a)
      BY <3>1, <3>2 DEF Settled
    <3> QED BY <2>t, <3>1, <3>3, Kept
  <2>8. CASE StopInactive
    <3>1. UNCHANGED <<record, req>> /\ rec.at = "stop" /\ rec.of \in Assistants
      BY <2>8, <2>t DEF StopInactive, dbVars, Owners, TypeOK
    <3>2. CASE rec.of # a /\ table'[a] = table[a] /\ IsInterrupted
      <4>1. Settled(a)' => Settled(a)
        BY <3>1, <3>2 DEF Settled
      <4> QED BY <2>t, <3>1, <3>2, <4>1, Kept
    <3>3. CASE StopWaits(Reconciler, rec.of) /\ UNCHANGED <<table, procs, rec>>
      <4>1. IsInterrupted
        BY <3>3 DEF IsInterrupted
      <4> QED BY <2>t, <3>1, <3>3, <4>1, Kept DEF Settled
    <3>4. CASE StopMissing(rec.of) /\ UNCHANGED procVars
      <4>1. CASE rec.of = a
        BY <3>4, <4>1 DEF StopMissing, procVars
      <4>2. CASE rec.of # a
        BY <3>2, <3>4, <4>2 DEF IsInterrupted, procVars
      <4> QED BY <4>1, <4>2
    <3>5. CASE StopFails(Reconciler, rec.of)
      <4>1. CASE rec.of = a
        BY <3>5, <4>1 DEF StopFails, At, Alive
      <4>2. CASE rec.of # a
        BY <3>2, <3>5, <4>2 DEF IsInterrupted, StopFails
      <4> QED BY <4>1, <4>2
    <3>6. CASE StopSucceeds(Reconciler, rec.of)
      <4>1. CASE rec.of = a
        BY <2>t, <3>6, <4>1 DEF StopSucceeds, TypeOK
      <4>2. CASE rec.of # a
        <5>1. table[rec.of] \in 1..Len(procs)
          BY <2>t, <3>1, <3>6 DEF StopSucceeds, LockInv, TypeOK
        <5>2. IsInterrupted /\ table'[a] = table[a]
          BY <2>t, <3>1, <3>6, <4>2, <5>1 DEF StopSucceeds, IsInterrupted, TypeOK
        <5> QED BY <3>2, <4>2, <5>2
      <4> QED BY <4>1, <4>2
    <3> QED BY <2>8, <3>3, <3>4, <3>5, <3>6 DEF StopInactive
  <2>9. CASE MarkStarted
    <3>1. IsInterrupted /\ UNCHANGED <<table, req>> /\ rec'.of = rec.of
      BY <2>9, <2>t DEF MarkStarted, Go, IsInterrupted, procVars, TypeOK
    <3>2. Settled(a)' => Settled(a) /\ record'[a] = record[a]
      BY <2>9, <2>t, <3>1 DEF MarkStarted, Settled, TypeOK
    <3> QED BY <2>t, <3>1, <3>2, Kept
  <2>10. CASE StartWorker
    <3>1. UNCHANGED <<record, req>> /\ rec'.of = rec.of
      BY <2>10, <2>t DEF StartWorker, Go, dbVars, TypeOK
    <3>2. Settled(a)' => Settled(a) /\ rec.of # a
      BY <3>1 DEF Settled
    <3>3. CASE UNCHANGED <<table, procs>>
      <4>1. IsInterrupted
        BY <3>3 DEF IsInterrupted
      <4> QED BY <2>t, <3>1, <3>2, <3>3, <4>1, Kept
    <3>4. CASE StartProcess(rec.of)
      <4> SUFFICES ASSUME record[a] = "stopped", Settled(a)', table'[a] # 0
                   PROVE  procs'[table'[a]].at \notin Alive
        BY <3>1 DEF At
      <4>1. table'[a] = table[a] /\ table[a] \in 1..Len(procs)
        BY <2>t, <3>2, <3>4 DEF StartProcess, TypeOK
      <4>2. procs'[table[a]] = procs[table[a]]
        <5>1. procs \in Seq(Proc)
          BY <2>t, TypeParts
        <5> QED BY <3>4, <4>1, <5>1 DEF StartProcess
      <4>3. ~ At(table[a], Alive)
        BY <3>2, <4>1 DEF StoppedInv
      <4> QED BY <4>1, <4>2, <4>3 DEF At
    <3> QED BY <2>10, <3>3, <3>4 DEF StartWorker
  <2>11. CASE LookUp
    <3>1. IsInterrupted /\ UNCHANGED <<record, table, req>>
      BY <2>11 DEF LookUp, IsInterrupted, procVars, dbVars
    <3>2. rec'.of = rec.of
      BY <2>11, <2>t DEF LookUp, TypeOK
    <3> QED BY <2>t, <3>1, <3>2, Kept DEF Settled
  <2>12. CASE CheckHealth
    <3>1. UNCHANGED <<record, table, req>> /\ rec'.of = rec.of
      BY <2>12, <2>t DEF CheckHealth, dbVars, TypeOK
    <3>2. rec.pid \in 1..Len(procs)
      BY <2>12, <2>t DEF CheckHealth, MarkInv, TypeOK
    <3>3. IsInterrupted
      BY <2>12, <3>2 DEF CheckHealth, Signalled, IsInterrupted
    <3> QED BY <2>t, <3>1, <3>3, Kept DEF Settled
  <2>13. CASE Mark
    <3>1. IsInterrupted /\ UNCHANGED <<table, req>>
      BY <2>13 DEF Mark, IsInterrupted, procVars
    <3>2. CASE rec.of = a
      BY <2>13, <2>t, <3>1, <3>2 DEF Mark, MarkInv, Listed, TypeOK
    <3>3. CASE rec.of # a
      <4>1. record'[a] = record[a]
        BY <2>13, <2>t, <3>3 DEF Mark, TypeOK
      <4>2. Settled(a)' => Settled(a)
        BY <3>1, <3>3 DEF Settled
      <4> QED BY <2>t, <3>1, <4>1, <4>2, Kept
    <3> QED BY <3>2, <3>3
  <2>14. ASSUME NEW p \in 1..Len(procs), Exit(p) \/ Monitor(p) PROVE Goal
    <3>1. UNCHANGED <<record, rec, req>> /\ Dies
      BY <2>14 DEF Exit, Monitor, Wait, LockInstance, RemoveInstance, Move, dbVars, recVars,
         Dies, Places, Alive
    <3>2. table'[a] = table[a] \/ table'[a] = 0
      BY <2>14, <2>t DEF Exit, Monitor, Wait, LockInstance, RemoveInstance, TypeOK
    <3> QED BY <2>t, <3>1, <3>2, Kept DEF Settled
  <2>15. CASE Restart
    BY <2>15 DEF Restart
  <2> QED
    BY <2>1, <2>2, <2>3, <2>4, <2>5, <2>6, <2>7, <2>8, <2>9, <2>10, <2>11, <2>12, <2>13,
       <2>14, <2>15 DEF Next, Request, Reconcile
<1> QED BY <1>1, <1>2, DeploymentsTyped, PTL DEF Spec, DeploymentInv, Typed

(* The reconciler goes on listing the record of an assistant that is not    *)
(* active and still has a process, once the requests about it are over.     *)
THEOREM InactiveStaysListed == Spec => []InactiveIsListed
<1>1. DeploymentInv => InactiveIsListed
  <2> SUFFICES ASSUME DeploymentInv, NEW a \in Assistants, rec.of # a,
                      \A u \in Requests : req[u].of = a => req[u].at = "done",
                      record[a] \notin Listed
               PROVE  table[a] = 0 \/ ~ At(table[a], Alive)
    BY DEF InactiveIsListed
  <2>1. record[a] = "stopped"
    BY DEF DeploymentInv, TypeOK, Status
  <2>2. Settled(a)
    BY DEF Settled
  <2> QED BY <2>1, <2>2 DEF DeploymentInv, StoppedInv
<1> QED BY <1>1, DeploymentInvariant, PTL
=============================================================================
