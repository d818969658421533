--------------------------- MODULE WorkerDeployments ---------------------------
(***************************************************************************)
(* The deployments of the workers of digital assistants: the requests that *)
(* activate and stop an assistant                                          *)
(* (backend/internal/service/digital_assistant_service.go,                 *)
(* worker_provisioning.go), the reconciler that lists the deployment       *)
(* records every ten seconds (worker_deployment_reconciler.go), and the    *)
(* table of processes with its two levels of locks                         *)
(* (backend/internal/worker/scheduler/process_scheduler.go).               *)
(*                                                                         *)
(* Each assistant has one deployment, made with it.  A process is its      *)
(* place in procs.  The database does not fail, the provisioning timeout   *)
(* may expire at any time, and the other columns of a record are left out. *)
(***************************************************************************)
EXTENDS Naturals, Sequences

CONSTANTS
  Assistants,
  Requests,    \* calls of UpdateDigitalAssistantStatus
  Reconciler,  \* the reconciler, as a holder of the scheduler's lock
  None,        \* no assistant, or nobody
  MaxStarts,   \* bound: processes started
  MaxRestarts  \* bound: restarts of the server

ASSUME DeploymentAssumption ==
  /\ Reconciler \notin Requests /\ None \notin Requests \cup {Reconciler} \cup Assistants
  /\ MaxStarts \in Nat /\ MaxRestarts \in Nat

VARIABLES
  assistant,  \* the status of each assistant
  record,     \* the status of its worker deployment
  table,      \* instances: the process of each assistant, 0 when there is none
  procs,      \* the processes started: whose, and where each is
  mu,         \* who holds the lock of the table while it waits for an instance
  rec,        \* the reconciler's goroutine
  todo,       \* the rows its pass listed and has yet to reconcile
  req,        \* the requests
  restarts

dbVars   == <<assistant, record>>
procVars == <<table, procs, mu>>
recVars  == <<rec, todo>>
vars == <<dbVars, procVars, recVars, req, restarts>>

Listed == {"pending", "provisioning", "failed", "ready"}
Status == Listed \cup {"stopped"}

\* A process that has exited is waited for; its monitor then takes the lock of
\* the instance and, holding it, waits for that of the table.
Alive  == {"running", "interrupted"}
Places == Alive \cup {"exited", "waited", "removing", "gone", "orphan"}

Resting == [at |-> "idle", of |-> None, row |-> "none", pid |-> 0, mark |-> "none"]
NoRows  == [a \in Assistants |-> "none"]

Init ==
  /\ assistant = [a \in Assistants |-> "draft"]
  /\ record = [a \in Assistants |-> "stopped"]
  /\ table = [a \in Assistants |-> 0] /\ procs = <<>> /\ mu = None
  /\ rec = Resting /\ todo = NoRows
  /\ req = [u \in Requests |-> [at |-> "idle", of |-> None, to |-> "none"]]
  /\ restarts = 0

-----------------------------------------------------------------------------
(* The process scheduler.                                                   *)
At(p, places) == procs[p].at \in places
Move(p, place) == procs' = [procs EXCEPT ![p].at = place]

\* Start, under the lock of the table throughout; it replaces what it finds.
StartProcess(a) ==
  /\ Len(procs) < MaxStarts
  /\ procs' = Append(procs, [of |-> a, at |-> "running"])
  /\ table' = [table EXCEPT ![a] = Len(procs')]

\* Stop: it keeps the lock of the table while it waits for that of the instance.
StopWaits(who, a) == mu = None /\ table[a] # 0 /\ mu' = who
StopMissing(a)    == mu = None /\ table[a] = 0

\* A process that was waited for cannot be signalled: Stop fails and keeps the
\* entry.
StopSucceeds(who, a) ==
  /\ mu = who /\ At(table[a], Alive \cup {"exited"})
  /\ procs' = IF At(table[a], {"running"})
              THEN [procs EXCEPT ![table[a]].at = "interrupted"] ELSE procs
  /\ table' = [table EXCEPT ![a] = 0]
  /\ mu' = None
StopFails(who, a) ==
  /\ mu = who /\ At(table[a], {"waited", "gone"})
  /\ mu' = None /\ UNCHANGED <<table, procs>>

\* The check itself sends an interrupt.
Responds(p) == At(p, Alive \cup {"exited"})
Signalled(p) == procs' = IF At(p, {"running"})
                         THEN [procs EXCEPT ![p].at = "interrupted"] ELSE procs

Exit(p) ==
  /\ At(p, Alive) /\ Move(p, "exited")
  /\ UNCHANGED <<dbVars, table, mu, recVars, req, restarts>>

Wait(p) ==
  /\ At(p, {"exited"}) /\ Move(p, "waited")
  /\ UNCHANGED <<dbVars, table, mu, recVars, req, restarts>>

LockInstance(p) ==
  /\ At(p, {"waited"}) /\ Move(p, "removing")
  /\ UNCHANGED <<dbVars, table, mu, recVars, req, restarts>>

\* removeInstance: the entry of the assistant, whatever process it is.
RemoveInstance(p) ==
  /\ At(p, {"removing"}) /\ mu = None
  /\ Move(p, "gone")
  /\ table' = [table EXCEPT ![procs[p].of] = 0]
  /\ UNCHANGED <<dbVars, mu, recVars, req, restarts>>

-----------------------------------------------------------------------------
(* UpdateDigitalAssistantStatus and DeleteDigitalAssistant.                 *)
SetAssistant(u) ==
  /\ req[u].at = "idle"
  /\ \E a \in Assistants, to \in {"active", "inactive"} :
       /\ assistant[a] # "deleted"
       /\ assistant' = [assistant EXCEPT ![a] = to]
       /\ req' = [req EXCEPT ![u] = [at |-> "mark", of |-> a, to |-> to]]
  /\ UNCHANGED <<record, procVars, recVars, restarts>>

\* MarkAssistantActive and MarkAssistantStopped.
MarkAssistant(u) ==
  /\ req[u].at = "mark"
  /\ LET active == req[u].to = "active"
     IN /\ record' = [record EXCEPT ![req[u].of] = IF active THEN "pending" ELSE "stopped"]
        /\ req' = [req EXCEPT ![u].at = IF active THEN "done" ELSE "stop"]
  /\ UNCHANGED <<assistant, procVars, recVars, restarts>>

StopForRequest(u) ==
  /\ req[u].at = "stop"
  /\ \/ StopMissing(req[u].of) /\ req' = [req EXCEPT ![u].at = "done"]
        /\ UNCHANGED procVars
     \/ StopWaits(u, req[u].of) /\ UNCHANGED <<table, procs, req>>
     \/ (StopSucceeds(u, req[u].of) \/ StopFails(u, req[u].of))
        /\ req' = [req EXCEPT ![u].at = "done"]
  /\ UNCHANGED <<dbVars, recVars, restarts>>

DeleteAssistant(a) ==
  /\ assistant[a] # "deleted"
  /\ assistant' = [assistant EXCEPT ![a] = "deleted"]
  /\ UNCHANGED <<record, procVars, recVars, req, restarts>>

-----------------------------------------------------------------------------
(* The reconciler.                                                          *)
Go(place) == rec' = [rec EXCEPT !.at = place]
NextRow   == rec' = Resting

\* Mutant: rows that are ready are left alone.
ListUnready ==
  /\ rec.at = "idle" /\ todo = NoRows
  /\ todo' = [a \in Assistants |->
                IF record[a] \in Listed \ {"ready"} THEN record[a] ELSE "none"]
  /\ UNCHANGED <<dbVars, procVars, rec, req, restarts>>

ListRows ==
  /\ rec.at = "idle" /\ todo = NoRows
  /\ todo' = [a \in Assistants |-> IF record[a] \in Listed THEN record[a] ELSE "none"]
  /\ UNCHANGED <<dbVars, procVars, rec, req, restarts>>

\* reconcileWorkerDeployment reads the assistant and decides by the row listed.
TakeRow(a) ==
  /\ rec.at = "idle" /\ todo[a] # "none"
  /\ todo' = [todo EXCEPT ![a] = "none"]
  /\ rec' = [Resting EXCEPT !.of = a, !.row = todo[a],
               !.at = IF assistant[a] # "active" THEN "stop"
                      ELSE IF todo[a] \in {"pending", "failed"} THEN "begin" ELSE "health"]
  /\ UNCHANGED <<dbVars, procVars, req, restarts>>

StopInactive ==
  /\ rec.at = "stop"
  /\ \/ StopMissing(rec.of) /\ NextRow /\ UNCHANGED procVars
     \/ StopWaits(Reconciler, rec.of) /\ UNCHANGED <<table, procs, rec>>
     \/ StopFails(Reconciler, rec.of) /\ NextRow
     \/ StopSucceeds(Reconciler, rec.of)
        /\ rec' = [rec EXCEPT !.at = "mark", !.mark = "stopped"]
  /\ UNCHANGED <<dbVars, todo, req, restarts>>

\* MarkWorkerDeploymentStarted, before the process is started.
MarkStarted ==
  /\ rec.at = "begin"
  /\ record' = [record EXCEPT ![rec.of] = "provisioning"]
  /\ Go("start")
  /\ UNCHANGED <<assistant, procVars, todo, req, restarts>>

StartWorker ==
  /\ rec.at = "start" /\ mu = None
  /\ \/ StartProcess(rec.of) /\ Go("health")
     \/ rec' = [rec EXCEPT !.at = "mark", !.mark = "failed"] /\ UNCHANGED <<table, procs>>
  /\ UNCHANGED <<dbVars, mu, todo, req, restarts>>

\* What a health check that fails makes of a row that was listed so.
IfUnhealthy(row) == CASE row = "ready"        -> {"failed"}
                      [] row = "provisioning" -> {"failed", "provisioning"}
                      [] OTHER                -> {"provisioning"}

LookUp ==
  /\ rec.at = "health" /\ mu = None
  /\ IF table[rec.of] = 0
     THEN \E s \in IfUnhealthy(rec.row) : rec' = [rec EXCEPT !.at = "mark", !.mark = s]
     ELSE rec' = [rec EXCEPT !.at = "check", !.pid = table[rec.of]]
  /\ UNCHANGED <<dbVars, procVars, todo, req, restarts>>

CheckHealth ==
  /\ rec.at = "check" /\ ~ At(rec.pid, {"removing"})
  /\ Signalled(rec.pid)
  /\ \E s \in IF Responds(rec.pid) THEN {"ready"} ELSE IfUnhealthy(rec.row) :
       rec' = [rec EXCEPT !.at = "mark", !.mark = s]
  /\ UNCHANGED <<dbVars, table, mu, todo, req, restarts>>

\* Mutant: writes the status only over the one MarkStarted left or the row had.
MarkExpected ==
  /\ rec.at = "mark"
  /\ record' = IF record[rec.of] \in {rec.row, "provisioning"}
               THEN [record EXCEPT ![rec.of] = rec.mark] ELSE record
  /\ NextRow
  /\ UNCHANGED <<assistant, procVars, todo, req, restarts>>

\* MarkWorkerDeploymentStatus: whatever the record says by now.
Mark ==
  /\ rec.at = "mark"
  /\ record' = [record EXCEPT ![rec.of] = rec.mark]
  /\ NextRow
  /\ UNCHANGED <<assistant, procVars, todo, req, restarts>>

\* The server restarts: the processes it started go on.
Restart ==
  /\ restarts < MaxRestarts
  /\ restarts' = restarts + 1
  /\ table' = [a \in Assistants |-> 0] /\ mu' = None
  /\ procs' = [p \in 1..Len(procs) |->
                 [procs[p] EXCEPT !.at = IF @ = "gone" THEN "gone" ELSE "orphan"]]
  /\ rec' = Resting /\ todo' = NoRows
  /\ req' = [u \in Requests |-> IF req[u].at \in {"mark", "stop"}
                                THEN [req[u] EXCEPT !.at = "done"] ELSE req[u]]
  /\ UNCHANGED dbVars

-----------------------------------------------------------------------------
Monitor(p) == Wait(p) \/ LockInstance(p) \/ RemoveInstance(p)
Request(u) == MarkAssistant(u) \/ StopForRequest(u)
Reconcile  == \/ ListRows \/ (\E a \in Assistants : TakeRow(a))
              \/ StopInactive \/ MarkStarted \/ StartWorker \/ LookUp \/ CheckHealth \/ Mark

Next ==
  \/ \E u \in Requests : SetAssistant(u) \/ Request(u)
  \/ \E a \in Assistants : DeleteAssistant(a)
  \/ Reconcile
  \/ \E p \in 1..Len(procs) : Exit(p) \/ Monitor(p)
  \/ Restart

Spec == Init /\ [][Next]_vars

\* Goroutines run; nothing makes a process exit.
FairSpec ==
  /\ Spec /\ WF_vars(Reconcile)
  /\ \A u \in Requests : WF_vars(Request(u))
  /\ \A p \in 1..MaxStarts : WF_vars(p <= Len(procs) /\ Monitor(p))

-----------------------------------------------------------------------------
TypeOK ==
  /\ assistant \in [Assistants -> {"draft", "active", "inactive", "deleted"}]
  /\ record \in [Assistants -> Status]
  /\ procs \in Seq([of : Assistants, at : Places])
  /\ table \in [Assistants -> 0..Len(procs)]
  /\ mu \in Requests \cup {Reconciler, None}
  /\ todo \in [Assistants -> Listed \cup {"none"}]
  /\ rec \in [at : {"idle", "stop", "begin", "start", "health", "check", "mark"},
              of : Assistants \cup {None}, row : Listed \cup {"none"},
              pid : 0..Len(procs), mark : Status \cup {"none"}]
  /\ req \in [Requests -> [at : {"idle", "mark", "stop", "done"},
                           of : Assistants \cup {None}, to : {"none", "active", "inactive"}]]
  /\ restarts \in Nat

(* The reconciler still lists the record of every assistant that is not     *)
(* active and has a process in the table, once no request is under way:     *)
(* although both write the record as they please, the process will be       *)
(* stopped.                                                                 *)
InactiveIsListed ==
  \A a \in Assistants :
    (/\ assistant[a] # "active" /\ rec.of # a
     /\ \A u \in Requests : req[u].of = a => req[u].at = "done")
    => (table[a] = 0 \/ record[a] \in Listed \/ ~ At(table[a], Alive))

\* The lock of the table is held for an instance whose monitor waits for it.
Wedged == mu # None /\ \E p \in 1..Len(procs) : At(p, {"removing"})

\* The only process that was ever started for the assistant, by this server.
Alone(a) ==
  /\ restarts = 0
  /\ \A p, q \in 1..Len(procs) : procs[p].of = a /\ procs[q].of = a => p = q
Running(a) == \E p \in 1..Len(procs) : procs[p].of = a /\ At(p, {"running"})

(* An assistant that stays switched off loses its entry in the table for    *)
(* good, whatever requests and reconciler write over each other, and its    *)
(* process has then been told to end, unless the scheduler's locks have met *)
(* in opposite order.  Of the process it is said only when it is alone: one *)
(* that was replaced, or lost its entry to the monitor of an earlier one or *)
(* to a restart, runs on unlisted and is stopped by nobody.                 *)
ListedIsStopped ==
  \A a \in Assistants :
    <>[](assistant[a] # "active") =>
      <>[](Wedged \/ (table[a] = 0 /\ (Alone(a) => ~Running(a))))
=============================================================================
