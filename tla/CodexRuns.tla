------------------------------- MODULE CodexRuns -------------------------------
(***************************************************************************)
(* The runs of one session on the Codex runtime.  RunInvocation of         *)
(* backend/agent/runtime/externalcli/runner.go looks up the conversation   *)
(* to resume, Invoke (backend/agent/runtime/codex/invoker.go) starts an    *)
(* app server and asks it for a thread and a turn by JSON-RPC over its     *)
(* pipes (transport.go, appserver.go), ConsumeEvents reads the events of   *)
(* the turn, and the conversation is saved or marked as failed.            *)
(*                                                                         *)
(* The runs of a session are serial (RunCoordinator), but the goroutines   *)
(* of a run may outlive it.  A run stands for its number, and so does the  *)
(* thread it creates.  Approvals, and an event channel that overflows, are *)
(* in InteractionRouter.  The pipes never fill and the store of            *)
(* conversations does not fail.                                            *)
(***************************************************************************)
EXTENDS Naturals, Sequences

CONSTANTS
  MaxRuns,   \* bound: runs of the session; one more only looks up its conversation
  MaxDeltas, \* bound: events of a turn before its last
  MaxFaults  \* bound: app servers that exit, publications that fail

ASSUME CodexAssumption ==
  MaxRuns \in Nat \ {0} /\ MaxDeltas \in Nat /\ MaxFaults \in Nat

Runs == 1..(MaxRuns + 1)
None == 0

VARIABLES
  binding, \* the saved conversation: its thread, and whether it is marked as failed
  run,     \* the last run begun
  at,      \* where its RunInvocation is
  seen,    \* the thread its ConsumeEvents was told of
  resume,  \* per run: the thread it resumes
  outcome, \* per run: what RunInvocation returned
  stopped, \* runs the user cancelled
  broken,  \* runs whose app server exited by itself, or an event of which was not published
  faults,
  server,  \* per run: the app server process
  duty,    \* per run: what it is still to write, in order
  pipe,    \* per run: lines written and not yet read
  reader,  \* per run: readLoop, or the notification it handles
  hooked,  \* per run: the callbacks are set
  call,    \* per run: the call that waits, or its response
  shut,    \* per run: AppServer.closed
  turn,    \* per run: turnDone
  events,  \* per run: its event channel
  sealed,  \* runs whose event channel is closed
  watcher, \* per run: the goroutine waitTurnDone
  panic    \* the run whose reader sent on its closed channel

driverVars  == <<binding, run, at, seen, resume, outcome>>
faultVars   == <<stopped, broken, faults>>
processVars == <<server, duty>>
readerVars  == <<pipe, reader, hooked, call, shut, turn>>
channelVars == <<events, sealed, watcher, panic>>
vars == <<driverVars, faultVars, processVars, readerVars, channelVars>>

Each(x) == [r \in Runs |-> x]

Init ==
  /\ binding = [thread |-> None, failed |-> FALSE]
  /\ run = 0 /\ at = "idle" /\ seen = None
  /\ resume = Each(None) /\ outcome = Each("none")
  /\ stopped = {} /\ broken = {} /\ faults = 0
  /\ server = Each("none") /\ duty = Each(<<>>)
  /\ pipe = Each(<<>>) /\ reader = Each("none") /\ hooked = Each(FALSE)
  /\ call = Each("none") /\ shut = Each(FALSE) /\ turn = Each("none")
  /\ events = Each(<<>>) /\ sealed = {} /\ watcher = Each("none") /\ panic = None

ThreadOf(r) == IF resume[r] # None THEN resume[r] ELSE r

\* The context of a run ends when it is cancelled, and when execute returns.
ContextOver(r) == r \in stopped \/ outcome[r] # "none"

Bounded == run <= MaxRuns

\* An event that RunInvocation will not read any more is not kept.
Returns(how) ==
  /\ at' = "idle" /\ outcome' = [outcome EXCEPT ![run] = how]
  /\ events' = [events EXCEPT ![run] = <<>>]

Send(r, e) ==
  events' = IF outcome[r] = "none" THEN [events EXCEPT ![r] = Append(@, e)] ELSE events

\* What Close does to the process.
Killed(r) == /\ server' = [server EXCEPT ![r] = IF @ = "up" THEN "dead" ELSE @]
             /\ duty' = [duty EXCEPT ![r] = <<>>]

-----------------------------------------------------------------------------
(* RunInvocation and Invoke.                                                *)

\* resolveProviderSession.
Begin ==
  /\ at = "idle" /\ run \in 0..MaxRuns
  /\ run' = run + 1 /\ at' = "start" /\ seen' = None
  /\ resume' = [resume EXCEPT ![run + 1] =
                  IF binding.failed THEN None ELSE binding.thread]
  /\ UNCHANGED <<binding, outcome, faultVars, processVars, readerVars, channelVars>>

\* startAppServer, with the first exchange of lines.
ServerStarts ==
  /\ Bounded /\ at = "start" /\ ~ContextOver(run)
  /\ at' = "thread"
  /\ server' = [server EXCEPT ![run] = "up"]
  /\ reader' = [reader EXCEPT ![run] = "scan"]
  /\ hooked' = [hooked EXCEPT ![run] = TRUE]
  /\ UNCHANGED <<binding, run, seen, resume, outcome, faultVars, duty,
                 pipe, call, shut, turn, channelVars>>

ServerFails ==
  /\ Bounded /\ at = "start"
  /\ Returns("refused")
  /\ UNCHANGED <<binding, run, seen, resume, faultVars, processVars, readerVars, sealed,
                 watcher, panic>>

\* What the app server is to write for a request.
Duties ==
  CASE at = "turn" -> {<<"turn">> \o [i \in 1..n |-> "delta"] \o <<"end">> : n \in 0..MaxDeltas}
    [] at = "thread" /\ resume[run] = None -> {<<"thread", "announce">>}
    [] OTHER -> {<<"thread">>}

\* call writes the request and waits for the response.
Call ==
  /\ at \in {"thread", "turn"} /\ call[run] = "none"
  /\ ~shut[run] /\ server[run] = "up"
  /\ \E d \in Duties : duty' = [duty EXCEPT ![run] = @ \o d]
  /\ call' = [call EXCEPT ![run] = "waiting"]
  /\ UNCHANGED <<driverVars, faultVars, server, pipe, reader, hooked, shut,
                 turn, channelVars>>

ThreadReady ==
  /\ at = "thread" /\ call[run] = "granted"
  /\ at' = "turn"
  /\ call' = [call EXCEPT ![run] = "none"]
  /\ events' = IF resume[run] = None THEN events
               ELSE [events EXCEPT ![run] = Append(@, "session")]
  /\ UNCHANGED <<binding, run, seen, resume, outcome, faultVars, processVars, pipe, reader,
                 hooked, shut, turn, sealed, watcher, panic>>

TurnStarted ==
  /\ at = "turn" /\ call[run] = "granted"
  /\ at' = "consume"
  /\ call' = [call EXCEPT ![run] = "none"]
  /\ watcher' = [watcher EXCEPT ![run] = "wait"]
  /\ UNCHANGED <<binding, run, seen, resume, outcome, faultVars, processVars, pipe, reader,
                 hooked, shut, turn, events, sealed, panic>>

\* Mutant: the failure of Invoke marks the conversation as well.
InvokeFailsMarked ==
  /\ at \in {"thread", "turn"}
  /\ \/ call[run] = "none" /\ (shut[run] \/ server[run] = "dead")
     \/ call[run] = "refused"
     \/ call[run] # "none" /\ ContextOver(run)
  /\ Returns("refused")
  /\ binding' = [binding EXCEPT !.failed = (resume[run] # None) \/ @]
  /\ shut' = [shut EXCEPT ![run] = TRUE] /\ Killed(run)
  /\ sealed' = sealed \cup {run}
  /\ call' = [call EXCEPT ![run] = "none"]
  /\ UNCHANGED <<run, seen, resume, faultVars, pipe, reader, hooked, turn, watcher,
                 panic>>

\* The write fails, the response is an error, or the context ends: the app
\* server is closed, and the channel, with the callbacks set.
InvokeFails ==
  /\ at \in {"thread", "turn"}
  /\ \/ call[run] = "none" /\ (shut[run] \/ server[run] = "dead")
     \/ call[run] = "refused"
     \/ call[run] # "none" /\ ContextOver(run)
  /\ Returns("refused")
  /\ shut' = [shut EXCEPT ![run] = TRUE] /\ Killed(run)
  /\ sealed' = sealed \cup {run}
  /\ call' = [call EXCEPT ![run] = "none"]
  /\ UNCHANGED <<binding, run, seen, resume, faultVars, pipe,
                 reader, hooked, turn, watcher, panic>>

-----------------------------------------------------------------------------
(* ConsumeEvents, and what RunInvocation does with its result.              *)

\* persistProviderSession.
Persisted ==
  IF seen \in {None, resume[run]} THEN binding ELSE [thread |-> seen, failed |-> FALSE]

\* Mutant: a failure is not remembered.
UnmarkedAsFailed == binding

\* markProviderSessionFailed.
MarkedAsFailed ==
  IF resume[run] = None THEN binding ELSE [binding EXCEPT !.failed = TRUE]

Take ==
  /\ at = "consume" /\ events[run] # <<>>
  /\ LET e == Head(events[run])
     IN CASE e = "completed" -> /\ binding' = Persisted
                                /\ Returns("ok") /\ UNCHANGED seen
          [] e = "failed"    -> /\ binding' = MarkedAsFailed
                                /\ Returns("error") /\ UNCHANGED seen
          [] OTHER           -> /\ seen' = IF e = "session" THEN ThreadOf(run) ELSE seen
                                /\ events' = [events EXCEPT ![run] = Tail(@)]
                                /\ UNCHANGED <<binding, at, outcome>>
  /\ UNCHANGED <<run, resume, faultVars, processVars, readerVars, sealed, watcher, panic>>

\* A publication fails, as it does with a context that has ended.
EmitFails ==
  /\ at = "consume" /\ events[run] # <<>> /\ Head(events[run]) = "delta"
  /\ \/ run \in stopped /\ UNCHANGED <<broken, faults>>
     \/ faults < MaxFaults /\ faults' = faults + 1 /\ broken' = broken \cup {run}
  /\ binding' = MarkedAsFailed
  /\ Returns("error")
  /\ UNCHANGED <<run, seen, resume, stopped, processVars, readerVars, sealed, watcher, panic>>

Cancel ==
  /\ Bounded /\ at # "idle" /\ run \notin stopped
  /\ stopped' = stopped \cup {run}
  /\ UNCHANGED <<driverVars, broken, faults, processVars, readerVars, channelVars>>

-----------------------------------------------------------------------------
(* The app server, which takes its requests one after the other.            *)
Writes(r, line, rest) ==
  /\ pipe' = [pipe EXCEPT ![r] = Append(@, line)]
  /\ duty' = [duty EXCEPT ![r] = rest]

Answers(r) ==
  /\ Head(duty[r]) \in {"thread", "turn"}
  /\ Writes(r, "granted", Tail(duty[r])) \/ Writes(r, "refused", <<>>)

Notifies(r) ==
  \/ Head(duty[r]) = "announce" /\ Writes(r, "session", Tail(duty[r]))
  \/ Head(duty[r]) = "delta"    /\ Writes(r, "delta", Tail(duty[r]))
  \/ Head(duty[r]) = "end"
       /\ \E end \in {"completed", "failed"} : Writes(r, end, Tail(duty[r]))

Serve(r) ==
  /\ server[r] = "up" /\ duty[r] # <<>>
  /\ Answers(r) \/ Notifies(r)
  /\ UNCHANGED <<driverVars, faultVars, server, reader, hooked, call, shut, turn, channelVars>>

ServerExits(r) ==
  /\ server[r] = "up" /\ faults < MaxFaults
  /\ faults' = faults + 1 /\ broken' = broken \cup {r}
  /\ Killed(r)
  /\ UNCHANGED <<driverVars, stopped, readerVars, channelVars>>

\* exec.CommandContext.
Kill(r) ==
  /\ server[r] = "up" /\ ContextOver(r)
  /\ Killed(r)
  /\ UNCHANGED <<driverVars, faultVars, readerVars, channelVars>>

-----------------------------------------------------------------------------
(* readLoop and the callbacks.                                              *)
Read(r) ==
  /\ reader[r] = "scan" /\ pipe[r] # <<>>
  /\ pipe' = [pipe EXCEPT ![r] = Tail(@)]
  /\ LET line == Head(pipe[r])
     IN IF line \in {"granted", "refused"}
        THEN /\ call' = [call EXCEPT ![r] = IF @ = "waiting" THEN line ELSE @]
             /\ UNCHANGED reader
        ELSE /\ reader' = IF hooked[r] THEN [reader EXCEPT ![r] = line] ELSE reader
             /\ UNCHANGED call
  /\ UNCHANGED <<driverVars, faultVars, processVars, hooked, shut, turn, channelVars>>

\* A send to a closed channel ends the worker process.
Forward(r) ==
  /\ reader[r] \in {"session", "delta"}
  /\ IF r \in sealed
     THEN panic' = r /\ UNCHANGED <<events, reader>>
     ELSE /\ Send(r, reader[r])
          /\ reader' = [reader EXCEPT ![r] = "scan"]
          /\ UNCHANGED panic
  /\ UNCHANGED <<driverVars, faultVars, processVars, pipe, hooked, call, shut, turn,
                 sealed, watcher>>

\* Mutant: reports the end of the turn and goes on to send its result itself.
TurnOverThenSend(r) ==
  /\ reader[r] \in {"completed", "failed"} /\ turn[r] = "none"
  /\ turn' = [turn EXCEPT ![r] = reader[r]]
  /\ reader' = [reader EXCEPT ![r] = "delta"]
  /\ UNCHANGED <<driverVars, faultVars, processVars, pipe, hooked, call, shut, channelVars>>

\* onTurnCompleted.
TurnOver(r) ==
  /\ reader[r] \in {"completed", "failed"} /\ turn[r] = "none"
  /\ turn' = [turn EXCEPT ![r] = reader[r]]
  /\ reader' = [reader EXCEPT ![r] = "scan"]
  /\ UNCHANGED <<driverVars, faultVars, processVars, pipe, hooked, call, shut, channelVars>>

\* The end of the pipe, and markClosed.
ReaderEnds(r) ==
  /\ reader[r] = "scan" /\ pipe[r] = <<>> /\ server[r] = "dead"
  /\ reader' = [reader EXCEPT ![r] = "ended"]
  /\ shut' = [shut EXCEPT ![r] = TRUE]
  /\ UNCHANGED <<driverVars, faultVars, processVars, pipe, hooked, call, turn, channelVars>>

-----------------------------------------------------------------------------
(* waitTurnDone.                                                            *)

\* Mutant: waits for the turn alone.
WatcherWaits(r) ==
  /\ watcher[r] = "wait"
  /\ turn[r] # "none" /\ Send(r, turn[r])
  /\ watcher' = [watcher EXCEPT ![r] = "close"]
  /\ UNCHANGED <<driverVars, faultVars, processVars, readerVars, sealed, panic>>

WatcherWakes(r) ==
  /\ watcher[r] = "wait"
  /\ \/ turn[r] # "none" /\ Send(r, turn[r])
     \/ ContextOver(r) /\ Send(r, "failed")
  /\ watcher' = [watcher EXCEPT ![r] = "close"]
  /\ UNCHANGED <<driverVars, faultVars, processVars, readerVars, sealed, panic>>

\* The callbacks are cleared, under a reader that may be in one, and the app
\* server is closed.
CloseServer(r) ==
  /\ watcher[r] = "close"
  /\ hooked' = [hooked EXCEPT ![r] = FALSE]
  /\ shut' = [shut EXCEPT ![r] = TRUE] /\ Killed(r)
  /\ watcher' = [watcher EXCEPT ![r] = "seal"]
  /\ UNCHANGED <<driverVars, faultVars, pipe, reader, call, turn, events, sealed,
                 panic>>

CloseEvents(r) ==
  /\ watcher[r] = "seal"
  /\ sealed' = sealed \cup {r}
  /\ watcher' = [watcher EXCEPT ![r] = "done"]
  /\ UNCHANGED <<driverVars, faultVars, processVars, readerVars, events, panic>>

-----------------------------------------------------------------------------
Invoke  == ServerStarts \/ ServerFails \/ Call \/ ThreadReady \/ TurnStarted \/ InvokeFails
Consume == Take \/ EmitFails
Reader(r)  == Read(r) \/ Forward(r) \/ TurnOver(r) \/ ReaderEnds(r)
Watcher(r) == WatcherWakes(r) \/ CloseServer(r) \/ CloseEvents(r)

Next ==
  /\ panic = None
  /\ \/ Begin \/ Invoke \/ Consume \/ Cancel
     \/ \E r \in Runs : \/ Serve(r) \/ ServerExits(r) \/ Kill(r)
                        \/ Reader(r) \/ Watcher(r)

Spec == Init /\ [][Next]_vars

(* Goroutines run, and a process whose context has ended is killed.  Nothing *)
(* makes the app server answer or finish, a call that nobody answers return, *)
(* or a session begin another run.  No behaviour goes on for ever, so one    *)
(* condition says as much as one for every goroutine.                        *)
Progress ==
  /\ panic = None
  /\ \/ Consume \/ Call \/ ThreadReady \/ TurnStarted \/ InvokeFails
     \/ at = "start" /\ ContextOver(run) /\ ServerFails
     \/ \E r \in Runs : Reader(r) \/ Watcher(r) \/ Kill(r)

FairSpec == Spec /\ WF_vars(Progress)

-----------------------------------------------------------------------------
Lines == {"granted", "refused", "session", "delta", "completed", "failed"}

TypeOK ==
  /\ binding \in [thread : Runs \cup {None}, failed : BOOLEAN]
  /\ run \in Runs \cup {0} /\ seen \in Runs \cup {None}
  /\ at \in {"idle", "start", "thread", "turn", "consume"}
  /\ resume \in [Runs -> Runs \cup {None}]
  /\ outcome \in [Runs -> {"none", "refused", "ok", "error"}]
  /\ stopped \subseteq Runs /\ broken \subseteq Runs /\ faults \in Nat
  /\ server \in [Runs -> {"none", "up", "dead"}]
  /\ duty \in [Runs -> Seq({"thread", "announce", "turn", "delta", "end"})]
  /\ pipe \in [Runs -> Seq(Lines)]
  /\ reader \in [Runs -> Lines \cup {"none", "scan", "ended"}]
  /\ hooked \in [Runs -> BOOLEAN] /\ shut \in [Runs -> BOOLEAN]
  /\ call \in [Runs -> {"none", "waiting", "granted", "refused"}]
  /\ turn \in [Runs -> {"none", "completed", "failed"}]
  /\ events \in [Runs -> Seq(Lines)] /\ sealed \subseteq Runs
  /\ watcher \in [Runs -> {"none", "wait", "close", "seal", "done"}]
  /\ panic \in Runs \cup {None}

(* The reader of a run sends on the closed channel, and so ends the worker  *)
(* and every run on it, only if the run was cancelled, its app server       *)
(* exited, or an event could not be published: never after a turn that      *)
(* ended by itself, although the channel is closed while the reader reads.  *)
PanicNeedsTrouble == panic # None => panic \in stopped \cup broken

(* A run resumes only a conversation that an earlier run of the session     *)
(* ended well with, and that no run failed in since.                        *)
ResumesWhatEndedWell ==
  \A r \in Runs : resume[r] # None =>
    \E s \in 1..(r - 1) :
      /\ outcome[s] = "ok" /\ ThreadOf(s) = resume[r]
      /\ \A x \in s..(r - 1) : resume[x] = resume[r] => outcome[x] # "error"

(* After a run that ended well the next one that gets to its turn goes on   *)
(* with the same conversation, whatever attempts were refused in between.   *)
ConversationKept ==
  \A s, r \in 1..run :
    (/\ s < r /\ outcome[s] = "ok"
     /\ \A x \in (s + 1)..(r - 1) : outcome[x] = "refused")
    => resume[r] = ThreadOf(s)

(* A run that is cancelled, or whose turn is over, returns, and leaves no   *)
(* process, reader or watcher behind.                                       *)
Gone(r) == /\ outcome[r] # "none" /\ server[r] # "up"
           /\ reader[r] \in {"none", "ended"} /\ watcher[r] \in {"none", "done"}
RunEnds ==
  \A r \in 1..MaxRuns : r \in stopped \/ turn[r] # "none" ~> Gone(r) \/ panic # None
=============================================================================
