------------------------------ MODULE ExecService ------------------------------
(***************************************************************************)
(* The execution service (internal/executor/service.go): the poll loop and *)
(* the WebSocket readers admit runs, a shared map records the cancel       *)
(* function of each running one, and one goroutine per admission executes  *)
(* the run and reports its status to the cloud.                            *)
(*                                                                         *)
(* An execution (a goroutine started by spawnRun together with its cancel  *)
(* function) is a member of Execs; a slot of Execs is reused once its      *)
(* goroutine is gone, so |Execs| bounds how many are alive at a time.      *)
(***************************************************************************)
EXTENDS Naturals, FiniteSets

CONSTANTS
  Runs,          \* runs the cloud may create
  NoRun,
  Workflows,     \* what ListWorkflows returns
  WorkflowOf,    \* the workflow of a run, or NoWorkflow (workflow_id 0)
  NoWorkflow,
  RunType,       \* run_type of a run, as GetPendingRuns returns it
  Ready,         \* the runs whose record names the target its type needs
  EvalRuns,      \* the runs whose input carries an eval set id
  Execs,         \* execution slots (bound on concurrent executions)
  NoExec,
  Readers,       \* WebSocket reader goroutines
  Flaps,         \* whether the socket ever changes its state
  MaxFaults      \* bound on failed calls to the cloud

RunTypes == {"workflow", "agent", "api"}

ASSUME ConstAssumption ==
  /\ WorkflowOf \in [Runs -> Workflows \cup {NoWorkflow}]
  /\ RunType \in [Runs -> RunTypes \cup {"other"}]
  /\ Ready \subseteq Runs
  /\ EvalRuns \subseteq Runs
  /\ NoExec \notin Execs
  /\ NoRun \notin Runs
  /\ NoWorkflow \notin Workflows
  /\ Flaps \in BOOLEAN
  /\ MaxFaults \in Nat

Statuses == {"none", "pending", "running", "completed", "failed"}
Terminal == {"completed", "failed"}
Phases   == {"free", "begin", "prepare", "detail", "work", "reportFailed",
             "finalize", "reportCompleted", "abort", "cleanup"}

VARIABLES
  status,        \* the cloud's status of each run
  wsUp,          \* what the wsConnected function returns
  running,       \* ExecutionService.running: run -> the latest cancel function
  phase,         \* where each execution's goroutine is
  runOf, kindOf, evalOf,   \* the run it executes, and how
  failed,        \* its err variable, at the two places that read it again
  cancelled,     \* the executions whose context is done
  hooks,         \* the hooks on the one StepExecutor, by owner
  reader,        \* reader -> the run it found absent from the map, or none
  pollPc, pollWfs, pollRuns,   \* poll's control state and its two loops
  pollRun,       \* the run poll found absent from the map
  stopped,       \* stopCh is closed
  ctxDone,       \* the daemon's context is done
  faults,        \* failed calls so far
  lost,          \* history: runs one of whose status reports was lost
  leaked         \* history: hooks whose owner returned on a detail error

cloudVars == <<status, lost>>
execVars  == <<phase, runOf, kindOf, evalOf, failed>>
hookVars  == <<hooks, leaked>>
pollVars  == <<pollPc, pollWfs, pollRuns, pollRun>>
stopVars  == <<stopped, ctxDone>>
vars == <<status, wsUp, running, phase, runOf, kindOf, evalOf, failed,
          cancelled, hooks, reader, pollPc, pollWfs, pollRuns, pollRun,
          stopped, ctxDone, faults, lost, leaked>>

Live(e) == phase[e] # "free"

-------------------------------------------------------------------------------
(* Calls to the cloud.  A call fails when its context is done, and may fail *)
(* for any other reason while the fault bound lasts.                        *)

Fault == faults < MaxFaults /\ faults' = faults + 1

CallFails(e) ==
  \/ e \in cancelled /\ UNCHANGED faults
  \/ e \notin cancelled /\ Fault

CallSucceeds(e) == e \notin cancelled /\ UNCHANGED faults

\* UpdateRunStatus: the error is logged and dropped.  A failed call means that
\* the cloud does not learn the status, or that only its answer was lost.
Report(e, s) ==
  \/ /\ CallSucceeds(e) \/ (e \notin cancelled /\ Fault)
     /\ status' = [status EXCEPT ![runOf[e]] = s]
     /\ UNCHANGED lost
  \/ /\ CallFails(e)
     /\ lost' = lost \cup {runOf[e]}
     /\ UNCHANGED status

-------------------------------------------------------------------------------
(* The cloud and the connection (external).                                *)

CreateRun(r) ==
  /\ status[r] = "none"
  /\ status' = [status EXCEPT ![r] = "pending"]
  /\ UNCHANGED <<lost, wsUp, running, execVars, cancelled, hookVars, reader,
                 pollVars, stopVars, faults>>

WsFlip ==
  /\ Flaps
  /\ wsUp' = ~wsUp
  /\ UNCHANGED <<cloudVars, running, execVars, cancelled, hookVars, reader,
                 pollVars, stopVars, faults>>

-------------------------------------------------------------------------------
(* Admission.                                                              *)

\* The kind of execution a polled run gets: its type, or a silent return.
PolledKind(r) ==
  IF r \in Ready /\ RunType[r] \in RunTypes THEN RunType[r] ELSE "skip"

\* A dispatched run carries no run type and no input: always a workflow.
DispatchedKind(r) ==
  IF WorkflowOf[r] # NoWorkflow THEN "workflow" ELSE "skip"

SpawnRun(r, kind, eval) ==
  \E e \in Execs :
    /\ phase[e] = "free"
    /\ running' = [running EXCEPT ![r] = e]
    /\ phase'   = [phase EXCEPT ![e] = "begin"]
    /\ runOf'   = [runOf EXCEPT ![e] = r]
    /\ kindOf'  = [kindOf EXCEPT ![e] = kind]
    /\ evalOf'  = [evalOf EXCEPT ![e] = eval]
    /\ cancelled' = IF ctxDone THEN cancelled \cup {e} ELSE cancelled

\* What both sources ask of the map: the run is not in it.
AbsentUnread(r) == TRUE                        \* faulty: the map is not read
Absent(r) == running[r] = NoExec

\* DispatchRun, first half: look the run up under the read lock.  The cloud
\* dispatches the runs it holds as pending, as often as it likes; receiving
\* the message and looking the run up are one step.
DispatchCheck(d, r) ==
  /\ wsUp
  /\ reader[d] = NoRun
  /\ status[r] = "pending"
  /\ Absent(r)
  /\ reader' = [reader EXCEPT ![d] = r]
  /\ UNCHANGED <<hookVars, cloudVars, wsUp, running, execVars, cancelled,
                 pollVars, stopVars, faults>>

\* DispatchRun, second half: the lock was released in between.
DispatchSpawn(d) ==
  /\ reader[d] # NoRun
  /\ SpawnRun(reader[d], DispatchedKind(reader[d]), FALSE)
  /\ reader' = [reader EXCEPT ![d] = NoRun]
  /\ UNCHANGED <<hookVars, cloudVars, wsUp, failed, pollVars, stopVars,
                 faults>>

CancelRun(d, r) ==
  /\ wsUp
  /\ reader[d] = NoRun
  /\ running[r] # NoExec
  /\ cancelled' = cancelled \cup {running[r]}
  /\ UNCHANGED <<cloudVars, wsUp, running, execVars, hookVars, reader,
                 pollVars, stopVars, faults>>

-------------------------------------------------------------------------------
(* The poll loop.                                                          *)

\* The select takes a tick, also when stopCh is closed as well (Go chooses
\* among the ready cases at random); a connected socket ends the poll at once.
PollTick ==
  /\ pollPc = "idle"
  /\ ~wsUp
  /\ pollPc' = "list"
  /\ UNCHANGED <<hookVars, cloudVars, wsUp, running, execVars, cancelled,
                 reader, pollWfs, pollRuns, pollRun, stopVars, faults>>

ListErrorExits == "exited"                     \* faulty: leaves the loop too
ListError == "idle"
PollList ==
  /\ pollPc = "list"
  /\ \/ /\ ~ctxDone
        /\ pollPc' = "loop" /\ pollWfs' = Workflows
        /\ UNCHANGED faults
     \/ /\ IF ctxDone THEN UNCHANGED faults ELSE Fault
        /\ pollPc' = ListError /\ UNCHANGED pollWfs
  /\ UNCHANGED <<hookVars, cloudVars, wsUp, running, execVars, cancelled,
                 reader, pollRuns, pollRun, stopVars>>

\* GetPendingRuns for one workflow: a snapshot of what the cloud holds.
PollFetch(w) ==
  /\ pollPc = "loop" /\ pollRuns = {} /\ w \in pollWfs
  /\ pollWfs' = pollWfs \ {w}
  /\ \/ /\ ~ctxDone
        /\ pollRuns' = {r \in Runs : WorkflowOf[r] = w /\ status[r] = "pending"}
        /\ UNCHANGED faults
     \/ /\ IF ctxDone THEN UNCHANGED faults ELSE Fault
        /\ UNCHANGED pollRuns
  /\ UNCHANGED <<hookVars, cloudVars, wsUp, running, execVars, cancelled,
                 reader, pollPc, pollRun, stopVars>>

\* The inner loop looks one fetched run up under the read lock.
PollCheck(r) ==
  /\ pollPc = "loop" /\ r \in pollRuns
  /\ pollRuns' = pollRuns \ {r}
  /\ IF Absent(r)
     THEN pollPc' = "spawn" /\ pollRun' = r
     ELSE UNCHANGED <<pollPc, pollRun>>
  /\ UNCHANGED <<hookVars, cloudVars, wsUp, running, execVars, cancelled,
                 reader, pollWfs, stopVars, faults>>

PollSpawn ==
  /\ pollPc = "spawn"
  /\ SpawnRun(pollRun, PolledKind(pollRun), pollRun \in EvalRuns)
  /\ pollPc' = "loop" /\ pollRun' = NoRun
  /\ UNCHANGED <<hookVars, cloudVars, wsUp, failed, reader, pollWfs, pollRuns,
                 stopVars, faults>>

PollDone ==
  /\ pollPc = "loop" /\ pollRuns = {} /\ pollWfs = {}
  /\ pollPc' = "idle"
  /\ UNCHANGED <<hookVars, cloudVars, wsUp, running, execVars, cancelled,
                 reader, pollWfs, pollRuns, pollRun, stopVars, faults>>

ToldToExit == stopped \/ ctxDone
PollExit ==
  /\ pollPc = "idle" /\ ToldToExit
  /\ pollPc' = "exited"
  /\ UNCHANGED <<hookVars, cloudVars, wsUp, running, execVars, cancelled,
                 reader, pollWfs, pollRuns, pollRun, stopVars, faults>>

Poll == PollTick \/ PollList \/ PollSpawn \/ PollDone \/ PollExit
        \/ (\E w \in Workflows : PollFetch(w)) \/ (\E r \in Runs : PollCheck(r))

-------------------------------------------------------------------------------
(* One execution: executeRun and the deferred cleanup of spawnRun.         *)

Goto(e, p) == phase' = [phase EXCEPT ![e] = p]

\* What an execution leaves alone whatever it does.
ExecFrame == UNCHANGED <<wsUp, reader, pollVars, stopVars, runOf, kindOf>>

\* The first statement of each kind: give up without a word, or report running.
Begin(e) ==
  /\ phase[e] = "begin"
  /\ IF kindOf[e] = "skip"
     THEN Goto(e, "cleanup") /\ UNCHANGED <<cloudVars, faults>>
     ELSE /\ Report(e, "running")
          /\ Goto(e, CASE kindOf[e] = "workflow" -> "prepare"
                       [] kindOf[e] = "agent"    -> "detail"
                       [] OTHER                  -> "work")
  /\ ExecFrame
  /\ UNCHANGED <<hookVars, evalOf, running, cancelled, failed>>

\* PrepareWorkflowEval and AddHook; if it fails the run goes on without eval.
Prepare(e) ==
  /\ phase[e] = "prepare"
  /\ Goto(e, "detail")
  /\ \/ /\ evalOf[e] /\ CallSucceeds(e)
        /\ hooks' = hooks \cup {e} /\ UNCHANGED evalOf
     \/ /\ evalOf[e] /\ CallFails(e)
        /\ evalOf' = [evalOf EXCEPT ![e] = FALSE] /\ UNCHANGED hooks
     \/ ~evalOf[e] /\ UNCHANGED <<hooks, evalOf, faults>>
  /\ ExecFrame /\ UNCHANGED <<cloudVars, running, cancelled, failed, leaked>>

DetailErrorSilent == "cleanup"                 \* faulty: return, no report
DetailErrorRetry == "detail"                   \* faulty: retry for ever
DetailError == "abort"

\* GetWorkflowDetail or GetAgentDetail; an agent without a prompt fails too.
Detail(e) ==
  /\ phase[e] = "detail"
  /\ \/ CallSucceeds(e) /\ Goto(e, "work") /\ UNCHANGED leaked
     \/ /\ CallFails(e) /\ Goto(e, DetailError)
        /\ leaked' = leaked \cup (hooks \cap {e})
     \/ /\ kindOf[e] = "agent" /\ CallSucceeds(e)
        /\ Goto(e, DetailError) /\ UNCHANGED leaked
  /\ ExecFrame
  /\ UNCHANGED <<evalOf, cloudVars, running, cancelled, hooks, failed>>

\* engine.Execute, RunSkill or the HTTP request of an api run: it may fail on
\* its own account, cancelled or not.
Work(e) ==
  /\ phase[e] = "work"
  /\ \E err \in BOOLEAN :
       /\ failed' = [failed EXCEPT ![e] = err]
       /\ Goto(e, IF kindOf[e] = "workflow"
                  THEN IF err THEN "reportFailed" ELSE "finalize"
                  ELSE IF err THEN "abort" ELSE "reportCompleted")
  /\ ExecFrame
  /\ UNCHANGED <<hookVars, evalOf, cloudVars, running, cancelled, faults>>

ReportFailed(e) ==
  /\ phase[e] = "reportFailed"
  /\ Report(e, "failed") /\ Goto(e, "finalize")
  /\ ExecFrame
  /\ UNCHANGED <<hookVars, evalOf, running, cancelled, failed>>

HooksAfter(e) == IF evalOf[e] THEN {} ELSE hooks
AfterFinalizeNoReturn(e) == "reportCompleted"  \* faulty: err is not looked at
AfterFinalize(e) == IF failed[e] THEN "cleanup" ELSE "reportCompleted"

\* FinalizeWorkflowEval and ClearHooks, if this run attached a hook; then the
\* workflow run that failed returns.
Finalize(e) ==
  /\ phase[e] = "finalize"
  /\ hooks' = HooksAfter(e)
  /\ leaked' = leaked \cap hooks'
  /\ Goto(e, AfterFinalize(e))
  /\ ExecFrame
  /\ UNCHANGED <<evalOf, cloudVars, running, cancelled, failed, faults>>

ReportCompleted(e) ==
  /\ phase[e] = "reportCompleted"
  /\ Report(e, "completed") /\ Goto(e, "cleanup")
  /\ ExecFrame
  /\ UNCHANGED <<hookVars, evalOf, running, cancelled, failed>>

\* Report failed and return at once.
Abort(e) ==
  /\ phase[e] = "abort"
  /\ Report(e, "failed") /\ Goto(e, "cleanup")
  /\ ExecFrame
  /\ UNCHANGED <<hookVars, evalOf, running, cancelled, failed>>

Forget(r) == [running EXCEPT ![r] = NoExec]

\* The deferred function: cancel, and delete the run's entry, whoever set it.
\* The slot is as good as new.
Cleanup(e) ==
  /\ phase[e] = "cleanup"
  /\ Goto(e, "free")
  /\ running' = Forget(runOf[e])
  /\ cancelled' = cancelled \ {e}
  /\ runOf'  = [runOf EXCEPT ![e] = NoRun]
  /\ kindOf' = [kindOf EXCEPT ![e] = "skip"]
  /\ evalOf' = [evalOf EXCEPT ![e] = FALSE]
  /\ failed' = [failed EXCEPT ![e] = FALSE]
  /\ UNCHANGED <<hookVars, cloudVars, wsUp, reader, pollVars, stopVars,
                 faults>>

Execute(e) == Begin(e) \/ Prepare(e) \/ Detail(e) \/ Work(e) \/ ReportFailed(e)
              \/ Finalize(e) \/ ReportCompleted(e) \/ Abort(e) \/ Cleanup(e)

-------------------------------------------------------------------------------
(* The daemon stops the service, then cancels the context all runs share.  *)

Stop ==
  /\ ~stopped
  /\ stopped' = TRUE
  /\ UNCHANGED <<hookVars, cloudVars, wsUp, running, execVars, cancelled,
                 reader, pollVars, ctxDone, faults>>

CancelContext ==
  /\ stopped /\ ~ctxDone
  /\ ctxDone' = TRUE
  /\ cancelled' = {e \in Execs : Live(e)}
  /\ UNCHANGED <<hookVars, cloudVars, wsUp, running, execVars, reader,
                 pollVars, stopped, faults>>

-------------------------------------------------------------------------------
Init ==
  /\ status = [r \in Runs |-> "none"]
  /\ wsUp \in BOOLEAN
  /\ running = [r \in Runs |-> NoExec]
  /\ phase = [e \in Execs |-> "free"]
  /\ runOf = [e \in Execs |-> NoRun]
  /\ kindOf = [e \in Execs |-> "skip"]
  /\ evalOf = [e \in Execs |-> FALSE]
  /\ failed = [e \in Execs |-> FALSE]
  /\ cancelled = {} /\ hooks = {} /\ lost = {} /\ leaked = {}
  /\ reader = [d \in Readers |-> NoRun]
  /\ pollPc = "idle"
  /\ pollWfs = {} /\ pollRuns = {} /\ pollRun = NoRun
  /\ stopped = FALSE /\ ctxDone = FALSE
  /\ faults = 0

Next ==
  \/ \E r \in Runs : CreateRun(r)
  \/ WsFlip
  \/ \E d \in Readers : DispatchSpawn(d)
  \/ \E d \in Readers, r \in Runs : DispatchCheck(d, r) \/ CancelRun(d, r)
  \/ Poll
  \/ \E e \in Execs : Execute(e)
  \/ Stop
  \/ CancelContext

Spec == Init /\ [][Next]_vars

\* Goroutines are scheduled fairly, every call of an execution returns (HTTP
\* calls carry deadlines), the ticker keeps ticking, and a select that can
\* take stopCh infinitely often takes it.  The cloud owes nothing.
Fairness ==
  /\ \A e \in Execs : WF_vars(Execute(e))
  /\ SF_vars(Poll)
  /\ SF_vars(PollExit)
  /\ \A d \in Readers : SF_vars(DispatchSpawn(d))

FairSpec == Spec /\ Fairness

-------------------------------------------------------------------------------
(* Properties.                                                             *)

TypeOK ==
  /\ status \in [Runs -> Statuses]
  /\ wsUp \in BOOLEAN
  /\ running \in [Runs -> Execs \cup {NoExec}]
  /\ phase \in [Execs -> Phases]
  /\ runOf \in [Execs -> Runs \cup {NoRun}]
  /\ \A e \in Execs : Live(e) => runOf[e] \in Runs
  /\ kindOf \in [Execs -> RunTypes \cup {"skip"}]
  /\ evalOf \in [Execs -> BOOLEAN]
  /\ failed \in [Execs -> BOOLEAN]
  /\ cancelled \subseteq Execs /\ hooks \subseteq Execs
  /\ leaked \subseteq Execs
  /\ lost \subseteq Runs
  /\ reader \in [Readers -> Runs \cup {NoRun}]
  /\ pollPc \in {"idle", "list", "loop", "spawn", "exited"}
  /\ pollWfs \subseteq Workflows /\ pollRuns \subseteq Runs
  /\ pollRun \in Runs \cup {NoRun}
  /\ (pollPc = "spawn") <=> (pollRun # NoRun)
  /\ stopped \in BOOLEAN /\ ctxDone \in BOOLEAN
  /\ faults \in 0..MaxFaults

\* The cancel function recorded for a run belongs to an execution of that run
\* whose goroutine is still there: CancelRun never cancels another run's
\* execution nor keeps a dead one, however admissions and cleanups interleave.
MapEntryLive ==
  \A r \in Runs : running[r] # NoExec =>
    Live(running[r]) /\ runOf[running[r]] = r

\* The phases in which an execution has said "running" and has not yet given
\* its verdict.
Owes(e) ==
  \/ phase[e] \in {"prepare", "detail", "work", "reportFailed",
                   "reportCompleted", "abort"}
  \/ phase[e] = "finalize" /\ ~failed[e]

\* A run the cloud shows as running is being executed, by an execution that
\* will still report on it, unless a report of that run was lost: whatever
\* path an execution takes it does not leave the run running.
RunningIsOwned ==
  \A r \in Runs : status[r] = "running" /\ r \notin lost =>
    \E e \in Execs : Live(e) /\ runOf[e] = r /\ Owes(e)

\* A hook stays on the shared step executor only while its workflow run is
\* under way, except for the runs that returned on a detail error.
HookOwner ==
  \A h \in hooks :
    \/ h \in leaked
    \/ phase[h] \in {"detail", "work", "reportFailed", "finalize"}

\* One source of runs only: a socket that stays up, with one reader, or, while
\* it stays down, the poll loop.
SoleActor == ~Flaps /\ \A c, d \in Readers : c = d

\* No run is executed twice at the same time (with a sole actor: DispatchRun
\* and poll look the map up and write it under separate locks).
AtMostOneLive ==
  \A e, f \in Execs : Live(e) /\ Live(f) /\ runOf[e] = runOf[f] => e = f

\* With a socket that stays up as the only source, a verdict stands: a run that
\* completed or failed is never reported differently, nor set back to running.
VerdictStands ==
  [][\A r \in Runs : wsUp /\ status[r] \in Terminal => status'[r] = status[r]]_status

\* Every execution ends and leaves the map (the deferred cleanup runs on every
\* path of the three kinds).
ExecutionEnds == \A e \in Execs : phase[e] = "begin" ~> phase[e] = "free"

\* Once the socket stays down and the service is not stopped, every pending
\* run that polling can see and execute is picked up and reported on, or one
\* of its reports is lost.
PendingPickedUp ==
  <>[](~wsUp /\ ~stopped) =>
    \A r \in Runs :
      PolledKind(r) # "skip" /\ WorkflowOf[r] \in Workflows =>
        (status[r] = "pending" ~> status[r] \in Terminal \/ r \in lost)

\* service.go:73-74, of CancelRun: it cancels a running execution by its run
\* id, and is a no-op only if the run is not currently executing here.
CancelReaches ==
  \A e \in Execs : Live(e) => running[runOf[e]] # NoExec
===============================================================================
