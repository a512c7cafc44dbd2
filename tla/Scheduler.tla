-------------------------------- MODULE Scheduler --------------------------------
(***************************************************************************)
(* The scheduler (internal/scheduler/scheduler.go): it mirrors the cloud's *)
(* enabled schedules into a cron table, and a cron trigger creates a run   *)
(* in the cloud, which the executor picks up; runs of kind api are also    *)
(* executed by the scheduler itself.  A schedule is its cron expression;   *)
(* its other fields are left out.                                          *)
(***************************************************************************)
EXTENDS Naturals

CONSTANTS
  Ids,         \* schedules
  Workflows, WorkflowOf,
  Api,         \* the schedules whose execution type is api
  Exprs, Valid,  \* cron expressions, those that parse
  None,        \* no, or a disabled, schedule
  MaxEdits,    \* bound on changes the user makes in the cloud
  MaxFaults,   \* bound on calls that fail
  Runs         \* bound on runs: the triggers that may happen

ASSUME ConstAssumption ==
  /\ WorkflowOf \in [Ids -> Workflows]
  /\ Api \subseteq Ids /\ Valid \subseteq Exprs
  /\ None \notin Exprs
  /\ MaxEdits \in Nat /\ MaxFaults \in Nat

VARIABLES
  cloud,       \* schedule -> what the user wants
  edits, faults,
  pc,          \* the goroutine of sync and syncLoop
  started,     \* Start returned
  left, got,   \* sync: workflows still to fetch, what was fetched
  entry,       \* entryMap and the closures in cron: what each entry will run
  known,       \* Scheduler.schedules
  stopped, ctxDone,
  job,         \* trigger -> where its goroutine is
  copy,        \* trigger -> schedule and the copy it runs
  lost,        \* runs a report of which was lost (history)
  status,      \* run of the trigger -> what the cloud knows
  exec         \* the executor's execution of that run

vars == <<cloud, edits, faults, lost, pc, started, left, got, entry, known,
          stopped, ctxDone, job, copy, status, exec>>
cloudVars == <<cloud, edits>>
syncVars  == <<pc, started, left, got>>
cronVars  == <<entry, known>>
stopVars  == <<stopped, ctxDone>>
runVars   == <<job, copy, lost, status, exec>>

\* A call to the cloud fails while the bound lasts, or if its context is done.
CallFails ==
  \/ ctxDone /\ UNCHANGED faults
  \/ faults < MaxFaults /\ faults' = faults + 1
CallSucceeds == ~ctxDone /\ UNCHANGED faults

-------------------------------------------------------------------------------
(* The user.                                                               *)

Edit(id) ==
  /\ edits < MaxEdits
  /\ edits' = edits + 1
  /\ \E x \in (Exprs \cup {None}) \ {cloud[id]} : cloud' = [cloud EXCEPT ![id] = x]
  /\ UNCHANGED <<faults, syncVars, cronVars, stopVars, runVars>>

-------------------------------------------------------------------------------
(* sync.                                                                   *)

ListWorkflows ==
  /\ pc = "list"
  /\ \/ /\ CallSucceeds
        /\ pc' = "fetch" /\ left' = Workflows /\ got' = [id \in Ids |-> None]
        /\ UNCHANGED started
     \/ /\ CallFails
        /\ pc' = "idle" /\ started' = TRUE /\ UNCHANGED <<left, got>>
  /\ UNCHANGED <<cloudVars, cronVars, stopVars, runVars>>

\* A workflow whose schedules cannot be fetched contributes none.
GetSchedules(w) ==
  /\ pc = "fetch" /\ w \in left
  /\ left' = left \ {w}
  /\ \/ /\ CallSucceeds
        /\ got' = [id \in Ids |-> IF WorkflowOf[id] = w THEN cloud[id] ELSE got[id]]
     \/ CallFails /\ UNCHANGED got
  /\ UNCHANGED <<cloudVars, pc, started, cronVars, stopVars, runVars>>

\* What is known of a schedule once the deleted and disabled ones are removed.
KnownLeftAll(id) == known[id]        \* faulty: s.schedules keeps the schedule
KnownLeft(id) ==
  IF entry[id] # None /\ got[id] = None THEN None ELSE known[id]

Unchanged(id) == KnownLeft(id) # None /\ KnownLeft(id) = got[id]

\* The entry of a schedule that is not, or no longer, fetched.
EntryRemoved(id) == None

\* Under the mutex: removals, then additions and updates.  An expression that
\* does not parse leaves no entry but the old schedule.
Apply ==
  /\ pc = "fetch" /\ left = {}
  /\ entry' = [id \in Ids |->
       CASE got[id] = None -> EntryRemoved(id)
         [] got[id] # None /\ Unchanged(id) -> entry[id]
         [] OTHER -> IF got[id] \in Valid THEN got[id] ELSE None]
  /\ known' = [id \in Ids |->
       IF got[id] # None /\ (Unchanged(id) \/ got[id] \in Valid)
       THEN got[id] ELSE KnownLeft(id)]
  /\ pc' = "idle" /\ started' = TRUE
  /\ UNCHANGED <<cloudVars, faults, left, got, stopVars, runVars>>

Tick ==
  /\ pc = "idle"
  /\ pc' = "list"
  /\ UNCHANGED <<cloudVars, faults, started, left, got, cronVars, stopVars, runVars>>

ToldToExit == stopped \/ ctxDone
LoopExit ==
  /\ pc = "idle" /\ ToldToExit
  /\ pc' = "exited"
  /\ UNCHANGED <<cloudVars, faults, started, left, got, cronVars, stopVars, runVars>>

Sync == ListWorkflows \/ Apply \/ Tick \/ \E w \in Workflows : GetSchedules(w)

-------------------------------------------------------------------------------
(* triggerRun and executeAPICall, a goroutine for each trigger.            *)

\* Cron runs the copy of the schedule made when the entry was added.
Triggered(id) == entry[id]
Fire(r, id) ==
  /\ ~stopped /\ entry[id] # None /\ job[r] = "none"
  /\ job' = [job EXCEPT ![r] = "create"]
  /\ copy' = [copy EXCEPT ![r] = [id |-> id, expr |-> Triggered(id)]]
  /\ UNCHANGED <<cloudVars, faults, syncVars, cronVars, stopVars, lost, status,
                 exec>>

CreateRun(r) ==
  /\ job[r] = "create"
  /\ \/ /\ CallSucceeds
        /\ status' = [status EXCEPT ![r] = "pending"]
        /\ job' = [job EXCEPT ![r] = IF copy[r].id \in Api THEN "running" ELSE "done"]
     \/ /\ CallFails
        /\ job' = [job EXCEPT ![r] = "done"] /\ UNCHANGED status
  /\ UNCHANGED <<cloudVars, syncVars, cronVars, stopVars, copy, lost, exec>>

\* A report that cannot be delivered is dropped.
Report(r, verdicts) ==
  \/ /\ CallSucceeds
     /\ \E v \in verdicts : status' = [status EXCEPT ![r] = v]
     /\ UNCHANGED lost
  \/ CallFails /\ lost' = lost \cup {r} /\ UNCHANGED status

ReportRunning(r) ==
  /\ job[r] = "running"
  /\ Report(r, {"running"})
  /\ job' = [job EXCEPT ![r] = "call"]
  /\ UNCHANGED <<cloudVars, syncVars, cronVars, stopVars, copy, exec>>

\* The request, which may fail before or after it is sent: either way a verdict
\* is due.
AfterCallSilent == "done"                      \* faulty: returns unreported
AfterCall == "verdict"
CallEndpoint(r) ==
  /\ job[r] = "call"
  /\ job' = [job EXCEPT ![r] = AfterCall]
  /\ UNCHANGED <<cloudVars, faults, syncVars, cronVars, stopVars, copy, lost, status,
                 exec>>

ReportVerdict(r) ==
  /\ job[r] = "verdict"
  /\ Report(r, {"completed", "failed"})
  /\ job' = [job EXCEPT ![r] = "done"]
  /\ UNCHANGED <<cloudVars, syncVars, cronVars, stopVars, copy, exec>>

Trigger(r) == CreateRun(r) \/ ReportRunning(r) \/ CallEndpoint(r) \/ ReportVerdict(r)

-------------------------------------------------------------------------------
(* The executor, of which only this matters here: it takes runs that are   *)
(* pending, or were when it fetched them, and executes each once.          *)

ExecutorTakes(r) ==
  /\ status[r] = "pending" /\ exec[r] = "none"
  /\ exec' = [exec EXCEPT ![r] = "taken"]
  /\ UNCHANGED <<cloudVars, faults, syncVars, cronVars, stopVars, job, copy, lost,
                 status>>

ExecutorRuns(r) ==
  /\ exec[r] = "taken"
  /\ exec' = [exec EXCEPT ![r] = "done"]
  /\ Report(r, {"completed", "failed"})
  /\ UNCHANGED <<cloudVars, syncVars, cronVars, stopVars, job, copy>>

-------------------------------------------------------------------------------
\* The daemon stops the scheduler once Start has returned.
Stop ==
  /\ started /\ ~stopped
  /\ stopped' = TRUE
  /\ UNCHANGED <<cloudVars, faults, syncVars, cronVars, ctxDone, runVars>>

CancelContext ==
  /\ stopped /\ ~ctxDone
  /\ ctxDone' = TRUE
  /\ UNCHANGED <<cloudVars, faults, syncVars, cronVars, stopped, runVars>>

Init ==
  /\ cloud \in [Ids -> Exprs \cup {None}]
  /\ edits = 0 /\ faults = 0
  /\ pc = "list" /\ started = FALSE
  /\ left = {} /\ got = [id \in Ids |-> None]
  /\ entry = [id \in Ids |-> None] /\ known = [id \in Ids |-> None]
  /\ stopped = FALSE /\ ctxDone = FALSE
  /\ job = [r \in Runs |-> "none"] /\ copy = [r \in Runs |-> None]
  /\ status = [r \in Runs |-> "none"] /\ lost = {}
  /\ exec = [r \in Runs |-> "none"]

Next ==
  \/ \E id \in Ids : Edit(id)
  \/ Sync \/ LoopExit
  \/ \E r \in Runs : \/ \E id \in Ids : Fire(r, id)
                     \/ Trigger(r) \/ ExecutorTakes(r) \/ ExecutorRuns(r)
  \/ Stop \/ CancelContext

Spec == Init /\ [][Next]_vars

\* The loop and the goroutines are scheduled, select takes the case of the end
\* even if a tick is always ready too, and calls return (they time out).
Fairness ==
  /\ WF_vars(Sync) /\ SF_vars(LoopExit)
  /\ \A r \in Runs : WF_vars(Trigger(r)) /\ WF_vars(ExecutorRuns(r))

FairSpec == Spec /\ Fairness

-------------------------------------------------------------------------------
(* Properties.                                                             *)

TypeOK ==
  /\ cloud \in [Ids -> Exprs \cup {None}]
  /\ edits \in 0..MaxEdits /\ faults \in 0..MaxFaults
  /\ pc \in {"list", "fetch", "idle", "exited"}
  /\ started \in BOOLEAN /\ stopped \in BOOLEAN /\ ctxDone \in BOOLEAN
  /\ left \subseteq Workflows /\ got \in [Ids -> Exprs \cup {None}]
  /\ entry \in [Ids -> Exprs \cup {None}] /\ known \in [Ids -> Exprs \cup {None}]
  /\ job \in [Runs -> {"none", "create", "running", "call", "verdict", "done"}]
  /\ copy \in [Runs -> [id : Ids, expr : Exprs] \cup {None}]
  /\ \A r \in Runs : job[r] # "none" => copy[r] \in [id : Ids, expr : Exprs]
  /\ status \in [Runs -> {"none", "pending", "running", "completed", "failed"}]
  /\ exec \in [Runs -> {"none", "taken", "done"}]
  /\ lost \subseteq Runs

\* The two maps agree: an entry in cron runs at the times of the schedule the
\* scheduler knows, so an update is never mistaken for "unchanged".
TableAgrees ==
  \A id \in Ids : entry[id] # None =>
    entry[id] = known[id] /\ entry[id] \in Valid

\* If every expression parses, the cron table ends up firing what the user wants
\* at the times the user wants, once the user and the network calm down,
\* through any sequence of disabling, enabling and updating.
CronConverges ==
  \A id \in Ids :
    []<>(stopped \/ entry[id] = cloud[id])

\* An api run the scheduler created is settled: a verdict is reported, unless a
\* report was lost on the way.
ApiRunSettles ==
  \A r \in Runs :
    job[r] \in {"running", "call"} ~>
      (status[r] \in {"completed", "failed"} \/ r \in lost)
===============================================================================
