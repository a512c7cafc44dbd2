------------------------------ MODULE Orchestration ------------------------------
(***************************************************************************)
(* Multi-model orchestration (internal/orchestration): a model breaks a    *)
(* query into subtasks, Run executes them in waves, each after those it    *)
(* depends on, and a subtask whose answer is not good enough is asked      *)
(* again of a stronger role, for which Run executes the whole plan anew.   *)
(*                                                                         *)
(* The plan is a model's answer: ids may repeat, dependencies may name     *)
(* nobody or form cycles.  Prompts, answers, roles and the progress        *)
(* messages are left out.                                                  *)
(***************************************************************************)
EXTENDS Integers, FiniteSets

CONSTANTS
  Ids,            \* what the model may name a subtask
  MaxTasks,       \* bound on the subtasks of an answer
  MaxEscalations,
  Plans           \* the plans the model may answer with

Slots == 1..(MaxTasks + MaxEscalations)

\* A plan: how many subtasks, the id of each, the ids it depends on.
PlanType == [size : 1..MaxTasks, id : [1..MaxTasks -> Ids],
             deps : [1..MaxTasks -> SUBSET Ids]]

ASSUME ConstAssumption ==
  /\ MaxTasks \in Nat /\ MaxEscalations \in Nat
  /\ Ids \cap Nat = {} /\ Plans \subseteq PlanType

VARIABLES
  size, id, deps,   \* ExecutionPlan.SubTasks; an escalated task is named by a number
  status,           \* SubTask.Status
  given,            \* the subtasks of the answer, those the evaluation ranges over
  completed,        \* Run: the ids of the subtasks executed
  wave,             \* Run: the subtasks executed in parallel
  cursor,           \* Execute: the last subtask evaluated, 0 in the first Run
  pc                \* Execute and Run

planVars == <<size, id, deps, given>>
vars == <<size, id, deps, given, status, completed, wave, cursor, pc>>

Tasks == 1..size

Over(i) == status[i] \in {"done", "failed"}

-------------------------------------------------------------------------------
(* Execute: decompose, and the start of Run.                               *)

\* Run first makes every subtask pending again.
BeginRun ==
  /\ status' = [i \in Slots |-> "pending"]
  /\ completed' = {} /\ wave' = {}
  /\ pc' = "loop"

\* The call fails, or its answer is no plan.
Refused ==
  /\ pc = "decompose" /\ pc' = "refused"
  /\ UNCHANGED <<planVars, status, completed, wave, cursor>>

Decompose ==
  /\ pc = "decompose"
  /\ \E p \in Plans :
       /\ size' = p.size /\ given' = p.size
       /\ id' = [i \in Slots |-> IF i <= p.size THEN p.id[i] ELSE 0]
       /\ deps' = [i \in Slots |-> IF i <= p.size THEN p.deps[i] ELSE {}]
  /\ BeginRun
  /\ UNCHANGED cursor

-------------------------------------------------------------------------------
(* Run.                                                                    *)

Executed == Cardinality(completed) >= size

HasItsDepsAny(i) ==                            \* faulty: one is enough
  deps[i] = {} \/ deps[i] \cap completed # {}
HasItsDeps(i) == deps[i] \subseteq completed

\* findReady.
Ready == {i \in Tasks : ~Over(i) /\ id[i] \notin completed /\ HasItsDeps(i)}

\* After the first Run an error is returned; a later one is logged.
Stuck == IF cursor = 0 THEN "stuck" ELSE "evaluate"

NextWave ==
  /\ pc = "loop"
  /\ wave' = IF Executed THEN {} ELSE Ready
  /\ pc' = IF Executed THEN "evaluate" ELSE IF Ready = {} THEN Stuck ELSE "wave"
  /\ UNCHANGED <<planVars, status, completed, cursor>>

\* executeSubTask up to the call of the model, and from its answer.
StartTask(i) ==
  /\ pc = "wave" /\ i \in wave /\ status[i] = "pending"
  /\ status' = [status EXCEPT ![i] = "running"]
  /\ UNCHANGED <<planVars, completed, wave, cursor, pc>>

EndTask(i) ==
  /\ status[i] = "running"
  /\ \E s \in {"done", "failed"} : status' = [status EXCEPT ![i] = s]
  /\ UNCHANGED <<planVars, completed, wave, cursor, pc>>

WaveDone == {id[i] : i \in {j \in wave : status[j] = "done"}} \* faulty: not the failed
WaveIds == {id[i] : i \in wave}

\* A subtask that failed counts as completed.
EndWave ==
  /\ pc = "wave" /\ \A i \in wave : Over(i)
  /\ completed' = completed \cup WaveIds
  /\ wave' = {} /\ pc' = "loop"
  /\ UNCHANGED <<planVars, status, cursor>>

-------------------------------------------------------------------------------
(* Execute: evaluation, escalation, aggregation.                           *)

\* The escalations so far; an escalated subtask is not evaluated itself.
Escalations == size - given

CanEscalate == Escalations < MaxEscalations

\* A subtask that failed, or whose answer will do.
Accept ==
  /\ pc = "evaluate" /\ cursor < given
  /\ cursor' = cursor + 1
  /\ UNCHANGED <<planVars, status, completed, wave, pc>>

\* The new subtask has the dependencies of the old one and a name of its own;
\* the old one is marked as escalated, which Run undoes at once.
Escalate ==
  /\ pc = "evaluate" /\ cursor < given
  /\ cursor' = cursor + 1
  /\ status[cursor'] = "done" /\ CanEscalate
  /\ size' = size + 1 /\ UNCHANGED given
  /\ id' = [id EXCEPT ![size'] = Escalations + 1]
  /\ deps' = [deps EXCEPT ![size'] = deps[cursor']]
  /\ BeginRun

\* The final answer, from the model or the best of the subtasks' answers.
Aggregate ==
  /\ pc = "evaluate" /\ cursor = given
  /\ pc' = "answered"
  /\ UNCHANGED <<planVars, status, completed, wave, cursor>>

-------------------------------------------------------------------------------
Init ==
  /\ size = 0 /\ given = 0 /\ cursor = 0
  /\ id = [i \in Slots |-> 0] /\ deps = [i \in Slots |-> {}]
  /\ status = [i \in Slots |-> "pending"]
  /\ completed = {} /\ wave = {}
  /\ pc = "decompose"

Manage == Refused \/ Decompose \/ NextWave \/ EndWave \/ Accept \/ Escalate
          \/ Aggregate

Execute(i) == StartTask(i) \/ EndTask(i)

Next == Manage \/ \E i \in Slots : Execute(i)

Spec == Init /\ [][Next]_vars

-------------------------------------------------------------------------------
(* Properties.                                                             *)

\* Type correctness; the budget of escalations is kept, and a goroutine runs
\* for members of the current wave only.
TypeOK ==
  /\ given \in 0..MaxTasks /\ size \in given..(given + MaxEscalations)
  /\ id \in [Slots -> Ids \cup 0..MaxEscalations]
  /\ deps \in [Slots -> SUBSET Ids]
  /\ status \in [Slots -> {"pending", "running", "done", "failed"}]
  /\ completed \subseteq Ids \cup 0..MaxEscalations
  /\ wave \subseteq Tasks
  /\ cursor \in 0..given
  /\ pc \in {"decompose", "refused", "loop", "wave", "stuck", "evaluate", "answered"}
  /\ \A i \in Slots : status[i] = "running" => pc = "wave" /\ i \in wave

\* While a subtask is executed, a subtask of each id it depends on has been
\* executed in the same Run, also after an escalation and with repeated ids.
DependenciesFirst ==
  \A i \in Tasks : status[i] # "pending" =>
    \A d \in deps[i] : \E j \in Tasks : id[j] = d /\ Over(j)

\* A set of subtasks each of which waits for one of the set, or for nobody.
Waiting(S) ==
  /\ S # {}
  /\ \A i \in S : \E d \in deps[i] : \A j \in Tasks : id[j] = d => j \in S

Unrunnable == \/ \E i, j \in Tasks : i # j /\ id[i] = id[j]
              \/ \E S \in SUBSET Tasks : Waiting(S)

\* Execute gives up on a plan only if it cannot be carried out, and evaluates
\* and answers only when every subtask, escalated ones included, has been
\* executed to its end.
RunsWholePlan ==
  /\ pc = "stuck" => Unrunnable
  /\ pc \in {"evaluate", "answered"} => \A i \in Tasks : Over(i)
===============================================================================
