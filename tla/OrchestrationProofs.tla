--------------------------- MODULE OrchestrationProofs ---------------------------
(***************************************************************************)
(* Proofs about what decides what is called next.  The orchestration: its  *)
(* types, that a subtask is executed after those it depends on, and that   *)
(* Execute carries out every plan that can be carried out, whatever the    *)
(* plan and however often it escalates.  A step's skill: its verdict is    *)
(* that of its last call.  An evaluation: its counts are its results.      *)
(***************************************************************************)
EXTENDS MCOrchestration, Sequences, FiniteSetTheorems, TLAPS

USE ConstAssumption, PartsAssumption
  DEF ConstAssumption, PartsAssumption, Slots, Tasks, planVars

-------------------------------------------------------------------------------
(* Orchestration: types.                                                   *)

\* Nothing is evaluated before there is a plan.
StartInv == pc \in {"decompose", "refused"} => given = 0

LEMMA PlanFacts ==
  ASSUME NEW p \in Plans
  PROVE  /\ p.size \in 1..MaxTasks /\ p.id \in [1..MaxTasks -> Ids]
         /\ p.deps \in [1..MaxTasks -> SUBSET Ids]
BY DEF PlanType

LEMMA TypeInit == Init => TypeOK /\ StartInv
BY DEF Init, TypeOK, StartInv

LEMMA TypeStep == TypeOK /\ StartInv /\ [Next]_vars => TypeOK' /\ StartInv'
<1> SUFFICES ASSUME TypeOK, StartInv, [Next]_vars PROVE TypeOK' /\ StartInv'
  OBVIOUS
<1>1. CASE Refused
  BY <1>1 DEF Refused, TypeOK, StartInv
<1>2. CASE Decompose
  <2>1. PICK p \in Plans :
          /\ size' = p.size /\ given' = p.size
          /\ id' = [i \in Slots |-> IF i <= p.size THEN p.id[i] ELSE 0]
          /\ deps' = [i \in Slots |-> IF i <= p.size THEN p.deps[i] ELSE {}]
    BY <1>2 DEF Decompose
  <2>2. p.size \in 1..MaxTasks /\ p.id \in [1..MaxTasks -> Ids]
        /\ p.deps \in [1..MaxTasks -> SUBSET Ids]
    BY PlanFacts
  <2>3. id' \in [Slots -> Ids \cup 0..MaxEscalations] /\ deps' \in [Slots -> SUBSET Ids]
    <3>1. \A i \in Slots : i <= p.size => p.id[i] \in Ids /\ p.deps[i] \in SUBSET Ids
      BY <2>2
    <3> HIDE DEF Slots
    <3>2. id' \in [Slots -> Ids \cup 0..MaxEscalations]
      BY <2>1, <3>1
    <3>3. deps' \in [Slots -> SUBSET Ids]
      BY <2>1, <3>1
    <3> QED
      BY <3>2, <3>3
  <2>4. given' \in 0..MaxTasks /\ size' \in given'..(given' + MaxEscalations)
    BY <2>1, <2>2
  <2>5. cursor' = 0
    BY <1>2 DEF Decompose, StartInv, TypeOK
  <2> QED
    BY <1>2, <2>3, <2>4, <2>5 DEF Decompose, BeginRun, TypeOK, StartInv
<1>3. CASE NextWave
  BY <1>3 DEF NextWave, Ready, Stuck, TypeOK, StartInv
<1>4. CASE EndWave
  <2>1. completed' \subseteq Ids \cup 0..MaxEscalations
    BY <1>4 DEF EndWave, WaveIds, TypeOK
  <2>2. \A i \in Slots : status[i] # "running"
    BY <1>4 DEF EndWave, Over, TypeOK
  <2> QED
    BY <1>4, <2>1, <2>2 DEF EndWave, TypeOK, StartInv
<1>5. CASE Accept
  BY <1>5 DEF Accept, TypeOK, StartInv
<1>6. CASE Escalate
  <2>1. /\ cursor' \in 1..given /\ given' = given
        /\ size' \in given..(given + MaxEscalations)
        /\ size - given \in 0..(MaxEscalations - 1)
    BY <1>6 DEF Escalate, CanEscalate, Escalations, TypeOK
  <2>2. size' \in Slots /\ cursor' \in Slots
    BY <2>1 DEF TypeOK
  <2>3. id' \in [Slots -> Ids \cup 0..MaxEscalations] /\ deps' \in [Slots -> SUBSET Ids]
    BY <1>6, <2>1, <2>2 DEF Escalate, Escalations, TypeOK
  <2> QED
    BY <1>6, <2>1, <2>3 DEF Escalate, BeginRun, TypeOK, StartInv
<1>7. CASE Aggregate
  BY <1>7 DEF Aggregate, TypeOK, StartInv
<1>8. ASSUME NEW i \in Slots, Execute(i) PROVE TypeOK' /\ StartInv'
  BY <1>8 DEF Execute, StartTask, EndTask, TypeOK, StartInv
<1>9. CASE UNCHANGED vars
  BY <1>9 DEF vars, TypeOK, StartInv
<1> QED
  BY <1>1, <1>2, <1>3, <1>4, <1>5, <1>6, <1>7, <1>8, <1>9 DEF Next, Manage

\* Type correctness for every set of plans and every bound: no more escalations
\* than the budget allows, no goroutine outside its wave.
THEOREM TypeCorrect == Spec => []TypeOK
<1>1. TypeOK /\ StartInv /\ [Next]_vars => (TypeOK /\ StartInv)'
  BY TypeStep
<1> QED
  BY <1>1, TypeInit, PTL DEF Spec

-------------------------------------------------------------------------------
(* One Run.                                                                *)

\* What a Run knows: who is in the wave, who has been executed.
RunInv ==
  /\ pc # "wave" => wave = {}
  /\ \A i \in wave : deps[i] \subseteq completed
  /\ \A d \in completed : \E j \in Tasks : id[j] = d /\ Over(j)
  /\ \A i \in Tasks : status[i] # "pending" =>
       deps[i] \subseteq completed /\ (i \in wave \/ id[i] \in completed)

LEMMA SizeFacts ==
  ASSUME NEW g \in 0..MaxTasks, NEW s \in g..(g + MaxEscalations)
  PROVE  s \in Nat /\ s <= MaxTasks + MaxEscalations
OBVIOUS

LEMMA BeginRunInv ==
  ASSUME BeginRun, size' \in Nat, size' <= MaxTasks + MaxEscalations PROVE RunInv'
BY DEF BeginRun, RunInv

LEMMA RunInit == Init => RunInv
BY DEF Init, RunInv

LEMMA RunStep ==
  TypeOK /\ TypeOK' /\ RunInv /\ [Next]_vars => RunInv'
<1> SUFFICES ASSUME TypeOK, TypeOK', RunInv, [Next]_vars PROVE RunInv'
  OBVIOUS
<1>1. CASE Decompose \/ Escalate
  <2>1. BeginRun
    BY <1>1 DEF Decompose, Escalate
  <2>2. size' \in Nat /\ size' <= MaxTasks + MaxEscalations
    <3>1. given' \in 0..MaxTasks /\ size' \in given'..(given' + MaxEscalations)
      BY Zenon DEF TypeOK
    <3> QED
      BY <3>1, SizeFacts, Zenon
  <2> QED
    BY <2>1, <2>2, BeginRunInv
<1>2. CASE NextWave
  BY <1>2 DEF NextWave, Ready, HasItsDeps, Over, RunInv, Stuck, TypeOK
<1>3. CASE EndWave
  <2>1. wave \subseteq Tasks /\ \A i \in wave : Over(i)
    BY <1>3 DEF EndWave, TypeOK
  <2>2. \A i : Over(i)' = Over(i)
    BY <1>3 DEF EndWave, Over
  <2>3. ASSUME NEW d \in completed' PROVE \E j \in Tasks' : id'[j] = d /\ Over(j)'
    BY <1>3, <2>1, <2>2, <2>3 DEF EndWave, WaveIds, RunInv
  <2>4. ASSUME NEW i \in Tasks, status[i] # "pending"
        PROVE  deps[i] \subseteq completed' /\ id[i] \in completed'
    BY <1>3, <2>4 DEF EndWave, WaveIds, RunInv
  <2> QED
    BY <1>3, <2>3, <2>4 DEF EndWave, RunInv
<1>4. ASSUME NEW i \in Slots, StartTask(i) PROVE RunInv'
  <2>1. i \in wave /\ status' = [status EXCEPT ![i] = "running"] /\ status[i] = "pending"
    BY <1>4 DEF StartTask
  <2>2. \A j \in Slots : Over(j) => Over(j)'
    BY <2>1 DEF Over, TypeOK
  <2> QED
    BY <1>4, <2>1, <2>2 DEF StartTask, RunInv, TypeOK
<1>5. ASSUME NEW i \in Slots, EndTask(i) PROVE RunInv'
  <2>1. status[i] = "running" /\ \A j \in Slots : j # i => status'[j] = status[j]
    BY <1>5 DEF EndTask, TypeOK
  <2>2. \A j \in Slots : Over(j) => Over(j)'
    BY <2>1 DEF Over
  <2>3. \A j \in Tasks : status'[j] # "pending" => status[j] # "pending"
    BY <2>1 DEF TypeOK
  <2> QED
    BY <1>5, <2>2, <2>3 DEF EndTask, RunInv, TypeOK
<1>6. CASE Refused \/ Accept \/ Aggregate \/ UNCHANGED vars
  BY <1>6 DEF Refused, Accept, Aggregate, vars, RunInv, Over
<1> QED
  BY <1>1, <1>2, <1>3, <1>4, <1>5, <1>6 DEF Next, Manage, Execute

\* Dependencies first, in every Run, for every plan: also with ids that repeat,
\* and after an escalation.
THEOREM DependenciesFirstHolds == Spec => []DependenciesFirst
<1>1. Init => TypeOK /\ StartInv /\ RunInv
  BY TypeInit, RunInit
<1>2. TypeOK /\ StartInv /\ RunInv /\ [Next]_vars => (TypeOK /\ StartInv /\ RunInv)'
  BY TypeStep, RunStep
<1>3. RunInv => DependenciesFirst
  BY DEF RunInv, DependenciesFirst
<1> QED
  BY <1>1, <1>2, <1>3, PTL DEF Spec

-------------------------------------------------------------------------------
(* Carrying out the plan.                                                  *)

Distinct == \A i, j \in Tasks : i # j => id[i] # id[j]

NoneWaits == \A S \in SUBSET Tasks : ~Waiting(S)

LEMMA RunnableMeans == ~Unrunnable <=> Distinct /\ NoneWaits
BY DEF Unrunnable, Distinct, NoneWaits

\* The names escalated subtasks get are theirs alone.
NameInv ==
  \A i \in Tasks : /\ i <= given => id[i] \in Ids
                   /\ i > given => id[i] = i - given

\* A set of subtasks that wait for one another is never entered, and a plan
\* that is evaluated has none.
WaitInv ==
  Distinct => \A S \in SUBSET Tasks : Waiting(S) => \A i \in S : id[i] \notin completed
PassedInv == (pc \in {"evaluate", "answered"} \/ cursor # 0) => ~Unrunnable
OverInv == pc \in {"evaluate", "answered"} => \A i \in Tasks : Over(i)
StuckInv == pc = "stuck" => Unrunnable

LEMMA TasksFinite ==
  ASSUME TypeOK
  PROVE  IsFiniteSet(Tasks) /\ Cardinality(Tasks) = size /\ size \in Nat
<1>1. size \in Nat
  BY DEF TypeOK
<1> QED
  BY <1>1, FS_Interval

\* Ids found among some subtasks are no more than these subtasks.
LEMMA IdsCounted ==
  ASSUME TypeOK, NEW F \in SUBSET Tasks, \A d \in completed : \E j \in F : id[j] = d
  PROVE  /\ IsFiniteSet(completed) /\ Cardinality(completed) <= Cardinality(F)
         /\ Cardinality(completed) \in Nat /\ Cardinality(F) \in Nat
         /\ Cardinality(F) = size => F = Tasks
         /\ Cardinality(F) <= size
<1> DEFINE f == [d \in completed |-> CHOOSE j \in F : id[j] = d]
<1>1. \A d \in completed : f[d] \in F /\ id[f[d]] = d
  OBVIOUS
<1>2. f \in Injection(completed, F)
  BY <1>1 DEF Injection, IsInjective
<1>3. IsFiniteSet(F) /\ Cardinality(F) <= size /\ (Cardinality(F) = size => F = Tasks)
  BY TasksFinite, FS_Subset, ZenonT(40)
<1>4. IsFiniteSet(completed) /\ Cardinality(completed) <= Cardinality(F)
  BY <1>2, <1>3, FS_Injection
<1> QED
  BY <1>3, <1>4, FS_CardinalityType

\* When as many ids are completed as there are subtasks, each has been executed
\* and no two have the same id.
LEMMA ExecutedMeans ==
  ASSUME TypeOK, RunInv, Executed PROVE (\A i \in Tasks : Over(i)) /\ Distinct
<1> DEFINE F == {j \in Tasks : Over(j)}
<1> HIDE DEF Tasks
<1>1. \A d \in completed : \E j \in F : id[j] = d
  BY DEF RunInv
<1>2. F = Tasks
  <2>1. Cardinality(completed) <= Cardinality(F) /\ Cardinality(F) <= size
        /\ Cardinality(completed) \in Nat /\ Cardinality(F) \in Nat
        /\ (Cardinality(F) = size => F = Tasks)
    BY <1>1, IdsCounted
  <2>2. size \in Nat
    BY TasksFinite
  <2> QED
    BY <2>1, <2>2 DEF Executed
<1>3. ASSUME NEW i \in Tasks, NEW j \in Tasks, i # j, id[i] = id[j] PROVE FALSE
  <2> DEFINE G == Tasks \ {i}
  <2>1. \A d \in completed : \E k \in G : id[k] = d
    BY <1>1, <1>3
  <2>2. Cardinality(completed) <= Cardinality(G) /\ Cardinality(completed) \in Nat
        /\ Cardinality(G) \in Nat
    BY <2>1, IdsCounted
  <2>3. Cardinality(G) = size - 1 /\ size \in Nat
    BY TasksFinite, FS_RemoveElement
  <2> QED
    BY <2>2, <2>3 DEF Executed
<1> QED
  BY <1>2, <1>3 DEF Distinct

\* A Run with nothing to do next that has not executed everything has a plan
\* that cannot be carried out: the subtasks left wait for one another.
LEMMA StuckMeans ==
  ASSUME TypeOK, RunInv, pc = "loop", ~Executed, Ready = {} PROVE Unrunnable
<1> SUFFICES ASSUME Distinct PROVE \E S \in SUBSET Tasks : Waiting(S)
  BY DEF Unrunnable, Distinct
<1> DEFINE S == {i \in Tasks : id[i] \notin completed}
<1>1. S # {}
  <2> SUFFICES ASSUME S = {} PROVE FALSE
    OBVIOUS
  <2> DEFINE g == [i \in Tasks |-> id[i]]
  <2> HIDE DEF Tasks
  <2>1. g \in Injection(Tasks, completed)
    BY DEF Injection, IsInjective, Distinct
  <2>2. \A d \in completed : \E j \in Tasks : id[j] = d
    BY DEF RunInv
  <2>3. IsFiniteSet(completed) /\ Cardinality(completed) \in Nat
    BY <2>2, IdsCounted
  <2>4. Cardinality(Tasks) <= Cardinality(completed)
    BY <2>1, <2>3, FS_Injection
  <2> QED
    BY <2>3, <2>4, TasksFinite DEF Executed
<1>2. ASSUME NEW i \in S
      PROVE  \E d \in deps[i] : \A j \in Tasks : id[j] = d => j \in S
  <2>1. ~Over(i)
    BY DEF RunInv, Over
  <2>2. PICK d \in deps[i] : d \notin completed
    BY <2>1 DEF Ready, HasItsDeps
  <2> QED
    BY <2>2
<1>3. Waiting(S)
  BY <1>1, <1>2 DEF Waiting
<1> QED
  BY <1>3

\* With every subtask executed nothing waits.
LEMMA OverMeans ==
  ASSUME RunInv, WaitInv, Distinct, pc # "wave", \A i \in Tasks : Over(i)
  PROVE  ~Unrunnable
<1>1. \A i \in Tasks : id[i] \in completed
  BY DEF RunInv, Over
<1>2. \A S \in SUBSET Tasks : ~Waiting(S)
  BY <1>1 DEF WaitInv, Waiting
<1> QED
  BY <1>2 DEF Unrunnable, Distinct

\* A step that leaves the plan alone leaves alone whether it can be carried out.
LEMMA SamePlan ==
  ASSUME UNCHANGED planVars
  PROVE  /\ Tasks' = Tasks /\ Distinct' = Distinct /\ Unrunnable' = Unrunnable
         /\ \A S : Waiting(S)' = Waiting(S)
BY DEF Distinct, Unrunnable, Waiting

LEMMA NameStep == TypeOK /\ NameInv /\ StartInv /\ [Next]_vars => NameInv'
<1> SUFFICES ASSUME TypeOK, NameInv, StartInv, [Next]_vars PROVE NameInv'
  OBVIOUS
<1>1. CASE Decompose
  <2>1. PICK p \in Plans :
          /\ size' = p.size /\ given' = p.size
          /\ id' = [i \in Slots |-> IF i <= p.size THEN p.id[i] ELSE 0]
    BY <1>1 DEF Decompose
  <2> QED
    BY <2>1, PlanFacts DEF NameInv
<1>2. CASE Escalate
  <2>1. /\ size' = size + 1 /\ given' = given /\ size' \in Slots
        /\ id' = [id EXCEPT ![size'] = size - given + 1] /\ given <= size /\ given \in Nat
    BY <1>2 DEF Escalate, Escalations, CanEscalate, TypeOK
  <2>2. \A i \in Tasks : id'[i] = id[i]
    BY <2>1 DEF TypeOK
  <2>3. id'[size'] = size' - given /\ ~(size' <= given)
    BY <2>1 DEF TypeOK
  <2>4. Tasks' = Tasks \cup {size'}
    BY <2>1 DEF TypeOK
  <2> QED
    BY <2>1, <2>2, <2>3, <2>4 DEF NameInv
<1>3. CASE UNCHANGED planVars
  BY <1>3 DEF NameInv
<1>4. Decompose \/ Escalate \/ UNCHANGED planVars
  BY DEF Next, Manage, Refused, NextWave, EndWave, Accept, Aggregate, Execute,
     StartTask, EndTask, vars
<1> QED
  BY <1>1, <1>2, <1>3, <1>4

\* An escalation leaves a plan that can be carried out: the new name is new, and
\* the new subtask waits for what the old one waited for.
LEMMA EscalateRunnable ==
  ASSUME TypeOK, NameInv, Escalate, ~Unrunnable PROVE (~Unrunnable)'
<1> DEFINE k == size'
<1> DEFINE c == cursor'
<1>1. /\ k = size + 1 /\ k \in Slots /\ c \in Tasks /\ size \in Nat
      /\ id' = [id EXCEPT ![k] = k - given] /\ deps' = [deps EXCEPT ![k] = deps[c]]
      /\ given' = given /\ given \in Nat /\ given <= size
  BY DEF Escalate, Escalations, CanEscalate, TypeOK
<1> HIDE DEF k, c
<1>2. \A i \in Tasks : id'[i] = id[i] /\ deps'[i] = deps[i]
  BY <1>1 DEF TypeOK
<1>3. id'[k] = k - given /\ deps'[k] = deps[c] /\ k - given \in Nat /\ k \notin Tasks
  BY <1>1 DEF TypeOK
<1>4. Tasks' = Tasks \cup {k}
  BY <1>1 DEF k
<1>5. \A i \in Tasks : id[i] # k - given
  BY <1>1 DEF NameInv
<1>6. \A i \in Tasks' : \A d \in deps'[i] : d # id'[k]
  <2>1. \A i \in Slots : deps[i] \subseteq Ids
    BY DEF TypeOK
  <2> QED
    BY <1>1, <1>2, <1>3, <1>4, <2>1
<1> HIDE DEF Tasks, Slots
<1>7. Distinct'
  BY <1>2, <1>3, <1>4, <1>5, RunnableMeans DEF Distinct
<1>8. ASSUME NEW S \in SUBSET Tasks', Waiting(S)' PROVE FALSE
  <2>0. /\ S # {}
        /\ \A i \in S : \E d \in deps'[i] : \A j \in Tasks' : id'[j] = d => j \in S
    BY <1>8 DEF Waiting
  <2>1. CASE S \cap Tasks # {}
    <3>1. ASSUME NEW i \in S \cap Tasks
          PROVE  \E d \in deps[i] : \A j \in Tasks : id[j] = d => j \in S \cap Tasks
      BY <1>2, <1>4, <2>0
    <3>2. Waiting(S \cap Tasks)
      BY <2>1, <3>1 DEF Waiting
    <3> QED
      BY <3>2, RunnableMeans DEF NoneWaits
  <2>2. CASE S = {k}
    <3>1. PICK d \in deps[c] : \A j \in Tasks' : id'[j] = d => j = k
      BY <1>3, <2>0, <2>2
    <3>2. \A j \in Tasks : id[j] # d
      BY <1>2, <1>3, <1>4, <3>1
    <3>3. Waiting({c})
      BY <3>1, <3>2 DEF Waiting
    <3> QED
      BY <1>1, <3>3, RunnableMeans DEF NoneWaits
  <2> QED
    BY <1>4, <2>0, <2>1, <2>2
<1> QED
  BY <1>7, <1>8 DEF Unrunnable, Distinct

LEMMA PlanStep ==
  ASSUME TypeOK, TypeOK', StartInv, RunInv, NameInv, WaitInv, PassedInv, OverInv, StuckInv,
         [Next]_vars
  PROVE  WaitInv' /\ PassedInv' /\ OverInv' /\ StuckInv'
<1> HIDE DEF Tasks, Slots
<1>1. CASE Decompose
  <2>1. cursor' = 0 /\ pc' = "loop" /\ completed' = {}
    BY <1>1 DEF Decompose, BeginRun, StartInv, TypeOK
  <2> QED
    BY <2>1 DEF WaitInv, PassedInv, OverInv, StuckInv
<1>2. CASE Escalate
  <2>1. pc' = "loop" /\ completed' = {} /\ pc = "evaluate"
    BY <1>2 DEF Escalate, BeginRun
  <2>2. (~Unrunnable)'
    BY <1>2, <2>1, EscalateRunnable DEF PassedInv
  <2> QED
    BY <2>1, <2>2 DEF WaitInv, PassedInv, OverInv, StuckInv
<1>3. CASE NextWave
  <2>0. UNCHANGED planVars /\ UNCHANGED <<status, completed, cursor>> /\ pc = "loop"
    BY <1>3 DEF NextWave
  <2>1. WaitInv'
    BY <2>0, SamePlan DEF WaitInv
  <2>2. CASE Executed
    <3>1. pc' = "evaluate"
      BY <1>3, <2>2 DEF NextWave
    <3>2. (\A i \in Tasks : Over(i)) /\ ~Unrunnable
      BY <2>0, <2>2, ExecutedMeans, OverMeans
    <3>3. \A i \in Tasks' : Over(i)'
      BY <2>0, <3>2, SamePlan DEF Over
    <3> QED
      BY <2>0, <2>1, <3>1, <3>2, <3>3, SamePlan DEF PassedInv, OverInv, StuckInv
  <2>3. CASE ~Executed /\ Ready = {}
    <3>1. pc' = Stuck
      BY <1>3, <2>3 DEF NextWave
    <3>2. Unrunnable
      BY <2>0, <2>3, StuckMeans
    <3>3. cursor = 0 /\ pc' = "stuck"
      BY <3>1, <3>2 DEF PassedInv, Stuck
    <3> QED
      BY <2>0, <2>1, <3>2, <3>3, SamePlan DEF PassedInv, OverInv, StuckInv
  <2>4. CASE ~Executed /\ Ready # {}
    <3>1. pc' = "wave"
      BY <1>3, <2>4 DEF NextWave
    <3> QED
      BY <2>0, <2>1, <3>1, SamePlan DEF PassedInv, OverInv, StuckInv
  <2> QED
    BY <2>2, <2>3, <2>4
<1>4. CASE EndWave
  <2>0. /\ UNCHANGED planVars /\ UNCHANGED <<status, cursor>> /\ pc' = "loop"
        /\ completed' = completed \cup {id[i] : i \in wave} /\ wave \subseteq Tasks
    BY <1>4 DEF EndWave, WaveIds, TypeOK
  <2>1. ASSUME Distinct, NEW S \in SUBSET Tasks, Waiting(S), NEW i \in S
        PROVE  id[i] \notin completed'
    <3>1. id[i] \notin completed
      BY <2>1 DEF WaitInv
    <3>2. PICK d \in deps[i] : \A j \in Tasks : id[j] = d => j \in S
      BY <2>1 DEF Waiting
    <3>3. d \notin completed
      BY <2>1, <3>2 DEF WaitInv, RunInv
    <3>4. i \notin wave
      BY <3>3 DEF RunInv
    <3> QED
      BY <2>0, <2>1, <3>1, <3>4 DEF Distinct
  <2>2. WaitInv'
    BY <2>0, <2>1, SamePlan DEF WaitInv
  <2> QED
    BY <2>0, <2>2, SamePlan DEF PassedInv, OverInv, StuckInv
<1>5. CASE Accept \/ Aggregate
  <2>1. /\ UNCHANGED planVars /\ UNCHANGED <<status, completed>>
        /\ pc = "evaluate" /\ pc' \in {"evaluate", "answered"}
    BY <1>5 DEF Accept, Aggregate
  <2>2. \A i \in Tasks' : Over(i)'
    BY <2>1, SamePlan DEF OverInv, Over
  <2> QED
    BY <2>1, <2>2, SamePlan DEF WaitInv, PassedInv, OverInv, StuckInv
<1>6. ASSUME NEW i \in Slots, Execute(i) PROVE WaitInv' /\ PassedInv' /\ OverInv' /\ StuckInv'
  <2>1. UNCHANGED planVars /\ UNCHANGED <<completed, cursor, pc>> /\ pc = "wave"
    BY <1>6 DEF Execute, StartTask, EndTask, TypeOK
  <2> QED
    BY <2>1, SamePlan DEF WaitInv, PassedInv, OverInv, StuckInv
<1>7. CASE Refused \/ UNCHANGED vars
  <2>1. UNCHANGED planVars /\ UNCHANGED <<status, completed, cursor>>
        /\ (pc' = pc \/ pc' = "refused")
    BY <1>7 DEF Refused, vars
  <2>2. \A i : Over(i)' = Over(i)
    BY <2>1 DEF Over
  <2> QED
    BY <2>1, <2>2, SamePlan DEF WaitInv, PassedInv, OverInv, StuckInv
<1> QED
  BY <1>1, <1>2, <1>3, <1>4, <1>5, <1>6, <1>7 DEF Next, Manage

\* Execute carries out every plan that can be carried out, to the last subtask,
\* escalated ones included, and gives up on no other.
THEOREM RunsWholePlanHolds == Spec => []RunsWholePlan
<1> DEFINE PlanInv == WaitInv /\ PassedInv /\ OverInv /\ StuckInv
<1> DEFINE Inv == TypeOK /\ StartInv /\ RunInv /\ NameInv /\ PlanInv
<1>1. Init => Inv
  <2>1. Init => NameInv /\ PlanInv
    BY DEF Init, NameInv, WaitInv, PassedInv, OverInv, StuckInv
  <2> QED
    BY <2>1, TypeInit, RunInit
<1>2. Inv /\ [Next]_vars => Inv'
  <2> SUFFICES ASSUME Inv, [Next]_vars PROVE Inv'
    OBVIOUS
  <2>1. TypeOK' /\ StartInv'
    BY TypeStep
  <2>2. RunInv' /\ NameInv'
    BY <2>1, RunStep, NameStep
  <2>3. PlanInv'
    BY <2>1, PlanStep
  <2> QED
    BY <2>1, <2>2, <2>3
<1>3. Inv => RunsWholePlan
  BY DEF RunsWholePlan, OverInv, StuckInv
<1> HIDE DEF Inv
<1> QED
  BY <1>1, <1>2, <1>3, PTL DEF Spec

-------------------------------------------------------------------------------
(* SkillRunner.                                                            *)

SkillCall == [to : {"cli", "anthropic", "openai", "ollama"}, ok : BOOLEAN,
              during : {"reason", "oneshot"}]
SkillTypeOK ==
  /\ stage \in {"start", "reason", "oneshot", "effect", "done"}
  /\ verdict \in {"none", "completed", "failed"} /\ answer \in Nat
  /\ round \in 0..MaxSteps /\ kept \in 0..round
  /\ calls \in Seq(SkillCall)

\* The process can reach a model for the job at all.
HasModel ==
  CASE job.model.route = "claude" -> "cli" \in setup \/ "anthropic" \in setup
    [] job.model.route = "openai" -> "openai" \in setup
    [] OTHER -> TRUE

RightModel(call) ==
  call.to \in {"cli", "anthropic"} <=> job.model.route = "claude"

\* What is known of the calls at every stage of the step.
StageInv ==
  /\ stage \in {"reason", "oneshot"} => Skill!Attached /\ job.type = "prompt"
  /\ verdict = "none" <=> stage # "done"
  /\ stage \in {"start", "effect"} => calls = <<>> /\ round = 0
  /\ ~HasModel => calls = <<>>
  /\ \A k \in 1..Len(calls) : RightModel(calls[k])
  /\ stage = "reason" => /\ \A k \in 1..Len(calls) : calls[k].ok
                         /\ Len(calls) = round /\ round < MaxSteps
  /\ stage = "oneshot" => /\ \A k \in 1..Len(calls) - 1 : calls[k].ok
                          /\ Len(calls) <= MaxSteps
SkillInv == SkillTypeOK /\ StageInv /\ SkillVerdict

\* A call of a model adds one call, of the right kind, unless there is no model
\* to call, and it fails.
LEMMA CallLLMResult ==
  ASSUME NEW ok \in BOOLEAN, SkillTypeOK, stage \in {"reason", "oneshot"},
         job.model.route \in {"claude", "ollama", "openai"}, Skill!CallLLM(ok)
  PROVE  \/ ~HasModel /\ ~ok /\ calls' = calls
         \/ /\ HasModel
            /\ \E call \in SkillCall : /\ calls' = Append(calls, call)
                                       /\ call.ok = ok /\ call.during = stage
                                       /\ RightModel(call)
<1>1. ASSUME NEW to \in {"cli", "anthropic", "openai", "ollama"},
             Skill!Called(to, ok),
             to \in {"cli", "anthropic"} <=> job.model.route = "claude"
      PROVE  \E call \in SkillCall : /\ calls' = Append(calls, call)
                                     /\ call.ok = ok /\ call.during = stage
                                     /\ RightModel(call)
  <2> DEFINE call == [to |-> to, ok |-> ok, during |-> stage]
  <2>1. call \in SkillCall
    BY DEF SkillCall
  <2>2. calls' = Append(calls, call)
    BY <1>1 DEF Skill!Called
  <2> QED
    BY <1>1, <2>1, <2>2 DEF RightModel
<1>2. CASE job.model.route = "claude" /\ Skill!CallClaudeCLI(ok)
  BY <1>1, <1>2 DEF Skill!CallClaudeCLI, Skill!CallAnthropicAPI, Skill!HasCLI,
    Skill!NoKey, HasModel
<1>3. CASE job.model.route = "ollama" /\ Skill!CallOllama(ok)
  BY <1>1, <1>3 DEF Skill!CallOllama, HasModel
<1>4. CASE job.model.route = "openai" /\ Skill!CallOpenAI(ok)
  BY <1>1, <1>4 DEF Skill!CallOpenAI, Skill!NoKey, HasModel
<1> QED
  BY <1>2, <1>3, <1>4 DEF Skill!CallLLM

\* What a further call does to the calls.
LEMMA OneMore ==
  ASSUME SkillTypeOK, NEW call \in SkillCall, calls' = Append(calls, call),
         \A k \in 1..Len(calls) : RightModel(calls[k]), RightModel(call), job' = job
  PROVE  /\ calls' \in Seq(SkillCall) /\ Len(calls') = Len(calls) + 1
         /\ \A k \in 1..Len(calls) : calls'[k] = calls[k]
         /\ calls'[Len(calls')] = call
         /\ (\A k \in 1..Len(calls) : RightModel(calls[k]))'
<1>1. /\ calls' \in Seq(SkillCall) /\ Len(calls') = Len(calls) + 1
      /\ \A k \in 1..Len(calls) : calls'[k] = calls[k]
      /\ calls'[Len(calls')] = call /\ Len(calls) \in Nat
  BY DEF SkillTypeOK
<1>2. \A k \in 1..Len(calls') : k \in 1..Len(calls) \/ k = Len(calls')
  BY <1>1
<1> QED
  BY <1>1, <1>2 DEF RightModel

LEMMA SkillTypeInit == Skill!SkillInit => SkillInv
<1> SUFFICES ASSUME Skill!SkillInit PROVE SkillInv
  OBVIOUS
<1> USE DEF Skill!SkillInit
<1>1. SkillTypeOK
  BY DEF SkillTypeOK
<1>2. StageInv
  BY DEF StageInv
<1>3. SkillVerdict
  BY DEF SkillVerdict, Skill!SkillVerdict, Skill!Prompted
<1> QED
  BY <1>1, <1>2, <1>3 DEF SkillInv

\* The jobs are the program's: their model has a route, and only a prompt reasons.
JobOK ==
  /\ job.model.route \in {"claude", "ollama", "openai"}
  /\ job.type # "prompt" => ~job.reasons
LEMMA JobInit == Skill!SkillInit => JobOK
<1>1. Skill!DefaultModel.route = "claude"
  BY DEF Skill!DefaultModel
<1>2. \A m \in Skill!Models : m.route \in {"claude", "ollama", "openai"}
  BY DEF Skill!Models
<1>3. \A j \in Skill!SkillJobs \cup Skill!AgentJobs :
        /\ j.model \in Skill!Models \cup {Skill!DefaultModel}
        /\ j.type # "prompt" => ~j.reasons
  BY DEF Skill!SkillJobs, Skill!AgentJobs
<1> QED
  BY <1>1, <1>2, <1>3 DEF Skill!SkillInit, JobOK

LEMMA SkillFrame == [Skill!SkillNext]_(Skill!skillVars) => job' = job /\ setup' = setup
BY DEF Skill!SkillNext, Skill!skillVars, Skill!Unattached, Skill!RunSkill,
  Skill!Cancel, Skill!NativeReason, Skill!ReasonFails, Skill!OneShot,
  Skill!CoTStep, Skill!RunAPI, Skill!RunTool, Skill!RunMCP

\* A step that calls no model: it leaves the history of calls alone.
LEMMA NoCallStep ==
  ASSUME SkillInv, job' = job, setup' = setup,
         UNCHANGED <<round, kept, calls, answer>>,
         \/ stage' = stage /\ verdict' = verdict
         \/ /\ stage = "start" /\ stage' = "effect" /\ verdict' = verdict
         \/ /\ stage = "start" /\ stage' \in {"reason", "oneshot"}
            /\ verdict' = verdict /\ Skill!Attached /\ job.type = "prompt"
         \/ /\ stage \in {"start", "effect"} /\ stage' = "done"
            /\ verdict' \in {"completed", "failed"}
            /\ ~(Skill!Attached /\ job.type = "prompt")
  PROVE  SkillInv'
<1>1. SkillTypeOK'
  BY DEF SkillInv, SkillTypeOK
<1>2. StageInv'
  BY DEF SkillInv, StageInv, SkillTypeOK, HasModel, RightModel, Skill!Attached
<1>3. SkillVerdict'
  BY DEF SkillInv, StageInv, SkillVerdict, Skill!SkillVerdict, Skill!Prompted,
    Skill!Attached, Skill!LastCall
<1> QED
  BY <1>1, <1>2, <1>3 DEF SkillInv

\* An answer, or a call that fails; AfterCall(calls, v) is what becomes of it.
LEMMA CallStep ==
  ASSUME SkillInv, JobOK, job' = job, setup' = setup,
         NEW ok \in BOOLEAN, stage \in {"reason", "oneshot"}, Skill!CallLLM(ok),
         round' \in 0..MaxSteps, kept' \in 0..round',
         \/ /\ ok /\ stage' = "done" /\ verdict' = "completed" /\ answer' = Len(calls')
         \/ /\ ok /\ stage = "reason" /\ stage' = stage /\ round' = round + 1
            /\ round' < MaxSteps /\ UNCHANGED <<answer, verdict>>
         \/ /\ ~ok /\ stage = "reason" /\ stage' = "oneshot"
            /\ UNCHANGED <<answer, verdict>>
         \/ /\ ~ok /\ stage = "oneshot" /\ stage' = "done" /\ verdict' = "failed"
            /\ answer' = answer
  PROVE  SkillInv'
<1> USE DEF SkillInv, JobOK
<1>1. CASE ~HasModel /\ ~ok /\ calls' = calls
  <2>1. calls = <<>>
    BY <1>1 DEF StageInv
  <2>2. SkillTypeOK'
    BY <1>1 DEF SkillTypeOK
  <2>3. StageInv'
    BY <1>1, <2>1 DEF SkillTypeOK, StageInv, HasModel, Skill!Attached
  <2>4. SkillVerdict'
    BY <1>1, <2>1 DEF SkillTypeOK, StageInv, SkillVerdict, Skill!SkillVerdict,
      Skill!Prompted
  <2> QED
    BY <2>2, <2>3, <2>4
<1>2. ASSUME HasModel, NEW call \in SkillCall, calls' = Append(calls, call),
             call.ok = ok, call.during = stage, RightModel(call)
      PROVE  SkillInv'
  <2>1. /\ calls' \in Seq(SkillCall) /\ Len(calls') = Len(calls) + 1
        /\ \A k \in 1..Len(calls) : calls'[k] = calls[k]
        /\ calls'[Len(calls')] = call
        /\ (\A k \in 1..Len(calls) : RightModel(calls[k]))'
    BY <1>2, OneMore DEF StageInv
  <2>2. Len(calls) \in Nat /\ Len(calls) <= MaxSteps
    BY DEF StageInv, SkillTypeOK
  <2>3. SkillTypeOK'
    BY <2>1, <2>2 DEF SkillTypeOK
  <2>4. StageInv'
    <3>1. stage' = "reason" => /\ (\A k \in 1..Len(calls) : calls[k].ok)'
                               /\ Len(calls') = round' /\ round' < MaxSteps
      <4> SUFFICES ASSUME stage' = "reason" PROVE
                   /\ (\A k \in 1..Len(calls) : calls[k].ok)'
                   /\ Len(calls') = round' /\ round' < MaxSteps
        OBVIOUS
      <4>1. ok /\ stage = "reason" /\ round' = round + 1 /\ round' < MaxSteps
        OBVIOUS
      <4>2. call.ok
        BY <1>2, <4>1, Zenon
      <4>3. Len(calls') = round' /\ \A k \in 1..Len(calls) : calls[k].ok
        BY <2>1, <2>2, <4>1 DEF StageInv
      <4>4. ASSUME NEW k \in 1..Len(calls') PROVE calls'[k].ok
        <5>1. k \in 1..Len(calls) \/ k = Len(calls')
          BY <2>1, <2>2
        <5>2. CASE k \in 1..Len(calls)
          BY <2>1, <4>3, <5>2
        <5>3. CASE k = Len(calls')
          BY <2>1, <4>2, <5>3
        <5> QED
          BY <5>1, <5>2, <5>3
      <4> QED
        BY <4>1, <4>3, <4>4
    <3>2. stage' = "oneshot" => /\ (\A k \in 1..Len(calls) - 1 : calls[k].ok)'
                                /\ Len(calls') <= MaxSteps
      <4> SUFFICES ASSUME stage' = "oneshot" PROVE
                   /\ (\A k \in 1..Len(calls) - 1 : calls[k].ok)'
                   /\ Len(calls') <= MaxSteps
        OBVIOUS
      <4>1. stage = "reason"
        OBVIOUS
      <4> QED
        BY <1>2, <2>1, <2>2, <4>1 DEF StageInv, SkillTypeOK
    <3> QED
      BY <1>2, <2>1, <3>1, <3>2 DEF StageInv, HasModel, Skill!Attached
  <2>5. SkillVerdict'
    <3>1. \A k \in 1..Len(calls') - 1 : k \in 1..Len(calls)
      BY <2>1, <2>2
    <3>2. ASSUME NEW k \in 1..Len(calls') - 1, ~calls'[k].ok
          PROVE  k = Len(calls') - 1 /\ calls'[Len(calls')].during = "oneshot"
      <4>1. k \in 1..Len(calls) /\ ~calls[k].ok
        BY <2>1, <3>1, <3>2
      <4>2. stage = "oneshot"
        BY <4>1 DEF StageInv
      <4>3. k = Len(calls)
        BY <4>1, <4>2, <2>2 DEF StageInv
      <4> QED
        BY <1>2, <2>1, <2>2, <4>2, <4>3
    <3>3. kept' <= round' /\ Len(calls') <= MaxSteps + 1
      BY <2>1, <2>2, <2>3 DEF SkillTypeOK
    <3>4. verdict' = "completed" => call.ok /\ answer' = Len(calls')
      BY <1>2 DEF StageInv
    <3>5. verdict' = "failed" => ~call.ok /\ call.during = "oneshot"
      BY <1>2 DEF StageInv
    <3>6. calls' # <<>>
      BY <2>1, <2>2
    <3> QED
      BY <2>1, <3>2, <3>3, <3>4, <3>5, <3>6
      DEF SkillVerdict, Skill!SkillVerdict, Skill!LastCall, RightModel
  <2> QED
    BY <2>3, <2>4, <2>5
<1> QED
  BY <1>1, <1>2, CallLLMResult

LEMMA SkillStep ==
  SkillInv /\ JobOK /\ [Skill!SkillNext]_(Skill!skillVars) => SkillInv' /\ JobOK'
<1> SUFFICES ASSUME SkillInv, JobOK, [Skill!SkillNext]_(Skill!skillVars)
             PROVE  SkillInv'
  BY SkillFrame DEF JobOK
<1> USE SkillFrame DEF Skill!callVars
<1>1. CASE UNCHANGED Skill!skillVars \/ Skill!Cancel
  BY <1>1, NoCallStep DEF Skill!skillVars, Skill!Cancel
<1>2. CASE Skill!Unattached
  BY <1>2, NoCallStep DEF Skill!Unattached, Skill!Done
<1>3. CASE Skill!RunSkill
  <2>1. UNCHANGED <<round, kept, calls, answer>> /\ stage = "start" /\ Skill!Attached
    BY <1>3 DEF Skill!RunSkill
  <2>2. CASE job.type = "other"
    BY <1>3, <2>1, <2>2, NoCallStep DEF Skill!RunSkill, Skill!Done
  <2>3. CASE job.type # "other"
    <3>1. verdict' = verdict
      BY <1>3, <2>3 DEF Skill!RunSkill
    <3>2. job.type # "prompt" => stage' = "effect"
      BY <1>3, <2>3 DEF Skill!RunSkill, Skill!Reasons, JobOK
    <3>3. job.type = "prompt" => stage' \in {"reason", "oneshot"}
      <4>1. CASE Skill!Reasons
        BY <1>3, <2>3, <4>1 DEF Skill!RunSkill
      <4>2. CASE ~Skill!Reasons
        BY <1>3, <2>3, <4>2 DEF Skill!RunSkill
      <4> QED
        BY <4>1, <4>2
    <3> QED
      BY <2>1, <3>1, <3>2, <3>3, NoCallStep
  <2> QED
    BY <2>2, <2>3
<1>4. CASE Skill!RunAPI \/ Skill!RunTool \/ Skill!RunMCP
  BY <1>4, NoCallStep DEF Skill!RunAPI, Skill!RunTool, Skill!RunMCP,
    Skill!CallTool, Skill!Done
<1>5. CASE Skill!NativeReason
  BY <1>5, CallStep DEF Skill!NativeReason, Skill!Answer, Skill!Done, SkillInv,
    SkillTypeOK
<1>6. CASE Skill!ReasonFails
  BY <1>6, CallStep DEF Skill!ReasonFails, Skill!AfterFailedReason, SkillInv,
    SkillTypeOK
<1>7. CASE Skill!OneShot
  BY <1>7, CallStep DEF Skill!OneShot, Skill!Answer, Skill!Done, SkillInv,
    SkillTypeOK
<1>8. ASSUME NEW next \in Skill!Replies, Skill!CoTStep(next) PROVE SkillInv'
  <2>1. round < MaxSteps /\ round \in Nat /\ kept \in 0..round
    BY <1>8 DEF Skill!CoTStep, SkillInv, StageInv, SkillTypeOK
  <2>2. round' \in 0..MaxSteps /\ kept' \in 0..round'
    BY <1>8, <2>1 DEF Skill!CoTStep
  <2>3. \/ stage' = "done" /\ verdict' = "completed" /\ answer' = Len(calls')
        \/ stage' = stage /\ round' < MaxSteps /\ UNCHANGED <<answer, verdict>>
    BY <1>8, <2>2 DEF Skill!CoTStep, Skill!Answer, Skill!Done
  <2> QED
    BY <1>8, <2>2, <2>3, CallStep DEF Skill!CoTStep
<1> QED
  BY <1>1, <1>2, <1>3, <1>4, <1>5, <1>6, <1>7, <1>8 DEF Skill!SkillNext

\* However many calls a prompt takes, whichever of them fails and whenever the run
\* is cancelled, the verdict of the step is that of its last call.
THEOREM SkillVerdictHolds == Skill!SkillSpec => []SkillVerdict
<1>1. SkillInv => SkillVerdict
  BY DEF SkillInv
<1> QED
  BY <1>1, SkillTypeInit, JobInit, SkillStep, PTL DEF Skill!SkillSpec

-------------------------------------------------------------------------------
(* Eval.                                                                   *)

Item == [case : Nat, iter : Nat]
Row == [status : {"none", "running", "completed"}, total : Nat, completed : Nat]
Process == [step : {"idle", "list", "insert", "run", "over"}, iters : Nat,
            todo : Seq(Item), row : Row]
EvalTypeOK ==
  /\ evalSet \in {"none", "there", "deleted"}
  /\ editor \in [Editors -> {"idle", "import", "delete"}]
  /\ inserted \in Nat /\ cases \in Seq(1..inserted) /\ downs \in Nat
  /\ runs \in [Runners -> Row] /\ rows \in [Runners -> Seq(Item)]
  /\ runner \in [Runners -> Process]

NoRepeats(s) == \A i, j \in 1..Len(s) : s[i] = s[j] => i = j

\* What the process p of a run, its row and its results say of each other, at
\* every step, when d processes or statements have failed.
RunnerOK(p, run, results, d) ==
  /\ p.step \in {"idle", "list", "insert"} => run.status = "none" /\ results = <<>>
  /\ p.step = "list" => p.iters \in Nat \ {0}
  /\ NoRepeats(p.todo) /\ NoRepeats(results)
  /\ p.step = "run" =>
       /\ run.status = "running" /\ run.total = p.row.total
       /\ p.row.completed = Len(results)
       /\ Len(results) + Len(p.todo) <= run.total
       /\ \A i \in 1..Len(results), j \in 1..Len(p.todo) : results[i] # p.todo[j]
  /\ Len(results) <= run.total
  /\ run.status = "completed" => run.completed = Len(results)
  /\ run.status = "running" => run.completed = 0 /\ (p.step = "run" \/ d > 0)
RunnerInv(r) == RunnerOK(runner[r], runs[r], rows[r], downs)

\* The cases of a set are numbered in their order; of a set that is deleted, or
\* is being deleted, only later ones are there.
CasesInv ==
  /\ \A i, j \in 1..Len(cases) : i < j => cases[i] < cases[j]
  /\ evalSet = "deleted" \/ (\E e \in Editors : editor[e] = "delete") =>
       \A k \in 1..Len(cases) : cases[k] \in late

EvalInv == EvalTypeOK /\ CasesInv /\ \A r \in Runners : RunnerInv(r)

\* Every case as often as it is to be run: no item occurs twice.
LEMMA ItemsDistinct ==
  ASSUME EvalTypeOK, CasesInv, NEW n \in Nat \ {0}
  PROVE  Evaluation!Items(n) \in Seq(Item) /\ NoRepeats(Evaluation!Items(n))
<1> DEFINE N == Len(cases) * n
           q(k) == (k - 1) \div n
           m(k) == (k - 1) % n
<1>1. Len(cases) \in Nat /\ N \in Nat
  BY DEF EvalTypeOK
<1>2. ASSUME NEW k \in 1..N
      PROVE  /\ q(k) \in 0..Len(cases) - 1 /\ m(k) \in 0..n - 1
             /\ k - 1 = n * q(k) + m(k)
  <2>1. k - 1 \in Nat /\ k - 1 < Len(cases) * n
    BY <1>1
  <2>2. q(k) \in Int /\ m(k) \in 0..n - 1 /\ k - 1 = n * q(k) + m(k)
    BY <2>1
  <2>3. q(k) >= 0
    <3>1. CASE q(k) <= -1
      <4>1. n * q(k) <= -n
        BY <2>2, <3>1
      <4> QED
        BY <2>1, <2>2, <4>1
    <3> QED
      BY <2>2, <3>1
  <2>4. q(k) <= Len(cases) - 1
    <3>1. CASE q(k) >= Len(cases)
      <4>1. n * q(k) >= n * Len(cases)
        BY <1>1, <2>2, <3>1
      <4> QED
        BY <1>1, <2>1, <2>2, <4>1
    <3> QED
      BY <1>1, <2>2, <3>1
  <2> QED
    BY <1>1, <2>2, <2>3, <2>4
<1> DEFINE item(k) == [case |-> cases[q(k) + 1], iter |-> m(k) + 1]
<1>3. Evaluation!Items(n) = [k \in 1..N |-> item(k)]
  BY DEF Evaluation!Items
<1>4. \A k \in 1..N : /\ q(k) + 1 \in 1..Len(cases) /\ q(k) \in Int
                      /\ m(k) \in Int /\ m(k) + 1 \in Nat
                      /\ cases[q(k) + 1] \in Nat
  BY <1>1, <1>2 DEF EvalTypeOK
<1>5. \A k, l \in 1..N : q(k) = q(l) /\ m(k) = m(l) => k = l
  <2> SUFFICES ASSUME NEW k \in 1..N, NEW l \in 1..N, q(k) = q(l), m(k) = m(l)
               PROVE  k = l
    OBVIOUS
  <2> HIDE DEF q, m, N
  <2>1. k - 1 = n * q(k) + m(k) /\ l - 1 = n * q(k) + m(k)
    BY <1>2
  <2> QED
    BY <1>1, <2>1
<1> HIDE DEF q, m, N
<1>6. \A k \in 1..N : item(k) \in Item
  BY <1>4 DEF Item
<1>7. Evaluation!Items(n) \in Seq(Item) /\ Len(Evaluation!Items(n)) = N
  BY <1>1, <1>3, <1>6
<1>8. \A k, l \in 1..N : item(k) = item(l) => k = l
  <2> SUFFICES ASSUME NEW k \in 1..N, NEW l \in 1..N, item(k) = item(l) PROVE k = l
    OBVIOUS
  <2>1. cases[q(k) + 1] = cases[q(l) + 1] /\ m(k) + 1 = m(l) + 1
    OBVIOUS
  <2>2. q(k) + 1 = q(l) + 1
    BY <1>4, <2>1, SMTT(30) DEF CasesInv
  <2> QED
    BY <1>4, <1>5, <2>1, <2>2
<1>9. \A k \in 1..N : Evaluation!Items(n)[k] = item(k)
  BY <1>3
<1> HIDE DEF item
<1> QED
  BY <1>7, <1>8, <1>9 DEF NoRepeats

\* More failures break nothing of it.
LEMMA MoreDowns ==
  ASSUME NEW p, NEW run, NEW results, NEW d \in Nat, NEW e \in Nat, e >= d,
         RunnerOK(p, run, results, d)
  PROVE  RunnerOK(p, run, results, e)
BY DEF RunnerOK

LEMMA EvalInitInv == Evaluation!EvalInit => EvalInv
<1> SUFFICES ASSUME Evaluation!EvalInit PROVE EvalInv
  OBVIOUS
<1> USE DEF Evaluation!EvalInit, Evaluation!NoRow, Evaluation!Idle
<1>1. Evaluation!NoRow \in Row
  BY DEF Row
<1>2. EvalTypeOK
  BY <1>1 DEF EvalTypeOK, Process
<1>3. CasesInv
  BY DEF CasesInv
<1>4. \A r \in Runners : RunnerInv(r)
  BY DEF RunnerInv, RunnerOK, NoRepeats
<1> QED
  BY <1>2, <1>3, <1>4 DEF EvalInv

-------------------------------------------------------------------------------
\* Steps that edit the set and leave the runs alone.
Edits ==
  \E e \in Editors :
    \/ Evaluation!UpsertEvalSet(e) \/ Evaluation!ImportEnds(e) \/ Evaluation!AddCase(e)
    \/ \E more \in BOOLEAN : Evaluation!ImportCase(e, more)
    \/ Evaluation!DeleteCases(e) \/ Evaluation!DeleteSet(e) \/ Evaluation!DeleteEnds(e)

LEMMA InsertCase ==
  ASSUME EvalTypeOK, CasesInv, Evaluation!InsertEvalCase, evalSet' = evalSet,
         \A e \in Editors : editor'[e] = "delete" => editor[e] = "delete"
  PROVE  /\ inserted' \in Nat /\ cases' \in Seq(1..inserted') /\ CasesInv'
<1>1. /\ inserted' = inserted + 1 /\ cases' = Append(cases, inserted')
      /\ Len(cases) \in Nat /\ \A k \in 1..Len(cases) : cases[k] \in 1..inserted
      /\ inserted \in Nat
  BY DEF Evaluation!InsertEvalCase, EvalTypeOK
<1>2. cases \in Seq(1..inserted') /\ inserted' \in 1..inserted'
  BY <1>1 DEF EvalTypeOK
<1>3. cases' \in Seq(1..inserted') /\ Len(cases') = Len(cases) + 1
      /\ (\A k \in 1..Len(cases) : cases'[k] = cases[k])
      /\ cases'[Len(cases')] = inserted'
  BY <1>1, <1>2
<1>4. ASSUME NEW i \in 1..Len(cases'), NEW j \in 1..Len(cases'), i < j
      PROVE  cases'[i] < cases'[j]
  <2>1. i \in 1..Len(cases) /\ cases'[i] = cases[i]
    BY <1>1, <1>3, <1>4
  <2>2. CASE j \in 1..Len(cases)
    BY <1>3, <1>4, <2>1, <2>2 DEF CasesInv
  <2>3. CASE j = Len(cases')
    BY <1>1, <1>3, <2>1, <2>3
  <2> QED
    BY <1>1, <1>3, <2>2, <2>3
<1>5. ASSUME evalSet' = "deleted" \/ \E e \in Editors : editor'[e] = "delete",
             NEW k \in 1..Len(cases')
      PROVE  cases'[k] \in late'
  <2>1. evalSet = "deleted" \/ \E e \in Editors : editor[e] = "delete"
    BY <1>5
  <2>2. late' = late \cup {inserted'}
    BY <2>1 DEF Evaluation!InsertEvalCase
  <2>3. k \in 1..Len(cases) \/ k = Len(cases')
    BY <1>1, <1>3
  <2> QED
    BY <1>3, <2>1, <2>2, <2>3 DEF CasesInv
<1> QED
  BY <1>1, <1>3, <1>4, <1>5 DEF CasesInv

\* Editing keeps what is known of the cases, and says nothing of the runs.
LEMMA EditsKeep ==
  EvalInv /\ Edits => EvalInv'
<1> SUFFICES ASSUME EvalInv, NEW e \in Editors,
        \/ Evaluation!UpsertEvalSet(e) \/ Evaluation!ImportEnds(e)
        \/ Evaluation!AddCase(e) \/ \E more \in BOOLEAN : Evaluation!ImportCase(e, more)
        \/ Evaluation!DeleteCases(e) \/ Evaluation!DeleteSet(e)
        \/ Evaluation!DeleteEnds(e)
             PROVE  EvalInv'
  BY DEF Edits
<1> USE DEF EvalInv
<1>1. UNCHANGED <<runs, rows, runner>> /\ downs' \in Nat /\ downs' >= downs
  BY DEF Evaluation!UpsertEvalSet, Evaluation!ImportEnds, Evaluation!AddCase,
    Evaluation!ImportCase, Evaluation!DeleteCases, Evaluation!DeleteSet,
    Evaluation!DeleteEnds, Evaluation!rowVars, Evaluation!Down, EvalTypeOK
<1>2. \A r \in Runners : RunnerInv(r)'
  BY <1>1, MoreDowns DEF RunnerInv, EvalTypeOK
<1>3. editor' \in [Editors -> {"idle", "import", "delete"}]
  BY DEF Evaluation!UpsertEvalSet, Evaluation!ImportEnds, Evaluation!AddCase,
    Evaluation!ImportCase, Evaluation!DeleteCases, Evaluation!DeleteSet,
    Evaluation!DeleteEnds, Evaluation!Does, EvalTypeOK
<1>4. CASE Evaluation!AddCase(e) \/ \E more \in BOOLEAN : Evaluation!ImportCase(e, more)
  <2>1. /\ Evaluation!InsertEvalCase /\ evalSet' = evalSet
        /\ \A d \in Editors : editor'[d] = "delete" => editor[d] = "delete"
    BY <1>4 DEF Evaluation!AddCase, Evaluation!ImportCase, Evaluation!Does,
      EvalTypeOK
  <2> QED
    BY <1>1, <1>2, <1>3, <2>1, InsertCase DEF EvalTypeOK
<1>5. CASE Evaluation!DeleteCases(e)
  BY <1>1, <1>2, <1>3, <1>5 DEF Evaluation!DeleteCases, EvalTypeOK, CasesInv
<1>6. CASE Evaluation!DeleteSet(e) \/ Evaluation!DeleteEnds(e)
           \/ Evaluation!ImportEnds(e) \/ Evaluation!UpsertEvalSet(e)
  <2>1. UNCHANGED <<cases, inserted, late>>
    BY <1>6 DEF Evaluation!DeleteSet, Evaluation!DeleteEnds, Evaluation!ImportEnds,
      Evaluation!UpsertEvalSet
  <2>2. evalSet' \in {"none", "there", "deleted"}
    BY <1>6 DEF Evaluation!DeleteSet, Evaluation!DeleteEnds, Evaluation!ImportEnds,
      Evaluation!UpsertEvalSet, EvalTypeOK
  <2>3. \A d \in Editors : editor'[d] = "delete" => editor[d] = "delete"
    BY <1>6 DEF Evaluation!DeleteSet, Evaluation!DeleteEnds, Evaluation!ImportEnds,
      Evaluation!UpsertEvalSet, Evaluation!Does, EvalTypeOK
  <2>4. evalSet' = "deleted" => evalSet = "deleted" \/ \E d \in Editors : editor[d] = "delete"
    BY <1>6 DEF Evaluation!DeleteSet, Evaluation!DeleteEnds, Evaluation!ImportEnds,
      Evaluation!UpsertEvalSet
  <2> QED
    BY <1>1, <1>2, <1>3, <2>1, <2>2, <2>3, <2>4 DEF EvalTypeOK, CasesInv
<1> QED
  BY <1>4, <1>5, <1>6

-------------------------------------------------------------------------------
\* A step of one runner leaves the others', and the cases, as they are.
LEMMA RunnerFrame ==
  ASSUME EvalInv, NEW r \in Runners,
         UNCHANGED <<evalSet, cases, inserted, editor, late>>,
         downs' \in Nat, downs' >= downs,
         NEW p \in Process, NEW run \in Row, NEW results \in Seq(Item),
         runner' = [runner EXCEPT ![r] = p], runs' = [runs EXCEPT ![r] = run],
         rows' = [rows EXCEPT ![r] = results], RunnerOK(p, run, results, downs')
  PROVE  EvalInv'
<1>0. EvalTypeOK
  BY DEF EvalInv
<1>1. EvalTypeOK'
  BY <1>0 DEF EvalTypeOK
<1>2. CasesInv'
  BY DEF EvalInv, CasesInv
<1>3. ASSUME NEW s \in Runners PROVE RunnerInv(s)'
  <2>1. CASE s = r
    BY <1>0, <2>1 DEF RunnerInv, EvalTypeOK
  <2>2. CASE s # r
    <3>1. runs'[s] = runs[s] /\ rows'[s] = rows[s] /\ runner'[s] = runner[s]
      BY <1>0, <2>2 DEF EvalTypeOK
    <3>2. RunnerOK(runner[s], runs[s], rows[s], downs) /\ downs \in Nat
      BY <1>0 DEF EvalInv, RunnerInv, EvalTypeOK
    <3>3. RunnerOK(runner[s], runs[s], rows[s], downs')
      BY <3>2, MoreDowns
    <3> QED
      BY <3>1, <3>3 DEF RunnerInv
  <2> QED
    BY <2>1, <2>2
<1> QED
  BY <1>1, <1>2, <1>3 DEF EvalInv

\* An item is over, on the values of the process, its row and its results: what
\* remains to do shares nothing with the results, and nothing occurs twice.
LEMMA ItemPassed ==
  ASSUME NEW p \in Process, NEW run \in Row, NEW results \in Seq(Item),
         NEW d \in Nat, RunnerOK(p, run, results, d), p.step = "run", p.todo # <<>>,
         NEW q \in Process, q.step = "run", q.todo = Tail(p.todo),
         q.row.total = p.row.total, q.row.completed = p.row.completed
  PROVE  RunnerOK(q, run, results, d)
<1>1. /\ p.todo \in Seq(Item) /\ Len(p.todo) \in Nat \ {0}
      /\ Len(q.todo) = Len(p.todo) - 1 /\ Len(q.todo) \in Nat
      /\ \A j \in 1..Len(q.todo) : q.todo[j] = p.todo[j + 1]
      /\ Len(results) \in Nat
  BY DEF Process
<1>2. /\ run.status = "running" /\ run.total = p.row.total
      /\ p.row.completed = Len(results) /\ run.completed = 0
      /\ Len(results) + Len(p.todo) <= run.total /\ Len(results) <= run.total
      /\ \A i \in 1..Len(results), j \in 1..Len(p.todo) : results[i] # p.todo[j]
      /\ NoRepeats(p.todo) /\ NoRepeats(results)
  BY DEF RunnerOK
<1>3. NoRepeats(q.todo)
  BY <1>1, <1>2 DEF NoRepeats
<1>4. run.total \in Nat
  BY DEF Row
<1>5. ASSUME NEW i \in 1..Len(results), NEW j \in 1..Len(q.todo)
      PROVE  results[i] # q.todo[j]
  <2>1. q.todo[j] = p.todo[j + 1]
    BY <1>1
  <2>2. j + 1 \in 1..Len(p.todo)
    BY <1>1
  <2> QED
    BY <1>2, <2>1, <2>2
<1>6. Len(results) + Len(q.todo) <= run.total
  BY <1>1, <1>2, <1>4
<1> QED
  BY <1>2, <1>3, <1>5, <1>6 DEF RunnerOK

LEMMA ItemSaved ==
  ASSUME NEW p \in Process, NEW run \in Row, NEW results \in Seq(Item),
         NEW d \in Nat, RunnerOK(p, run, results, d), p.step = "run", p.todo # <<>>,
         NEW q \in Process, q.step = "run", q.todo = Tail(p.todo),
         q.row.total = p.row.total, q.row.completed = p.row.completed + 1
  PROVE  /\ Append(results, Head(p.todo)) \in Seq(Item)
         /\ RunnerOK(q, run, Append(results, Head(p.todo)), d)
<1> DEFINE more == Append(results, p.todo[1])
<1>1. /\ p.todo \in Seq(Item) /\ Len(p.todo) \in Nat \ {0} /\ Head(p.todo) = p.todo[1]
      /\ Len(q.todo) = Len(p.todo) - 1 /\ Len(q.todo) \in Nat
      /\ \A j \in 1..Len(q.todo) : q.todo[j] = p.todo[j + 1]
      /\ Len(results) \in Nat /\ p.todo[1] \in Item
  BY DEF Process
<1>2. /\ run.status = "running" /\ run.total = p.row.total
      /\ p.row.completed = Len(results) /\ run.completed = 0
      /\ Len(results) + Len(p.todo) <= run.total
      /\ \A i \in 1..Len(results), j \in 1..Len(p.todo) : results[i] # p.todo[j]
      /\ NoRepeats(p.todo) /\ NoRepeats(results)
  BY DEF RunnerOK
<1>3. NoRepeats(q.todo)
  BY <1>1, <1>2 DEF NoRepeats
<1>4. run.total \in Nat
  BY DEF Row
<1>5. /\ more \in Seq(Item) /\ Len(more) = Len(results) + 1
      /\ \A i \in 1..Len(results) : more[i] = results[i]
      /\ more[Len(results) + 1] = p.todo[1]
  BY <1>1
<1> HIDE DEF more
<1>6. \A i \in 1..Len(more) : i \in 1..Len(results) \/ i = Len(results) + 1
  BY <1>1, <1>5
<1>7. NoRepeats(more)
  <2> SUFFICES ASSUME NEW i \in 1..Len(more), NEW j \in 1..Len(more), more[i] = more[j]
               PROVE  i = j
    BY DEF NoRepeats
  <2>1. 1 \in 1..Len(p.todo)
    BY <1>1
  <2> QED
    BY <1>2, <1>5, <1>6, <2>1 DEF NoRepeats
<1>8. ASSUME NEW i \in 1..Len(more), NEW j \in 1..Len(q.todo)
      PROVE  more[i] # q.todo[j]
  <2>1. q.todo[j] = p.todo[j + 1] /\ j + 1 \in 1..Len(p.todo) /\ 1 \in 1..Len(p.todo)
        /\ j + 1 # 1
    BY <1>1
  <2>2. p.todo[1] # p.todo[j + 1]
    BY <1>2, <2>1 DEF NoRepeats
  <2> QED
    BY <1>2, <1>5, <1>6, <2>1, <2>2
<1>9. Len(more) + Len(q.todo) <= run.total /\ Len(more) <= run.total
  <2>1. Len(results) + 1 <= run.total
    BY <1>1, <1>2, <1>4
  <2>2. ASSUME NEW x \in Nat, NEW y \in Nat, NEW z \in Nat, x + y <= z
        PROVE  (x + 1) + (y - 1) <= z
    BY <2>2
  <2>3. (Len(results) + 1) + (Len(p.todo) - 1) <= run.total
    BY <1>1, <1>2, <1>4, <2>2
  <2> QED
    BY <1>1, <1>5, <2>1, <2>3
<1>10. RunnerOK(q, run, more, d)
  BY <1>2, <1>3, <1>5, <1>7, <1>8, <1>9 DEF RunnerOK
<1> QED
  BY <1>1, <1>5, <1>10 DEF more

LEMMA RunnerStep ==
  ASSUME EvalInv, NEW r \in Runners,
         \/ \E asked \in 0..MaxIterations + 1 : Evaluation!GetEvalSet(r, asked)
         \/ Evaluation!ListEvalCases(r) \/ Evaluation!InsertEvalRun(r)
         \/ Evaluation!UpdateEvalRun(r) \/ Evaluation!Dies(r)
         \/ \E outcome \in Evaluation!Outcomes : Evaluation!RunItem(r, outcome)
  PROVE  EvalInv'
<1> USE DEF Evaluation!editVars
<1> DEFINE p == runner[r]
           run == runs[r]
           results == rows[r]
<1>0. /\ p \in Process /\ run \in Row /\ results \in Seq(Item) /\ downs \in Nat
      /\ RunnerOK(p, run, results, downs) /\ EvalTypeOK /\ CasesInv
      /\ runs = [runs EXCEPT ![r] = run] /\ rows = [rows EXCEPT ![r] = results]
      /\ \A s : [runner EXCEPT ![r] = s] = [runner EXCEPT ![r] = s]
  BY DEF EvalInv, RunnerInv, EvalTypeOK
<1>00. /\ p = [step |-> p.step, iters |-> p.iters, todo |-> p.todo, row |-> p.row]
       /\ p.step \in {"idle", "list", "insert", "run", "over"} /\ p.iters \in Nat
       /\ p.todo \in Seq(Item) /\ p.row \in Row /\ Len(p.todo) \in Nat
       /\ p.row.completed \in Nat /\ p.row.total \in Nat
  BY <1>0, SMTT(30) DEF Process, Row
<1>1. ASSUME NEW asked \in 0..MaxIterations + 1, Evaluation!GetEvalSet(r, asked)
      PROVE  EvalInv'
  <2> DEFINE q == [p EXCEPT !.step = "list", !.iters = Evaluation!Iterations(asked)]
  <2>1. Evaluation!Iterations(asked) \in Nat \ {0}
    BY DEF Evaluation!Iterations
  <2>2. /\ UNCHANGED <<runs, rows, evalSet, cases, inserted, editor, late, downs>>
        /\ p.step = "idle" /\ runner' = [runner EXCEPT ![r] = q]
    BY <1>1 DEF Evaluation!GetEvalSet
  <2>3. /\ q \in Process /\ q.step = "list" /\ q.iters \in Nat \ {0}
        /\ q.todo = p.todo
    BY <1>0, <2>1 DEF Process
  <2> HIDE DEF q
  <2>4. RunnerOK(q, run, results, downs)
    BY <1>0, <2>2, <2>3 DEF RunnerOK
  <2>5. runs' = [runs EXCEPT ![r] = run] /\ rows' = [rows EXCEPT ![r] = results]
        /\ downs' \in Nat /\ downs' >= downs /\ RunnerOK(q, run, results, downs')
    BY <1>0, <2>2, <2>4
  <2> HIDE DEF p, run, results
  <2> QED
    BY <1>0, <2>2, <2>3, <2>5, RunnerFrame
<1>2. CASE Evaluation!ListEvalCases(r)
  <2> DEFINE q == IF cases = <<>> THEN Evaluation!Idle
                  ELSE [p EXCEPT !.step = "insert", !.todo = Evaluation!Items(p.iters)]
  <2>1. /\ UNCHANGED <<runs, rows, evalSet, cases, inserted, editor, late, downs>>
        /\ p.step = "list" /\ runner' = [runner EXCEPT ![r] = q]
    BY <1>2 DEF Evaluation!ListEvalCases
  <2>2. p.iters \in Nat \ {0} /\ run.status = "none" /\ results = <<>>
    BY <1>0, <2>1 DEF RunnerOK
  <2>3. Evaluation!Items(p.iters) \in Seq(Item)
        /\ NoRepeats(Evaluation!Items(p.iters))
    BY <1>0, <2>2, ItemsDistinct
  <2>4. q \in Process /\ q.step \in {"idle", "insert"} /\ NoRepeats(q.todo)
    <3>1. CASE cases = <<>>
      BY <3>1 DEF Evaluation!Idle, Evaluation!NoRow, Process, Row, NoRepeats
    <3>2. CASE cases # <<>>
      BY <1>0, <2>3, <3>2 DEF Process
    <3> QED
      BY <3>1, <3>2
  <2> HIDE DEF q
  <2>5. RunnerOK(q, run, results, downs)
    BY <1>0, <2>2, <2>4 DEF RunnerOK
  <2>6. runs' = [runs EXCEPT ![r] = run] /\ rows' = [rows EXCEPT ![r] = results]
        /\ downs' \in Nat /\ downs' >= downs /\ RunnerOK(q, run, results, downs')
    BY <1>0, <2>1, <2>5
  <2> HIDE DEF p, run, results
  <2> QED
    BY <1>0, <2>1, <2>4, <2>6, RunnerFrame
<1>3. CASE Evaluation!InsertEvalRun(r)
  <2> DEFINE new == [status |-> "running", total |-> Len(p.todo), completed |-> 0]
             q == [p EXCEPT !.step = "run", !.row = new]
  <2>1. /\ UNCHANGED <<rows, evalSet, cases, inserted, editor, late, downs>>
        /\ p.step = "insert" /\ runs' = [runs EXCEPT ![r] = new]
        /\ runner' = [runner EXCEPT ![r] = q]
    BY <1>3 DEF Evaluation!InsertEvalRun
  <2>2. new \in Row
    BY <1>00 DEF Row
  <2>3. /\ q \in Process /\ q.step = "run" /\ q.row = new /\ q.todo = p.todo
    BY <1>0, <2>2 DEF Process
  <2>4. results = <<>> /\ NoRepeats(p.todo) /\ NoRepeats(results)
    BY <1>0, <2>1 DEF RunnerOK
  <2> HIDE DEF q
  <2>5. RunnerOK(q, new, results, downs)
    BY <1>00, <2>3, <2>4 DEF RunnerOK
  <2>6. runs' = [runs EXCEPT ![r] = new] /\ rows' = [rows EXCEPT ![r] = results]
        /\ downs' \in Nat /\ downs' >= downs /\ RunnerOK(q, new, results, downs')
    BY <1>0, <2>1, <2>5
  <2> HIDE DEF p, run, results, new
  <2> QED
    BY <1>0, <2>1, <2>2, <2>3, <2>6, RunnerFrame
<1>4. CASE Evaluation!UpdateEvalRun(r)
  <2> DEFINE new == [p.row EXCEPT !.status = "completed"]
             q == [p EXCEPT !.step = "over"]
  <2>1. /\ UNCHANGED <<rows, evalSet, cases, inserted, editor, late>>
        /\ p.step = "run" /\ p.todo = <<>> /\ runner' = [runner EXCEPT ![r] = q]
        /\ \/ runs' = [runs EXCEPT ![r] = new] /\ downs' = downs
           \/ runs' = runs /\ downs' = downs + 1
    BY <1>4 DEF Evaluation!UpdateEvalRun, Evaluation!Down
  <2>2. /\ new \in Row /\ new.status = "completed" /\ new.total = p.row.total
        /\ new.completed = p.row.completed
    BY <1>00 DEF Row
  <2>3. q \in Process /\ q.step = "over" /\ q.todo = p.todo
    BY <1>0 DEF Process
  <2> HIDE DEF q, new
  <2>4. RunnerOK(q, new, results, downs)
    BY <1>0, <2>1, <2>2, <2>3 DEF RunnerOK
  <2>5. RunnerOK(q, run, results, downs + 1)
    BY <1>0, <2>1, <2>3 DEF RunnerOK
  <2> HIDE DEF p, run, results
  <2>6. CASE runs' = [runs EXCEPT ![r] = new] /\ downs' = downs
    <3>1. runs' = [runs EXCEPT ![r] = new] /\ rows' = [rows EXCEPT ![r] = results]
          /\ downs' \in Nat /\ downs' >= downs /\ RunnerOK(q, new, results, downs')
      BY <1>0, <2>1, <2>4, <2>6
    <3> QED
      BY <1>0, <2>1, <2>2, <2>3, <3>1, RunnerFrame
  <2>7. CASE runs' = runs /\ downs' = downs + 1
    <3>1. runs' = [runs EXCEPT ![r] = run] /\ rows' = [rows EXCEPT ![r] = results]
          /\ downs' \in Nat /\ downs' >= downs /\ RunnerOK(q, run, results, downs')
      BY <1>0, <2>1, <2>5, <2>7
    <3> QED
      BY <1>0, <2>1, <2>3, <3>1, RunnerFrame
  <2> QED
    BY <2>1, <2>6, <2>7
<1>5. CASE Evaluation!Dies(r)
  <2> DEFINE q == [p EXCEPT !.step = "over"]
  <2>1. /\ UNCHANGED <<runs, rows, evalSet, cases, inserted, editor, late>>
        /\ p.step \in {"list", "insert", "run"} /\ downs' = downs + 1
        /\ runner' = [runner EXCEPT ![r] = q]
    BY <1>5 DEF Evaluation!Dies, Evaluation!Down
  <2>2. q \in Process /\ q.step = "over" /\ q.todo = p.todo
    BY <1>0 DEF Process
  <2> HIDE DEF q
  <2>3. RunnerOK(q, run, results, downs + 1)
    BY <1>0, <2>1, <2>2 DEF RunnerOK
  <2>4. runs' = [runs EXCEPT ![r] = run] /\ rows' = [rows EXCEPT ![r] = results]
        /\ downs' \in Nat /\ downs' >= downs /\ RunnerOK(q, run, results, downs')
    BY <1>0, <2>1, <2>3
  <2> HIDE DEF p, run, results
  <2> QED
    BY <1>0, <2>1, <2>2, <2>4, RunnerFrame
<1>6. ASSUME NEW outcome \in Evaluation!Outcomes, Evaluation!RunItem(r, outcome)
      PROVE  EvalInv'
  <2> DEFINE count == Evaluation!Counted(p.row.completed, outcome)
             q == [p EXCEPT !.todo = Tail(p.todo), !.row.completed = count]
  <2>1. /\ UNCHANGED <<runs, evalSet, cases, inserted, editor, late>>
        /\ p.step = "run" /\ p.todo # <<>>
        /\ runner' = [runner EXCEPT ![r].todo = Tail(@), ![r].row.completed = count]
    BY <1>6 DEF Evaluation!RunItem
  <2>2. count \in Nat
    BY <1>00 DEF Evaluation!Counted
  <2>3. Tail(p.todo) \in Seq(Item)
    BY <1>00, <2>1
  <2>4. runner' = [runner EXCEPT ![r] = q]
    BY <1>0, <1>00, <2>1 DEF EvalTypeOK, Process, Row
  <2>5. /\ q \in Process /\ q.step = "run" /\ q.todo = Tail(p.todo)
        /\ q.row.total = p.row.total /\ q.row.completed = count
    BY <1>00, <2>1, <2>2, <2>3 DEF Process, Row
  <2>6. runs' = [runs EXCEPT ![r] = run]
    BY <1>0, <2>1
  <2>7. CASE outcome = "saved"
    <3>1. count = p.row.completed + 1
      BY <2>7 DEF Evaluation!Counted
    <3>2. rows' = [rows EXCEPT ![r] = Append(results, Head(p.todo))] /\ downs' = downs
      BY <1>6, <2>7 DEF Evaluation!RunItem
    <3> HIDE DEF p, run, results, q, count
    <3>3. /\ Append(results, Head(p.todo)) \in Seq(Item)
          /\ RunnerOK(q, run, Append(results, Head(p.todo)), downs)
      BY <1>0, <2>1, <2>5, <3>1, ItemSaved
    <3>4. RunnerOK(q, run, Append(results, Head(p.todo)), downs')
          /\ downs' \in Nat /\ downs' >= downs
      BY <1>0, <3>2, <3>3
    <3> QED
      BY <1>0, <2>1, <2>4, <2>5, <2>6, <3>2, <3>3, <3>4, RunnerFrame
  <2>8. CASE outcome # "saved"
    <3>1. count = p.row.completed
      BY <2>8 DEF Evaluation!Counted
    <3>2. rows' = [rows EXCEPT ![r] = results] /\ downs' = downs + 1
      BY <1>0, <1>6, <2>8 DEF Evaluation!RunItem, Evaluation!Down
    <3> HIDE DEF p, run, results, q, count
    <3>3. RunnerOK(q, run, results, downs)
      BY <1>0, <2>1, <2>5, <3>1, ItemPassed
    <3>4. RunnerOK(q, run, results, downs') /\ downs' \in Nat /\ downs' >= downs
      BY <1>0, <3>2, <3>3, MoreDowns
    <3> QED
      BY <1>0, <2>1, <2>4, <2>5, <2>6, <3>2, <3>4, RunnerFrame
  <2> QED
    BY <2>7, <2>8
<1> QED
  BY <1>1, <1>2, <1>3, <1>4, <1>5, <1>6

LEMMA EvalStep == EvalInv /\ [Evaluation!EvalNext]_(Evaluation!evalVars) => EvalInv'
<1> SUFFICES ASSUME EvalInv, [Evaluation!EvalNext]_(Evaluation!evalVars) PROVE EvalInv'
  OBVIOUS
<1>1. CASE UNCHANGED Evaluation!evalVars
  BY <1>1 DEF Evaluation!evalVars, EvalInv, EvalTypeOK, CasesInv, RunnerInv
<1> QED
  BY <1>1, EditsKeep, RunnerStep DEF Evaluation!EvalNext, Edits

\* Whatever other commands do to the set meanwhile, and whatever fails, what a run
\* says of itself is what its rows say, and no case outlives its set.
THEOREM EvalAccountedHolds == Evaluation!EvalSpec => []EvalAccounted
<1>1. EvalInv => EvalAccounted
  <2> SUFFICES ASSUME EvalInv PROVE EvalAccounted
    OBVIOUS
  <2>1. ASSUME NEW r \in Runners PROVE ~Evaluation!Twice(rows[r])
    <3>1. DOMAIN rows[r] = 1..Len(rows[r])
      BY DEF EvalInv, EvalTypeOK
    <3> QED
      BY <3>1 DEF EvalInv, RunnerInv, RunnerOK, NoRepeats, Evaluation!Twice
  <2>2. DOMAIN cases = 1..Len(cases)
    BY DEF EvalInv, EvalTypeOK
  <2> QED
    BY <2>1, <2>2 DEF EvalAccounted, Evaluation!EvalAccounted, Evaluation!Live,
      EvalInv, CasesInv,
      RunnerInv, RunnerOK
<1> QED
  BY <1>1, EvalInitInv, EvalStep, PTL DEF Evaluation!EvalSpec

-------------------------------------------------------------------------------
(* What the routing learns.                                                *)

\* A file has the tiers of some intents and their vectors.
FileOK(f) ==
  /\ f = [tiers |-> f.tiers, vectors |-> f.vectors]
  /\ DOMAIN f.tiers \subseteq Intents
  /\ f.tiers \in [DOMAIN f.tiers -> 1..4]

RoutingTypeOK ==
  /\ clock \in Nat /\ lastLearn \in Nat /\ lastLearn <= clock
  /\ minTier \in [Intents -> 1..4] /\ FileOK(intentFile)
  /\ times \in [Messages -> {0, 1}]

\* What has been learned of the rows that are there, and what is under way.
RowsInv ==
  /\ DOMAIN feedback \subseteq Messages
  /\ \A m \in DOMAIN feedback : feedback[m].at \in Nat /\ feedback[m].at <= clock
LikedInv ==
  /\ learn.step # "embed" => learn.liked = {}
  /\ \A rec \in learn.liked : rec.msg \in DOMAIN feedback /\ times[rec.msg] = 0
  /\ \A r1, r2 \in learn.liked : r1.msg = r2.msg => r1 = r2
OnceInv ==
  \A m \in Messages :
    times[m] = 1 => /\ m \in DOMAIN feedback
                    /\ learn.step = "embed" \/ feedback[m].at <= lastLearn
RoutingInv ==
  RoutingTypeOK /\ RowsInv /\ LikedInv /\ OnceInv /\ Routing!InLastSave

LEMMA AtRestStep ==
  /\ Routing!AtRest.step = "idle" /\ Routing!AtRest.liked = {}
  /\ \A S : [Routing!AtRest EXCEPT !.step = "adjust", !.stats = S].step = "adjust"
  /\ \A S : [Routing!AtRest EXCEPT !.step = "adjust", !.stats = S].liked = {}
  /\ \A S : [Routing!AtRest EXCEPT !.step = "embed", !.liked = S].step = "embed"
  /\ \A S : [Routing!AtRest EXCEPT !.step = "embed", !.liked = S].liked = S
BY DEF Routing!AtRest

LEMMA DefaultTierOK == Routing!DefaultTier \in [Intents -> 1..4]
BY DEF Routing!DefaultTier

LEMMA RoutingInitInv == Routing!SemanticInit => RoutingInv
<1> SUFFICES ASSUME Routing!SemanticInit PROVE RoutingInv
  OBVIOUS
<1> USE DEF Routing!SemanticInit
<1>1. FileOK(intentFile)
  BY DefaultTierOK DEF FileOK
<1>2. RoutingTypeOK
  BY <1>1, DefaultTierOK DEF RoutingTypeOK
<1>3. RowsInv /\ LikedInv /\ OnceInv
  BY AtRestStep DEF RowsInv, LikedInv, OnceInv
<1>4. Routing!InLastSave
  BY DEF Routing!InLastSave, Routing!InMemory
<1> QED
  BY <1>2, <1>3, <1>4 DEF RoutingInv

\* A request is routed, recorded or rated.
LEMMA AskStep ==
  ASSUME RoutingInv, NEW m \in Messages, NEW liked,
         Routing!Classify(m) \/ Routing!Record(m) \/ Routing!UpdateLiked(m, liked)
  PROVE  RoutingInv'
<1>1. UNCHANGED <<clock, enabled, minTier, learned, intentFile, learn, lastLearn,
                  unsaved>>
  BY DEF Routing!Classify, Routing!Record, Routing!UpdateLiked, Routing!intentVars
<1>2. /\ clock \in Nat /\ lastLearn \in Nat /\ lastLearn <= clock
      /\ times \in [Messages -> {0, 1}] /\ RowsInv /\ LikedInv /\ OnceInv
  BY DEF RoutingInv, RoutingTypeOK
<1>3. /\ times' \in [Messages -> {0, 1}] /\ RowsInv' /\ LikedInv' /\ OnceInv'
  <2>1. CASE UNCHANGED <<feedback, times>>
    BY <1>1, <1>2, <2>1 DEF RowsInv, LikedInv, OnceInv
  <2>2. CASE /\ feedback' = [n \in DOMAIN feedback \cup {m} |-> IF n = m
                          THEN [intent |-> chosen[m].intent, tier |-> chosen[m].tier,
                                liked |-> "unrated", at |-> clock]
                          ELSE feedback[n]]
             /\ times' = [times EXCEPT ![m] = 0]
    <3>1. /\ DOMAIN feedback' = DOMAIN feedback \cup {m}
          /\ \A n \in DOMAIN feedback \ {m} : feedback'[n] = feedback[n]
          /\ feedback'[m].at = clock
      BY <2>2
    <3>2. /\ times' \in [Messages -> {0, 1}] /\ times'[m] = 0
          /\ \A n \in Messages \ {m} : times'[n] = times[n]
      BY <1>2, <2>2
    <3>3. RowsInv'
      BY <1>1, <1>2, <3>1 DEF RowsInv
    <3>4. LikedInv'
      <4>1. \A rec \in learn.liked : times'[rec.msg] = 0
        BY <1>2, <3>2 DEF LikedInv, RowsInv
      <4> QED
        BY <1>1, <1>2, <3>1, <4>1 DEF LikedInv
    <3>5. OnceInv'
      <4> SUFFICES ASSUME NEW n \in Messages, times'[n] = 1
          PROVE  /\ n \in DOMAIN feedback'
                 /\ learn.step = "embed" \/ feedback'[n].at <= lastLearn
        BY <1>1 DEF OnceInv
      <4>1. n # m /\ times[n] = 1
        BY <3>2
      <4> QED
        BY <1>2, <3>1, <4>1 DEF OnceInv
    <3> QED
      BY <3>2, <3>3, <3>4, <3>5
  <2>3. CASE Routing!UpdateLiked(m, liked)
    <3>1. /\ DOMAIN feedback' = DOMAIN feedback
          /\ \A n \in DOMAIN feedback : feedback'[n].at = feedback[n].at
      BY <2>3 DEF Routing!UpdateLiked
    <3>2. times' = times
      BY <2>3 DEF Routing!UpdateLiked
    <3> QED
      BY <1>1, <1>2, <3>1, <3>2 DEF RowsInv, LikedInv, OnceInv
  <2> QED
    BY <2>1, <2>2, <2>3 DEF Routing!Classify, Routing!Record
<1>4. RoutingTypeOK'
  BY <1>1, <1>3 DEF RoutingInv, RoutingTypeOK
<1>5. Routing!InLastSave'
  BY <1>1 DEF RoutingInv, Routing!InLastSave, Routing!InMemory
<1> QED
  BY <1>3, <1>4, <1>5 DEF RoutingInv

\* A round reads the table and moves the tiers.
LEMMA AdjustStep ==
  ASSUME RoutingInv,
         Routing!BeginLearn \/ Routing!QueryLiked \/ \E s \in learn.stats : Routing!Adjust(s)
  PROVE  RoutingInv'
<1>1. UNCHANGED <<clock, enabled, learned, intentFile, feedback, lastLearn, times>>
  BY DEF Routing!BeginLearn, Routing!QueryLiked, Routing!Adjust, Routing!intentVars
<1>2. RoutingTypeOK /\ RowsInv /\ LikedInv /\ OnceInv /\ Routing!InLastSave
  BY DEF RoutingInv
<1>3. RowsInv'
  BY <1>1, <1>2 DEF RowsInv
<1>4. CASE Routing!BeginLearn
  <2>1. /\ learn = Routing!AtRest /\ learn'.step = "adjust" /\ learn'.liked = {}
        /\ UNCHANGED <<minTier, unsaved>>
    BY <1>4, AtRestStep DEF Routing!BeginLearn, Routing!intentVars
  <2>2. learn' # Routing!AtRest /\ learn.step = "idle"
    BY <2>1, AtRestStep
  <2>3. RoutingTypeOK'
    BY <1>1, <1>2, <2>1 DEF RoutingTypeOK
  <2>4. LikedInv' /\ OnceInv'
    BY <1>1, <1>2, <2>1, <2>2 DEF LikedInv, OnceInv
  <2>5. Routing!InLastSave'
    BY <2>2 DEF Routing!InLastSave
  <2> QED
    BY <1>3, <2>3, <2>4, <2>5 DEF RoutingInv
<1>5. CASE Routing!QueryLiked
  <2>1. /\ learn.step = "adjust" /\ UNCHANGED minTier
        /\ \/ /\ learn' = [Routing!AtRest EXCEPT !.step = "embed",
                   !.liked = {[msg |-> m, intent |-> feedback[m].intent] :
                     m \in {n \in Routing!Liked(Routing!Rated) : feedback[n].at > lastLearn}}]
              /\ unsaved' = unsaved
           \/ learn' = Routing!AtRest /\ unsaved' = TRUE
    BY <1>5 DEF Routing!QueryLiked, Routing!intentVars
  <2>2. RoutingTypeOK'
    BY <1>1, <1>2, <2>1 DEF RoutingTypeOK
  <2>3. CASE learn' = Routing!AtRest /\ unsaved' = TRUE
    <3>1. learn'.step = "idle" /\ learn'.liked = {}
      BY <2>3, AtRestStep
    <3>2. LikedInv' /\ OnceInv'
      BY <1>1, <1>2, <2>1, <3>1 DEF LikedInv, OnceInv
    <3>3. Routing!InLastSave'
      BY <2>3 DEF Routing!InLastSave
    <3> QED
      BY <1>3, <2>2, <3>2, <3>3 DEF RoutingInv
  <2>4. CASE learn' = [Routing!AtRest EXCEPT !.step = "embed",
                   !.liked = {[msg |-> m, intent |-> feedback[m].intent] :
                     m \in {n \in Routing!Liked(Routing!Rated) : feedback[n].at > lastLearn}}]
    <3>1. /\ learn'.step = "embed"
          /\ learn'.liked = {[msg |-> m, intent |-> feedback[m].intent] :
               m \in {n \in Routing!Liked(Routing!Rated) : feedback[n].at > lastLearn}}
      BY <2>4, AtRestStep
    <3>2. \A n \in Routing!Liked(Routing!Rated) : n \in DOMAIN feedback
      BY DEF Routing!Liked, Routing!Rated
    <3>3. \A rec \in learn'.liked :
            /\ rec.msg \in DOMAIN feedback /\ feedback[rec.msg].at > lastLearn
            /\ rec = [msg |-> rec.msg, intent |-> feedback[rec.msg].intent]
      BY <3>1, <3>2
    <3>4. \A m \in DOMAIN feedback : feedback[m].at > lastLearn => times[m] = 0
      <4> SUFFICES ASSUME NEW m \in DOMAIN feedback, feedback[m].at > lastLearn
                   PROVE  times[m] = 0
        OBVIOUS
      <4>1. m \in Messages /\ times[m] \in {0, 1} /\ feedback[m].at \in Nat /\ lastLearn \in Nat
        BY <1>2 DEF RowsInv, RoutingTypeOK
      <4>2. ~(feedback[m].at <= lastLearn) /\ learn.step # "embed"
        BY <2>1, <4>1
      <4> QED
        BY <1>2, <4>1, <4>2 DEF OnceInv
    <3>5. \A rec \in learn'.liked : rec.msg \in DOMAIN feedback' /\ times'[rec.msg] = 0
      BY <1>1, <3>3, <3>4
    <3>6. \A r1, r2 \in learn'.liked : r1.msg = r2.msg => r1 = r2
      BY <3>3
    <3>7. LikedInv'
      BY <3>1, <3>5, <3>6 DEF LikedInv
    <3>8. OnceInv'
      BY <1>1, <1>2, <3>1 DEF OnceInv
    <3>9. Routing!InLastSave'
      BY <3>1, AtRestStep DEF Routing!InLastSave
    <3> QED
      BY <1>3, <2>2, <3>7, <3>8, <3>9 DEF RoutingInv
  <2> QED
    BY <2>1, <2>3, <2>4
<1>6. ASSUME NEW s \in learn.stats, Routing!Adjust(s) PROVE RoutingInv'
  <2>1. /\ learn.step = "adjust" /\ learn'.step = "adjust" /\ learn'.liked = learn.liked
        /\ minTier' = IF s.intent \in Intents
                      THEN [minTier EXCEPT ![s.intent] = Routing!Adjusted(s)] ELSE minTier
    BY <1>6 DEF Routing!Adjust
  <2>2. s.intent \in Intents => Routing!Adjusted(s) \in 1..4
    <3>1. s.intent \in Intents => minTier[s.intent] \in 1..4
      BY <1>2 DEF RoutingTypeOK
    <3> QED
      BY <3>1 DEF Routing!Adjusted, Routing!RaiseMinTier, Routing!LowerMinTier
  <2>3. minTier' \in [Intents -> 1..4]
    BY <1>2, <2>1, <2>2 DEF RoutingTypeOK
  <2>4. RoutingTypeOK'
    BY <1>1, <1>2, <2>3 DEF RoutingTypeOK
  <2>5. LikedInv' /\ OnceInv'
    BY <1>1, <1>2, <2>1 DEF LikedInv, OnceInv
  <2>6. Routing!InLastSave'
    BY <2>1, AtRestStep DEF Routing!InLastSave
  <2> QED
    BY <1>3, <2>4, <2>5, <2>6 DEF RoutingInv
<1> QED
  BY <1>4, <1>5, <1>6

\* It embeds what was liked and saves.
LEMMA EmbedStep ==
  ASSUME RoutingInv, Routing!EndLearn \/ \E rec \in learn.liked : Routing!EmbedLiked(rec)
  PROVE  RoutingInv'
<1>1. UNCHANGED <<clock, enabled, minTier, feedback>>
  BY DEF Routing!EndLearn, Routing!EmbedLiked, Routing!intentVars
<1>2. RoutingTypeOK /\ RowsInv /\ LikedInv /\ OnceInv
  BY DEF RoutingInv
<1>3. RowsInv'
  BY <1>1, <1>2 DEF RowsInv
<1>4. CASE Routing!EndLearn
  <2>1. /\ learn' = Routing!AtRest /\ lastLearn' = clock /\ times' = times
        /\ learned' = learned
        /\ \/ intentFile' = Routing!InMemory
           \/ unsaved' = TRUE /\ intentFile' = intentFile
    BY <1>4 DEF Routing!EndLearn, Routing!LearnedUntil, Routing!intentVars
  <2>2. FileOK(Routing!InMemory)
    BY <1>2 DEF FileOK, Routing!InMemory, RoutingTypeOK
  <2>3. RoutingTypeOK'
    BY <1>1, <1>2, <2>1, <2>2 DEF RoutingTypeOK
  <2>4. LikedInv'
    BY <2>1, AtRestStep DEF LikedInv
  <2>5. OnceInv'
    BY <1>1, <1>2, <2>1 DEF OnceInv, RowsInv
  <2>6. Routing!InLastSave'
    BY <1>1, <2>1 DEF Routing!InLastSave, Routing!InMemory
  <2> QED
    BY <1>3, <2>3, <2>4, <2>5, <2>6 DEF RoutingInv
<1>5. ASSUME NEW rec \in learn.liked, Routing!EmbedLiked(rec) PROVE RoutingInv'
  <2>1. /\ learn.step = "embed" /\ learn'.step = "embed"
        /\ learn'.liked = learn.liked \ {rec}
        /\ times' \in {times, [times EXCEPT ![rec.msg] = @ + 1]}
        /\ UNCHANGED <<intentFile, lastLearn>>
    BY <1>5 DEF Routing!EmbedLiked
  <2>2. rec.msg \in Messages /\ rec.msg \in DOMAIN feedback /\ times[rec.msg] = 0
    BY <1>2 DEF LikedInv, RowsInv
  <2>3. /\ times' \in [Messages -> {0, 1}]
        /\ \A m \in Messages \ {rec.msg} : times'[m] = times[m]
    BY <1>2, <2>1, <2>2 DEF RoutingTypeOK
  <2>4. RoutingTypeOK'
    BY <1>1, <1>2, <2>1, <2>3 DEF RoutingTypeOK
  <2>5. LikedInv'
    <3>1. \A r \in learn.liked \ {rec} : r.msg # rec.msg /\ r.msg \in Messages
      BY <1>2 DEF LikedInv, RowsInv
    <3>2. \A r \in learn.liked \ {rec} : r.msg \in DOMAIN feedback' /\ times'[r.msg] = 0
      BY <1>1, <1>2, <2>3, <3>1 DEF LikedInv
    <3> QED
      BY <1>2, <2>1, <3>2 DEF LikedInv
  <2>6. OnceInv'
    BY <1>1, <1>2, <2>1, <2>2, <2>3 DEF OnceInv
  <2>7. Routing!InLastSave'
    BY <2>1, AtRestStep DEF Routing!InLastSave
  <2> QED
    BY <1>3, <2>4, <2>5, <2>6, <2>7 DEF RoutingInv
<1> QED
  BY <1>4, <1>5

\* Initialize with a file, whatever intents it has.
LEMMA InitializeStep ==
  ASSUME NEW f, FileOK(f), Routing!Initialize(f)
  PROVE  /\ minTier' \in [Intents -> 1..4] /\ FileOK(intentFile')
         /\ enabled' /\ ~unsaved' => intentFile' = Routing!InMemory'
<1>1. CASE Routing!Complete(f)
  <2>1. /\ minTier' = f.tiers /\ learned' = f.vectors /\ intentFile' = f
    BY <1>1 DEF Routing!Initialize
  <2> QED
    BY <1>1, <2>1 DEF FileOK, Routing!Complete, Routing!InMemory
<1>2. CASE ~Routing!Complete(f)
  <2>1. /\ \E before \in SUBSET Intents : minTier' = Routing!Loaded(f, before)
        /\ learned' = Routing!NoVectors
        /\ \/ intentFile' = [tiers |-> minTier', vectors |-> Routing!NoVectors]
           \/ intentFile' = f /\ (unsaved' = TRUE \/ enabled' = FALSE)
    BY <1>2 DEF Routing!Initialize
  <2>2. minTier' \in [Intents -> 1..4]
    <3> SUFFICES ASSUME NEW before \in SUBSET Intents
                 PROVE  Routing!Loaded(f, before) \in [Intents -> 1..4]
      BY <2>1
    <3>1. \A i \in DOMAIN f.tiers : f.tiers[i] \in 1..4
      BY DEF FileOK
    <3>2. \A i \in Intents : Routing!DefaultTier[i] \in 1..4
      BY DefaultTierOK
    <3> QED
      BY <3>1, <3>2 DEF Routing!Loaded
  <2>3. FileOK([tiers |-> minTier', vectors |-> Routing!NoVectors])
    BY <2>2 DEF FileOK
  <2> QED
    BY <2>1, <2>2, <2>3 DEF Routing!InMemory
<1> QED
  BY <1>1, <1>2

LEMMA RestartStep ==
  ASSUME RoutingInv, Routing!Restart
  PROVE  RoutingInv'
<1>1. RoutingTypeOK /\ RowsInv
  BY DEF RoutingInv
<1>2. FileOK(Routing!NoFile)
  BY DEF FileOK, Routing!NoFile
<1>3. \A i \in Intents : Routing!Complete(intentFile) => FileOK(Routing!Older(intentFile, i))
  <2> SUFFICES ASSUME NEW i \in Intents, Routing!Complete(intentFile)
               PROVE  FileOK(Routing!Older(intentFile, i))
    OBVIOUS
  <2> DEFINE t == [j \in Intents \ {i} |-> intentFile.tiers[j]]
  <2>1. \A j \in Intents : intentFile.tiers[j] \in 1..4
    BY <1>1 DEF RoutingTypeOK, FileOK, Routing!Complete
  <2>2. t \in [Intents \ {i} -> 1..4] /\ DOMAIN t = Intents \ {i}
    BY <2>1
  <2>3. Routing!Older(intentFile, i).tiers = t
    BY DEF Routing!Older
  <2>4. Routing!Older(intentFile, i)
          = [tiers |-> Routing!Older(intentFile, i).tiers,
             vectors |-> Routing!Older(intentFile, i).vectors]
    BY DEF Routing!Older
  <2> HIDE DEF t
  <2> QED
    BY <2>2, <2>3, <2>4 DEF FileOK
<1>4. FileOK(intentFile)
  BY <1>1 DEF RoutingTypeOK
<1>5. PICK f : FileOK(f) /\ Routing!Initialize(f)
  BY <1>2, <1>3, <1>4 DEF Routing!Restart
<1>6. /\ minTier' \in [Intents -> 1..4] /\ FileOK(intentFile')
      /\ enabled' /\ ~unsaved' => intentFile' = Routing!InMemory'
  BY <1>5, InitializeStep
<1>7. /\ learn' = Routing!AtRest /\ lastLearn' = 0 /\ times' = [m \in Messages |-> 0]
      /\ UNCHANGED <<clock, feedback>>
  BY DEF Routing!Restart
<1>8. RoutingTypeOK'
  BY <1>1, <1>6, <1>7 DEF RoutingTypeOK
<1>9. RowsInv' /\ LikedInv' /\ OnceInv'
  BY <1>1, <1>7, AtRestStep DEF RowsInv, LikedInv, OnceInv
<1>10. Routing!InLastSave'
  BY <1>6 DEF Routing!InLastSave
<1> QED
  BY <1>8, <1>9, <1>10 DEF RoutingInv

LEMMA RoutingStep ==
  ASSUME RoutingInv, [Routing!SemanticNext]_(Routing!semanticVars)
  PROVE  RoutingInv'
<1>1. CASE \E m \in Messages : \/ Routing!Classify(m) \/ Routing!Record(m)
                               \/ Routing!UpdateLiked(m, "yes")
                               \/ Routing!UpdateLiked(m, "no")
  BY <1>1, AskStep
<1>2. CASE Routing!BeginLearn \/ Routing!QueryLiked \/ \E s \in learn.stats : Routing!Adjust(s)
  BY <1>2, AdjustStep
<1>3. CASE Routing!EndLearn \/ \E rec \in learn.liked : Routing!EmbedLiked(rec)
  BY <1>3, EmbedStep
<1>4. CASE Routing!Restart
  BY <1>4, RestartStep
<1>5. CASE Routing!Second
  <2>1. /\ clock' = clock + 1
        /\ UNCHANGED <<enabled, minTier, learned, intentFile, feedback, learn,
                       lastLearn, unsaved, times>>
    BY <1>5 DEF Routing!Second, Routing!intentVars
  <2>2. RoutingTypeOK' /\ RowsInv'
    BY <2>1 DEF RoutingInv, RoutingTypeOK, RowsInv
  <2>3. LikedInv' /\ OnceInv' /\ Routing!InLastSave'
    BY <2>1 DEF RoutingInv, LikedInv, OnceInv, Routing!InLastSave, Routing!InMemory
  <2> QED
    BY <2>2, <2>3 DEF RoutingInv
<1>6. CASE UNCHANGED Routing!semanticVars
  BY <1>6 DEF Routing!semanticVars, RoutingInv, RoutingTypeOK, RowsInv, LikedInv, OnceInv,
    Routing!InLastSave, Routing!InMemory
<1> QED
  BY <1>1, <1>2, <1>3, <1>4, <1>5, <1>6 DEF Routing!SemanticNext

\* For any intents, messages and thresholds, and whatever files the process finds
\* when it starts: tiers are tiers, a choice is learned from once in the life of
\* the process, and between rounds the file has what was learned.
THEOREM LearningSoundHolds == Routing!SemanticSpec => []LearningSound
<1>1. RoutingInv => LearningSound
  <2> SUFFICES ASSUME RoutingInv PROVE LearningSound
    OBVIOUS
  <2>1. /\ \A i \in Intents : minTier[i] \in 1..4
        /\ \A m \in Messages : times[m] <= 1
    BY DEF RoutingInv, RoutingTypeOK
  <2> QED
    BY <2>1 DEF RoutingInv, LearningSound, Routing!LearningSound
<1> QED
  BY <1>1, RoutingInitInv, RoutingStep, PTL DEF Routing!SemanticSpec
===============================================================================
