----------------------------- MODULE DaemonProofs -----------------------------
(***************************************************************************)
(* Proofs about what runs in the background of the daemon.  The execution  *)
(* service: its types, which execution a cancellation reaches, that runs   *)
(* are executed by one at a time and keep their verdict.  The WebSocket    *)
(* client: its types, that it leaks no connection, and that it implements  *)
(* a lossy FIFO queue.  The scheduler: its types, and that the cron table  *)
(* agrees with the schedules it knows.                                     *)
(***************************************************************************)
EXTENDS MCDaemon, TLAPS

-------------------------------------------------------------------------------
(* The execution service.                                                  *)

USE ConstAssumption DEF ConstAssumption

\* Types: in every reachable state every variable has its type, a live
\* execution has a run, and poll remembers a run exactly between its look-up
\* and its spawn.
THEOREM TypeCorrect == Spec => []TypeOK
<1>1. Init => TypeOK
  <2> SUFFICES ASSUME Init PROVE TypeOK
    OBVIOUS
  <2>1. faults \in 0..MaxFaults
    BY DEF Init
  <2>2. /\ evalOf \in [Execs -> BOOLEAN] /\ failed \in [Execs -> BOOLEAN]
        /\ stopped \in BOOLEAN /\ ctxDone \in BOOLEAN
    BY Zenon DEF Init
  <2>3. /\ status \in [Runs -> Statuses] /\ wsUp \in BOOLEAN
        /\ running \in [Runs -> Execs \cup {NoExec}]
        /\ phase \in [Execs -> Phases]
        /\ runOf \in [Execs -> Runs \cup {NoRun}]
        /\ kindOf \in [Execs -> RunTypes \cup {"skip"}]
        /\ reader \in [Readers -> Runs \cup {NoRun}]
    BY DEF Init, Statuses, Phases
  <2>4. \A e \in Execs : ~Live(e)
    BY DEF Init, Live
  <2>5. /\ pollPc \in {"idle", "exited"} /\ pollRun = NoRun
        /\ pollWfs = {} /\ pollRuns = {}
        /\ cancelled = {} /\ hooks = {} /\ lost = {} /\ leaked = {}
    BY DEF Init
  <2> QED
    BY <2>1, <2>2, <2>3, <2>4, <2>5 DEF TypeOK
<1>2. TypeOK /\ [Next]_vars => TypeOK'
  <2> SUFFICES ASSUME TypeOK, [Next]_vars PROVE TypeOK'
    OBVIOUS
  <2> USE DEF TypeOK, Live, cloudVars, execVars, hookVars, pollVars, stopVars
  <2>1. ASSUME NEW r \in Runs, CreateRun(r) PROVE TypeOK'
    BY <2>1 DEF CreateRun, Statuses
  <2>2. CASE WsFlip
    BY <2>2 DEF WsFlip
  <2>3. ASSUME NEW d \in Readers, DispatchSpawn(d) PROVE TypeOK'
    BY <2>3 DEF DispatchSpawn, SpawnRun, DispatchedKind, RunTypes, Phases
  <2>4. ASSUME NEW d \in Readers, NEW r \in Runs,
               DispatchCheck(d, r) \/ CancelRun(d, r)
        PROVE  TypeOK'
    BY <2>4 DEF DispatchCheck, CancelRun
  <2>5. CASE Poll
    <3>1. CASE PollTick BY <3>1 DEF PollTick
    <3>2. CASE PollList BY <3>2 DEF PollList, ListError, Fault
    <3>3. CASE PollSpawn
      BY <3>3 DEF PollSpawn, SpawnRun, PolledKind, RunTypes, Phases
    <3>4. CASE PollDone BY <3>4 DEF PollDone
    <3>5. CASE PollExit BY <3>5 DEF PollExit
    <3>6. ASSUME NEW w \in Workflows, PollFetch(w) PROVE TypeOK'
      BY <3>6 DEF PollFetch, Fault
    <3>7. ASSUME NEW r \in Runs, PollCheck(r) PROVE TypeOK'
      BY <3>7 DEF PollCheck
    <3> QED BY <2>5, <3>1, <3>2, <3>3, <3>4, <3>5, <3>6, <3>7 DEF Poll
  <2>6. ASSUME NEW e \in Execs, Execute(e) PROVE TypeOK'
    <3> USE DEF Goto, ExecFrame, Report, CallSucceeds, CallFails, Fault,
                Phases, Statuses
    <3>1. CASE Begin(e) BY <3>1 DEF Begin
    <3>2. CASE Prepare(e)
      <4>1. hooks' \subseteq Execs /\ evalOf' \in [Execs -> BOOLEAN]
        BY <3>2 DEF Prepare
      <4>2. faults' \in 0..MaxFaults
        BY <3>2 DEF Prepare
      <4> QED BY <3>2, <4>1, <4>2 DEF Prepare
    <3>3. CASE Detail(e) BY <3>3 DEF Detail, DetailError
    <3>4. CASE Work(e) BY <3>4 DEF Work
    <3>5. CASE ReportFailed(e) BY <3>5 DEF ReportFailed
    <3>6. CASE Finalize(e) BY <3>6 DEF Finalize, HooksAfter, AfterFinalize
    <3>7. CASE ReportCompleted(e) BY <3>7 DEF ReportCompleted
    <3>8. CASE Abort(e) BY <3>8 DEF Abort
    <3>9. CASE Cleanup(e) BY <3>9 DEF Cleanup, Forget, RunTypes
    <3> QED BY <2>6, <3>1, <3>2, <3>3, <3>4, <3>5, <3>6, <3>7, <3>8, <3>9
            DEF Execute
  <2>7. CASE Stop BY <2>7 DEF Stop
  <2>8. CASE CancelContext BY <2>8 DEF CancelContext
  <2>9. CASE UNCHANGED vars BY <2>9 DEF vars
  <2> QED BY <2>1, <2>2, <2>3, <2>4, <2>5, <2>6, <2>7, <2>8, <2>9 DEF Next
<1> QED BY <1>1, <1>2, PTL DEF Spec

-------------------------------------------------------------------------------
(* The steps by what they change: the lemmas the invariants below rest on.  *)

\* A step of an execution other than its cleanup keeps it alive, changes no
\* other execution, and leaves the map, the readers and the poll loop alone.
LEMMA ExecuteStep ==
  ASSUME TypeOK, NEW e \in Execs, Execute(e), ~Cleanup(e)
  PROVE  /\ Live(e) /\ Live(e)'
         /\ \A f \in Execs : f # e => phase'[f] = phase[f]
         /\ UNCHANGED <<running, runOf, kindOf, reader, pollVars, wsUp>>
<1> USE DEF Goto, ExecFrame, Live, TypeOK
<1>1. CASE Begin(e) BY <1>1 DEF Begin
<1>2. CASE Prepare(e) BY <1>2 DEF Prepare
<1>3. CASE Detail(e) BY <1>3 DEF Detail, DetailError
<1>4. CASE Work(e) BY <1>4 DEF Work
<1>5. CASE ReportFailed(e) BY <1>5 DEF ReportFailed
<1>6. CASE Finalize(e) BY <1>6 DEF Finalize, AfterFinalize
<1>7. CASE ReportCompleted(e) BY <1>7 DEF ReportCompleted
<1>8. CASE Abort(e) BY <1>8 DEF Abort
<1> QED
  BY <1>1, <1>2, <1>3, <1>4, <1>5, <1>6, <1>7, <1>8 DEF Execute

\* Every step is a spawn by a reader, a spawn by the poll loop, a step of one
\* execution, or leaves the map and the executions' control state alone.
LEMMA StepKinds ==
  ASSUME [Next]_vars
  PROVE  \/ \E d \in Readers : DispatchSpawn(d)
         \/ PollSpawn
         \/ \E e \in Execs : Execute(e)
         \/ UNCHANGED <<running, execVars>>
<1>1. ASSUME Poll, ~PollSpawn PROVE UNCHANGED <<running, execVars>>
  BY <1>1 DEF Poll, PollTick, PollList, PollFetch, PollCheck, PollDone, PollExit
<1> QED
  BY <1>1 DEF Next, vars, execVars, CreateRun, WsFlip, DispatchCheck, CancelRun,
              Stop, CancelContext

-------------------------------------------------------------------------------
(* The map.                                                                *)

\* The map never keeps a dead cancel function, nor one of another run: the
\* property MapEntryLive for all parameters.
THEOREM MapEntryLiveHolds == Spec => []MapEntryLive
<1>1. Init => MapEntryLive
  BY DEF Init, MapEntryLive
<1>2. TypeOK /\ MapEntryLive /\ [Next]_vars => MapEntryLive'
  <2> SUFFICES ASSUME TypeOK, MapEntryLive, [Next]_vars PROVE MapEntryLive'
    OBVIOUS
  <2> USE DEF MapEntryLive, Live
  <2>1. ASSUME NEW r \in Runs, NEW k, NEW v, SpawnRun(r, k, v)
        PROVE  MapEntryLive'
    \* the slot was free, so no other entry names it
    BY <2>1 DEF SpawnRun, TypeOK
  <2>2. ASSUME NEW e \in Execs, Execute(e) PROVE MapEntryLive'
    <3>1. CASE Cleanup(e)
      BY <3>1 DEF Cleanup, Goto, Forget, TypeOK
    <3>2. CASE ~Cleanup(e)
      BY <2>2, <3>2, ExecuteStep DEF TypeOK
    <3> QED BY <3>1, <3>2
  <2>3. ASSUME NEW d \in Readers, DispatchSpawn(d) PROVE MapEntryLive'
    BY <2>1, <2>3, ZenonT(40) DEF DispatchSpawn, TypeOK
  <2>4. CASE PollSpawn
    BY <2>1, <2>4 DEF PollSpawn, TypeOK
  <2>5. CASE UNCHANGED <<running, execVars>>
    BY <2>5 DEF execVars
  <2> QED BY <2>2, <2>3, <2>4, <2>5, StepKinds
<1> QED BY <1>1, <1>2, TypeCorrect, PTL DEF Spec

\* The invariant behind mutual exclusion.  With a sole actor, a run found
\* absent from the map is still absent when it is spawned, so that a live
\* execution is always the one the map records.
Recorded ==
  /\ \A e \in Execs : Live(e) => running[runOf[e]] = e
  /\ \A d \in Readers : reader[d] # NoRun => running[reader[d]] = NoExec
  /\ pollPc = "spawn" => running[pollRun] = NoExec
  /\ wsUp => pollPc \in {"idle", "exited"}
  /\ ~wsUp => \A d \in Readers : reader[d] = NoRun

LEMMA RecordedHolds == ASSUME SoleActor PROVE Spec => []Recorded
<1>1. Init => Recorded
  BY DEF Init, Recorded, Live
<1>2. TypeOK /\ MapEntryLive /\ Recorded /\ [Next]_vars => Recorded'
  <2> SUFFICES ASSUME TypeOK, MapEntryLive, Recorded, [Next]_vars
               PROVE  Recorded'
    OBVIOUS
  <2> USE DEF Recorded, Live
  <2>1. ASSUME NEW d \in Readers, DispatchSpawn(d) PROVE Recorded'
    <3>1. /\ pollPc \in {"idle", "exited"} /\ \A c \in Readers : c = d
          /\ reader[d] \in Runs /\ running[reader[d]] = NoExec
      BY <2>1 DEF SoleActor, DispatchSpawn, TypeOK
    <3>2. PICK e \in Execs :
            /\ phase[e] = "free"
            /\ running' = [running EXCEPT ![reader[d]] = e]
            /\ phase' = [phase EXCEPT ![e] = "begin"]
            /\ runOf' = [runOf EXCEPT ![e] = reader[d]]
      BY <2>1 DEF DispatchSpawn, SpawnRun
    <3>3. /\ reader' = [reader EXCEPT ![d] = NoRun]
          /\ UNCHANGED <<pollPc, pollRun, wsUp>>
      BY <2>1 DEF DispatchSpawn, pollVars
    <3> QED BY <3>1, <3>2, <3>3 DEF TypeOK
  <2>2. CASE PollSpawn
    <3>1. /\ ~wsUp /\ pollRun \in Runs /\ running[pollRun] = NoExec
      BY <2>2 DEF SoleActor, PollSpawn, TypeOK
    <3>2. PICK e \in Execs :
            /\ phase[e] = "free"
            /\ running' = [running EXCEPT ![pollRun] = e]
            /\ phase' = [phase EXCEPT ![e] = "begin"]
            /\ runOf' = [runOf EXCEPT ![e] = pollRun]
      BY <2>2 DEF PollSpawn, SpawnRun
    <3>3. pollPc = "spawn" /\ pollPc' = "loop" /\ UNCHANGED <<reader, wsUp>>
      BY <2>2 DEF PollSpawn
    <3> QED BY <3>1, <3>2, <3>3 DEF TypeOK
  <2>3. ASSUME NEW e \in Execs, Execute(e) PROVE Recorded'
    <3>1. CASE Cleanup(e)
      BY <3>1 DEF Cleanup, Goto, Forget, TypeOK, pollVars
    <3>2. CASE ~Cleanup(e)
      BY <2>3, <3>2, ExecuteStep DEF TypeOK, pollVars
    <3> QED BY <3>1, <3>2
  <2>4. ASSUME NEW d \in Readers, NEW r \in Runs, DispatchCheck(d, r)
        PROVE  Recorded'
    BY <2>4 DEF DispatchCheck, Absent, TypeOK, execVars, pollVars
  <2>5. ASSUME NEW r \in Runs, PollCheck(r) PROVE Recorded'
    BY <2>5 DEF PollCheck, Absent, TypeOK, execVars
  <2>6. CASE UNCHANGED <<running, execVars, reader, pollVars, wsUp>>
    BY <2>6 DEF execVars, pollVars
  <2>7. ASSUME PollTick \/ PollList \/ PollDone \/ PollExit
               \/ \E w \in Workflows : PollFetch(w)
        PROVE  Recorded'
    BY <2>7 DEF PollTick, PollList, ListError, PollDone, PollExit, PollFetch,
                execVars
  <2> QED
    BY <2>1, <2>2, <2>3, <2>4, <2>5, <2>6, <2>7
    DEF SoleActor, Next, vars, Poll, CreateRun, WsFlip, CancelRun, Stop,
        CancelContext, execVars, pollVars
<1> QED BY <1>1, <1>2, TypeCorrect, MapEntryLiveHolds, PTL DEF Spec

\* With one source of runs, a run is never executed twice at the same time.
THEOREM MutualExclusion == ASSUME SoleActor PROVE Spec => []AtMostOneLive
<1>1. TypeOK /\ Recorded => AtMostOneLive
  BY DEF Recorded, AtMostOneLive
<1> QED BY <1>1, TypeCorrect, RecordedHolds, PTL

\* With one source of runs, CancelRun finds every execution: what its comment
\* promises holds as long as nobody admits runs next to it.
THEOREM CancelReachesSole == ASSUME SoleActor PROVE Spec => []CancelReaches
<1>1. TypeOK /\ Recorded => CancelReaches
  BY DEF Recorded, CancelReaches
<1> QED BY <1>1, TypeCorrect, RecordedHolds, PTL

-------------------------------------------------------------------------------
(* The reports.                                                            *)

\* Whatever path an execution takes, it does not leave its run "running" in
\* the cloud unless one of the run's reports was lost.
THEOREM RunningIsOwnedHolds == Spec => []RunningIsOwned
<1>1. Init => RunningIsOwned
  BY DEF Init, RunningIsOwned
<1>2. TypeOK /\ RunningIsOwned /\ [Next]_vars => RunningIsOwned'
  <2> SUFFICES ASSUME TypeOK, RunningIsOwned, [Next]_vars,
                      NEW r \in Runs, status'[r] = "running", r \notin lost'
               PROVE  \E e \in Execs : (Live(e) /\ runOf[e] = r /\ Owes(e))'
    BY DEF RunningIsOwned
  <2> USE DEF Live, Owes
  <2>1. ASSUME NEW q \in Runs, NEW k, NEW v, SpawnRun(q, k, v),
               UNCHANGED <<status, lost, failed>>
        PROVE  \E e \in Execs : (Live(e) /\ runOf[e] = r /\ Owes(e))'
    BY <2>1 DEF SpawnRun, TypeOK, RunningIsOwned
  <2>2. ASSUME NEW d \in Readers, DispatchSpawn(d)
        PROVE  \E e \in Execs : (Live(e) /\ runOf[e] = r /\ Owes(e))'
    BY <2>1, <2>2 DEF DispatchSpawn, cloudVars, TypeOK
  <2>3. CASE PollSpawn
    BY <2>1, <2>3 DEF PollSpawn, cloudVars, TypeOK
  <2>4. ASSUME UNCHANGED <<status, lost, execVars>>
        PROVE  \E e \in Execs : (Live(e) /\ runOf[e] = r /\ Owes(e))'
    BY <2>4 DEF RunningIsOwned, execVars
  <2>5. ASSUME NEW q \in Runs, CreateRun(q)
        PROVE  \E e \in Execs : (Live(e) /\ runOf[e] = r /\ Owes(e))'
    BY <2>5 DEF CreateRun, TypeOK, RunningIsOwned, execVars
  <2>6. ASSUME NEW e \in Execs, Execute(e)
        PROVE  \E f \in Execs : (Live(f) /\ runOf[f] = r /\ Owes(f))'
    <3> USE DEF Goto, ExecFrame, TypeOK, RunningIsOwned, cloudVars, Report,
                CallFails, CallSucceeds, Terminal
    <3>1. CASE Begin(e)
      \* either it now owes a report of its run, or nothing changed for r
      <4>1. CASE kindOf[e] = "skip" BY <3>1, <4>1 DEF Begin
      <4>2. CASE kindOf[e] # "skip" /\ runOf[e] = r BY <3>1, <4>2 DEF Begin
      <4>3. CASE kindOf[e] # "skip" /\ runOf[e] # r BY <3>1, <4>3 DEF Begin
      <4> QED BY <4>1, <4>2, <4>3
    <3>2. CASE Prepare(e) BY <3>2 DEF Prepare
    <3>3. CASE Detail(e) BY <3>3 DEF Detail, DetailError
    <3>4. CASE Work(e) BY <3>4 DEF Work
    <3>5. CASE ReportFailed(e) BY <3>5 DEF ReportFailed
    <3>6. CASE Finalize(e) BY <3>6 DEF Finalize, AfterFinalize
    <3>7. CASE ReportCompleted(e) BY <3>7 DEF ReportCompleted
    <3>8. CASE Abort(e) BY <3>8 DEF Abort
    <3>9. CASE Cleanup(e) BY <3>9 DEF Cleanup
    <3> QED
      BY <2>6, <3>1, <3>2, <3>3, <3>4, <3>5, <3>6, <3>7, <3>8, <3>9 DEF Execute
  <2> QED
    BY <2>2, <2>3, <2>4, <2>5, <2>6
    DEF Next, vars, execVars, cloudVars, Poll, PollTick, PollList, PollFetch,
        PollCheck, PollDone, PollExit, WsFlip, DispatchCheck, CancelRun, Stop,
        CancelContext
<1> QED BY <1>1, <1>2, TypeCorrect, PTL DEF Spec

\* Why HookOwner is inductive: only a workflow execution that prepared an eval
\* owns a hook, and it either clears it in Finalize or returned before.
HookInv ==
  /\ \A e \in Execs : phase[e] = "prepare" => kindOf[e] = "workflow"
  /\ \A h \in hooks :
       \/ h \in leaked
       \/ /\ phase[h] \in {"detail", "work", "reportFailed", "finalize"}
          /\ kindOf[h] = "workflow" /\ evalOf[h]

\* The hooks on the shared step executor belong to workflow runs under way or
\* to runs that returned on a detail error.
THEOREM HookOwnerHolds == Spec => []HookOwner
<1>1. Init => HookInv
  BY DEF Init, HookInv
<1>2. TypeOK /\ HookInv /\ [Next]_vars => HookInv'
  <2> SUFFICES ASSUME TypeOK, HookInv, [Next]_vars PROVE HookInv'
    OBVIOUS
  <2> USE DEF HookInv
  <2>1. ASSUME NEW q \in Runs, NEW k, NEW v, SpawnRun(q, k, v),
               UNCHANGED <<hooks, leaked>>
        PROVE  HookInv'
    BY <2>1 DEF SpawnRun, TypeOK
  <2>2. ASSUME NEW d \in Readers, DispatchSpawn(d) PROVE HookInv'
    BY <2>1, <2>2 DEF DispatchSpawn, hookVars, TypeOK
  <2>3. CASE PollSpawn
    BY <2>1, <2>3 DEF PollSpawn, hookVars, TypeOK
  <2>4. CASE UNCHANGED <<hookVars, execVars>>
    BY <2>4 DEF hookVars, execVars
  <2>5. ASSUME NEW e \in Execs, Execute(e) PROVE HookInv'
    <3> USE DEF Goto, ExecFrame, TypeOK, hookVars
    <3>1. CASE Begin(e) BY <3>1 DEF Begin
    <3>2. CASE Prepare(e) BY <3>2 DEF Prepare
    <3>3. CASE Detail(e) BY <3>3 DEF Detail, DetailError
    <3>4. CASE Work(e) BY <3>4 DEF Work
    <3>5. CASE ReportFailed(e) BY <3>5 DEF ReportFailed
    <3>6. CASE Finalize(e) BY <3>6 DEF Finalize, HooksAfter, AfterFinalize
    <3>7. CASE ReportCompleted(e) BY <3>7 DEF ReportCompleted
    <3>8. CASE Abort(e) BY <3>8 DEF Abort
    <3>9. CASE Cleanup(e) BY <3>9 DEF Cleanup
    <3> QED
      BY <2>5, <3>1, <3>2, <3>3, <3>4, <3>5, <3>6, <3>7, <3>8, <3>9 DEF Execute
  <2> QED
    BY <2>2, <2>3, <2>4, <2>5
    DEF Next, vars, execVars, hookVars, Poll, PollTick, PollList, PollFetch,
        PollCheck, PollDone, PollExit, CreateRun, WsFlip, DispatchCheck,
        CancelRun, Stop, CancelContext
<1>3. HookInv => HookOwner
  BY DEF HookInv, HookOwner
<1> QED BY <1>1, <1>2, <1>3, TypeCorrect, PTL DEF Spec

-------------------------------------------------------------------------------
(* A socket that stays up as the only source.                               *)

\* The run a reader is about to spawn and the run of an execution that has not
\* given its verdict have none at the cloud.
NoVerdictYet ==
  /\ \A d \in Readers : reader[d] # NoRun => status[reader[d]] = "pending"
  /\ \A e \in Execs : phase[e] = "begin" => status[runOf[e]] = "pending"
  /\ \A e \in Execs : Owes(e) => status[runOf[e]] \in {"pending", "running"}
  /\ \A e \in Execs : phase[e] = "reportFailed" => failed[e]

\* What a step does to the status of the runs, given NoVerdictYet.
StatusKept == \A r \in Runs : status[r] \in Terminal => status'[r] = status[r]

LEMMA NoVerdictStep ==
  ASSUME SoleActor, TypeOK, Recorded, wsUp, NoVerdictYet, [Next]_vars
  PROVE  NoVerdictYet' /\ StatusKept
<1> USE DEF NoVerdictYet, StatusKept, Terminal, Owes
<1>1. ASSUME NEW d \in Readers, DispatchSpawn(d)
      PROVE  NoVerdictYet' /\ StatusKept
  BY <1>1 DEF DispatchSpawn, SpawnRun, TypeOK, cloudVars
<1>2. ~PollSpawn
  BY DEF Recorded, PollSpawn
<1>3. ASSUME NEW e \in Execs, Execute(e)
      PROVE  NoVerdictYet' /\ StatusKept
  <2> DEFINE r == runOf[e]
  <2>1. /\ \A f \in Execs : Live(f) /\ runOf[f] = r => f = e
        /\ \A d \in Readers : reader[d] # r
        /\ r \in Runs
    \* r is being executed, so it is in the map, so no reader holds it
    <3>1. Live(e)
      BY <1>3 DEF Live, Execute, Begin, Prepare, Detail, Work, ReportFailed,
         Finalize, ReportCompleted, Abort, Cleanup
    <3>2. running[r] = e /\ r \in Runs
      BY <3>1 DEF Recorded, TypeOK
    <3>3. \A d \in Readers : reader[d] # r
      BY <3>2 DEF Recorded
    <3> QED BY <3>1, <3>2, <3>3 DEF Recorded
  <2>2. status[r] \notin Terminal \/ UNCHANGED status
    BY <1>3, <2>1 DEF Execute, Begin, Prepare, Detail, Work, ReportFailed,
       Finalize, ReportCompleted, Abort, Cleanup, cloudVars
  <2>3. \A q \in Runs : q # r => status'[q] = status[q]
    BY <1>3, <2>1, ZenonT(40) DEF Execute, Begin, Prepare, Detail, Work, ReportFailed,
       Finalize, ReportCompleted, Abort, Cleanup, cloudVars, Report, TypeOK
  <2>4. StatusKept
    BY <2>2, <2>3 DEF TypeOK
  <2>5. NoVerdictYet'
    <3> USE <2>1, <2>3 DEF TypeOK, Live, Goto, ExecFrame, Report, cloudVars
    <3>1. CASE Begin(e) BY <3>1 DEF Begin
    <3>2. CASE Prepare(e) BY <3>2 DEF Prepare
    <3>3. CASE Detail(e) BY <3>3 DEF Detail, DetailError
    <3>4. CASE Work(e) BY <3>4 DEF Work
    <3>5. CASE ReportFailed(e) BY <3>5 DEF ReportFailed
    <3>6. CASE Finalize(e) BY <3>6 DEF Finalize, AfterFinalize
    <3>7. CASE ReportCompleted(e) BY <3>7 DEF ReportCompleted
    <3>8. CASE Abort(e) BY <3>8 DEF Abort
    <3>9. CASE Cleanup(e) BY <3>9 DEF Cleanup
    <3> QED
      BY <1>3, <3>1, <3>2, <3>3, <3>4, <3>5, <3>6, <3>7, <3>8, <3>9 DEF Execute
  <2> QED BY <2>4, <2>5
<1>4. ASSUME NEW q \in Runs, CreateRun(q)
      PROVE  NoVerdictYet' /\ StatusKept
  BY <1>4 DEF CreateRun, TypeOK, execVars, Live, Statuses
<1>5. ASSUME NEW d \in Readers, NEW q \in Runs, DispatchCheck(d, q)
      PROVE  NoVerdictYet' /\ StatusKept
  BY <1>5 DEF DispatchCheck, TypeOK, execVars, cloudVars
<1>6. CASE UNCHANGED <<status, reader, execVars>>
  BY <1>6 DEF execVars
<1> QED
  BY <1>1, <1>2, <1>3, <1>4, <1>5, <1>6
  DEF Next, vars, execVars, cloudVars, Poll, PollTick, PollList, PollFetch,
      PollCheck, PollDone, PollExit, WsFlip, CancelRun, Stop, CancelContext

\* With a socket that stays up as the only source and one reader, the verdict
\* the cloud has of a run is never overwritten.
THEOREM VerdictStandsHolds == ASSUME SoleActor PROVE Spec => VerdictStands
<1>1. Init => NoVerdictYet
  BY DEF Init, NoVerdictYet, Owes
<1>2. [Next]_vars => UNCHANGED wsUp
  <2>1. ASSUME NEW e \in Execs, Execute(e) PROVE UNCHANGED wsUp
    BY <2>1 DEF Execute, ExecFrame, Begin, Prepare, Detail, Work, ReportFailed,
       Finalize, ReportCompleted, Abort, Cleanup
  <2>2. Poll => UNCHANGED wsUp
    BY DEF Poll, PollTick, PollList, PollFetch, PollCheck, PollSpawn, PollDone,
       PollExit
  <2> QED
    BY <2>1, <2>2 DEF SoleActor, Next, vars, CreateRun, WsFlip, DispatchSpawn,
       DispatchCheck, CancelRun, Stop, CancelContext
<1>3. TypeOK /\ Recorded /\ (wsUp => NoVerdictYet) /\ [Next]_vars
        => (wsUp => NoVerdictYet)'
  BY <1>2, NoVerdictStep
<1>4. TypeOK /\ Recorded /\ (wsUp => NoVerdictYet) /\ [Next]_vars
        => [\A r \in Runs : wsUp /\ status[r] \in Terminal => status'[r] = status[r]]_status
  BY NoVerdictStep DEF StatusKept
<1> QED
  BY <1>1, <1>3, <1>4, TypeCorrect, RecordedHolds, PTL
  DEF Spec, VerdictStands

-------------------------------------------------------------------------------
(* The WebSocket client.                                                   *)

USE DEF Client!ConstAssumption, Client!Conns, Client!vars, Client!pumpVars,
  Client!msgVars, Client!stopVars

\* The steps that touch the loop and its connections only.
NoMessageStep ==
  \/ Client!Loop \/ Client!PingFails \/ Client!PumpEnds
  \/ Client!Stop \/ Client!CancelContext
  \/ \E i \in Client!Conns : Client!Read(i) \/ Client!Break(i)

\* They leave the channel, the counters of messages alone.
LEMMA NoMessage == NoMessageStep => UNCHANGED Client!msgVars
BY DEF NoMessageStep, Client!Loop, Client!LoopCheck, Client!DialFails,
  Client!DialSucceeds, Client!Install, Client!Announce, Client!Backoff,
  Client!PumpClose, Client!Disconnect, Client!PingFails, Client!PumpEnds,
  Client!Stop, Client!CancelContext, Client!Read, Client!ReadStart,
  Client!ReadMessage, Client!HandleMessage, Client!ReadFails, Client!ReadGone,
  Client!Break

\* The types of the loop's state; the part of TypeOK without messages.
LoopTypeOK ==
  /\ loop \in {"check", "dial", "backoff", "install", "announce", "pump",
               "close", "leave", "exited"}
  /\ gen \in 0..MaxConns /\ conn \in 0..gen
  /\ (loop \in {"announce", "pump", "close", "leave"}) => conn = gen /\ gen # 0
  /\ loop = "install" => gen # 0
  /\ net \in [Client!Conns -> {"none", "up", "broken", "closed"}]
  /\ pump \in [Client!Conns -> {"none", "start", "read", "handle", "done"}]
  /\ pumpConn \in [Client!Conns -> 0..MaxConns]
  /\ \A i \in Client!Conns :
       pump[i] \in {"read", "handle"} => pumpConn[i] \in 1..conn
  /\ connected \in BOOLEAN /\ closed \in BOOLEAN /\ clientDone \in BOOLEAN
  /\ delay \in 1..MaxReconnect

\* A read pump is started only once its connection is installed, and a dial in
\* progress has not touched the connection that will be the next one.
Started ==
  /\ \A i \in Client!Conns : pump[i] # "none" => conn # 0
  /\ \A c \in Client!Conns : c > gen => net[c] = "none"

\* The numbers in the channel increase, and what was written came before them.
QueueOrder ==
  /\ sent \in 0..MaxSends /\ last \in 0..sent
  /\ queue \in Seq(1..sent) /\ Len(queue) <= Cap
  /\ \A k \in 1..Len(queue) : last < queue[k]
  /\ \A j, k \in 1..Len(queue) : j < k => queue[j] < queue[k]

LEMMA EnqueueOrder ==
  ASSUME Client!ConstAssumption, QueueOrder, Client!Enqueue
  PROVE  QueueOrder'
<1>1. sent' = sent + 1 /\ last' = last /\ sent' \in 1..MaxSends
  BY DEF Client!Enqueue, QueueOrder
<1>2. queue \in Seq(1..sent')
  BY <1>1 DEF QueueOrder
<1>3. CASE Len(queue) < Cap
  <2>1. queue' = Append(queue, sent')
    BY <1>3 DEF Client!Enqueue
  <2>2. /\ queue' \in Seq(1..sent')
        /\ Len(queue') = Len(queue) + 1
        /\ \A k \in 1..Len(queue) : queue'[k] = queue[k]
        /\ queue'[Len(queue) + 1] = sent'
    BY <1>1, <1>2, <2>1
  <2>3. \A k \in 1..Len(queue) : queue[k] <= sent
    BY DEF QueueOrder
  <2>4. /\ Len(queue) \in Nat /\ \A k \in 1..Len(queue) : queue[k] \in Nat
        /\ sent \in Nat /\ last \in 0..sent
    BY DEF QueueOrder
  <2>6. ASSUME NEW k \in 1..Len(queue') PROVE last' < queue'[k]
    <3>1. k \in 1..Len(queue) \/ k = Len(queue) + 1
      BY ONLY <2>2, <2>4
    <3>2. CASE k \in 1..Len(queue)
      <4>1. last < queue[k]
        BY <3>2 DEF QueueOrder
      <4>2. last' = last /\ queue'[k] = queue[k]
        BY <1>1, <2>2, <3>2
      <4> QED
        BY ONLY <4>1, <4>2
    <3>3. CASE k = Len(queue) + 1
      <4>1. queue'[k] = sent + 1 /\ last' = last
        BY <1>1, <2>2, <3>3
      <4>2. last < sent + 1
        BY ONLY <2>4
      <4> QED
        BY ONLY <4>1, <4>2
    <3> QED
      BY ONLY <3>1, <3>2, <3>3
  <2>7. ASSUME NEW j \in 1..Len(queue'), NEW k \in 1..Len(queue'), j < k
        PROVE  queue'[j] < queue'[k]
    <3>1. j \in 1..Len(queue) /\ queue'[j] = queue[j]
      BY <2>2, <2>4, <2>7
    <3>2. CASE k \in 1..Len(queue)
      BY <2>2, <2>7, <3>1, <3>2 DEF QueueOrder
    <3>3. CASE k = Len(queue) + 1
      BY <1>1, <2>2, <2>3, <2>4, <3>1, <3>3
    <3> QED
      BY <2>2, <2>4, <3>2, <3>3
  <2>5. Len(queue') <= Cap
    BY <1>2, <1>3, <2>2
  <2> QED
    BY <1>1, <2>2, <2>4, <2>5, <2>6, <2>7 DEF QueueOrder
<1>4. CASE ~(Len(queue) < Cap)
  BY <1>1, <1>2, <1>4 DEF Client!Enqueue, QueueOrder
<1> QED
  BY <1>3, <1>4

LEMMA DequeueOrder ==
  ASSUME Client!ConstAssumption, QueueOrder,
         queue # <<>>, queue' = Tail(queue), sent' = sent,
         last' \in {last, Head(queue)}
  PROVE  QueueOrder' /\ (last' = last \/ last' \in (last + 1)..sent)
<1>1. /\ Len(queue) \in Nat \ {0} /\ queue[1] = Head(queue)
      /\ queue[1] \in (last + 1)..sent
  BY SMTT(30) DEF QueueOrder
<1>2. /\ queue' \in Seq(1..sent) /\ Len(queue') = Len(queue) - 1
      /\ \A k \in 1..Len(queue') : queue'[k] = queue[k + 1]
  BY <1>1 DEF QueueOrder
<1>3. \A k \in 1..Len(queue') : queue[1] < queue[k + 1]
  BY <1>1, <1>2 DEF QueueOrder
<1>4. \A k \in 1..Len(queue') : last' < queue'[k]
  BY <1>1, <1>2, <1>3 DEF QueueOrder
<1> QED
  BY <1>1, <1>2, <1>4 DEF QueueOrder

-------------------------------------------------------------------------------
\* Every step of the client keeps the order of the channel, and is a step of
\* the lossy FIFO queue or leaves it alone.
LEMMA OrderStep ==
  ASSUME Client!ConstAssumption
  PROVE  QueueOrder /\ [Client!Next]_Client!vars
         => QueueOrder' /\ [Client!Fifo!Next]_<<sent, last>>
<1> SUFFICES ASSUME QueueOrder, [Client!Next]_Client!vars
             PROVE  QueueOrder' /\ [Client!Fifo!Next]_<<sent, last>>
  OBVIOUS
<1>1. CASE UNCHANGED Client!msgVars
  BY <1>1 DEF QueueOrder
<1>2. CASE Client!Enqueue
  BY <1>2, EnqueueOrder DEF Client!Enqueue, Client!Fifo!Next, Client!Fifo!Send
<1>3. CASE Client!WriteMessage
  <2>1. /\ queue # <<>> /\ queue' = Tail(queue) /\ sent' = sent
        /\ last' \in {last, Head(queue)}
    BY <1>3 DEF Client!WriteMessage, Client!DropLost
  <2> QED
    BY <2>1, DequeueOrder DEF Client!Fifo!Next, Client!Fifo!Deliver
<1> QED
  BY <1>1, <1>2, <1>3, NoMessage DEF Client!Next, NoMessageStep, Client!Send,
    Client!Heartbeat

\* The client implements a lossy FIFO queue: across reconnections, failed
\* writes and a full channel, messages reach the wire in the order of Send and
\* at most once.
THEOREM SendsInOrderHolds ==
  ASSUME Client!ConstAssumption PROVE Client!Spec => SendsInOrder
<1>1. Client!Init => QueueOrder /\ Client!Fifo!Init
  BY DEF Client!Init, QueueOrder, Client!Fifo!Init
<1> QED
  BY <1>1, OrderStep, PTL DEF Client!Spec, SendsInOrder, Client!SendsInOrder,
    Client!Fifo!Spec

-------------------------------------------------------------------------------
LEMMA LoopTypeStep ==
  ASSUME Client!ConstAssumption
  PROVE  LoopTypeOK /\ Started /\ [Client!Next]_Client!vars
         => LoopTypeOK' /\ Started'
<1> SUFFICES ASSUME LoopTypeOK, Started, [Client!Next]_Client!vars
             PROVE  LoopTypeOK' /\ Started'
  OBVIOUS
<1> USE DEF LoopTypeOK, Started
<1>1. CASE Client!Send \/ Client!Heartbeat \/ UNCHANGED Client!vars
  BY <1>1 DEF Client!Send, Client!Heartbeat
<1>2. CASE Client!WriteMessage \/ Client!PingFails \/ Client!PumpEnds
  BY <1>2 DEF Client!WriteMessage, Client!PingFails, Client!PumpEnds
<1>3. CASE Client!LoopCheck \/ Client!DialFails \/ Client!Disconnect
  BY <1>3 DEF Client!LoopCheck, Client!DialFails, Client!AfterDialError,
    Client!Disconnect
<1>4. CASE Client!Backoff
  BY <1>4 DEF Client!Backoff, Client!NextDelay
<1>5. CASE Client!DialSucceeds
  BY <1>5 DEF Client!DialSucceeds
<1>6. CASE Client!Install
  BY <1>6 DEF Client!Install
<1>7. CASE Client!Announce
  BY <1>7 DEF Client!Announce
<1>8. CASE Client!PumpClose
  BY <1>8 DEF Client!PumpClose, Client!CloseOnExit, Client!Close
<1>9. ASSUME NEW i \in Client!Conns, Client!Read(i) PROVE LoopTypeOK' /\ Started'
  <2>1. CASE Client!ReadStart(i)
    <3>1. conn \in 1..MaxConns
      BY <2>1 DEF Client!ReadStart
    <3> QED
      BY <2>1, <3>1 DEF Client!ReadStart
  <2>2. CASE Client!ReadMessage(i)
    BY <2>2 DEF Client!ReadMessage
  <2>3. CASE Client!HandleMessage(i)
    BY <2>3 DEF Client!HandleMessage
  <2>4. CASE Client!ReadFails(i)
    BY <2>4 DEF Client!ReadFails
  <2> QED
    BY <1>9, <2>1, <2>2, <2>3, <2>4 DEF Client!Read, Client!ReadGone
<1>10. ASSUME NEW i \in Client!Conns, Client!Break(i) PROVE LoopTypeOK' /\ Started'
  BY <1>10 DEF Client!Break
<1>11. CASE Client!Stop \/ Client!CancelContext
  <2>1. connected' \in BOOLEAN /\ closed' \in BOOLEAN /\ clientDone' \in BOOLEAN
    BY <1>11, Zenon DEF Client!Stop, Client!CancelContext
  <2>2. UNCHANGED <<loop, gen, conn, pump, pumpConn, delay>>
    BY <1>11 DEF Client!Stop, Client!CancelContext
  <2>3. /\ net' \in [Client!Conns -> {"none", "up", "broken", "closed"}]
        /\ \A c \in Client!Conns : c > gen => net'[c] = "none"
    BY <1>11 DEF Client!Stop, Client!CancelContext, Client!Close
  <2> QED
    BY <2>1, <2>2, <2>3
<1> QED
  BY <1>1, <1>2, <1>3, <1>4, <1>5, <1>6, <1>7, <1>8, <1>9, <1>10, <1>11 DEF
    Client!Next, Client!Loop

\* The inductive invariant of the client.
ClientInv == LoopTypeOK /\ Started /\ QueueOrder

LEMMA ClientInvHolds ==
  ASSUME Client!ConstAssumption PROVE Client!Spec => []ClientInv
<1>1. Client!Init => QueueOrder /\ Started
  BY DEF Client!Init, Started, QueueOrder
<1>2. Client!Init => LoopTypeOK
  <2>1. Client!Init => /\ connected \in BOOLEAN /\ closed \in BOOLEAN
                       /\ clientDone \in BOOLEAN
    BY Zenon DEF Client!Init
  <2>2. Client!Init
        => /\ net \in [Client!Conns -> {"none", "up", "broken", "closed"}]
           /\ pump \in [Client!Conns -> {"none", "start", "read", "handle", "done"}]
           /\ pumpConn \in [Client!Conns -> 0..MaxConns]
           /\ \A i \in Client!Conns : pump[i] = "none"
    BY DEF Client!Init
  <2> QED
    BY <2>1, <2>2 DEF Client!Init, LoopTypeOK
<1> QED
  BY <1>1, <1>2, LoopTypeStep, OrderStep, PTL DEF Client!Spec, ClientInv

\* Type correctness: among others the loop never writes to a connection that is
\* not the one it installed, and the delay stays within its cap.
THEOREM ClientTypeCorrect ==
  ASSUME Client!ConstAssumption PROVE Client!Spec => []Client!TypeOK
<1>1. ClientInv => Client!TypeOK
  BY DEF ClientInv, LoopTypeOK, QueueOrder, Client!TypeOK
<1> QED
  BY <1>1, ClientInvHolds, PTL

\* No connection leaks, however Stop interleaves with a dial and the pumps:
\* only the newest one can be open, and only while the loop has it in hand.
THEOREM OnlyCurrentOpenHolds ==
  ASSUME Client!ConstAssumption PROVE Client!Spec => []OnlyCurrentOpen
<1>1. Client!Init => OnlyCurrentOpen
  BY DEF Client!Init, OnlyCurrentOpen, Client!OnlyCurrentOpen
<1>2. ClientInv /\ OnlyCurrentOpen /\ [Client!Next]_Client!vars
      => OnlyCurrentOpen'
  <2> SUFFICES ASSUME ClientInv, OnlyCurrentOpen,
                      [Client!Next]_Client!vars
               PROVE  OnlyCurrentOpen'
    OBVIOUS
  <2> USE DEF ClientInv, LoopTypeOK, Started, OnlyCurrentOpen, Client!OnlyCurrentOpen
  <2>1. CASE Client!Send \/ Client!Heartbeat \/ UNCHANGED Client!vars
    BY <2>1 DEF Client!Send, Client!Heartbeat
  <2>2. CASE Client!WriteMessage \/ Client!PingFails \/ Client!PumpEnds
    BY <2>2 DEF Client!WriteMessage, Client!PingFails, Client!PumpEnds
  <2>3. CASE \/ Client!LoopCheck \/ Client!DialFails \/ Client!Disconnect
             \/ Client!Backoff \/ Client!Install \/ Client!Announce
    BY <2>3 DEF Client!LoopCheck, Client!DialFails, Client!AfterDialError,
      Client!Disconnect, Client!Backoff, Client!Install, Client!Announce
  <2>4. CASE Client!DialSucceeds
    BY <2>4 DEF Client!DialSucceeds
  <2>5. CASE Client!PumpClose
    BY <2>5 DEF Client!PumpClose, Client!CloseOnExit, Client!Close
  <2>6. ASSUME NEW i \in Client!Conns, Client!Read(i) \/ Client!Break(i)
        PROVE  OnlyCurrentOpen'
    BY <2>6 DEF Client!Read, Client!ReadStart, Client!ReadMessage,
      Client!HandleMessage, Client!ReadFails, Client!ReadGone, Client!Break
  <2>7. CASE Client!Stop \/ Client!CancelContext
    BY <2>7 DEF Client!Stop, Client!CancelContext, Client!Close
  <2> QED
    BY <2>1, <2>2, <2>3, <2>4, <2>5, <2>6, <2>7 DEF Client!Next, Client!Loop
<1> QED
  BY <1>1, <1>2, ClientInvHolds, PTL DEF Client!Spec

-------------------------------------------------------------------------------
(* The scheduler, which ends on the daemon's context like the execution    *)
(* service.                                                                *)

CONSTANTS Ids, CronWorkflowOf, Api, Exprs, Valid, None, MaxEdits,
          MaxCronFaults, Triggers
VARIABLES cloud, edits, cronFaults, pc, started, left, got, entry, known,
          cronStopped, job, copy, cronLost, cronStatus, exec
Cron == INSTANCE Scheduler WITH
  WorkflowOf <- CronWorkflowOf, MaxFaults <- MaxCronFaults, Runs <- Triggers,
  faults <- cronFaults, stopped <- cronStopped, lost <- cronLost,
  status <- cronStatus

USE DEF Cron!vars, Cron!cloudVars, Cron!syncVars, Cron!cronVars, Cron!stopVars,
  Cron!runVars, Cron!ConstAssumption

\* Steps that are not part of applying what was fetched.
QuietCronStep ==
  \/ \E id \in Ids : Cron!Edit(id)
  \/ Cron!ListWorkflows \/ Cron!Tick
  \/ Cron!LoopExit \/ Cron!Stop \/ Cron!CancelContext
  \/ \E w \in Workflows : Cron!GetSchedules(w)
  \/ \E r \in Triggers : \/ \E id \in Ids : Cron!Fire(r, id)
                     \/ Cron!Trigger(r) \/ Cron!ExecutorTakes(r) \/ Cron!ExecutorRuns(r)

\* They leave the cron table alone.
LEMMA QuietCron == QuietCronStep => UNCHANGED Cron!cronVars
BY DEF QuietCronStep, Cron!Edit, Cron!ListWorkflows, Cron!Tick, Cron!LoopExit,
  Cron!Stop, Cron!CancelContext, Cron!GetSchedules, Cron!Fire, Cron!Trigger,
  Cron!CreateRun, Cron!ReportRunning, Cron!CallEndpoint, Cron!ReportVerdict,
  Cron!ExecutorTakes, Cron!ExecutorRuns

LEMMA CronStepKinds ==
  [Cron!Next]_Cron!vars => QuietCronStep \/ Cron!Apply \/ UNCHANGED Cron!vars
BY DEF Cron!Next, Cron!Sync, QuietCronStep

\* The types of what the synchronisation uses.
SyncTypeOK ==
  /\ cloud \in [Ids -> Exprs \cup {None}] /\ got \in [Ids -> Exprs \cup {None}]
  /\ entry \in [Ids -> Exprs \cup {None}] /\ known \in [Ids -> Exprs \cup {None}]

LEMMA SyncTypeStep == SyncTypeOK /\ [Cron!Next]_Cron!vars => SyncTypeOK'
<1> SUFFICES ASSUME SyncTypeOK, [Cron!Next]_Cron!vars PROVE SyncTypeOK'
  OBVIOUS
<1> USE DEF SyncTypeOK
<1>1. CASE QuietCronStep
  <2>1. ASSUME NEW id \in Ids, Cron!Edit(id) PROVE SyncTypeOK'
    BY <2>1 DEF Cron!Edit
  <2>2. ASSUME NEW w \in Workflows, Cron!GetSchedules(w) PROVE SyncTypeOK'
    BY <2>2 DEF Cron!GetSchedules
  <2>3. CASE Cron!ListWorkflows
    BY <2>3 DEF Cron!ListWorkflows
  <2>4. CASE Cron!Tick \/ Cron!LoopExit \/ Cron!Stop \/ Cron!CancelContext
    BY <2>4 DEF Cron!Tick, Cron!LoopExit, Cron!Stop, Cron!CancelContext
  <2>5. ASSUME NEW r \in Triggers,
               \/ \E id \in Ids : Cron!Fire(r, id)
               \/ Cron!Trigger(r) \/ Cron!ExecutorTakes(r) \/ Cron!ExecutorRuns(r)
        PROVE  SyncTypeOK'
    BY <2>5 DEF Cron!Fire, Cron!Trigger, Cron!CreateRun, Cron!ReportRunning,
      Cron!CallEndpoint, Cron!ReportVerdict, Cron!ExecutorTakes,
      Cron!ExecutorRuns
  <2> QED
    BY <1>1, <2>1, <2>2, <2>3, <2>4, <2>5 DEF QuietCronStep
<1>2. CASE Cron!Apply
  <2>1. \A id \in Ids : Cron!KnownLeft(id) \in Exprs \cup {None}
    BY DEF Cron!KnownLeft
  <2>2. entry' \in [Ids -> Exprs \cup {None}]
    BY <1>2 DEF Cron!Apply, Cron!EntryRemoved
  <2>3. known' \in [Ids -> Exprs \cup {None}]
    BY <1>2, <2>1 DEF Cron!Apply
  <2> QED
    BY <1>2, <2>2, <2>3 DEF Cron!Apply
<1>3. CASE UNCHANGED Cron!vars
  BY <1>3
<1> QED
  BY <1>1, <1>2, <1>3, CronStepKinds

\* Every entry in cron fires at the times of the schedule the scheduler knows,
\* whatever is disabled, enabled, updated or cannot be fetched.
THEOREM TableAgreesHolds == Cron!Spec => []Cron!TableAgrees
<1>1. Cron!Init => SyncTypeOK /\ Cron!TableAgrees
  BY DEF Cron!Init, SyncTypeOK, Cron!TableAgrees
<1>2. SyncTypeOK /\ Cron!TableAgrees /\ [Cron!Next]_Cron!vars => Cron!TableAgrees'
  <2> SUFFICES ASSUME SyncTypeOK, Cron!TableAgrees, [Cron!Next]_Cron!vars
               PROVE  Cron!TableAgrees'
    OBVIOUS
  <2>1. CASE QuietCronStep \/ UNCHANGED Cron!vars
    BY <2>1, QuietCron DEF Cron!TableAgrees
  <2>2. CASE Cron!Apply
    <3> SUFFICES ASSUME NEW id \in Ids, entry'[id] # None
                 PROVE  entry'[id] = known'[id] /\ entry'[id] \in Valid
      BY DEF Cron!TableAgrees
    <3>1. got[id] # None /\ got[id] \in Exprs
      BY <2>2 DEF Cron!Apply, Cron!EntryRemoved, SyncTypeOK
    <3>2. CASE Cron!Unchanged(id)
      <4>1. entry'[id] = entry[id] /\ known'[id] = got[id]
        BY <2>2, <3>1, <3>2 DEF Cron!Apply
      <4>2. got[id] = known[id]
        BY <3>1, <3>2 DEF Cron!Unchanged, Cron!KnownLeft
      <4> QED
        BY <3>1, <4>1, <4>2 DEF Cron!TableAgrees
    <3>3. CASE ~Cron!Unchanged(id)
      <4>1. got[id] \in Valid /\ entry'[id] = got[id]
        BY <2>2, <3>1, <3>3 DEF Cron!Apply
      <4>2. known'[id] = got[id]
        BY <2>2, <3>1, <4>1 DEF Cron!Apply
      <4> QED
        BY <3>1, <4>1, <4>2
    <3> QED
      BY <3>2, <3>3
  <2> QED
    BY <2>1, <2>2, CronStepKinds
<1> QED
  BY <1>1, <1>2, SyncTypeStep, PTL DEF Cron!Spec

-------------------------------------------------------------------------------
\* The types of the loop and of the triggers.
SyncLoopTypeOK ==
  /\ edits \in 0..MaxEdits /\ cronFaults \in 0..MaxCronFaults
  /\ pc \in {"list", "fetch", "idle", "exited"} /\ left \subseteq Workflows
Flags == started \in BOOLEAN /\ cronStopped \in BOOLEAN /\ ctxDone \in BOOLEAN
RunTypeOK ==
  /\ job \in [Triggers -> {"none", "create", "running", "call", "verdict", "done"}]
  /\ copy \in [Triggers -> [id : Ids, expr : Exprs] \cup {None}]
  /\ \A r \in Triggers : job[r] # "none" => copy[r] \in [id : Ids, expr : Exprs]
  /\ cronStatus
       \in [Triggers -> {"none", "pending", "running", "completed", "failed"}]
  /\ exec \in [Triggers -> {"none", "taken", "done"}]
  /\ cronLost \subseteq Triggers

LEMMA SyncLoopTypeStep ==
  ASSUME Cron!ConstAssumption, SyncLoopTypeOK, [Cron!Next]_Cron!vars
  PROVE  SyncLoopTypeOK'
BY DEF SyncLoopTypeOK, Cron!Next, Cron!Sync, Cron!Edit, Cron!ListWorkflows,
  Cron!Tick, Cron!LoopExit, Cron!Stop, Cron!CancelContext, Cron!Apply,
  Cron!GetSchedules, Cron!CallFails, Cron!CallSucceeds, Cron!Fire,
  Cron!Trigger, Cron!CreateRun, Cron!ReportRunning, Cron!CallEndpoint,
  Cron!ReportVerdict, Cron!Report, Cron!ExecutorTakes, Cron!ExecutorRuns

LEMMA FlagsStep == Flags /\ [Cron!Next]_Cron!vars => Flags'
BY Zenon DEF Flags, Cron!Next, Cron!Sync, Cron!Edit, Cron!ListWorkflows,
  Cron!Tick, Cron!LoopExit, Cron!Stop, Cron!CancelContext, Cron!Apply,
  Cron!GetSchedules, Cron!Fire, Cron!Trigger, Cron!CreateRun,
  Cron!ReportRunning, Cron!CallEndpoint, Cron!ReportVerdict,
  Cron!ExecutorTakes, Cron!ExecutorRuns

LEMMA RunTypeStep == SyncTypeOK /\ RunTypeOK /\ [Cron!Next]_Cron!vars => RunTypeOK'
<1> SUFFICES ASSUME SyncTypeOK, RunTypeOK, [Cron!Next]_Cron!vars PROVE RunTypeOK'
  OBVIOUS
<1> USE DEF RunTypeOK
<1>1. CASE UNCHANGED Cron!runVars
  BY <1>1
<1>2. ASSUME NEW r \in Triggers, NEW id \in Ids, Cron!Fire(r, id) PROVE RunTypeOK'
  <2>1. [id |-> id, expr |-> entry[id]] \in [id : Ids, expr : Exprs]
    BY <1>2 DEF Cron!Fire, SyncTypeOK
  <2> QED
    BY <1>2, <2>1 DEF Cron!Fire, Cron!Triggered
<1>3. ASSUME NEW r \in Triggers, Cron!CreateRun(r) PROVE RunTypeOK'
  BY <1>3 DEF Cron!CreateRun
<1>4. ASSUME NEW r \in Triggers, Cron!ReportRunning(r) \/ Cron!ReportVerdict(r)
      PROVE  RunTypeOK'
  BY <1>4 DEF Cron!ReportRunning, Cron!ReportVerdict, Cron!Report
<1>5. ASSUME NEW r \in Triggers, Cron!CallEndpoint(r) PROVE RunTypeOK'
  BY <1>5 DEF Cron!CallEndpoint, Cron!AfterCall
<1>6. ASSUME NEW r \in Triggers, Cron!ExecutorTakes(r) \/ Cron!ExecutorRuns(r)
      PROVE  RunTypeOK'
  BY <1>6 DEF Cron!ExecutorTakes, Cron!ExecutorRuns, Cron!Report
<1>7. \/ Cron!Sync \/ Cron!LoopExit \/ Cron!Stop \/ Cron!CancelContext
      \/ \E id \in Ids : Cron!Edit(id)
    => UNCHANGED Cron!runVars
  BY DEF Cron!Sync, Cron!ListWorkflows, Cron!Apply, Cron!Tick,
    Cron!GetSchedules, Cron!LoopExit, Cron!Stop, Cron!CancelContext, Cron!Edit
<1> QED
  BY <1>1, <1>2, <1>3, <1>4, <1>5, <1>6, <1>7 DEF Cron!Next, Cron!Trigger

\* Type correctness; a trigger always runs a copy of a real schedule.
THEOREM CronTypeCorrect ==
  ASSUME Cron!ConstAssumption PROVE Cron!Spec => []Cron!TypeOK
<1>1. Cron!Init => SyncTypeOK /\ SyncLoopTypeOK
  BY DEF Cron!Init, SyncTypeOK, SyncLoopTypeOK
<1>2. Cron!Init => Flags
  BY Zenon DEF Cron!Init, Flags
<1>3. Cron!Init => RunTypeOK
  BY DEF Cron!Init, RunTypeOK
<1>4. SyncTypeOK /\ SyncLoopTypeOK /\ Flags /\ RunTypeOK => Cron!TypeOK
  BY Zenon DEF SyncTypeOK, SyncLoopTypeOK, Flags, RunTypeOK, Cron!TypeOK
<1> QED
  BY <1>1, <1>2, <1>3, <1>4, SyncTypeStep, SyncLoopTypeStep, FlagsStep,
    RunTypeStep, PTL DEF Cron!Spec
===============================================================================
