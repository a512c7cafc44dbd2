------------------------------ MODULE WorkflowEngine ------------------------------
(***************************************************************************)
(* The workflow engine (internal/engine): a run sorts its graph and        *)
(* executes the nodes in that order; a group node (condition, loop,        *)
(* parallel, router) executes other nodes when its turn comes.  All runs   *)
(* share one step executor and the skills it has loaded.  Outputs are left *)
(* out; conditions, loop counts and routes are free choices.               *)
(***************************************************************************)
EXTENDS Naturals, FiniteSets, Sequences

CONSTANTS
  Runs, Nodes,
  Workflows,     \* the graphs: [edges, kind, within, branch]
  None,
  MaxLoop        \* bound on the iterations of a loop

Kinds == {"start", "end", "step", "other", "condition", "loop", "parallel", "router"}
Groups == {"condition", "loop", "parallel", "router"}
Graph == [edges : SUBSET (Nodes \X Nodes), kind : [Nodes -> Kinds],
          within : [Nodes -> Nodes \cup {None}],      \* ParentID
          branch : [Nodes -> {"true", "false", "unmarked"}]]

ASSUME ConstAssumption ==
  /\ Workflows \subseteq Graph /\ IsFiniteSet(Nodes)
  /\ None \notin Nodes \cup Workflows /\ MaxLoop \in Nat

VARIABLES
  wf,            \* run -> its workflow
  loaded,        \* the workflow whose skills the step executor has
  pc,            \* run -> where Execute is
  inDegree, ready, sorted,   \* TopologicalSort of the run
  pos,           \* run -> place in sorted of the node whose turn it is
  todo, rounds,  \* its group node: nodes still to start, iterations left
  active,        \* run -> nodes that a step is executing
  cancelled,     \* runs whose context is done
  result,        \* run -> none, completed, failed
  ran,           \* run -> nodes executed so far, whoever asked (history)
  failed         \* run -> nodes a step of which failed (history)

vars == <<wf, loaded, pc, inDegree, ready, sorted, pos, todo, rounds, active,
          cancelled, result, ran, failed>>
sortVars  == <<inDegree, ready, sorted>>
groupVars == <<todo, rounds>>
stepVars  == <<active, ran, failed>>

Kind(r, n) == wf[r].kind[n]
Parents(r, n) == {p \in Nodes : <<p, n>> \in wf[r].edges}
Children(r, n) == {c \in Nodes : <<n, c>> \in wf[r].edges}
Turn(r) == sorted[r][pos[r]]
Visited(r) == {sorted[r][i] : i \in 1..(pos[r] - 1)}
InSorted(r) == {sorted[r][i] : i \in 1..Len(sorted[r])}

\* Execute returns.
End(r, res) == /\ pc' = [pc EXCEPT ![r] = "done"]
               /\ result' = [result EXCEPT ![r] = res]

-------------------------------------------------------------------------------
(* Loading, ParseDAG and TopologicalSort.                                  *)

LoadSkillsAndAgents(r) == loaded' = wf[r]
Load(r) ==
  /\ pc[r] = "load"
  /\ pc' = [pc EXCEPT ![r] = "parse"]
  /\ LoadSkillsAndAgents(r)
  /\ UNCHANGED <<wf, sortVars, pos, groupVars, stepVars, cancelled, result>>

Of(r, kind) == {n \in Nodes : Kind(r, n) = kind}
Malformed(r) ==
  \/ Cardinality(Of(r, "start")) > 1 \/ Cardinality(Of(r, "end")) > 1
  \/ Of(r, "start") = {} /\ \A n \in Nodes : Parents(r, n) # {}

Parse(r) ==
  /\ pc[r] = "parse"
  /\ IF Malformed(r)
     THEN End(r, "failed") /\ UNCHANGED sortVars
     ELSE /\ pc' = [pc EXCEPT ![r] = "sort"]
          /\ inDegree' = [inDegree EXCEPT ![r] =
                            [n \in Nodes |-> Cardinality(Parents(r, n))]]
          /\ ready' = [ready EXCEPT ![r] = {n \in Nodes : Parents(r, n) = {}}]
          /\ UNCHANGED <<sorted, result>>
  /\ UNCHANGED <<wf, loaded, pos, groupVars, stepVars, cancelled>>

\* The order in which the queue is filled depends on map iteration: any node of
\* the queue may be its head.
FreedEarly(deg, c) == deg[c] = 1               \* faulty: one parent too early
Freed(deg, c) == deg[c] = 0
SortStep(r) ==
  /\ pc[r] = "sort"
  /\ \E n \in ready[r] :
       LET deg == [c \in Nodes |-> IF c \in Children(r, n) THEN inDegree[r][c] - 1
                                                           ELSE inDegree[r][c]]
       IN /\ inDegree' = [inDegree EXCEPT ![r] = deg]
          /\ ready' = [ready EXCEPT ![r] =
               (@ \ {n}) \cup {c \in Children(r, n) : Freed(deg, c)}]
          /\ sorted' = [sorted EXCEPT ![r] = Append(@, n)]
  /\ UNCHANGED <<wf, loaded, pc, pos, groupVars, stepVars, cancelled, result>>

Incomplete(r) == Len(sorted[r]) # Cardinality(Nodes)
SortEnd(r) ==
  /\ pc[r] = "sort" /\ ready[r] = {}
  /\ IF Incomplete(r)
     THEN End(r, "failed") /\ UNCHANGED pos
     ELSE /\ pc' = [pc EXCEPT ![r] = "loop"]
          /\ pos' = [pos EXCEPT ![r] = 1]
          /\ UNCHANGED result
  /\ UNCHANGED <<wf, loaded, sortVars, groupVars, stepVars, cancelled>>

-------------------------------------------------------------------------------
(* Steps.                                                                  *)

\* A node that is not a step passes through; a step fails if its skill is not
\* among those loaded, or as it runs.
MayFail(r, n) == Kind(r, n) = "step"
SkillFound(r, n) == Kind(r, n) = "step" => loaded = wf[r]

\* The step is reported, its skill is looked up: failed at once, or under way.
StepStarts(r, n) ==
  /\ ran' = [ran EXCEPT ![r] = @ \cup {n}]
  /\ IF SkillFound(r, n)
     THEN active' = [active EXCEPT ![r] = @ \cup {n}] /\ UNCHANGED failed
     ELSE failed' = [failed EXCEPT ![r] = @ \cup {n}] /\ UNCHANGED active

-------------------------------------------------------------------------------
(* The loop over the sorted nodes.                                         *)

Skipped(r, n) == Kind(r, n) \in {"start", "end"}

\* The loop ends, or is cut short by cancellation.
LoopEnds(r) ==
  /\ pc[r] = "loop"
  /\ \/ pos[r] > Len(sorted[r]) /\ End(r, "completed")
     \/ pos[r] <= Len(sorted[r]) /\ r \in cancelled /\ End(r, "failed")
  /\ UNCHANGED <<wf, loaded, sortVars, pos, groupVars, stepVars, cancelled>>

AtNode(r) == pc[r] = "loop" /\ pos[r] <= Len(sorted[r]) /\ r \notin cancelled

Skip(r) ==
  /\ AtNode(r) /\ Skipped(r, Turn(r))
  /\ pos' = [pos EXCEPT ![r] = @ + 1]
  /\ UNCHANGED <<wf, loaded, pc, sortVars, groupVars, stepVars, cancelled, result>>

\* A node that is neither start, end nor group is a step of its own: one node to
\* execute, whatever becomes of the context.
Single(r) ==
  /\ AtNode(r) /\ ~Skipped(r, Turn(r)) /\ Kind(r, Turn(r)) \notin Groups
  /\ pc' = [pc EXCEPT ![r] = "one"]
  /\ todo' = [todo EXCEPT ![r] = {Turn(r)}] /\ rounds' = [rounds EXCEPT ![r] = 1]
  /\ UNCHANGED <<wf, loaded, sortVars, pos, stepVars, cancelled, result>>

\* getChildNodes, or the direct children if no node names the group as parent.
Kids(r, g) ==
  LET inside == {c \in Nodes : wf[r].within[c] = g}
  IN {c \in IF inside = {} THEN Children(r, g) ELSE inside : ~Skipped(r, c)}

OnBranch(r, g, label) ==
  {c \in Children(r, g) : \/ wf[r].branch[c] = label
                          \/ wf[r].branch[c] = "unmarked" /\ label = "true"}

Condition(r) ==
  /\ AtNode(r) /\ Kind(r, Turn(r)) = "condition"
  /\ \E label \in {"true", "false"} :
       /\ todo' = [todo EXCEPT ![r] =
                     {c \in OnBranch(r, Turn(r), label) : ~Skipped(r, c)}]
  /\ pc' = [pc EXCEPT ![r] = "seq"] /\ rounds' = [rounds EXCEPT ![r] = 1]
  /\ UNCHANGED <<wf, loaded, sortVars, pos, stepVars, cancelled, result>>

\* loop_count, loop_field or for_each: some number of rounds.
Loop(r) ==
  /\ AtNode(r) /\ Kind(r, Turn(r)) = "loop"
  /\ \E k \in 0..MaxLoop :
       /\ rounds' = [rounds EXCEPT ![r] = k]
       /\ todo' = [todo EXCEPT ![r] = IF k = 0 THEN {} ELSE Kids(r, Turn(r))]
  /\ pc' = [pc EXCEPT ![r] = "rounds"]
  /\ UNCHANGED <<wf, loaded, sortVars, pos, stepVars, cancelled, result>>

Parallel(r) ==
  /\ AtNode(r) /\ Kind(r, Turn(r)) = "parallel"
  /\ pc' = [pc EXCEPT ![r] = "par"]
  /\ todo' = [todo EXCEPT ![r] = Kids(r, Turn(r))]
  /\ rounds' = [rounds EXCEPT ![r] = 1]
  /\ UNCHANGED <<wf, loaded, sortVars, pos, stepVars, cancelled, result>>

\* Without routes all children; else the target of a route or the default, which
\* may be any node or unknown, or none.
Router(r) ==
  /\ AtNode(r) /\ Kind(r, Turn(r)) = "router"
  /\ \/ /\ todo' = [todo EXCEPT ![r] = Kids(r, Turn(r))]
        /\ pc' = [pc EXCEPT ![r] = "seq"] /\ rounds' = [rounds EXCEPT ![r] = 1]
        /\ UNCHANGED result
     \/ /\ \E target \in SUBSET Nodes :
             Cardinality(target) <= 1 /\ todo' = [todo EXCEPT ![r] = target]
        /\ pc' = [pc EXCEPT ![r] = "one"] /\ rounds' = [rounds EXCEPT ![r] = 1]
        /\ UNCHANGED result
     \/ End(r, "failed") /\ UNCHANGED groupVars
  /\ UNCHANGED <<wf, loaded, sortVars, pos, stepVars, cancelled>>

-------------------------------------------------------------------------------
(* Executing the nodes of a turn: one after the other, or in parallel.     *)

\* A sequence stops at the first failure; parallel steps all start.
InTurn(r) == pc[r] \in {"one", "seq", "rounds", "par"}
Halted(r) == pc[r] # "par" /\ (active[r] # {} \/ failed[r] # {})

StartChild(r, n) ==
  /\ InTurn(r) /\ n \in todo[r] /\ ~Halted(r)
  /\ todo' = [todo EXCEPT ![r] = @ \ {n}]
  /\ StepStarts(r, n)
  /\ UNCHANGED <<wf, loaded, pc, sortVars, pos, rounds, cancelled, result>>

EndChild(r, n) ==
  /\ n \in active[r]
  /\ active' = [active EXCEPT ![r] = @ \ {n}]
  /\ \/ UNCHANGED failed
     \/ MayFail(r, n) /\ failed' = [failed EXCEPT ![r] = @ \cup {n}]
  /\ UNCHANGED <<wf, loaded, pc, sortVars, pos, groupVars, cancelled, result, ran>>

\* A cancelled run stops before a child of a condition or of a router without
\* routes, or before a round of a loop.
CutShort(r) ==
  /\ r \in cancelled /\ active[r] = {} /\ failed[r] = {}
  /\ \/ pc[r] = "seq" /\ todo[r] # {}
     \/ pc[r] = "rounds" /\ rounds[r] > 0 /\ todo[r] = Kids(r, Turn(r))
  /\ End(r, "failed")
  /\ UNCHANGED <<wf, loaded, sortVars, pos, groupVars, stepVars, cancelled>>

\* The turn ends when no step is left: with a failure the run ends, after the
\* last round the loop goes on.
Waited(r) == active[r] = {}
FailedIgnored(r) == pc[r] # "par" /\ failed[r] # {}    \* faulty: no status is read
Failed(r) == failed[r] # {}
RoundsStay(k) == k                             \* faulty: i is not advanced
RoundsLeft(k) == k - 1
TurnEnds(r) ==
  /\ InTurn(r) /\ Waited(r)
  /\ \/ /\ Failed(r) /\ (pc[r] # "par" \/ todo[r] = {})
        /\ End(r, "failed") /\ UNCHANGED <<groupVars, pos>>
     \/ /\ ~Failed(r) /\ todo[r] = {} /\ rounds[r] > 1
        /\ todo' = [todo EXCEPT ![r] = Kids(r, Turn(r))]
        /\ rounds' = [rounds EXCEPT ![r] = RoundsLeft(@)]
        /\ UNCHANGED <<pc, pos, result>>
     \/ /\ ~Failed(r) /\ todo[r] = {} /\ rounds[r] <= 1
        /\ pc' = [pc EXCEPT ![r] = "loop"] /\ pos' = [pos EXCEPT ![r] = @ + 1]
        /\ UNCHANGED <<groupVars, result>>
  /\ UNCHANGED <<wf, loaded, sortVars, stepVars, cancelled>>

-------------------------------------------------------------------------------
Cancel(r) ==
  /\ r \notin cancelled
  /\ cancelled' = cancelled \cup {r}
  /\ UNCHANGED <<wf, loaded, pc, sortVars, pos, groupVars, stepVars, result>>

Init ==
  /\ wf \in [Runs -> Workflows] /\ loaded = None
  /\ pc = [r \in Runs |-> "load"]
  /\ inDegree = [r \in Runs |-> [n \in Nodes |-> 0]]
  /\ ready = [r \in Runs |-> {}] /\ sorted = [r \in Runs |-> <<>>]
  /\ pos = [r \in Runs |-> 0]
  /\ todo = [r \in Runs |-> {}] /\ rounds = [r \in Runs |-> 0]
  /\ active = [r \in Runs |-> {}] /\ cancelled = {}
  /\ result = [r \in Runs |-> "none"]
  /\ ran = [r \in Runs |-> {}] /\ failed = [r \in Runs |-> {}]

Prepare(r) == Load(r) \/ Parse(r) \/ SortStep(r) \/ SortEnd(r)
Visit(r) == LoopEnds(r) \/ Skip(r) \/ Single(r) \/ Condition(r) \/ Loop(r)
            \/ Parallel(r) \/ Router(r)
Child(r) == \/ \E n \in Nodes : StartChild(r, n) \/ EndChild(r, n)
            \/ CutShort(r) \/ TurnEnds(r)
Step(r) == Prepare(r) \/ Visit(r) \/ Child(r)

Next == \E r \in Runs : Step(r) \/ Cancel(r)

Spec == Init /\ [][Next]_vars

\* The goroutine of a run is scheduled, and steps return.
FairSpec == Spec /\ \A r \in Runs : WF_vars(Step(r))

-------------------------------------------------------------------------------
(* Properties.                                                             *)

TypeOK ==
  /\ wf \in [Runs -> Workflows] /\ loaded \in Workflows \cup {None}
  /\ pc \in [Runs -> {"load", "parse", "sort", "loop", "one", "seq", "rounds", "par", "done"}]
  /\ inDegree \in [Runs -> [Nodes -> Nat]]
  /\ ready \in [Runs -> SUBSET Nodes] /\ sorted \in [Runs -> Seq(Nodes)]
  /\ pos \in [Runs -> Nat]
  /\ \A r \in Runs : InTurn(r) => pos[r] \in 1..Len(sorted[r])
  /\ todo \in [Runs -> SUBSET Nodes] /\ rounds \in [Runs -> 0..MaxLoop + 1]
  /\ active \in [Runs -> SUBSET Nodes] /\ cancelled \subseteq Runs
  /\ result \in [Runs -> {"none", "completed", "failed"}]
  /\ ran \in [Runs -> SUBSET Nodes] /\ failed \in [Runs -> SUBSET Nodes]

\* When a node's turn comes, all its parents had theirs: their outputs are there.
ParentsFirst ==
  \A r \in Runs : InTurn(r) =>
    Turn(r) \notin Visited(r) /\ Parents(r, Turn(r)) \subseteq Visited(r)

\* The reference: a graph is cyclic if some nodes all have a parent among them.
Cyclic(r) ==
  \E S \in (SUBSET Nodes) \ {{}} : \A n \in S : Parents(r, n) \cap S # {}

\* A cyclic workflow executes nothing and fails; any other that is well formed is
\* sorted completely.
CyclicRunsNothing ==
  \A r \in Runs :
    /\ Cyclic(r) => ran[r] = {} /\ result[r] # "completed"
    /\ pc[r] = "sort" /\ ready[r] = {} /\ ~Cyclic(r) => InSorted(r) = Nodes

\* A run completes only if every step it executed succeeded, in whatever group,
\* and then every node that does something was executed.
CompletedMeans ==
  \A r \in Runs : result[r] = "completed" =>
    /\ failed[r] = {}
    /\ \A n \in Nodes : Kind(r, n) \in {"step", "other"} => n \in ran[r]

\* No step of a run is under way when its turn is over or the run has ended:
\* nothing writes to the outputs behind the back of the next node.
NoStraySteps ==
  \A r \in Runs : pc[r] \in {"loop", "done"} => active[r] = {}

\* Execute ends, whatever the graph, the groups and the failures.
RunEnds == \A r \in Runs : <>(pc[r] = "done")

\* "skill %d not found in workflow detail": a step does not fail for that reason,
\* that is before it is under way; the model's workflows have all their skills.
SkillsFound == [][\A r \in Runs : failed'[r] \ failed[r] \subseteq active[r]]_vars
===============================================================================
