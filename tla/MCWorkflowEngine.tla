---------------------------- MODULE MCWorkflowEngine ----------------------------
(* Instances of WorkflowEngine: small graphs around one group node g. *)
EXTENDS WorkflowEngine

CONSTANTS g, x, y, r1, r2

Kinded(group, kx, ky) == [n \in Nodes |-> CASE n = g -> group [] n = x -> kx [] n = y -> ky]
KindsOf(groups) ==
  {Kinded(k, "step", "step") : k \in groups} \cup {Kinded(k, "step", "end") : k \in groups}
  \cup {Kinded(k, "start", "other") : k \in groups}
  \cup {Kinded(k, "start", "start") : k \in groups}

NotWithin == [n \in Nodes |-> None]
Unmarked == [n \in Nodes |-> "unmarked"]

\* Every choice of edges between different nodes, and from x to itself.
Edges == SUBSET ({e \in Nodes \X Nodes : e[1] # e[2]} \cup {<<x, x>>})

Conditions ==
  [edges : Edges, kind : KindsOf({"condition"}), within : {NotWithin},
   branch : {[Unmarked EXCEPT ![x] = a, ![y] = b] :
               a \in {"true", "false"}, b \in {"false", "unmarked"}}]
Others ==
  [edges : Edges, kind : KindsOf({"loop", "parallel", "router"}),
   within : {[NotWithin EXCEPT ![x] = a] : a \in {None, g}}, branch : {Unmarked}]
AllGraphs == Conditions \cup Others

\* Two workflows that differ in their edges.
Steps(edges) == [edges |-> edges, kind |-> Kinded("step", "step", "end"),
                 within |-> NotWithin, branch |-> Unmarked]
TwoWorkflows == {Steps({<<g, x>>, <<x, y>>}), Steps({<<x, g>>, <<g, y>>})}
===============================================================================
