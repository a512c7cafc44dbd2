----------------------------- MODULE MCExecService -----------------------------
(* Instances of ExecService: two runs of one workflow, one of which executes the
   workflow when it is polled, while the other calls an agent or is of a type that
   is not executed. *)
EXTENDS ExecService, TLC

CONSTANTS r1, r2, w1

OneWorkflow   == [r \in Runs |-> w1]
WorkflowAgent == [r \in Runs |-> IF r = r1 THEN "workflow" ELSE "agent"]
WorkflowOther == [r \in Runs |-> IF r = r1 THEN "workflow" ELSE "other"]

Slots == Permutations(Execs)
===============================================================================
