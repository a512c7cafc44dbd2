------------------------------ MODULE MCScheduler ------------------------------
(* Instances of Scheduler: each schedule in a workflow of its own, or all in
   one. *)
EXTENDS Scheduler

CONSTANT w1

SameWorkflow == [id \in Ids |-> w1]
OwnWorkflow  == [id \in Ids |-> id]
===============================================================================
