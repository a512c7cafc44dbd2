------------------------------- MODULE LossyFifo -------------------------------
(***************************************************************************)
(* What ws.Client.Send promises: messages reach the wire in the order in   *)
(* which they were sent, each at most once, and any of them may be lost.   *)
(* Messages are numbered in the order of the calls of Send.                *)
(***************************************************************************)
EXTENDS Naturals

VARIABLES
  sent,     \* number of messages sent so far
  last      \* number of the last message written to a connection, or 0

Init == sent = 0 /\ last = 0

Send == sent' = sent + 1 /\ UNCHANGED last

Deliver == \E m \in (last + 1)..sent : last' = m /\ UNCHANGED sent

Next == Send \/ Deliver

Spec == Init /\ [][Next]_<<sent, last>>
===============================================================================
