--------------------------------- MODULE MCDaemon ---------------------------------
(* What runs in the background of the daemon: the instance of ExecService for one *)
(* source of runs and, beside it, the WebSocket client.  They share no state of   *)
(* the model, so a behaviour is about one of them, and the other stays as it was  *)
(* at the start.                                                                  *)
EXTENDS MCExecService, Sequences

CONSTANTS MaxConns, MaxSends, Cap, MaxReconnect

VARIABLES
  part,                                        \* which of them acts
  loop, gen, conn, net, pump, pumpConn, connected, delay, queue, sent, last, closed,
  clientDone

Client == INSTANCE WsClient WITH ctxDone <- clientDone

clientVars == <<loop, gen, conn, net, pump, pumpConn, connected, delay, queue, sent,
                last, closed, clientDone>>

AllInit == part \in {"exec", "client"} /\ Init /\ Client!Init
AllNext ==
  /\ UNCHANGED part
  /\ \/ part = "exec" /\ Next /\ UNCHANGED clientVars
     \/ part = "client" /\ Client!Next /\ UNCHANGED vars

AllSpec == AllInit /\ [][AllNext]_<<part, vars, clientVars>>

\* No connection leaks, however Stop, dials and the ends of pumps interleave.
OnlyCurrentOpen == Client!OnlyCurrentOpen
\* Send is a lossy FIFO queue across reconnections.
SendsInOrder == Client!SendsInOrder
===================================================================================
