------------------------------- MODULE MCSshProxy -------------------------------
(* The SSH proxy: its table of sessions, and the streams of one session.  They *)
(* share no state of the model, so a behaviour is about one of them, and the   *)
(* other stays as it was at the start.                                         *)
EXTENDS SshProxy, Sequences

CONSTANTS
  Streams, Stdout, MaxOutputRate, MaxRead, Buffer, MaxNow, MaxBytes, MaxWrites

\* A local shell has one output, an SSH session has two.
ASSUME StreamAssumption ==
  /\ MaxOutputRate \in Nat /\ MaxRead \in Nat
  /\ \E other \in Streams : Streams = {Stdout, other}

VARIABLES
  part,                                        \* which of them acts
  now, owner, closed, told, used, window, reader, read, delivered, writer,
  written, input, received, closer

Stream == INSTANCE SshStream WITH taken <- received

streamVars == <<now, owner, closed, told, used, window, reader, read, delivered,
                writer, written, input, received, closer>>

AllInit == part \in {"table", "stream"} /\ Init /\ Stream!StreamInit
AllNext ==
  /\ UNCHANGED part
  /\ \/ part = "table" /\ Next /\ UNCHANGED streamVars
     \/ part = "stream" /\ Stream!StreamNext /\ UNCHANGED vars

\* The table has nothing to do while it is empty, so its fairness asks nothing
\* of a behaviour of the stream, and conversely.
AllSpec == AllInit /\ [][AllNext]_<<part, vars, streamVars>>
           /\ Fairness /\ Stream!StreamFairness

\* The properties of the stream, by their names: what it keeps within its limits,
\* and that closing it ends.
StreamLimits == Stream!StreamLimits
CloseEnds == Stream!CloseEnds
===============================================================================
