-------------------------------- MODULE WsClient --------------------------------
(***************************************************************************)
(* The WebSocket client (internal/ws/client.go): one goroutine dials,      *)
(* runs the write pump and reconnects; a read pump per connection calls    *)
(* the handlers; any goroutine sends through a bounded channel; Stop may   *)
(* come at any moment.  Messages are numbered by the order of Send.        *)
(***************************************************************************)
EXTENDS Naturals, Sequences

CONSTANTS
  MaxConns,      \* bound on successful dials; the last connection holds
  MaxSends,      \* bound on messages
  Cap,           \* capacity of sendCh
  MaxReconnect   \* the cap of the reconnect delay

ASSUME ConstAssumption ==
  /\ MaxConns \in Nat \ {0} /\ MaxSends \in Nat
  /\ Cap \in Nat \ {0} /\ MaxReconnect \in Nat \ {0}

Conns == 1..MaxConns

VARIABLES
  loop,          \* where the goroutine of reconnectLoop and writePump is
  gen,           \* successful dials so far; the newest is connection gen
  conn,          \* Client.conn, 0 for nil
  net,           \* connection -> none, up, broken by the peer, closed here
  pump,          \* the read pump started for each connection
  pumpConn,      \* the connection it took from Client.conn
  connected,     \* the flag IsConnected returns
  delay,         \* seconds before the next dial
  queue,         \* sendCh
  sent,          \* calls of Send so far
  last,          \* the last message written to a connection
  closed,        \* Stop was called: Client.closed, and done is closed
  ctxDone

vars == <<loop, gen, conn, net, pump, pumpConn, connected, delay, queue, sent,
          last, closed, ctxDone>>
pumpVars == <<pump, pumpConn>>
msgVars  == <<queue, sent, last>>
stopVars == <<closed, ctxDone>>

Halted == closed \/ ctxDone
Close(c) == net' = [net EXCEPT ![c] = "closed"]

-------------------------------------------------------------------------------
(* Senders.                                                                *)

\* A full channel drops the message, the sender goes on.
Enqueue ==
  /\ sent < MaxSends
  /\ sent' = sent + 1
  /\ queue' = IF Len(queue) < Cap THEN Append(queue, sent') ELSE queue
  /\ UNCHANGED last

Send ==
  /\ Enqueue
  /\ UNCHANGED <<loop, gen, conn, net, pumpVars, connected, delay, stopVars>>

-------------------------------------------------------------------------------
(* reconnectLoop.                                                          *)

LoopCheck ==
  /\ loop = "check"
  /\ loop' = IF Halted THEN "exited" ELSE "dial"
  /\ UNCHANGED <<gen, conn, net, pumpVars, connected, delay, msgVars, stopVars>>

\* After a failed dial the loop waits.
AfterDialErrorReturn == "exited"               \* faulty: gives up
AfterDialError == "backoff"
DialFails ==
  /\ loop = "dial"
  /\ loop' = AfterDialError
  /\ UNCHANGED <<gen, conn, net, pumpVars, connected, delay, msgVars, stopVars>>

\* The handshake succeeds; the connection is not in Client.conn yet.
DialSucceeds ==
  /\ loop = "dial" /\ gen < MaxConns
  /\ gen' = gen + 1
  /\ net' = [net EXCEPT ![gen'] = "up"]
  /\ loop' = "install"
  /\ UNCHANGED <<conn, pumpVars, connected, delay, msgVars, stopVars>>

\* connect stores the connection, whether or not Stop came meanwhile.
Install ==
  /\ loop = "install"
  /\ conn' = gen /\ delay' = 1
  /\ loop' = "announce"
  /\ UNCHANGED <<gen, net, pumpVars, connected, msgVars, stopVars>>

\* setConnected(true), and the read pump is started.
Announce ==
  /\ loop = "announce"
  /\ connected' = TRUE
  /\ pump' = [pump EXCEPT ![gen] = "start"]
  /\ loop' = "pump"
  /\ UNCHANGED <<gen, conn, net, pumpConn, delay, msgVars, stopVars>>

\* The timer of the delay, which then doubles up to the cap; or the end.
NextDelay(d) == IF 2 * d > MaxReconnect THEN MaxReconnect ELSE 2 * d
Backoff ==
  /\ loop = "backoff"
  /\ \/ /\ loop' = "check"
        /\ delay' = NextDelay(delay)
     \/ /\ Halted
        /\ loop' = "exited" /\ UNCHANGED delay
  /\ UNCHANGED <<gen, conn, net, pumpVars, connected, msgVars, stopVars>>

-------------------------------------------------------------------------------
(* writePump, run by the same goroutine.                                   *)

\* What a write error does to the message taken from the channel.
RequeueLost == queue' = Append(Tail(queue), Head(queue))   \* faulty: sent again
DropLost == queue' = Tail(queue)

WriteMessage ==
  /\ loop = "pump" /\ queue # <<>>
  /\ \/ /\ net[conn] = "up"
        /\ queue' = Tail(queue) /\ last' = Head(queue)
        /\ UNCHANGED loop
     \/ /\ net[conn] # "up"
        /\ DropLost /\ UNCHANGED last
        /\ loop' = "close"
  /\ UNCHANGED <<gen, conn, net, pumpVars, connected, delay, sent, stopVars>>

\* The heartbeat (and the system report after it, if any) goes through the same
\* channel, without blocking on it.
Heartbeat ==
  /\ loop = "pump"
  /\ Enqueue
  /\ UNCHANGED <<loop, gen, conn, net, pumpVars, connected, delay, stopVars>>

PingFails ==
  /\ loop = "pump" /\ net[conn] # "up"
  /\ loop' = "close"
  /\ UNCHANGED <<gen, conn, net, pumpVars, connected, delay, msgVars, stopVars>>

\* readDone, ctx or done end the pump.
PumpEnds ==
  /\ loop = "pump"
  /\ pump[gen] = "done" \/ Halted
  /\ loop' = "close"
  /\ UNCHANGED <<gen, conn, net, pumpVars, connected, delay, msgVars, stopVars>>

\* The deferred function closes Client.conn.
LeaveOpen(c) == UNCHANGED net                  \* faulty: no deferred close
CloseOnExit(c) == Close(c)
PumpClose ==
  /\ loop = "close"
  /\ CloseOnExit(conn)
  /\ loop' = "leave"
  /\ UNCHANGED <<gen, conn, pumpVars, connected, delay, msgVars, stopVars>>

\* setConnected(false), without waiting for the read pump.
Disconnect ==
  /\ loop = "leave"
  /\ connected' = FALSE
  /\ loop' = "check"
  /\ UNCHANGED <<gen, conn, net, pumpVars, delay, msgVars, stopVars>>

Loop == LoopCheck \/ DialFails \/ DialSucceeds \/ Install \/ Announce \/ Backoff
        \/ PumpClose \/ Disconnect

-------------------------------------------------------------------------------
(* readPump, one goroutine for each connection.                            *)

\* It reads Client.conn when it is scheduled, not when it was started.
ReadStart(i) ==
  /\ pump[i] = "start"
  /\ pump' = [pump EXCEPT ![i] = "read"]
  /\ pumpConn' = [pumpConn EXCEPT ![i] = conn]
  /\ UNCHANGED <<loop, gen, conn, net, connected, delay, msgVars, stopVars>>

\* A message is read and handed to its handler, which may take any time.
ReadMessage(i) ==
  /\ pump[i] = "read" /\ net[pumpConn[i]] = "up"
  /\ pump' = [pump EXCEPT ![i] = "handle"]
  /\ UNCHANGED <<loop, gen, conn, net, pumpConn, connected, delay, msgVars,
                 stopVars>>

HandleMessage(i) ==
  /\ pump[i] = "handle"
  /\ pump' = [pump EXCEPT ![i] = "read"]
  /\ UNCHANGED <<loop, gen, conn, net, pumpConn, connected, delay, msgVars,
                 stopVars>>

\* The connection is gone, or the read deadline of 90 s expired.
ReadFails(i) ==
  /\ pump[i] = "read"
  /\ net[pumpConn[i]] # "up" \/ pumpConn[i] < MaxConns
  /\ pump' = [pump EXCEPT ![i] = "done"]
  /\ UNCHANGED <<loop, gen, conn, net, pumpConn, connected, delay, msgVars,
                 stopVars>>

\* A closed or broken connection fails the next read.
ReadGone(i) == pump[i] = "read" /\ net[pumpConn[i]] # "up" /\ ReadFails(i)

Read(i) == ReadStart(i) \/ ReadMessage(i) \/ HandleMessage(i) \/ ReadFails(i)

-------------------------------------------------------------------------------
(* The network and the end.                                                *)

Break(c) ==
  /\ net[c] = "up" /\ c < MaxConns
  /\ net' = [net EXCEPT ![c] = "broken"]
  /\ UNCHANGED <<loop, gen, conn, pumpVars, connected, delay, msgVars, stopVars>>

Stop ==
  /\ ~closed
  /\ closed' = TRUE
  /\ IF conn # 0 THEN Close(conn) ELSE UNCHANGED net
  /\ UNCHANGED <<loop, gen, conn, pumpVars, connected, delay, msgVars, ctxDone>>

CancelContext ==
  /\ ~ctxDone
  /\ ctxDone' = TRUE
  /\ UNCHANGED <<loop, gen, conn, net, pumpVars, connected, delay, msgVars,
                 closed>>

-------------------------------------------------------------------------------
Init ==
  /\ loop = "check" /\ gen = 0 /\ conn = 0
  /\ net = [c \in Conns |-> "none"]
  /\ pump = [c \in Conns |-> "none"] /\ pumpConn = [c \in Conns |-> 0]
  /\ connected = FALSE /\ delay = 1
  /\ queue = <<>> /\ sent = 0 /\ last = 0
  /\ closed = FALSE /\ ctxDone = FALSE

Next ==
  \/ Send
  \/ Loop
  \/ WriteMessage \/ Heartbeat \/ PingFails \/ PumpEnds
  \/ \E i \in Conns : Read(i) \/ Break(i)
  \/ Stop \/ CancelContext

Spec == Init /\ [][Next]_vars

\* Every goroutine is scheduled fairly and a select takes each case that stays
\* ready; handlers return; dials do not fail for ever.  Nobody has to send,
\* and the network does not have to break.
Fairness ==
  /\ WF_vars(Loop) /\ SF_vars(DialSucceeds)
  /\ WF_vars(WriteMessage) /\ WF_vars(PumpEnds)
  /\ \A i \in Conns : /\ WF_vars(ReadStart(i)) /\ WF_vars(HandleMessage(i))
                      /\ SF_vars(ReadGone(i))

FairSpec == Spec /\ Fairness

-------------------------------------------------------------------------------
(* Properties.                                                             *)

TypeOK ==
  /\ loop \in {"check", "dial", "backoff", "install", "announce", "pump",
               "close", "leave", "exited"}
  /\ gen \in 0..MaxConns /\ conn \in 0..gen
  /\ (loop \in {"announce", "pump", "close", "leave"}) => conn = gen /\ gen # 0
  /\ loop = "install" => gen # 0
  /\ net \in [Conns -> {"none", "up", "broken", "closed"}]
  /\ pump \in [Conns -> {"none", "start", "read", "handle", "done"}]
  /\ pumpConn \in [Conns -> 0..MaxConns]
  /\ \A i \in Conns : pump[i] \in {"read", "handle"} => pumpConn[i] \in 1..conn
  /\ connected \in BOOLEAN /\ closed \in BOOLEAN /\ ctxDone \in BOOLEAN
  /\ delay \in 1..MaxReconnect
  /\ queue \in Seq(1..MaxSends) /\ Len(queue) <= Cap
  /\ sent \in 0..MaxSends /\ last \in 0..MaxSends

\* No connection leaks: one that is not closed here is the one the loop is
\* using or about to use, however Stop, dials and pump exits interleave.
OnlyCurrentOpen ==
  \A c \in Conns : net[c] \in {"up", "broken"} =>
    c = gen /\ loop \in {"install", "announce", "pump", "close"}

\* Send is a lossy FIFO queue across reconnections: in order, at most once.
Fifo == INSTANCE LossyFifo WITH sent <- sent, last <- last
SendsInOrder == Fifo!Spec

\* Once the client is stopped (or its context is done), even in the middle of a
\* dial, the loop and the read pumps end, every connection is closed, the
\* client says it is not connected, and it stays so.
StopsClean ==
  Halted ~> [](/\ loop = "exited" /\ ~connected
               /\ \A c \in Conns : /\ net[c] \in {"none", "closed"}
                                   /\ pump[c] \in {"none", "done"})

\* While the client runs, a message in the channel does not wait for ever.
QueueDrains ==
  \A m \in 1..MaxSends :
    (queue # <<>> /\ Head(queue) = m) ~> (queue = <<>> \/ Head(queue) # m \/ Halted)
===============================================================================
