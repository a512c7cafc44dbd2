-------------------------------- MODULE AgentProxy --------------------------------
(***************************************************************************)
(* Claude CLI agents (internal/agentproxy) with the trace collector they   *)
(* report to (internal/tracing) and the daemon's shutdown.                 *)
(*                                                                         *)
(* Every agent:start message is a start, numbered as it arrives; its       *)
(* session id is the cloud's choice and may be one used before.  What the  *)
(* router sends goes to the queue of WsClient and is not kept here, nor    *)
(* what an agent leaves in the context of its parent session.              *)
(***************************************************************************)
EXTENDS Integers, FiniteSets

CONSTANTS
  Ids, NoId,     \* session ids
  MaxStarts,     \* bound on agent:start messages
  MaxSessions,   \* the configured limit
  Handlers,      \* goroutines that handle messages: the read pumps
  BufSize        \* capacity of the collector's channel

Starts == 1..MaxStarts

ASSUME ConstAssumption ==
  /\ MaxStarts \in Nat /\ MaxSessions \in Nat \ {0} /\ BufSize \in Nat \ {0}
  /\ NoId \notin Ids /\ Handlers \cap Starts = {}
  /\ IsFiniteSet(Ids) /\ IsFiniteSet(Handlers) /\ Handlers # {}

Actors == Handlers \cup Starts   \* a timer runs its function for its start

VARIABLES
  started,       \* agent:start messages received
  idOf,          \* start -> its session id
  sessions,      \* SessionManager.sessions: id -> start, 0 if there is none
  hpc, hcur,     \* handler -> where it is in handleStart, and for which start
  spc, starget,  \* actor -> where it is in StopSession, and what it found
  agent,         \* start -> its process while that runs, then its goroutine
  killed,        \* the starts whose process context is cancelled
  closed,        \* the starts whose AgentSession.closed is set
  timer,         \* start -> unset, armed, off (stopped or fired)
  queued, shut,  \* events in the collector's channel; whether it is closed
  main, swept,   \* the shutdown, and the sessions CloseAll took
  crashed        \* a goroutine panicked, and with it the router

startVars  == <<started, idOf>>
handleVars == <<hpc, hcur>>
stopVars   == <<spc, starget>>
endVars    == <<killed, closed, timer>>
chanVars   == <<queued, crashed>>
mainVars   == <<main, swept, shut>>
vars == <<started, idOf, sessions, hpc, hcur, spc, starget, agent, killed,
          closed, timer, queued, shut, main, swept, crashed>>

Up == ~crashed /\ main # "exit"

Entries == {i \in Ids : sessions[i] # 0}

\* No two starts so far have the same id.
Fresh == \A m, n \in 1..started : idOf[m] = idOf[n] => m = n

-------------------------------------------------------------------------------
(* Emit: the event is dropped when the buffer is full; a closed channel is *)
(* a panic, whether there is room in it or not.                            *)

Emit ==
  IF shut THEN crashed' = TRUE /\ UNCHANGED queued
  ELSE /\ queued' = IF queued < BufSize THEN queued + 1 ELSE queued
       /\ UNCHANGED crashed

-------------------------------------------------------------------------------
(* handleStart and StartSession.                                           *)

Idle(h) == hpc[h] = "idle" /\ spc[h] = "idle"

Return(h) == hpc' = [hpc EXCEPT ![h] = "idle"] /\ hcur' = [hcur EXCEPT ![h] = 0]

\* The start is traced before anything is known about its outcome.
ReceiveStart(h, i) ==
  /\ Idle(h) /\ started < MaxStarts
  /\ started' = started + 1
  /\ idOf' = [idOf EXCEPT ![started'] = i]
  /\ hpc' = [hpc EXCEPT ![h] = "check"]
  /\ hcur' = [hcur EXCEPT ![h] = started']
  /\ Emit
  /\ UNCHANGED <<sessions, stopVars, agent, endVars, mainVars>>

FullLate == Cardinality(Entries) > MaxSessions \* faulty: off by one
Full == Cardinality(Entries) >= MaxSessions

ArmNothing(n) == UNCHANGED timer               \* faulty: no timeout
ArmTimer(n) == timer' = [timer EXCEPT ![n] = "armed"]

\* The workspace or the command is refused, the limit is reached, or the
\* process cannot be started; or it runs, before anyone else knows of it.
Check(h) ==
  /\ hpc[h] = "check"
  /\ \/ Return(h) /\ UNCHANGED agent
     \/ /\ ~Full
        /\ hpc' = [hpc EXCEPT ![h] = "insert"] /\ UNCHANGED hcur
        /\ agent' = [agent EXCEPT ![hcur[h]] = "running"]
  /\ UNCHANGED <<startVars, sessions, stopVars, endVars, chanVars, mainVars>>

\* Arm the timer (its hour is not over before the next statement) and insert
\* the session.  Whatever the id had is overwritten, and the process may have
\* ended already.
Insert(h) ==
  /\ hpc[h] = "insert"
  /\ ArmTimer(hcur[h])
  /\ sessions' = [sessions EXCEPT ![idOf[hcur[h]]] = hcur[h]]
  /\ Return(h)
  /\ UNCHANGED <<startVars, stopVars, agent, killed, closed, chanVars, mainVars>>

HandleStart(h) == Check(h) \/ Insert(h)

-------------------------------------------------------------------------------
(* StopSession, called for agent:stop and by the timer of a start.         *)

Lookup(a, i) ==
  IF sessions[i] = 0 THEN UNCHANGED stopVars
  ELSE /\ spc' = [spc EXCEPT ![a] = "close"]
       /\ starget' = [starget EXCEPT ![a] = sessions[i]]

StopReturns(a) ==
  spc' = [spc EXCEPT ![a] = "idle"] /\ starget' = [starget EXCEPT ![a] = 0]

ReceiveStop(h, i) ==
  /\ Idle(h)
  /\ Lookup(h, i)
  /\ UNCHANGED <<startVars, sessions, handleVars, agent, endVars, chanVars, mainVars>>

\* The timer of an agent that ended by itself is never stopped.
TimerFires(n) ==
  /\ timer[n] = "armed"
  /\ timer' = [timer EXCEPT ![n] = "off"]
  /\ Lookup(n, idOf[n])
  /\ UNCHANGED <<startVars, sessions, handleVars, agent, killed, closed,
                 chanVars, mainVars>>

\* The session's mutex is held from the test of closed to the removal.
Locked(n) == \E b \in Actors : spc[b] = "remove" /\ starget[b] = n

CloseAgent(a) ==
  LET n == starget[a] IN
  /\ spc[a] = "close" /\ ~Locked(n)
  /\ IF n \in closed
     THEN StopReturns(a) /\ UNCHANGED endVars
     ELSE /\ spc' = [spc EXCEPT ![a] = "remove"]
          /\ closed' = closed \cup {n}
          /\ timer' = [timer EXCEPT ![n] = IF @ = "armed" THEN "off" ELSE @]
          /\ killed' = killed \cup {n}
          /\ UNCHANGED starget
  /\ UNCHANGED <<startVars, sessions, handleVars, agent, chanVars,
                 mainVars>>

\* removeSession: whatever the id has by now.
Without(i) == [sessions EXCEPT ![i] = 0]

Remove(a) ==
  /\ spc[a] = "remove"
  /\ sessions' = Without(idOf[starget[a]])
  /\ StopReturns(a)
  /\ UNCHANGED <<startVars, handleVars, agent, endVars, chanVars,
                 mainVars>>

StopSession(a) == CloseAgent(a) \/ Remove(a)

-------------------------------------------------------------------------------
(* The process and the goroutine that reads its output.                    *)

Step(n, p, q) == agent[n] = p /\ agent' = [agent EXCEPT ![n] = q]

\* The process ends when it likes, and because its context is cancelled.
Exit(n) ==
  /\ Step(n, "running", "exited")
  /\ UNCHANGED <<startVars, sessions, handleVars, stopVars, endVars,
                 chanVars, mainVars>>

Killed(n) == n \in killed /\ Exit(n)

\* The output is at its end and the process is reaped: wrappedDone.
Done(n) ==
  /\ Step(n, "exited", "trace")
  /\ sessions' = Without(idOf[n])
  /\ UNCHANGED <<startVars, handleVars, stopVars, endVars, chanVars, mainVars>>

TraceDone(n) ==
  /\ Step(n, "trace", "send")
  /\ Emit
  /\ UNCHANGED <<startVars, sessions, handleVars, stopVars, endVars,
                 mainVars>>

\* The parent session's context and the usage are updated, agent:completed is
\* sent.
SendCompleted(n) ==
  /\ Step(n, "send", "over")
  /\ UNCHANGED <<startVars, sessions, handleVars, stopVars, endVars, chanVars,
                 mainVars>>

Finish(n) == Done(n) \/ TraceDone(n) \/ SendCompleted(n)

-------------------------------------------------------------------------------
(* The collector, and the daemon's shutdown.                               *)

LoopWrite ==
  /\ queued > 0
  /\ queued' = queued - 1
  /\ UNCHANGED <<startVars, sessions, handleVars, stopVars, agent, endVars,
                 crashed, mainVars>>

LoopOverAtClose == shut                        \* faulty: what is left is lost
LoopOver == shut /\ queued = 0

\* A signal; CloseAll first takes the table ...
CloseAll ==
  /\ main = "serving"
  /\ main' = "stopAll"
  /\ swept' = {sessions[i] : i \in Entries}
  /\ sessions' = [i \in Ids |-> 0]
  /\ UNCHANGED <<startVars, handleVars, stopVars, agent, endVars, chanVars, shut>>

\* ... then stops what was in it.
StopAll ==
  /\ main = "stopAll"
  /\ main' = "close"
  /\ timer' = [n \in Starts |-> IF n \in swept /\ timer[n] = "armed"
                                THEN "off" ELSE timer[n]]
  /\ killed' = killed \cup swept
  /\ swept' = {}
  /\ UNCHANGED <<startVars, sessions, handleVars, stopVars, agent, closed,
                 chanVars, shut>>

\* Collector.Close: close the channel, wait for the loop to end.
CloseCollector ==
  /\ main = "close"
  /\ main' = "drain" /\ shut' = TRUE
  /\ UNCHANGED <<startVars, sessions, handleVars, stopVars, agent, endVars,
                 chanVars, swept>>

Drained ==
  /\ main = "drain" /\ LoopOver
  /\ main' = "save"
  /\ UNCHANGED <<startVars, sessions, handleVars, stopVars, agent, endVars,
                 chanVars, swept, shut>>

\* The session store is saved and the daemon returns.
SaveAndExit ==
  /\ main = "save"
  /\ main' = "exit"
  /\ UNCHANGED <<startVars, sessions, handleVars, stopVars, agent, endVars,
                 chanVars, swept, shut>>

Shutdown == StopAll \/ CloseCollector \/ Drained \/ SaveAndExit

-------------------------------------------------------------------------------
Init ==
  /\ started = 0 /\ idOf = [n \in Starts |-> NoId]
  /\ sessions = [i \in Ids |-> 0]
  /\ hpc = [h \in Handlers |-> "idle"] /\ hcur = [h \in Handlers |-> 0]
  /\ spc = [a \in Actors |-> "idle"] /\ starget = [a \in Actors |-> 0]
  /\ agent = [n \in Starts |-> "none"]
  /\ killed = {} /\ closed = {} /\ timer = [n \in Starts |-> "unset"]
  /\ queued = 0 /\ shut = FALSE
  /\ main = "serving" /\ swept = {} /\ crashed = FALSE

Next ==
  /\ Up
  /\ \/ \E h \in Handlers : HandleStart(h)
     \/ \E h \in Handlers, i \in Ids : ReceiveStart(h, i) \/ ReceiveStop(h, i)
     \/ \E a \in Actors : StopSession(a)
     \/ \E n \in Starts : TimerFires(n) \/ Exit(n) \/ Finish(n)
     \/ LoopWrite \/ CloseAll \/ Shutdown

Spec == Init /\ [][Next]_vars

\* Goroutines and timers run, a killed process ends, and a shutdown that has
\* begun goes on.  A process owes nothing by itself: it may hang, or block on a
\* line its reader gave up on; no signal need come.
Fairness ==
  /\ \A h \in Handlers : WF_vars(Up /\ (HandleStart(h) \/ StopSession(h)))
  /\ \A n \in Starts : /\ WF_vars(Up /\ (TimerFires(n) \/ StopSession(n)))
                       /\ WF_vars(Up /\ (Killed(n) \/ Finish(n)))
  /\ WF_vars(Up /\ (LoopWrite \/ Shutdown))

FairSpec == Spec /\ Fairness

-------------------------------------------------------------------------------
(* Properties.                                                             *)

\* Type correctness: what the handlers, the stops and the table refer to are
\* starts that were received.
TypeOK ==
  /\ started \in 0..MaxStarts
  /\ idOf \in [Starts -> Ids \cup {NoId}]
  /\ \A n \in 1..started : idOf[n] \in Ids
  /\ sessions \in [Ids -> 0..started]
  /\ hpc \in [Handlers -> {"idle", "check", "insert"}]
  /\ hcur \in [Handlers -> 0..started]
  /\ \A h \in Handlers : hpc[h] = "idle" <=> hcur[h] = 0
  /\ spc \in [Actors -> {"idle", "close", "remove"}]
  /\ starget \in [Actors -> 0..started]
  /\ \A a \in Actors : spc[a] = "idle" <=> starget[a] = 0
  /\ agent \in [Starts -> {"none", "running", "exited", "trace", "send",
                           "over"}]
  /\ \A n \in Starts : agent[n] # "none" => n <= started
  /\ killed \subseteq 1..started /\ closed \subseteq killed
  /\ timer \in [Starts -> {"unset", "armed", "off"}]
  /\ \A n \in Starts : timer[n] # "unset" => n <= started
  /\ queued \in 0..BufSize
  /\ shut \in BOOLEAN /\ crashed \in BOOLEAN
  /\ main \in {"serving", "stopAll", "close", "drain", "save", "exit"}
  /\ swept \subseteq 1..started

\* The processes nobody has told to end.
Working == {n \in Starts : agent[n] = "running" /\ n \notin killed \cup swept}

\* Unless an id is used twice, the limit on concurrent agents holds, up to one
\* more for every further message handler (a second one exists while a lost
\* connection's reader finishes its last message): the limit is tested before
\* the session is inserted, and a session leaves the table before it is over.
WithinLimit ==
  Fresh => Cardinality(Working) <= MaxSessions + Cardinality(Handlers) - 1

\* Close "drains remaining events and shuts down": once it has returned, every
\* event the collector accepted has been written, and none comes after it.
CloseDrains == main \in {"save", "exit"} => queued = 0

\* Every agent comes to an end: it leaves the table, even if its process was
\* over before it was inserted and whatever becomes of its id; and, unless an id
\* is used twice, its completion is reported, even if its process hangs.
Busy(n) == \/ \E i \in Ids : sessions[i] = n
           \/ Fresh /\ agent[n] \notin {"none", "over"}
AgentsEnd == \A n \in Starts : Busy(n) ~> (~Busy(n) \/ ~Up)
===============================================================================
