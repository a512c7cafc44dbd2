----------------------------- MODULE AgentProxyProofs -----------------------------
(***************************************************************************)
(* Proofs about the agents: the types, that the collector is empty once it *)
(* is closed, and that the limit on concurrent agents holds.               *)
(***************************************************************************)
EXTENDS AgentProxy, FiniteSetTheorems, TLAPS

USE ConstAssumption DEF ConstAssumption, Starts, Actors, startVars, handleVars,
  stopVars, endVars, chanVars, mainVars

\* The types, in the parts the proofs use.
StartTypeOK ==
  /\ started \in 0..MaxStarts
  /\ idOf \in [Starts -> Ids \cup {NoId}]
  /\ \A n \in 1..started : idOf[n] \in Ids
TableTypeOK == sessions \in [Ids -> 0..started]
HandlerTypeOK ==
  /\ hpc \in [Handlers -> {"idle", "check", "insert"}]
  /\ hcur \in [Handlers -> 0..started]
  /\ \A h \in Handlers : hpc[h] = "idle" <=> hcur[h] = 0
StopTypeOK ==
  /\ spc \in [Actors -> {"idle", "close", "remove"}]
  /\ starget \in [Actors -> 0..started]
  /\ \A a \in Actors : spc[a] = "idle" <=> starget[a] = 0
AgentTypeOK ==
  /\ agent \in [Starts -> {"none", "running", "exited", "trace", "send", "over"}]
  /\ \A n \in Starts : agent[n] # "none" => n <= started
EndTypeOK ==
  /\ killed \subseteq 1..started /\ closed \subseteq killed
  /\ timer \in [Starts -> {"unset", "armed", "off"}]
  /\ \A n \in Starts : timer[n] # "unset" => n <= started
MainTypeOK ==
  /\ queued \in 0..BufSize
  /\ shut \in BOOLEAN /\ crashed \in BOOLEAN
  /\ main \in {"serving", "stopAll", "close", "drain", "save", "exit"}
  /\ swept \subseteq 1..started

LEMMA TypeParts ==
  TypeOK <=> /\ StartTypeOK /\ TableTypeOK /\ HandlerTypeOK /\ StopTypeOK
             /\ AgentTypeOK /\ EndTypeOK /\ MainTypeOK
BY DEF TypeOK, StartTypeOK, TableTypeOK, HandlerTypeOK, StopTypeOK, AgentTypeOK,
       EndTypeOK, MainTypeOK

LEMMA TypePartsNext ==
  /\ StartTypeOK' /\ TableTypeOK' /\ HandlerTypeOK' /\ StopTypeOK'
  /\ AgentTypeOK' /\ EndTypeOK' /\ MainTypeOK'
  => TypeOK'
BY DEF TypeOK, StartTypeOK, TableTypeOK, HandlerTypeOK, StopTypeOK, AgentTypeOK,
       EndTypeOK, MainTypeOK

LEMMA StartsBound == ASSUME TypeOK PROVE started \in Nat /\ 1..started \subseteq Starts
BY DEF TypeOK

\* Emit keeps the channel within its capacity.
LEMMA EmitTypes ==
  ASSUME MainTypeOK, Emit PROVE queued' \in 0..BufSize /\ crashed' \in BOOLEAN
<1>1. queued' = queued \/ (queued < BufSize /\ queued' = queued + 1)
  BY DEF Emit
<1>2. queued' \in 0..BufSize
  BY <1>1 DEF MainTypeOK
<1>3. crashed' = TRUE \/ crashed' = crashed
  BY Zenon DEF Emit
<1>4. crashed' \in BOOLEAN
  BY <1>3, Zenon DEF MainTypeOK
<1> QED
  BY <1>2, <1>4

LEMMA LookupTypes ==
  ASSUME TypeOK, NEW a \in Actors, NEW i \in Ids, Lookup(a, i), UNCHANGED started
  PROVE  StopTypeOK'
<1>1. CASE sessions[i] = 0
  BY <1>1 DEF Lookup, TypeOK, StopTypeOK
<1>2. CASE sessions[i] # 0
  <2>1. spc' = [spc EXCEPT ![a] = "close"] /\ starget' = [starget EXCEPT ![a] = sessions[i]]
    BY <1>2 DEF Lookup
  <2>2. sessions[i] \in 0..started
    BY DEF TypeOK
  <2> QED
    BY <1>2, <2>1, <2>2 DEF TypeOK, StopTypeOK
<1> QED
  BY <1>1, <1>2

LEMMA WithoutTypes ==
  ASSUME TypeOK, NEW i \in Ids, sessions' = Without(i), UNCHANGED started PROVE TableTypeOK'
BY DEF Without, TypeOK, TableTypeOK

-------------------------------------------------------------------------------
(* One lemma per handler or thread: its steps keep the types.              *)

LEMMA HandlerTypes ==
  ASSUME TypeOK, NEW h \in Handlers, HandleStart(h) PROVE TypeOK'
<1> USE TypeParts, TypePartsNext, StartsBound
<1>1. CASE Check(h)
  <2>1. UNCHANGED <<startVars, sessions, stopVars, endVars, chanVars, mainVars>>
    BY <1>1 DEF Check
  <2>2. StartTypeOK' /\ TableTypeOK' /\ StopTypeOK' /\ EndTypeOK' /\ MainTypeOK'
    BY <2>1 DEF StartTypeOK, TableTypeOK, StopTypeOK, EndTypeOK, MainTypeOK
  <2>3. hcur[h] \in 1..started
    BY <1>1 DEF Check, HandlerTypeOK, StartTypeOK
  <2>4. HandlerTypeOK'
    BY <1>1, <2>1, <2>3 DEF Check, Return, HandlerTypeOK, StartTypeOK
  <2>5. agent' = agent \/ agent' = [agent EXCEPT ![hcur[h]] = "running"]
    BY <1>1 DEF Check
  <2>6. AgentTypeOK'
    BY <2>1, <2>3, <2>5 DEF AgentTypeOK, StartTypeOK
  <2> QED
    BY <2>2, <2>4, <2>6
<1>2. CASE Insert(h)
  <2>1. UNCHANGED <<startVars, stopVars, agent, killed, closed, chanVars, mainVars>>
    BY <1>2 DEF Insert
  <2>2. StartTypeOK' /\ StopTypeOK' /\ AgentTypeOK' /\ MainTypeOK'
    BY <2>1 DEF StartTypeOK, StopTypeOK, AgentTypeOK, MainTypeOK
  <2>3. hcur[h] \in 1..started
    BY <1>2 DEF Insert, HandlerTypeOK, StartTypeOK
  <2>4. HandlerTypeOK'
    BY <1>2, <2>1, <2>3 DEF Insert, Return, HandlerTypeOK, StartTypeOK
  <2>5. TableTypeOK'
    BY <1>2, <2>1, <2>3 DEF Insert, TableTypeOK, StartTypeOK
  <2>6. EndTypeOK'
    BY <1>2, <2>1, <2>3 DEF Insert, ArmTimer, EndTypeOK, StartTypeOK
  <2> QED
    BY <2>2, <2>4, <2>5, <2>6
<1> QED
  BY <1>1, <1>2 DEF HandleStart

LEMMA ReceiveStartTypes ==
  ASSUME TypeOK, NEW h \in Handlers, NEW i \in Ids, ReceiveStart(h, i) PROVE TypeOK'
<1> USE TypeParts, TypePartsNext, StartsBound
<1>1. /\ started < MaxStarts /\ started' = started + 1
      /\ idOf' = [idOf EXCEPT ![started'] = i]
      /\ hpc' = [hpc EXCEPT ![h] = "check"]
      /\ hcur' = [hcur EXCEPT ![h] = started']
      /\ Emit
      /\ UNCHANGED <<sessions, stopVars, agent, endVars, mainVars>>
  BY DEF ReceiveStart
<1>2. /\ started' \in 1..MaxStarts /\ 0..started \subseteq 0..started'
      /\ 1..started' = 1..started \cup {started'}
  BY <1>1 DEF StartTypeOK
<1>3. StartTypeOK'
  BY <1>1, <1>2 DEF StartTypeOK
<1>4. TableTypeOK' /\ StopTypeOK'
  BY <1>1, <1>2 DEF TableTypeOK, StopTypeOK
<1>5. AgentTypeOK' /\ EndTypeOK'
  BY <1>1, <1>2 DEF AgentTypeOK, EndTypeOK, StartTypeOK
<1>6. HandlerTypeOK'
  BY <1>1, <1>2 DEF HandlerTypeOK
<1>7. queued' \in 0..BufSize /\ crashed' \in BOOLEAN
  BY <1>1, EmitTypes
<1>8. MainTypeOK'
  BY <1>1, <1>2, <1>7 DEF MainTypeOK
<1> QED
  BY <1>3, <1>4, <1>5, <1>6, <1>8

LEMMA StopTypes ==
  ASSUME TypeOK, NEW a \in Actors, StopSession(a) PROVE TypeOK'
<1> USE TypeParts, TypePartsNext, StartsBound
<1>1. CASE CloseAgent(a)
  <2>1. UNCHANGED <<startVars, sessions, handleVars, agent, chanVars, mainVars>>
    BY <1>1 DEF CloseAgent
  <2>2. StartTypeOK' /\ TableTypeOK' /\ HandlerTypeOK' /\ AgentTypeOK' /\ MainTypeOK'
    BY <2>1 DEF StartTypeOK, TableTypeOK, HandlerTypeOK, AgentTypeOK, MainTypeOK
  <2>3. starget[a] \in 1..started
    BY <1>1 DEF CloseAgent, StopTypeOK, StartTypeOK
  <2>4. \/ StopReturns(a) /\ UNCHANGED endVars
        \/ /\ spc' = [spc EXCEPT ![a] = "remove"] /\ UNCHANGED starget
           /\ closed' = closed \cup {starget[a]} /\ killed' = killed \cup {starget[a]}
           /\ timer' = [timer EXCEPT ![starget[a]] = IF @ = "armed" THEN "off" ELSE @]
    BY <1>1 DEF CloseAgent
  <2>5. StopTypeOK'
    <3>1. spc[a] = "close"
      BY <1>1 DEF CloseAgent
    <3>2. CASE StopReturns(a)
      BY <2>1, <2>3, <3>2 DEF StopReturns, StopTypeOK, StartTypeOK
    <3>3. CASE spc' = [spc EXCEPT ![a] = "remove"] /\ UNCHANGED starget
      BY <2>1, <2>3, <3>1, <3>3 DEF StopTypeOK, StartTypeOK
    <3> QED
      BY <2>4, <3>2, <3>3
  <2>6. EndTypeOK'
    BY <2>1, <2>3, <2>4, SMTT(30) DEF EndTypeOK, StartTypeOK
  <2> QED
    BY <2>2, <2>5, <2>6
<1>2. CASE Remove(a)
  <2>1. UNCHANGED <<startVars, handleVars, agent, endVars, chanVars, mainVars>>
    BY <1>2 DEF Remove
  <2>2. StartTypeOK' /\ HandlerTypeOK' /\ AgentTypeOK' /\ EndTypeOK' /\ MainTypeOK'
    BY <2>1 DEF StartTypeOK, HandlerTypeOK, AgentTypeOK, EndTypeOK, MainTypeOK
  <2>3. TableTypeOK'
    <3>1. starget[a] \in 1..started
      BY <1>2 DEF Remove, StopTypeOK, StartTypeOK
    <3>2. idOf[starget[a]] \in Ids
      BY <3>1 DEF StartTypeOK
    <3> QED
      BY <1>2, <2>1, <3>2, WithoutTypes DEF Remove
  <2>4. StopTypeOK'
    BY <1>2, <2>1 DEF Remove, StopReturns, StopTypeOK, StartTypeOK
  <2> QED
    BY <2>2, <2>3, <2>4
<1> QED
  BY <1>1, <1>2 DEF StopSession

LEMMA ThreadTypes ==
  ASSUME TypeOK, NEW n \in Starts, TimerFires(n) \/ Exit(n) \/ Finish(n) PROVE TypeOK'
<1> USE TypeParts, TypePartsNext, StartsBound
<1>1. CASE TimerFires(n)
  <2>1. UNCHANGED <<startVars, sessions, handleVars, agent, killed, closed, chanVars, mainVars>>
    BY <1>1 DEF TimerFires
  <2>2. /\ StartTypeOK' /\ TableTypeOK' /\ HandlerTypeOK' /\ AgentTypeOK' /\ MainTypeOK'
    BY <2>1 DEF StartTypeOK, TableTypeOK, HandlerTypeOK, AgentTypeOK, MainTypeOK
  <2>3. timer[n] = "armed" /\ timer' = [timer EXCEPT ![n] = "off"] /\ Lookup(n, idOf[n])
    BY <1>1 DEF TimerFires
  <2>4. n \in 1..started
    BY <2>3 DEF EndTypeOK, StartTypeOK
  <2>5. idOf[n] \in Ids
    BY <2>4 DEF StartTypeOK
  <2>6. StopTypeOK'
    BY <2>1, <2>3, <2>5, LookupTypes
  <2>7. EndTypeOK'
    BY <2>1, <2>3, <2>4 DEF EndTypeOK, StartTypeOK
  <2> QED
    BY <2>2, <2>6, <2>7
<1>2. CASE Exit(n) \/ Finish(n)
  <2>1. UNCHANGED <<startVars, handleVars, stopVars, endVars, mainVars>>
    BY <1>2 DEF Exit, Finish, Done, TraceDone, SendCompleted
  <2>2. StartTypeOK' /\ HandlerTypeOK' /\ StopTypeOK' /\ EndTypeOK'
    BY <2>1 DEF StartTypeOK, HandlerTypeOK, StopTypeOK, EndTypeOK
  <2>3. agent[n] # "none" /\ \E q \in {"exited", "trace", "send", "over"} :
          agent' = [agent EXCEPT ![n] = q]
    BY <1>2 DEF Exit, Finish, Done, TraceDone, SendCompleted, Step
  <2>4. AgentTypeOK'
    BY <2>1, <2>3 DEF AgentTypeOK
  <2>5. TableTypeOK'
    <3>1. CASE Done(n)
      <4>1. n \in 1..started
        BY <2>3 DEF AgentTypeOK, StartTypeOK
      <4>2. idOf[n] \in Ids
        BY <4>1 DEF StartTypeOK
      <4> QED
        BY <2>1, <3>1, <4>2, WithoutTypes DEF Done
    <3>2. CASE ~Done(n)
      BY <1>2, <2>1, <3>2 DEF Exit, Finish, TraceDone, SendCompleted, TableTypeOK
    <3> QED
      BY <3>1, <3>2
  <2>6. MainTypeOK'
    <3>1. CASE TraceDone(n)
      BY <2>1, <3>1, EmitTypes DEF TraceDone, MainTypeOK
    <3>2. CASE ~TraceDone(n)
      BY <1>2, <2>1, <3>2 DEF Exit, Finish, Done, SendCompleted, MainTypeOK
    <3> QED
      BY <3>1, <3>2
  <2> QED
    BY <2>2, <2>4, <2>5, <2>6
<1> QED
  BY <1>1, <1>2

LEMMA MainTypes ==
  ASSUME TypeOK, LoopWrite \/ CloseAll \/ Shutdown PROVE TypeOK'
<1> USE TypeParts, TypePartsNext, StartsBound
<1>1. UNCHANGED <<startVars, handleVars, stopVars, agent, closed>>
  BY DEF LoopWrite, CloseAll, Shutdown, StopAll, CloseCollector, Drained, SaveAndExit
<1>2. StartTypeOK' /\ HandlerTypeOK' /\ StopTypeOK' /\ AgentTypeOK'
  BY <1>1 DEF StartTypeOK, HandlerTypeOK, StopTypeOK, AgentTypeOK
<1>3. CASE CloseAll
  <2>1. \A i \in Entries : sessions[i] \in 1..started
    BY DEF Entries, TableTypeOK, StartTypeOK
  <2>2. swept' \subseteq 1..started
    BY <1>3, <2>1 DEF CloseAll
  <2>3. MainTypeOK' /\ EndTypeOK'
    BY <1>1, <1>3, <2>2 DEF CloseAll, MainTypeOK, EndTypeOK
  <2>4. TableTypeOK'
    BY <1>1, <1>3 DEF CloseAll, TableTypeOK, StartTypeOK
  <2> QED
    BY <1>2, <2>3, <2>4
<1>4. CASE StopAll
  <2>1. MainTypeOK' /\ TableTypeOK'
    BY <1>1, <1>4 DEF StopAll, MainTypeOK, TableTypeOK
  <2>2. killed' \subseteq 1..started /\ closed \subseteq killed'
    BY <1>4 DEF StopAll, MainTypeOK, EndTypeOK
  <2>3. EndTypeOK'
    BY <1>1, <1>4, <2>2 DEF StopAll, EndTypeOK
  <2> QED
    BY <1>2, <2>1, <2>3
<1>5. CASE LoopWrite
  BY <1>1, <1>2, <1>5 DEF LoopWrite, MainTypeOK, EndTypeOK, TableTypeOK
<1>6. CASE CloseCollector \/ Drained \/ SaveAndExit
  BY <1>1, <1>2, <1>6 DEF CloseCollector, Drained, SaveAndExit, MainTypeOK,
                          EndTypeOK, TableTypeOK
<1> QED
  BY <1>3, <1>4, <1>5, <1>6 DEF Shutdown

LEMMA TypeStep == TypeOK /\ [Next]_vars => TypeOK'
<1> SUFFICES ASSUME TypeOK, [Next]_vars PROVE TypeOK'
  OBVIOUS
<1> USE TypeParts, TypePartsNext
<1>1. ASSUME NEW h \in Handlers, NEW i \in Ids, ReceiveStop(h, i) PROVE TypeOK'
  <2>1. UNCHANGED <<startVars, sessions, handleVars, agent, endVars, chanVars, mainVars>>
    BY <1>1 DEF ReceiveStop
  <2>2. /\ StartTypeOK' /\ TableTypeOK' /\ HandlerTypeOK' /\ AgentTypeOK'
        /\ EndTypeOK' /\ MainTypeOK'
    BY <2>1 DEF StartTypeOK, TableTypeOK, HandlerTypeOK, AgentTypeOK, EndTypeOK,
                MainTypeOK
  <2>3. StopTypeOK'
    BY <1>1, <2>1, LookupTypes DEF ReceiveStop
  <2> QED
    BY <2>2, <2>3
<1>2. CASE UNCHANGED vars
  BY <1>2 DEF vars, TypeOK
<1> QED
  BY <1>1, <1>2, HandlerTypes, ReceiveStartTypes, StopTypes, ThreadTypes, MainTypes
  DEF Next

\* Whatever the limit, the handlers and the capacity of the channel: the types,
\* and that the table, the handlers and the stops refer to starts received.
THEOREM TypeCorrect == Spec => []TypeOK
<1>1. ASSUME Init PROVE TypeOK
  <2>1. StartTypeOK /\ TableTypeOK /\ HandlerTypeOK
    BY <1>1 DEF Init, StartTypeOK, TableTypeOK, HandlerTypeOK
  <2>2. StopTypeOK
    BY <1>1 DEF Init, StopTypeOK
  <2>3. AgentTypeOK /\ EndTypeOK
    BY <1>1 DEF Init, AgentTypeOK, EndTypeOK
  <2>4. MainTypeOK
    <3>1. shut \in BOOLEAN /\ crashed \in BOOLEAN
      BY <1>1, Zenon DEF Init
    <3>2. queued \in 0..BufSize /\ swept \subseteq 1..started
      BY <1>1 DEF Init
    <3> QED
      BY <1>1, <3>1, <3>2 DEF Init, MainTypeOK
  <2> QED
    BY <2>1, <2>2, <2>3, <2>4, TypeParts
<1> QED
  BY <1>1, TypeStep, PTL DEF Spec
-------------------------------------------------------------------------------
(* The collector.                                                          *)

\* The channel is closed before Close waits for the loop, and nothing enters it
\* any more.
DrainInv ==
  /\ main \in {"drain", "save", "exit"} => shut
  /\ CloseDrains

LEMMA ClosedTakesNothing == ASSUME shut, Emit PROVE UNCHANGED queued
BY DEF Emit

LEMMA DrainStep == TypeOK /\ DrainInv /\ [Next]_vars => DrainInv'
<1> SUFFICES ASSUME TypeOK, DrainInv, [Next]_vars PROVE DrainInv'
  OBVIOUS
<1>1. CASE UNCHANGED <<main, shut>> /\ (UNCHANGED queued \/ Emit)
  BY <1>1, ClosedTakesNothing DEF DrainInv, CloseDrains
<1>2. CASE LoopWrite
  BY <1>2 DEF LoopWrite, DrainInv, CloseDrains, TypeOK
<1>3. CASE CloseAll \/ Shutdown
  BY <1>3 DEF CloseAll, Shutdown, StopAll, CloseCollector, Drained, SaveAndExit,
              LoopOver, DrainInv, CloseDrains
<1>4. ASSUME NEW h \in Handlers, HandleStart(h) PROVE DrainInv'
  BY <1>1, <1>4 DEF HandleStart, Check, Insert
<1>5. ASSUME NEW h \in Handlers, NEW i \in Ids, ReceiveStart(h, i) \/ ReceiveStop(h, i)
      PROVE  DrainInv'
  BY <1>1, <1>5 DEF ReceiveStart, ReceiveStop
<1>6. ASSUME NEW a \in Actors, StopSession(a) PROVE DrainInv'
  BY <1>1, <1>6 DEF StopSession, CloseAgent, Remove
<1>7. ASSUME NEW n \in Starts, TimerFires(n) \/ Exit(n) \/ Finish(n) PROVE DrainInv'
  BY <1>1, <1>7 DEF TimerFires, Exit, Finish, Done, TraceDone, SendCompleted
<1>8. CASE UNCHANGED vars
  BY <1>1, <1>8 DEF vars
<1> QED
  BY <1>2, <1>3, <1>4, <1>5, <1>6, <1>7, <1>8 DEF Next

\* Once Collector.Close has returned, every accepted event has been written,
\* whatever the agents still do.
THEOREM CloseDrainsHolds == Spec => []CloseDrains
<1>1. Init => DrainInv
  BY DEF Init, DrainInv, CloseDrains
<1>2. DrainInv => CloseDrains
  BY DEF DrainInv
<1> QED
  BY <1>1, <1>2, DrainStep, TypeCorrect, PTL DEF Spec

-------------------------------------------------------------------------------
(* The limit.                                                              *)

Inserting == {h \in Handlers : hpc[h] = "insert"}

\* The sessions in the table and those about to be inserted.
CountInv ==
  Cardinality(Entries) + Cardinality(Inserting)
    <= MaxSessions + Cardinality(Handlers) - 1

\* A session is removed from the table when it is told to end; while CloseAll
\* has not begun it has taken nothing.
RemovedInv ==
  /\ \A a \in Actors : spc[a] = "remove" => starget[a] \in killed
  /\ main = "serving" => swept = {}

\* A process nobody has told to end is in the table or about to be.
Tracked(n) == \/ \E h \in Inserting : hcur[h] = n
              \/ sessions[idOf[n]] = n
TrackedInv == Fresh => \A n \in Working : Tracked(n)

LEMMA FiniteSets ==
  ASSUME TypeOK
  PROVE  /\ IsFiniteSet(Entries) /\ IsFiniteSet(Inserting)
         /\ Cardinality(Entries) \in Nat /\ Cardinality(Inserting) \in Nat
         /\ Cardinality(Handlers) \in Nat /\ Cardinality(Handlers) # 0
         /\ Cardinality(Inserting) <= Cardinality(Handlers)
<1>1. Entries \subseteq Ids /\ Inserting \subseteq Handlers
  BY DEF Entries, Inserting
<1>2. IsFiniteSet(Entries) /\ IsFiniteSet(Inserting)
      /\ Cardinality(Inserting) <= Cardinality(Handlers)
  BY <1>1, FS_Subset
<1>3. Cardinality(Handlers) # 0
  BY FS_EmptySet
<1> QED
  BY <1>2, <1>3, FS_CardinalityType

\* The tracked processes are no more than the entries and the insertions.
LEMMA TrackedAreFew ==
  ASSUME TypeOK, Fresh, TrackedInv
  PROVE  Cardinality(Working) <= Cardinality(Entries) + Cardinality(Inserting)
<1> DEFINE ofTable == {sessions[i] : i \in Entries}
           ofHands == {hcur[h] : h \in Inserting}
           F == [i \in Entries |-> sessions[i]]
           G == [h \in Inserting |-> hcur[h]]
<1>1. F \in Surjection(Entries, ofTable) /\ G \in Surjection(Inserting, ofHands)
  BY DEF Surjection
<1>2. /\ IsFiniteSet(ofTable) /\ Cardinality(ofTable) <= Cardinality(Entries)
      /\ IsFiniteSet(ofHands) /\ Cardinality(ofHands) <= Cardinality(Inserting)
  BY <1>1, FiniteSets, FS_Surjection
<1>3. /\ IsFiniteSet(ofTable \cup ofHands)
      /\ Cardinality(ofTable \cup ofHands) <= Cardinality(ofTable) + Cardinality(ofHands)
  <2>1. IsFiniteSet(ofTable \cap ofHands) /\ Cardinality(ofTable \cap ofHands) \in Nat
    BY <1>2, FS_Intersection, FS_CardinalityType
  <2>2. Cardinality(ofTable) \in Nat /\ Cardinality(ofHands) \in Nat
    BY <1>2, FS_CardinalityType
  <2>3. /\ IsFiniteSet(ofTable \cup ofHands)
        /\ Cardinality(ofTable \cup ofHands) =
             Cardinality(ofTable) + Cardinality(ofHands) - Cardinality(ofTable \cap ofHands)
    BY <1>2, FS_Union
  <2> HIDE DEF ofTable, ofHands
  <2> QED
    BY <2>1, <2>2, <2>3
<1>4. Working \subseteq ofTable \cup ofHands
  <2>1. ASSUME NEW n \in Working PROVE n \in ofTable \cup ofHands
    <3>1. n \in 1..started /\ idOf[n] \in Ids
      BY DEF Working, TypeOK
    <3>2. Tracked(n)
      BY DEF TrackedInv
    <3>3. CASE sessions[idOf[n]] = n
      BY <3>1, <3>3 DEF Entries
    <3>4. CASE \E h \in Inserting : hcur[h] = n
      BY <3>4
    <3> QED
      BY <3>2, <3>3, <3>4 DEF Tracked
  <2> QED
    BY <2>1
<1>5. Cardinality(Working) <= Cardinality(ofTable \cup ofHands)
  BY <1>3, <1>4, FS_Subset
<1>6. Cardinality(Working) \in Nat /\ Cardinality(ofTable \cup ofHands) \in Nat
      /\ Cardinality(ofTable) \in Nat /\ Cardinality(ofHands) \in Nat
  BY <1>2, <1>3, <1>4, FS_Subset, FS_CardinalityType
<1> HIDE DEF ofTable, ofHands
<1> QED
  BY <1>2, <1>3, <1>5, <1>6, FiniteSets

\* The table and the insertions grow only where the limit was looked at or by
\* turning the one into the other.
LEMMA CountStep == TypeOK /\ CountInv /\ [Next]_vars => CountInv'
<1> SUFFICES ASSUME TypeOK, CountInv, [Next]_vars PROVE CountInv'
  OBVIOUS
<1> DEFINE e == Cardinality(Entries)  f == Cardinality(Entries')
           k == Cardinality(Inserting)  l == Cardinality(Inserting')
           c == Cardinality(Handlers)
<1>1. /\ TypeOK' /\ e \in Nat /\ f \in Nat /\ k \in Nat /\ l \in Nat /\ c \in Nat
      /\ l <= c /\ c # 0
  <2>1. TypeOK'
    BY TypeStep
  <2>2. Entries' \subseteq Ids /\ Inserting' \subseteq Handlers
    BY DEF Entries, Inserting
  <2>3. IsFiniteSet(Entries') /\ IsFiniteSet(Inserting') /\ l <= c
    BY <2>2, FS_Subset
  <2> QED
    BY <2>1, <2>3, FiniteSets, FS_CardinalityType
<1>2. e + k <= MaxSessions + c - 1
  BY DEF CountInv
<1>3. CASE f <= e /\ l <= k
  <2> HIDE DEF e, f, k, l, c
  <2>1. f + l <= MaxSessions + c - 1
    BY <1>1, <1>2, <1>3
  <2> QED
    BY <2>1 DEF CountInv, e, f, k, l, c
<1>4. CASE Entries' \subseteq Entries /\ Inserting' \subseteq Inserting
  BY <1>3, <1>4, FiniteSets, FS_Subset
<1>5. CASE UNCHANGED <<sessions, hpc>>
  BY <1>4, <1>5 DEF Entries, Inserting
<1>6. ASSUME NEW h \in Handlers, Check(h) PROVE CountInv'
  <2>1. Entries' = Entries
    BY <1>6 DEF Check, Entries
  <2>2. CASE Return(h)
    <3>1. Inserting' \subseteq Inserting
      BY <2>2 DEF Return, Inserting, TypeOK
    <3> QED
      BY <1>4, <2>1, <3>1
  <2>3. CASE ~Full
    <3>1. e < MaxSessions
      BY <1>1, <2>3 DEF Full
    <3>2. f = e
      BY <2>1
    <3> HIDE DEF e, f, k, l, c
    <3>3. f + l <= MaxSessions + c - 1
      BY <1>1, <3>1, <3>2
    <3> QED
      BY <3>3 DEF CountInv, e, f, k, l, c
  <2> QED
    BY <1>6, <2>2, <2>3 DEF Check
<1>7. ASSUME NEW h \in Handlers, Insert(h) PROVE CountInv'
  <2>1. h \in Inserting /\ Inserting' = Inserting \ {h}
    BY <1>7 DEF Insert, Return, Inserting, TypeOK
  <2>2. l = k - 1
    BY <2>1, FiniteSets, FS_RemoveElement
  <2>3. PICK i : Entries' \subseteq Entries \cup {i}
    BY <1>7 DEF Insert, Entries, TypeOK
  <2>4. /\ IsFiniteSet(Entries \cup {i})
        /\ Cardinality(Entries \cup {i}) = IF i \in Entries THEN e ELSE e + 1
    BY FiniteSets, FS_AddElement
  <2>5. f <= Cardinality(Entries \cup {i})
    BY <2>3, <2>4, FS_Subset
  <2> HIDE DEF e, f, k, l, c
  <2>6. f <= e + 1
    BY <1>1, <2>4, <2>5
  <2>7. f + l <= MaxSessions + c - 1
    BY <1>1, <1>2, <2>2, <2>6
  <2> QED
    BY <2>7 DEF CountInv, e, f, k, l, c
<1>8. ASSUME NEW h \in Handlers, NEW i \in Ids, ReceiveStart(h, i) \/ ReceiveStop(h, i)
      PROVE  CountInv'
  <2>1. UNCHANGED sessions /\ (UNCHANGED hpc \/ hpc' = [hpc EXCEPT ![h] = "check"])
    BY <1>8 DEF ReceiveStart, ReceiveStop
  <2>2. Entries' = Entries /\ Inserting' \subseteq Inserting
    BY <2>1 DEF Entries, Inserting, TypeOK
  <2> QED
    BY <1>4, <2>2
<1>9. ASSUME NEW i, sessions' = Without(i), UNCHANGED hpc PROVE CountInv'
  <2>1. Entries' \subseteq Entries /\ Inserting' = Inserting
    BY <1>9 DEF Without, Entries, Inserting, TypeOK
  <2> QED
    BY <1>4, <2>1
<1>10. ASSUME NEW a \in Actors, StopSession(a) PROVE CountInv'
  BY <1>5, <1>9, <1>10 DEF StopSession, CloseAgent, Remove
<1>11. ASSUME NEW n \in Starts, TimerFires(n) \/ Exit(n) \/ Finish(n) PROVE CountInv'
  BY <1>5, <1>9, <1>11 DEF TimerFires, Exit, Finish, Done, TraceDone, SendCompleted
<1>12. CASE CloseAll
  <2>1. Entries' = {} /\ Inserting' = Inserting
    BY <1>12 DEF CloseAll, Entries, Inserting
  <2> QED
    BY <1>4, <2>1
<1>13. CASE LoopWrite \/ Shutdown
  BY <1>5, <1>13 DEF LoopWrite, Shutdown, StopAll, CloseCollector, Drained, SaveAndExit
<1>14. CASE UNCHANGED vars
  BY <1>5, <1>14 DEF vars
<1> QED
  BY <1>6, <1>7, <1>8, <1>10, <1>11, <1>12, <1>13, <1>14 DEF Next, HandleStart

LEMMA RemovedStep == TypeOK /\ RemovedInv /\ [Next]_vars => RemovedInv'
<1> SUFFICES ASSUME TypeOK, RemovedInv, [Next]_vars PROVE RemovedInv'
  OBVIOUS
<1>1. CASE UNCHANGED <<spc, starget, main, swept>> /\ killed \subseteq killed'
  BY <1>1 DEF RemovedInv
<1>2. ASSUME NEW b \in Actors, NEW i, Lookup(b, i), UNCHANGED <<killed, main, swept>>
      PROVE  RemovedInv'
  <2>1. CASE UNCHANGED stopVars
    BY <1>1, <1>2, <2>1
  <2>2. CASE spc' = [spc EXCEPT ![b] = "close"] /\ \E m : starget' = [starget EXCEPT ![b] = m]
    BY <1>2, <2>2 DEF RemovedInv, TypeOK
  <2> QED
    BY <1>2, <2>1, <2>2 DEF Lookup
<1>3. ASSUME NEW b \in Actors, StopReturns(b), UNCHANGED <<killed, main, swept>>
      PROVE  RemovedInv'
  BY <1>3 DEF StopReturns, RemovedInv, TypeOK
<1>4. ASSUME NEW b \in Actors, StopSession(b) PROVE RemovedInv'
  <2>1. CASE Remove(b)
    BY <1>3, <2>1 DEF Remove
  <2>2. CASE CloseAgent(b) /\ StopReturns(b) /\ UNCHANGED endVars
    BY <1>3, <2>2 DEF CloseAgent
  <2>3. CASE CloseAgent(b) /\ spc' = [spc EXCEPT ![b] = "remove"] /\ UNCHANGED starget
             /\ killed' = killed \cup {starget[b]}
    BY <2>3 DEF CloseAgent, RemovedInv, TypeOK
  <2> QED
    BY <1>4, <2>1, <2>2, <2>3 DEF StopSession, CloseAgent
<1>5. ASSUME NEW h \in Handlers, HandleStart(h) PROVE RemovedInv'
  BY <1>1, <1>5 DEF HandleStart, Check, Insert
<1>6. ASSUME NEW h \in Handlers, NEW i \in Ids, ReceiveStart(h, i) \/ ReceiveStop(h, i)
      PROVE  RemovedInv'
  BY <1>1, <1>2, <1>6 DEF ReceiveStart, ReceiveStop
<1>7. ASSUME NEW n \in Starts, TimerFires(n) \/ Exit(n) \/ Finish(n) PROVE RemovedInv'
  BY <1>1, <1>2, <1>7 DEF TimerFires, Exit, Finish, Done, TraceDone, SendCompleted
<1>8. CASE CloseAll \/ Shutdown
  BY <1>8 DEF CloseAll, Shutdown, StopAll, CloseCollector, Drained, SaveAndExit, RemovedInv
<1>9. CASE LoopWrite \/ UNCHANGED vars
  BY <1>1, <1>9 DEF LoopWrite, vars
<1> QED
  BY <1>4, <1>5, <1>6, <1>7, <1>8, <1>9 DEF Next

\* The ids of the starts received do not change.
LEMMA IdsStay ==
  ASSUME TypeOK, [Next]_vars
  PROVE  started <= started' /\ \A n \in 1..started : idOf'[n] = idOf[n]
<1>1. CASE UNCHANGED startVars
  BY <1>1 DEF TypeOK
<1>2. ASSUME NEW h \in Handlers, NEW i \in Ids, ReceiveStart(h, i)
      PROVE  started <= started' /\ \A n \in 1..started : idOf'[n] = idOf[n]
  BY <1>2 DEF ReceiveStart, TypeOK
<1>3. CASE UNCHANGED vars
  BY <1>1, <1>3 DEF vars
<1>4. \/ UNCHANGED startVars \/ \E h \in Handlers, i \in Ids : ReceiveStart(h, i)
  BY <1>3 DEF vars, Next, HandleStart, Check, Insert, ReceiveStop, StopSession,
     CloseAgent, Remove, TimerFires, Exit, Finish, Done, TraceDone, SendCompleted,
     LoopWrite, CloseAll, Shutdown, StopAll, CloseCollector, Drained, SaveAndExit
<1> QED
  BY <1>1, <1>2, <1>4

LEMMA FreshStays == ASSUME TypeOK, TypeOK', [Next]_vars, Fresh' PROVE Fresh
<1>0. started \in 0..MaxStarts /\ started' \in 0..MaxStarts
  BY Zenon DEF TypeOK
<1>1. started <= started' /\ started \in Nat /\ started' \in Nat
  BY <1>0, IdsStay
<1>2. ASSUME NEW m \in 1..started, NEW n \in 1..started, idOf[m] = idOf[n] PROVE m = n
  <2>1. m \in 1..started' /\ n \in 1..started'
    BY <1>1
  <2>2. idOf'[m] = idOf'[n]
    BY <1>2, IdsStay
  <2> QED
    BY <2>1, <2>2 DEF Fresh
<1> QED
  BY <1>2 DEF Fresh

\* The processes nobody has told to end stay tracked: an entry is removed for a
\* process that is over or told to end, and overwritten only for the same id.
LEMMA TrackedStep ==
  TypeOK /\ RemovedInv /\ TrackedInv /\ [Next]_vars => TrackedInv'
<1> SUFFICES ASSUME TypeOK, RemovedInv, TrackedInv, [Next]_vars, Fresh',
                    NEW n \in Working'
             PROVE  Tracked(n)'
  BY DEF TrackedInv
<1>1. TypeOK' /\ Fresh
  BY TypeStep, FreshStays
<1>2. /\ n \in Starts /\ agent'[n] = "running"
      /\ n \notin killed' /\ n \notin swept'
  BY DEF Working
<1>3. n \in Working => Tracked(n) /\ n \in 1..started
  BY <1>1 DEF TrackedInv, Working, TypeOK
<1>4. ASSUME NEW m \in 1..started, n \in Working, m # n PROVE idOf[m] # idOf[n]
  BY <1>1, <1>3, <1>4 DEF Fresh
<1>5. ASSUME UNCHANGED <<agent, killed, swept>> PROVE n \in Working
  BY <1>5 DEF Working
<1>6. CASE n \in Working /\ UNCHANGED <<sessions, hpc, hcur, idOf>>
  BY <1>3, <1>6 DEF Tracked, Inserting
<1>7. ASSUME NEW h \in Handlers, Check(h) PROVE Tracked(n)'
  <2>1. hcur[h] \in 1..started /\ h \notin Inserting
    BY <1>7 DEF Check, Inserting, TypeOK
  <2>2. UNCHANGED <<sessions, idOf, killed, swept>>
    BY <1>7 DEF Check
  <2>3. CASE Return(h) /\ UNCHANGED agent
    <3>1. n \in Working
      BY <1>5, <2>2, <2>3
    <3>2. Inserting \subseteq Inserting' /\ \A k \in Inserting : hcur'[k] = hcur[k]
      BY <2>1, <2>3 DEF Return, Inserting, TypeOK
    <3> QED
      BY <1>3, <2>2, <3>1, <3>2 DEF Tracked
  <2>4. CASE /\ hpc' = [hpc EXCEPT ![h] = "insert"] /\ UNCHANGED hcur
             /\ agent' = [agent EXCEPT ![hcur[h]] = "running"]
    <3>1. Inserting' = Inserting \cup {h}
      BY <2>4 DEF Inserting, TypeOK
    <3>2. CASE n = hcur[h]
      BY <2>4, <3>1, <3>2 DEF Tracked
    <3>3. CASE n # hcur[h]
      <4>1. n \in Working
        BY <1>2, <2>2, <2>4, <3>3 DEF Working, TypeOK
      <4> QED
        BY <1>3, <2>2, <2>4, <3>1, <4>1 DEF Tracked
    <3> QED
      BY <3>2, <3>3
  <2> QED
    BY <1>7, <2>3, <2>4 DEF Check
<1>8. ASSUME NEW h \in Handlers, Insert(h) PROVE Tracked(n)'
  <2>1. hcur[h] \in 1..started /\ Inserting' = Inserting \ {h}
    BY <1>8 DEF Insert, Return, Inserting, TypeOK
  <2>2. idOf[hcur[h]] \in Ids
    BY <2>1 DEF TypeOK
  <2>3. /\ UNCHANGED <<idOf, agent, killed, swept>>
        /\ sessions' = [sessions EXCEPT ![idOf[hcur[h]]] = hcur[h]]
        /\ hcur' = [hcur EXCEPT ![h] = 0]
    BY <1>8 DEF Insert, Return
  <2>4. n \in Working
    BY <1>5, <2>3
  <2>5. CASE n = hcur[h]
    BY <2>2, <2>3, <2>5 DEF Tracked, TypeOK
  <2>6. CASE n # hcur[h]
    <3>1. idOf[n] # idOf[hcur[h]] /\ idOf[n] \in Ids
      BY <1>3, <1>4, <2>1, <2>4, <2>6 DEF TypeOK
    <3>2. CASE sessions[idOf[n]] = n
      BY <2>3, <3>1, <3>2 DEF Tracked, TypeOK
    <3>3. CASE \E k \in Inserting : hcur[k] = n
      <4>1. PICK k \in Inserting : hcur[k] = n
        BY <3>3
      <4>2. k # h /\ k \in Inserting' /\ hcur'[k] = n
        BY <2>1, <2>3, <2>6, <4>1 DEF Inserting, TypeOK
      <4> QED
        BY <4>2 DEF Tracked
    <3> QED
      BY <1>3, <2>4, <3>2, <3>3 DEF Tracked
  <2> QED
    BY <2>5, <2>6
<1>9. ASSUME NEW h \in Handlers, NEW i \in Ids, ReceiveStart(h, i) PROVE Tracked(n)'
  <2>1. /\ UNCHANGED <<sessions, agent, killed, swept>>
        /\ hpc' = [hpc EXCEPT ![h] = "check"] /\ hcur' = [hcur EXCEPT ![h] = started']
        /\ hpc[h] = "idle"
    BY <1>9 DEF ReceiveStart, Idle
  <2>2. n \in Working /\ idOf'[n] = idOf[n]
    BY <1>3, <1>5, <2>1, IdsStay
  <2>3. Inserting' = Inserting /\ \A k \in Inserting : hcur'[k] = hcur[k]
    BY <2>1 DEF Inserting, TypeOK
  <2> QED
    BY <1>3, <2>1, <2>2, <2>3 DEF Tracked
<1>10. ASSUME NEW m \in 1..started, m # n, n \in Working,
              sessions' = Without(idOf[m]), UNCHANGED <<hpc, hcur, idOf>>
       PROVE  Tracked(n)'
  <2>1. idOf[n] # idOf[m] /\ idOf[n] \in Ids /\ idOf[m] \in Ids
    BY <1>3, <1>4, <1>10 DEF TypeOK
  <2>2. sessions'[idOf[n]] = sessions[idOf[n]]
    BY <1>10, <2>1 DEF Without, TypeOK
  <2> QED
    BY <1>3, <1>10, <2>2 DEF Tracked, Inserting
<1>11. ASSUME NEW a \in Actors, Remove(a) PROVE Tracked(n)'
  <2>1. starget[a] \in killed /\ starget[a] \in 1..started
    BY <1>11 DEF Remove, RemovedInv, TypeOK
  <2>2. n \in Working /\ n # starget[a]
    BY <1>2, <1>5, <1>11, <2>1 DEF Remove
  <2> QED
    BY <1>10, <1>11, <2>1, <2>2 DEF Remove
<1>12. ASSUME NEW a \in Actors, CloseAgent(a) PROVE Tracked(n)'
  <2>1. killed \subseteq killed' /\ UNCHANGED <<sessions, hpc, hcur, idOf, agent, swept>>
    BY <1>12 DEF CloseAgent
  <2>2. n \in Working
    BY <1>2, <2>1 DEF Working
  <2> QED
    BY <1>6, <2>1, <2>2
<1>13. ASSUME NEW m \in Starts, Exit(m) \/ Finish(m) PROVE Tracked(n)'
  <2>1. /\ UNCHANGED <<hpc, hcur, idOf, killed, swept>> /\ agent[m] # "none"
        /\ \E q \in {"exited", "trace", "send", "over"} : agent' = [agent EXCEPT ![m] = q]
    BY <1>13 DEF Exit, Finish, Done, TraceDone, SendCompleted, Step
  <2>2. n # m /\ n \in Working /\ m \in 1..started
    BY <1>2, <2>1 DEF Working, TypeOK
  <2>3. UNCHANGED sessions \/ sessions' = Without(idOf[m])
    BY <1>13 DEF Exit, Finish, Done, TraceDone, SendCompleted
  <2> QED
    BY <1>6, <1>10, <2>1, <2>2, <2>3
<1>14. CASE CloseAll
  <2>1. /\ swept = {} /\ swept' = {sessions[i] : i \in Entries}
        /\ UNCHANGED <<agent, killed, hpc, hcur, idOf>>
    BY <1>14 DEF CloseAll, RemovedInv
  <2>2. n \in Working
    BY <1>2, <2>1 DEF Working
  <2>3. sessions[idOf[n]] # n
    BY <1>2, <1>3, <2>1, <2>2 DEF Entries, TypeOK
  <2> QED
    BY <1>3, <2>1, <2>2, <2>3 DEF Tracked, Inserting
<1>15. CASE LoopWrite \/ Shutdown
  <2>1. UNCHANGED <<sessions, hpc, hcur, idOf, agent>> /\ killed \cup swept \subseteq killed' \cup swept'
    BY <1>15 DEF LoopWrite, Shutdown, StopAll, CloseCollector, Drained, SaveAndExit
  <2>2. n \in Working
    BY <1>2, <2>1 DEF Working
  <2> QED
    BY <1>6, <2>1, <2>2
<1>16. CASE /\ UNCHANGED <<sessions, hpc, hcur, idOf, agent, killed, swept>>
  BY <1>5, <1>6, <1>16
<1> QED
  BY <1>7, <1>8, <1>9, <1>11, <1>12, <1>13, <1>14, <1>15, <1>16
  DEF Next, HandleStart, StopSession, ReceiveStop, TimerFires, vars

LEMMA InitialLimit == Init => CountInv /\ RemovedInv /\ TrackedInv
<1> SUFFICES ASSUME Init PROVE CountInv /\ RemovedInv /\ TrackedInv
  OBVIOUS
<1>1. Entries = {} /\ Inserting = {} /\ Working = {}
  BY DEF Init, Entries, Inserting, Working
<1>2. Cardinality(Handlers) \in Nat /\ Cardinality(Handlers) # 0
  BY FS_EmptySet, FS_CardinalityType
<1>3. Cardinality(Entries) = 0 /\ Cardinality(Inserting) = 0
  BY <1>1, FS_EmptySet
<1>4. CountInv
  BY <1>2, <1>3 DEF CountInv
<1>5. RemovedInv
  BY DEF Init, RemovedInv
<1>6. TrackedInv
  BY <1>1 DEF TrackedInv
<1> QED
  BY <1>4, <1>5, <1>6

LEMMA LimitFollows == TypeOK /\ CountInv /\ TrackedInv => WithinLimit
<1> SUFFICES ASSUME TypeOK, CountInv, TrackedInv, Fresh
             PROVE  Cardinality(Working) <= MaxSessions + Cardinality(Handlers) - 1
  BY DEF WithinLimit
<1>1. Cardinality(Working) <= Cardinality(Entries) + Cardinality(Inserting)
  BY TrackedAreFew
<1>2. IsFiniteSet(Working)
  BY FS_Interval, FS_Subset DEF Working
<1>3. Cardinality(Working) \in Nat
  BY <1>2, FS_CardinalityType
<1> QED
  BY <1>1, <1>3, FiniteSets DEF CountInv

\* Unless an id is used twice, no more agents work at a time than the limit and
\* the number of handlers allow, whatever their numbers.
THEOREM WithinLimitHolds == Spec => []WithinLimit
<1>1. Init => CountInv /\ RemovedInv /\ TrackedInv
  BY InitialLimit
<1>2. TypeOK /\ CountInv /\ RemovedInv /\ TrackedInv /\ [Next]_vars
        => CountInv' /\ RemovedInv' /\ TrackedInv'
  BY CountStep, RemovedStep, TrackedStep
<1>3. TypeOK /\ CountInv /\ TrackedInv => WithinLimit
  BY LimitFollows
<1> QED
  BY <1>1, <1>2, <1>3, TypeCorrect, PTL DEF Spec
===============================================================================
