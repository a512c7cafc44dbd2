----------------------------- MODULE SshProxyProofs -----------------------------
(***************************************************************************)
(* Proofs about the session table of the SSH proxy: its types, that the    *)
(* cloud is told once of the end of a session, and, while ids are not      *)
(* reused, that an open session can be found and that the limit is         *)
(* exceeded by the opens under way at most; then about the streams of one  *)
(* session, their limit and their order.                                   *)
(***************************************************************************)
EXTENDS MCSshProxy, FiniteSetTheorems, TLAPS

USE ConstAssumption DEF ConstAssumption, Insts, Actors, sessVars, makeVars, askVars,
  actVars

\* What a step does to the sessions: nothing, an insertion, a close, the timer.
Quiet == UNCHANGED <<makeVars, state, sent>>
Inserts == \E d \in Readers : Insert(d)
Closes(i) == i \in 1..made /\ Close(i) /\ UNCHANGED <<makeVars>>

\* The types, in the parts the proofs use.
SessTypeOK ==
  /\ made \in 0..MaxOpens
  /\ idOf \in [Insts -> Ids] /\ state \in [Insts -> {"none", "open", "closed"}]
  /\ \A i \in Insts : state[i] = "none" <=> i > made
  /\ sent \in [Insts -> Nat] /\ timer \in [Insts -> {"none", "armed", "off"}]
ActTypeOK ==
  /\ table \in [Ids -> 0..made]
  /\ running \subseteq 1..made /\ taken \subseteq 1..made
  /\ act \in [Actors -> {"idle", "dial", "arm", "lookup", "close", "delete"}]
  /\ actId \in [Actors -> Ids] /\ target \in [Actors -> 0..made]
  /\ \A a \in Actors : act[a] \in {"arm", "close"} => target[a] # 0
AskTypeOK == asked \in 0..MaxAsked /\ refused \in 0..asked

LEMMA TypeParts == TypeOK <=> SessTypeOK /\ ActTypeOK /\ AskTypeOK
BY DEF TypeOK, SessTypeOK, ActTypeOK, AskTypeOK

\* Closing a session keeps the types of the sessions, and tells the cloud once.
LEMMA CloseKeeps ==
  ASSUME NEW i \in 1..made, SessTypeOK, Close(i), UNCHANGED makeVars
  PROVE  SessTypeOK' /\ (ToldOnce => ToldOnce')
<1>1. i \in Insts /\ made \in Nat
  BY DEF SessTypeOK
<1>2. CASE state[i] = "open"
  <2>1. /\ state' = [state EXCEPT ![i] = "closed"]
        /\ sent' = [sent EXCEPT ![i] = @ + 1]
        /\ timer' = [timer EXCEPT ![i] = IF @ = "armed" THEN "off" ELSE @]
    BY <1>2 DEF Close
  <2>2. SessTypeOK'
    BY <1>1, <2>1 DEF SessTypeOK
  <2>3. ToldOnce => ToldOnce'
    BY <1>1, <1>2, <2>1 DEF SessTypeOK, ToldOnce
  <2> QED
    BY <2>2, <2>3
<1>3. CASE state[i] # "open"
  BY <1>3 DEF Close, SessTypeOK, ToldOnce
<1> QED
  BY <1>2, <1>3

\* Every step leaves the sessions alone but for a timer, inserts one or closes
\* one.
LEMMA StepKinds ==
  ASSUME SessTypeOK, ActTypeOK, [Next]_vars
  PROVE  \/ Inserts
         \/ \E i \in Insts : i \in 1..made /\ Close(i) /\ UNCHANGED makeVars
         \/ /\ UNCHANGED <<makeVars, state, sent>>
            /\ timer' \in [Insts -> {"none", "armed", "off"}]
<1> DEFINE Kinds ==
      \/ Inserts
      \/ \E i \in Insts : i \in 1..made /\ Close(i) /\ UNCHANGED makeVars
      \/ /\ UNCHANGED <<makeVars, state, sent>>
         /\ timer' \in [Insts -> {"none", "armed", "off"}]
<1>1. ASSUME NEW d \in Readers, NEW id \in Ids,
             OpenCheck(d, id) \/ CloseRequest(d, id) \/ OpenFails(d) \/ Insert(d)
      PROVE  Kinds
  BY <1>1 DEF OpenCheck, CloseRequest, OpenFails, Inserts, SessTypeOK
<1>2. ASSUME NEW d \in Readers, NEW id \in Ids, WriteData(d, id) PROVE Kinds
  BY <1>2 DEF WriteData, SessTypeOK, ActTypeOK
<1>3. ASSUME NEW d \in Readers, StartSession(d) PROVE Kinds
  BY <1>3 DEF StartSession, Arm, SessTypeOK, ActTypeOK
<1>4. ASSUME NEW a \in Actors, LookUp(a) \/ DeleteEntry(a) PROVE Kinds
  BY <1>4 DEF LookUp, DeleteEntry, SessTypeOK
<1>5. ASSUME NEW a \in Actors, CloseFound(a) PROVE Kinds
  <2>1. target[a] \in Insts /\ target[a] \in 1..made
    BY <1>5 DEF CloseFound, SessTypeOK, ActTypeOK
  <2> QED
    BY <1>5, <2>1 DEF CloseFound
<1>6. ASSUME NEW i \in Insts, TimerFires(i) \/ Output(i) PROVE Kinds
  BY <1>6 DEF TimerFires, Output, SessTypeOK
<1>7. ASSUME NEW i \in Insts, ProcessEnds(i) \/ ReadEnds(i) \/ CloseTaken(i)
      PROVE  Kinds
  BY <1>7 DEF ProcessEnds, ReadEnds, CloseTaken, ActTypeOK
<1>8. CASE CloseAll \/ UNCHANGED vars
  BY <1>8 DEF CloseAll, vars, SessTypeOK
<1> QED
  BY <1>1, <1>2, <1>3, <1>4, <1>5, <1>6, <1>7, <1>8 DEF Next, CloseSession

SessOK == SessTypeOK /\ ToldOnce

\* Whoever closes a session, its types are kept and the cloud is told once.
LEMMA SessStep == SessOK /\ ActTypeOK /\ [Next]_vars => SessOK'
<1> SUFFICES ASSUME SessOK, ActTypeOK, [Next]_vars PROVE SessOK'
  OBVIOUS
<1>1. ASSUME NEW d \in Readers, Insert(d) PROVE SessOK'
  <2>1. made + 1 \in Insts /\ made' = made + 1 /\ actId[d] \in Ids
    BY <1>1 DEF Insert, SessOK, SessTypeOK, ActTypeOK
  <2>2. /\ idOf' = [idOf EXCEPT ![made + 1] = actId[d]]
        /\ state' = [state EXCEPT ![made + 1] = "open"]
        /\ UNCHANGED <<sent, timer>>
    BY <1>1, <2>1 DEF Insert
  <2>3. SessTypeOK'
    BY <2>1, <2>2 DEF SessOK, SessTypeOK
  <2>4. ToldOnce'
    BY <2>1, <2>2 DEF SessOK, SessTypeOK, ToldOnce
  <2> QED
    BY <2>3, <2>4 DEF SessOK
<1>2. ASSUME NEW i \in 1..made, Close(i), UNCHANGED makeVars PROVE SessOK'
  BY <1>2, CloseKeeps DEF SessOK
<1>3. CASE /\ UNCHANGED <<makeVars, state, sent>>
           /\ timer' \in [Insts -> {"none", "armed", "off"}]
  BY <1>3 DEF SessOK, SessTypeOK, ToldOnce
<1> QED
  BY <1>1, <1>2, <1>3, StepKinds DEF SessOK, Inserts

LEMMA ActStep == SessTypeOK /\ ActTypeOK /\ [Next]_vars => ActTypeOK'
<1> SUFFICES ASSUME SessTypeOK, ActTypeOK, [Next]_vars PROVE ActTypeOK'
  OBVIOUS
<1> USE DEF ActTypeOK
<1>1. ASSUME NEW d \in Readers, NEW id \in Ids,
             OpenCheck(d, id) \/ CloseRequest(d, id) \/ WriteData(d, id)
      PROVE  ActTypeOK'
  BY <1>1, ZenonT(40) DEF OpenCheck, CloseRequest, WriteData
<1>2. ASSUME NEW d \in Readers, Insert(d) PROVE ActTypeOK'
  <2>1. made \in Nat /\ made' = made + 1 /\ d \in Actors
    BY <1>2 DEF Insert, SessTypeOK
  <2>2. /\ table' = [table EXCEPT ![actId[d]] = made + 1]
        /\ act' = [act EXCEPT ![d] = "arm"]
        /\ target' = [target EXCEPT ![d] = made + 1]
        /\ UNCHANGED <<running, taken, actId>>
    BY <1>2, <2>1 DEF Insert
  <2>3. 0..made \subseteq 0..made' /\ 1..made \subseteq 1..made' /\ made + 1 \in 1..made'
    BY <2>1
  <2>4. table' \in [Ids -> 0..made'] /\ target' \in [Actors -> 0..made']
    BY <2>1, <2>2, <2>3
  <2>5. act' \in [Actors -> {"idle", "dial", "arm", "lookup", "close", "delete"}]
    BY <2>2
  <2>6. \A a \in Actors : act'[a] \in {"arm", "close"} => target'[a] # 0
    BY <2>1, <2>2
  <2> QED
    BY <2>2, <2>3, <2>4, <2>5, <2>6
<1>3. ASSUME NEW d \in Readers, OpenFails(d) \/ StartSession(d) PROVE ActTypeOK'
  <2>1. CASE OpenFails(d)
    BY <2>1 DEF OpenFails
  <2>2. CASE StartSession(d)
    <3>1. target[d] \in 1..made
      BY <2>2 DEF StartSession, SessTypeOK
    <3> QED
      BY <2>2, <3>1 DEF StartSession
  <2> QED
    BY <1>3, <2>1, <2>2
<1>4. ASSUME NEW a \in Actors, LookUp(a) PROVE ActTypeOK'
  BY <1>4 DEF LookUp, AfterLookup, Found
<1>5. ASSUME NEW a \in Actors, CloseFound(a) \/ DeleteEntry(a) PROVE ActTypeOK'
  <2>1. CASE CloseFound(a)
    BY <2>1 DEF CloseFound
  <2>2. CASE DeleteEntry(a)
    <3>1. table' \in [Ids -> 0..made]
      BY <2>2 DEF DeleteEntry, SessTypeOK
    <3> QED
      BY <2>2, <3>1 DEF DeleteEntry
  <2> QED
    BY <1>5, <2>1, <2>2
<1>6. ASSUME NEW i \in Insts, TimerFires(i) PROVE ActTypeOK'
  BY <1>6 DEF TimerFires, SessTypeOK
<1>7. ASSUME NEW i \in Insts,
             Output(i) \/ ProcessEnds(i) \/ ReadEnds(i) \/ CloseTaken(i)
      PROVE  ActTypeOK'
  BY <1>7 DEF Output, ProcessEnds, ReadEnds, CloseTaken
<1>8. CASE CloseAll
  <2>1. {table[id] : id \in Entries} \subseteq 1..made
    BY DEF Entries, SessTypeOK
  <2> QED
    BY <1>8, <2>1 DEF CloseAll, SessTypeOK
<1>9. CASE UNCHANGED vars
  BY <1>9 DEF vars
<1> QED
  BY <1>1, <1>2, <1>3, <1>4, <1>5, <1>6, <1>7, <1>8, <1>9 DEF Next, CloseSession

LEMMA AskStep == AskTypeOK /\ [Next]_vars => AskTypeOK'
BY DEF AskTypeOK, Next, vars, CloseSession, OpenCheck, CloseRequest, WriteData,
  OpenFails, Insert, StartSession, LookUp, CloseFound, DeleteEntry, TimerFires,
  Output, ProcessEnds, ReadEnds, CloseTaken, CloseAll

LEMMA InitOK == Init => SessOK /\ ActTypeOK /\ AskTypeOK
<1> SUFFICES ASSUME Init PROVE SessOK /\ ActTypeOK /\ AskTypeOK
  OBVIOUS
<1>1. (CHOOSE id \in Ids : TRUE) \in Ids
  OBVIOUS
<1>2. SessOK
  BY <1>1 DEF Init, SessOK, SessTypeOK, ToldOnce
<1>3. ActTypeOK
  BY <1>1 DEF Init, ActTypeOK
<1> QED
  BY <1>2, <1>3 DEF Init, AskTypeOK

LEMMA Typed == Spec => [](SessOK /\ ActTypeOK /\ AskTypeOK)
<1>1. SessOK => SessTypeOK
  BY DEF SessOK
<1> QED
  BY <1>1, InitOK, SessStep, ActStep, AskStep, PTL DEF Spec

\* Type correctness; no actor closes a session it has not found.
THEOREM TypeCorrect == Spec => []TypeOK
BY Typed, TypeParts, PTL DEF SessOK

\* The cloud gets one ssh:close for each session that ends, whichever of the
\* process, the reading goroutine, the idle timer, ssh:close and CloseAll come.
THEOREM ToldOnceHolds == Spec => []ToldOnce
BY Typed, PTL DEF SessOK

-------------------------------------------------------------------------------
\* Ids name sessions: none is opened under an id that is, or is about to be, used.
Named ==
  /\ \A i, j \in 1..made : idOf[i] = idOf[j] => i = j
  /\ \A d \in Readers : act[d] = "dial" => \A i \in 1..made : idOf[i] # actId[d]
  /\ \A d, e \in Readers :
       act[d] = "dial" /\ act[e] = "dial" /\ actId[d] = actId[e] => d = e

\* An entry is under the id of its session, and an entry is only deleted once its
\* session is closed.
Tracked ==
  /\ \A id \in Ids : table[id] # 0 => idOf[table[id]] = id
  /\ \A a \in Actors : act[a] \in {"close", "delete"} =>
       target[a] \in 1..made /\ idOf[target[a]] = actId[a]
  /\ \A a \in Actors : act[a] = "delete" => state[target[a]] = "closed"

Types == SessTypeOK /\ ActTypeOK

\* Only OpenCheck and Insert bear on how sessions are named.
LEMMA NamedStep ==
  ASSUME ~Reuse, Types, Named, [Next]_vars PROVE Named'
<1> USE DEF Types, SessTypeOK, ActTypeOK, Named
<1>1. ASSUME NEW d \in Readers, NEW id \in Ids, OpenCheck(d, id) PROVE Named'
  <2>1. CASE act' = act /\ actId' = actId
    BY <1>1, <2>1 DEF OpenCheck
  <2>2. CASE /\ act' = [act EXCEPT ![d] = "dial"]
             /\ actId' = [actId EXCEPT ![d] = id]
    <3>1. /\ \A i \in 1..made : idOf[i] # id
          /\ \A e \in Readers : act[e] = "dial" => actId[e] # id
      BY <1>1 DEF OpenCheck
    <3>2. UNCHANGED makeVars
      BY <1>1 DEF OpenCheck
    <3> QED
      BY <2>2, <3>1, <3>2
  <2> QED
    BY <1>1, <2>1, <2>2 DEF OpenCheck
<1>2. ASSUME NEW d \in Readers, Insert(d) PROVE Named'
  <2>1. /\ made' = made + 1 /\ made + 1 \in Insts
        /\ idOf' = [idOf EXCEPT ![made + 1] = actId[d]]
        /\ act[d] = "dial" /\ act' = [act EXCEPT ![d] = "arm"] /\ actId' = actId
    BY <1>2 DEF Insert
  <2>9. made \in Nat /\ 1..made' = (1..made) \cup {made + 1}
    BY <2>1
  <2>10. /\ idOf'[made + 1] = actId[d]
         /\ \A i \in 1..made : idOf[i] # actId[d]
    BY <2>1
  <2>2. /\ idOf'[made + 1] = actId[d]
        /\ \A i \in 1..made : i \in Insts /\ i # made + 1
        /\ \A i \in 1..made : idOf[i] # actId[d]
        /\ 1..made' = (1..made) \cup {made + 1}
    BY <2>9, <2>10
  <2>8. \A i \in 1..made : idOf'[i] = idOf[i]
    BY <2>1, <2>2
  <2>3. \A i, j \in 1..made' : idOf'[i] = idOf'[j] => i = j
    BY <2>2, <2>8, SMTT(30)
  <2>4. \A e \in Readers : act'[e] = "dial" => e # d /\ act[e] = "dial"
    BY <2>1
  <2>5. \A e \in Readers : act'[e] = "dial" => actId[e] # actId[d]
    BY <2>1, <2>4
  <2>6. \A e \in Readers : act'[e] = "dial" => \A i \in 1..made' : idOf'[i] # actId'[e]
    BY <2>1, <2>2, <2>4, <2>5, <2>8
  <2>7. \A c, e \in Readers :
          act'[c] = "dial" /\ act'[e] = "dial" /\ actId'[c] = actId'[e] => c = e
    BY <2>1, <2>4
  <2> QED
    BY <2>3, <2>6, <2>7
<1>3. CASE /\ UNCHANGED makeVars
           /\ \A d \in Readers : act'[d] = "dial" => act[d] = "dial" /\ actId'[d] = actId[d]
  <2>1. made' = made /\ idOf' = idOf
    BY <1>3
  <2>2. /\ \A i, j \in 1..made : idOf[i] = idOf[j] => i = j
        /\ \A d \in Readers : act[d] = "dial" => \A i \in 1..made : idOf[i] # actId[d]
        /\ \A d, e \in Readers :
             act[d] = "dial" /\ act[e] = "dial" /\ actId[d] = actId[e] => d = e
    OBVIOUS
  <2> QED
    BY ONLY <1>3, <2>1, <2>2, Zenon DEF Named
<1>4. ASSUME NEW d \in Readers, NEW id \in Ids,
             CloseRequest(d, id) \/ WriteData(d, id) \/ OpenFails(d) \/ StartSession(d)
      PROVE  Named'
  BY <1>3, <1>4 DEF CloseRequest, WriteData, OpenFails, StartSession
<1>5. ASSUME NEW a \in Actors, LookUp(a) \/ CloseFound(a) \/ DeleteEntry(a) PROVE Named'
  BY <1>3, <1>5 DEF LookUp, AfterLookup, CloseFound, DeleteEntry
<1>6. ASSUME NEW i \in Insts,
             TimerFires(i) \/ Output(i) \/ ProcessEnds(i) \/ ReadEnds(i) \/ CloseTaken(i)
      PROVE  Named'
  BY <1>3, <1>6 DEF TimerFires, Output, ProcessEnds, ReadEnds, CloseTaken
<1>7. CASE CloseAll \/ UNCHANGED vars
  BY <1>3, <1>7 DEF CloseAll, vars
<1> QED
  BY <1>1, <1>2, <1>4, <1>5, <1>6, <1>7 DEF Next, CloseSession

\* A step that closes or forgets nothing keeps open sessions where they are.
LEMMA CloseOnlyCloses ==
  ASSUME Types, NEW i \in 1..made, Close(i)
  PROVE  /\ \A j \in Insts : state'[j] = "open" => state[j] = "open"
         /\ \A j \in Insts : state[j] = "closed" => state'[j] = "closed"
         /\ state[i] \in {"open", "closed"} => state'[i] = "closed"
<1>1. i \in Insts
  BY DEF Types, SessTypeOK
<1>2. CASE state[i] = "open"
  BY <1>1, <1>2 DEF Close, Types, SessTypeOK
<1>3. CASE state[i] # "open"
  BY <1>1, <1>3 DEF Close, Types, SessTypeOK
<1> QED
  BY <1>2, <1>3

\* Steps that touch neither the table nor what CloseSession works on, and at
\* most close sessions.
LEMMA TrackedQuiet ==
  ASSUME Types, Tracked, OpenIsFound,
         UNCHANGED <<table, makeVars, taken>>,
         \A a \in Actors : act'[a] \in {"close", "delete"} =>
           act'[a] = act[a] /\ target'[a] = target[a] /\ actId'[a] = actId[a],
         \A j \in Insts : state'[j] = "open" => state[j] = "open",
         \A j \in Insts : state[j] = "closed" => state'[j] = "closed"
  PROVE  Tracked' /\ OpenIsFound'
<1>1. 1..made \subseteq Insts
  BY DEF Types, SessTypeOK
<1>2. Tracked'
  BY <1>1 DEF Tracked
<1>3. OpenIsFound'
  BY DEF OpenIsFound, Open
<1> QED
  BY <1>2, <1>3

\* Insertion: no other open session has the id.
LEMMA TrackedInsert ==
  ASSUME Types, Named, Tracked, OpenIsFound, NEW d \in Readers, Insert(d)
  PROVE  Tracked' /\ OpenIsFound'
<1> USE DEF Types, SessTypeOK, ActTypeOK
<1>1. /\ made' = made + 1 /\ made + 1 \in Insts /\ actId[d] \in Ids
      /\ act[d] = "dial" /\ act' = [act EXCEPT ![d] = "arm"] /\ actId' = actId
      /\ idOf' = [idOf EXCEPT ![made + 1] = actId[d]]
      /\ state' = [state EXCEPT ![made + 1] = "open"]
      /\ table' = [table EXCEPT ![actId[d]] = made + 1]
      /\ target' = [target EXCEPT ![d] = made + 1] /\ taken' = taken
  BY DEF Insert
<1>2. \A i \in 1..made : i \in Insts /\ i # made + 1
  BY <1>1
<1>3. \A i \in 1..made : idOf'[i] = idOf[i] /\ state'[i] = state[i]
  BY <1>1, <1>2
<1>4. idOf'[made + 1] = actId[d] /\ table'[actId[d]] = made + 1
  BY <1>1
<1>5. \A id \in Ids \ {actId[d]} : table'[id] = table[id]
  BY <1>1
<1>6. \A i \in 1..made : idOf[i] # actId[d]
  BY <1>1 DEF Named
<1>7. \A a \in Actors : act'[a] \in {"close", "delete"} =>
        act[a] = act'[a] /\ target'[a] = target[a]
  BY <1>1
<1>8. \A id \in Ids : table'[id] # 0 => idOf'[table'[id]] = id
  <2> SUFFICES ASSUME NEW id \in Ids, table'[id] # 0 PROVE idOf'[table'[id]] = id
    OBVIOUS
  <2>1. CASE id = actId[d]
    BY <1>4, <2>1
  <2>2. CASE id # actId[d]
    <3>1. table'[id] = table[id] /\ table[id] \in 1..made
      BY <1>5, <2>2
    <3> QED
      BY <1>3, <3>1, SMTT(30) DEF Tracked
  <2> QED
    BY <2>1, <2>2
<1>9. Tracked'
  <2> SUFFICES ASSUME NEW a \in Actors, act'[a] \in {"close", "delete"}
               PROVE  /\ target'[a] \in 1..made' /\ idOf'[target'[a]] = actId'[a]
                      /\ act'[a] = "delete" => state'[target'[a]] = "closed"
    <3> HIDE DEF SessTypeOK, ActTypeOK, Types
    <3> QED
      BY <1>8 DEF Tracked
  <2>1. /\ act[a] = act'[a] /\ target'[a] = target[a] /\ target[a] \in 1..made
        /\ idOf[target[a]] = actId[a]
        /\ act[a] = "delete" => state[target[a]] = "closed"
    BY <1>7 DEF Tracked
  <2>2. target'[a] \in 1..made'
    BY <1>1, <2>1
  <2>3. idOf'[target[a]] = idOf[target[a]] /\ state'[target[a]] = state[target[a]]
    BY <1>3, <2>1
  <2>4. actId' = actId
    BY <1>1
  <2> QED
    BY <2>1, <2>2, <2>3, <2>4
<1>10. OpenIsFound'
  <2> SUFFICES ASSUME NEW i \in Insts, state'[i] = "open"
               PROVE  table'[idOf'[i]] = i \/ i \in taken'
    BY DEF OpenIsFound, Open
  <2>1. CASE i = made + 1
    BY <1>4, <2>1
  <2>2. CASE i # made + 1
    <3>1. state[i] = "open" /\ i \in 1..made
      BY <1>1, <2>2
    <3>2. table[idOf[i]] = i \/ i \in taken
      BY <3>1 DEF OpenIsFound, Open
    <3> QED
      BY <1>1, <1>3, <1>5, <1>6, <3>1, <3>2
  <2> QED
    BY <2>1, <2>2
<1> QED
  BY <1>9, <1>10

\* Deletion: the entry is of the session that was closed.
LEMMA TrackedDelete ==
  ASSUME ~Reuse, Types, Named, Tracked, OpenIsFound, NEW a \in Actors, DeleteEntry(a)
  PROVE  Tracked' /\ OpenIsFound'
<1> USE DEF Types, SessTypeOK, ActTypeOK
<1>1. /\ act[a] = "delete" /\ act' = [act EXCEPT ![a] = "idle"]
      /\ table' = [table EXCEPT ![actId[a]] = 0]
      /\ UNCHANGED <<made, idOf, state, actId, target, taken>>
  BY DEF DeleteEntry
<1>2. /\ target[a] \in 1..made /\ idOf[target[a]] = actId[a]
      /\ state[target[a]] = "closed"
  BY <1>1 DEF Tracked
<1>3. Tracked'
  BY <1>1, SMTT(30) DEF Tracked
<1>4. ASSUME NEW i \in Insts, state[i] = "open"
      PROVE  table'[idOf[i]] = i \/ i \in taken
  <2>1. i \in 1..made /\ i # target[a]
    BY <1>2, <1>4
  <2>2. idOf[i] # actId[a]
    BY <1>2, <2>1 DEF Named
  <2> QED
    BY <1>1, <1>4, <2>2 DEF OpenIsFound, Open
<1> QED
  BY <1>1, <1>3, <1>4 DEF OpenIsFound, Open

LEMMA TrackedStep ==
  ASSUME ~Reuse, Types, Named, Tracked, OpenIsFound, [Next]_vars
  PROVE  Tracked' /\ OpenIsFound'
<1> USE DEF Types, SessTypeOK, ActTypeOK
<1>1. ASSUME NEW d \in Readers, Insert(d) PROVE Tracked' /\ OpenIsFound'
  BY <1>1, TrackedInsert
<1>2. ASSUME NEW d \in Readers, NEW id \in Ids,
             OpenCheck(d, id) \/ CloseRequest(d, id) \/ WriteData(d, id)
      PROVE  Tracked' /\ OpenIsFound'
  BY <1>2, TrackedQuiet DEF OpenCheck, CloseRequest, WriteData
<1>3. ASSUME NEW d \in Readers, OpenFails(d) \/ StartSession(d)
      PROVE  Tracked' /\ OpenIsFound'
  BY <1>3, TrackedQuiet DEF OpenFails, StartSession
<1>4. ASSUME NEW a \in Actors, LookUp(a) PROVE Tracked' /\ OpenIsFound'
  <2>1. CASE ~Found(actId[a])
    BY <1>4, <2>1, TrackedQuiet DEF LookUp
  <2>2. CASE Found(actId[a])
    <3>1. /\ act' = [act EXCEPT ![a] = "close"]
          /\ target' = [target EXCEPT ![a] = table[actId[a]]]
          /\ UNCHANGED <<table, made, idOf, state, actId, taken>>
      BY <1>4, <2>2 DEF LookUp, AfterLookup
    <3>2. table[actId[a]] \in 1..made /\ idOf[table[actId[a]]] = actId[a]
      BY <2>2 DEF Found, Tracked
    <3> QED
      BY <3>1, <3>2 DEF Tracked, OpenIsFound, Open
  <2> QED
    BY <2>1, <2>2
<1>5. ASSUME NEW a \in Actors, CloseFound(a) PROVE Tracked' /\ OpenIsFound'
  <2>1. target[a] \in 1..made /\ state[target[a]] \in {"open", "closed"}
    BY <1>5 DEF CloseFound, Tracked
  <2>2. /\ state'[target[a]] = "closed"
        /\ \A j \in Insts : state'[j] = "open" => state[j] = "open"
        /\ \A j \in Insts : state[j] = "closed" => state'[j] = "closed"
    BY <1>5, <2>1, CloseOnlyCloses DEF CloseFound
  <2>3. /\ act[a] = "close" /\ act' = [act EXCEPT ![a] = "delete"]
        /\ UNCHANGED <<table, made, idOf, actId, target, taken>>
    BY <1>5 DEF CloseFound
  <2>4. Tracked'
    <3>1. \A b \in Actors : act'[b] \in {"close", "delete"} =>
            b = a \/ act[b] = act'[b]
      BY <2>3
    <3>2. \A b \in Actors : act[b] \in {"close", "delete"} =>
            target[b] \in 1..made /\ idOf[target[b]] = actId[b] /\ target[b] \in Insts
      BY SMTT(30) DEF Tracked
    <3>3. ASSUME NEW b \in Actors, act'[b] = "delete"
          PROVE  state'[target[b]] = "closed"
      <4>1. CASE b = a
        BY <2>2, <4>1
      <4>2. CASE b # a
        <5>1. act[b] = "delete" /\ state[target[b]] = "closed" /\ target[b] \in Insts
          BY <3>1, <3>2, <3>3, <4>2 DEF Tracked
        <5> QED
          BY <2>2, <5>1
      <4> QED
        BY <4>1, <4>2
    <3>4. \A b \in Actors : act'[b] \in {"close", "delete"} =>
            target[b] \in 1..made /\ idOf[target[b]] = actId[b]
      BY <2>3, <3>1, <3>2
    <3> QED
      BY <2>3, <3>3, <3>4 DEF Tracked
  <2>5. OpenIsFound'
    BY <2>2, <2>3 DEF OpenIsFound, Open
  <2> QED
    BY <2>4, <2>5
<1>6. ASSUME NEW a \in Actors, DeleteEntry(a) PROVE Tracked' /\ OpenIsFound'
  BY <1>6, TrackedDelete
<1>7. ASSUME NEW i \in Insts, TimerFires(i) \/ Output(i)
      PROVE  Tracked' /\ OpenIsFound'
  BY <1>7, TrackedQuiet DEF TimerFires, Output
<1>8. ASSUME NEW i \in Insts, ProcessEnds(i) \/ ReadEnds(i) \/ CloseTaken(i)
      PROVE  Tracked' /\ OpenIsFound'
  <2>1. i \in 1..made /\ Close(i) /\ UNCHANGED <<table, makeVars, taken, actVars>>
    BY <1>8 DEF ProcessEnds, ReadEnds, CloseTaken
  <2> QED
    BY <2>1, CloseOnlyCloses, TrackedQuiet
<1>9. CASE CloseAll
  BY <1>9 DEF CloseAll, Tracked, OpenIsFound, Open, Entries
<1>10. CASE UNCHANGED vars
  BY <1>10 DEF vars, Tracked, OpenIsFound, Open
<1> QED
  BY <1>1, <1>2, <1>3, <1>4, <1>5, <1>6, <1>7, <1>8, <1>9, <1>10
  DEF Next, CloseSession

\* While ids are not reused, every open session is in the table or in the hands
\* of CloseAll, so that ssh:close and the idle timer can end it.
THEOREM OpenIsFoundHolds ==
  ASSUME ~Reuse PROVE Spec => []OpenIsFound
<1>1. Init => Named /\ Tracked /\ OpenIsFound
  BY DEF Init, Named, Tracked, OpenIsFound, Open
<1>2. Types /\ Named /\ Tracked /\ OpenIsFound /\ [Next]_vars
        => (Named /\ Tracked /\ OpenIsFound)'
  BY NamedStep, TrackedStep
<1>3. SessOK /\ ActTypeOK /\ AskTypeOK => Types
  BY DEF SessOK, Types
<1> QED
  BY <1>1, <1>2, <1>3, Typed, PTL DEF Spec

-------------------------------------------------------------------------------
(* The limit.                                                              *)

Dialling == {d \in Readers : act[d] = "dial"}

\* The sessions in the table and those about to be inserted, ids reused or not.
CountInv ==
  Cardinality(Entries) + Cardinality(Dialling) <= Max + Cardinality(Readers) - 1

LEMMA FewEntries ==
  /\ IsFiniteSet(Entries) /\ Cardinality(Entries) \in Nat
  /\ IsFiniteSet(Dialling) /\ Cardinality(Dialling) \in Nat
  /\ Cardinality(Readers) \in Nat
  /\ Cardinality(Dialling) <= Cardinality(Readers)
<1>1. Entries \subseteq Ids /\ Dialling \subseteq Readers
  BY DEF Entries, Dialling
<1> QED
  BY <1>1, FS_Subset, FS_CardinalityType

LEMMA FewEntriesNext ==
  /\ IsFiniteSet(Entries') /\ Cardinality(Entries') \in Nat
  /\ IsFiniteSet(Dialling') /\ Cardinality(Dialling') \in Nat
  /\ Cardinality(Dialling') <= Cardinality(Readers)
<1>1. Entries' \subseteq Ids /\ Dialling' \subseteq Readers
  BY DEF Entries, Dialling
<1> QED
  BY <1>1, FS_Subset, FS_CardinalityType

\* Steps that put nothing into the table and let nobody dial.
LEMMA CountShrinks ==
  ASSUME CountInv, Entries' \subseteq Entries, Dialling' \subseteq Dialling
  PROVE  CountInv'
<1>1. /\ Cardinality(Entries') <= Cardinality(Entries)
      /\ Cardinality(Dialling') <= Cardinality(Dialling)
  BY FewEntries, FS_Subset
<1> QED
  BY <1>1, FewEntries, FewEntriesNext DEF CountInv

\* Where the limit is tested there is room for every reader but the one that tests.
LEMMA CountCheck ==
  ASSUME CountInv, Types, NEW d \in Readers, NEW id \in Ids, OpenCheck(d, id)
  PROVE  CountInv'
<1>1. Entries' = Entries
  BY DEF OpenCheck, Entries
<1>2. CASE Full(Cardinality(Entries))
  <2>1. Dialling' = Dialling
    BY <1>2 DEF OpenCheck, Dialling
  <2> QED
    BY <1>1, <2>1, CountShrinks
<1>3. CASE ~Full(Cardinality(Entries))
  <2>1. Cardinality(Entries) < Max
    BY <1>3, FewEntries DEF Full
  <2> QED
    BY <1>1, <2>1, FewEntries, FewEntriesNext DEF CountInv
<1> QED
  BY <1>2, <1>3

\* An insertion turns the one into the other.
LEMMA CountInsert ==
  ASSUME CountInv, Types, NEW d \in Readers, Insert(d)
  PROVE  CountInv'
<1>1. d \in Dialling /\ Dialling' = Dialling \ {d}
  BY DEF Insert, Dialling, Types, ActTypeOK
<1>2. Cardinality(Dialling') = Cardinality(Dialling) - 1
  BY <1>1, FewEntries, FS_RemoveElement
<1>3. Entries' \subseteq Entries \cup {actId[d]}
  BY DEF Insert, Entries, Types, ActTypeOK
<1>4. /\ IsFiniteSet(Entries \cup {actId[d]})
      /\ Cardinality(Entries \cup {actId[d]}) \in
           {Cardinality(Entries), Cardinality(Entries) + 1}
  BY FewEntries, FS_AddElement
<1>5. Cardinality(Entries') <= Cardinality(Entries \cup {actId[d]})
  BY <1>3, <1>4, FS_Subset
<1>6. Cardinality(Entries') <= Cardinality(Entries) + 1
  BY <1>4, <1>5, FewEntries, FewEntriesNext
<1> QED
  BY <1>2, <1>6, FewEntries, FewEntriesNext DEF CountInv

LEMMA LimitStep == Types /\ CountInv /\ [Next]_vars => CountInv'
<1> SUFFICES ASSUME Types, CountInv, [Next]_vars PROVE CountInv'
  OBVIOUS
<1>1. ASSUME UNCHANGED table,
             \A a \in Actors : act'[a] = "dial" => act[a] = "dial"
      PROVE  CountInv'
  <2>1. Entries' = Entries /\ Dialling' \subseteq Dialling
    BY <1>1 DEF Entries, Dialling
  <2> QED
    BY <2>1, CountShrinks
<1>2. ASSUME NEW d \in Readers, NEW id \in Ids, CloseRequest(d, id) \/ WriteData(d, id)
      PROVE  CountInv'
  BY <1>1, <1>2 DEF CloseRequest, WriteData, Types, ActTypeOK
<1>3. ASSUME NEW d \in Readers, OpenFails(d) \/ StartSession(d) PROVE CountInv'
  BY <1>1, <1>3 DEF OpenFails, StartSession, Types, ActTypeOK
<1>4. ASSUME NEW a \in Actors, LookUp(a) \/ CloseFound(a) PROVE CountInv'
  BY <1>1, <1>4 DEF LookUp, AfterLookup, CloseFound, Types, ActTypeOK
<1>5. ASSUME NEW a \in Actors, DeleteEntry(a) PROVE CountInv'
  <2>1. Entries' \subseteq Entries /\ Dialling' \subseteq Dialling
    BY <1>5 DEF DeleteEntry, Entries, Dialling, Types, ActTypeOK
  <2> QED
    BY <2>1, CountShrinks
<1>6. ASSUME NEW i \in Insts,
             TimerFires(i) \/ Output(i) \/ ProcessEnds(i) \/ ReadEnds(i) \/ CloseTaken(i)
      PROVE  CountInv'
  BY <1>1, <1>6 DEF TimerFires, Output, ProcessEnds, ReadEnds, CloseTaken, Types, ActTypeOK
<1>7. CASE CloseAll
  <2>1. Entries' \subseteq Entries /\ Dialling' = Dialling
    BY <1>7 DEF CloseAll, Entries, Dialling
  <2> QED
    BY <2>1, CountShrinks
<1>8. CASE UNCHANGED vars
  BY <1>1, <1>8 DEF vars
<1> QED
  BY <1>2, <1>3, <1>4, <1>5, <1>6, <1>7, <1>8, CountCheck, CountInsert
  DEF Next, CloseSession

\* What can be found is in the table, under ids of its own.
LEMMA FoundAreFew ==
  ASSUME Types, OpenIsFound
  PROVE  /\ Cardinality(Open \ taken) \in Nat
         /\ Cardinality(Open \ taken) <= Cardinality(Entries)
<1> DEFINE found == {table[id] : id \in Entries}
           F == [id \in Entries |-> table[id]]
<1>1. F \in Surjection(Entries, found)
  BY DEF Surjection
<1>2. IsFiniteSet(found) /\ Cardinality(found) <= Cardinality(Entries)
  BY <1>1, FewEntries, FS_Surjection
<1>3. ASSUME NEW i \in Open \ taken PROVE i \in found
  <2>1. i \in 1..made /\ idOf[i] \in Ids
    BY <1>3 DEF Open, Types, SessTypeOK
  <2>2. table[idOf[i]] = i
    BY <1>3 DEF OpenIsFound
  <2> QED
    BY <2>1, <2>2 DEF Entries
<1>4. Open \ taken \subseteq found
  BY <1>3
<1> HIDE DEF found, F
<1>5. IsFiniteSet(Open \ taken) /\ Cardinality(Open \ taken) <= Cardinality(found)
  BY <1>2, <1>4, FS_Subset
<1> QED
  BY <1>2, <1>5, FewEntries, FS_CardinalityType

\* However opens, ends and closes interleave: with fresh ids, no more sessions are
\* open than the limit and the number of readers allow.
THEOREM WithinLimitHolds == Spec => []WithinLimit
<1>1. CASE Reuse
  <2>1. WithinLimit
    BY <1>1 DEF WithinLimit
  <2> QED
    BY <2>1, PTL
<1>2. CASE ~Reuse
  <2>1. Init => CountInv
    <3> SUFFICES ASSUME Init PROVE CountInv
      OBVIOUS
    <3>1. Entries = {} /\ Dialling = {}
      BY DEF Init, Entries, Dialling
    <3>2. Cardinality(Entries) = 0 /\ Cardinality(Dialling) = 0
      BY <3>1, FS_EmptySet
    <3> QED
      BY <3>2, FewEntries DEF CountInv
  <2>2. SessOK /\ ActTypeOK /\ AskTypeOK => Types
    BY DEF SessOK, Types
  <2>3. Types /\ CountInv /\ OpenIsFound => WithinLimit
    BY FoundAreFew, FewEntries DEF CountInv, WithinLimit
  <2> QED
    BY <1>2, <2>1, <2>2, <2>3, LimitStep, Typed, OpenIsFoundHolds, PTL DEF Spec
<1> QED
  BY <1>1, <1>2

\* What the table promises: with fresh ids an open session is in it, or in the hands of
\* CloseAll, and the open ones are within the limit, whatever overtakes what.
THEOREM TableSoundHolds ==
  ASSUME ~Reuse PROVE Spec => []TableSound
<1>1. OpenIsFound /\ WithinLimit => TableSound
  BY DEF TableSound
<1> QED
  BY <1>1, OpenIsFoundHolds, WithinLimitHolds, PTL

HIDE ConstAssumption DEF ConstAssumption, Insts, Actors, sessVars, makeVars, askVars,
  actVars

-------------------------------------------------------------------------------
(* The streams of a session.                                               *)

\* The second output, or the first if there is no other.
Other == CHOOSE other \in Streams : Streams = {Stdout, other}

LEMMA TwoStreams ==
  /\ Other \in Streams /\ Streams = {Stdout, Other}
  /\ Stream!Cardinality(Streams) = IF Other = Stdout THEN 1 ELSE 2
<1>1. Other \in Streams /\ Streams = {Stdout, Other}
  BY StreamAssumption DEF Other, StreamAssumption
<1>2. Stream!Cardinality(Streams) = Cardinality(Streams)
  BY DEF Stream!Cardinality, Cardinality
<1>3. Cardinality({Stdout}) = 1
  BY FS_Singleton
<1>4. ASSUME Other # Stdout PROVE Cardinality({Stdout, Other}) = 2
  <2>1. IsFiniteSet({Stdout}) /\ {Stdout, Other} = {Stdout} \cup {Other}
    BY FS_Singleton
  <2> QED
    BY <1>3, <1>4, <2>1, FS_AddElement
<1> QED
  BY <1>1, <1>2, <1>3, <1>4

\* What a reader may still count of the window it has checked.
Promise(r) == IF r.step = "count" THEN r.remaining ELSE 0
Promised(o) == Promise(reader[o])

Reader == [step : {"idle", "check", "count", "send", "over"}, at : Nat, lo : Nat,
           hi : Nat, remaining : Nat]
StreamTypeOK ==
  /\ now \in Nat /\ used \in Nat /\ window \in Nat
  /\ reader \in [Streams -> Reader] /\ read \in [Streams -> Nat]
  /\ delivered \in [Streams -> Seq(Nat)]
  /\ written \in Nat /\ input \in Seq(Nat) /\ received \in Seq(Nat)
  /\ writer \in {"idle", "write", "unlock"} /\ told \in Nat

\* What was counted and what the readers were promised fit into a window each.
PromiseInv ==
  /\ \A o \in Streams : Promised(o) <= MaxOutputRate
  /\ used + Promised(Stdout) + (IF Other = Stdout THEN 0 ELSE Promised(Other))
       <= MaxOutputRate * Stream!Cardinality(Streams)

\* What a reader has in hand comes after what was delivered.
HandInv ==
  \A o \in Streams :
    /\ \A k \in 1..Len(delivered[o]) : delivered[o][k] <= read[o]
    /\ \A k \in 1..Len(delivered[o]) - 1 : delivered[o][k] < delivered[o][k + 1]
    /\ reader[o].step \in {"check", "count", "send"} =>
         /\ reader[o].lo >= 1 /\ reader[o].hi <= read[o]
         /\ \A k \in 1..Len(delivered[o]) : delivered[o][k] < reader[o].lo
    /\ reader[o].step = "count" => reader[o].remaining >= 1
    /\ reader[o].step \in {"check", "count", "send"} => reader[o].lo <= reader[o].hi

InputInv ==
  /\ Len(received \o input) = IF writer = "write" THEN written - 1 ELSE written
  /\ \A k \in 1..Len(received \o input) : (received \o input)[k] = k

ToldInv ==
  /\ told <= 1
  /\ closer = "tell" => told = 0 /\ closed
  /\ ~closed => told = 0

StreamInv == StreamTypeOK /\ PromiseInv /\ HandInv /\ InputInv /\ ToldInv

LEMMA StreamInitInv == Stream!StreamInit => StreamInv
<1> SUFFICES ASSUME Stream!StreamInit PROVE StreamInv
  OBVIOUS
<1> USE DEF Stream!StreamInit
<1>1. Stream!Resting \in Reader
  BY DEF Stream!Resting, Reader
<1>2. StreamTypeOK
  BY <1>1 DEF StreamTypeOK
<1>3. \A o \in Streams : reader[o].step = "idle" /\ Promised(o) = 0
  BY DEF Stream!Resting, Promised, Promise
<1>4. PromiseInv
  BY <1>3, TwoStreams, StreamAssumption DEF PromiseInv, StreamAssumption
<1>5. HandInv
  BY <1>3 DEF HandInv
<1>6. InputInv /\ ToldInv
  BY DEF InputInv, ToldInv
<1> QED
  BY <1>2, <1>4, <1>5, <1>6 DEF StreamInv

LEMMA ConcatLen ==
  ASSUME NEW S, NEW s \in Seq(S), NEW t \in Seq(S)
  PROVE  Len(s \o t) = Len(s) + Len(t)
OBVIOUS

\* Input is taken from and put into one queue of inputs, received \o input.
LEMMA InputStep ==
  ASSUME StreamInv,
         \/ Stream!WriteData \/ Stream!Write \/ Stream!WriteReturns \/ Stream!ShellTakes
  PROVE  StreamInv'
<1> USE DEF Stream!outputVars, Stream!closeVars
<1>1. UNCHANGED <<now, used, window, reader, read, delivered, closed, told, closer>>
  BY DEF Stream!WriteData, Stream!Write, Stream!WriteReturns, Stream!ShellTakes
<1>2. /\ written \in Nat /\ input \in Seq(Nat) /\ received \in Seq(Nat)
      /\ writer \in {"idle", "write", "unlock"}
  BY DEF StreamInv, StreamTypeOK
<1>3. InputInv
  BY DEF StreamInv
<1>4. /\ written' \in Nat /\ input' \in Seq(Nat) /\ received' \in Seq(Nat)
      /\ writer' \in {"idle", "write", "unlock"} /\ InputInv'
  <2>1. CASE Stream!WriteData \/ Stream!WriteReturns
    <3>1. UNCHANGED <<input, received>>
      BY <2>1 DEF Stream!WriteData, Stream!WriteReturns
    <3> QED
      BY <1>2, <1>3, <2>1, <3>1 DEF Stream!WriteData, Stream!WriteReturns, InputInv
  <2>2. CASE Stream!Write
    <3>1. /\ writer = "write" /\ writer' = "unlock" /\ written' = written
          /\ received' = received /\ input' = Append(input, written)
      BY <2>2 DEF Stream!Write
    <3>2. input' \in Seq(Nat)
      BY <1>2, <3>1
    <3>3. /\ Len(received' \o input') = Len(received \o input) + 1
          /\ \A k \in 1..Len(received \o input) :
               (received' \o input')[k] = (received \o input)[k]
          /\ (received' \o input')[Len(received \o input) + 1] = written
          /\ Len(received \o input) \in Nat
      BY <1>2, <3>1
    <3> DEFINE s == received \o input
               t == received' \o input'
    <3>4. Len(s) = written - 1 /\ \A k \in 1..Len(s) : s[k] = k
      BY <1>3, <3>1 DEF InputInv
    <3> HIDE DEF s, t
    <3>5. Len(t) = Len(s) + 1 /\ (\A k \in 1..Len(s) : t[k] = s[k])
          /\ t[Len(s) + 1] = written /\ Len(s) \in Nat
      BY <3>3 DEF s, t
    <3>6. Len(t) = written
      BY <1>2, <3>4, <3>5
    <3>7. \A k \in 1..Len(t) : t[k] = k
      <4> SUFFICES ASSUME NEW k \in 1..Len(t) PROVE t[k] = k
        OBVIOUS
      <4>1. k \in 1..Len(s) \/ k = Len(s) + 1
        BY <3>5
      <4> QED
        BY <1>2, <3>4, <3>5, <4>1
    <3> QED
      BY <1>2, <3>1, <3>2, <3>6, <3>7 DEF InputInv, t
  <2>3. CASE Stream!ShellTakes
    <3>1. /\ input # <<>> /\ UNCHANGED <<writer, written>>
          /\ received' = Append(received, Head(input)) /\ input' = Tail(input)
      BY <2>3 DEF Stream!ShellTakes
    <3>2. /\ input' \in Seq(Nat) /\ received' \in Seq(Nat)
          /\ Len(input) \in Nat \ {0} /\ Len(received) \in Nat
          /\ Len(received') = Len(received) + 1 /\ Len(input') = Len(input) - 1
      BY <1>2, <3>1
    <3>3. Len(received' \o input') = Len(received \o input)
          /\ Len(received \o input) = Len(received) + Len(input)
      <4>1. /\ Len(received' \o input') = Len(received') + Len(input')
            /\ Len(received \o input) = Len(received) + Len(input)
        BY <1>2, <3>2, ConcatLen
      <4>2. \A m, n \in Nat : m + n = (m + 1) + (n - 1)
        OBVIOUS
      <4>3. Len(received') + Len(input') = Len(received) + Len(input)
        BY <3>2, <4>2
      <4> QED
        BY <4>1, <4>3
    <3>4. \A k \in 1..Len(received \o input) :
            (received' \o input')[k] = (received \o input)[k]
      <4> SUFFICES ASSUME NEW k \in 1..Len(received \o input)
                   PROVE  (received' \o input')[k] = (received \o input)[k]
        OBVIOUS
      <4>1. CASE k <= Len(received)
        BY <1>2, <3>1, <3>2, <3>3, <4>1
      <4>2. CASE k = Len(received) + 1
        BY <1>2, <3>1, <3>2, <3>3, <4>2
      <4>3. CASE k > Len(received) + 1
        BY <1>2, <3>1, <3>2, <3>3, <4>3
      <4> QED
        BY <3>2, <4>1, <4>2, <4>3, SMTT(30)
    <3> QED
      BY <1>2, <1>3, <3>1, <3>2, <3>3, <3>4 DEF InputInv
  <2> QED
    BY <2>1, <2>2, <2>3
<1>5. StreamTypeOK'
  BY <1>1, <1>4 DEF StreamInv, StreamTypeOK
<1>6. PromiseInv' /\ HandInv' /\ ToldInv'
  BY <1>1 DEF StreamInv, PromiseInv, HandInv, ToldInv, Promised
<1> QED
  BY <1>4, <1>5, <1>6 DEF StreamInv

LEMMA CloseStep ==
  ASSUME StreamInv,
         Stream!Second \/ Stream!CloseSession \/ Stream!Close \/ Stream!OnClose
  PROVE  StreamInv'
<1> USE DEF Stream!outputVars, Stream!inputVars, Stream!closeVars
<1>1. UNCHANGED <<used, window, reader, read, delivered, writer, written, input,
                  received>>
  BY DEF Stream!Second, Stream!CloseSession, Stream!Close, Stream!OnClose
<1>2. now' \in Nat
  BY DEF Stream!Second, Stream!CloseSession, Stream!Close, Stream!OnClose, StreamInv,
    StreamTypeOK
<1>3. told' \in Nat /\ ToldInv'
  <2>1. told \in Nat /\ ToldInv
    BY DEF StreamInv, StreamTypeOK
  <2>2. CASE Stream!Second \/ Stream!CloseSession
    BY <2>1, <2>2 DEF Stream!Second, Stream!CloseSession, ToldInv
  <2>3. CASE Stream!Close
    BY <2>1, <2>3 DEF Stream!Close, ToldInv
  <2>4. CASE Stream!OnClose
    BY <2>1, <2>4 DEF Stream!OnClose, ToldInv
  <2> QED
    BY <2>2, <2>3, <2>4
<1>4. StreamTypeOK'
  BY <1>1, <1>2, <1>3 DEF StreamInv, StreamTypeOK
<1>5. PromiseInv' /\ HandInv' /\ InputInv'
  BY <1>1 DEF StreamInv, PromiseInv, HandInv, InputInv, Promised
<1> QED
  BY <1>3, <1>4, <1>5 DEF StreamInv

\* What is promised to a reader changes by its own steps only.
LEMMA PromiseStep ==
  ASSUME StreamInv, NEW o \in Streams, NEW new \in Reader, used' \in Nat,
         reader' = [reader EXCEPT ![o] = new],
         \/ used' \in {0, used} /\ Promise(new) \in {0, MaxOutputRate - used'}
         \/ used' <= used + Promised(o) /\ Promise(new) = 0
  PROVE  PromiseInv'
<1> DEFINE R == MaxOutputRate
<1>0. /\ reader \in [Streams -> Reader] /\ used \in Nat /\ R \in Nat
      /\ \A p \in Streams : Promised(p) \in Nat /\ Promised(p) <= R
      /\ used + Promised(Stdout) + (IF Other = Stdout THEN 0 ELSE Promised(Other))
           <= R * Stream!Cardinality(Streams)
  BY StreamAssumption DEF StreamInv, StreamTypeOK, PromiseInv, Promised, Promise, Reader,
    StreamAssumption
<1>1. \A p \in Streams \ {o} : Promised(p)' = Promised(p)
  BY <1>0 DEF Promised
<1>2. Promised(o)' = Promise(new) /\ Promise(new) \in Nat
  BY <1>0 DEF Promised, Promise, Reader
<1>3. Promised(o)' <= R
  BY <1>0, <1>2
<1> HIDE DEF R
<1>4. CASE Other = Stdout
  <2>1. o = Stdout /\ Stream!Cardinality(Streams) = 1 /\ Stdout \in Streams
    BY <1>4, TwoStreams
  <2>2. used + Promised(o) <= R
    BY <1>0, <1>4, <2>1
  <2>3. used' + Promised(o)' <= R
    BY <1>0, <1>2, <2>1, <2>2 DEF R
  <2>4. \A p \in Streams : p = o
    BY <1>4, <2>1, TwoStreams
  <2>5. used' + Promised(Stdout)' + 0 <= R * 1
    BY <1>0, <1>2, <2>1, <2>3
  <2> QED
    BY <1>3, <1>4, <2>1, <2>4, <2>5 DEF PromiseInv, R
<1>5. CASE Other # Stdout
  <2>1. PICK p \in Streams : p # o /\ {o, p} = {Stdout, Other}
    BY <1>5, TwoStreams
  <2>2. Stream!Cardinality(Streams) = 2 /\ Streams = {o, p}
    <3>1. /\ Stream!Cardinality(Streams) = IF Other = Stdout THEN 1 ELSE 2
          /\ Streams = {Stdout, Other}
      BY TwoStreams
    <3>2. Stream!Cardinality(Streams) = 2
      BY <1>5, <3>1
    <3> QED
      BY <2>1, <3>1, <3>2
  <2>0. (o = Stdout /\ p = Other) \/ (o = Other /\ p = Stdout)
    BY <2>1
  <2>3. used + Promised(o) + Promised(p) <= R * 2
    <3>1. used + Promised(Stdout) + Promised(Other) <= R * 2
      BY <1>0, <1>5, <2>2
    <3>2. Promised(Stdout) \in Nat /\ Promised(Other) \in Nat
      BY <1>0, TwoStreams
    <3> QED
      BY <1>0, <2>0, <3>1, <3>2
  <2>4. Promised(p)' = Promised(p) /\ Promised(p) \in Nat /\ Promised(p) <= R
    BY <1>0, <1>1, <2>1
  <2>5. used' + Promised(o)' + Promised(p)' <= R * 2
    BY <1>0, <1>2, <2>3, <2>4 DEF R
  <2>6. used' + Promised(Stdout)' + Promised(Other)' <= R * 2
    BY <1>0, <1>2, <2>1, <2>4, <2>5
  <2> QED
    BY <1>1, <1>3, <1>5, <2>2, <2>4, <2>6 DEF PromiseInv, R
<1> QED
  BY <1>4, <1>5

\* A step of a reader: what it leaves alone, and what it has in hand.
LEMMA ReaderStep ==
  ASSUME StreamInv, NEW o \in Streams, NEW new \in Reader, used' \in Nat,
         window' \in Nat, read' \in [Streams -> Nat],
         delivered' \in [Streams -> Seq(Nat)],
         reader' = [reader EXCEPT ![o] = new], PromiseInv',
         \A p \in Streams \ {o} : read'[p] = read[p] /\ delivered'[p] = delivered[p],
         UNCHANGED <<now, closed, told, writer, written, input, received>>,
         closer' \in {closer, "close"},
         /\ \A k \in 1..Len(delivered'[o]) : delivered'[o][k] <= read'[o]
         /\ \A k \in 1..Len(delivered'[o]) - 1 : delivered'[o][k] < delivered'[o][k + 1]
         /\ new.step \in {"check", "count", "send"} =>
              /\ new.lo >= 1 /\ new.hi <= read'[o]
              /\ \A k \in 1..Len(delivered'[o]) : delivered'[o][k] < new.lo
         /\ new.step = "count" => new.remaining >= 1
         /\ new.step \in {"check", "count", "send"} => new.lo <= new.hi
  PROVE  StreamInv'
<1>1. StreamTypeOK'
  BY DEF StreamInv, StreamTypeOK
<1>2. InputInv'
  BY DEF StreamInv, InputInv
<1>3. ToldInv'
  BY DEF StreamInv, ToldInv
<1>4. reader'[o] = new /\ \A p \in Streams \ {o} : reader'[p] = reader[p]
  BY DEF StreamInv, StreamTypeOK
<1>5. HandInv'
  <2> SUFFICES ASSUME NEW p \in Streams
      PROVE  /\ \A k \in 1..Len(delivered'[p]) : delivered'[p][k] <= read'[p]
             /\ \A k \in 1..Len(delivered'[p]) - 1 :
                  delivered'[p][k] < delivered'[p][k + 1]
             /\ reader'[p].step \in {"check", "count", "send"} =>
                  /\ reader'[p].lo >= 1 /\ reader'[p].hi <= read'[p]
                  /\ \A k \in 1..Len(delivered'[p]) : delivered'[p][k] < reader'[p].lo
             /\ reader'[p].step = "count" => reader'[p].remaining >= 1
             /\ reader'[p].step \in {"check", "count", "send"} => reader'[p].lo <= reader'[p].hi
    BY DEF HandInv
  <2>1. CASE p = o
    BY <1>4, <2>1
  <2>2. CASE p # o
    <3>1. /\ reader'[p] = reader[p] /\ read'[p] = read[p]
          /\ delivered'[p] = delivered[p]
      BY <1>4, <2>2
    <3> QED
      BY <3>1 DEF StreamInv, HandInv
  <2> QED
    BY <2>1, <2>2
<1> QED
  BY <1>1, <1>2, <1>3, <1>5 DEF StreamInv

\* The data of a read.
Data(at, lo, hi) == [Stream!Resting EXCEPT !.step = "check", !.at = at, !.lo = lo,
                                           !.hi = hi]

LEMMA ReadData ==
  ASSUME NEW at \in Nat, NEW lo \in Nat, NEW hi \in Nat
  PROVE  /\ Data(at, lo, hi) \in Reader /\ Data(at, lo, hi).step = "check"
         /\ Data(at, lo, hi).lo = lo /\ Data(at, lo, hi).hi = hi
         /\ Promise(Data(at, lo, hi)) = 0
BY DEF Data, Stream!Resting, Reader, Promise

LEMMA ReaderTypes ==
  ASSUME StreamInv, NEW o \in Streams
  PROVE  /\ reader \in [Streams -> Reader] /\ read \in [Streams -> Nat]
         /\ delivered \in [Streams -> Seq(Nat)] /\ used \in Nat /\ window \in Nat
         /\ now \in Nat /\ read[o] \in Nat /\ reader[o] \in Reader
         /\ delivered[o] \in Seq(Nat) /\ Len(delivered[o]) \in Nat
         /\ MaxOutputRate \in Nat
         /\ reader[o].step \in {"idle", "check", "count", "send", "over"}
         /\ reader[o].at \in Nat /\ reader[o].lo \in Nat /\ reader[o].hi \in Nat
         /\ reader[o].remaining \in Nat
BY StreamAssumption DEF StreamInv, StreamTypeOK, StreamAssumption, Reader

LEMMA ReaderHand ==
  ASSUME StreamInv, NEW o \in Streams
  PROVE  /\ \A k \in 1..Len(delivered[o]) : delivered[o][k] <= read[o]
         /\ \A k \in 1..Len(delivered[o]) - 1 : delivered[o][k] < delivered[o][k + 1]
         /\ reader[o].step \in {"check", "count", "send"} =>
              /\ reader[o].lo >= 1 /\ reader[o].hi <= read[o]
              /\ \A k \in 1..Len(delivered[o]) : delivered[o][k] < reader[o].lo
         /\ reader[o].step = "count" => reader[o].remaining >= 1
         /\ reader[o].step \in {"check", "count", "send"} => reader[o].lo <= reader[o].hi
BY DEF StreamInv, HandInv

LEMMA ReadStep ==
  ASSUME StreamInv, NEW o \in Streams, Stream!Read(o)
  PROVE  StreamInv'
<1>1. PICK n \in 1..MaxRead :
        /\ read' = [read EXCEPT ![o] = @ + n]
        /\ reader' = [reader EXCEPT ![o] = Data(now, read[o] + 1, read[o] + n)]
  BY DEF Stream!Read, Data
<1>2. n \in Nat /\ n >= 1
  BY StreamAssumption DEF StreamAssumption
<1>3. PICK new : new = Data(now, read[o] + 1, read[o] + n)
  OBVIOUS
<1>4. reader' = [reader EXCEPT ![o] = new]
  BY <1>1, <1>3
<1>5. now \in Nat /\ read[o] + 1 \in Nat /\ read[o] + n \in Nat
  BY <1>2, ReaderTypes
<1>6. /\ new \in Reader /\ new.step = "check" /\ new.lo = read[o] + 1
      /\ new.hi = read[o] + n /\ Promise(new) = 0
  BY <1>3, <1>5, ReadData
<1>7. UNCHANGED <<now, used, window, delivered, closed, told, closer, writer,
                  written, input, received>>
  BY DEF Stream!Read, Stream!inputVars, Stream!closeVars
<1>8. read' \in [Streams -> Nat] /\ read'[o] = read[o] + n
      /\ \A p \in Streams \ {o} : read'[p] = read[p]
  <2>1. read \in [Streams -> Nat] /\ read[o] + n \in Nat
    BY <1>5, ReaderTypes
  <2> QED
    BY ONLY <1>1, <2>1, o \in Streams
<1>9. used' \in Nat /\ window' \in Nat /\ delivered' \in [Streams -> Seq(Nat)]
  BY <1>7, ReaderTypes
<1>10. PromiseInv'
  BY <1>4, <1>6, <1>7, <1>9, PromiseStep
<1>11. /\ \A k \in 1..Len(delivered[o]) : delivered[o][k] <= read[o]
       /\ \A k \in 1..Len(delivered[o]) - 1 : delivered[o][k] < delivered[o][k + 1]
       /\ \A k \in 1..Len(delivered[o]) : delivered[o][k] \in Nat
       /\ read[o] \in Nat
  BY ReaderHand, ReaderTypes
<1>12. \A k \in 1..Len(delivered'[o]) : /\ delivered'[o][k] <= read'[o]
                                         /\ delivered'[o][k] < new.lo
  BY <1>2, <1>6, <1>7, <1>8, <1>11
<1>13. \A k \in 1..Len(delivered'[o]) - 1 : delivered'[o][k] < delivered'[o][k + 1]
  BY <1>7, <1>11
<1>14. new.lo >= 1 /\ new.hi <= read'[o] /\ new.lo <= new.hi /\ new.step # "count"
  BY <1>2, <1>6, <1>8, <1>11
<1>15. \A p \in Streams \ {o} : read'[p] = read[p] /\ delivered'[p] = delivered[p]
  BY <1>7, <1>8
<1> QED
  BY <1>4, <1>6, <1>7, <1>8, <1>9, <1>10, <1>12, <1>13, <1>14, <1>15, ReaderStep

\* A reader that may send so many bytes of its data, or has cut it.
Allowed(r, remaining) == [r EXCEPT !.step = "count", !.remaining = remaining]
Cut(r, hi) == [r EXCEPT !.step = "send", !.hi = hi]

LEMMA ReaderData ==
  ASSUME NEW r \in Reader, NEW n \in Nat
  PROVE  /\ Stream!Resting \in Reader /\ Stream!Resting.step = "idle"
         /\ Promise(Stream!Resting) = 0
         /\ Allowed(r, n) \in Reader /\ Allowed(r, n).step = "count"
         /\ Allowed(r, n).lo = r.lo /\ Allowed(r, n).hi = r.hi
         /\ Allowed(r, n).remaining = n /\ Promise(Allowed(r, n)) = n
         /\ Cut(r, n) \in Reader /\ Cut(r, n).step = "send" /\ Cut(r, n).lo = r.lo
         /\ Cut(r, n).hi = n /\ Promise(Cut(r, n)) = 0
BY DEF Stream!Resting, Allowed, Cut, Reader, Promise

LEMMA CheckStep ==
  ASSUME StreamInv, NEW o \in Streams, Stream!Check(o)
  PROVE  StreamInv'
<1>1. /\ reader[o].step = "check" /\ used' \in {0, used}
      /\ window' \in {window, reader[o].at}
      /\ reader' = [reader EXCEPT ![o] =
           IF MaxOutputRate - used' <= 0 THEN Stream!Resting
           ELSE Allowed(reader[o], MaxOutputRate - used')]
  <2>1. reader[o] \in Reader /\ reader \in [Streams -> Reader]
    BY ReaderTypes
  <2> QED
    BY <2>1 DEF Stream!Check, Allowed
<1>2. UNCHANGED <<now, read, delivered, closed, told, closer, writer, written, input,
                  received>>
  BY DEF Stream!Check, Stream!inputVars, Stream!closeVars
<1>3. /\ used \in Nat /\ window \in Nat /\ MaxOutputRate \in Nat /\ reader[o].at \in Nat
      /\ reader[o] \in Reader /\ read \in [Streams -> Nat]
      /\ delivered \in [Streams -> Seq(Nat)]
  BY ReaderTypes
<1>4. used' \in Nat /\ window' \in Nat
  BY <1>1, <1>3
<1>5. PICK new : new = IF MaxOutputRate - used' <= 0 THEN Stream!Resting
                       ELSE Allowed(reader[o], MaxOutputRate - used')
  OBVIOUS
<1>6. reader' = [reader EXCEPT ![o] = new]
  BY <1>1, <1>5
<1>7. /\ new \in Reader /\ Promise(new) \in {0, MaxOutputRate - used'}
      /\ \/ new.step = "idle"
         \/ /\ new.step = "count" /\ new.remaining >= 1
            /\ new.lo = reader[o].lo /\ new.hi = reader[o].hi
  <2>1. CASE MaxOutputRate - used' <= 0
    <3>1. new = Stream!Resting
      BY <1>5, <2>1
    <3> QED
      BY <1>3, <3>1, ReaderData
  <2>2. CASE ~(MaxOutputRate - used' <= 0)
    <3>1. new = Allowed(reader[o], MaxOutputRate - used')
      BY <1>5, <2>2
    <3>2. MaxOutputRate - used' \in Nat /\ MaxOutputRate - used' >= 1
      <4>1. \A m, n \in Nat : ~(m - n <= 0) => m - n \in Nat /\ m - n >= 1
        OBVIOUS
      <4>2. MaxOutputRate \in Nat /\ used' \in Nat
        BY <1>3, <1>4
      <4> QED
        BY <2>2, <4>1, <4>2
    <3>3. reader[o] \in Reader
      BY <1>3
    <3> QED
      BY <3>1, <3>2, <3>3, ReaderData, ZenonT(40)
  <2> QED
    BY <2>1, <2>2
<1>8. PromiseInv'
  BY <1>1, <1>4, <1>6, <1>7, PromiseStep
<1>9. /\ \A k \in 1..Len(delivered[o]) : delivered[o][k] <= read[o]
      /\ \A k \in 1..Len(delivered[o]) - 1 : delivered[o][k] < delivered[o][k + 1]
      /\ reader[o].lo >= 1 /\ reader[o].hi <= read[o] /\ reader[o].lo <= reader[o].hi
      /\ \A k \in 1..Len(delivered[o]) : delivered[o][k] < reader[o].lo
  BY <1>1, ReaderHand
<1>10. new.step \in {"check", "count", "send"} =>
         /\ new.lo >= 1 /\ new.hi <= read[o] /\ new.lo <= new.hi
         /\ \A k \in 1..Len(delivered[o]) : delivered[o][k] < new.lo
  BY <1>7, <1>9
<1>11. new.step = "count" => new.remaining >= 1
  BY <1>7
<1> QED
  BY <1>2, <1>3, <1>4, <1>6, <1>7, <1>8, <1>9, <1>10, <1>11, ReaderStep

LEMMA CountStep ==
  ASSUME StreamInv, NEW o \in Streams, Stream!Count(o)
  PROVE  StreamInv'
<1>1. /\ reader[o] \in Reader /\ reader \in [Streams -> Reader] /\ used \in Nat
      /\ reader[o].lo \in Nat /\ reader[o].hi \in Nat /\ reader[o].remaining \in Nat
      /\ window \in Nat /\ read \in [Streams -> Nat] /\ delivered \in [Streams -> Seq(Nat)]
      /\ read[o] \in Nat
  BY ReaderTypes
<1>2. /\ reader[o].step = "count"
      /\ used' = used + Stream!SendTo(o) - reader[o].lo + 1
      /\ reader' = [reader EXCEPT ![o] = Cut(reader[o], Stream!SendTo(o))]
  BY <1>1 DEF Stream!Count, Cut
<1>3. UNCHANGED <<now, window, read, delivered, closed, told, closer, writer, written,
                  input, received>>
  BY DEF Stream!Count, Stream!inputVars, Stream!closeVars
<1>4. /\ \A k \in 1..Len(delivered[o]) : delivered[o][k] <= read[o]
      /\ \A k \in 1..Len(delivered[o]) - 1 : delivered[o][k] < delivered[o][k + 1]
      /\ reader[o].lo >= 1 /\ reader[o].hi <= read[o] /\ reader[o].lo <= reader[o].hi
      /\ \A k \in 1..Len(delivered[o]) : delivered[o][k] < reader[o].lo
      /\ reader[o].remaining >= 1
  BY <1>2, ReaderHand
<1>5. /\ Stream!SendTo(o) \in Nat /\ Stream!SendTo(o) <= reader[o].hi
      /\ reader[o].lo <= Stream!SendTo(o)
      /\ Stream!SendTo(o) <= reader[o].lo + reader[o].remaining - 1
  BY <1>1, <1>4 DEF Stream!SendTo, Stream!Least
<1>6. PICK new : new = Cut(reader[o], Stream!SendTo(o))
  OBVIOUS
<1>7. reader' = [reader EXCEPT ![o] = new]
  BY <1>2, <1>6
<1>8. /\ new \in Reader /\ new.step = "send" /\ new.lo = reader[o].lo
      /\ new.hi = Stream!SendTo(o) /\ Promise(new) = 0
  <2>1. reader[o] \in Reader /\ Stream!SendTo(o) \in Nat
    BY <1>1, <1>5
  <2> QED
    BY <1>6, <2>1, ReaderData
<1>9. used' \in Nat /\ used' <= used + Promised(o)
  <2>1. Promised(o) = reader[o].remaining
    BY <1>2 DEF Promised, Promise
  <2>2. \A u, lo, hi, r \in Nat : lo <= hi /\ hi <= lo + r - 1
          => u + hi - lo + 1 \in Nat /\ u + hi - lo + 1 <= u + r
    OBVIOUS
  <2>3. /\ used \in Nat /\ reader[o].lo \in Nat /\ reader[o].remaining \in Nat
        /\ Stream!SendTo(o) \in Nat
    BY <1>1, <1>5
  <2>4. /\ used + Stream!SendTo(o) - reader[o].lo + 1 \in Nat
        /\ used + Stream!SendTo(o) - reader[o].lo + 1 <= used + reader[o].remaining
    BY <1>5, <2>2, <2>3
  <2> QED
    BY <1>2, <2>1, <2>4
<1>10. PromiseInv'
  BY <1>7, <1>8, <1>9, PromiseStep
<1>11. /\ new.lo >= 1 /\ new.hi <= read[o] /\ new.lo <= new.hi
       /\ \A k \in 1..Len(delivered[o]) : delivered[o][k] < new.lo
  BY <1>1, <1>4, <1>5, <1>8
<1>12. window' \in Nat /\ read' \in [Streams -> Nat] /\ delivered' \in [Streams -> Seq(Nat)]
  BY <1>1, <1>3
<1> QED
  BY <1>3, <1>4, <1>7, <1>8, <1>9, <1>10, <1>11, <1>12, ReaderStep

\* Data that comes after what a sequence has keeps it rising.
LEMMA RisesOn ==
  ASSUME NEW s \in Seq(Nat), NEW lo \in Nat, NEW hi \in Nat, lo <= hi,
         \A k \in 1..Len(s) : s[k] < lo,
         \A k \in 1..Len(s) - 1 : s[k] < s[k + 1],
         NEW t, t = s \o [k \in 1..hi - lo + 1 |-> lo + k - 1]
  PROVE  /\ t \in Seq(Nat)
         /\ \A k \in 1..Len(t) : t[k] <= hi
         /\ \A k \in 1..Len(t) - 1 : t[k] < t[k + 1]
<1> DEFINE u == [k \in 1..hi - lo + 1 |-> lo + k - 1]
           n == hi - lo + 1
<1>1. n \in Nat /\ u \in [1..n -> Nat]
  OBVIOUS
<1>2. u \in Seq(Nat) /\ Len(u) = n /\ \A k \in 1..n : u[k] = lo + k - 1
  BY <1>1
<1>3. t = s \o u
  OBVIOUS
<1> HIDE DEF u
<1>4. /\ t \in Seq(Nat) /\ Len(t) = Len(s) + n /\ Len(s) \in Nat
      /\ \A k \in 1..Len(s) : t[k] = s[k]
      /\ \A k \in Len(s) + 1..Len(t) : t[k] = u[k - Len(s)]
  <2>1. u \in Seq(Nat) /\ n \in Nat /\ Len(u) = n /\ s \in Seq(Nat) /\ t = s \o u
    BY <1>1, <1>2, <1>3
  <2> HIDE DEF n
  <2> QED
    BY ONLY <2>1
<1>5. \A k \in Len(s) + 1..Len(t) : t[k] = lo + (k - Len(s)) - 1
  BY <1>1, <1>2, <1>4
<1>6. \A k \in 1..Len(s) : s[k] \in Nat
  OBVIOUS
<1>7. \A k \in 1..Len(t) : t[k] <= hi
  <2> SUFFICES ASSUME NEW k \in 1..Len(t) PROVE t[k] <= hi
    OBVIOUS
  <2>1. CASE k <= Len(s)
    BY <1>4, <1>6, <2>1
  <2>2. CASE k > Len(s)
    BY <1>4, <1>5, <2>2
  <2> QED
    BY <1>4, <2>1, <2>2
<1>8. \A k \in 1..Len(t) - 1 : t[k] < t[k + 1]
  <2> SUFFICES ASSUME NEW k \in 1..Len(t) - 1 PROVE t[k] < t[k + 1]
    OBVIOUS
  <2>1. CASE k < Len(s)
    BY <1>4, <1>6, <2>1
  <2>2. CASE k = Len(s)
    BY <1>4, <1>5, <1>6, <2>2
  <2>3. CASE k > Len(s)
    BY <1>4, <1>5, <2>3
  <2> QED
    BY <1>4, <2>1, <2>2, <2>3
<1> QED
  BY <1>4, <1>7, <1>8

LEMMA SendStep ==
  ASSUME StreamInv, NEW o \in Streams, Stream!Send(o)
  PROVE  StreamInv'
<1>1. /\ reader[o].lo \in Nat /\ reader[o].hi \in Nat /\ read \in [Streams -> Nat]
      /\ delivered \in [Streams -> Seq(Nat)] /\ delivered[o] \in Seq(Nat)
      /\ read[o] \in Nat /\ used \in Nat /\ window \in Nat /\ reader[o] \in Reader
  BY ReaderTypes
<1>2. PICK t : t = delivered[o] \o [k \in 1..reader[o].hi - reader[o].lo + 1
                                     |-> reader[o].lo + k - 1]
  OBVIOUS
<1>3. /\ reader[o].step = "send" /\ delivered' = [delivered EXCEPT ![o] = t]
      /\ reader' = [reader EXCEPT ![o] = Stream!Resting]
  BY <1>2 DEF Stream!Send
<1>4. UNCHANGED <<now, used, window, read, closed, told, closer, writer, written, input,
                  received>>
  BY DEF Stream!Send, Stream!inputVars, Stream!closeVars
<1>5. /\ \A k \in 1..Len(delivered[o]) - 1 : delivered[o][k] < delivered[o][k + 1]
      /\ reader[o].hi <= read[o] /\ reader[o].lo <= reader[o].hi
      /\ \A k \in 1..Len(delivered[o]) : delivered[o][k] < reader[o].lo
  BY <1>3, ReaderHand
<1>6. /\ t \in Seq(Nat) /\ \A k \in 1..Len(t) : t[k] <= reader[o].hi
      /\ \A k \in 1..Len(t) - 1 : t[k] < t[k + 1]
  BY <1>1, <1>2, <1>5, RisesOn
<1>7. /\ delivered' \in [Streams -> Seq(Nat)] /\ delivered'[o] = t
      /\ \A p \in Streams \ {o} : delivered'[p] = delivered[p]
  BY <1>1, <1>3, <1>6
<1>8. /\ Stream!Resting \in Reader /\ Stream!Resting.step = "idle"
      /\ Promise(Stream!Resting) = 0
  BY <1>1, ReaderData
<1>9. used' \in Nat /\ window' \in Nat /\ read' \in [Streams -> Nat]
  BY <1>1, <1>4
<1>10. PromiseInv'
  BY <1>3, <1>4, <1>8, <1>9, PromiseStep
<1>11. \A k \in 1..Len(delivered'[o]) : delivered'[o][k] <= read'[o]
  <2>1. \A k \in 1..Len(t) : t[k] \in Nat
    BY <1>6
  <2> QED
    BY <1>1, <1>4, <1>5, <1>6, <1>7, <2>1
<1>12. \A k \in 1..Len(delivered'[o]) - 1 : delivered'[o][k] < delivered'[o][k + 1]
  BY <1>6, <1>7
<1> QED
  BY <1>3, <1>4, <1>7, <1>8, <1>9, <1>10, <1>11, <1>12, ReaderStep

\* A goroutine that returns.
Over(r) == [r EXCEPT !.step = "over"]

LEMMA OverData ==
  ASSUME NEW r \in Reader
  PROVE  Over(r) \in Reader /\ Over(r).step = "over" /\ Promise(Over(r)) = 0
BY DEF Over, Reader, Promise

LEMMA ReadFailsStep ==
  ASSUME StreamInv, NEW o \in Streams, Stream!ReadFails(o)
  PROVE  StreamInv'
<1>1. /\ reader[o] \in Reader /\ reader \in [Streams -> Reader] /\ used \in Nat
      /\ window \in Nat /\ read \in [Streams -> Nat] /\ delivered \in [Streams -> Seq(Nat)]
  BY ReaderTypes
<1>2. reader' = [reader EXCEPT ![o] = Over(reader[o])]
  BY <1>1 DEF Stream!ReadFails, Stream!Step, Over
<1>3. UNCHANGED <<now, used, window, read, delivered, closed, told, writer, written,
                  input, received>>
  BY DEF Stream!ReadFails, Stream!inputVars
<1>4. closer' \in {closer, "close"}
  BY DEF Stream!ReadFails
<1>5. PICK new : new = Over(reader[o])
  OBVIOUS
<1>6. new \in Reader /\ new.step = "over" /\ Promise(new) = 0
  BY <1>1, <1>5, OverData
<1>7. reader' = [reader EXCEPT ![o] = new]
  BY <1>2, <1>5
<1>8. PromiseInv'
  BY <1>1, <1>3, <1>6, <1>7, PromiseStep
<1>9. /\ \A k \in 1..Len(delivered[o]) : delivered[o][k] <= read[o]
      /\ \A k \in 1..Len(delivered[o]) - 1 : delivered[o][k] < delivered[o][k + 1]
  BY ReaderHand
<1> QED
  BY <1>1, <1>3, <1>4, <1>6, <1>7, <1>8, <1>9, ReaderStep

LEMMA StreamStep ==
  ASSUME StreamInv, [Stream!StreamNext]_(Stream!streamVars)
  PROVE  StreamInv'
<1>1. CASE Stream!WriteData \/ Stream!Write \/ Stream!WriteReturns \/ Stream!ShellTakes
  BY <1>1, InputStep
<1>2. CASE Stream!Second \/ Stream!CloseSession \/ Stream!Close \/ Stream!OnClose
  BY <1>2, CloseStep
<1>3. CASE \E o \in Streams : Stream!Read(o) \/ Stream!Check(o) \/ Stream!Count(o)
                              \/ Stream!Send(o) \/ Stream!ReadFails(o)
  BY <1>3, ReadStep, CheckStep, CountStep, SendStep, ReadFailsStep
<1>4. CASE UNCHANGED Stream!streamVars
  BY <1>4 DEF Stream!streamVars, StreamInv, StreamTypeOK, PromiseInv, HandInv, InputInv,
    ToldInv, Promised
<1> QED
  BY <1>1, <1>2, <1>3, <1>4 DEF Stream!StreamNext

\* The limit of the output is kept up to one window for each reader, the bytes sent
\* and the inputs taken keep their order, and the cloud is told once, for either
\* kind of session and any rate, however the readers' checks and counts interleave.
THEOREM StreamLimitsHolds == Stream!StreamSpec => []StreamLimits
<1>1. StreamInv => StreamLimits
  <2> SUFFICES ASSUME StreamInv PROVE StreamLimits
    OBVIOUS
  <2>1. Stream!RateKept
    <3>1. /\ used \in Nat /\ \A o \in Streams : Promised(o) \in Nat
          /\ used + Promised(Stdout) + (IF Other = Stdout THEN 0 ELSE Promised(Other))
               <= MaxOutputRate * Stream!Cardinality(Streams)
          /\ Promised(Stdout) \in Nat /\ Promised(Other) \in Nat
      BY TwoStreams, StreamAssumption DEF StreamInv, StreamTypeOK, PromiseInv, Promised,
        Promise, Reader, StreamAssumption
    <3>2. Stream!Cardinality(Streams) \in {1, 2} /\ MaxOutputRate \in Nat
      BY TwoStreams, StreamAssumption DEF StreamAssumption
    <3> DEFINE p == Promised(Stdout)
               q == IF Other = Stdout THEN 0 ELSE Promised(Other)
               r == MaxOutputRate * Stream!Cardinality(Streams)
    <3>3. p \in Nat /\ q \in Nat /\ r \in Nat /\ used \in Nat /\ used + p + q <= r
      BY <3>1, <3>2
    <3> HIDE DEF p, q, r
    <3>4. used <= r
      BY <3>3
    <3> QED
      BY <3>4 DEF r, Stream!RateKept
  <2>2. \A o \in Streams : Stream!Rising(delivered[o])
    BY DEF StreamInv, HandInv, Stream!Rising
  <2>3. received \o input = [k \in 1..Len(received \o input) |-> k]
    <3>1. received \o input \in Seq(Nat)
      BY DEF StreamInv, StreamTypeOK
    <3> DEFINE s == received \o input
    <3> HIDE DEF s
    <3>2. s \in Seq(Nat) /\ \A k \in 1..Len(s) : s[k] = k
      BY <3>1 DEF s, StreamInv, InputInv
    <3>3. s = [k \in 1..Len(s) |-> k]
      BY <3>2
    <3> QED
      BY <3>3 DEF s
  <2> QED
    BY <2>1, <2>2, <2>3 DEF StreamLimits, Stream!StreamLimits, Stream!InOrder, StreamInv,
      ToldInv
<1> QED
  BY <1>1, StreamInitInv, StreamStep, PTL DEF Stream!StreamSpec
===============================================================================
