--------------------------------- MODULE SshProxy ---------------------------------
(***************************************************************************)
(* The session table of the SSH proxy (internal/sshproxy): sessions are    *)
(* opened and closed by WebSocket readers, end by themselves, or are       *)
(* closed by their idle timer or by CloseAll.  A session is numbered by    *)
(* its insertion into the table; ids come from the cloud.                  *)
(***************************************************************************)
EXTENDS Naturals, FiniteSets

CONSTANTS
  Ids,
  Readers,       \* goroutines that handle messages: the read pumps
  Max,           \* MaxSessions
  MaxOpens,      \* bound on sessions
  MaxAsked,      \* bound on ssh:open messages
  Reuse          \* whether the cloud may reuse an id

Insts == 1..MaxOpens

ASSUME ConstAssumption ==
  /\ Max \in Nat \ {0} /\ MaxOpens \in Nat /\ MaxAsked \in Nat
  /\ Reuse \in BOOLEAN
  /\ Readers \cap Insts = {} /\ Ids # {}
  /\ IsFiniteSet(Readers) /\ IsFiniteSet(Ids)

Actors == Readers \cup Insts     \* a timer runs its function for its session

VARIABLES
  table,         \* id -> session, 0 if there is none
  made,          \* sessions inserted so far
  idOf,          \* session -> its id
  state,         \* session -> none, open, closed
  sent,          \* session -> ssh:close messages sent about it
  timer,         \* session -> none, armed, off (stopped or fired)
  running,       \* the sessions whose output goroutine runs
  act,           \* actor -> where it is in OpenSession or CloseSession
  actId,         \* the id it works on
  target,        \* the session it found
  asked, refused, \* ssh:open messages, those refused by the limit
  taken          \* the sessions CloseAll took from the table

vars == <<table, made, idOf, state, sent, timer, running, act, actId, target,
          asked, refused, taken>>
sessVars == <<state, sent, timer>>
makeVars == <<made, idOf>>
askVars  == <<asked, refused>>
actVars  == <<act, actId, target>>

Open == {i \in Insts : state[i] = "open"}
Entries == {id \in Ids : table[id] # 0}

\* Session.Close: once, with the timer stopped and the cloud told.
CloseAgain(i) ==                               \* faulty: closed is not tested
  /\ state' = [state EXCEPT ![i] = "closed"]
  /\ sent' = [sent EXCEPT ![i] = @ + 1]
  /\ timer' = [timer EXCEPT ![i] = IF @ = "armed" THEN "off" ELSE @]
Close(i) ==
  IF state[i] = "open"
  THEN /\ state' = [state EXCEPT ![i] = "closed"]
       /\ sent' = [sent EXCEPT ![i] = @ + 1]
       /\ timer' = [timer EXCEPT ![i] = IF @ = "armed" THEN "off" ELSE @]
  ELSE UNCHANGED sessVars

-------------------------------------------------------------------------------
(* OpenSession and OpenLocalSession.                                       *)

Full(n) == n >= Max

\* The limit is checked, long before the session is in the table.
OpenCheck(d, id) ==
  /\ act[d] = "idle" /\ asked < MaxAsked
  /\ Reuse \/ \A i \in 1..made : idOf[i] # id
  /\ Reuse \/ \A a \in Readers : act[a] \in {"dial", "arm"} => actId[a] # id
  /\ asked' = asked + 1
  /\ IF Full(Cardinality(Entries))
     THEN /\ refused' = refused + 1
          /\ UNCHANGED actVars
     ELSE /\ act' = [act EXCEPT ![d] = "dial"]
          /\ actId' = [actId EXCEPT ![d] = id]
          /\ UNCHANGED <<refused, target>>
  /\ UNCHANGED <<table, makeVars, sessVars, running, taken>>

\* Dialling, the terminal or the shell fails: an error is sent.
OpenFails(d) ==
  /\ d \in Readers /\ act[d] = "dial"
  /\ act' = [act EXCEPT ![d] = "idle"]
  /\ UNCHANGED <<table, makeVars, sessVars, running, actId, target, askVars, taken>>

Insert(d) ==
  /\ d \in Readers /\ act[d] = "dial" /\ made < MaxOpens
  /\ made' = made + 1
  /\ idOf' = [idOf EXCEPT ![made'] = actId[d]]
  /\ state' = [state EXCEPT ![made'] = "open"]
  /\ table' = [table EXCEPT ![actId[d]] = made']
  /\ act' = [act EXCEPT ![d] = "arm"]
  /\ target' = [target EXCEPT ![d] = made']
  /\ UNCHANGED <<sent, timer, running, actId, askVars, taken>>

\* The idle timer and the goroutines of the session are started.
ArmNothing(i) == UNCHANGED timer               \* faulty: the timer is not started
Arm(i) == timer' = [timer EXCEPT ![i] = "armed"]
StartSession(d) ==
  /\ d \in Readers /\ act[d] = "arm"
  /\ Arm(target[d])
  /\ running' = running \cup {target[d]}
  /\ act' = [act EXCEPT ![d] = "idle"]
  /\ UNCHANGED <<table, makeVars, state, sent, actId, target, askVars, taken>>

-------------------------------------------------------------------------------
(* CloseSession, called for ssh:close and by the idle timer.               *)

CloseRequest(d, id) ==
  /\ d \in Readers /\ act[d] = "idle"
  /\ act' = [act EXCEPT ![d] = "lookup"]
  /\ actId' = [actId EXCEPT ![d] = id]
  /\ UNCHANGED <<table, makeVars, sessVars, running, target, askVars, taken>>

TimerFires(i) ==
  /\ timer[i] = "armed" /\ act[i] = "idle"
  /\ timer' = [timer EXCEPT ![i] = "off"]
  /\ act' = [act EXCEPT ![i] = "lookup"]
  /\ actId' = [actId EXCEPT ![i] = idOf[i]]
  /\ UNCHANGED <<table, makeVars, state, sent, running, target, askVars, taken>>

AfterLookupDelete == "delete"                  \* faulty: forgets before closing
AfterLookup == "close"
Found(id) == table[id] # 0
LookUp(a) ==
  /\ act[a] = "lookup"
  /\ IF Found(actId[a])
     THEN /\ act' = [act EXCEPT ![a] = AfterLookup]
          /\ target' = [target EXCEPT ![a] = table[actId[a]]]
     ELSE act' = [act EXCEPT ![a] = "idle"] /\ UNCHANGED target
  /\ UNCHANGED <<table, makeVars, sessVars, running, actId, askVars, taken>>

CloseFound(a) ==
  /\ act[a] = "close"
  /\ Close(target[a])
  /\ act' = [act EXCEPT ![a] = "delete"]
  /\ UNCHANGED <<table, makeVars, running, actId, target, askVars, taken>>

\* Whatever is in the table under that id by now.
DeleteEntry(a) ==
  /\ act[a] = "delete"
  /\ table' = [table EXCEPT ![actId[a]] = 0]
  /\ act' = [act EXCEPT ![a] = "idle"]
  /\ UNCHANGED <<makeVars, sessVars, running, actId, target, askVars, taken>>

CloseSession(a) == LookUp(a) \/ CloseFound(a) \/ DeleteEntry(a)

-------------------------------------------------------------------------------
(* The goroutines of a session, and CloseAll.                              *)

\* Output resets the timer, of a session that is being closed as well.
Output(i) ==
  /\ i \in running
  /\ timer' = [timer EXCEPT ![i] = "armed"]
  /\ UNCHANGED <<table, makeVars, state, sent, running, actVars, askVars, taken>>

\* Input resets it too, unless the session is closed.
WriteData(d, id) ==
  /\ d \in Readers /\ act[d] = "idle" /\ Found(id)
  /\ state[table[id]] = "open" /\ timer[table[id]] # "none"
  /\ timer' = [timer EXCEPT ![table[id]] = "armed"]
  /\ UNCHANGED <<table, makeVars, state, sent, running, actVars, askVars, taken>>

\* The shell or the connection ends: closed, and still in the table.  The
\* goroutine that waits for the process may be first, the one that reads ends.
ProcessEnds(i) ==
  /\ i \in running
  /\ Close(i)
  /\ UNCHANGED <<table, makeVars, running, actVars, askVars, taken>>

ReadEnds(i) ==
  /\ i \in running
  /\ Close(i)
  /\ running' = running \ {i}
  /\ UNCHANGED <<table, makeVars, actVars, askVars, taken>>

CloseAll ==
  /\ taken = {} /\ Entries # {}
  /\ taken' = {table[id] : id \in Entries}
  /\ table' = [id \in Ids |-> 0]
  /\ UNCHANGED <<makeVars, sessVars, running, actVars, askVars>>

CloseTaken(i) ==
  /\ i \in taken /\ state[i] = "open"
  /\ Close(i)
  /\ UNCHANGED <<table, makeVars, running, actVars, askVars, taken>>

-------------------------------------------------------------------------------
Init ==
  /\ table = [id \in Ids |-> 0]
  /\ made = 0 /\ idOf = [i \in Insts |-> CHOOSE id \in Ids : TRUE]
  /\ state = [i \in Insts |-> "none"] /\ sent = [i \in Insts |-> 0]
  /\ timer = [i \in Insts |-> "none"] /\ running = {}
  /\ act = [a \in Actors |-> "idle"]
  /\ actId = [a \in Actors |-> CHOOSE id \in Ids : TRUE]
  /\ target = [a \in Actors |-> 0]
  /\ asked = 0 /\ refused = 0 /\ taken = {}

Next ==
  \/ \E d \in Readers :
       \/ \E id \in Ids : OpenCheck(d, id) \/ CloseRequest(d, id) \/ WriteData(d, id)
       \/ OpenFails(d) \/ Insert(d) \/ StartSession(d)
  \/ \E a \in Actors : CloseSession(a)
  \/ \E i \in Insts : \/ TimerFires(i) \/ Output(i) \/ ProcessEnds(i)
                       \/ ReadEnds(i) \/ CloseTaken(i)
  \/ CloseAll

Spec == Init /\ [][Next]_vars

\* Goroutines are scheduled.  That a timer fires assumes that the session falls
\* silent for its idle time sooner or later.
Fairness ==
  /\ \A d \in Readers : WF_vars(StartSession(d))
  /\ \A a \in Actors : WF_vars(CloseSession(a))
  /\ \A i \in Insts : WF_vars(TimerFires(i)) /\ WF_vars(CloseTaken(i))

FairSpec == Spec /\ Fairness

-------------------------------------------------------------------------------
(* Properties.                                                             *)

TypeOK ==
  /\ table \in [Ids -> 0..made] /\ made \in 0..MaxOpens
  /\ idOf \in [Insts -> Ids] /\ state \in [Insts -> {"none", "open", "closed"}]
  /\ \A i \in Insts : state[i] = "none" <=> i > made
  /\ sent \in [Insts -> Nat] /\ timer \in [Insts -> {"none", "armed", "off"}]
  /\ running \subseteq 1..made /\ taken \subseteq 1..made
  /\ act \in [Actors -> {"idle", "dial", "arm", "lookup", "close", "delete"}]
  /\ actId \in [Actors -> Ids] /\ target \in [Actors -> 0..made]
  /\ \A a \in Actors : act[a] \in {"arm", "close"} => target[a] # 0
  /\ asked \in 0..MaxAsked /\ refused \in 0..asked

\* While ids are not reused, an open session can be found, by the cloud's
\* ssh:close, by its timer or by CloseAll, however these interleave.
OpenIsFound ==
  \A i \in Open : table[idOf[i]] = i \/ i \in taken

\* "max 10 concurrent sessions": unless ids are reused, no more sessions than the
\* limit are open, but for those CloseAll is about to close, and up to one more for
\* every further reader.  The limit is tested before the dialling, which other
\* opens, ends and closes may overtake.
WithinLimit ==
  ~Reuse => Cardinality(Open \ taken) <= Max + Cardinality(Readers) - 1

\* What the table promises whoever opens or closes sessions, as above: all that
\* are open, and no more than are allowed.
TableSound == OpenIsFound /\ WithinLimit

\* Of all that can close a session, in any order, one tells the cloud, once.
ToldOnce ==
  \A i \in Insts : sent[i] = IF state[i] = "closed" THEN 1 ELSE 0

\* A session that falls silent is closed, whether or not the cloud asks for it,
\* even one whose timer was started, or re-armed, while it was being closed.
IdleEnds == \A i \in Insts : state[i] = "open" ~> state[i] = "closed"
===============================================================================
