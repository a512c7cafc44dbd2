----------------------------- MODULE SessionStore -----------------------------
(*****************************************************************************)
(* The sessions of the router (internal/session).  The cloud names them; a   *)
(* chat request finds or registers its own from the WebSocket's read pump,   *)
(* holds it by pointer until it is answered, and extends its life; the cloud *)
(* ends a session with a message, and a loop collects the expired ones.      *)
(* With SQLite each change starts a goroutine that writes it, in any order;  *)
(* without, the loop and Close rewrite sessions.json.                        *)
(*                                                                           *)
(* What a session's context holds is left out: only whether a request and    *)
(* the store still mean the same session.                                    *)
(*****************************************************************************)
EXTENDS Naturals, Sequences, FiniteSets, SequencesExt

CONSTANTS
  Ids, Requests,
  Ttl,           \* DefaultTTL (24 h)
  MaxTime,       \* bound on the clock
  MaxLosses      \* bound on failed writes and restarts

VARIABLES
  kept,          \* "db" or "file"
  now,
  sessions,      \* Store.sessions: id -> the number of a session
  objs,          \* every session made so far: its id, state, creation, expiry
  req,           \* each request: its step, id, the session it holds, and since when
  gcStep,        \* gc: "idle", or "swept" once it has released the lock
  queue,         \* goroutines that write to SQLite, oldest first
  rows, saved,   \* the table sessions; sessions.json
  losses,
  overtaken,     \* history: since the load a write overtook another or failed
  stale          \* history: requests given a session that had expired, or whose
                 \* session was collected before they could extend it

sessionVars == <<kept, now, sessions, objs, req, gcStep, queue, rows, saved,
                 losses, overtaken, stale>>

Expired(o) == now > objs[o].ends
Registered(id) == id \in DOMAIN sessions
Go(f) == queue' = IF kept = "db" THEN Append(queue, f) ELSE queue
Disk == UNCHANGED <<kept, rows, saved, losses, overtaken>>

\* Requests are handled one after the other: the read pump is in one at a time.
Pumping == \E r \in Requests : req[r].step \in {"touch", "register"}

\* GetOrRegister: Get, and then, without the lock in between, Touch or Register.
Get(id) == Registered(id) /\ ~Expired(sessions[id])

Arrive(r, id) ==
  /\ req[r].step = "idle" /\ ~Pumping
  /\ req' = [req EXCEPT ![r] =
       IF Get(id) THEN [step |-> "touch", id |-> id, obj |-> sessions[id], since |-> now]
                  ELSE [step |-> "register", id |-> id, obj |-> 0, since |-> now]]
  /\ Disk /\ UNCHANGED <<now, sessions, objs, gcStep, queue, stale>>

ExtendedNot(o) == objs[o].ends                 \* faulty: the time it had
Extended(o) == now + Ttl

\* Touch looks the id up again; it does not tell whether it found it.
Touch(r) ==
  LET id == req[r].id
  IN /\ req[r].step = "touch"
     /\ req' = [req EXCEPT ![r].step = "using"]
     /\ IF Registered(id)
        THEN /\ objs' = [objs EXCEPT ![sessions[id]].ends = Extended(sessions[id])]
             /\ UNCHANGED stale
        ELSE stale' = stale \cup {r} /\ UNCHANGED objs
     /\ Disk /\ UNCHANGED <<now, sessions, gcStep, queue>>

\* Register returns what it finds, expired or not, as it is.
Register(r) ==
  LET id  == req[r].id
      new == Len(objs) + 1
  IN /\ req[r].step = "register"
     /\ IF Registered(id)
        THEN /\ req' = [req EXCEPT ![r].step = "using", ![r].obj = sessions[id]]
             /\ stale' = stale \cup {r}
             /\ UNCHANGED <<objs, sessions, queue>>
        ELSE /\ objs' = Append(objs, [id |-> id, state |-> "active",
                                      born |-> now, ends |-> now + Ttl])
             /\ sessions' = [i \in DOMAIN sessions \cup {id} |->
                               IF i = id THEN new ELSE sessions[i]]
             /\ req' = [req EXCEPT ![r].step = "using", ![r].obj = new]
             /\ Go([op |-> "upsert", obj |-> new])
             /\ UNCHANGED stale
     /\ Disk /\ UNCHANGED <<now, gcStep>>

Answer(r) ==
  /\ req[r].step = "using"
  /\ req' = [req EXCEPT ![r].step = "done"]
  /\ Disk /\ UNCHANGED <<now, sessions, objs, gcStep, queue, stale>>

Drop(ids) == sessions' = [i \in DOMAIN sessions \ ids |-> sessions[i]]

DeleteRowNot(id) == UNCHANGED queue            \* faulty: memory only
DeleteRow(id) == Go([op |-> "delete", id |-> id])

\* OnSessionEnd, in the read pump: an expired session is left to gc.
EndSession(id) ==
  /\ ~Pumping
  /\ Get(id)
  /\ objs' = [objs EXCEPT ![sessions[id]].state = "completed"]
  /\ Drop({id})
  /\ DeleteRow(id)
  /\ Disk /\ UNCHANGED <<now, req, gcStep, stale>>

\* gc, every five minutes; it releases the lock before it saves.  The goroutine
\* of the last one, which has five seconds, is over.
Sweep ==
  /\ gcStep = "idle" /\ [op |-> "expire"] \notin Range(queue)
  /\ Drop({id \in DOMAIN sessions : Expired(sessions[id])})
  /\ gcStep' = "swept"
  /\ Disk /\ UNCHANGED <<now, objs, req, queue, stale>>

Snapshot == {objs[sessions[id]] : id \in DOMAIN sessions}

AfterSweep ==
  /\ gcStep = "swept"
  /\ gcStep' = "idle"
  /\ saved' = IF kept = "file" THEN Snapshot ELSE saved
  /\ Go([op |-> "expire"])
  /\ UNCHANGED <<kept, now, sessions, objs, req, rows, losses, overtaken, stale>>

Tick ==
  /\ now < MaxTime
  /\ now' = now + 1
  /\ Disk /\ UNCHANGED <<sessions, objs, req, gcStep, queue, stale>>

------------------------------------------------------------------------------
(* Persistence.                                                             *)

\* A goroutine's write: the session as it is by then, a deletion, or
\* DeleteExpiredSessions of what has expired by then.
Effect(w) ==
  CASE w.op = "upsert" -> {o \in rows : o.id # objs[w.obj].id} \cup {objs[w.obj]}
    [] w.op = "delete" -> {o \in rows : o.id # w.id}
    [] w.op = "expire" -> {o \in rows : o.ends >= now}

WriteSession(i) ==
  /\ i \in DOMAIN queue
  /\ queue' = RemoveAt(queue, i)
  /\ \/ /\ rows' = Effect(queue[i])
        /\ overtaken' = (overtaken \/ i > 1)
        /\ UNCHANGED losses
     \/ /\ losses < MaxLosses /\ losses' = losses + 1
        /\ overtaken' = TRUE
        /\ UNCHANGED rows
  /\ UNCHANGED <<kept, now, sessions, objs, req, gcStep, saved, stale>>

\* loadFromDB reads the active rows, expired or not; load reads the file.
Loaded == IF kept = "db" THEN {o \in rows : o.state = "active"} ELSE saved'

RestartWith(file) ==
  /\ losses < MaxLosses /\ losses' = losses + 1
  /\ saved' = file
  /\ LET all == SetToSeq(Loaded)
     IN /\ objs' = objs \o all
        /\ sessions' = [id \in {o.id : o \in Loaded} |->
             Len(objs) + SelectInSeq(all, LAMBDA o : o.id = id)]
  /\ req' = [r \in Requests |->
       IF req[r].step = "idle" THEN req[r] ELSE [req[r] EXCEPT !.step = "done"]]
  /\ queue' = <<>> /\ gcStep' = "idle" /\ overtaken' = FALSE
  /\ UNCHANGED <<kept, now, rows, stale>>

\* os.WriteFile overwrites in place: of a file it was in the middle of, nothing is
\* read.
Crash == RestartWith(saved) \/ (kept = "file" /\ RestartWith({}))
Close == RestartWith(IF kept = "file" THEN Snapshot ELSE saved)

SessionInit ==
  /\ kept \in {"db", "file"} /\ now = 0
  /\ sessions = <<>> /\ objs = <<>>
  /\ req = [r \in Requests |-> [step |-> "idle", id |-> "none", obj |-> 0, since |-> 0]]
  /\ gcStep = "idle" /\ queue = <<>> /\ rows = {} /\ saved = {}
  /\ losses = 0 /\ overtaken = FALSE /\ stale = {}

SessionNext ==
  \/ \E r \in Requests : \/ \E id \in Ids : Arrive(r, id)
                         \/ Touch(r) \/ Register(r) \/ Answer(r)
  \/ \E id \in Ids : EndSession(id)
  \/ Sweep \/ AfterSweep \/ Tick
  \/ \E i \in 1..Len(queue) : WriteSession(i)
  \/ Crash \/ Close

SessionSpec == SessionInit /\ [][SessionNext]_sessionVars

------------------------------------------------------------------------------
(* Properties.                                                              *)

\* For a whole Ttl from its arrival a request has the session it was given:
\* that one is registered and alive, or the cloud ended it.  The exceptions are
\* a request given a session that had expired, which Register returns without
\* extending it, and one whose session was collected between Get and Touch.
InUseStays ==
  \A r \in Requests :
    req[r].step = "using" /\ r \notin stale /\ now <= req[r].since + Ttl =>
      \/ Registered(req[r].id) /\ sessions[req[r].id] = req[r].obj
                               /\ ~Expired(req[r].obj)
      \/ objs[req[r].obj].state = "completed"

\* Once every write to SQLite has been carried out, in the order they were
\* asked for and without a failure, a restart brings back no session that was
\* ended or collected, and every live one but those that were extended: their
\* rows keep the expiry they were registered with.
RowsFollow ==
  kept = "db" /\ queue = <<>> /\ ~overtaken /\ gcStep = "idle" =>
    /\ \A o \in rows : o.state = "active" => Registered(o.id)
    /\ \A id \in DOMAIN sessions :
         \/ \E o \in rows : o.id = id
         \/ Expired(sessions[id])
         \/ objs[sessions[id]].ends > objs[sessions[id]].born + Ttl

\* The table of sessions as AtomicTables has it: SQLite's, or the map, of which
\* sessions.json is what a crash leaves.
OneTable(S) == [t \in {"sessions"} |-> S]
InDb == INSTANCE AtomicTables WITH
  Tables <- {"sessions"}, Durable <- TRUE, asked <- {},
  live <- OneTable(rows), kept <- OneTable(rows)
InFile == INSTANCE AtomicTables WITH
  Tables <- {"sessions"}, Durable <- FALSE, asked <- {},
  live <- OneTable(Snapshot), kept <- OneTable(saved)

\* Either way the store does with its sessions what internal/db promises of a
\* table: each write and each change of the map is one row that comes, goes or
\* takes the place of one, or an expiry, although writes overtake each other and
\* carry the session as it is by then; and a restart on the file finds in the map,
\* under their ids, exactly the sessions that were saved, or none.
SessionsStored ==
  [][IF kept = "db" THEN InDb!AtomicNext ELSE InFile!AtomicNext]_sessionVars
===============================================================================
