------------------------------- MODULE Storage -------------------------------
(****************************************************************************)
(* The storage of the router (internal/db): one interface, DB, implemented  *)
(* over SQLite and over maps that Save and Close write to JSON files, and   *)
(* the command that imports those files into SQLite.  Here every call goes  *)
(* to both, as to twins, so that what they answer can be compared; each is  *)
(* also shown to implement AtomicTables.                                    *)
(*                                                                          *)
(* A row is a key, a text that stands for what the caller stores, the times *)
(* of its creation and last update, and for a session the time it expires.  *)
(* The filters of the lists (user, type, state, status, priority) are the   *)
(* same conditions on both sides and are left out, as is the keyword score. *)
(****************************************************************************)
EXTENDS Naturals, Sequences, FiniteSets, SequencesExt

CONSTANTS
  Keys, Texts,
  Focus,         \* sets of tables: a behaviour's calls are about one of them
  MaxFacts,      \* facts the file keeps (50)
  MaxCalls,      \* bound on calls
  MaxFaults      \* bound on failed statements, failed file writes and crashes

VARIABLES
  focus,
  twins,         \* whether the calls go to SQLite too, or to the file alone
  clock,         \* the number of calls, which is the time of the last one
  sql,           \* the tables of nlook.db
  file,          \* FileDB's maps and slices
  dirty, disk,   \* the files that need saving, and what they contain
  tx,            \* the transaction of ReplaceAllMemories, or NoTx
  asked,         \* history: the rows it was asked to put in place
  mig,           \* the migration
  faults,
  apart          \* history: one of the twins missed a call

storageVars == <<focus, twins, clock, sql, file, dirty, disk, tx, asked, mig, faults,
                 apart>>

Keyed  == {"sessions", "documents", "tasks", "summaries", "profile"}
Tables == Keyed \cup {"memories"}
FileOf == [t \in Tables \cup {"facts", "chat"} |->
             CASE t = "sessions" -> "sessions"
               [] t \in {"documents", "tasks"} -> "cache"
               [] t = "chat" -> "chat"
               [] OTHER -> "memory"]

Lists == {"facts", "chat", "traces"}
Blank == [t \in Tables \cup Lists |-> IF t \in Tables THEN {} ELSE <<>>]
NoTx == [open |-> FALSE]

Row(k, x, ttl) == [key |-> k, text |-> x, born |-> clock, at |-> clock,
                   ends |-> IF ttl = 0 THEN 0 ELSE clock + ttl]
TextsOf(S) == {r.text : r \in S}
KeysOf(S)  == {r.key : r \in S}

------------------------------------------------------------------------------
(* One row: INSERT .. ON CONFLICT DO UPDATE, which leaves created_at, against *)
(* the assignment of a map's entry.                                         *)

At(S, k) == CHOOSE r \in S : r.key = k
SqlPut(S, r) ==
  {o \in S : o.key # r.key} \cup
  {IF r.key \in KeysOf(S) THEN [r EXCEPT !.born = At(S, r.key).born] ELSE r}
FilePut(S, r) == {o \in S : o.key # r.key} \cup {r}

\* UpsertMemory: by id in SQLite, by text in the file.
FilePutMemory(ms, m) == {o \in ms : o.text # m.text} \cup {m}

SqlAddFact(fs, x) == IF x \in Range(fs) THEN fs ELSE Append(fs, x)
FileAddFact(fs, x) ==
  LET more == Append(fs, x)
  IN CASE x \in Range(fs) -> fs
       [] Len(more) > MaxFacts -> Tail(more)
       [] OTHER -> more

SqlExpire(S, before) == {r \in S : r.ends >= before}
FileExpireEarly(S, before) == {r \in S : r.ends > before}  \* faulty: not After
FileExpire(S, before) == {r \in S : ~(r.ends < before)}

\* DeleteOldestSummary; the file's search takes the id 0 for "none yet".
Oldest(S) == CHOOSE r \in S : \A o \in S : r.born <= o.born
FileOldest(S) == IF Oldest(S).key = 0 THEN S ELSE {Oldest(S)}

------------------------------------------------------------------------------
(* ListChatMessages; a limit of 0 is none.  The other lists are sorted and  *)
(* cut the same way on both sides.                                          *)

IsCut(s, n) == n > 0 /\ Len(s) > n
First(s, n) == IF IsCut(s, n) THEN SubSeq(s, 1, n) ELSE s
About(conv, msgs) == SelectSeq(msgs, LAMBDA m : m.key = conv)
SqlChat(conv, n)  == First(About(conv, sql.chat), n)       \* the oldest n
FileChat(conv, n) == LET all == About(conv, file.chat)     \* the newest n
                     IN IF IsCut(all, n)
                        THEN SubSeq(all, Len(all) - n + 1, Len(all)) ELSE all

------------------------------------------------------------------------------
(* The calls.  SQLite has one connection: a call waits for a transaction.   *)

Marked(t) == dirty' = dirty \cup {FileOf[t]}
Call ==
  /\ clock < MaxCalls /\ tx = NoTx /\ mig.next = 1
  /\ clock' = clock + 1
  /\ UNCHANGED <<focus, twins, disk, mig, faults, apart>>
Rest == UNCHANGED tx /\ asked' = {}
Both(t, s, f) == /\ sql'  = IF twins THEN [sql EXCEPT ![t] = s] ELSE sql
                 /\ file' = [file EXCEPT ![t] = f]

\* UpsertSession, UpsertUserProfile, UpsertSummary, UpsertDocument, UpsertTask.
Upsert(t, k, x, ttl) ==
  /\ t \in Keyed \cap focus
  /\ (ttl > 0) <=> (t = "sessions")
  /\ t = "profile" => k = 0
  /\ Call /\ Rest /\ Marked(t)
  /\ Both(t, SqlPut(sql[t], Row(k, x, ttl)), FilePut(file[t], Row(k, x, ttl)))

Delete(t, k) ==
  /\ t \in {"sessions", "documents", "tasks"} \cap focus
  /\ Call /\ Rest /\ Marked(t)
  /\ Both(t, {r \in sql[t] : r.key # k}, {r \in file[t] : r.key # k})

DeleteExpiredSessions ==
  /\ "sessions" \in focus
  /\ Call /\ Rest
  /\ Both("sessions", SqlExpire(sql.sessions, clock),
                      FileExpire(file.sessions, clock))
  /\ IF file'.sessions = file.sessions THEN UNCHANGED dirty
                                       ELSE Marked("sessions")

\* Callers give a new memory a new id.
UpsertMemory(x) ==
  /\ "memories" \in focus
  /\ Call /\ Rest /\ Marked("memories")
  /\ Both("memories", sql.memories \cup {Row(clock + 1, x, 0)},
                      FilePutMemory(file.memories, Row(clock + 1, x, 0)))

\* The file's slice may hold an id twice, and loses the first.
DeleteMemory(k) ==
  LET found == {m \in file.memories : m.key = k}
  IN /\ "memories" \in focus
     /\ Call /\ Rest
     /\ \E gone \in {{m} : m \in found} \cup (IF found = {} THEN {{}} ELSE {}) :
          Both("memories", {m \in sql.memories : m.key # k}, file.memories \ gone)
     /\ IF found = {} THEN UNCHANGED dirty ELSE Marked("memories")

DeleteOldestSummary ==
  /\ "summaries" \in focus
  /\ file.summaries # {}
  /\ twins => sql.summaries # {}
  /\ Call /\ Rest /\ Marked("summaries")
  /\ \E v \in FileOldest(file.summaries) :
       Both("summaries", sql.summaries \ {Oldest(sql.summaries)},
                         file.summaries \ {v})

AddFact(x) ==
  /\ "facts" \in focus
  /\ Call /\ Rest
  /\ Both("facts", SqlAddFact(sql.facts, x), FileAddFact(file.facts, x))
  /\ IF file'.facts = file.facts THEN UNCHANGED dirty ELSE Marked("facts")

InsertChatMessage(conv, x) ==
  LET msg == [key |-> conv, text |-> x]
  IN /\ "chat" \in focus
     /\ Call /\ Rest /\ Marked("chat")
     /\ Both("chat", Append(sql.chat, msg), Append(file.chat, msg))

\* An event goes to the session's .jsonl file at once.
WriteTrace(x) ==
  /\ "traces" \in focus
  /\ clock < MaxCalls /\ tx = NoTx /\ mig.next = 1
  /\ clock' = clock + 1
  /\ Both("traces", Append(sql.traces, x), Append(file.traces, x))
  /\ disk' = [disk EXCEPT !.traces = Append(@, x)]
  /\ Rest /\ UNCHANGED <<focus, twins, dirty, mig, faults, apart>>

\* ReplaceAllMemories: the file's slice is replaced under the lock; SQLite's
\* table is emptied and filled in a transaction.
ReplaceAllMemories(batch) ==
  /\ "memories" \in focus
  /\ Call /\ Marked("memories")
  /\ file' = [file EXCEPT !.memories = Range(batch)]
  /\ tx' = IF twins THEN [open |-> TRUE, todo |-> batch, rows |-> {}] ELSE NoTx
  /\ asked' = Range(batch)
  /\ UNCHANGED sql

TxRest == UNCHANGED <<focus, twins, clock, file, dirty, disk, asked, mig>>

InTxAtOnce(batch) == sql' = [sql EXCEPT !.memories = batch]  \* faulty: no BeginTx
InTx(batch) == UNCHANGED sql

\* A second row of the same id breaks the primary key and ends it.
TxInsert ==
  /\ tx.open /\ tx.todo # <<>>
  /\ LET m == Head(tx.todo)
     IN IF m.key \in KeysOf(tx.rows)
        THEN tx' = NoTx /\ apart' = TRUE /\ UNCHANGED sql
        ELSE /\ tx' = [open |-> TRUE, todo |-> Tail(tx.todo), rows |-> tx.rows \cup {m}]
             /\ InTx(tx.rows \cup {m})
             /\ UNCHANGED apart
  /\ TxRest /\ UNCHANGED faults

TxCommit ==
  /\ tx.open /\ tx.todo = <<>>
  /\ sql' = [sql EXCEPT !.memories = tx.rows]
  /\ tx' = NoTx
  /\ TxRest /\ UNCHANGED <<faults, apart>>

Fault == faults < MaxFaults /\ faults' = faults + 1

\* A statement fails, or the caller's five seconds are over: Rollback.
TxFail ==
  /\ tx.open /\ Fault
  /\ tx' = NoTx /\ apart' = TRUE
  /\ TxRest /\ UNCHANGED sql

------------------------------------------------------------------------------
(* The files.                                                               *)

Written(F) == [t \in DOMAIN disk |->
                 IF t # "traces" /\ FileOf[t] \in F THEN file[t] ELSE disk[t]]
Torn(F) == [t \in DOMAIN disk |->
              IF t # "traces" /\ FileOf[t] \in F THEN Blank[t] ELSE disk[t]]

\* saveAllLocked: the error of a write is dropped with the flag.
Save ==
  /\ dirty # {}
  /\ dirty' = {}
  /\ \/ disk' = Written(dirty) /\ UNCHANGED faults
     \/ Fault /\ \E f \in dirty : disk' = Written(dirty \ {f})
  /\ UNCHANGED <<focus, twins, clock, sql, file, tx, asked, mig, apart>>

\* The process ends; newFileDB loads the files again, and a file whose writing
\* was cut short does not parse: its maps stay empty.
Reopen ==
  /\ Fault
  /\ \E F \in {{}} \cup {{f} : f \in dirty} :
       /\ disk' = Torn(F)
       /\ file' = Torn(F)
  /\ dirty' = {} /\ tx' = NoTx /\ apart' = TRUE
  /\ UNCHANGED <<focus, twins, clock, sql, asked, mig>>

------------------------------------------------------------------------------
(* MigrateFileToSQLite: one file after the other, row by row.               *)

MigFiles == <<"memory", "cache", "sessions">>
Order == <<{"profile"}, {"memories"}, {"summaries"}, {"facts"},
           {"documents"}, {"tasks"}, {"sessions"}>>
RowsIn(t) == CASE t = "facts" -> {[key |-> x, text |-> x] : x \in Range(disk.facts)}
               [] t = "sessions" -> {r \in disk.sessions : ~(r.ends < clock)}
               [] OTHER -> disk[t]
RowsOfFile(f) == UNION {{<<t, r>> : r \in RowsIn(t)} :
                          t \in {u \in Tables \cup {"facts"} : FileOf[u] = f}}

MigRest == UNCHANGED <<focus, twins, clock, file, dirty, disk, tx, asked>>

\* The command may run beside a router that keeps its files: a file that is
\* being written does not parse, and is skipped with an entry in the log.
ReadFile ==
  /\ mig.next <= 3 /\ mig.todo = {} /\ tx = NoTx
  /\ LET f == MigFiles[mig.next]
         rows == RowsOfFile(f)
     IN \/ mig' = [mig EXCEPT !.next = @ + 1, !.todo = rows, !.read = @ \cup rows]
        \/ f \in dirty /\ mig' = [mig EXCEPT !.next = @ + 1]
  /\ apart' = TRUE
  /\ MigRest /\ UNCHANGED <<sql, faults>>

Imported(t, r) ==
  CASE t = "memories" ->
         {m \in sql.memories : m.key # r.key} \cup {r}
    [] t = "facts" -> SqlAddFact(sql.facts, r.text)
    [] OTHER -> SqlPut(sql[t], r)

Rank(t) == CHOOSE i \in DOMAIN Order : t \in Order[i]
Turn(p) == \A q \in mig.todo : Rank(p[1]) <= Rank(q[1])

SkippedOnError(p) == mig.todo                  \* the rest of its file

ImportRow(p) ==
  /\ tx = NoTx
  /\ p \in mig.todo /\ Turn(p)
  /\ \/ /\ sql' = [sql EXCEPT ![p[1]] = Imported(p[1], p[2])]
        /\ mig' = [mig EXCEPT !.todo = @ \ {p}]
        /\ UNCHANGED faults
     \/ /\ Fault
        /\ mig' = [mig EXCEPT !.todo = {}, !.skipped = @ \cup SkippedOnError(p)]
        /\ UNCHANGED sql
  /\ MigRest /\ UNCHANGED apart

------------------------------------------------------------------------------
StorageInit ==
  /\ focus \in Focus /\ twins \in BOOLEAN
  /\ clock = 0 /\ faults = 0 /\ apart = FALSE
  /\ sql = Blank /\ file = Blank /\ disk = Blank /\ dirty = {}
  /\ tx = NoTx /\ asked = {}
  /\ mig = [next |-> 1, todo |-> {}, read |-> {}, skipped |-> {}]

\* Batches of a compression: one memory or two.
Batches == {<<Row(k, x, 0)>> : k \in {clock + 1}, x \in Texts} \cup
           {<<Row(clock + 1, p[1], 0), Row(k, p[2], 0)>> :
              k \in {clock, clock + 1}, p \in {q \in Texts \X Texts : q[1] # q[2]}}

StorageNext ==
  \/ \E t \in Keyed, k \in Keys, x \in Texts, ttl \in 0..2 : Upsert(t, k, x, ttl)
  \/ \E t \in Keyed, k \in Keys : Delete(t, k)
  \/ \E x \in Texts : UpsertMemory(x) \/ AddFact(x) \/ WriteTrace(x)
  \/ \E k \in Keys : DeleteMemory(k)
  \/ \E k \in Keys, x \in Texts : InsertChatMessage(k, x)
  \/ DeleteExpiredSessions \/ DeleteOldestSummary
  \/ \E b \in Batches : ReplaceAllMemories(b)
  \/ TxInsert \/ TxCommit \/ TxFail
  \/ Save \/ Reopen
  \/ ReadFile \/ \E p \in mig.todo : ImportRow(p)

StorageSpec == StorageInit /\ [][StorageNext]_storageVars

------------------------------------------------------------------------------
(* Properties.                                                              *)

Plain(S) == {[key |-> r.key, text |-> r.text, at |-> r.at, ends |-> r.ends] :
               r \in S}

SameCalls ==
  twins /\ ~apart /\ tx = NoTx =>
    /\ \A t \in Keyed \ {"summaries"} : Plain(sql[t]) = Plain(file[t])
    /\ sql.traces = file.traces
    /\ \A k \in Keys, n \in 0..MaxCalls :
         IsCut(About(k, sql.chat), n) \/ SqlChat(k, n) = FileChat(k, n)
    /\ Range(file.facts) \subseteq Range(sql.facts)
    /\ TextsOf(file.memories) \subseteq TextsOf(sql.memories)

Migrated ==
  \A p \in mig.read \ (mig.todo \cup mig.skipped) :
    IF p[1] = "facts" THEN p[2].text \in Range(sql.facts)
    ELSE p[2].key \in KeysOf(sql[p[1]])

\* Whichever implementation is configured, the same calls leave the same
\* sessions, documents, tasks, profiles, messages and traces; what the file
\* keeps of facts and memories, which it limits or joins by text, SQLite has
\* too.  An import leaves in SQLite, under its key, every row it read, up to the
\* first error of the row's file; an error in one file does not stop the next.
TwinsAgree == SameCalls /\ Migrated

SqlTables == INSTANCE AtomicTables WITH live <- sql, kept <- sql, Durable <- TRUE
FileTables == INSTANCE AtomicTables WITH live <- file, kept <- disk,
                                         Durable <- FALSE

\* Both implement the abstract tables.  SQLite keeps the effect of every call
\* at once and whole, the replacement of all memories included; FileDB does so
\* in memory, and after a crash has what was last saved, but for the tables of
\* a file it was in the middle of writing.
TablesKept == SqlTables!AtomicSpec /\ FileTables!AtomicSpec
===============================================================================
