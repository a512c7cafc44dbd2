-------------------------------- MODULE MCMemory --------------------------------
(* What the router remembers.  An instance of Memory - two posts, one of them    *)
(* about a request that names no conversation - and, beside it, instances of the *)
(* other parts that keep something: the storage itself, the sessions, the copy   *)
(* of the cloud's documents, the usage buckets.                                   *)
(* They share no state of the model, so a behaviour is about one of them, and    *)
(* the others stay as they were at the start.                                    *)
EXTENDS Memory, TLC

CONSTANTS p1, p2

\* Memory.
OneWithout == {[p \in Posts |-> IF p = p1 THEN 0 ELSE 1]}
Swaps == Permutations(Facts)

\* CacheSync: an item, the same with another title, and with another content.
ThreeItems == {[title |-> 1, content |-> 1], [title |-> 2, content |-> 1],
               [title |-> 1, content |-> 2]}

CONSTANTS
  Keys, MaxFacts, MaxCalls, MaxFaults,         \* Storage
  SessionIds, Requests, Ttl, MaxTime, MaxLosses,   \* SessionStore
  Ids, Items, MaxEdits, MaxOutages,            \* CacheSync
  Calls, MaxHour, MaxMisses                    \* UsageReport

ASSUME PartsAssumption == MaxHour \in Nat /\ Ttl \in Nat

VARIABLES
  part,                                        \* which of them acts
  focus, twins, dbClock, sql, dbFile, dbDirty, disk, tx, asked, mig, faults, apart,
  kept, now, sessions, objs, req, gcStep, queue, sessionRows, saved, losses,
  overtaken, stale,
  store, cloud, up, inbox, items, copyDirty, writing, table, embedding, vectors,
  edits, outages, unseen, crossed, disordered,
  hour, stamp, made, buckets, usageFile, beating, report, reports, misses,
  unwritten, again, gone

\* Storage: the texts are those of the facts, so that swapping them is sound.
Foci == {{"sessions"}, {"documents"}, {"memories"}, {"summaries"},
         {"facts", "profile"}, {"chat", "traces"}}
Twins == INSTANCE Storage WITH Texts <- Facts, Focus <- Foci, clock <- dbClock,
                               file <- dbFile, dirty <- dbDirty
Sessions == INSTANCE SessionStore WITH Ids <- SessionIds, rows <- sessionRows
Copies == INSTANCE CacheSync WITH dirty <- copyDirty
Usage == INSTANCE UsageReport

storageVars == <<focus, twins, dbClock, sql, dbFile, dbDirty, disk, tx, asked, mig,
                 faults, apart>>
sessionVars == <<kept, now, sessions, objs, req, gcStep, queue, sessionRows, saved,
                 losses, overtaken, stale>>
syncVars == <<store, cloud, up, inbox, items, copyDirty, writing, table, embedding,
              vectors, edits, outages, unseen, crossed, disordered>>
usageVars == <<hour, stamp, made, buckets, usageFile, beating, report, reports,
               misses, unwritten, again, gone>>

\* A part that does not act has one initial state.
AllInit ==
  /\ part \in {"memory", "storage", "sessions", "copies", "usage"}
  /\ Init /\ Twins!StorageInit /\ Sessions!SessionInit /\ Copies!SyncInit
  /\ Usage!UsageInit
  /\ part # "memory"   => mode = "db"
  /\ part # "storage"  => twins /\ focus = {"sessions"}
  /\ part # "sessions" => kept = "db"
  /\ part # "copies"   => store = "db"
  /\ part # "usage"    => beating

AllNext ==
  /\ UNCHANGED part
  /\ \/ part = "memory"   /\ Next
     \/ part = "storage"  /\ Twins!StorageNext
     \/ part = "sessions" /\ Sessions!SessionNext
     \/ part = "copies"   /\ Copies!SyncNext
     \/ part = "usage"    /\ Usage!UsageNext
  /\ part # "memory"   => UNCHANGED vars
  /\ part # "storage"  => UNCHANGED storageVars
  /\ part # "sessions" => UNCHANGED sessionVars
  /\ part # "copies"   => UNCHANGED syncVars
  /\ part # "usage"    => UNCHANGED usageVars

AllVars == <<part, vars, storageVars, sessionVars, syncVars, usageVars>>
AllSpec == AllInit /\ [][AllNext]_AllVars

-----------------------------------------------------------------------------
(* The properties, as they are stated in the modules.                        *)

\* Both storages are left with the same rows by the same calls, and an import
\* brings what it reads.
TwinsAgree == Twins!TwinsAgree
\* SQLite and the files implement the abstract tables, and so do the sessions and
\* the copies of the cloud's documents.
TablesKept == Twins!TablesKept /\ Sessions!SessionsStored /\ Copies!CopiesStored
\* A request keeps its session for a whole Ttl.
InUseStays == Sessions!InUseStays
\* The table of sessions follows the map of them.
RowsFollow == Sessions!RowsFollow
\* The copy of the cloud's documents follows the cloud, the disk and the
\* embeddings follow the copy.
CopyFollows == Copies!CopyFollows
\* Every recorded call is in a bucket, in a report, or was reported once.
UsageAccounted == Usage!UsageAccounted
===============================================================================
