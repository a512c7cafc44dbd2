------------------------------- MODULE CacheSync -------------------------------
(******************************************************************************)
(* The router's copy of a user's documents and tasks (internal/cache), and    *)
(* the embeddings made of them (internal/embedding).  The cloud sends each    *)
(* change over the WebSocket while it is up, and everything it has when a     *)
(* connection opens; the read pump applies the messages one by one.  Copies   *)
(* are written to SQLite by a goroutine each, or by a loop to cache.json;     *)
(* embeddings are made by a goroutine each.  Chat requests search the copies, *)
(* which changes nothing.                                                     *)
(*                                                                            *)
(* Documents and tasks go through twin handlers: an item is either.  It has a *)
(* title and a content, of which only the second is compared.                 *)
(******************************************************************************)
EXTENDS Naturals, Sequences, FiniteSets, SequencesExt

CONSTANTS
  Ids,
  Items,         \* records [title, content]
  MaxEdits,      \* bound on changes in the cloud
  MaxOutages     \* bound on lost connections, failed writes and restarts

VARIABLES
  store,         \* "db" or "file"
  cloud,         \* id -> item, in the cloud
  up, inbox,     \* the connection, and the messages under way on it
  items, dirty,  \* Store.documents and tasks, and whether they need saving
  writing,       \* goroutines writing to SQLite, oldest first
  table,         \* id -> item, in SQLite or in cache.json
  embedding,     \* goroutines of VectorStore.Upsert
  vectors,       \* VectorStore.entries: id -> item and whether it has a vector
  edits, outages,
  unseen,        \* history: ids removed while the connection was down, or whose
                 \* copy comes from an earlier life of the router
  crossed,       \* history: ids of which a later change came while an embedding
                 \* was being made, or whose embedding is from an earlier life
  disordered     \* history: a write to SQLite overtook another, or failed

syncVars == <<store, cloud, up, inbox, items, dirty, writing, table, embedding,
              vectors, edits, outages, unseen, crossed, disordered>>
cloudVars == <<cloud, up, edits, unseen>>
copyVars  == <<items, dirty, writing>>
diskVars  == <<store, table, disordered>>

Has(f, id) == id \in DOMAIN f
Put(f, id, v) == [i \in DOMAIN f \cup {id} |-> IF i = id THEN v ELSE f[i]]
Cut(f, id) == [i \in DOMAIN f \ {id} |-> f[i]]

------------------------------------------------------------------------------
(* The cloud.                                                               *)

Post(m) == inbox' = IF up THEN Append(inbox, m) ELSE inbox

Edit(id, v) ==
  /\ edits < MaxEdits /\ edits' = edits + 1
  /\ ~(Has(cloud, id) /\ cloud[id] = v)
  /\ cloud' = Put(cloud, id, v)
  /\ Post([op |-> "sync", id |-> id, item |-> v])
  /\ UNCHANGED <<up, unseen, copyVars, diskVars, embedding, vectors,
                 outages, crossed>>

RemoveInCloud(id) ==
  /\ edits < MaxEdits /\ edits' = edits + 1
  /\ Has(cloud, id)
  /\ cloud' = Cut(cloud, id)
  /\ Post([op |-> "delete", id |-> id])
  /\ unseen' = IF up THEN unseen ELSE unseen \cup {id}
  /\ UNCHANGED <<up, copyVars, diskVars, embedding, vectors, outages,
                 crossed>>

\* sync:bulk is everything the cloud has, item by item.
Connect ==
  /\ ~up
  /\ up' = TRUE
  /\ inbox' = LET ids == SetToSeq(DOMAIN cloud)
              IN [i \in DOMAIN ids |->
                    [op |-> "sync", id |-> ids[i], item |-> cloud[ids[i]]]]
  /\ UNCHANGED <<cloud, edits, unseen, copyVars, diskVars, embedding, vectors,
                 outages, crossed>>

Outage == outages < MaxOutages /\ outages' = outages + 1

\* What was under way is lost; a removal among it is never heard of.
Disconnect ==
  /\ up /\ Outage
  /\ up' = FALSE /\ inbox' = <<>>
  /\ unseen' = unseen \cup {inbox[i].id : i \in DOMAIN inbox}
  /\ UNCHANGED <<cloud, edits, copyVars, diskVars, embedding, vectors,
                 crossed>>

------------------------------------------------------------------------------
(* The read pump.                                                           *)

WriteSyncs(w) ==                               \* faulty: a removal is not written
  writing' = IF store = "db" /\ w.op = "sync" THEN Append(writing, w) ELSE writing
Write(w) == writing' = IF store = "db" THEN Append(writing, w) ELSE writing
InFlight(id) == \E g \in embedding : g.id = id
Crossing(id) == crossed' = IF InFlight(id) THEN crossed \cup {id} ELSE crossed

\* handleDocumentSync, handleTaskSync, and handleBulkSync for each of its items.
HandleSync(m) ==
  /\ m.op = "sync"
  /\ items' = Put(items, m.id, m.item)
  /\ Write(m)
  /\ embedding' = embedding \cup {[id |-> m.id, item |-> m.item, step |-> "look"]}
  /\ Crossing(m.id)
  /\ UNCHANGED vectors

RemoveVector(id) == vectors' = Cut(vectors, id)

HandleDelete(m) ==
  /\ m.op = "delete"
  /\ items' = Cut(items, m.id)
  /\ Write(m)
  /\ RemoveVector(m.id)
  /\ Crossing(m.id)
  /\ UNCHANGED embedding

HandleMessage ==
  /\ inbox # <<>>
  /\ HandleSync(Head(inbox)) \/ HandleDelete(Head(inbox))
  /\ inbox' = Tail(inbox)
  /\ dirty' = TRUE
  /\ unseen' = unseen \ {Head(inbox).id}
  /\ UNCHANGED <<cloud, up, edits, diskVars, outages>>

------------------------------------------------------------------------------
(* VectorStore.Upsert, in a goroutine of its own.                           *)

Unchanged(g) == Has(vectors, g.id) /\ vectors[g.id].item.content = g.item.content
                                   /\ vectors[g.id].embedded

Look(g) ==
  /\ g \in embedding /\ g.step = "look"
  /\ embedding' = (embedding \ {g}) \cup
                  (IF Unchanged(g) THEN {} ELSE {[g EXCEPT !.step = "embed"]})
  /\ UNCHANGED <<cloudVars, inbox, copyVars, diskVars, vectors, outages,
                 crossed>>

\* The embedder answers, or fails, and the entry is put in place as it is.
Embed(g) ==
  /\ g \in embedding /\ g.step = "embed"
  /\ embedding' = embedding \ {g}
  /\ \E ok \in BOOLEAN :
       vectors' = Put(vectors, g.id, [item |-> g.item, embedded |-> ok])
  /\ UNCHANGED <<cloudVars, inbox, copyVars, diskVars, outages, crossed>>

------------------------------------------------------------------------------
(* Persistence.                                                             *)

Effect(w) == IF w.op = "sync" THEN Put(table, w.id, w.item) ELSE Cut(table, w.id)

WriteItem(i) ==
  /\ i \in DOMAIN writing
  /\ writing' = RemoveAt(writing, i)
  /\ \/ /\ table' = Effect(writing[i])
        /\ disordered' = (disordered \/ i > 1)
        /\ UNCHANGED outages
     \/ Outage /\ disordered' = TRUE /\ UNCHANGED table
  /\ UNCHANGED <<store, cloudVars, inbox, items, dirty, embedding, vectors,
                 crossed>>

\* saveIfDirty, every thirty seconds; the error of the write is logged.
SaveIfDirty ==
  /\ store = "file" /\ dirty
  /\ dirty' = FALSE
  /\ \/ table' = items /\ UNCHANGED <<outages, disordered>>
     \/ Outage /\ disordered' = TRUE /\ UNCHANGED table
  /\ UNCHANGED <<store, cloudVars, inbox, items, writing, embedding, vectors,
                 crossed>>

\* The process ends and is started again: the copies are what was written, the
\* embeddings those of the last minute's save.  Of a cache.json that was being
\* overwritten nothing is read.
Restart ==
  /\ Outage
  /\ table' \in {table} \cup (IF store = "file" /\ dirty THEN {<<>>} ELSE {})
  /\ items' = table'
  /\ dirty' = FALSE /\ writing' = <<>>
  /\ up' = FALSE /\ inbox' = <<>>
  /\ embedding' = {}
  /\ vectors' \in {vectors, <<>>}
  /\ unseen' = unseen \cup DOMAIN table \cup DOMAIN items
                      \cup {inbox[i].id : i \in DOMAIN inbox}
  /\ crossed' = Ids
  /\ UNCHANGED <<cloud, edits, store, disordered>>

------------------------------------------------------------------------------
SyncInit ==
  /\ store \in {"db", "file"}
  /\ cloud = <<>> /\ up = FALSE /\ inbox = <<>>
  /\ items = <<>> /\ dirty = FALSE /\ writing = <<>> /\ table = <<>>
  /\ embedding = {} /\ vectors = <<>>
  /\ edits = 0 /\ outages = 0
  /\ unseen = {} /\ crossed = {} /\ disordered = FALSE

SyncNext ==
  \/ \E id \in Ids : RemoveInCloud(id) \/ \E v \in Items : Edit(id, v)
  \/ Connect \/ Disconnect
  \/ HandleMessage
  \/ \E g \in embedding : Look(g) \/ Embed(g)
  \/ \E i \in 1..Len(writing) : WriteItem(i)
  \/ SaveIfDirty \/ Restart

SyncSpec == SyncInit /\ [][SyncNext]_syncVars

------------------------------------------------------------------------------
(* Properties.                                                              *)

CopyIsCurrent ==
  up /\ inbox = <<>> =>
    /\ \A id \in DOMAIN cloud : Has(items, id) /\ items[id] = cloud[id]
    /\ DOMAIN items \ DOMAIN cloud \subseteq unseen

TableIsCurrent ==
  writing = <<>> /\ ~disordered /\ (store = "file" => ~dirty) => table = items

VectorsAreCurrent ==
  \A id \in Ids \ crossed : ~InFlight(id) =>
    /\ Has(vectors, id) <=> Has(items, id)
    /\ Has(items, id) => vectors[id].item.content = items[id].content

\* When every message of a connection has been handled, the copy is what the
\* cloud has: every item, as it is there, and no other, but for those whose
\* removal the router was not there to hear of, which no later bulk removes.
\* It is what a restart would load too, once it has been written in order.  And
\* a search by meaning finds the items of the copy, with the content they have
\* there, once their embeddings have been made: unless a change came while one
\* was being made, when the last to end, which need not be the last to start,
\* decides.
CopyFollows == CopyIsCurrent /\ TableIsCurrent /\ VectorsAreCurrent

\* The table of documents as AtomicTables has it: SQLite's, or the map, of which
\* cache.json is what a crash leaves.
OneTable(f) == [t \in {"documents"} |-> {<<id, f[id]>> : id \in DOMAIN f}]
InDb == INSTANCE AtomicTables WITH
  Tables <- {"documents"}, Durable <- TRUE, asked <- {},
  live <- OneTable(table), kept <- OneTable(table)
InFile == INSTANCE AtomicTables WITH
  Tables <- {"documents"}, Durable <- FALSE, asked <- {},
  live <- OneTable(items), kept <- OneTable(table)

\* Either way the copy does with its items what internal/db promises of a table:
\* a message or a write puts one item or removes one, and a restart brings back what
\* was kept, or nothing if the file was being written.
CopiesStored ==
  [][IF store = "db" THEN InDb!AtomicNext ELSE InFile!AtomicNext]_syncVars
================================================================================
