-------------------------------- MODULE Memory --------------------------------
(*****************************************************************************)
(* Long-term memory (internal/memory): after each answer the chat handler    *)
(* starts a post-response goroutine that asks a local model for facts, adds  *)
(* them to the store, records a summary of a long conversation and, past a   *)
(* token threshold, asks the model to compress everything into one memory.   *)
(* The store is kept in SQLite by one goroutine per write (internal/db), or  *)
(* in a JSON file that a loop rewrites, and is loaded again at start.        *)
(*                                                                           *)
(* A memory is known by the facts its text states.  Its id is the time it    *)
(* was added at, which also stands for its updated_at, taken just before     *)
(* from a clock of seconds.                                                  *)
(*****************************************************************************)
EXTENDS Naturals, FiniteSets, Sequences, SequencesExt

CONSTANTS
  Posts,         \* post-response goroutines (bound on answered requests)
  NoPost,
  Facts,         \* facts the conversations state
  Convs,         \* conversation ids; 0 is that of a request without one
  ConvOf,        \* the conversations the posts may be about
  MaxMemories,   \* MaxMemories (100)
  MaxSummaries,  \* summaries kept (20)
  Threshold,     \* OptimizeTokenThreshold (4000)
  FactTokens, SummaryTokens,   \* what EstimateTokens makes of one of each
  CompressedTokens,            \* and of what compression may answer
  MaxMishaps     \* bound on failed writes and restarts of the daemon

ASSUME ConstAssumption ==
  /\ NoPost \notin Posts
  /\ Convs \subseteq Nat /\ ConvOf \subseteq [Posts -> Convs]
  /\ MaxMemories \in Nat \ {0} /\ MaxSummaries \in Nat \ {0}
  /\ Threshold \in Nat /\ FactTokens \in Nat \ {0} /\ SummaryTokens \in Nat
  /\ CompressedTokens \subseteq Nat
  /\ MaxMishaps \in Nat

VARIABLES
  mode,          \* whether the daemon was given a database
  memories, total, sums,       \* Store.memories, totalTokens, summaries
  dirty,
  optimizing,    \* the post that holds Store.optimizing, or NoPost
  pc, conv, todo, snap,        \* each post: its step, its request's
                 \* conversation, the facts to add, the memories it compresses
  writes,        \* goroutines writing memories to the database, oldest first
  sumWrites,     \* goroutines writing summaries
  rows, sumRows, \* the tables user_memories and conversation_summaries
  file,          \* memory.json
  clock, sumClock,   \* times given to memories, and to summaries, so far
  mishaps,       \* failed writes and restarts so far
  loaded,        \* history: the daemon has been started again
  learned,       \* history: facts AddMemory took since the last load
  evicted,       \* history: memories dropped over the limit since then
  overlapped,    \* history: facts added while a compression was under way
  unordered,     \* history: since the load a database write overtook another
  missed         \* history: since the load a write failed

postVars == <<pc, conv, todo, snap>>
memVars  == <<memories, total, clock, evicted>>
sumVars  == <<sums, sumClock, sumWrites>>
addVars  == <<learned, overlapped>>
diskVars == <<rows, sumRows, file>>
faultVars == <<mishaps, loaded, missed>>
vars == <<mode, memories, total, sums, dirty, optimizing, pc, conv, todo,
          snap, writes, sumWrites, rows, sumRows, file, clock, sumClock,
          mishaps, loaded, learned, evicted, overlapped, unordered, missed>>

Tokens(ms) ==
  LET upTo[n \in 0..Len(ms)] == IF n = 0 THEN 0 ELSE upTo[n - 1] + ms[n].tokens
  IN upTo[Len(ms)]
Stated(ms) == UNION {m.facts : m \in Range(ms)}

\* The goroutines of syncMemoryToDB and its siblings exist with a database only.
Enqueue(w) == writes' = IF mode = "db" THEN Append(writes, w) ELSE writes

-------------------------------------------------------------------------------
(* The post-response goroutine.                                            *)

Goto(p, step) == pc' = [pc EXCEPT ![p] = step]

\* handleChatRequest starts the goroutine, which asks the model before it
\* touches the store: the action is the arrival of the answer.  No facts:
\* no model, a short conversation, an error, an answer that does not parse, or
\* a done context (the handler that passed its own returns at once).
Extract(p) ==
  /\ pc[p] = "idle"
  /\ \E said \in SUBSET Facts :
       /\ todo' = [todo EXCEPT ![p] = said]
       /\ Goto(p, IF said = {} THEN "summary" ELSE "learn")
  /\ UNCHANGED <<mode, memVars, sumVars, dirty, optimizing, conv, snap,
                 writes, unordered, addVars, diskVars, faultVars>>

\* Some post has copied the memories and not put its result in place yet.
Compressing == \E q \in Posts : pc[q] \in {"compress", "replace"}

\* AddMemory: what is known is skipped; one too many drops the first.
Known(f) == \E m \in Range(memories) : m.facts = {f}
OverLimit(ms) == Len(ms) > MaxMemories
Victim(ms) == Head(ms)
Dropped(ms) == IF OverLimit(ms) THEN {Victim(ms)} ELSE {}
TotalAfterUnpaid(ms) == total + FactTokens     \* faulty: eviction not counted
TotalAfter(ms) ==
  total + FactTokens - (IF OverLimit(ms) THEN Victim(ms).tokens ELSE 0)

Insert(f) ==
  LET new  == [id |-> clock + 1, facts |-> {f}, tokens |-> FactTokens]
      more == Append(memories, new)
  IN /\ memories' = IF OverLimit(more) THEN Tail(more) ELSE more
     /\ total' = TotalAfter(more)
     /\ dirty' = TRUE
     /\ clock' = clock + 1
     /\ evicted' = evicted \cup Dropped(more)
     /\ Enqueue([op |-> "upsert", rows |-> {new}])
     /\ overlapped' = IF Compressing THEN overlapped \cup {f}
                                     ELSE overlapped \ {f}
     /\ unordered' = (unordered \/ \E q \in Posts : pc[q] = "sync")

AddMemory(p, f) ==
  /\ pc[p] = "learn"
  /\ f \in todo[p]
  /\ todo' = [todo EXCEPT ![p] = @ \ {f}]
  /\ Goto(p, IF todo[p] = {f} THEN "summary" ELSE "learn")
  /\ learned' = learned \cup {f}
  /\ IF Known(f)
     THEN UNCHANGED <<memVars, dirty, writes, unordered, overlapped>>
     ELSE Insert(f)
  /\ UNCHANGED <<mode, sumVars, optimizing, conv, snap, diskVars, faultVars>>

\* The search for the oldest summary takes the id 0 for "none found yet": when
\* conversation 0 is the oldest, the next one visited replaces it, and the
\* order of a map's iteration decides which.
Oldest(ss) == CHOOSE c \in DOMAIN ss :
                \A d \in DOMAIN ss : ss[c].created <= ss[d].created
Victims(ss) == IF Oldest(ss) = 0 THEN DOMAIN ss ELSE {Oldest(ss)}

NoRow == [created |-> 0, updated |-> 0]        \* a nil *ConversationSummary

Without(ss, c) == [d \in DOMAIN ss \ {c} |-> ss[d]]

SetConversationSummary(p) ==
  LET c   == conv[p]
      new == [created |-> sumClock + 1, updated |-> sumClock + 1]
      all == [d \in DOMAIN sums \cup {c} |-> IF d = c THEN new ELSE sums[d]]
      write(ss) == [conv |-> c, row |-> IF c \in DOMAIN ss THEN new ELSE NoRow]
      Store(ss) ==
        /\ sums' = ss
        /\ sumWrites' = IF mode = "db" THEN sumWrites \cup {write(ss)}
                                       ELSE sumWrites
  IN /\ IF Cardinality(DOMAIN all) > MaxSummaries
        THEN \E v \in Victims(all) : Store(Without(all, v))
        ELSE Store(all)
     /\ dirty' = TRUE
     /\ sumClock' = sumClock + 1

\* postResponse: only a conversation of four messages or more is summarised.
Summarise(p) ==
  /\ pc[p] = "summary"
  /\ \/ SetConversationSummary(p)
     \/ UNCHANGED <<sumVars, dirty>>
  /\ Goto(p, "check")
  /\ UNCHANGED <<mode, memVars, optimizing, conv, todo, snap, writes, unordered,
                 addVars, diskVars, faultVars>>

-------------------------------------------------------------------------------
(* OptimizeIfNeeded.                                                       *)

End(p) == Goto(p, "ended")

CheckThreshold(p) ==
  /\ pc[p] = "check"
  /\ IF total >= Threshold /\ Len(memories) >= 2 THEN Goto(p, "lock") ELSE End(p)
  /\ UNCHANGED <<mode, memVars, sumVars, dirty, optimizing, conv, todo, snap,
                 writes, unordered, addVars, diskVars, faultVars>>

\* TryLock, and the copy of the memories under it.
TryLock(p) ==
  /\ pc[p] = "lock"
  /\ IF optimizing = NoPost
     THEN /\ optimizing' = p
          /\ snap' = [snap EXCEPT ![p] = memories]
          /\ Goto(p, "compress")
     ELSE End(p) /\ UNCHANGED <<optimizing, snap>>
  /\ UNCHANGED <<mode, memVars, sumVars, dirty, conv, todo, writes, unordered,
                 addVars, diskVars, faultVars>>

\* What Optimize answers when the model fails or does not shorten the text.
OnFailureEmpty(ms) == <<>>                     \* faulty: the model's empty text
OnFailure(ms) == ms

\* Optimize: one memory that states what they all did and costs less, or the
\* memories as they were.
Compress(p) ==
  /\ pc[p] = "compress"
  /\ Goto(p, "replace")
  /\ \/ /\ Len(snap[p]) >= 2
        /\ \E t \in CompressedTokens :
             /\ t < Tokens(snap[p])
             /\ snap' = [snap EXCEPT ![p] =
               <<[id |-> clock + 1, facts |-> Stated(snap[p]), tokens |-> t]>>]
        /\ clock' = clock + 1
     \/ snap' = [snap EXCEPT ![p] = OnFailure(@)] /\ UNCHANGED clock
  /\ UNCHANGED <<mode, memories, total, evicted, sumVars, dirty, optimizing,
                 conv, todo, writes, unordered, addVars, diskVars, faultVars>>

DirtyAfterForgotten == dirty                   \* faulty: not marked for saving
DirtyAfter == TRUE

Replace(p) ==
  /\ pc[p] = "replace"
  /\ memories' = snap[p]
  /\ total' = Tokens(snap[p])
  /\ dirty' = DirtyAfter
  /\ Goto(p, "sync")
  /\ UNCHANGED <<mode, clock, evicted, sumVars, optimizing, conv, todo, snap,
                 writes, unordered, addVars, diskVars, faultVars>>

\* syncReplaceAllMemoriesToDB, called after the store is unlocked.
SyncReplaced(p) ==
  /\ pc[p] = "sync"
  /\ Enqueue([op |-> "replace", rows |-> Range(snap[p])])
  /\ optimizing' = NoPost
  /\ snap' = [snap EXCEPT ![p] = <<>>]
  /\ End(p)
  /\ UNCHANGED <<mode, memVars, sumVars, dirty, conv, todo, unordered, addVars,
                 diskVars, faultVars>>

-------------------------------------------------------------------------------
(* Persistence.                                                            *)

Mishap == mishaps < MaxMishaps /\ mishaps' = mishaps + 1

\* ORDER BY at DESC LIMIT n, of the rows a function gives the times of.
NewestFirst(at, n) ==
  {s \in BoundedSeq(DOMAIN at, n) :
     /\ \A i, j \in DOMAIN s : i < j => s[i] # s[j] /\ at[s[i]] >= at[s[j]]
     /\ \A x \in DOMAIN at \ Range(s) :
          Len(s) = n /\ \A y \in Range(s) : at[y] >= at[x]}

\* The goroutines run in any order; a write may fail, and nobody is told.
WriteMemory(i) ==
  /\ i \in DOMAIN writes
  /\ writes' = RemoveAt(writes, i)
  /\ unordered' = (unordered \/ i > 1)
  /\ \/ /\ rows' = IF writes[i].op = "replace" THEN writes[i].rows
                                               ELSE rows \cup writes[i].rows
        /\ UNCHANGED <<mishaps, missed>>
     \/ Mishap /\ missed' = TRUE /\ UNCHANGED rows
  /\ UNCHANGED <<mode, memVars, sumVars, dirty, optimizing, postVars, addVars,
                 sumRows, file, loaded>>

\* UpsertSummary leaves created_at of a row that exists as it is.
SummaryRow(w) ==
  IF w.conv \in DOMAIN sumRows
  THEN [sumRows EXCEPT ![w.conv].updated = w.row.updated]
  ELSE [c \in DOMAIN sumRows \cup {w.conv} |->
          IF c = w.conv THEN w.row ELSE sumRows[c]]

WriteSummary(w) ==
  /\ w \in sumWrites
  /\ w.row # NoRow
  /\ sumWrites' = sumWrites \ {w}
  /\ \/ sumRows' = SummaryRow(w) /\ UNCHANGED <<mishaps, missed>>
     \/ Mishap /\ missed' = TRUE /\ UNCHANGED sumRows
  /\ UNCHANGED <<mode, memVars, sums, sumClock, dirty, optimizing,
                 postVars, writes, unordered, addVars, rows, file, loaded>>

\* saveIfDirty, every thirty seconds; the error of the write is ignored.
SaveIfDirty ==
  /\ mode = "file" /\ dirty
  /\ dirty' = FALSE
  /\ \/ /\ file' = [memories |-> memories, sums |-> sums]
        /\ UNCHANGED <<mishaps, missed>>
     \/ /\ Mishap /\ missed' = TRUE
        /\ UNCHANGED file
  /\ UNCHANGED <<mode, memVars, sumVars, optimizing, postVars, writes, unordered,
                 addVars, rows, sumRows, loaded>>

\* loadFromDB takes the newest rows first, loadFromFile the order it saved.
LoadMemories(disk) ==
  IF mode = "db"
  THEN memories' \in NewestFirst([m \in rows |-> m.id], MaxMemories)
  ELSE memories' = disk.memories
LoadSummaries(disk) ==
  IF mode = "db"
  THEN \E kept \in NewestFirst([c \in DOMAIN sumRows |-> sumRows[c].updated],
                               MaxSummaries) :
         sums' = [c \in Range(kept) |-> sumRows[c]]
  ELSE sums' = disk.sums

\* recalcTotalTokens counts the summaries, which nothing else does.
LoadedTotal(ms, ss) == Tokens(ms) + SummaryTokens * Cardinality(DOMAIN ss)

\* The process ends, by whatever cause, and is started again: goroutines and
\* unwritten changes are gone.
LoadFrom(disk) ==
  /\ Mishap
  /\ loaded' = TRUE
  /\ file' = disk
  /\ LoadMemories(disk) /\ LoadSummaries(disk)
  /\ total' = LoadedTotal(memories', sums')
  /\ dirty' = FALSE /\ optimizing' = NoPost
  /\ pc' = [p \in Posts |-> IF pc[p] = "idle" THEN "idle" ELSE "ended"]
  /\ todo' = [p \in Posts |-> {}]
  /\ snap' = [p \in Posts |-> <<>>]
  /\ writes' = <<>> /\ sumWrites' = {}
  /\ learned' = {} /\ evicted' = {} /\ overlapped' = {}
  /\ unordered' = FALSE /\ missed' = FALSE
  /\ UNCHANGED <<mode, conv, rows, sumRows, clock, sumClock>>

Restart == LoadFrom(file)

\* memory.json is written in place: a crash in the middle leaves a file that
\* does not parse, and the next start begins with an empty store.
NoFile == [memories |-> <<>>, sums |-> <<>>]
CrashInSave == mode = "file" /\ dirty /\ LoadFrom(NoFile)

\* syncSummaryToDB of a summary that was evicted at once: a nil dereference
\* in a goroutine ends the process.
Panic ==
  /\ \E w \in sumWrites : w.row = NoRow
  /\ LoadFrom(file)

-------------------------------------------------------------------------------
Init ==
  /\ mode \in {"db", "file"}
  /\ memories = <<>> /\ total = 0 /\ sums = <<>>
  /\ dirty = FALSE /\ optimizing = NoPost
  /\ pc = [p \in Posts |-> "idle"]
  /\ conv \in ConvOf
  /\ todo = [p \in Posts |-> {}]
  /\ snap = [p \in Posts |-> <<>>]
  /\ writes = <<>> /\ sumWrites = {}
  /\ rows = {} /\ sumRows = <<>> /\ file = NoFile
  /\ clock = 0 /\ sumClock = 0 /\ mishaps = 0 /\ loaded = FALSE
  /\ learned = {} /\ evicted = {} /\ overlapped = {}
  /\ unordered = FALSE /\ missed = FALSE

PostStep(p) ==
  \/ \E f \in Facts : AddMemory(p, f)
  \/ Summarise(p)
  \/ CheckThreshold(p) \/ TryLock(p)
  \/ Compress(p) \/ Replace(p) \/ SyncReplaced(p)

Next ==
  \/ \E p \in Posts : Extract(p) \/ PostStep(p)
  \/ \E i \in 1..Len(writes) : WriteMemory(i)
  \/ \E w \in sumWrites : WriteSummary(w)
  \/ SaveIfDirty
  \/ Restart \/ CrashInSave \/ Panic

Spec == Init /\ [][Next]_vars

-------------------------------------------------------------------------------
(* Properties.                                                             *)

Steps == {"idle", "learn", "summary", "check", "lock", "compress",
          "replace", "sync", "ended"}
Memories == [id : Nat, facts : SUBSET Facts, tokens : Nat]
SummaryRecords == [created : Nat, updated : Nat]

\* The store keeps at most MaxMemories memories and MaxSummaries summaries,
\* whoever adds, compresses and reloads; a post holds the compression lock
\* from its copy to its result and at no other time.
TypeOK ==
  /\ Len(memories) <= MaxMemories
  /\ Range(memories) \subseteq Memories
  /\ total \in Nat
  /\ DOMAIN sums \subseteq Convs /\ Range(sums) \subseteq SummaryRecords
  /\ Cardinality(DOMAIN sums) <= MaxSummaries
  /\ pc \in [Posts -> Steps]
  /\ \A p \in Posts : (optimizing = p) <=> pc[p] \in {"compress", "replace", "sync"}
  /\ rows \subseteq Memories
  /\ DOMAIN sumRows \subseteq Convs /\ Range(sumRows) \subseteq SummaryRecords

\* The cached token count never falls below what the memories cost, so that
\* a store over the threshold is compressed, and exceeds it only by what was
\* counted at the last load.
TotalCovers ==
  /\ total >= Tokens(memories)
  /\ ~loaded => total = Tokens(memories)

\* A fact the store took is still stated by some memory, alone or compressed
\* with others, unless it went over the limit or came while another post's
\* compression was under way.
FactsKept ==
  \A f \in learned :
    \/ f \in Stated(memories)
    \/ f \in overlapped
    \/ \E m \in evicted : f \in m.facts

\* Once every write has been carried out, in the order of the changes and
\* without a failure, the disk has every memory and summary of the store.
DiskCatchesUp ==
  ~missed =>
    IF mode = "db"
    THEN /\ writes = <<>> /\ ~unordered /\ (\A p \in Posts : pc[p] # "sync")
              => Range(memories) \subseteq rows
         /\ sumWrites = {} => DOMAIN sums \subseteq DOMAIN sumRows
    ELSE ~dirty => file = [memories |-> memories, sums |-> sums]
===============================================================================
