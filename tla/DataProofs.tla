------------------------------- MODULE DataProofs -------------------------------
(******************************************************************************)
(* Proofs about what else the router keeps: the usage of model calls, the     *)
(* copy of the cloud's data, and the sessions.                                *)
(******************************************************************************)
EXTENDS MemoryProofs

--------------------------------------------------------------------------------
(* The usage of model calls.                                                  *)

\* A call is in the bucket of its own hour, in memory and in the file, and what
\* was never recorded was never told.
UsageTypeOK ==
  /\ hour \in Usage!Hours
  /\ DOMAIN stamp \subseteq Calls /\ made \subseteq DOMAIN stamp
  /\ \A c \in DOMAIN stamp : stamp[c] \in Usage!Hours
  /\ buckets \in [Usage!Hours -> SUBSET made]
  /\ usageFile \in [Usage!Hours -> SUBSET made]
  /\ \A h \in Usage!Hours : \A c \in buckets[h] \cup usageFile[h] : stamp[c] = h
  /\ report \subseteq made
  /\ reports \in [Calls -> Nat] /\ \A c \in Calls \ made : reports[c] = 0

\* No call is in two of the three places, or in one of them twice.
Once ==
  \A c \in made \ again :
    /\ c \in Usage!In(buckets) => c \notin report /\ reports[c] = 0
    /\ c \in report => reports[c] = 0
    /\ reports[c] <= 1
Somewhere ==
  \A c \in made :
    c \in Usage!In(buckets) \/ c \in report \/ reports[c] > 0 \/ c \in gone

LEMMA UsageCardinality == \A S : Usage!Cardinality(S) = Cardinality(S)
BY DEF Usage!Cardinality, Cardinality

LEMMA UsageTypeStep ==
  UsageTypeOK /\ [Usage!UsageNext]_Usage!usageVars => UsageTypeOK'
<1> SUFFICES ASSUME UsageTypeOK, [Usage!UsageNext]_Usage!usageVars PROVE UsageTypeOK'
  OBVIOUS
<1> USE PartsAssumption DEF PartsAssumption, UsageTypeOK, Usage!Hours
<1>1. ASSUME NEW c \in Calls, Usage!Stamp(c) PROVE UsageTypeOK'
  <2>1. /\ DOMAIN stamp' = DOMAIN stamp \cup {c}
        /\ \A x \in DOMAIN stamp' : stamp'[x] = IF x = c THEN hour ELSE stamp[x]
        /\ c \notin made
    BY <1>1 DEF Usage!Stamp
  <2>2. \A h \in Usage!Hours : buckets[h] \subseteq made /\ usageFile[h] \subseteq made
    OBVIOUS
  <2>3. UNCHANGED <<hour, made, buckets, usageFile, report, reports>>
    BY <1>1 DEF Usage!Stamp
  <2>4. \A h \in Usage!Hours : \A x \in buckets'[h] \cup usageFile'[h] : stamp'[x] = h
    BY <2>1, <2>2, <2>3
  <2> QED
    BY <2>1, <2>3, <2>4
<1>2. ASSUME NEW c \in Calls, Usage!Record(c) PROVE UsageTypeOK'
  <2>1. /\ c \in DOMAIN stamp \ made /\ made' = made \cup {c}
        /\ buckets' = [buckets EXCEPT ![stamp[c]] = @ \cup {c}]
        /\ usageFile' \in {buckets', usageFile}
        /\ UNCHANGED <<hour, stamp, report, reports>>
    BY <1>2 DEF Usage!Record, Usage!SaveLocked
  <2>2. /\ buckets' \in [Usage!Hours -> SUBSET made']
        /\ \A h \in Usage!Hours :
             buckets'[h] = IF h = stamp[c] THEN buckets[h] \cup {c} ELSE buckets[h]
    BY <2>1
  <2>3. usageFile' \in [Usage!Hours -> SUBSET made']
    BY <2>1, <2>2
  <2>4. \A h \in Usage!Hours : \A x \in buckets'[h] \cup usageFile'[h] : stamp'[x] = h
    BY <2>1, <2>2
  <2> QED
    BY <2>1, <2>2, <2>3, <2>4
<1>3. CASE Usage!Flush
  <2>1. usageFile' \in {buckets', usageFile} /\ UNCHANGED <<hour, stamp, made, reports>>
    BY <1>3 DEF Usage!Flush, Usage!SaveLocked
  <2>2. /\ buckets' \in [Usage!Hours -> SUBSET made]
        /\ \A h \in Usage!Hours : buckets'[h] \subseteq buckets[h]
    BY <1>3 DEF Usage!Flush, Usage!Retained
  <2>3. report' \subseteq made
    BY <1>3 DEF Usage!Flush, Usage!Completed
  <2> QED
    BY <2>1, <2>2, <2>3
<1>4. CASE Usage!ReportUsage
  BY <1>4 DEF Usage!ReportUsage, Usage!Told
<1>5. CASE Usage!Hour
  BY <1>5 DEF Usage!Hour
<1>6. CASE Usage!Restart
  BY <1>6 DEF Usage!Restart, Usage!Empty, Usage!Told
<1>7. CASE UNCHANGED Usage!usageVars
  BY <1>7 DEF Usage!usageVars
<1> QED
  BY <1>1, <1>2, <1>3, <1>4, <1>5, <1>6, <1>7 DEF Usage!UsageNext

LEMMA OnceStep ==
  UsageTypeOK /\ Once /\ Somewhere /\ [Usage!UsageNext]_Usage!usageVars
    => Once' /\ Somewhere'
<1> SUFFICES ASSUME UsageTypeOK, Once, Somewhere, [Usage!UsageNext]_Usage!usageVars
             PROVE  Once' /\ Somewhere'
  OBVIOUS
<1> USE PartsAssumption DEF PartsAssumption, UsageTypeOK, Once, Somewhere, Usage!In
<1>1. ASSUME NEW c \in Calls, Usage!Stamp(c) PROVE Once' /\ Somewhere'
  BY <1>1 DEF Usage!Stamp
<1>2. ASSUME NEW c \in Calls, Usage!Record(c) PROVE Once' /\ Somewhere'
  <2>1. /\ c \in DOMAIN stamp \ made /\ made' = made \cup {c}
        /\ buckets' = [buckets EXCEPT ![stamp[c]] = @ \cup {c}]
        /\ UNCHANGED <<report, reports, again, gone>>
    BY <1>2 DEF Usage!Record
  <2>2. Usage!In(buckets)' = Usage!In(buckets) \cup {c}
    BY <2>1
  <2>3. Usage!In(buckets) \subseteq made
    OBVIOUS
  <2> HIDE DEF Usage!In
  <2>4. reports[c] = 0 /\ c \notin report
    BY <2>1
  <2>5. Once'
    <3> SUFFICES ASSUME NEW x \in made', x \notin again
                 PROVE  /\ x \in Usage!In(buckets)' => x \notin report /\ reports[x] = 0
                        /\ x \in report => reports[x] = 0
                        /\ reports[x] <= 1
      BY <2>1
    <3>1. CASE x = c
      BY <2>4, <3>1
    <3>2. CASE x \in made /\ x # c
      BY <2>2, <3>2
    <3> QED
      BY <2>1, <3>1, <3>2
  <2>6. Somewhere'
    BY <2>1, <2>2, <2>3
  <2> QED
    BY <2>5, <2>6
<1>3. CASE Usage!Flush
  <2>1. /\ report = {} /\ report' \cup Usage!In(buckets)' = Usage!In(buckets)
        /\ UNCHANGED <<made, reports, again, gone>>
    BY <1>3 DEF Usage!Flush, Usage!Retained, Usage!Completed
  <2>2. report' \cap Usage!In(buckets)' = {}
    <3> SUFFICES ASSUME NEW c \in report', NEW h \in Usage!Hours, c \in buckets'[h]
                 PROVE  FALSE
      OBVIOUS
    <3>1. PICK g \in Usage!Completed : c \in buckets[g]
      BY <1>3 DEF Usage!Flush
    <3>2. h \notin Usage!Completed /\ c \in buckets[h]
      BY <1>3 DEF Usage!Flush, Usage!Retained
    <3> QED
      BY <3>1, <3>2 DEF Usage!Completed
  <2> HIDE DEF Usage!In
  <2> QED
    BY <2>1, <2>2
<1>4. CASE Usage!ReportUsage
  <2>1. PICK arrives \in BOOLEAN, known \in BOOLEAN :
          /\ known => arrives
          /\ gone' = IF known THEN gone ELSE gone \cup report
          /\ reports' = Usage!Told(IF arrives THEN report ELSE {})
    BY <1>4 DEF Usage!ReportUsage
  <2>2. report' = {} /\ UNCHANGED <<made, buckets, again>>
    BY <1>4 DEF Usage!ReportUsage
  <2>3. \A c \in made : reports'[c] = IF arrives /\ c \in report THEN reports[c] + 1
                                                                 ELSE reports[c]
    BY <2>1 DEF Usage!Told
  <2> HIDE DEF Usage!In
  <2> QED
    BY <2>1, <2>2, <2>3
<1>5. CASE Usage!Hour
  BY <1>5 DEF Usage!Hour
<1>6. CASE Usage!Restart
  <2>1. PICK arrived \in {{}, report} : reports' = Usage!Told(arrived)
    BY <1>6 DEF Usage!Restart
  <2>2. /\ made' = made \cup DOMAIN stamp /\ report' = {}
        /\ gone' = gone \cup report \cup (DOMAIN stamp \ Usage!In(buckets)')
        /\ again' = again \cup (Usage!In(buckets)' \ Usage!In(buckets))
    BY <1>6 DEF Usage!Restart
  <2>3. \A c \in Calls : reports'[c] = IF c \in arrived THEN reports[c] + 1
                                                        ELSE reports[c]
    BY <2>1 DEF Usage!Told
  <2>4. Usage!In(buckets) \subseteq made
    OBVIOUS
  <2> HIDE DEF Usage!In
  <2> QED
    BY <2>1, <2>2, <2>3, <2>4
<1>7. CASE UNCHANGED Usage!usageVars
  BY <1>7 DEF Usage!usageVars
<1> QED
  BY <1>1, <1>2, <1>3, <1>4, <1>5, <1>6, <1>7 DEF Usage!UsageNext

\* No usage is lost or told twice, but by a failed report, a failed save or a
\* restart: for any calls, at any hours.
THEOREM UsageAccountedHolds == Usage!UsageSpec => []UsageAccounted
<1>1. Usage!UsageInit => UsageTypeOK /\ Once /\ Somewhere
  BY PartsAssumption DEF PartsAssumption, Usage!UsageInit, Usage!Empty, UsageTypeOK,
    Usage!Hours, Once, Somewhere
<1>2. UsageTypeOK /\ Once /\ Somewhere => UsageAccounted
  <2> SUFFICES ASSUME UsageTypeOK, Once, Somewhere PROVE Usage!UsageAccounted
    BY DEF UsageAccounted
  <2> SUFFICES ASSUME NEW c \in made
               PROVE  /\ \/ c \in Usage!In(buckets) \/ c \in report
                         \/ reports[c] > 0 \/ c \in gone
                      /\ reports[c] + Usage!Cardinality({x \in {1} : c \in report})
                            + Usage!Cardinality({h \in Usage!Hours : c \in buckets[h]}) > 1
                         => c \in again
    BY Zenon DEF Usage!UsageAccounted
  <2> DEFINE R == {x \in {1} : c \in report}
             B == {h \in Usage!Hours : c \in buckets[h]}
  <2>1. Cardinality(R) = IF c \in report THEN 1 ELSE 0
    <3>1. c \in report => R = {1}
      OBVIOUS
    <3>2. c \notin report => R = {}
      OBVIOUS
    <3> QED
      BY <3>1, <3>2, FS_EmptySet, FS_Singleton
  <2>2. Cardinality(B) = IF c \in Usage!In(buckets) THEN 1 ELSE 0
    <3>1. c \in Usage!In(buckets) => B = {stamp[c]}
      BY DEF UsageTypeOK, Usage!In
    <3>2. c \notin Usage!In(buckets) => B = {}
      BY DEF Usage!In
    <3> QED
      BY <3>1, <3>2, FS_EmptySet, FS_Singleton
  <2>3. reports[c] \in Nat
    BY DEF UsageTypeOK
  <2> HIDE DEF R, B
  <2>4. c \notin again => reports[c] + Cardinality(R) + Cardinality(B) <= 1
    BY <2>1, <2>2, <2>3 DEF Once
  <2>5. (reports[c] + Cardinality(R) + Cardinality(B) > 1) => c \in again
    BY <2>1, <2>2, <2>3, <2>4
  <2> QED
    BY <2>5, UsageCardinality DEF R, B, Somewhere
<1> QED
  BY <1>1, <1>2, UsageTypeStep, OnceStep, PTL DEF Usage!UsageSpec

-------------------------------------------------------------------------------
(* Queues of changes to a map: messages on a connection, writes under way.  *)

\* A map with a change made to it.
Changed(f, m) == IF m.op = "sync" THEN Copies!Put(f, m.id, m.item) ELSE Copies!Cut(f, m.id)

\* A queue has no later change of the same id.
Final(q, i) == \A j \in i + 1..Len(q) : q[j].id # q[i].id
Untouched(q, id) == \A i \in 1..Len(q) : q[i].id # id
Tells(m, g) == IF m.op = "sync" THEN m.id \in DOMAIN g /\ g[m.id] = m.item
                                ELSE m.id \notin DOMAIN g

\* The map f becomes g by the changes of the queue q, but for ids of U, which f
\* may have and g not: the last change of an id tells what g has of it.
Follows(q, f, g, U) ==
  /\ \A i \in 1..Len(q) : Final(q, i) => Tells(q[i], g)
  /\ \A id \in DOMAIN f \cup DOMAIN g : Untouched(q, id) =>
       /\ id \in DOMAIN g => id \in DOMAIN f /\ f[id] = g[id]
       /\ id \in DOMAIN f => id \in DOMAIN g \cup U

LEMMA ChangedMap ==
  ASSUME NEW f, NEW m
  PROVE  /\ \A id : id # m.id => /\ id \in DOMAIN Changed(f, m) <=> id \in DOMAIN f
                                 /\ id \in DOMAIN f => Changed(f, m)[id] = f[id]
         /\ Tells(m, Changed(f, m))
         /\ DOMAIN Changed(f, m) \subseteq DOMAIN f \cup {m.id}
<1>1. CASE m.op = "sync"
  BY <1>1 DEF Changed, Tells, Copies!Put
<1>2. CASE m.op # "sync"
  BY <1>2 DEF Changed, Tells, Copies!Cut
<1> QED
  BY <1>1, <1>2

LEMMA FollowsEmpty ==
  ASSUME NEW f, NEW g, NEW U, NEW q, q = <<>>, Follows(q, f, g, U)
  PROVE  /\ \A id \in DOMAIN g : id \in DOMAIN f /\ f[id] = g[id]
         /\ DOMAIN f \ DOMAIN g \subseteq U
<1>1. \A id : Untouched(q, id)
  BY DEF Untouched
<1> QED
  BY <1>1 DEF Follows

\* Both the queue and its outcome change.
LEMMA FollowsAppend ==
  ASSUME NEW S, NEW q \in Seq(S), NEW m \in S, NEW f, NEW g, NEW U, NEW V,
         Follows(q, f, g, U), U \subseteq V \cup {m.id}
  PROVE  Follows(Append(q, m), f, Changed(g, m), V)
<1> DEFINE r == Append(q, m)
           n == Len(q)
           h == Changed(g, m)
<1>1. /\ Len(r) = n + 1 /\ n \in Nat /\ r[n + 1] = m
      /\ \A i \in 1..n : r[i] = q[i]
  OBVIOUS
<1>2. /\ \A id : id # m.id => /\ id \in DOMAIN h <=> id \in DOMAIN g
                              /\ id \in DOMAIN g => h[id] = g[id]
      /\ Tells(m, h)
      /\ DOMAIN h \subseteq DOMAIN g \cup {m.id}
  BY ChangedMap
<1> HIDE DEF r, n, h
<1>3. ASSUME NEW i \in 1..Len(r), Final(r, i) PROVE Tells(r[i], h)
  <2>1. CASE i = n + 1
    BY <1>1, <1>2, <2>1
  <2>2. CASE i # n + 1
    <3>1. i \in 1..n /\ r[i] = q[i] /\ n + 1 \in i + 1..Len(r)
      BY <1>1, <2>2
    <3>2. q[i].id # m.id
      BY <1>1, <1>3, <3>1 DEF Final
    <3>3. \A j \in i + 1..Len(q) : j \in 1..n /\ j \in i + 1..Len(r)
      BY <1>1, <3>1 DEF n
    <3>4. Final(q, i)
      BY <1>1, <1>3, <3>1, <3>3 DEF Final
    <3>5. Tells(q[i], g)
      BY <3>1, <3>4 DEF Follows, n
    <3> QED
      BY <1>2, <3>1, <3>2, <3>5 DEF Tells
  <2> QED
    BY <2>1, <2>2
<1>4. ASSUME NEW id \in DOMAIN f \cup DOMAIN h, Untouched(r, id)
      PROVE  /\ id \in DOMAIN h => id \in DOMAIN f /\ f[id] = h[id]
             /\ id \in DOMAIN f => id \in DOMAIN h \cup V
  <2>1. id # m.id
    BY <1>1, <1>4 DEF Untouched
  <2>2. Untouched(q, id)
    BY <1>1, <1>4 DEF Untouched, n
  <2>3. id \in DOMAIN f \cup DOMAIN g
    BY <1>2, <2>1
  <2>4. /\ id \in DOMAIN g => id \in DOMAIN f /\ f[id] = g[id]
        /\ id \in DOMAIN f => id \in DOMAIN g \cup U
    BY <2>2, <2>3 DEF Follows
  <2> QED
    BY <1>2, <2>1, <2>4
<1> QED
  BY <1>3, <1>4 DEF Follows, r, h

\* The first change is made.
LEMMA FollowsTail ==
  ASSUME NEW S, NEW q \in Seq(S), q # <<>>, NEW f, NEW g, NEW U, NEW V,
         Follows(q, f, g, U), U \subseteq V \cup {Head(q).id}
  PROVE  Follows(Tail(q), Changed(f, Head(q)), g, V)
<1> DEFINE r == Tail(q)
           n == Len(q)
           m == Head(q)
           h == Changed(f, m)
<1>1. /\ Len(r) = n - 1 /\ n \in Nat \ {0} /\ q[1] = m
      /\ \A i \in 1..Len(r) : r[i] = q[i + 1]
  OBVIOUS
<1>2. /\ \A id : id # m.id => /\ id \in DOMAIN h <=> id \in DOMAIN f
                              /\ id \in DOMAIN f => h[id] = f[id]
      /\ Tells(m, h)
      /\ DOMAIN h \subseteq DOMAIN f \cup {m.id}
  BY ChangedMap
<1> HIDE DEF r, n, m, h
<1>3. ASSUME NEW i \in 1..Len(r), Final(r, i) PROVE Tells(r[i], g)
  <2>1. i + 1 \in 1..n /\ r[i] = q[i + 1]
    BY <1>1
  <2>2. \A j \in (i + 1) + 1..n : j - 1 \in i + 1..Len(r) /\ r[j - 1] = q[j]
    BY <1>1
  <2>3. Final(q, i + 1)
    BY <1>3, <2>1, <2>2 DEF Final, n
  <2> QED
    BY <2>1, <2>3 DEF Follows, n
<1>4. ASSUME NEW id \in DOMAIN h \cup DOMAIN g, Untouched(r, id)
      PROVE  /\ id \in DOMAIN g => id \in DOMAIN h /\ h[id] = g[id]
             /\ id \in DOMAIN h => id \in DOMAIN g \cup V
  <2>1. \A i \in 2..n : q[i].id # id
    <3>1. \A i \in 2..n : i - 1 \in 1..Len(r) /\ r[i - 1] = q[i]
      BY <1>1
    <3> QED
      BY <1>4, <3>1 DEF Untouched
  <2>2. CASE id = m.id
    <3>1. Final(q, 1)
      BY <1>1, <2>1, <2>2 DEF Final, n
    <3>2. Tells(m, g)
      BY <1>1, <3>1 DEF Follows, n
    <3> QED
      BY <1>2, <2>2, <3>2 DEF Tells
  <2>3. CASE id # m.id
    <3>1. \A i \in 1..n : i = 1 \/ i \in 2..n
      BY <1>1
    <3>2. Untouched(q, id)
      BY <1>1, <2>1, <2>3, <3>1 DEF Untouched, n
    <3>3. id \in DOMAIN f \cup DOMAIN g
      BY <1>2, <2>3
    <3>4. /\ id \in DOMAIN g => id \in DOMAIN f /\ f[id] = g[id]
          /\ id \in DOMAIN f => id \in DOMAIN g \cup U
      BY <3>2, <3>3 DEF Follows
    <3> QED
      BY <1>2, <2>3, <3>4 DEF m
  <2> QED
    BY <2>2, <2>3
<1> QED
  BY <1>3, <1>4 DEF Follows, r, h, m

\* A set as a sequence has each of its elements, and no other.
LEMMA SequenceOf ==
  ASSUME NEW S, IsFiniteSet(S)
  PROVE  /\ Copies!SetToSeq(S) \in Seq(S)
         /\ Len(Copies!SetToSeq(S)) = Cardinality(S)
         /\ \A x \in S : \E i \in 1..Cardinality(S) : Copies!SetToSeq(S)[i] = x
         /\ \A i, j \in 1..Cardinality(S) :
              Copies!SetToSeq(S)[i] = Copies!SetToSeq(S)[j] => i = j
<1> DEFINE n == Cardinality(S)
<1>1. n \in Nat /\ ExistsBijection(1..n, S)
  BY FS_CardinalityType
<1>2. Copies!Cardinality(S) = n
  BY DEF Copies!Cardinality, Cardinality
<1>3. PICK b \in Bijection(1..n, S) : TRUE
  BY <1>1 DEF ExistsBijection
<1>4. b \in [1..n -> S] /\ \A i, j \in 1..n : b[i] = b[j] => i = j
  BY <1>3 DEF Bijection, Injection, IsInjective
<1>5. Copies!IsInjective(b)
  BY <1>4 DEF Copies!IsInjective
<1>6. \E f \in [1..n -> S] : Copies!IsInjective(f)
  BY <1>4, <1>5
<1> DEFINE s == Copies!SetToSeq(S)
<1>7. s \in [1..n -> S] /\ Copies!IsInjective(s)
  BY <1>2, <1>6 DEF Copies!SetToSeq
<1> HIDE DEF s, n
<1>8. s \in Seq(S) /\ Len(s) = n
  BY <1>1, <1>7
<1>9. \A i, j \in 1..n : s[i] = s[j] => i = j
  BY <1>7 DEF Copies!IsInjective
<1>10. s \in Injection(1..n, S)
  BY <1>7, <1>9 DEF Injection, IsInjective
<1>11. IsFiniteSet(1..n) /\ Cardinality(1..n) = n
  BY <1>1, FS_Interval
<1>12. s \in Surjection(1..n, S)
  BY <1>10, <1>11, FS_Injection DEF n
<1> QED
  BY <1>8, <1>9, <1>12 DEF Surjection, s, n

-------------------------------------------------------------------------------
(* The copy of the cloud's documents.                                      *)

SyncMessage(id, v) == [op |-> "sync", id |-> id, item |-> v]
DeleteMessage(id) == [op |-> "delete", id |-> id]
Changes == {SyncMessage(id, v) : id \in Ids, v \in Items} \cup {DeleteMessage(id) : id \in Ids}

CopyTypeOK ==
  /\ store \in {"db", "file"} /\ up \in BOOLEAN
  /\ DOMAIN cloud \subseteq Ids /\ cloud \in [DOMAIN cloud -> Items]
  /\ IsFiniteSet(DOMAIN cloud)
  /\ DOMAIN items \subseteq Ids /\ items \in [DOMAIN items -> Items]
  /\ DOMAIN table \subseteq Ids /\ table \in [DOMAIN table -> Items]
  /\ inbox \in Seq(Changes) /\ writing \in Seq(Changes)

\* The messages under way make the copy what the cloud has.
CloudInv ==
  /\ up => Follows(inbox, items, cloud, unseen)
  /\ ~up => inbox = <<>> /\ DOMAIN items \ DOMAIN cloud \subseteq unseen

\* The writes under way make the table what the copy is.
TableInv ==
  /\ store = "db" /\ ~disordered => Follows(writing, table, items, {})
  /\ store = "file" => writing = <<>> /\ (~copyDirty /\ ~disordered => table = items)

\* The embeddings under way are of the copy's items.
VectorsOf(its, emb, vecs, done) ==
  \A id \in Ids \ done :
    /\ \A g \in emb : g.id = id => id \in DOMAIN its /\ g.item = its[id]
    /\ (\A g \in emb : g.id # id) =>
         /\ id \in DOMAIN vecs <=> id \in DOMAIN its
         /\ id \in DOMAIN its => vecs[id].item.content = its[id].content
VectorInv == VectorsOf(items, embedding, vectors, crossed)

CopyInv == CopyTypeOK /\ CloudInv /\ TableInv /\ VectorInv

LEMMA ChangesAre ==
  \A m \in Changes : /\ m.id \in Ids /\ m.op \in {"sync", "delete"}
                     /\ m.op = "sync" => m.item \in Items
BY DEF Changes, SyncMessage, DeleteMessage

LEMMA ChangedType ==
  ASSUME NEW f, DOMAIN f \subseteq Ids, f \in [DOMAIN f -> Items], NEW m \in Changes
  PROVE  /\ DOMAIN Changed(f, m) \subseteq Ids
         /\ Changed(f, m) \in [DOMAIN Changed(f, m) -> Items]
         /\ IsFiniteSet(DOMAIN f) => IsFiniteSet(DOMAIN Changed(f, m))
<1>1. m.id \in Ids /\ m.op \in {"sync", "delete"} /\ (m.op = "sync" => m.item \in Items)
  BY ChangesAre
<1>2. CASE m.op = "sync"
  <2>1. Changed(f, m) = [i \in DOMAIN f \cup {m.id} |-> IF i = m.id THEN m.item ELSE f[i]]
    BY <1>2 DEF Changed, Copies!Put
  <2>2. IsFiniteSet(DOMAIN f) => IsFiniteSet(DOMAIN f \cup {m.id})
    BY FS_AddElement
  <2> QED
    BY <1>1, <1>2, <2>1, <2>2
<1>3. CASE m.op # "sync"
  <2>1. Changed(f, m) = [i \in DOMAIN f \ {m.id} |-> f[i]]
    BY <1>3 DEF Changed, Copies!Cut
  <2>2. IsFiniteSet(DOMAIN f) => IsFiniteSet(DOMAIN f \ {m.id})
    BY FS_RemoveElement
  <2> QED
    BY <1>1, <2>1, <2>2
<1> QED
  BY <1>2, <1>3

LEMMA CopyInitInv == Copies!SyncInit => CopyInv
<1> SUFFICES ASSUME Copies!SyncInit PROVE CopyInv
  OBVIOUS
<1> USE DEF Copies!SyncInit
<1>1. IsFiniteSet(DOMAIN cloud)
  <2>1. DOMAIN cloud = {}
    OBVIOUS
  <2> QED
    BY <2>1, FS_EmptySet
<1>2. DOMAIN cloud = {} /\ DOMAIN items = {} /\ DOMAIN table = {} /\ DOMAIN vectors = {}
  OBVIOUS
<1>3. CopyTypeOK
  <2>1. \A f : f = <<>> => DOMAIN f = {} /\ f \in [DOMAIN f -> Items] /\ f \in Seq(Changes)
    OBVIOUS
  <2>2. cloud = <<>> /\ items = <<>> /\ table = <<>> /\ inbox = <<>> /\ writing = <<>>
    OBVIOUS
  <2>3. /\ cloud \in [DOMAIN cloud -> Items] /\ items \in [DOMAIN items -> Items]
        /\ table \in [DOMAIN table -> Items] /\ inbox \in Seq(Changes)
        /\ writing \in Seq(Changes)
    BY ONLY <2>1, <2>2
  <2> QED
    BY <1>1, <1>2, <2>3 DEF CopyTypeOK
<1>4. Follows(writing, table, items, {})
  BY <1>2 DEF Follows
<1>5. CloudInv /\ TableInv /\ VectorInv
  BY <1>2, <1>4 DEF CloudInv, TableInv, VectorInv, VectorsOf
<1> QED
  BY <1>3, <1>5 DEF CopyInv

\* The cloud changes, and says so while there is a connection.
LEMMA CloudStep ==
  ASSUME CopyInv, NEW id \in Ids,
         Copies!RemoveInCloud(id) \/ \E v \in Items : Copies!Edit(id, v)
  PROVE  CopyInv'
<1> USE DEF Copies!copyVars, Copies!diskVars
<1>1. UNCHANGED <<up, items, copyDirty, writing, store, table, disordered, embedding,
                  vectors, crossed>>
  BY DEF Copies!RemoveInCloud, Copies!Edit
<1>2. CopyTypeOK /\ CloudInv /\ TableInv /\ VectorInv
  BY DEF CopyInv
<1>3. \E m \in Changes :
        /\ cloud' = Changed(cloud, m)
        /\ inbox' = IF up THEN Append(inbox, m) ELSE inbox
        /\ unseen \subseteq unseen' /\ (up => unseen' = unseen)
        /\ m.op = "delete" /\ ~up => m.id \in unseen'
  <2>1. CASE Copies!RemoveInCloud(id)
    <3>1. /\ DeleteMessage(id) \in Changes /\ DeleteMessage(id).id = id
          /\ DeleteMessage(id).op = "delete"
      BY DEF Changes, DeleteMessage
    <3>2. /\ cloud' = Changed(cloud, DeleteMessage(id))
          /\ inbox' = IF up THEN Append(inbox, DeleteMessage(id)) ELSE inbox
          /\ unseen' = IF up THEN unseen ELSE unseen \cup {id}
      BY <2>1, <3>1 DEF Copies!RemoveInCloud, Copies!Post, Changed, DeleteMessage
    <3> QED
      BY <3>1, <3>2
  <2>2. ASSUME NEW v \in Items, Copies!Edit(id, v)
        PROVE  /\ SyncMessage(id, v) \in Changes
               /\ cloud' = Changed(cloud, SyncMessage(id, v))
               /\ inbox' = IF up THEN Append(inbox, SyncMessage(id, v)) ELSE inbox
               /\ unseen' = unseen /\ SyncMessage(id, v).op # "delete"
    <3>1. /\ SyncMessage(id, v) \in Changes /\ SyncMessage(id, v).id = id
          /\ SyncMessage(id, v).op = "sync" /\ SyncMessage(id, v).item = v
      BY DEF Changes, SyncMessage
    <3>2. /\ cloud' = Changed(cloud, SyncMessage(id, v))
          /\ inbox' = IF up THEN Append(inbox, SyncMessage(id, v)) ELSE inbox
          /\ unseen' = unseen
      BY <2>2, <3>1 DEF Copies!Edit, Copies!Post, Changed, SyncMessage
    <3> QED
      BY <3>1, <3>2
  <2> QED
    BY <2>1, <2>2
<1>4. PICK m \in Changes :
        /\ cloud' = Changed(cloud, m)
        /\ inbox' = IF up THEN Append(inbox, m) ELSE inbox
        /\ unseen \subseteq unseen' /\ (up => unseen' = unseen)
        /\ m.op = "delete" /\ ~up => m.id \in unseen'
  BY <1>3
<1>5. /\ DOMAIN cloud' \subseteq Ids /\ cloud' \in [DOMAIN cloud' -> Items]
      /\ IsFiniteSet(DOMAIN cloud')
  BY <1>2, <1>4, ChangedType DEF CopyTypeOK
<1>6. inbox' \in Seq(Changes)
  BY <1>2, <1>4 DEF CopyTypeOK
<1>7. CopyTypeOK'
  BY <1>1, <1>2, <1>5, <1>6 DEF CopyTypeOK
<1>8. CloudInv'
  <2>1. CASE up
    <3>1. Follows(Append(inbox, m), items, Changed(cloud, m), unseen)
      BY <1>2, <2>1, FollowsAppend DEF CloudInv, CopyTypeOK
    <3> QED
      BY <1>1, <1>4, <2>1, <3>1 DEF CloudInv
  <2>2. CASE ~up
    <3>1. inbox = <<>> /\ DOMAIN items \ DOMAIN cloud \subseteq unseen
      BY <1>2, <2>2 DEF CloudInv
    <3>2. \A i : i \in DOMAIN cloud \ DOMAIN cloud' => i = m.id /\ m.op = "delete"
      BY <1>4, ChangedMap, ChangesAre DEF Tells
    <3>3. DOMAIN items' \ DOMAIN cloud' \subseteq unseen'
      BY <1>1, <1>4, <2>2, <3>1, <3>2
    <3> QED
      BY <1>1, <1>4, <2>2, <3>1, <3>3 DEF CloudInv
  <2> QED
    BY <2>1, <2>2
<1>9. TableInv' /\ VectorInv'
  BY <1>1, <1>2 DEF TableInv, VectorInv
<1> QED
  BY <1>7, <1>8, <1>9 DEF CopyInv

\* A connection begins with everything, and ends with what was under way.
LEMMA ConnectionStep ==
  ASSUME CopyInv, Copies!Connect \/ Copies!Disconnect
  PROVE  CopyInv'
<1> USE DEF Copies!copyVars, Copies!diskVars
<1>1. UNCHANGED <<cloud, items, copyDirty, writing, store, table, disordered, embedding,
                  vectors, crossed>>
  BY DEF Copies!Connect, Copies!Disconnect
<1>2. CopyTypeOK /\ CloudInv /\ TableInv /\ VectorInv
  BY DEF CopyInv
<1>3. TableInv' /\ VectorInv'
  BY <1>1, <1>2 DEF TableInv, VectorInv
<1>4. CASE Copies!Connect
  <2> DEFINE ids == Copies!SetToSeq(DOMAIN cloud)
             n == Cardinality(DOMAIN cloud)
  <2>1. /\ ids \in Seq(DOMAIN cloud) /\ Len(ids) = n /\ n \in Nat
        /\ \A x \in DOMAIN cloud : \E i \in 1..n : ids[i] = x
    BY <1>2, SequenceOf, FS_CardinalityType DEF CopyTypeOK
  <2>2. /\ up' = TRUE /\ unseen' = unseen /\ ~up
        /\ inbox' = [i \in DOMAIN ids |-> SyncMessage(ids[i], cloud[ids[i]])]
    BY <1>4 DEF Copies!Connect, SyncMessage
  <2> HIDE DEF ids, n
  <2>3. \A i \in 1..n : ids[i] \in DOMAIN cloud /\ ids[i] \in Ids /\ cloud[ids[i]] \in Items
    BY <1>2, <2>1 DEF CopyTypeOK
  <2>4. \A i \in 1..n : SyncMessage(ids[i], cloud[ids[i]]) \in Changes
    BY <2>3 DEF Changes
  <2>5. DOMAIN ids = 1..n
    BY <2>1
  <2>6. inbox' \in [1..n -> Changes]
    BY <2>2, <2>4, <2>5
  <2>7. inbox' \in Seq(Changes) /\ Len(inbox') = n
    BY <2>1, <2>6
  <2>8. \A i \in 1..n : /\ inbox'[i].op = "sync" /\ inbox'[i].id = ids[i]
                        /\ inbox'[i].item = cloud[ids[i]]
    BY <2>2, <2>5 DEF SyncMessage
  <2>9. Follows(inbox', items, cloud, unseen)
    <3>1. \A i \in 1..Len(inbox') : Tells(inbox'[i], cloud)
      BY <2>3, <2>7, <2>8 DEF Tells
    <3>2. \A id \in DOMAIN cloud : ~Untouched(inbox', id)
      BY <2>1, <2>7, <2>8 DEF Untouched
    <3>3. DOMAIN items \ DOMAIN cloud \subseteq unseen
      BY <1>2, <2>2 DEF CloudInv
    <3> QED
      BY <3>1, <3>2, <3>3 DEF Follows
  <2>10. CloudInv'
    BY <1>1, <2>2, <2>9 DEF CloudInv
  <2>11. CopyTypeOK'
    BY <1>1, <1>2, <2>2, <2>7 DEF CopyTypeOK
  <2> QED
    BY <1>3, <2>10, <2>11 DEF CopyInv
<1>5. CASE Copies!Disconnect
  <2>1. /\ up /\ up' = FALSE /\ inbox' = <<>>
        /\ unseen' = unseen \cup {inbox[i].id : i \in DOMAIN inbox}
    BY <1>5 DEF Copies!Disconnect
  <2>2. \A id \in DOMAIN items \ DOMAIN cloud : id \in unseen'
    <3> SUFFICES ASSUME NEW id \in DOMAIN items \ DOMAIN cloud PROVE id \in unseen'
      OBVIOUS
    <3>1. CASE Untouched(inbox, id)
      BY <1>2, <2>1, <3>1 DEF CloudInv, Follows
    <3>2. CASE ~Untouched(inbox, id)
      <4>1. PICK i \in 1..Len(inbox) : inbox[i].id = id
        BY <3>2 DEF Untouched
      <4>2. i \in DOMAIN inbox
        BY <1>2 DEF CopyTypeOK
      <4> QED
        BY <2>1, <4>1, <4>2
    <3> QED
      BY <3>1, <3>2
  <2>3. CloudInv'
    <3>1. DOMAIN items' \ DOMAIN cloud' \subseteq unseen'
      BY <1>1, <2>2
    <3>2. ~up' /\ inbox' = <<>>
      BY <2>1
    <3> QED
      BY ONLY <3>1, <3>2 DEF CloudInv
  <2>4. CopyTypeOK'
    <3>1. inbox' \in Seq(Changes) /\ up' \in BOOLEAN
      <4>1. inbox' = <<>> /\ up' = FALSE
        BY <2>1
      <4>2. \A s : s = <<>> => s \in Seq(Changes)
        OBVIOUS
      <4> QED
        BY ONLY <4>1, <4>2, Zenon
    <3> QED
      BY <1>1, <1>2, <3>1 DEF CopyTypeOK
  <2> QED
    BY <1>3, <2>3, <2>4 DEF CopyInv
<1> QED
  BY <1>4, <1>5

\* The read pump changes the copy, has it written and has it embedded.
LEMMA MessageStep ==
  ASSUME CopyInv, Copies!HandleMessage
  PROVE  CopyInv'
<1>1. CopyTypeOK /\ CloudInv /\ TableInv /\ VectorInv
  BY DEF CopyInv
<1>2. /\ inbox # <<>> /\ inbox' = Tail(inbox) /\ copyDirty' = TRUE
      /\ unseen' = unseen \ {Head(inbox).id}
      /\ UNCHANGED <<cloud, up, store, table, disordered>>
  BY DEF Copies!HandleMessage, Copies!diskVars
<1>3. PICK m : m = Head(inbox)
  OBVIOUS
<1>4. /\ m \in Changes /\ inbox' \in Seq(Changes) /\ up
  BY <1>1, <1>2, <1>3 DEF CopyTypeOK, CloudInv
<1>5. /\ items' = Changed(items, m)
      /\ writing' = IF store = "db" THEN Append(writing, m) ELSE writing
      /\ crossed' = IF Copies!InFlight(m.id) THEN crossed \cup {m.id} ELSE crossed
  <2>1. CASE m.op = "sync"
    BY <1>3, <2>1 DEF Copies!HandleMessage, Copies!HandleSync, Copies!HandleDelete,
      Copies!Write, Copies!Crossing, Changed
  <2>2. CASE m.op = "delete"
    BY <1>3, <2>2 DEF Copies!HandleMessage, Copies!HandleSync, Copies!HandleDelete,
      Copies!Write, Copies!Crossing, Changed
  <2> QED
    BY <1>4, <2>1, <2>2, ChangesAre
<1>6. CopyTypeOK'
  <2>1. DOMAIN items' \subseteq Ids /\ items' \in [DOMAIN items' -> Items]
    BY <1>1, <1>4, <1>5, ChangedType DEF CopyTypeOK
  <2>2. writing' \in Seq(Changes)
    BY <1>1, <1>4, <1>5 DEF CopyTypeOK
  <2> QED
    BY <1>1, <1>2, <1>4, <2>1, <2>2 DEF CopyTypeOK
<1>7. CloudInv'
  <2>1. inbox \in Seq(Changes) /\ Follows(inbox, items, cloud, unseen)
    BY <1>1, <1>4 DEF CopyTypeOK, CloudInv
  <2>2. Follows(Tail(inbox), Changed(items, Head(inbox)), cloud, unseen')
    BY <1>2, <2>1, FollowsTail
  <2> QED
    BY <1>2, <1>3, <1>4, <1>5, <2>2 DEF CloudInv
<1>8. TableInv'
  <2>1. CASE store = "db"
    <3>1. ~disordered => Follows(writing, table, items, {})
      BY <1>1, <2>1 DEF TableInv
    <3>2. ~disordered => Follows(Append(writing, m), table, Changed(items, m), {})
      <4>1. writing \in Seq(Changes)
        BY <1>1 DEF CopyTypeOK
      <4> QED
        BY <1>4, <3>1, <4>1, FollowsAppend
    <3> QED
      BY <1>2, <1>5, <2>1, <3>2 DEF TableInv
  <2>2. CASE store # "db"
    BY <1>1, <1>2, <1>5, <2>2 DEF TableInv
  <2> QED
    BY <2>1, <2>2
<1>9. VectorInv'
  <2>1. \A id : id # m.id => /\ id \in DOMAIN items' <=> id \in DOMAIN items
                             /\ id \in DOMAIN items => items'[id] = items[id]
    BY <1>5, ChangedMap
  <2>2. CASE m.op = "sync"
    <3>1. /\ embedding' = embedding \cup {[id |-> m.id, item |-> m.item, step |-> "look"]}
          /\ vectors' = vectors /\ m.id \in DOMAIN items' /\ items'[m.id] = m.item
      <4>1. Tells(m, Changed(items, m))
        BY ChangedMap
      <4> QED
        BY <1>3, <1>5, <2>2, <4>1 DEF Copies!HandleMessage, Copies!HandleSync,
          Copies!HandleDelete, Tells
    <3> SUFFICES ASSUME NEW id \in Ids \ crossed'
        PROVE  /\ \A g \in embedding' : g.id = id => id \in DOMAIN items' /\ g.item = items'[id]
               /\ (\A g \in embedding' : g.id # id) =>
                    /\ id \in DOMAIN vectors' <=> id \in DOMAIN items'
                    /\ id \in DOMAIN items' => vectors'[id].item.content = items'[id].content
      BY DEF VectorInv, VectorsOf
    <3>2. id \in Ids \ crossed /\ (id = m.id => ~Copies!InFlight(m.id))
      BY <1>5
    <3>3. CASE id = m.id
      <4>1. \A g \in embedding : g.id # id
        BY <3>2, <3>3 DEF Copies!InFlight
      <4>2. PICK h : h = [id |-> m.id, item |-> m.item, step |-> "look"]
        OBVIOUS
      <4>3. /\ h.id = id /\ h.item = items'[id] /\ id \in DOMAIN items'
            /\ embedding' = embedding \cup {h}
        BY <3>1, <3>3, <4>2
      <4> QED
        BY ONLY <4>1, <4>3
    <3>4. CASE id # m.id
      BY <1>1, <2>1, <3>1, <3>2, <3>4 DEF VectorInv, VectorsOf
    <3> QED
      BY <3>3, <3>4
  <2>3. CASE m.op = "delete"
    <3>1. /\ embedding' = embedding /\ m.id \notin DOMAIN items'
          /\ vectors' = Copies!Cut(vectors, m.id)
      <4>1. Tells(m, Changed(items, m))
        BY ChangedMap
      <4> QED
        BY <1>3, <1>5, <2>3, <4>1 DEF Copies!HandleMessage, Copies!HandleSync,
          Copies!HandleDelete, Copies!RemoveVector, Tells
    <3>2. /\ m.id \notin DOMAIN vectors'
          /\ \A id : id # m.id => /\ id \in DOMAIN vectors' <=> id \in DOMAIN vectors
                                  /\ id \in DOMAIN vectors => vectors'[id] = vectors[id]
      BY <3>1 DEF Copies!Cut
    <3> SUFFICES ASSUME NEW id \in Ids \ crossed'
        PROVE  /\ \A g \in embedding' : g.id = id => id \in DOMAIN items' /\ g.item = items'[id]
               /\ (\A g \in embedding' : g.id # id) =>
                    /\ id \in DOMAIN vectors' <=> id \in DOMAIN items'
                    /\ id \in DOMAIN items' => vectors'[id].item.content = items'[id].content
      BY DEF VectorInv, VectorsOf
    <3>3. id \in Ids \ crossed /\ (id = m.id => ~Copies!InFlight(m.id))
      BY <1>5
    <3>4. CASE id = m.id
      <4>1. \A g \in embedding : g.id # id
        BY <3>3, <3>4 DEF Copies!InFlight
      <4> QED
        BY <3>1, <3>2, <3>4, <4>1
    <3>5. CASE id # m.id
      BY <1>1, <2>1, <3>1, <3>2, <3>3, <3>5 DEF VectorInv, VectorsOf
    <3> QED
      BY <3>4, <3>5
  <2> QED
    BY <1>4, <2>2, <2>3, ChangesAre
<1> QED
  BY <1>6, <1>7, <1>8, <1>9 DEF CopyInv

\* An embedding is found to be there, or made.
LEMMA EmbeddingStep ==
  ASSUME CopyInv, NEW g \in embedding, Copies!Look(g) \/ Copies!Embed(g)
  PROVE  CopyInv'
<1> USE DEF Copies!copyVars, Copies!diskVars, Copies!cloudVars
<1>1. UNCHANGED <<cloud, up, inbox, unseen, items, copyDirty, writing, store, table,
                  disordered, crossed>>
  BY DEF Copies!Look, Copies!Embed
<1>2. CopyTypeOK' /\ CloudInv' /\ TableInv'
  BY <1>1 DEF CopyInv, CopyTypeOK, CloudInv, TableInv
<1>3. VectorInv'
  <2> SUFFICES ASSUME NEW id \in Ids \ crossed
      PROVE  /\ \A h \in embedding' : h.id = id => id \in DOMAIN items /\ h.item = items[id]
             /\ (\A h \in embedding' : h.id # id) =>
                  /\ id \in DOMAIN vectors' <=> id \in DOMAIN items
                  /\ id \in DOMAIN items => vectors'[id].item.content = items[id].content
    BY <1>1 DEF VectorInv, VectorsOf
  <2>1. /\ \A h \in embedding : h.id = id => id \in DOMAIN items /\ h.item = items[id]
        /\ (\A h \in embedding : h.id # id) =>
             /\ id \in DOMAIN vectors <=> id \in DOMAIN items
             /\ id \in DOMAIN items => vectors[id].item.content = items[id].content
    BY DEF CopyInv, VectorInv, VectorsOf
  <2>2. CASE Copies!Look(g)
    <3>1. /\ vectors' = vectors
          /\ embedding' = (embedding \ {g}) \cup
               (IF Copies!Unchanged(g) THEN {} ELSE {[g EXCEPT !.step = "embed"]})
      BY <2>2 DEF Copies!Look
    <3>2. CASE Copies!Unchanged(g)
      <4>1. /\ embedding' = embedding \ {g} /\ g.id \in DOMAIN vectors
            /\ vectors[g.id].item.content = g.item.content
        BY <3>1, <3>2 DEF Copies!Unchanged, Copies!Has
      <4>2. CASE g.id = id
        BY <2>1, <3>1, <4>1, <4>2
      <4>3. CASE g.id # id
        BY <2>1, <3>1, <4>1, <4>3
      <4> QED
        BY <4>2, <4>3
    <3>3. CASE ~Copies!Unchanged(g)
      <4>1. PICK h : h = [g EXCEPT !.step = "embed"]
        OBVIOUS
      <4>2. h.id = g.id /\ h.item = g.item
        BY <4>1
      <4>3. embedding' = (embedding \ {g}) \cup {h}
        BY <3>1, <3>3, <4>1
      <4> QED
        BY <2>1, <3>1, <4>2, <4>3
    <3> QED
      BY <3>2, <3>3
  <2>3. CASE Copies!Embed(g)
    <3>1. PICK ok \in BOOLEAN :
            /\ embedding' = embedding \ {g}
            /\ vectors' = Copies!Put(vectors, g.id, [item |-> g.item, embedded |-> ok])
      BY <2>3 DEF Copies!Embed
    <3>2. /\ g.id \in DOMAIN vectors' /\ vectors'[g.id].item = g.item
          /\ \A i : i # g.id => /\ i \in DOMAIN vectors' <=> i \in DOMAIN vectors
                                /\ i \in DOMAIN vectors => vectors'[i] = vectors[i]
      BY <3>1 DEF Copies!Put
    <3>3. CASE g.id = id
      BY <2>1, <3>1, <3>2, <3>3
    <3>4. CASE g.id # id
      BY <2>1, <3>1, <3>2, <3>4
    <3> QED
      BY <3>3, <3>4
  <2> QED
    BY <2>2, <2>3
<1> QED
  BY <1>2, <1>3 DEF CopyInv

LEMMA RemovesFirst ==
  ASSUME NEW S, NEW q \in Seq(S), NEW i \in 1..Len(q)
  PROVE  /\ Copies!RemoveAt(q, i) \in Seq(S)
         /\ i = 1 => Copies!RemoveAt(q, i) = Tail(q)
<1>1. Copies!RemoveAt(q, i) = SubSeq(q, 1, i - 1) \o SubSeq(q, i + 1, Len(q))
  BY DEF Copies!RemoveAt
<1>2. SubSeq(q, 1, i - 1) \in Seq(S) /\ SubSeq(q, i + 1, Len(q)) \in Seq(S)
  OBVIOUS
<1>3. ASSUME i = 1 PROVE Copies!RemoveAt(q, i) = Tail(q)
  <2>1. SubSeq(q, 1, i - 1) = <<>> /\ SubSeq(q, i + 1, Len(q)) = Tail(q)
    BY <1>3
  <2>2. \A s \in Seq(S) : <<>> \o s = s
    OBVIOUS
  <2>3. Copies!RemoveAt(q, i) = <<>> \o SubSeq(q, i + 1, Len(q))
    BY <1>1, <2>1
  <2> QED
    BY ONLY <1>2, <2>1, <2>2, <2>3
<1>4. \A s, t \in Seq(S) : s \o t \in Seq(S)
  OBVIOUS
<1> QED
  BY ONLY <1>1, <1>2, <1>3, <1>4

\* A goroutine writes, the loop saves, the process ends.
LEMMA DiskStep ==
  ASSUME CopyInv,
         Copies!SaveIfDirty \/ Copies!Restart \/ \E i \in 1..Len(writing) : Copies!WriteItem(i)
  PROVE  CopyInv'
<1> USE DEF Copies!copyVars, Copies!diskVars, Copies!cloudVars
<1>1. CopyTypeOK /\ CloudInv /\ TableInv /\ VectorInv
  BY DEF CopyInv
<1>2. CASE Copies!SaveIfDirty
  <2>1. /\ store = "file" /\ copyDirty' = FALSE
        /\ \/ table' = items /\ disordered' = disordered
           \/ table' = table /\ disordered' = TRUE
        /\ UNCHANGED <<store, cloud, up, inbox, unseen, items, writing, embedding, vectors,
                       crossed>>
    BY <1>2 DEF Copies!SaveIfDirty
  <2>2. CopyTypeOK' /\ CloudInv' /\ TableInv' /\ VectorInv'
    BY <1>1, <2>1 DEF CopyTypeOK, CloudInv, TableInv, VectorInv
  <2> QED
    BY <2>2 DEF CopyInv
<1>3. CASE Copies!Restart
  <2>1. /\ copyDirty' = FALSE /\ writing' = <<>>
        /\ up' = FALSE /\ inbox' = <<>> /\ embedding' = {} /\ crossed' = Ids
        /\ DOMAIN table \subseteq unseen'
        /\ items' = table' /\ (table' = table \/ table' = <<>>)
        /\ UNCHANGED <<cloud, store, disordered>>
    BY <1>3 DEF Copies!Restart
  <2>7. DOMAIN table' \subseteq DOMAIN table /\ table' \in [DOMAIN table' -> Items]
    <3>1. \A f : f = <<>> => DOMAIN f = {} /\ f \in [DOMAIN f -> Items]
      OBVIOUS
    <3>2. table \in [DOMAIN table -> Items]
      BY <1>1 DEF CopyTypeOK
    <3> QED
      BY ONLY <2>1, <3>1, <3>2
  <2>2. CopyTypeOK'
    <3>1. inbox' \in Seq(Changes) /\ writing' \in Seq(Changes) /\ up' \in BOOLEAN
      <4>1. inbox' = <<>> /\ writing' = <<>> /\ up' = FALSE
        BY <2>1
      <4>2. \A s : s = <<>> => s \in Seq(Changes)
        OBVIOUS
      <4> QED
        BY ONLY <4>1, <4>2, Zenon
    <3>2. UNCHANGED <<cloud, store>> /\ items' = table'
      BY <2>1
    <3> QED
      BY ONLY <1>1, <2>7, <3>1, <3>2 DEF CopyTypeOK
  <2>5. CloudInv'
    <3>1. DOMAIN items' \ DOMAIN cloud' \subseteq unseen' /\ ~up' /\ inbox' = <<>>
      BY <2>1, <2>7
    <3> QED
      BY ONLY <3>1 DEF CloudInv
  <2>6. VectorInv'
    BY <2>1 DEF VectorInv, VectorsOf
  <2>3. Follows(writing', table', items', {})
    BY <2>1 DEF Follows
  <2>4. TableInv'
    BY <2>1, <2>3 DEF TableInv
  <2> QED
    BY <2>2, <2>4, <2>5, <2>6 DEF CopyInv
<1>4. ASSUME NEW i \in 1..Len(writing), Copies!WriteItem(i) PROVE CopyInv'
  <2>1. /\ writing' = Copies!RemoveAt(writing, i)
        /\ \/ table' = Changed(table, writing[i]) /\ disordered' = (disordered \/ i > 1)
           \/ table' = table /\ disordered' = TRUE
        /\ UNCHANGED <<store, cloud, up, inbox, unseen, items, copyDirty, embedding, vectors,
                       crossed>>
    BY <1>4 DEF Copies!WriteItem, Copies!Effect, Changed
  <2>2. writing \in Seq(Changes) /\ writing[i] \in Changes /\ writing # <<>>
    BY <1>1 DEF CopyTypeOK
  <2>3. writing' \in Seq(Changes) /\ (i = 1 => writing' = Tail(writing))
    BY <2>1, <2>2, RemovesFirst
  <2>4. DOMAIN table' \subseteq Ids /\ table' \in [DOMAIN table' -> Items]
    BY <1>1, <2>1, <2>2, ChangedType DEF CopyTypeOK
  <2>5. CopyTypeOK' /\ CloudInv' /\ VectorInv'
    BY <1>1, <2>1, <2>3, <2>4 DEF CopyTypeOK, CloudInv, VectorInv
  <2>6. TableInv'
    <3>1. CASE store = "db" /\ ~disordered'
      <4>1. /\ i = 1 /\ ~disordered /\ writing' = Tail(writing) /\ writing[1] = Head(writing)
            /\ table' = Changed(table, Head(writing))
        <5>1. ~(i > 1) /\ ~disordered /\ table' = Changed(table, writing[i])
          BY <2>1, <3>1
        <5>2. i = 1
          BY <5>1
        <5> QED
          BY <2>2, <2>3, <5>1, <5>2
      <4>2. Follows(writing, table, items, {})
        BY <1>1, <3>1, <4>1 DEF TableInv
      <4>3. Follows(Tail(writing), Changed(table, Head(writing)), items, {})
        BY <2>2, <4>2, FollowsTail
      <4> QED
        BY <2>1, <3>1, <4>1, <4>3 DEF TableInv
    <3>2. CASE store = "db" /\ disordered'
      BY <2>1, <3>2 DEF TableInv
    <3>3. CASE store = "file"
      BY <1>1, <2>2, <3>3 DEF TableInv
    <3> QED
      BY <1>1, <3>1, <3>2, <3>3 DEF CopyTypeOK
  <2> QED
    BY <2>5, <2>6 DEF CopyInv
<1> QED
  BY <1>2, <1>3, <1>4

LEMMA CopyStep ==
  ASSUME CopyInv, [Copies!SyncNext]_(Copies!syncVars)
  PROVE  CopyInv'
<1>1. CASE \E id \in Ids : Copies!RemoveInCloud(id) \/ \E v \in Items : Copies!Edit(id, v)
  BY <1>1, CloudStep
<1>2. CASE Copies!Connect \/ Copies!Disconnect
  BY <1>2, ConnectionStep
<1>3. CASE Copies!HandleMessage
  BY <1>3, MessageStep
<1>4. CASE \E g \in embedding : Copies!Look(g) \/ Copies!Embed(g)
  BY <1>4, EmbeddingStep
<1>5. CASE Copies!SaveIfDirty \/ Copies!Restart
           \/ \E i \in 1..Len(writing) : Copies!WriteItem(i)
  BY <1>5, DiskStep
<1>6. CASE UNCHANGED Copies!syncVars
  BY <1>6 DEF Copies!syncVars, CopyInv, CopyTypeOK, CloudInv, TableInv, VectorInv
<1> QED
  BY <1>1, <1>2, <1>3, <1>4, <1>5, <1>6 DEF Copies!SyncNext

\* For any ids and items, however many changes, lost connections, failed writes and
\* restarts: the copy follows the cloud, and the table and the vectors the copy.
THEOREM CopyFollowsHolds == Copies!SyncSpec => []CopyFollows
<1>1. CopyInv => CopyFollows
  <2> SUFFICES ASSUME CopyInv PROVE CopyFollows
    OBVIOUS
  <2>1. CopyTypeOK /\ CloudInv /\ TableInv /\ VectorInv
    BY DEF CopyInv
  <2>2. Copies!CopyIsCurrent
    <3>1. ASSUME up, inbox = <<>>
          PROVE  /\ \A id \in DOMAIN cloud : id \in DOMAIN items /\ items[id] = cloud[id]
                 /\ DOMAIN items \ DOMAIN cloud \subseteq unseen
      BY <2>1, <3>1, FollowsEmpty DEF CloudInv
    <3> QED
      BY <3>1 DEF Copies!CopyIsCurrent, Copies!Has
  <2>3. Copies!TableIsCurrent
    <3>1. ASSUME writing = <<>>, ~disordered, store = "db" PROVE table = items
      <4>1. /\ \A id \in DOMAIN items : id \in DOMAIN table /\ table[id] = items[id]
            /\ DOMAIN table \ DOMAIN items \subseteq {}
        BY <2>1, <3>1, FollowsEmpty DEF TableInv
      <4>2. /\ items \in [DOMAIN items -> Items] /\ table \in [DOMAIN table -> Items]
            /\ DOMAIN items = DOMAIN table
        BY <2>1, <4>1 DEF CopyTypeOK
      <4> QED
        BY <4>1, <4>2
    <3> QED
      BY <2>1, <3>1 DEF Copies!TableIsCurrent, TableInv, CopyTypeOK
  <2>4. Copies!VectorsAreCurrent
    BY <2>1 DEF Copies!VectorsAreCurrent, Copies!InFlight, Copies!Has, VectorInv, VectorsOf
  <2> QED
    BY <2>2, <2>3, <2>4 DEF CopyFollows, Copies!CopyFollows
<1> QED
  BY <1>1, CopyInitInv, CopyStep, PTL DEF Copies!SyncSpec

-------------------------------------------------------------------------------
(* The sessions.  The invariants are stated of values, to be used of the       *)
(* states before and after a step.                                             *)

Objects == [id : SessionIds, state : {"active", "completed"}, born : Nat, ends : Nat]
Timely(o, t) == o.born <= t /\ o.born + Ttl <= o.ends /\ o.ends <= t + Ttl

\* The map, and the sessions it names.
StoreOK(ss, os, t) ==
  /\ t \in Nat /\ os \in Seq(Objects) /\ \A i \in 1..Len(os) : Timely(os[i], t)
  /\ DOMAIN ss \subseteq SessionIds /\ IsFiniteSet(DOMAIN ss)
  /\ \A id \in DOMAIN ss : ss[id] \in 1..Len(os) /\ os[ss[id]].id = id

\* What is kept of them has one record for an id.
RecordsOK(S, t) ==
  /\ S \subseteq Objects /\ IsFiniteSet(S) /\ \A o \in S : Timely(o, t)
  /\ \A o, p \in S : o.id = p.id => o = p

SessionWrites == [op : {"upsert"}, obj : Nat] \cup [op : {"delete"}, id : SessionIds]
                   \cup [op : {"expire"}]
QueueOK(q, os) ==
  q \in Seq(SessionWrites) /\ \A i \in 1..Len(q) : q[i].op = "upsert" => q[i].obj \in 1..Len(os)

Held == [step : {"idle", "touch", "register", "using", "done"}, id : SessionIds \cup {"none"},
         obj : Nat, since : Nat]
InPump == {"touch", "register"}
ReqOK(rq, t) ==
  /\ rq \in [Requests -> Held] /\ \A r \in Requests : rq[r].since <= t
  /\ \A r \in Requests : rq[r].step \in InPump => rq[r].id \in SessionIds

\* One request is in the pump, and means the session it found; those that are being
\* answered hold sessions that outlast a Ttl.
HandOK(rq, ss, os, st, t) ==
  /\ \A r, s \in Requests :
       rq[r].step \in InPump /\ rq[s].step \in InPump => r = s
  /\ \A r \in Requests :
       rq[r].step = "touch" /\ rq[r].id \in DOMAIN ss => ss[rq[r].id] = rq[r].obj
  /\ \A r \in Requests : rq[r].step = "using" /\ r \notin st =>
       /\ rq[r].obj \in 1..Len(os) /\ os[rq[r].obj].ends >= rq[r].since + Ttl
       /\ t <= rq[r].since + Ttl =>
            \/ rq[r].id \in DOMAIN ss /\ ss[rq[r].id] = rq[r].obj
            \/ os[rq[r].obj].state = "completed"

\* The last write of an id, and if there is none the table, agree with the map: but
\* for what an expiry under way removes, and sessions that were extended.
About(w, os, id) ==
  (w.op = "upsert" /\ os[w.obj].id = id) \/ (w.op = "delete" /\ w.id = id)
LastAbout(q, os, i, id) ==
  About(q[i], os, id) /\ \A j \in i + 1..Len(q) : ~About(q[j], os, id)
NoneAbout(q, os, id) == \A i \in 1..Len(q) : ~About(q[i], os, id)
Expires(q, i, gc) == gc = "swept" \/ \E j \in i..Len(q) : q[j].op = "expire"
QueueAgrees(q, ss, os, t, gc) ==
  \A id \in SessionIds, i \in 1..Len(q) : LastAbout(q, os, i, id) =>
    /\ q[i].op = "upsert" =>
         /\ os[q[i].obj].state = "active" =>
              id \in DOMAIN ss \/ (os[q[i].obj].ends < t /\ Expires(q, i + 1, gc))
         /\ id \in DOMAIN ss => ss[id] = q[i].obj
    /\ q[i].op = "delete" => id \notin DOMAIN ss
RowsAgree(q, rs, ss, os, t, gc) ==
  \A id \in SessionIds : NoneAbout(q, os, id) =>
    /\ \A r \in rs : r.id = id =>
         /\ r.state = "active" => id \in DOMAIN ss \/ (r.ends < t /\ Expires(q, 1, gc))
         /\ id \in DOMAIN ss => r.ends <= os[ss[id]].ends
    /\ id \in DOMAIN ss /\ t <= os[ss[id]].ends /\ os[ss[id]].ends <= os[ss[id]].born + Ttl
         => \E r \in rs : r.id = id /\ r.ends >= os[ss[id]].ends

SessionTypeOK ==
  /\ kept \in {"db", "file"} /\ gcStep \in {"idle", "swept"}
  /\ overtaken \in BOOLEAN
  /\ StoreOK(sessions, objs, now)
  /\ RecordsOK(sessionRows, now) /\ RecordsOK(saved, now)
  /\ QueueOK(queue, objs) /\ ReqOK(req, now)
HandInv == HandOK(req, sessions, objs, stale, now)
WriteInv == kept = "db" /\ ~overtaken =>
              /\ QueueAgrees(queue, sessions, objs, now, gcStep)
              /\ RowsAgree(queue, sessionRows, sessions, objs, now, gcStep)
SessionInv == SessionTypeOK /\ HandInv /\ WriteInv

LEMMA SessionInitInv == Sessions!SessionInit => SessionInv
<1> SUFFICES ASSUME Sessions!SessionInit PROVE SessionInv
  OBVIOUS
<1>1. /\ now = 0 /\ sessions = <<>> /\ objs = <<>> /\ queue = <<>> /\ sessionRows = {}
      /\ saved = {} /\ kept \in {"db", "file"} /\ gcStep = "idle"
      /\ req = [r \in Requests |-> [step |-> "idle", id |-> "none", obj |-> 0, since |-> 0]]
      /\ overtaken = FALSE
  BY DEF Sessions!SessionInit
<1>2. StoreOK(sessions, objs, now)
  <2>3. \A q : q = <<>> => q \in Seq(Objects) /\ Len(q) = 0 /\ DOMAIN q = {}
    OBVIOUS
  <2>1. DOMAIN sessions = {} /\ Len(objs) = 0 /\ objs \in Seq(Objects) /\ now \in Nat
    BY <1>1, <2>3
  <2>2. IsFiniteSet(DOMAIN sessions)
    BY <2>1, FS_EmptySet
  <2> QED
    BY <2>1, <2>2 DEF StoreOK
<1>3. RecordsOK(sessionRows, now) /\ RecordsOK(saved, now)
  BY <1>1, FS_EmptySet DEF RecordsOK
<1>4. QueueOK(queue, objs)
  <2>1. \A q : q = <<>> => q \in Seq(SessionWrites) /\ Len(q) = 0
    OBVIOUS
  <2> QED
    BY <1>1, <2>1 DEF QueueOK
<1>5. ReqOK(req, now)
  <2>1. [step |-> "idle", id |-> "none", obj |-> 0, since |-> 0] \in Held
    BY DEF Held
  <2> QED
    BY <1>1, <2>1 DEF ReqOK, InPump
<1>6. HandInv
  BY <1>1 DEF HandInv, HandOK, InPump
<1>7. WriteInv
  <2>1. DOMAIN sessions = {} /\ Len(queue) = 0
    BY <1>1
  <2> QED
    BY <1>1, <2>1 DEF WriteInv, QueueAgrees, RowsAgree
<1>8. overtaken \in BOOLEAN
  BY <1>1
<1> QED
  BY <1>1, <1>2, <1>3, <1>4, <1>5, <1>6, <1>7, <1>8 DEF SessionInv, SessionTypeOK

\* A request that is held, at another step.
Step(h, step) == [h EXCEPT !.step = step]

LEMMA HeldAt ==
  ASSUME NEW h \in Held, NEW step \in {"idle", "touch", "register", "using", "done"}
  PROVE  /\ Step(h, step) \in Held /\ Step(h, step).step = step /\ Step(h, step).id = h.id
         /\ Step(h, step).obj = h.obj /\ Step(h, step).since = h.since
BY DEF Step, Held

\* A request comes to the pump, or is answered.
LEMMA RequestStep ==
  ASSUME SessionInv, NEW r \in Requests,
         Sessions!Answer(r) \/ \E id \in SessionIds : Sessions!Arrive(r, id)
  PROVE  SessionInv'
<1>1. UNCHANGED <<kept, now, sessions, objs, gcStep, queue, sessionRows, saved, overtaken,
                  stale>>
  BY DEF Sessions!Answer, Sessions!Arrive, Sessions!Disk
<1>2. SessionTypeOK /\ HandInv /\ WriteInv
  BY DEF SessionInv
<1>3. /\ req \in [Requests -> Held] /\ now \in Nat /\ \A s \in Requests : req[s].since <= now
      /\ \A s \in Requests : req[s].step \in InPump => req[s].id \in SessionIds
      /\ DOMAIN sessions \subseteq SessionIds /\ objs \in Seq(Objects)
      /\ \A id \in DOMAIN sessions : sessions[id] \in 1..Len(objs)
  BY <1>2 DEF SessionTypeOK, ReqOK, StoreOK
<1>4. ReqOK(req', now) /\ HandOK(req', sessions, objs, stale, now)
  <2>1. CASE Sessions!Answer(r)
    <3>1. req[r].step = "using" /\ req' = [req EXCEPT ![r].step = "done"]
      BY <2>1 DEF Sessions!Answer
    <3>2. /\ req' \in [Requests -> Held] /\ req'[r].step = "done" /\ req'[r].since = req[r].since
          /\ \A s \in Requests \ {r} : req'[s] = req[s]
      <4>1. req' = [req EXCEPT ![r] = Step(req[r], "done")] /\ req[r] \in Held
        BY <1>3, <3>1 DEF Step
      <4> QED
        BY <1>3, <4>1, HeldAt
    <3> QED
      BY <1>2, <1>3, <3>2 DEF HandInv, HandOK, InPump, ReqOK
  <2>2. ASSUME NEW id \in SessionIds, Sessions!Arrive(r, id)
        PROVE  ReqOK(req', now) /\ HandOK(req', sessions, objs, stale, now)
    <3>1. PICK h : h = IF Sessions!Get(id)
             THEN [step |-> "touch", id |-> id, obj |-> sessions[id], since |-> now]
             ELSE [step |-> "register", id |-> id, obj |-> 0, since |-> now]
      OBVIOUS
    <3>2. /\ h \in Held /\ h.step \in {"touch", "register"} /\ h.since = now /\ h.id = id
          /\ h.step = "touch" => h.id \in DOMAIN sessions /\ sessions[h.id] = h.obj
      <4>1. CASE Sessions!Get(id)
        <5>1. id \in DOMAIN sessions /\ sessions[id] \in Nat
          BY <1>3, <4>1 DEF Sessions!Get, Sessions!Registered
        <5> QED
          BY <1>3, <3>1, <4>1, <5>1 DEF Held
      <4>2. CASE ~Sessions!Get(id)
        BY <1>3, <3>1, <4>2 DEF Held
      <4> QED
        BY <4>1, <4>2
    <3>3. /\ req' = [req EXCEPT ![r] = h]
          /\ \A s \in Requests : req[s].step \notin InPump
      BY <2>2, <3>1 DEF Sessions!Arrive, Sessions!Pumping, InPump
    <3>4. /\ req' \in [Requests -> Held] /\ req'[r] = h
          /\ \A s \in Requests \ {r} : req'[s] = req[s]
      BY <1>3, <3>2, <3>3
    <3>5. ReqOK(req', now)
      BY <1>3, <3>2, <3>4 DEF ReqOK
    <3> QED
      BY <1>2, <3>2, <3>3, <3>4, <3>5 DEF HandInv, HandOK, InPump
  <2> QED
    BY <2>1, <2>2
<1>5. SessionTypeOK'
  BY <1>1, <1>2, <1>4 DEF SessionTypeOK
<1>6. HandInv'
  BY <1>1, <1>4 DEF HandInv
<1>7. WriteInv'
  BY <1>1, <1>2 DEF WriteInv
<1> QED
  BY <1>5, <1>6, <1>7 DEF SessionInv

\* Which writes are about an id does not change with the sessions' other fields.
LEMMA AboutSame ==
  ASSUME NEW q, NEW os, NEW os2, QueueOK(q, os), Len(os) \in Nat, Len(os2) \in Nat,
         Len(os) <= Len(os2), \A i \in 1..Len(os) : os2[i].id = os[i].id
  PROVE  /\ \A id : \A i \in 1..Len(q) : About(q[i], os2, id) <=> About(q[i], os, id)
         /\ \A id : \A i \in 1..Len(q) : LastAbout(q, os2, i, id) <=> LastAbout(q, os, i, id)
         /\ \A id : NoneAbout(q, os2, id) <=> NoneAbout(q, os, id)
         /\ QueueOK(q, os2)
<1>1. \A i \in 1..Len(q) : q[i].op = "upsert" => /\ q[i].obj \in 1..Len(os)
                                                 /\ q[i].obj \in 1..Len(os2)
  BY DEF QueueOK
<1>2. \A id : \A i \in 1..Len(q) : About(q[i], os2, id) <=> About(q[i], os, id)
  BY <1>1 DEF About
<1>3. \A i \in 1..Len(q) : \A j \in i + 1..Len(q) : j \in 1..Len(q)
  <2>1. Len(q) \in Nat
    BY DEF QueueOK
  <2> QED
    BY <2>1
<1>4. \A id : \A i \in 1..Len(q) : LastAbout(q, os2, i, id) <=> LastAbout(q, os, i, id)
  <2> SUFFICES ASSUME NEW id, NEW i \in 1..Len(q)
               PROVE  LastAbout(q, os2, i, id) <=> LastAbout(q, os, i, id)
    OBVIOUS
  <2>1. About(q[i], os2, id) <=> About(q[i], os, id)
    BY <1>2
  <2>2. \A j \in i + 1..Len(q) : About(q[j], os2, id) <=> About(q[j], os, id)
    BY <1>2, <1>3
  <2> QED
    BY ONLY <2>1, <2>2 DEF LastAbout
<1>5. \A id : NoneAbout(q, os2, id) <=> NoneAbout(q, os, id)
  BY <1>2 DEF NoneAbout
<1> QED
  BY <1>1, <1>2, <1>4, <1>5 DEF QueueOK

LEMMA StoreTypes ==
  ASSUME NEW ss, NEW os, NEW t, StoreOK(ss, os, t)
  PROVE  /\ t \in Nat /\ Ttl \in Nat /\ os \in Seq(Objects) /\ Len(os) \in Nat
         /\ \A i \in 1..Len(os) :
              /\ os[i] \in Objects /\ os[i].id \in SessionIds /\ os[i].born \in Nat
              /\ os[i].ends \in Nat /\ os[i].born <= t /\ os[i].born + Ttl <= os[i].ends
              /\ os[i].ends <= t + Ttl
         /\ \A id \in DOMAIN ss : /\ id \in SessionIds /\ ss[id] \in 1..Len(os)
                                  /\ ss[id] \in Nat /\ os[ss[id]].id = id
<1>1. /\ t \in Nat /\ Ttl \in Nat /\ os \in Seq(Objects) /\ Len(os) \in Nat
  BY PartsAssumption DEF StoreOK, PartsAssumption
<1>2. ASSUME NEW i \in 1..Len(os)
      PROVE  /\ os[i] \in Objects /\ os[i].id \in SessionIds /\ os[i].born \in Nat
             /\ os[i].ends \in Nat /\ os[i].born <= t /\ os[i].born + Ttl <= os[i].ends
             /\ os[i].ends <= t + Ttl
  <2>1. os[i] \in Objects
    BY <1>1
  <2>2. os[i].id \in SessionIds /\ os[i].born \in Nat /\ os[i].ends \in Nat
    BY <2>1 DEF Objects
  <2>3. Timely(os[i], t)
    BY DEF StoreOK
  <2> QED
    BY <2>1, <2>2, <2>3 DEF Timely
<1>3. \A id \in DOMAIN ss : /\ id \in SessionIds /\ ss[id] \in 1..Len(os)
                            /\ ss[id] \in Nat /\ os[ss[id]].id = id
  BY <1>1 DEF StoreOK
<1> QED
  BY <1>1, <1>2, <1>3

\* A session is extended.
LEMMA ExtendWrites ==
  ASSUME NEW ss, NEW os, NEW t, NEW q, NEW rs, NEW gc, NEW id0 \in DOMAIN ss, NEW os2,
         StoreOK(ss, os, t), QueueOK(q, os), QueueAgrees(q, ss, os, t, gc),
         RowsAgree(q, rs, ss, os, t, gc),
         os2 \in Seq(Objects), Len(os2) = Len(os),
         \A i \in 1..Len(os) \ {ss[id0]} : os2[i] = os[i],
         os2[ss[id0]].id = os[ss[id0]].id, os2[ss[id0]].born = os[ss[id0]].born,
         os2[ss[id0]].ends = t + Ttl,
         rs \subseteq Objects
  PROVE  QueueAgrees(q, ss, os2, t, gc) /\ RowsAgree(q, rs, ss, os2, t, gc)
<1>1. /\ t \in Nat /\ Ttl \in Nat /\ Len(os) \in Nat
      /\ \A i \in 1..Len(os) :
           /\ os[i].born \in Nat
           /\ os[i].ends \in Nat /\ os[i].born <= t /\ os[i].born + Ttl <= os[i].ends
           /\ os[i].ends <= t + Ttl
      /\ \A id \in DOMAIN ss : ss[id] \in 1..Len(os) /\ os[ss[id]].id = id
  BY StoreTypes
<1>2. \A i \in 1..Len(os) : os2[i].id = os[i].id
  OBVIOUS
<1>3. /\ \A id : \A i \in 1..Len(q) : LastAbout(q, os2, i, id) <=> LastAbout(q, os, i, id)
      /\ \A id : NoneAbout(q, os2, id) <=> NoneAbout(q, os, id)
  <2>1. Len(os2) \in Nat /\ Len(os) <= Len(os2)
    BY <1>1
  <2> QED
    BY <1>1, <1>2, <2>1, AboutSame
<1>4. QueueAgrees(q, ss, os2, t, gc)
  <2> SUFFICES ASSUME NEW id \in SessionIds, NEW i \in 1..Len(q), LastAbout(q, os, i, id)
      PROVE  /\ q[i].op = "upsert" =>
                  /\ os2[q[i].obj].state = "active" =>
                       id \in DOMAIN ss \/ (os2[q[i].obj].ends < t /\ Expires(q, i + 1, gc))
                  /\ id \in DOMAIN ss => ss[id] = q[i].obj
             /\ q[i].op = "delete" => id \notin DOMAIN ss
    BY <1>3 DEF QueueAgrees
  <2>1. /\ q[i].op = "upsert" =>
             /\ os[q[i].obj].state = "active" =>
                  id \in DOMAIN ss \/ (os[q[i].obj].ends < t /\ Expires(q, i + 1, gc))
             /\ id \in DOMAIN ss => ss[id] = q[i].obj
        /\ q[i].op = "delete" => id \notin DOMAIN ss
    BY DEF QueueAgrees
  <2>2. ASSUME q[i].op = "upsert", id \notin DOMAIN ss PROVE os2[q[i].obj] = os[q[i].obj]
    <3>1. os[q[i].obj].id = id /\ q[i].obj \in 1..Len(os)
      BY <2>2 DEF LastAbout, About, QueueOK
    <3>2. q[i].obj # ss[id0]
      BY <1>1, <2>2, <3>1
    <3> QED
      BY <3>1, <3>2
  <2> QED
    BY <2>1, <2>2
<1>5. RowsAgree(q, rs, ss, os2, t, gc)
  <2> SUFFICES ASSUME NEW id \in SessionIds, NoneAbout(q, os, id)
      PROVE  /\ \A r \in rs : r.id = id =>
                  /\ r.state = "active" => id \in DOMAIN ss \/ (r.ends < t /\ Expires(q, 1, gc))
                  /\ id \in DOMAIN ss => r.ends <= os2[ss[id]].ends
             /\ id \in DOMAIN ss /\ t <= os2[ss[id]].ends
                  /\ os2[ss[id]].ends <= os2[ss[id]].born + Ttl
                  => \E r \in rs : r.id = id /\ r.ends >= os2[ss[id]].ends
    BY <1>3 DEF RowsAgree
  <2>1. /\ \A r \in rs : r.id = id =>
             /\ r.state = "active" => id \in DOMAIN ss \/ (r.ends < t /\ Expires(q, 1, gc))
             /\ id \in DOMAIN ss => r.ends <= os[ss[id]].ends
        /\ id \in DOMAIN ss /\ t <= os[ss[id]].ends
             /\ os[ss[id]].ends <= os[ss[id]].born + Ttl
             => \E r \in rs : r.id = id /\ r.ends >= os[ss[id]].ends
    BY DEF RowsAgree
  <2>2. CASE id \notin DOMAIN ss
    BY <2>1, <2>2
  <2>3. CASE id \in DOMAIN ss
    <3>1. ss[id] \in 1..Len(os) /\ \A r \in rs : r.ends \in Nat
      BY <1>1, <2>3 DEF Objects
    <3>2. /\ os2[ss[id]].ends \in Nat /\ os[ss[id]].ends \in Nat /\ os[ss[id]].born \in Nat
          /\ os[ss[id]].ends <= os2[ss[id]].ends /\ os2[ss[id]].born = os[ss[id]].born
          /\ os2[ss[id]].ends = os[ss[id]].ends \/ os2[ss[id]].ends = t + Ttl
      <4>1. CASE ss[id] = ss[id0]
        BY <1>1, <3>1, <4>1
      <4>2. CASE ss[id] # ss[id0]
        BY <1>1, <3>1, <4>2
      <4> QED
        BY <4>1, <4>2
    <3>3. \A r \in rs : r.id = id => r.ends <= os2[ss[id]].ends
      BY <2>1, <2>3, <3>1, <3>2
    <3>4. ASSUME t <= os2[ss[id]].ends, os2[ss[id]].ends <= os2[ss[id]].born + Ttl
          PROVE  \E r \in rs : r.id = id /\ r.ends >= os2[ss[id]].ends
      <4>1. /\ os[ss[id]].born <= t /\ os[ss[id]].born + Ttl <= os[ss[id]].ends
            /\ os[ss[id]].ends <= t + Ttl
        BY <1>1, <3>1
      <4> DEFINE a == os[ss[id]].ends
                 b == os2[ss[id]].ends
                 c == os[ss[id]].born
      <4>2. /\ a \in Nat /\ b \in Nat /\ c \in Nat /\ c <= t /\ c + Ttl <= a /\ a <= t + Ttl
            /\ a <= b /\ (b = a \/ b = t + Ttl) /\ b <= c + Ttl /\ t <= b
        BY <3>2, <3>4, <4>1
      <4> HIDE DEF a, b, c
      <4>3. a = b
        BY <1>1, <4>2
      <4>4. t <= a /\ a <= c + Ttl
        BY <4>2, <4>3
      <4> QED
        BY <2>1, <2>3, <4>3, <4>4 DEF a, b, c
    <3> QED
      BY <2>1, <2>3, <3>3, <3>4
  <2> QED
    BY <2>2, <2>3
<1> QED
  BY <1>4, <1>5

\* A record with another end, or another state.
Until(o, t) == [o EXCEPT !.ends = t]
Ended(o) == [o EXCEPT !.state = "completed"]

LEMMA RecordsOf ==
  ASSUME NEW o \in Objects, NEW t \in Nat
  PROVE  /\ Until(o, t) \in Objects /\ Until(o, t).id = o.id /\ Until(o, t).born = o.born
         /\ Until(o, t).state = o.state /\ Until(o, t).ends = t
         /\ Ended(o) \in Objects /\ Ended(o).id = o.id /\ Ended(o).born = o.born
         /\ Ended(o).state = "completed" /\ Ended(o).ends = o.ends
BY DEF Until, Ended, Objects

LEMMA Replaced ==
  ASSUME NEW os \in Seq(Objects), NEW i \in 1..Len(os), NEW o \in Objects,
         NEW os2, os2 = [os EXCEPT ![i] = o]
  PROVE  /\ os2 \in Seq(Objects) /\ Len(os2) = Len(os) /\ os2[i] = o
         /\ \A j \in 1..Len(os) \ {i} : os2[j] = os[j]
OBVIOUS

LEMMA TouchStep ==
  ASSUME SessionInv, NEW r \in Requests, Sessions!Touch(r)
  PROVE  SessionInv'
<1>1. UNCHANGED <<kept, now, sessions, gcStep, queue, sessionRows, saved, overtaken>>
  BY DEF Sessions!Touch, Sessions!Disk
<1>2. SessionTypeOK /\ HandInv /\ WriteInv
  BY DEF SessionInv
<1>3. /\ StoreOK(sessions, objs, now) /\ QueueOK(queue, objs) /\ RecordsOK(sessionRows, now)
      /\ req \in [Requests -> Held] /\ \A s \in Requests : req[s].since <= now
  BY <1>2 DEF SessionTypeOK, ReqOK
<1>4. /\ now \in Nat /\ Ttl \in Nat /\ objs \in Seq(Objects) /\ Len(objs) \in Nat
      /\ \A i \in 1..Len(objs) :
           /\ objs[i] \in Objects /\ objs[i].born \in Nat
           /\ objs[i].ends \in Nat /\ objs[i].born <= now /\ objs[i].born + Ttl <= objs[i].ends
           /\ objs[i].ends <= now + Ttl
      /\ \A id \in DOMAIN sessions : sessions[id] \in 1..Len(objs)
  BY <1>3, StoreTypes
<1>5. PICK id : id = req[r].id
  OBVIOUS
<1>6. /\ req[r].step = "touch" /\ req' = [req EXCEPT ![r] = Step(req[r], "using")]
      /\ IF id \in DOMAIN sessions
         THEN /\ objs' = [objs EXCEPT ![sessions[id]] = Until(objs[sessions[id]], now + Ttl)]
              /\ stale' = stale
         ELSE stale' = stale \cup {r} /\ objs' = objs
  BY <1>3, <1>4, <1>5 DEF Sessions!Touch, Sessions!Registered, Sessions!Extended, Step, Until
<1>7. /\ req' \in [Requests -> Held] /\ req'[r].step = "using" /\ req'[r].id = id
      /\ req'[r].obj = req[r].obj /\ req'[r].since = req[r].since
      /\ \A s \in Requests \ {r} : req'[s] = req[s]
  <2>1. req[r] \in Held
    BY <1>3
  <2> QED
    BY <1>3, <1>5, <1>6, <2>1, HeldAt
<1>8. ReqOK(req', now)
  BY <1>2, <1>3, <1>7 DEF ReqOK, SessionTypeOK, InPump
<1>9. /\ \A s, v \in Requests : req[s].step \in InPump /\ req[v].step \in InPump => s = v
      /\ \A s \in Requests :
           req[s].step = "touch" /\ req[s].id \in DOMAIN sessions
             => sessions[req[s].id] = req[s].obj
      /\ \A s \in Requests : req[s].step = "using" /\ s \notin stale =>
           /\ req[s].obj \in 1..Len(objs) /\ objs[req[s].obj].ends >= req[s].since + Ttl
           /\ now <= req[s].since + Ttl =>
                \/ req[s].id \in DOMAIN sessions /\ sessions[req[s].id] = req[s].obj
                \/ objs[req[s].obj].state = "completed"
  BY <1>2 DEF HandInv, HandOK
<1>10. CASE id \in DOMAIN sessions
  <2>1. PICK n \in 1..Len(objs) : n = sessions[id]
    BY <1>4, <1>10
  <2>2. PICK o : o = Until(objs[n], now + Ttl)
    OBVIOUS
  <2>3. /\ o \in Objects /\ o.id = objs[n].id /\ o.born = objs[n].born
        /\ o.state = objs[n].state /\ o.ends = now + Ttl
    <3>1. objs[n] \in Objects /\ now + Ttl \in Nat
      BY <1>4
    <3> QED
      BY <2>2, <3>1, RecordsOf
  <2>4. objs' = [objs EXCEPT ![n] = o] /\ stale' = stale
    BY <1>6, <1>10, <2>1, <2>2
  <2>5. /\ objs' \in Seq(Objects) /\ Len(objs') = Len(objs) /\ objs'[n] = o
        /\ \A j \in 1..Len(objs) \ {n} : objs'[j] = objs[j]
    BY <1>4, <2>3, <2>4, Replaced
  <2>6. \A i \in 1..Len(objs) :
          /\ objs'[i].id = objs[i].id /\ objs'[i].state = objs[i].state
          /\ Timely(objs'[i], now) /\ objs'[i].ends \in Nat /\ objs[i].ends <= objs'[i].ends
    <3> SUFFICES ASSUME NEW i \in 1..Len(objs)
                 PROVE  /\ objs'[i].id = objs[i].id /\ objs'[i].state = objs[i].state
                        /\ Timely(objs'[i], now) /\ objs'[i].ends \in Nat
                        /\ objs[i].ends <= objs'[i].ends
      OBVIOUS
    <3>1. CASE i = n
      BY <1>4, <2>3, <2>5, <3>1 DEF Timely
    <3>2. CASE i # n
      BY <1>4, <2>5, <3>2 DEF Timely
    <3> QED
      BY <3>1, <3>2
  <2>7. StoreOK(sessions, objs', now)
    BY <1>3, <2>5, <2>6 DEF StoreOK
  <2>8. QueueOK(queue, objs')
    BY <1>3, <2>5 DEF QueueOK
  <2>9. SessionTypeOK'
    BY <1>1, <1>2, <1>8, <2>7, <2>8 DEF SessionTypeOK
  <2>10. HandOK(req', sessions, objs', stale, now)
    <3>1. \A s, v \in Requests : req'[s].step \in InPump /\ req'[v].step \in InPump => s = v
      BY <1>7, <1>9 DEF InPump
    <3>2. \A s \in Requests :
            req'[s].step = "touch" /\ req'[s].id \in DOMAIN sessions
              => sessions[req'[s].id] = req'[s].obj
      BY <1>7, <1>9
    <3>3. ASSUME NEW s \in Requests, req'[s].step = "using", s \notin stale
          PROVE  /\ req'[s].obj \in 1..Len(objs')
                 /\ objs'[req'[s].obj].ends >= req'[s].since + Ttl
                 /\ now <= req'[s].since + Ttl =>
                      \/ req'[s].id \in DOMAIN sessions /\ sessions[req'[s].id] = req'[s].obj
                      \/ objs'[req'[s].obj].state = "completed"
      <4>1. CASE s = r
        <5>1. sessions[id] = req'[s].obj
          BY <1>5, <1>6, <1>7, <1>9, <1>10, <4>1
        <5>2. req'[s].obj = n
          BY <2>1, <5>1
        <5>3. req'[s].since \in Nat /\ req'[s].since <= now
          BY <1>3, <1>7, <4>1 DEF Held
        <5>4. \A x \in Nat : x <= now => now + Ttl >= x + Ttl
          BY <1>4
        <5>5. objs'[req'[s].obj].ends = now + Ttl
          BY <2>3, <2>5, <5>2
        <5> QED
          BY <1>7, <1>10, <2>1, <2>5, <4>1, <5>1, <5>2, <5>3, <5>4, <5>5
      <4>2. CASE s # r
        <5>1. req'[s] = req[s] /\ req[s].since \in Nat
          BY <1>3, <1>7, <4>2 DEF Held
        <5>2. /\ req[s].obj \in 1..Len(objs) /\ objs[req[s].obj].ends >= req[s].since + Ttl
              /\ now <= req[s].since + Ttl =>
                   \/ req[s].id \in DOMAIN sessions /\ sessions[req[s].id] = req[s].obj
                   \/ objs[req[s].obj].state = "completed"
          BY <1>9, <3>3, <5>1
        <5>3. objs'[req[s].obj].ends >= req[s].since + Ttl
          <6>1. \A x, y, z \in Nat : x <= y /\ x >= z + Ttl => y >= z + Ttl
            BY <1>4
          <6> QED
            BY <1>4, <2>6, <5>1, <5>2, <6>1
        <5> QED
          BY <2>5, <2>6, <5>1, <5>2, <5>3
      <4> QED
        BY <4>1, <4>2
    <3> QED
      BY <3>1, <3>2, <3>3 DEF HandOK
  <2>11. HandInv'
    BY <1>1, <2>4, <2>10 DEF HandInv
  <2>12. WriteInv'
    <3>1. CASE kept = "db" /\ ~overtaken
      <4>1. /\ QueueAgrees(queue, sessions, objs, now, gcStep)
            /\ RowsAgree(queue, sessionRows, sessions, objs, now, gcStep)
            /\ sessionRows \subseteq Objects
        BY <1>2, <1>3, <3>1 DEF WriteInv, RecordsOK
      <4>2. /\ QueueAgrees(queue, sessions, objs', now, gcStep)
            /\ RowsAgree(queue, sessionRows, sessions, objs', now, gcStep)
        BY <1>3, <1>10, <2>1, <2>3, <2>5, <4>1, ExtendWrites
      <4> QED
        BY <1>1, <4>2 DEF WriteInv
    <3> QED
      BY <1>1, <3>1 DEF WriteInv
  <2> QED
    BY <2>9, <2>11, <2>12 DEF SessionInv
<1>11. CASE id \notin DOMAIN sessions
  <2>1. objs' = objs /\ stale' = stale \cup {r}
    BY <1>6, <1>11
  <2>2. SessionTypeOK'
    BY <1>1, <1>2, <1>8, <2>1 DEF SessionTypeOK
  <2>3. HandOK(req', sessions, objs, stale', now)
    BY <1>7, <1>9, <2>1 DEF HandOK, InPump
  <2>4. HandInv' /\ WriteInv'
    BY <1>1, <1>2, <2>1, <2>3 DEF HandInv, WriteInv
  <2> QED
    BY <2>2, <2>4 DEF SessionInv
<1> QED
  BY <1>10, <1>11

\* A request that leaves the pump for an answer, with the session it is given.
HeldWith(h, obj) == [Step(h, "using") EXCEPT !.obj = obj]

LEMMA HeldGiven ==
  ASSUME NEW h \in Held, NEW obj \in Nat
  PROVE  /\ HeldWith(h, obj) \in Held /\ HeldWith(h, obj).step = "using"
         /\ HeldWith(h, obj).id = h.id /\ HeldWith(h, obj).obj = obj
         /\ HeldWith(h, obj).since = h.since
BY DEF HeldWith, Step, Held

\* A write is asked for.
LEMMA Queued ==
  ASSUME NEW q, NEW os, QueueOK(q, os), NEW w \in SessionWrites, NEW id, NEW gc
  PROVE  /\ Len(q) \in Nat /\ Len(Append(q, w)) = Len(q) + 1 /\ Append(q, w)[Len(q) + 1] = w
         /\ \A i \in 1..Len(q) : Append(q, w)[i] = q[i]
         /\ \A i \in 1..Len(q) + 1 : LastAbout(Append(q, w), os, i, id) =>
              IF About(w, os, id) THEN i = Len(q) + 1
                                  ELSE i \in 1..Len(q) /\ LastAbout(q, os, i, id)
         /\ NoneAbout(Append(q, w), os, id) => NoneAbout(q, os, id) /\ ~About(w, os, id)
         /\ \A i \in 1..Len(q) + 1 : Expires(q, i, gc) => Expires(Append(q, w), i, gc)
         /\ \A i \in 1..Len(q) + 1 : w.op = "expire" => Expires(Append(q, w), i, gc)
<1> DEFINE p == Append(q, w)
           n == Len(q)
<1>1. /\ n \in Nat /\ Len(p) = n + 1 /\ p[n + 1] = w
      /\ \A i \in 1..n : p[i] = q[i]
  BY DEF QueueOK
<1> HIDE DEF p, n
<1>2. ASSUME NEW i \in 1..n + 1, LastAbout(p, os, i, id)
      PROVE  IF About(w, os, id) THEN i = n + 1 ELSE i \in 1..n /\ LastAbout(q, os, i, id)
  <2>1. About(p[i], os, id) /\ \A j \in i + 1..n + 1 : ~About(p[j], os, id)
    BY <1>1, <1>2 DEF LastAbout
  <2>2. CASE About(w, os, id)
    <3>1. ~(n + 1 \in i + 1..n + 1)
      BY <1>1, <2>1, <2>2
    <3>2. i = n + 1
      BY <1>1, <3>1
    <3> QED
      BY <2>2, <3>2
  <2>3. CASE ~About(w, os, id)
    <3>1. i # n + 1
      BY <1>1, <2>1, <2>3
    <3>2. i \in 1..n
      BY <1>1, <3>1
    <3>3. \A j \in i + 1..n : j \in i + 1..n + 1 /\ j \in 1..n
      BY <1>1, <3>2
    <3>4. About(q[i], os, id)
      BY <1>1, <2>1, <3>2
    <3>5. \A j \in i + 1..n : ~About(q[j], os, id)
      BY <1>1, <2>1, <3>3
    <3> QED
      BY <2>3, <3>2, <3>4, <3>5 DEF LastAbout, n
  <2> QED
    BY <2>2, <2>3
<1>3. ASSUME NoneAbout(p, os, id) PROVE NoneAbout(q, os, id) /\ ~About(w, os, id)
  <2>1. \A i \in 1..n + 1 : ~About(p[i], os, id)
    BY <1>1, <1>3 DEF NoneAbout
  <2>2. n + 1 \in 1..n + 1 /\ \A i \in 1..n : i \in 1..n + 1
    BY <1>1
  <2>3. ~About(w, os, id) /\ \A i \in 1..n : ~About(q[i], os, id)
    BY <1>1, <2>1, <2>2
  <2> QED
    BY <2>3 DEF NoneAbout, n
<1>4. ASSUME NEW i \in 1..n + 1, Expires(q, i, gc) PROVE Expires(p, i, gc)
  <2>1. gc = "swept" \/ \E j \in i..n : q[j].op = "expire"
    BY <1>4 DEF Expires, n
  <2>2. \A j \in i..n : j \in i..n + 1 /\ p[j] = q[j]
    BY <1>1
  <2> QED
    BY <1>1, <2>1, <2>2 DEF Expires
<1>5. ASSUME NEW i \in 1..n + 1, w.op = "expire" PROVE Expires(p, i, gc)
  <2>1. n + 1 \in i..Len(p)
    BY <1>1
  <2> QED
    BY <1>1, <1>5, <2>1 DEF Expires
<1> QED
  BY <1>1, <1>2, <1>3, <1>4, <1>5 DEF p, n

LEMMA WritesAre ==
  /\ \A n \in Nat : [op |-> "upsert", obj |-> n] \in SessionWrites
  /\ \A id \in SessionIds : [op |-> "delete", id |-> id] \in SessionWrites
  /\ [op |-> "expire"] \in SessionWrites
BY DEF SessionWrites

LEMMA QueueAppend ==
  ASSUME NEW q, NEW os, QueueOK(q, os), NEW w \in SessionWrites,
         w.op = "upsert" => w.obj \in 1..Len(os)
  PROVE  QueueOK(Append(q, w), os)
<1>1. /\ q \in Seq(SessionWrites) /\ Len(q) \in Nat
      /\ \A i \in 1..Len(q) : q[i].op = "upsert" => q[i].obj \in 1..Len(os)
  BY DEF QueueOK
<1>2. /\ Append(q, w) \in Seq(SessionWrites) /\ Len(Append(q, w)) = Len(q) + 1
      /\ \A i \in 1..Len(q) + 1 : Append(q, w)[i] = IF i = Len(q) + 1 THEN w ELSE q[i]
  BY <1>1
<1>3. \A i \in 1..Len(q) + 1 : i # Len(q) + 1 => i \in 1..Len(q)
  BY <1>1
<1> QED
  BY <1>1, <1>2, <1>3 DEF QueueOK

\* A session is registered, and its row asked for.
LEMMA RegisterWrites ==
  ASSUME NEW ss, NEW os, NEW t, NEW q, NEW rs, NEW gc, NEW id0 \in SessionIds,
         id0 \notin DOMAIN ss, NEW o \in Objects, o.id = id0, NEW w \in SessionWrites,
         w.op = "upsert", w.obj = Len(os) + 1, NEW ss2,
         DOMAIN ss2 = DOMAIN ss \cup {id0}, ss2[id0] = Len(os) + 1,
         \A id \in DOMAIN ss : ss2[id] = ss[id],
         StoreOK(ss, os, t), QueueOK(q, os), QueueAgrees(q, ss, os, t, gc),
         RowsAgree(q, rs, ss, os, t, gc)
  PROVE  /\ QueueAgrees(Append(q, w), ss2, Append(os, o), t, gc)
         /\ RowsAgree(Append(q, w), rs, ss2, Append(os, o), t, gc)
<1> DEFINE os2 == Append(os, o)
           q2 == Append(q, w)
<1>1. /\ Len(os) \in Nat /\ os \in Seq(Objects)
      /\ \A id \in DOMAIN ss : ss[id] \in 1..Len(os)
  BY StoreTypes
<1>2. /\ Len(os2) = Len(os) + 1 /\ \A i \in 1..Len(os) : os2[i] = os[i]
      /\ os2[Len(os) + 1] = o
  BY <1>1
<1> HIDE DEF os2
<1>3. /\ \A id : \A i \in 1..Len(q) : LastAbout(q, os2, i, id) <=> LastAbout(q, os, i, id)
      /\ \A id : NoneAbout(q, os2, id) <=> NoneAbout(q, os, id)
      /\ QueueOK(q, os2)
  <2>1. Len(os2) \in Nat /\ Len(os) <= Len(os2)
    BY <1>1, <1>2
  <2> QED
    BY <1>1, <1>2, <2>1, AboutSame
<1>4. \A id : About(w, os2, id) <=> id = id0
  BY <1>2 DEF About
<1>5. /\ Len(q) \in Nat /\ Len(q2) = Len(q) + 1 /\ q2[Len(q) + 1] = w
      /\ \A i \in 1..Len(q) : q2[i] = q[i]
  BY Queued
<1>6. \A i \in 1..Len(q) : q[i].op = "upsert" => q[i].obj \in 1..Len(os)
  BY DEF QueueOK
<1>7. QueueAgrees(q2, ss2, os2, t, gc)
  <2> SUFFICES ASSUME NEW id \in SessionIds, NEW i \in 1..Len(q2), LastAbout(q2, os2, i, id)
      PROVE  /\ q2[i].op = "upsert" =>
                  /\ os2[q2[i].obj].state = "active" =>
                       id \in DOMAIN ss2 \/ (os2[q2[i].obj].ends < t /\ Expires(q2, i + 1, gc))
                  /\ id \in DOMAIN ss2 => ss2[id] = q2[i].obj
             /\ q2[i].op = "delete" => id \notin DOMAIN ss2
    BY DEF QueueAgrees
  <2>1. IF id = id0 THEN i = Len(q) + 1 ELSE i \in 1..Len(q) /\ LastAbout(q, os2, i, id)
    <3>1. i \in 1..Len(q) + 1
      BY <1>5
    <3>2. IF About(w, os2, id) THEN i = Len(q) + 1
                               ELSE i \in 1..Len(q) /\ LastAbout(q, os2, i, id)
      BY <1>3, <3>1, Queued
    <3> QED
      BY <1>4, <3>2
  <2>2. CASE id = id0
    BY <1>5, <2>1, <2>2
  <2>3. CASE id # id0
    <3>1. i \in 1..Len(q) /\ LastAbout(q, os, i, id) /\ q2[i] = q[i]
      BY <1>3, <1>5, <2>1, <2>3
    <3>2. /\ q[i].op = "upsert" =>
               /\ os[q[i].obj].state = "active" =>
                    id \in DOMAIN ss \/ (os[q[i].obj].ends < t /\ Expires(q, i + 1, gc))
               /\ id \in DOMAIN ss => ss[id] = q[i].obj
          /\ q[i].op = "delete" => id \notin DOMAIN ss
      BY <3>1 DEF QueueAgrees
    <3>3. Expires(q, i + 1, gc) => Expires(q2, i + 1, gc)
      <4>1. i + 1 \in 1..Len(q) + 1
        BY <1>5, <3>1
      <4> QED
        BY <4>1, Queued
    <3>4. q[i].op = "upsert" => os2[q[i].obj] = os[q[i].obj]
      BY <1>2, <1>6, <3>1
    <3> QED
      BY <2>3, <3>1, <3>2, <3>3, <3>4
  <2> QED
    BY <2>2, <2>3
<1>8. RowsAgree(q2, rs, ss2, os2, t, gc)
  <2> SUFFICES ASSUME NEW id \in SessionIds, NoneAbout(q2, os2, id)
      PROVE  /\ \A r \in rs : r.id = id =>
                  /\ r.state = "active" => id \in DOMAIN ss2 \/ (r.ends < t /\ Expires(q2, 1, gc))
                  /\ id \in DOMAIN ss2 => r.ends <= os2[ss2[id]].ends
             /\ id \in DOMAIN ss2 /\ t <= os2[ss2[id]].ends
                  /\ os2[ss2[id]].ends <= os2[ss2[id]].born + Ttl
                  => \E r \in rs : r.id = id /\ r.ends >= os2[ss2[id]].ends
    BY DEF RowsAgree
  <2>1. NoneAbout(q, os, id) /\ id # id0
    BY <1>3, <1>4, Queued
  <2>2. /\ \A r \in rs : r.id = id =>
             /\ r.state = "active" => id \in DOMAIN ss \/ (r.ends < t /\ Expires(q, 1, gc))
             /\ id \in DOMAIN ss => r.ends <= os[ss[id]].ends
        /\ id \in DOMAIN ss /\ t <= os[ss[id]].ends
             /\ os[ss[id]].ends <= os[ss[id]].born + Ttl
             => \E r \in rs : r.id = id /\ r.ends >= os[ss[id]].ends
    BY <2>1 DEF RowsAgree
  <2>3. Expires(q, 1, gc) => Expires(q2, 1, gc)
    <3>1. 1 \in 1..Len(q) + 1
      BY <1>5
    <3> QED
      BY <3>1, Queued
  <2>4. /\ id \in DOMAIN ss2 <=> id \in DOMAIN ss
        /\ id \in DOMAIN ss => os2[ss2[id]] = os[ss[id]]
    BY <1>1, <1>2, <2>1
  <2> QED
    BY <2>2, <2>3, <2>4
<1> QED
  BY <1>7, <1>8 DEF os2

LEMMA Appended ==
  ASSUME NEW os \in Seq(Objects), NEW o \in Objects
  PROVE  /\ Append(os, o) \in Seq(Objects) /\ Len(Append(os, o)) = Len(os) + 1
         /\ Append(os, o)[Len(os) + 1] = o /\ \A i \in 1..Len(os) : Append(os, o)[i] = os[i]
OBVIOUS

LEMMA RegisterStep ==
  ASSUME SessionInv, NEW r \in Requests, Sessions!Register(r)
  PROVE  SessionInv'
<1>1. UNCHANGED <<kept, now, gcStep, sessionRows, saved, overtaken>>
  BY DEF Sessions!Register, Sessions!Disk
<1>2. SessionTypeOK /\ HandInv /\ WriteInv
  BY DEF SessionInv
<1>3. /\ StoreOK(sessions, objs, now) /\ QueueOK(queue, objs)
      /\ req \in [Requests -> Held] /\ \A s \in Requests : req[s].since <= now
      /\ IsFiniteSet(DOMAIN sessions)
  BY <1>2 DEF SessionTypeOK, ReqOK, StoreOK
<1>4. /\ now \in Nat /\ Ttl \in Nat /\ objs \in Seq(Objects) /\ Len(objs) \in Nat
      /\ \A i \in 1..Len(objs) : Timely(objs[i], now)
      /\ \A id \in DOMAIN sessions : /\ id \in SessionIds /\ sessions[id] \in 1..Len(objs)
                                     /\ sessions[id] \in Nat /\ objs[sessions[id]].id = id
  BY <1>3, StoreTypes DEF StoreOK
<1>5. PICK id, new : id = req[r].id /\ new = Len(objs) + 1
  OBVIOUS
<1>6. req[r] \in Held /\ req[r].since \in Nat /\ req[r].step = "register"
  BY <1>3 DEF Held, Sessions!Register
<1>7. /\ \A s, v \in Requests : req[s].step \in InPump /\ req[v].step \in InPump => s = v
      /\ \A s \in Requests : req[s].step = "using" /\ s \notin stale =>
           /\ req[s].obj \in 1..Len(objs) /\ objs[req[s].obj].ends >= req[s].since + Ttl
           /\ now <= req[s].since + Ttl =>
                \/ req[s].id \in DOMAIN sessions /\ sessions[req[s].id] = req[s].obj
                \/ objs[req[s].obj].state = "completed"
  BY <1>2 DEF HandInv, HandOK
<1>8. \A s \in Requests : req[s].step = "touch" => FALSE
  BY <1>6, <1>7 DEF InPump
<1>9. ASSUME NEW obj \in Nat, req' = [req EXCEPT ![r].step = "using", ![r].obj = obj]
      PROVE  /\ req' \in [Requests -> Held] /\ ReqOK(req', now)
             /\ req'[r].step = "using" /\ req'[r].id = id
             /\ req'[r].obj = obj /\ req'[r].since = req[r].since
             /\ \A s \in Requests \ {r} : req'[s] = req[s]
             /\ \A s \in Requests : req'[s].step \notin InPump
  <2>1. req' = [req EXCEPT ![r] = HeldWith(req[r], obj)]
    BY <1>3, <1>9 DEF HeldWith, Step
  <2>2. /\ HeldWith(req[r], obj) \in Held /\ HeldWith(req[r], obj).step = "using"
        /\ HeldWith(req[r], obj).id = id /\ HeldWith(req[r], obj).obj = obj
        /\ HeldWith(req[r], obj).since = req[r].since
    BY <1>5, <1>6, HeldGiven
  <2>3. /\ req' \in [Requests -> Held] /\ req'[r] = HeldWith(req[r], obj)
        /\ \A s \in Requests \ {r} : req'[s] = req[s]
    BY <1>3, <2>1, <2>2
  <2>4. \A s \in Requests : req'[s].step \notin InPump
    BY <1>6, <1>7, <2>2, <2>3 DEF InPump
  <2>5. ReqOK(req', now)
    BY <1>3, <2>2, <2>3, <2>4 DEF ReqOK
  <2> QED
    BY <2>2, <2>3, <2>4, <2>5
<1>10. CASE id \in DOMAIN sessions
  <2>1. /\ UNCHANGED <<objs, sessions, queue>> /\ stale' = stale \cup {r}
        /\ req' = [req EXCEPT ![r].step = "using", ![r].obj = sessions[id]]
    BY <1>5, <1>10 DEF Sessions!Register, Sessions!Registered
  <2>2. /\ ReqOK(req', now) /\ \A s \in Requests \ {r} : req'[s] = req[s]
        /\ \A s \in Requests : req'[s].step \notin InPump
    BY <1>4, <1>9, <1>10, <2>1
  <2>3. SessionTypeOK'
    BY <1>1, <1>2, <2>1, <2>2 DEF SessionTypeOK
  <2>4. HandOK(req', sessions, objs, stale', now)
    BY <1>7, <2>1, <2>2 DEF HandOK, InPump
  <2>5. HandInv' /\ WriteInv'
    BY <1>1, <1>2, <2>1, <2>4 DEF HandInv, WriteInv
  <2> QED
    BY <2>3, <2>5 DEF SessionInv
<1>11. CASE id \notin DOMAIN sessions
  <2>1. PICK o, w : /\ o = [id |-> id, state |-> "active", born |-> now, ends |-> now + Ttl]
                    /\ w = [op |-> "upsert", obj |-> new]
    OBVIOUS
  <2>2. /\ objs' = Append(objs, o) /\ stale' = stale
        /\ queue' = IF kept = "db" THEN Append(queue, w) ELSE queue
        /\ req' = [req EXCEPT ![r].step = "using", ![r].obj = new]
        /\ sessions' = [i \in DOMAIN sessions \cup {id} |-> IF i = id THEN new ELSE sessions[i]]
    BY <1>5, <1>11, <2>1 DEF Sessions!Register, Sessions!Registered, Sessions!Go
  <2>3. new \in Nat /\ w \in SessionWrites /\ w.op = "upsert" /\ w.obj = new
    BY <1>4, <1>5, <2>1, WritesAre
  <2>4. /\ ReqOK(req', now) /\ \A s \in Requests \ {r} : req'[s] = req[s]
        /\ \A s \in Requests : req'[s].step \notin InPump
        /\ req'[r].id = id /\ req'[r].obj = new /\ req'[r].since = req[r].since
    BY <1>9, <2>2, <2>3
  <2>5. id \in SessionIds
    BY <1>2, <1>5, <1>6 DEF SessionTypeOK, ReqOK, InPump
  <2>6. /\ o \in Objects /\ o.id = id /\ o.state = "active" /\ o.ends = now + Ttl
        /\ Timely(o, now)
    <3>1. now + Ttl \in Nat
      BY <1>4
    <3>2. o \in Objects /\ o.id = id /\ o.state = "active" /\ o.ends = now + Ttl /\ o.born = now
      BY <1>4, <2>1, <2>5, <3>1 DEF Objects
    <3> QED
      BY <1>4, <3>2 DEF Timely
  <2>7. /\ objs' \in Seq(Objects) /\ Len(objs') = new /\ objs'[new] = o
        /\ \A i \in 1..Len(objs) : objs'[i] = objs[i]
    BY <1>4, <1>5, <2>2, <2>6, Appended
  <2>8. \A i \in 1..new : i = new \/ i \in 1..Len(objs)
    BY <1>4, <1>5
  <2>9. /\ DOMAIN sessions' = DOMAIN sessions \cup {id} /\ sessions'[id] = new
        /\ \A i \in DOMAIN sessions : sessions'[i] = sessions[i]
    BY <1>11, <2>2
  <2>10. StoreOK(sessions', objs', now)
    <3>1. IsFiniteSet(DOMAIN sessions')
      BY <1>3, <2>9, FS_AddElement
    <3>2. \A i \in 1..Len(objs') : Timely(objs'[i], now)
      BY <1>4, <2>6, <2>7, <2>8
    <3>3. new \in 1..new /\ \A i \in 1..Len(objs) : i \in 1..new
      BY <1>4, <1>5
    <3>4. \A i \in DOMAIN sessions' : sessions'[i] \in 1..Len(objs') /\ objs'[sessions'[i]].id = i
      <4> SUFFICES ASSUME NEW i \in DOMAIN sessions'
                   PROVE  sessions'[i] \in 1..Len(objs') /\ objs'[sessions'[i]].id = i
        OBVIOUS
      <4>1. CASE i = id
        BY <2>6, <2>7, <2>9, <3>3, <4>1
      <4>2. CASE i # id
        BY <1>4, <2>7, <2>9, <3>3, <4>2
      <4> QED
        BY <4>1, <4>2
    <3> QED
      BY <1>4, <2>5, <2>7, <2>9, <3>1, <3>2, <3>4 DEF StoreOK
  <2>11. QueueOK(queue, objs') /\ QueueOK(Append(queue, w), objs')
    <3>1. new \in 1..Len(objs') /\ \A i \in 1..Len(objs) : i \in 1..Len(objs')
      BY <1>4, <1>5, <2>7
    <3>2. QueueOK(queue, objs')
      BY <1>3, <3>1 DEF QueueOK
    <3> QED
      BY <2>3, <3>1, <3>2, QueueAppend
  <2>12. SessionTypeOK'
    BY <1>1, <1>2, <2>2, <2>4, <2>10, <2>11 DEF SessionTypeOK
  <2>13. HandOK(req', sessions', objs', stale, now)
    <3>1. ASSUME NEW s \in Requests, req'[s].step = "using", s \notin stale
          PROVE  /\ req'[s].obj \in 1..Len(objs')
                 /\ objs'[req'[s].obj].ends >= req'[s].since + Ttl
                 /\ now <= req'[s].since + Ttl =>
                      \/ req'[s].id \in DOMAIN sessions' /\ sessions'[req'[s].id] = req'[s].obj
                      \/ objs'[req'[s].obj].state = "completed"
      <4>1. CASE s = r
        <5>1. req[r].since <= now /\ \A x \in Nat : x <= now => now + Ttl >= x + Ttl
          BY <1>3, <1>4
        <5>2. new \in 1..new
          BY <1>4, <1>5
        <5> QED
          BY <1>6, <2>4, <2>6, <2>7, <2>9, <4>1, <5>1, <5>2
      <4>2. CASE s # r
        <5>1. req'[s] = req[s] /\ req[s].obj \in 1..Len(objs)
          BY <1>7, <2>4, <3>1, <4>2
        <5>2. req[s].obj \in 1..Len(objs') /\ objs'[req[s].obj] = objs[req[s].obj]
          BY <1>4, <1>5, <2>7, <5>1
        <5> QED
          BY <1>7, <2>9, <3>1, <5>1, <5>2
      <4> QED
        BY <4>1, <4>2
    <3> QED
      BY <2>4, <3>1 DEF HandOK, InPump
  <2>14. WriteInv'
    <3>1. CASE kept = "db" /\ ~overtaken
      <4>1. /\ QueueAgrees(queue, sessions, objs, now, gcStep)
            /\ RowsAgree(queue, sessionRows, sessions, objs, now, gcStep)
        BY <1>2, <3>1 DEF WriteInv
      <4>2. /\ QueueAgrees(Append(queue, w), sessions', Append(objs, o), now, gcStep)
            /\ RowsAgree(Append(queue, w), sessionRows, sessions', Append(objs, o), now, gcStep)
        BY <1>3, <1>5, <1>11, <2>3, <2>5, <2>6, <2>9, <4>1, RegisterWrites
      <4> QED
        BY <1>1, <2>2, <3>1, <4>2 DEF WriteInv
    <3> QED
      BY <1>1, <3>1 DEF WriteInv
  <2>15. HandInv'
    BY <1>1, <2>2, <2>13 DEF HandInv
  <2> QED
    BY <2>12, <2>14, <2>15 DEF SessionInv
<1> QED
  BY <1>10, <1>11

\* A session is ended, and the deletion of its row asked for.
LEMMA EndWrites ==
  ASSUME NEW ss, NEW os, NEW t, NEW q, NEW rs, NEW gc, NEW id0 \in DOMAIN ss, NEW os2, NEW ss2,
         NEW w \in SessionWrites, w.op = "delete", w.id = id0,
         DOMAIN ss2 = DOMAIN ss \ {id0}, \A id \in DOMAIN ss2 : ss2[id] = ss[id],
         Len(os2) = Len(os), \A i \in 1..Len(os) : os2[i].id = os[i].id,
         \A i \in 1..Len(os) \ {ss[id0]} : os2[i] = os[i],
         StoreOK(ss, os, t), QueueOK(q, os), QueueAgrees(q, ss, os, t, gc),
         RowsAgree(q, rs, ss, os, t, gc)
  PROVE  /\ QueueAgrees(Append(q, w), ss2, os2, t, gc)
         /\ RowsAgree(Append(q, w), rs, ss2, os2, t, gc)
<1> DEFINE q2 == Append(q, w)
<1>1. /\ Len(os) \in Nat
      /\ \A id \in DOMAIN ss : ss[id] \in 1..Len(os) /\ os[ss[id]].id = id
  BY StoreTypes
<1>2. /\ \A id : \A i \in 1..Len(q) : LastAbout(q, os2, i, id) <=> LastAbout(q, os, i, id)
      /\ \A id : NoneAbout(q, os2, id) <=> NoneAbout(q, os, id)
      /\ QueueOK(q, os2)
  <2>1. Len(os2) \in Nat /\ Len(os) <= Len(os2)
    BY <1>1
  <2> QED
    BY <1>1, <2>1, AboutSame
<1>3. \A id : About(w, os2, id) <=> id = id0
  BY DEF About
<1>4. /\ Len(q) \in Nat /\ Len(q2) = Len(q) + 1 /\ q2[Len(q) + 1] = w
      /\ \A i \in 1..Len(q) : q2[i] = q[i]
  BY Queued
<1>5. \A i \in 1..Len(q) : q[i].op = "upsert" => q[i].obj \in 1..Len(os)
  BY DEF QueueOK
<1>6. \A id \in DOMAIN ss \ {id0} : ss[id] # ss[id0]
  BY <1>1
<1>7. QueueAgrees(q2, ss2, os2, t, gc)
  <2> SUFFICES ASSUME NEW id \in SessionIds, NEW i \in 1..Len(q2), LastAbout(q2, os2, i, id)
      PROVE  /\ q2[i].op = "upsert" =>
                  /\ os2[q2[i].obj].state = "active" =>
                       id \in DOMAIN ss2 \/ (os2[q2[i].obj].ends < t /\ Expires(q2, i + 1, gc))
                  /\ id \in DOMAIN ss2 => ss2[id] = q2[i].obj
             /\ q2[i].op = "delete" => id \notin DOMAIN ss2
    BY DEF QueueAgrees
  <2>1. IF id = id0 THEN i = Len(q) + 1 ELSE i \in 1..Len(q) /\ LastAbout(q, os2, i, id)
    <3>1. i \in 1..Len(q) + 1
      BY <1>4
    <3>2. IF About(w, os2, id) THEN i = Len(q) + 1
                               ELSE i \in 1..Len(q) /\ LastAbout(q, os2, i, id)
      BY <1>2, <3>1, Queued
    <3> QED
      BY <1>3, <3>2
  <2>2. CASE id = id0
    BY <1>4, <2>1, <2>2
  <2>3. CASE id # id0
    <3>1. i \in 1..Len(q) /\ LastAbout(q, os, i, id) /\ q2[i] = q[i]
      BY <1>2, <1>4, <2>1, <2>3
    <3>2. /\ q[i].op = "upsert" =>
               /\ os[q[i].obj].state = "active" =>
                    id \in DOMAIN ss \/ (os[q[i].obj].ends < t /\ Expires(q, i + 1, gc))
               /\ id \in DOMAIN ss => ss[id] = q[i].obj
          /\ q[i].op = "delete" => id \notin DOMAIN ss
      BY <3>1 DEF QueueAgrees
    <3>3. Expires(q, i + 1, gc) => Expires(q2, i + 1, gc)
      <4>1. i + 1 \in 1..Len(q) + 1
        BY <1>4, <3>1
      <4> QED
        BY <4>1, Queued
    <3>4. q[i].op = "upsert" => os2[q[i].obj] = os[q[i].obj]
      <4> SUFFICES ASSUME q[i].op = "upsert" PROVE os2[q[i].obj] = os[q[i].obj]
        OBVIOUS
      <4>1. q[i].obj \in 1..Len(os) /\ os[q[i].obj].id = id
        BY <1>5, <3>1 DEF LastAbout, About
      <4>2. q[i].obj # ss[id0]
        BY <1>1, <2>3, <4>1
      <4> QED
        BY <4>1, <4>2
    <3> QED
      BY <2>3, <3>1, <3>2, <3>3, <3>4
  <2> QED
    BY <2>2, <2>3
<1>8. RowsAgree(q2, rs, ss2, os2, t, gc)
  <2> SUFFICES ASSUME NEW id \in SessionIds, NoneAbout(q2, os2, id)
      PROVE  /\ \A r \in rs : r.id = id =>
                  /\ r.state = "active" => id \in DOMAIN ss2 \/ (r.ends < t /\ Expires(q2, 1, gc))
                  /\ id \in DOMAIN ss2 => r.ends <= os2[ss2[id]].ends
             /\ id \in DOMAIN ss2 /\ t <= os2[ss2[id]].ends
                  /\ os2[ss2[id]].ends <= os2[ss2[id]].born + Ttl
                  => \E r \in rs : r.id = id /\ r.ends >= os2[ss2[id]].ends
    BY DEF RowsAgree
  <2>1. NoneAbout(q, os, id) /\ id # id0
    BY <1>2, <1>3, Queued
  <2>2. /\ \A r \in rs : r.id = id =>
             /\ r.state = "active" => id \in DOMAIN ss \/ (r.ends < t /\ Expires(q, 1, gc))
             /\ id \in DOMAIN ss => r.ends <= os[ss[id]].ends
        /\ id \in DOMAIN ss /\ t <= os[ss[id]].ends
             /\ os[ss[id]].ends <= os[ss[id]].born + Ttl
             => \E r \in rs : r.id = id /\ r.ends >= os[ss[id]].ends
    BY <2>1 DEF RowsAgree
  <2>3. Expires(q, 1, gc) => Expires(q2, 1, gc)
    <3>1. 1 \in 1..Len(q) + 1
      BY <1>4
    <3> QED
      BY <3>1, Queued
  <2>4. /\ id \in DOMAIN ss2 <=> id \in DOMAIN ss
        /\ id \in DOMAIN ss => os2[ss2[id]] = os[ss[id]]
    BY <1>1, <1>6, <2>1
  <2> QED
    BY <2>2, <2>3, <2>4
<1> QED
  BY <1>7, <1>8

LEMMA EndStep ==
  ASSUME SessionInv, NEW id \in SessionIds, Sessions!EndSession(id)
  PROVE  SessionInv'
<1>1. UNCHANGED <<kept, now, req, gcStep, sessionRows, saved, overtaken, stale>>
  BY DEF Sessions!EndSession, Sessions!Disk
<1>2. SessionTypeOK /\ HandInv /\ WriteInv
  BY DEF SessionInv
<1>3. /\ StoreOK(sessions, objs, now) /\ QueueOK(queue, objs)
      /\ req \in [Requests -> Held] /\ IsFiniteSet(DOMAIN sessions)
  BY <1>2 DEF SessionTypeOK, ReqOK, StoreOK
<1>4. /\ now \in Nat /\ objs \in Seq(Objects) /\ Len(objs) \in Nat
      /\ \A i \in 1..Len(objs) : Timely(objs[i], now) /\ objs[i] \in Objects
      /\ \A i \in DOMAIN sessions : /\ i \in SessionIds /\ sessions[i] \in 1..Len(objs)
                                    /\ sessions[i] \in Nat /\ objs[sessions[i]].id = i
  BY <1>3, StoreTypes DEF StoreOK
<1>5. PICK n, o, w : /\ n = sessions[id] /\ o = Ended(objs[n])
                     /\ w = [op |-> "delete", id |-> id]
  OBVIOUS
<1>6. /\ id \in DOMAIN sessions /\ objs' = [objs EXCEPT ![n] = o]
      /\ sessions' = [i \in DOMAIN sessions \ {id} |-> sessions[i]]
      /\ queue' = IF kept = "db" THEN Append(queue, w) ELSE queue
  BY <1>4, <1>5 DEF Sessions!EndSession, Sessions!Get, Sessions!Registered, Sessions!Drop,
       Sessions!DeleteRow, Sessions!Go, Ended
<1>7. \A r \in Requests : req[r].step \notin InPump
  BY DEF Sessions!EndSession, Sessions!Pumping, InPump
<1>8. n \in 1..Len(objs) /\ w \in SessionWrites /\ w.op = "delete" /\ w.id = id
  BY <1>4, <1>5, <1>6, WritesAre
<1>9. /\ o \in Objects /\ o.id = objs[n].id /\ o.born = objs[n].born
      /\ o.state = "completed" /\ o.ends = objs[n].ends
  <2>1. objs[n] \in Objects
    BY <1>4, <1>8
  <2> QED
    BY <1>4, <1>5, <2>1, RecordsOf
<1>10. /\ objs' \in Seq(Objects) /\ Len(objs') = Len(objs) /\ objs'[n] = o
       /\ \A j \in 1..Len(objs) \ {n} : objs'[j] = objs[j]
  BY <1>4, <1>6, <1>8, <1>9, Replaced
<1>11. \A i \in 1..Len(objs) :
         /\ objs'[i].id = objs[i].id /\ objs'[i].ends = objs[i].ends
         /\ objs[i].state = "completed" => objs'[i].state = "completed"
         /\ Timely(objs'[i], now)
  <2> SUFFICES ASSUME NEW i \in 1..Len(objs)
               PROVE  /\ objs'[i].id = objs[i].id /\ objs'[i].ends = objs[i].ends
                      /\ objs[i].state = "completed" => objs'[i].state = "completed"
                      /\ Timely(objs'[i], now)
    OBVIOUS
  <2>1. CASE i = n
    BY <1>4, <1>8, <1>9, <1>10, <2>1 DEF Timely
  <2>2. CASE i # n
    BY <1>4, <1>10, <2>2
  <2> QED
    BY <2>1, <2>2
<1>12. /\ DOMAIN sessions' = DOMAIN sessions \ {id}
       /\ \A i \in DOMAIN sessions' : sessions'[i] = sessions[i]
  BY <1>6
<1>13. StoreOK(sessions', objs', now)
  <2>1. IsFiniteSet(DOMAIN sessions')
    BY <1>3, <1>12, FS_RemoveElement
  <2> QED
    BY <1>4, <1>10, <1>11, <1>12, <2>1 DEF StoreOK
<1>14. QueueOK(queue, objs') /\ QueueOK(Append(queue, w), objs')
  <2>1. QueueOK(queue, objs')
    BY <1>3, <1>10 DEF QueueOK
  <2> QED
    BY <1>8, <2>1, QueueAppend
<1>15. SessionTypeOK'
  BY <1>1, <1>2, <1>6, <1>13, <1>14 DEF SessionTypeOK
<1>16. HandOK(req, sessions', objs', stale, now)
  <2>1. \A r \in Requests : req[r].step = "using" /\ r \notin stale =>
          /\ req[r].obj \in 1..Len(objs) /\ objs[req[r].obj].ends >= req[r].since + Ttl
          /\ now <= req[r].since + Ttl =>
               \/ req[r].id \in DOMAIN sessions /\ sessions[req[r].id] = req[r].obj
               \/ objs[req[r].obj].state = "completed"
    BY <1>2 DEF HandInv, HandOK
  <2>2. ASSUME NEW r \in Requests, req[r].step = "using", r \notin stale
        PROVE  /\ req[r].obj \in 1..Len(objs') /\ objs'[req[r].obj].ends >= req[r].since + Ttl
               /\ now <= req[r].since + Ttl =>
                    \/ req[r].id \in DOMAIN sessions' /\ sessions'[req[r].id] = req[r].obj
                    \/ objs'[req[r].obj].state = "completed"
    <3>1. req[r].obj \in 1..Len(objs) /\ objs[req[r].obj].ends >= req[r].since + Ttl
      BY <2>1, <2>2
    <3>2. req[r].obj \in 1..Len(objs') /\ objs'[req[r].obj].ends >= req[r].since + Ttl
      BY <1>10, <1>11, <3>1
    <3>3. req[r].id = id /\ sessions[req[r].id] = req[r].obj
            => objs'[req[r].obj].state = "completed"
      BY <1>5, <1>9, <1>10
    <3> QED
      BY <1>10, <1>11, <1>12, <2>1, <2>2, <3>1, <3>2, <3>3
  <2> QED
    BY <1>7, <2>2 DEF HandOK, InPump
<1>17. WriteInv'
  <2>1. CASE kept = "db" /\ ~overtaken
    <3>1. /\ QueueAgrees(queue, sessions, objs, now, gcStep)
          /\ RowsAgree(queue, sessionRows, sessions, objs, now, gcStep)
      BY <1>2, <2>1 DEF WriteInv
    <3>2. \A i \in 1..Len(objs) \ {sessions[id]} : objs'[i] = objs[i]
      BY <1>5, <1>10
    <3>3. \A i \in 1..Len(objs) : objs'[i].id = objs[i].id
      BY <1>11
    <3>4. id \in DOMAIN sessions /\ StoreOK(sessions, objs, now) /\ QueueOK(queue, objs)
      BY <1>3, <1>6
    <3>5. w \in SessionWrites /\ w.op = "delete" /\ w.id = id /\ Len(objs') = Len(objs)
      BY <1>8, <1>10
    <3>6. /\ QueueAgrees(Append(queue, w), sessions', objs', now, gcStep)
          /\ RowsAgree(Append(queue, w), sessionRows, sessions', objs', now, gcStep)
      BY ONLY <1>12, <3>1, <3>2, <3>3, <3>4, <3>5, EndWrites
    <3> QED
      BY <1>1, <1>6, <2>1, <3>6 DEF WriteInv
  <2> QED
    BY <1>1, <2>1 DEF WriteInv
<1>18. HandInv'
  BY <1>1, <1>16 DEF HandInv
<1> QED
  BY <1>15, <1>17, <1>18 DEF SessionInv

\* What the file would get.
LEMMA SnapshotOK ==
  ASSUME StoreOK(sessions, objs, now)
  PROVE  RecordsOK(Sessions!Snapshot, now)
<1>1. /\ now \in Nat /\ objs \in Seq(Objects) /\ IsFiniteSet(DOMAIN sessions)
      /\ \A i \in 1..Len(objs) : Timely(objs[i], now) /\ objs[i] \in Objects
      /\ \A i \in DOMAIN sessions : sessions[i] \in 1..Len(objs) /\ objs[sessions[i]].id = i
  BY StoreTypes DEF StoreOK
<1>2. PICK S : S = {objs[sessions[i]] : i \in DOMAIN sessions}
  OBVIOUS
<1>3. PICK f : f = [i \in DOMAIN sessions |-> objs[sessions[i]]]
  OBVIOUS
<1>4. f \in Surjection(DOMAIN sessions, S)
  BY <1>2, <1>3 DEF Surjection
<1>5. IsFiniteSet(S)
  BY <1>1, <1>4, FS_Surjection
<1>6. S \subseteq Objects /\ \A o \in S : Timely(o, now)
  BY <1>1, <1>2
<1>7. \A o, p \in S : o.id = p.id => o = p
  <2> SUFFICES ASSUME NEW o \in S, NEW p \in S, o.id = p.id PROVE o = p
    OBVIOUS
  <2>1. PICK i, j \in DOMAIN sessions : o = objs[sessions[i]] /\ p = objs[sessions[j]]
    BY <1>2
  <2>2. i = j
    BY <1>1, <2>1
  <2> QED
    BY <2>1, <2>2
<1> QED
  BY <1>2, <1>5, <1>6, <1>7 DEF RecordsOK, Sessions!Snapshot

\* The collector drops what has expired, and asks for its rows' deletion.
LEMMA CollectStep ==
  ASSUME SessionInv, Sessions!Sweep \/ Sessions!AfterSweep
  PROVE  SessionInv'
<1>1. /\ SessionTypeOK /\ HandInv /\ WriteInv /\ StoreOK(sessions, objs, now)
      /\ QueueOK(queue, objs) /\ req \in [Requests -> Held] /\ IsFiniteSet(DOMAIN sessions)
  BY DEF SessionInv, SessionTypeOK, ReqOK, StoreOK
<1>2. /\ now \in Nat /\ Ttl \in Nat /\ objs \in Seq(Objects) /\ Len(objs) \in Nat
      /\ \A i \in 1..Len(objs) : /\ Timely(objs[i], now) /\ objs[i] \in Objects
                                 /\ objs[i].ends \in Nat
      /\ \A i \in DOMAIN sessions : /\ i \in SessionIds /\ sessions[i] \in 1..Len(objs)
                                    /\ sessions[i] \in Nat /\ objs[sessions[i]].id = i
  BY <1>1, StoreTypes DEF StoreOK
<1>3. CASE Sessions!Sweep
  <2>1. /\ UNCHANGED <<kept, now, objs, req, queue, sessionRows, saved, overtaken, stale>>
        /\ gcStep' = "swept"
    BY <1>3 DEF Sessions!Sweep, Sessions!Disk
  <2>2. PICK out : out = {id \in DOMAIN sessions : now > objs[sessions[id]].ends}
    OBVIOUS
  <2>3. sessions' = [i \in DOMAIN sessions \ out |-> sessions[i]]
    BY <1>3, <2>2 DEF Sessions!Sweep, Sessions!Drop, Sessions!Expired
  <2>4. /\ DOMAIN sessions' = DOMAIN sessions \ out
        /\ \A i \in DOMAIN sessions' : i \in DOMAIN sessions /\ sessions'[i] = sessions[i]
        /\ \A i \in DOMAIN sessions : i \in DOMAIN sessions' \/ objs[sessions[i]].ends < now
    BY <1>2, <2>2, <2>3
  <2>5. StoreOK(sessions', objs, now)
    <3>1. IsFiniteSet(DOMAIN sessions')
      BY <1>1, <2>4, FS_Subset
    <3> QED
      BY <1>1, <1>2, <2>4, <3>1 DEF StoreOK
  <2>6. SessionTypeOK'
    BY <1>1, <2>1, <2>5 DEF SessionTypeOK
  <2>7. HandOK(req, sessions', objs, stale, now)
    <3>1. /\ \A r, s \in Requests : req[r].step \in InPump /\ req[s].step \in InPump => r = s
          /\ \A r \in Requests :
               req[r].step = "touch" /\ req[r].id \in DOMAIN sessions
                 => sessions[req[r].id] = req[r].obj
          /\ \A r \in Requests : req[r].step = "using" /\ r \notin stale =>
               /\ req[r].obj \in 1..Len(objs) /\ objs[req[r].obj].ends >= req[r].since + Ttl
               /\ now <= req[r].since + Ttl =>
                    \/ req[r].id \in DOMAIN sessions /\ sessions[req[r].id] = req[r].obj
                    \/ objs[req[r].obj].state = "completed"
      BY <1>1 DEF HandInv, HandOK
    <3>2. ASSUME NEW r \in Requests, req[r].step = "using", r \notin stale,
                 now <= req[r].since + Ttl
          PROVE  \/ req[r].id \in DOMAIN sessions' /\ sessions'[req[r].id] = req[r].obj
                 \/ objs[req[r].obj].state = "completed"
      <4>1. req[r].obj \in 1..Len(objs) /\ objs[req[r].obj].ends >= req[r].since + Ttl
        BY <3>1, <3>2
      <4>2. ~(objs[req[r].obj].ends < now)
        <5>1. req[r].since \in Nat
          BY <1>1 DEF Held
        <5>2. \A x, y, z \in Nat : x >= y + Ttl /\ z <= y + Ttl => ~(x < z)
          BY <1>2
        <5> QED
          BY <1>2, <3>2, <4>1, <5>1, <5>2
      <4> QED
        BY <2>4, <3>1, <3>2, <4>2
    <3> QED
      BY <2>4, <3>1, <3>2 DEF HandOK
  <2>8. WriteInv'
    <3>1. CASE kept = "db" /\ ~overtaken
      <4>1. \A i : Expires(queue, i, "swept")
        BY DEF Expires
      <4>2. QueueAgrees(queue, sessions', objs, now, "swept")
        <5>1. QueueAgrees(queue, sessions, objs, now, gcStep)
          BY <1>1, <3>1 DEF WriteInv
        <5> QED
          BY <2>4, <4>1, <5>1 DEF QueueAgrees
      <4>3. RowsAgree(queue, sessionRows, sessions', objs, now, "swept")
        <5>1. RowsAgree(queue, sessionRows, sessions, objs, now, gcStep)
          BY <1>1, <3>1 DEF WriteInv
        <5>2. \A r \in sessionRows : r.ends \in Nat
          BY <1>1 DEF SessionTypeOK, RecordsOK, Objects
        <5> SUFFICES ASSUME NEW id \in SessionIds, NoneAbout(queue, objs, id)
            PROVE  /\ \A r \in sessionRows : r.id = id =>
                        /\ r.state = "active" => id \in DOMAIN sessions' \/ r.ends < now
                        /\ id \in DOMAIN sessions' => r.ends <= objs[sessions'[id]].ends
                   /\ id \in DOMAIN sessions' /\ now <= objs[sessions'[id]].ends
                        /\ objs[sessions'[id]].ends <= objs[sessions'[id]].born + Ttl
                        => \E r \in sessionRows : r.id = id /\ r.ends >= objs[sessions'[id]].ends
          BY <4>1 DEF RowsAgree
        <5>3. /\ \A r \in sessionRows : r.id = id =>
                   /\ r.state = "active" => id \in DOMAIN sessions \/ r.ends < now
                   /\ id \in DOMAIN sessions => r.ends <= objs[sessions[id]].ends
              /\ id \in DOMAIN sessions /\ now <= objs[sessions[id]].ends
                   /\ objs[sessions[id]].ends <= objs[sessions[id]].born + Ttl
                   => \E r \in sessionRows : r.id = id /\ r.ends >= objs[sessions[id]].ends
          BY <5>1 DEF RowsAgree
        <5>4. ASSUME NEW r \in sessionRows, r.id = id, r.state = "active",
                     id \notin DOMAIN sessions'
              PROVE  r.ends < now
          <6>1. CASE id \in DOMAIN sessions
            <7>1. r.ends <= objs[sessions[id]].ends /\ objs[sessions[id]].ends < now
              BY <2>4, <5>3, <5>4, <6>1
            <7>2. objs[sessions[id]].ends \in Nat
              BY <1>2, <6>1
            <7> QED
              BY <1>2, <5>2, <7>1, <7>2
          <6> QED
            BY <5>3, <5>4, <6>1
        <5> QED
          BY <2>4, <5>3, <5>4
      <4> QED
        BY <2>1, <4>2, <4>3 DEF WriteInv
    <3> QED
      BY <2>1, <3>1 DEF WriteInv
  <2>9. HandInv'
    BY <2>1, <2>7 DEF HandInv
  <2> QED
    BY <2>6, <2>8, <2>9 DEF SessionInv
<1>4. CASE Sessions!AfterSweep
  <2>1. /\ UNCHANGED <<kept, now, sessions, objs, req, sessionRows, overtaken, stale>>
        /\ gcStep' = "idle" /\ gcStep = "swept"
    BY <1>4 DEF Sessions!AfterSweep
  <2>2. PICK w : w = [op |-> "expire"]
    OBVIOUS
  <2>3. /\ queue' = IF kept = "db" THEN Append(queue, w) ELSE queue
        /\ saved' = IF kept = "file" THEN Sessions!Snapshot ELSE saved
    BY <1>4, <2>2 DEF Sessions!AfterSweep, Sessions!Go
  <2>4. w \in SessionWrites /\ w.op = "expire" /\ \A id : ~About(w, objs, id)
    BY <2>2, WritesAre DEF About
  <2>5. QueueOK(Append(queue, w), objs)
    BY <1>1, <2>4, QueueAppend
  <2>6. RecordsOK(saved', now)
    BY <1>1, <2>3, SnapshotOK DEF SessionTypeOK
  <2>7. SessionTypeOK'
    BY <1>1, <2>1, <2>3, <2>5, <2>6 DEF SessionTypeOK
  <2>8. HandInv'
    BY <1>1, <2>1 DEF HandInv
  <2>9. WriteInv'
    <3>1. CASE kept = "db" /\ ~overtaken
      <4> DEFINE q2 == Append(queue, w)
      <4>1. /\ QueueAgrees(queue, sessions, objs, now, gcStep)
            /\ RowsAgree(queue, sessionRows, sessions, objs, now, gcStep)
        BY <1>1, <3>1 DEF WriteInv
      <4>2. /\ Len(queue) \in Nat /\ Len(q2) = Len(queue) + 1 /\ q2[Len(queue) + 1] = w
            /\ \A i \in 1..Len(queue) : q2[i] = queue[i]
        BY <1>1, <2>4, Queued
      <4>3. \A i \in 1..Len(queue) + 1 : Expires(q2, i, "idle")
        BY <1>1, <2>4, Queued
      <4>4. \A id : NoneAbout(q2, objs, id) => NoneAbout(queue, objs, id)
        BY <1>1, <2>4, Queued
      <4>5. \A id : \A i \in 1..Len(q2) : LastAbout(q2, objs, i, id) =>
              i \in 1..Len(queue) /\ LastAbout(queue, objs, i, id) /\ i + 1 \in 1..Len(queue) + 1
        <5> SUFFICES ASSUME NEW id, NEW i \in 1..Len(queue) + 1, LastAbout(q2, objs, i, id)
                     PROVE  /\ i \in 1..Len(queue) /\ LastAbout(queue, objs, i, id)
                            /\ i + 1 \in 1..Len(queue) + 1
          BY <4>2
        <5>1. i \in 1..Len(queue) /\ LastAbout(queue, objs, i, id)
          BY <1>1, <2>4, Queued
        <5> QED
          BY <4>2, <5>1
      <4> HIDE DEF q2
      <4>6. QueueAgrees(q2, sessions, objs, now, "idle")
        <5> SUFFICES ASSUME NEW id \in SessionIds, NEW i \in 1..Len(q2),
                            LastAbout(q2, objs, i, id)
            PROVE  /\ q2[i].op = "upsert" =>
                        /\ objs[q2[i].obj].state = "active" =>
                             id \in DOMAIN sessions
                               \/ (objs[q2[i].obj].ends < now /\ Expires(q2, i + 1, "idle"))
                        /\ id \in DOMAIN sessions => sessions[id] = q2[i].obj
                   /\ q2[i].op = "delete" => id \notin DOMAIN sessions
          BY DEF QueueAgrees
        <5>1. /\ i \in 1..Len(queue) /\ LastAbout(queue, objs, i, id) /\ q2[i] = queue[i]
              /\ Expires(q2, i + 1, "idle")
          BY <4>2, <4>3, <4>5
        <5> QED
          BY <4>1, <5>1 DEF QueueAgrees
      <4>7. RowsAgree(q2, sessionRows, sessions, objs, now, "idle")
        <5>1. Expires(q2, 1, "idle")
          <6>1. 1 \in 1..Len(queue) + 1
            BY <4>2
          <6> QED
            BY <4>3, <6>1
        <5> QED
          BY <4>1, <4>4, <5>1 DEF RowsAgree
      <4> QED
        BY <2>1, <2>3, <3>1, <4>6, <4>7 DEF WriteInv, q2
    <3> QED
      BY <2>1, <3>1 DEF WriteInv
  <2> QED
    BY <2>7, <2>8, <2>9 DEF SessionInv
<1> QED
  BY <1>3, <1>4

\* Time passes.
LEMMA TickStep ==
  ASSUME SessionInv, Sessions!Tick
  PROVE  SessionInv'
<1>1. /\ UNCHANGED <<kept, sessions, objs, req, gcStep, queue, sessionRows, saved, overtaken,
                     stale>>
      /\ now' = now + 1
  BY DEF Sessions!Tick, Sessions!Disk
<1>2. /\ SessionTypeOK /\ HandInv /\ WriteInv /\ StoreOK(sessions, objs, now)
      /\ RecordsOK(sessionRows, now) /\ RecordsOK(saved, now) /\ ReqOK(req, now)
  BY DEF SessionInv, SessionTypeOK
<1>3. /\ now \in Nat /\ Ttl \in Nat /\ Len(objs) \in Nat
      /\ \A i \in 1..Len(objs) : objs[i] \in Objects /\ objs[i].ends \in Nat
      /\ \A i \in DOMAIN sessions : sessions[i] \in 1..Len(objs)
  BY <1>2, StoreTypes
<1>4. \A o \in Objects : Timely(o, now) => Timely(o, now')
  BY <1>1, <1>3 DEF Timely, Objects
<1>5. StoreOK(sessions, objs, now') /\ RecordsOK(sessionRows, now') /\ RecordsOK(saved, now')
  <2>1. now' \in Nat
    BY <1>1, <1>3
  <2> QED
    BY <1>2, <1>3, <1>4, <2>1 DEF StoreOK, RecordsOK
<1>6. ReqOK(req, now')
  BY <1>1, <1>2, <1>3 DEF ReqOK, Held
<1>7. SessionTypeOK'
  BY <1>1, <1>2, <1>5, <1>6 DEF SessionTypeOK
<1>8. HandInv'
  <2>1. \A r \in Requests : now' <= req[r].since + Ttl => now <= req[r].since + Ttl
    BY <1>1, <1>2, <1>3 DEF ReqOK, Held
  <2> QED
    BY <1>1, <1>2, <2>1 DEF HandInv, HandOK
<1>9. \A x \in Nat : (x < now => x < now') /\ (now' <= x => now <= x)
  BY <1>1, <1>3
<1>10. WriteInv'
  <2>1. CASE kept = "db" /\ ~overtaken
    <3>1. /\ QueueAgrees(queue, sessions, objs, now, gcStep)
          /\ RowsAgree(queue, sessionRows, sessions, objs, now, gcStep)
      BY <1>2, <2>1 DEF WriteInv
    <3>2. \A r \in sessionRows : r.ends \in Nat
      BY <1>2 DEF RecordsOK, Objects
    <3>3. \A i \in 1..Len(queue) : queue[i].op = "upsert" => objs[queue[i].obj].ends \in Nat
      BY <1>2, <1>3 DEF SessionTypeOK, QueueOK
    <3>4. QueueAgrees(queue, sessions, objs, now', gcStep)
      BY <1>9, <3>1, <3>3 DEF QueueAgrees
    <3>5. \A id \in DOMAIN sessions : objs[sessions[id]].ends \in Nat
      BY <1>3
    <3>6. RowsAgree(queue, sessionRows, sessions, objs, now', gcStep)
      BY <1>9, <3>1, <3>2, <3>5 DEF RowsAgree
    <3> QED
      BY <1>1, <3>4, <3>6 DEF WriteInv
  <2> QED
    BY <1>1, <2>1 DEF WriteInv
<1> QED
  BY <1>7, <1>8, <1>10 DEF SessionInv

\* What is left of the writes once the oldest has been carried out.
LEMMA TailAbout ==
  ASSUME NEW q, NEW os, QueueOK(q, os), Len(q) > 0, NEW id, NEW gc
  PROVE  /\ Len(q) \in Nat /\ Len(Tail(q)) = Len(q) - 1
         /\ \A j \in 1..Len(q) - 1 : Tail(q)[j] = q[j + 1] /\ j + 1 \in 1..Len(q)
         /\ \A j \in 1..Len(q) - 1 : LastAbout(Tail(q), os, j, id) => LastAbout(q, os, j + 1, id)
         /\ NoneAbout(Tail(q), os, id) =>
              IF About(q[1], os, id) THEN LastAbout(q, os, 1, id) ELSE NoneAbout(q, os, id)
         /\ \A j \in 1..Len(q) : Expires(q, j + 1, gc) => Expires(Tail(q), j, gc)
<1> DEFINE p == Tail(q)
           n == Len(q)
<1>1. /\ n \in Nat /\ n > 0 /\ Len(p) = n - 1 /\ \A j \in 1..n - 1 : p[j] = q[j + 1]
  BY DEF QueueOK
<1> HIDE DEF p, n
<1>2. \A j \in 2..n : j - 1 \in 1..n - 1 /\ q[j] = p[j - 1]
  BY <1>1
<1>3. ASSUME NEW j \in 1..n - 1, LastAbout(p, os, j, id) PROVE LastAbout(q, os, j + 1, id)
  <2>1. About(p[j], os, id) /\ \A k \in j + 1..n - 1 : ~About(p[k], os, id)
    BY <1>1, <1>3 DEF LastAbout
  <2>2. About(q[j + 1], os, id)
    BY <1>1, <2>1
  <2>3. ASSUME NEW k \in (j + 1) + 1..n PROVE ~About(q[k], os, id)
    <3>1. k \in 2..n /\ k - 1 \in j + 1..n - 1
      BY <1>1
    <3> QED
      BY <1>2, <2>1, <3>1
  <2> QED
    BY <2>2, <2>3 DEF LastAbout, n
<1>4. ASSUME NoneAbout(p, os, id)
      PROVE  IF About(q[1], os, id) THEN LastAbout(q, os, 1, id) ELSE NoneAbout(q, os, id)
  <2>1. \A k \in 1..n - 1 : ~About(p[k], os, id)
    BY <1>1, <1>4 DEF NoneAbout
  <2>2. \A k \in 2..n : ~About(q[k], os, id)
    BY <1>2, <2>1
  <2>3. 1 + 1 = 2 /\ \A k \in 1..n : k = 1 \/ k \in 2..n
    BY <1>1
  <2> QED
    BY <2>2, <2>3 DEF LastAbout, NoneAbout, n
<1>5. ASSUME NEW j \in 1..n, Expires(q, j + 1, gc) PROVE Expires(p, j, gc)
  <2>1. gc = "swept" \/ \E k \in j + 1..n : q[k].op = "expire"
    BY <1>5 DEF Expires, n
  <2>2. \A k \in j + 1..n : k - 1 \in j..n - 1 /\ q[k] = p[k - 1]
    BY <1>1, <1>2
  <2> QED
    BY <1>1, <2>1, <2>2 DEF Expires
<1>6. \A j \in 1..n - 1 : j + 1 \in 1..n
  BY <1>1
<1> QED
  BY <1>1, <1>3, <1>4, <1>5, <1>6 DEF p, n

\* The oldest write is carried out.
LEMMA OldestWritten ==
  ASSUME NEW ss, NEW os, NEW t, NEW q, NEW rs, NEW rs2, NEW gc,
         StoreOK(ss, os, t), QueueOK(q, os), QueueAgrees(q, ss, os, t, gc),
         RowsAgree(q, rs, ss, os, t, gc), Len(q) > 0, rs \subseteq Objects,
         rs2 = IF q[1].op = "upsert"
               THEN {r \in rs : r.id # os[q[1].obj].id} \cup {os[q[1].obj]}
               ELSE IF q[1].op = "delete" THEN {r \in rs : r.id # q[1].id}
                                          ELSE {r \in rs : r.ends >= t}
  PROVE  QueueAgrees(Tail(q), ss, os, t, gc) /\ RowsAgree(Tail(q), rs2, ss, os, t, gc)
<1> DEFINE q2 == Tail(q)
<1>1. /\ Len(q) \in Nat /\ Len(q2) = Len(q) - 1 /\ 1 \in 1..Len(q)
      /\ \A j \in 1..Len(q) - 1 : q2[j] = q[j + 1] /\ j + 1 \in 1..Len(q)
      /\ \A j \in 1..Len(q) : Expires(q, j + 1, gc) => Expires(q2, j, gc)
  BY TailAbout
<1>2. /\ t \in Nat /\ Len(os) \in Nat /\ \A i \in 1..Len(os) : os[i].ends \in Nat
      /\ \A id \in DOMAIN ss : ss[id] \in 1..Len(os)
  BY StoreTypes
<1>3. \A id : \A j \in 1..Len(q) - 1 : LastAbout(q2, os, j, id) => LastAbout(q, os, j + 1, id)
  BY TailAbout
<1>4. \A id : NoneAbout(q2, os, id) =>
        IF About(q[1], os, id) THEN LastAbout(q, os, 1, id) ELSE NoneAbout(q, os, id)
  BY TailAbout
<1>5. /\ q[1].op = "upsert" => q[1].obj \in 1..Len(os)
      /\ q[1].op \in {"upsert", "delete", "expire"}
  <2>1. q[1] \in SessionWrites
    BY <1>1 DEF QueueOK
  <2> QED
    BY <1>1, <2>1 DEF QueueOK, SessionWrites
<1> HIDE DEF q2
<1>6. QueueAgrees(q2, ss, os, t, gc)
  <2> SUFFICES ASSUME NEW id \in SessionIds, NEW j \in 1..Len(q2), LastAbout(q2, os, j, id)
      PROVE  /\ q2[j].op = "upsert" =>
                  /\ os[q2[j].obj].state = "active" =>
                       id \in DOMAIN ss \/ (os[q2[j].obj].ends < t /\ Expires(q2, j + 1, gc))
                  /\ id \in DOMAIN ss => ss[id] = q2[j].obj
             /\ q2[j].op = "delete" => id \notin DOMAIN ss
    BY DEF QueueAgrees
  <2>1. j \in 1..Len(q) - 1
    BY <1>1
  <2>2. /\ LastAbout(q, os, j + 1, id) /\ q2[j] = q[j + 1] /\ j + 1 \in 1..Len(q)
    BY <1>1, <1>3, <2>1
  <2>3. Expires(q, (j + 1) + 1, gc) => Expires(q2, j + 1, gc)
    BY <1>1, <2>2
  <2> QED
    BY <2>2, <2>3 DEF QueueAgrees
<1>7. RowsAgree(q2, rs2, ss, os, t, gc)
  <2> SUFFICES ASSUME NEW id \in SessionIds, NoneAbout(q2, os, id)
      PROVE  /\ \A r \in rs2 : r.id = id =>
                  /\ r.state = "active" => id \in DOMAIN ss \/ (r.ends < t /\ Expires(q2, 1, gc))
                  /\ id \in DOMAIN ss => r.ends <= os[ss[id]].ends
             /\ id \in DOMAIN ss /\ t <= os[ss[id]].ends
                  /\ os[ss[id]].ends <= os[ss[id]].born + Ttl
                  => \E r \in rs2 : r.id = id /\ r.ends >= os[ss[id]].ends
    BY DEF RowsAgree
  <2>1. Expires(q, 2, gc) => Expires(q2, 1, gc)
    <3>1. 1 + 1 = 2
      OBVIOUS
    <3> QED
      BY <1>1, <3>1
  <2>2. CASE About(q[1], os, id)
    <3>1. LastAbout(q, os, 1, id)
      BY <1>4, <2>2
    <3>2. /\ q[1].op = "upsert" =>
               /\ os[q[1].obj].state = "active" =>
                    id \in DOMAIN ss \/ (os[q[1].obj].ends < t /\ Expires(q, 1 + 1, gc))
               /\ id \in DOMAIN ss => ss[id] = q[1].obj
          /\ q[1].op = "delete" => id \notin DOMAIN ss
      BY <1>1, <3>1 DEF QueueAgrees
    <3>3. CASE q[1].op = "upsert"
      <4>1. os[q[1].obj].id = id
        BY <2>2, <3>3 DEF About
      <4>2. /\ \A r \in rs2 : r.id = id => r = os[q[1].obj]
            /\ os[q[1].obj] \in rs2
        BY <3>3, <4>1
      <4>3. os[q[1].obj].state = "active" =>
              id \in DOMAIN ss \/ (os[q[1].obj].ends < t /\ Expires(q2, 1, gc))
        BY <2>1, <3>2, <3>3
      <4>4. id \in DOMAIN ss => os[q[1].obj] = os[ss[id]]
        BY <3>2, <3>3
      <4>5. os[q[1].obj].ends <= os[q[1].obj].ends /\ os[q[1].obj].ends >= os[q[1].obj].ends
        BY <1>2, <1>5, <3>3
      <4> QED
        BY <4>1, <4>2, <4>3, <4>4, <4>5
    <3>4. CASE q[1].op # "upsert"
      <4>1. q[1].op = "delete" /\ q[1].id = id
        BY <2>2, <3>4 DEF About
      <4>2. \A r \in rs2 : r.id # id
        BY <4>1
      <4> QED
        BY <3>2, <4>1, <4>2
    <3> QED
      BY <3>3, <3>4
  <2>3. CASE ~About(q[1], os, id)
    <3>1. NoneAbout(q, os, id)
      BY <1>4, <2>3
    <3>2. /\ \A r \in rs : r.id = id =>
               /\ r.state = "active" => id \in DOMAIN ss \/ (r.ends < t /\ Expires(q, 1, gc))
               /\ id \in DOMAIN ss => r.ends <= os[ss[id]].ends
          /\ id \in DOMAIN ss /\ t <= os[ss[id]].ends
               /\ os[ss[id]].ends <= os[ss[id]].born + Ttl
               => \E r \in rs : r.id = id /\ r.ends >= os[ss[id]].ends
      BY <3>1 DEF RowsAgree
    <3>3. CASE q[1].op = "expire"
      <4>1. rs2 = {r \in rs : r.ends >= t} /\ \A r \in rs : r.ends \in Nat
        BY <3>3 DEF Objects
      <4>2. \A r \in rs2 : r \in rs /\ ~(r.ends < t)
        BY <1>2, <4>1
      <4>3. ASSUME id \in DOMAIN ss, t <= os[ss[id]].ends, NEW r \in rs,
                   r.ends >= os[ss[id]].ends
            PROVE  r \in rs2
        <5>1. os[ss[id]].ends \in Nat /\ r.ends \in Nat
          BY <1>2, <4>1, <4>3
        <5>2. r.ends >= t
          BY <1>2, <4>3, <5>1
        <5> QED
          BY <4>1, <5>2
      <4> QED
        BY <3>2, <4>2, <4>3
    <3>4. CASE q[1].op # "expire"
      <4>1. \A r : r.id = id => (r \in rs2 <=> r \in rs)
        BY <1>5, <2>3, <3>4 DEF About
      <4>2. Expires(q, 1, gc) => Expires(q2, 1, gc)
        <5>1. \A k \in 1..Len(q) : k = 1 \/ k \in 2..Len(q)
          BY <1>1
        <5>2. Expires(q, 1, gc) => Expires(q, 2, gc)
          BY <3>4, <5>1 DEF Expires
        <5> QED
          BY <2>1, <5>2
      <4> QED
        BY <3>2, <4>1, <4>2
    <3> QED
      BY <3>3, <3>4
  <2> QED
    BY <2>2, <2>3
<1> QED
  BY <1>6, <1>7 DEF q2

LEMMA RemovesWrite ==
  ASSUME NEW S, NEW q \in Seq(S), NEW i \in 1..Len(q)
  PROVE  /\ Sessions!RemoveAt(q, i) \in Seq(S)
         /\ i = 1 => Sessions!RemoveAt(q, i) = Tail(q)
<1>1. Sessions!RemoveAt(q, i) = Copies!RemoveAt(q, i)
  BY DEF Sessions!RemoveAt, Copies!RemoveAt
<1> QED
  BY <1>1, RemovesFirst

LEMMA RemovedQueue ==
  ASSUME NEW q, NEW os, QueueOK(q, os), NEW i \in 1..Len(q)
  PROVE  QueueOK(Sessions!RemoveAt(q, i), os)
<1> DEFINE Fine == {w \in SessionWrites : w.op = "upsert" => w.obj \in 1..Len(os)}
<1>1. q \in Seq(Fine)
  BY DEF QueueOK
<1>2. Sessions!RemoveAt(q, i) \in Seq(Fine)
  BY <1>1, RemovesWrite
<1> DEFINE p == Sessions!RemoveAt(q, i)
<1>3. p \in Seq(SessionWrites) /\ \A j \in 1..Len(p) : p[j] \in Fine
  <2> HIDE DEF p
  <2>1. p \in Seq(Fine) /\ Fine \subseteq SessionWrites
    BY <1>2 DEF p
  <2> HIDE DEF Fine
  <2> QED
    BY <2>1
<1> QED
  BY <1>3 DEF QueueOK

\* A goroutine writes, or fails to.
LEMMA WriteStep ==
  ASSUME SessionInv, NEW i \in 1..Len(queue), Sessions!WriteSession(i)
  PROVE  SessionInv'
<1>1. /\ UNCHANGED <<kept, now, sessions, objs, req, gcStep, saved, stale>>
      /\ queue' = Sessions!RemoveAt(queue, i)
      /\ \/ sessionRows' = Sessions!Effect(queue[i]) /\ overtaken' = (overtaken \/ i > 1)
         \/ overtaken' = TRUE /\ sessionRows' = sessionRows
  BY DEF Sessions!WriteSession
<1>2. /\ SessionTypeOK /\ HandInv /\ WriteInv /\ StoreOK(sessions, objs, now)
      /\ QueueOK(queue, objs) /\ RecordsOK(sessionRows, now) /\ overtaken \in BOOLEAN
  BY DEF SessionInv, SessionTypeOK
<1>3. /\ now \in Nat /\ Len(objs) \in Nat
      /\ \A j \in 1..Len(objs) : Timely(objs[j], now) /\ objs[j] \in Objects
  BY <1>2, StoreTypes DEF StoreOK
<1>4. PICK w : w = queue[i]
  OBVIOUS
<1>5. /\ w \in SessionWrites /\ w.op \in {"upsert", "delete", "expire"}
      /\ w.op = "upsert" => w.obj \in 1..Len(objs)
  <2>1. w \in SessionWrites /\ (w.op = "upsert" => w.obj \in 1..Len(objs))
    BY <1>2, <1>4 DEF QueueOK
  <2> QED
    BY <2>1 DEF SessionWrites
<1>6. PICK R : R = IF w.op = "upsert"
                   THEN {r \in sessionRows : r.id # objs[w.obj].id} \cup {objs[w.obj]}
                   ELSE IF w.op = "delete" THEN {r \in sessionRows : r.id # w.id}
                                           ELSE {r \in sessionRows : r.ends >= now}
  OBVIOUS
<1>7. Sessions!Effect(w) = R
  <2>1. CASE w.op = "upsert"
    BY <1>6, <2>1 DEF Sessions!Effect
  <2>2. CASE w.op = "delete"
    BY <1>6, <2>2 DEF Sessions!Effect
  <2>3. CASE w.op = "expire"
    BY <1>6, <2>3 DEF Sessions!Effect
  <2> QED
    BY <1>5, <2>1, <2>2, <2>3
<1>8. RecordsOK(R, now)
  <2>1. /\ sessionRows \subseteq Objects /\ IsFiniteSet(sessionRows)
        /\ \A o \in sessionRows : Timely(o, now)
        /\ \A o, p \in sessionRows : o.id = p.id => o = p
    BY <1>2 DEF RecordsOK
  <2>2. CASE w.op = "upsert"
    <3>1. PICK S : S = {r \in sessionRows : r.id # objs[w.obj].id}
      OBVIOUS
    <3>2. IsFiniteSet(S \cup {objs[w.obj]})
      BY <2>1, <3>1, FS_Subset, FS_AddElement
    <3>3. R = S \cup {objs[w.obj]} /\ objs[w.obj] \in Objects /\ Timely(objs[w.obj], now)
      BY <1>3, <1>5, <1>6, <2>2, <3>1
    <3>4. \A o, p \in R : o.id = p.id => o = p
      BY <2>1, <3>1, <3>3
    <3> QED
      BY <2>1, <3>1, <3>2, <3>3, <3>4 DEF RecordsOK
  <2>3. CASE w.op # "upsert"
    <3>1. R \subseteq sessionRows
      BY <1>6, <2>3
    <3>2. IsFiniteSet(R)
      BY <2>1, <3>1, FS_Subset
    <3> QED
      BY <2>1, <3>1, <3>2 DEF RecordsOK
  <2> QED
    BY <2>2, <2>3
<1>9. RecordsOK(sessionRows', now)
  BY <1>1, <1>2, <1>4, <1>7, <1>8
<1>10. QueueOK(queue', objs)
  BY <1>1, <1>2, RemovedQueue
<1>11. overtaken' \in BOOLEAN
  BY <1>1
<1>12. SessionTypeOK'
  BY <1>1, <1>2, <1>9, <1>10, <1>11 DEF SessionTypeOK
<1>13. HandInv'
  BY <1>1, <1>2 DEF HandInv
<1>14. WriteInv'
  <2> SUFFICES ASSUME kept = "db", ~overtaken'
               PROVE  /\ QueueAgrees(queue', sessions, objs, now, gcStep)
                      /\ RowsAgree(queue', sessionRows', sessions, objs, now, gcStep)
    BY <1>1 DEF WriteInv
  <2>1. ~overtaken /\ ~(i > 1) /\ sessionRows' = R
    BY <1>1, <1>4, <1>7
  <2>2. Len(queue) \in Nat
    BY <1>2 DEF QueueOK
  <2>3. i = 1 /\ Len(queue) > 0
    BY <2>1, <2>2
  <2>4. queue' = Tail(queue)
    BY <1>1, <1>2, <2>3, RemovesWrite DEF QueueOK
  <2>5. /\ QueueAgrees(queue, sessions, objs, now, gcStep)
        /\ RowsAgree(queue, sessionRows, sessions, objs, now, gcStep)
    BY <1>2, <2>1 DEF WriteInv
  <2>6. sessionRows \subseteq Objects
    BY <1>2 DEF RecordsOK
  <2>7. w = queue[1]
    BY <1>4, <2>3
  <2>8. /\ QueueAgrees(Tail(queue), sessions, objs, now, gcStep)
        /\ RowsAgree(Tail(queue), R, sessions, objs, now, gcStep)
    BY ONLY <1>2, <1>6, <2>3, <2>5, <2>6, <2>7, OldestWritten
  <2> QED
    BY <2>1, <2>4, <2>8
<1> QED
  BY <1>12, <1>13, <1>14 DEF SessionInv

\* The records loaded by a restart, in some order, each found by its id.
LEMMA LoadedFound ==
  ASSUME NEW S, IsFiniteSet(S), \A o, p \in S : o.id = p.id => o = p, NEW o \in S
  PROVE  LET all == Sessions!SetToSeq(S)
             i   == Sessions!SelectInSeq(all, LAMBDA p : p.id = o.id)
         IN i \in 1..Len(all) /\ all[i] = o
<1>1. PICK all : all = Sessions!SetToSeq(S)
  OBVIOUS
<1>2. Sessions!SetToSeq(S) = Copies!SetToSeq(S)
  BY DEF Sessions!SetToSeq, Copies!SetToSeq, Sessions!Cardinality, Copies!Cardinality,
         Sessions!IsInjective, Copies!IsInjective
<1>3. /\ all \in Seq(S) /\ Len(all) = Cardinality(S)
      /\ \A x \in S : \E i \in 1..Cardinality(S) : all[i] = x
      /\ \A i, j \in 1..Cardinality(S) : all[i] = all[j] => i = j
  BY <1>1, <1>2, SequenceOf
<1>4. PICK k \in 1..Len(all) : all[k] = o
  BY <1>3
<1>5. \A i \in 1..Len(all) : all[i] \in S
  BY <1>3
<1>6. PICK I : I = {i \in 1..Len(all) : all[i].id = o.id}
  OBVIOUS
<1>7. I = {k}
  BY <1>3, <1>4, <1>5, <1>6
<1>8. k <= k /\ k \in Nat
  <2>1. Len(all) \in Nat
    BY <1>3
  <2> QED
    BY <1>4, <2>1
<1>9. Sessions!Min(I) = k
  BY <1>7, <1>8 DEF Sessions!Min
<1>10. Sessions!SelectInSeq(all, LAMBDA p : p.id = o.id) = k
  BY <1>6, <1>7, <1>9 DEF Sessions!SelectInSeq
<1> QED
  BY <1>1, <1>4, <1>10

LEMMA Concatenated ==
  ASSUME NEW S, NEW s \in Seq(S), NEW u \in Seq(S)
  PROVE  /\ s \o u \in Seq(S) /\ Len(s \o u) = Len(s) + Len(u)
         /\ \A i \in 1..Len(s) : (s \o u)[i] = s[i]
         /\ \A i \in 1..Len(u) : /\ Len(s) + i \in 1..Len(s \o u)
                                 /\ (s \o u)[Len(s) + i] = u[i]
OBVIOUS

\* The process ends and begins again, on a file with what it had.
LEMMA SessionRestartStep ==
  ASSUME SessionInv, Sessions!Crash \/ Sessions!Close
  PROVE  SessionInv' /\ (kept = "file" => Sessions!Snapshot' = saved')
<1>1. /\ SessionTypeOK /\ HandInv /\ WriteInv /\ StoreOK(sessions, objs, now)
      /\ RecordsOK(sessionRows, now) /\ RecordsOK(saved, now) /\ ReqOK(req, now)
      /\ kept \in {"db", "file"}
  BY DEF SessionInv, SessionTypeOK
<1>2. /\ now \in Nat /\ objs \in Seq(Objects) /\ Len(objs) \in Nat
      /\ \A i \in 1..Len(objs) : Timely(objs[i], now)
  BY <1>1, StoreTypes DEF StoreOK
<1>3. \E S \in {saved, {}, Sessions!Snapshot} : Sessions!RestartWith(S)
  BY DEF Sessions!Crash, Sessions!Close
<1>4. /\ UNCHANGED <<kept, now, sessionRows, stale>>
      /\ queue' = <<>> /\ gcStep' = "idle" /\ overtaken' = FALSE
      /\ req' = [r \in Requests |-> IF req[r].step = "idle" THEN req[r]
                                                             ELSE [req[r] EXCEPT !.step = "done"]]
  BY <1>3 DEF Sessions!RestartWith
<1>5. RecordsOK(saved', now)
  <2>1. RecordsOK({}, now)
    BY FS_EmptySet DEF RecordsOK
  <2>2. saved' \in {saved, {}, Sessions!Snapshot}
    BY <1>3 DEF Sessions!RestartWith
  <2> QED
    BY <1>1, <2>1, <2>2, SnapshotOK
<1>6. PICK L, all : L = Sessions!Loaded /\ all = Sessions!SetToSeq(L)
  OBVIOUS
<1>7. /\ objs' = objs \o all
      /\ sessions' = [id \in {o.id : o \in L} |->
                        Len(objs) + Sessions!SelectInSeq(all, LAMBDA o : o.id = id)]
  BY <1>3, <1>6 DEF Sessions!RestartWith
<1>8. /\ kept = "db"   => L = {o \in sessionRows : o.state = "active"}
      /\ kept = "file" => L = saved'
  BY <1>6 DEF Sessions!Loaded
<1>9. RecordsOK(L, now)
  <2>1. CASE kept = "db"
    <3>1. L \subseteq sessionRows
      BY <1>8, <2>1
    <3>2. IsFiniteSet(L)
      BY <1>1, <3>1, FS_Subset DEF RecordsOK
    <3> QED
      BY <1>1, <3>1, <3>2 DEF RecordsOK
  <2>2. CASE kept = "file"
    BY <1>5, <1>8, <2>2
  <2> QED
    BY <1>1, <2>1, <2>2
<1>10. /\ L \subseteq Objects /\ IsFiniteSet(L) /\ \A o \in L : Timely(o, now)
       /\ \A o, p \in L : o.id = p.id => o = p
  BY <1>9 DEF RecordsOK
<1>11. all \in Seq(L)
  <2>1. Sessions!SetToSeq(L) = Copies!SetToSeq(L)
    BY DEF Sessions!SetToSeq, Copies!SetToSeq, Sessions!Cardinality, Copies!Cardinality,
           Sessions!IsInjective, Copies!IsInjective
  <2> QED
    BY <1>6, <1>10, <2>1, SequenceOf
<1>12. all \in Seq(Objects) /\ Len(all) \in Nat /\ \A i \in 1..Len(all) : all[i] \in L
  BY <1>10, <1>11
<1>13. /\ objs' \in Seq(Objects) /\ Len(objs') = Len(objs) + Len(all)
       /\ \A i \in 1..Len(objs) : objs'[i] = objs[i]
       /\ \A i \in 1..Len(all) : Len(objs) + i \in 1..Len(objs') /\ objs'[Len(objs) + i] = all[i]
  BY <1>2, <1>7, <1>12, Concatenated
<1>14. DOMAIN sessions' = {o.id : o \in L}
  BY <1>7
<1>15. \A o \in L : sessions'[o.id] \in 1..Len(objs') /\ objs'[sessions'[o.id]] = o
  <2> SUFFICES ASSUME NEW o \in L
               PROVE  sessions'[o.id] \in 1..Len(objs') /\ objs'[sessions'[o.id]] = o
    OBVIOUS
  <2>1. PICK i : i = Sessions!SelectInSeq(all, LAMBDA p : p.id = o.id)
    OBVIOUS
  <2>2. i \in 1..Len(all) /\ all[i] = o
    BY <1>6, <1>10, <2>1, LoadedFound
  <2>3. sessions'[o.id] = Len(objs) + i
    BY <1>7, <2>1
  <2> QED
    BY <1>13, <2>2, <2>3
<1>16. StoreOK(sessions', objs', now)
  <2>1. IsFiniteSet(DOMAIN sessions')
    <3>1. PICK f : f = [o \in L |-> o.id]
      OBVIOUS
    <3>2. f \in Surjection(L, DOMAIN sessions')
      BY <1>14, <3>1 DEF Surjection
    <3> QED
      BY <1>10, <3>2, FS_Surjection
  <2>2. ASSUME NEW i \in 1..Len(objs') PROVE Timely(objs'[i], now)
    <3>1. CASE i \in 1..Len(objs)
      BY <1>2, <1>13, <3>1
    <3>2. CASE i \notin 1..Len(objs)
      <4>1. i - Len(objs) \in 1..Len(all) /\ Len(objs) + (i - Len(objs)) = i
        BY <1>2, <1>12, <1>13, <3>2
      <4> QED
        BY <1>10, <1>12, <1>13, <4>1
    <3> QED
      BY <3>1, <3>2
  <2>3. DOMAIN sessions' \subseteq SessionIds
    BY <1>10, <1>14 DEF Objects
  <2> QED
    BY <1>2, <1>13, <1>14, <1>15, <2>1, <2>2, <2>3 DEF StoreOK
<1>17. /\ ReqOK(req', now) /\ \A r \in Requests : req'[r].step \in {"idle", "done"}
  <2>1. \A r \in Requests : req[r] \in Held
    BY <1>1 DEF ReqOK
  <2>2. ASSUME NEW r \in Requests
        PROVE  /\ req'[r] \in Held /\ req'[r].step \in {"idle", "done"}
               /\ req'[r].since = req[r].since
    <3>1. req'[r] = IF req[r].step = "idle" THEN req[r] ELSE Step(req[r], "done")
      BY <1>4 DEF Step
    <3> QED
      BY <2>1, <3>1, HeldAt
  <2>3. req' \in [Requests -> Held]
    BY <1>4, <2>2
  <2> QED
    BY <1>1, <2>2, <2>3 DEF ReqOK, InPump
<1>18. QueueOK(queue', objs')
  <2>1. \A q : q = <<>> => q \in Seq(SessionWrites) /\ Len(q) = 0
    OBVIOUS
  <2> QED
    BY <1>4, <2>1 DEF QueueOK
<1>19. SessionTypeOK'
  BY <1>1, <1>4, <1>5, <1>16, <1>17, <1>18 DEF SessionTypeOK
<1>20. HandInv'
  BY <1>17 DEF HandInv, HandOK, InPump
<1>21. WriteInv'
  <2> SUFFICES ASSUME kept = "db"
               PROVE  /\ QueueAgrees(queue', sessions', objs', now, gcStep')
                      /\ RowsAgree(queue', sessionRows, sessions', objs', now, gcStep')
    BY <1>4 DEF WriteInv
  <2>1. Len(queue') = 0
    BY <1>4
  <2>2. QueueAgrees(queue', sessions', objs', now, gcStep')
    BY <2>1 DEF QueueAgrees
  <2>3. \A o \in sessionRows : o.state = "active" => o.id \in DOMAIN sessions'
    BY <1>8, <1>14
  <2>4. \A o \in sessionRows : o.id \in DOMAIN sessions' => objs'[sessions'[o.id]] = o
    <3> SUFFICES ASSUME NEW o \in sessionRows, o.id \in DOMAIN sessions'
                 PROVE  objs'[sessions'[o.id]] = o
      OBVIOUS
    <3>1. PICK p \in L : p.id = o.id
      BY <1>14
    <3>2. p = o
      BY <1>1, <1>8, <3>1 DEF RecordsOK
    <3> QED
      BY <1>15, <3>1, <3>2
  <2>5. \A id \in DOMAIN sessions' :
          \E r \in sessionRows : r.id = id /\ r = objs'[sessions'[id]]
    BY <1>8, <1>14, <1>15
  <2>6. \A o \in sessionRows : o.ends <= o.ends /\ o.ends >= o.ends
    BY <1>1 DEF RecordsOK, Objects
  <2>7. RowsAgree(queue', sessionRows, sessions', objs', now, gcStep')
    BY <2>3, <2>4, <2>5, <2>6 DEF RowsAgree
  <2> QED
    BY <2>2, <2>7
<1>22. ASSUME kept = "file" PROVE Sessions!Snapshot' = saved'
  <2>1. \A x : x \in L <=> \E i \in DOMAIN sessions' : x = objs'[sessions'[i]]
    BY <1>14, <1>15
  <2>2. Sessions!Snapshot' = L
    BY <2>1 DEF Sessions!Snapshot
  <2> QED
    BY <1>8, <1>22, <2>2
<1> QED
  BY <1>19, <1>20, <1>21, <1>22 DEF SessionInv

LEMMA SessionStep ==
  ASSUME SessionInv, [Sessions!SessionNext]_(Sessions!sessionVars)
  PROVE  SessionInv'
<1>1. CASE Sessions!SessionNext
  <2>1. ASSUME NEW r \in Requests,
               \/ \E id \in SessionIds : Sessions!Arrive(r, id)
               \/ Sessions!Touch(r) \/ Sessions!Register(r) \/ Sessions!Answer(r)
        PROVE  SessionInv'
    BY <2>1, RequestStep, TouchStep, RegisterStep
  <2> QED
    BY <1>1, <2>1, EndStep, CollectStep, TickStep, WriteStep, SessionRestartStep
       DEF Sessions!SessionNext
<1>2. CASE UNCHANGED Sessions!sessionVars
  BY <1>2 DEF Sessions!sessionVars, SessionInv, SessionTypeOK, HandInv, WriteInv
<1> QED
  BY <1>1, <1>2

\* A request keeps the session it was given for a whole Ttl from its arrival, unless
\* the cloud ends it, whatever other requests, the collector and restarts do: but for
\* the two it may not have had when it arrived.
THEOREM InUseStaysHolds == Sessions!SessionSpec => []InUseStays
<1>1. SessionInv => InUseStays
  <2> SUFFICES ASSUME SessionInv, NEW r \in Requests, req[r].step = "using", r \notin stale,
                      now <= req[r].since + Ttl
      PROVE  \/ /\ req[r].id \in DOMAIN sessions /\ sessions[req[r].id] = req[r].obj
                /\ ~(now > objs[req[r].obj].ends)
             \/ objs[req[r].obj].state = "completed"
    BY DEF InUseStays, Sessions!InUseStays, Sessions!Registered, Sessions!Expired
  <2>1. /\ req[r].obj \in 1..Len(objs) /\ objs[req[r].obj].ends >= req[r].since + Ttl
        /\ \/ req[r].id \in DOMAIN sessions /\ sessions[req[r].id] = req[r].obj
           \/ objs[req[r].obj].state = "completed"
    BY DEF SessionInv, HandInv, HandOK
  <2>2. StoreOK(sessions, objs, now) /\ req[r] \in Held
    BY DEF SessionInv, SessionTypeOK, ReqOK
  <2>3. now \in Nat /\ Ttl \in Nat /\ req[r].since \in Nat /\ objs[req[r].obj].ends \in Nat
    <3>1. req[r].since \in Nat
      BY <2>2 DEF Held
    <3> QED
      BY <2>1, <2>2, <3>1, StoreTypes
  <2>4. \A x, y, z \in Nat : x >= y + Ttl /\ z <= y + Ttl => ~(z > x)
    BY <2>3
  <2>5. ~(now > objs[req[r].obj].ends)
    BY <2>1, <2>3, <2>4
  <2> QED
    BY <2>1, <2>5
<1> QED
  BY <1>1, SessionInitInv, SessionStep, PTL DEF Sessions!SessionSpec

\* Once the writes of SQLite have been carried out, in their order, a restart brings back
\* the sessions there are, but for those that were extended.
THEOREM RowsFollowHolds == Sessions!SessionSpec => []RowsFollow
<1>1. SessionInv => RowsFollow
  <2> SUFFICES ASSUME SessionInv, kept = "db", queue = <<>>, ~overtaken, gcStep = "idle"
      PROVE  /\ \A o \in sessionRows : o.state = "active" => o.id \in DOMAIN sessions
             /\ \A id \in DOMAIN sessions :
                  \/ \E o \in sessionRows : o.id = id
                  \/ now > objs[sessions[id]].ends
                  \/ objs[sessions[id]].ends > objs[sessions[id]].born + Ttl
    BY DEF RowsFollow, Sessions!RowsFollow, Sessions!Registered, Sessions!Expired
  <2>1. /\ RowsAgree(queue, sessionRows, sessions, objs, now, gcStep)
        /\ StoreOK(sessions, objs, now) /\ sessionRows \subseteq Objects
    BY DEF SessionInv, WriteInv, SessionTypeOK, RecordsOK
  <2>2. Len(queue) = 0
    OBVIOUS
  <2>3. (\A id : NoneAbout(queue, objs, id)) /\ ~Expires(queue, 1, gcStep)
    BY <2>2 DEF NoneAbout, Expires
  <2>4. \A o \in sessionRows : o.id \in SessionIds
    BY <2>1 DEF Objects
  <2>5. \A o \in sessionRows : o.state = "active" => o.id \in DOMAIN sessions
    BY <2>1, <2>3, <2>4 DEF RowsAgree
  <2>6. ASSUME NEW id \in DOMAIN sessions
        PROVE  \/ \E o \in sessionRows : o.id = id
               \/ now > objs[sessions[id]].ends
               \/ objs[sessions[id]].ends > objs[sessions[id]].born + Ttl
    <3>1. /\ now \in Nat /\ Ttl \in Nat /\ id \in SessionIds /\ objs[sessions[id]].ends \in Nat
          /\ objs[sessions[id]].born \in Nat
      BY <2>1, StoreTypes
    <3>2. \A x, y \in Nat : (now > x \/ now <= x) /\ (x > y + Ttl \/ x <= y + Ttl)
      BY <3>1
    <3> QED
      BY <2>1, <2>3, <3>1, <3>2 DEF RowsAgree
  <2> QED
    BY <2>5, <2>6
<1> QED
  BY <1>1, SessionInitInv, SessionStep, PTL DEF Sessions!SessionSpec
-------------------------------------------------------------------------------
(* Both are stored as AtomicTables has it.                                     *)

\* The pairs of a map; a step of a table is as in MemoryProofs (OneRow).
Pairs(f) == {<<id, f[id]>> : id \in DOMAIN f}

LEMMA ChangedPairs ==
  ASSUME NEW f, NEW m \in Changes
  PROVE  OneRow(Pairs(f), Pairs(Changed(f, m)))
<1>1. PICK g : g = Changed(f, m)
  OBVIOUS
<1>2. CASE m.op = "sync"
  <2>1. g = [i \in DOMAIN f \cup {m.id} |-> IF i = m.id THEN m.item ELSE f[i]]
    BY <1>1, <1>2 DEF Changed, Copies!Put
  <2>2. DOMAIN g = DOMAIN f \cup {m.id} /\ g[m.id] = m.item
        /\ \A i \in DOMAIN f \ {m.id} : g[i] = f[i]
    BY <2>1
  <2>3. \A x \in Pairs(f) \ Pairs(g) : x = <<m.id, f[m.id]>>
    BY <2>2 DEF Pairs
  <2>4. <<m.id, g[m.id]>> \in Pairs(g) /\ Pairs(g) \ Pairs(f) \subseteq {<<m.id, g[m.id]>>}
    BY <2>2 DEF Pairs
  <2> QED
    BY <1>1, <2>3, <2>4 DEF OneRow
<1>3. CASE m.op # "sync"
  <2>1. g = [i \in DOMAIN f \ {m.id} |-> f[i]]
    BY <1>1, <1>3 DEF Changed, Copies!Cut
  <2>2. DOMAIN g = DOMAIN f \ {m.id} /\ \A i \in DOMAIN g : g[i] = f[i]
    BY <2>1
  <2>3. \A x \in Pairs(f) \ Pairs(g) : x = <<m.id, f[m.id]>>
    BY <2>2 DEF Pairs
  <2>4. Pairs(g) \subseteq Pairs(f)
    BY <2>2 DEF Pairs
  <2> QED
    BY <1>1, <2>3, <2>4 DEF OneRow
<1> QED
  BY <1>2, <1>3

LEMMA CopiesAsOne ==
  \A f : /\ Copies!OneTable(f) = [t \in {"documents"} |-> Pairs(f)]
         /\ Copies!OneTable(f)["documents"] = Pairs(f)
BY DEF Copies!OneTable, Pairs

LEMMA CopiesCalled ==
  /\ OneRow(Pairs(table), Pairs(table')) => Copies!InDb!AtomicNext
  /\ OneRow(Pairs(items), Pairs(items')) /\ table' = table => Copies!InFile!AtomicNext
<1>1. ASSUME OneRow(Pairs(table), Pairs(table')) PROVE Copies!InDb!AtomicNext
  <2>1. Copies!InDb!Call("documents")
    BY <1>1, CopiesAsOne DEF OneRow, Copies!InDb!Call, Copies!InDb!Put, Copies!InDb!Remove,
      Copies!InDb!AtMostOneGoes
  <2> QED
    BY <2>1 DEF Copies!InDb!AtomicNext
<1>2. ASSUME OneRow(Pairs(items), Pairs(items')), table' = table PROVE Copies!InFile!AtomicNext
  <2>1. Copies!InFile!Call("documents")
    BY <1>2, CopiesAsOne DEF OneRow, Copies!InFile!Call, Copies!InFile!Put,
      Copies!InFile!Remove, Copies!InFile!AtMostOneGoes
  <2> QED
    BY <2>1 DEF Copies!InFile!AtomicNext
<1> QED
  BY <1>1, <1>2

LEMMA CopiesSaved ==
  ASSUME \/ items' = items /\ table' \in {items, table}
         \/ items' = table' /\ table' \in {table, <<>>}
  PROVE  Copies!InFile!AtomicNext
<1>1. Pairs(<<>>) = {}
  BY DEF Pairs
<1>2. CASE items' = items /\ table' \in {items, table}
  <2>1. Copies!InFile!Save
    BY <1>2, CopiesAsOne DEF Copies!InFile!Save
  <2> QED
    BY <2>1 DEF Copies!InFile!AtomicNext
<1>3. CASE items' = table' /\ table' \in {table, <<>>}
  <2>1. Copies!InFile!Reopen
    BY <1>1, <1>3, CopiesAsOne DEF Copies!InFile!Reopen
  <2> QED
    BY <2>1 DEF Copies!InFile!AtomicNext
<1> QED
  BY <1>2, <1>3

LEMMA CopiesRefine ==
  ASSUME CopyInv, Copies!SyncNext
  PROVE  IF store = "db" THEN Copies!InDb!AtomicNext ELSE Copies!InFile!AtomicNext
<1> USE DEF Copies!copyVars, Copies!diskVars, Copies!cloudVars
<1>1. /\ store \in {"db", "file"} /\ inbox \in Seq(Changes) /\ writing \in Seq(Changes)
      /\ store = "file" => writing = <<>>
  BY DEF CopyInv, CopyTypeOK, TableInv
<1>2. \A S : OneRow(S, S)
  BY DEF OneRow
<1>3. CASE items' = items /\ table' = table
  BY <1>2, <1>3, CopiesCalled
<1>4. CASE Copies!HandleMessage
  <2>1. Head(inbox) \in Changes
    BY <1>1, <1>4 DEF Copies!HandleMessage
  <2>2. items' = Changed(items, Head(inbox)) /\ table' = table
    BY <1>4, <2>1, ChangesAre
       DEF Copies!HandleMessage, Copies!HandleSync, Copies!HandleDelete, Changed
  <2> QED
    BY <1>2, <2>1, <2>2, ChangedPairs, CopiesCalled
<1>5. CASE Copies!SaveIfDirty
  <2>1. store = "file" /\ items' = items /\ table' \in {items, table}
    BY <1>5 DEF Copies!SaveIfDirty
  <2> QED
    BY <2>1, CopiesSaved
<1>6. CASE Copies!Restart
  <2>1. items' = table' /\ table' \in {table, <<>>} /\ (store = "db" => table' = table)
    BY <1>6 DEF Copies!Restart
  <2> QED
    BY <1>1, <1>2, <2>1, CopiesSaved, CopiesCalled
<1>7. ASSUME NEW i \in 1..Len(writing), Copies!WriteItem(i)
      PROVE  store = "db" /\ Copies!InDb!AtomicNext
  <2>1. store = "db" /\ writing[i] \in Changes
    BY <1>1
  <2>2. table' = Changed(table, writing[i]) \/ table' = table
    BY <1>7 DEF Copies!WriteItem, Copies!Effect, Changed
  <2> QED
    BY <1>2, <2>1, <2>2, ChangedPairs, CopiesCalled
<1>8. ASSUME \/ \E id \in Ids : Copies!RemoveInCloud(id) \/ \E v \in Items : Copies!Edit(id, v)
             \/ Copies!Connect \/ Copies!Disconnect
             \/ \E g \in embedding : Copies!Look(g) \/ Copies!Embed(g)
      PROVE  items' = items /\ table' = table
  BY <1>8 DEF Copies!RemoveInCloud, Copies!Edit, Copies!Connect, Copies!Disconnect,
    Copies!Look, Copies!Embed
<1> QED
  BY <1>3, <1>4, <1>5, <1>6, <1>7, <1>8 DEF Copies!SyncNext

\* The copies are stored as internal/db promises of a table: in SQLite one row by each
\* write, whatever overtakes it; with a file, one in memory by each message, and in the
\* file what the copy was when it was saved, or nothing if the save was cut short.
THEOREM CopiesStoredHolds == Copies!SyncSpec => Copies!CopiesStored
<1>1. CopyInv /\ [Copies!SyncNext]_(Copies!syncVars)
        => /\ CopyInv'
           /\ [IF store = "db" THEN Copies!InDb!AtomicNext
                              ELSE Copies!InFile!AtomicNext]_(Copies!syncVars)
  BY CopyStep, CopiesRefine
<1> QED
  BY <1>1, CopyInitInv, PTL DEF Copies!SyncSpec, Copies!CopiesStored

\* The sessions.
LEMMA SessionsCalled ==
  /\ OneRow(sessionRows, sessionRows') => Sessions!InDb!AtomicNext
  /\ (/\ OneRow(Sessions!Snapshot, Sessions!Snapshot')
         \/ Sessions!Snapshot' \subseteq Sessions!Snapshot
      /\ saved' = saved) => Sessions!InFile!AtomicNext
  /\ sessionRows' \subseteq sessionRows => Sessions!InDb!AtomicNext
<1>1. \A S : /\ Sessions!OneTable(S) = [t \in {"sessions"} |-> S]
              /\ Sessions!OneTable(S)["sessions"] = S
  BY DEF Sessions!OneTable
<1>2. ASSUME OneRow(sessionRows, sessionRows') \/ sessionRows' \subseteq sessionRows
      PROVE  Sessions!InDb!AtomicNext
  <2>1. Sessions!InDb!Call("sessions")
    BY <1>1, <1>2 DEF OneRow, Sessions!InDb!Call, Sessions!InDb!Put, Sessions!InDb!Remove,
      Sessions!InDb!Expire, Sessions!InDb!AtMostOneGoes
  <2> QED
    BY <2>1 DEF Sessions!InDb!AtomicNext
<1>3. ASSUME \/ OneRow(Sessions!Snapshot, Sessions!Snapshot')
             \/ Sessions!Snapshot' \subseteq Sessions!Snapshot,
             saved' = saved
      PROVE  Sessions!InFile!AtomicNext
  <2>1. Sessions!InFile!Call("sessions")
    BY <1>1, <1>3 DEF OneRow, Sessions!InFile!Call, Sessions!InFile!Put,
      Sessions!InFile!Remove, Sessions!InFile!Expire, Sessions!InFile!AtMostOneGoes
  <2> QED
    BY <2>1 DEF Sessions!InFile!AtomicNext
<1> QED
  BY <1>2, <1>3

LEMMA SessionsSaved ==
  /\ Sessions!Snapshot' = Sessions!Snapshot /\ saved' = Sessions!Snapshot
       => Sessions!InFile!AtomicNext
  /\ Sessions!Snapshot' = saved' /\ saved' \in {saved, {}} => Sessions!InFile!AtomicNext
<1>1. \A S : /\ Sessions!OneTable(S) = [t \in {"sessions"} |-> S]
              /\ Sessions!OneTable(S)["sessions"] = S
  BY DEF Sessions!OneTable
<1>2. ASSUME Sessions!Snapshot' = Sessions!Snapshot, saved' = Sessions!Snapshot
      PROVE  Sessions!InFile!AtomicNext
  <2>1. Sessions!InFile!Save
    BY <1>1, <1>2 DEF Sessions!InFile!Save
  <2> QED
    BY <2>1 DEF Sessions!InFile!AtomicNext
<1>3. ASSUME Sessions!Snapshot' = saved', saved' \in {saved, {}}
      PROVE  Sessions!InFile!AtomicNext
  <2>1. Sessions!InFile!Reopen
    BY <1>1, <1>3 DEF Sessions!InFile!Reopen
  <2> QED
    BY <2>1 DEF Sessions!InFile!AtomicNext
<1> QED
  BY <1>2, <1>3

\* A step that changes the session of one id only.
LEMMA OneSession ==
  ASSUME NEW id,
         DOMAIN sessions' \subseteq DOMAIN sessions \cup {id},
         DOMAIN sessions \subseteq DOMAIN sessions' \cup {id},
         \A i \in DOMAIN sessions \ {id} : objs'[sessions'[i]] = objs[sessions[i]]
  PROVE  OneRow(Sessions!Snapshot, Sessions!Snapshot')
<1>1. PICK S, T : S = Sessions!Snapshot /\ T = Sessions!Snapshot'
  OBVIOUS
<1>2. /\ \A x : x \in S <=> \E i \in DOMAIN sessions : x = objs[sessions[i]]
      /\ \A x : x \in T <=> \E i \in DOMAIN sessions' : x = objs'[sessions'[i]]
  BY <1>1 DEF Sessions!Snapshot
<1>3. \A x \in S \ T : x = objs[sessions[id]]
  BY <1>2
<1>4. \A x \in T \ S : id \in DOMAIN sessions' /\ x = objs'[sessions'[id]]
  BY <1>2
<1>5. CASE id \in DOMAIN sessions'
  <2>1. objs'[sessions'[id]] \in T /\ T \ S \subseteq {objs'[sessions'[id]]}
    BY <1>2, <1>4, <1>5
  <2> QED
    BY <1>1, <1>3, <2>1 DEF OneRow
<1>6. CASE id \notin DOMAIN sessions'
  BY <1>1, <1>3, <1>4, <1>6 DEF OneRow
<1> QED
  BY <1>5, <1>6

\* A write by a goroutine.
LEMMA RowWritten ==
  ASSUME SessionInv, NEW i \in 1..Len(queue), Sessions!WriteSession(i)
  PROVE  OneRow(sessionRows, sessionRows') \/ sessionRows' \subseteq sessionRows
<1>1. PICK w : w = queue[i]
  OBVIOUS
<1>2. sessionRows' = sessionRows \/ sessionRows' = Sessions!Effect(w)
  BY <1>1 DEF Sessions!WriteSession
<1>3. \A o, p \in sessionRows : o.id = p.id => o = p
  BY DEF SessionInv, SessionTypeOK, RecordsOK
<1>4. w.op \in {"upsert", "delete", "expire"}
  <2>1. w \in SessionWrites
    BY <1>1 DEF SessionInv, SessionTypeOK, QueueOK
  <2> QED
    BY <2>1 DEF SessionWrites
<1>5. CASE w.op = "upsert" /\ sessionRows' = Sessions!Effect(w)
  <2>1. PICK o : o = objs[w.obj]
    OBVIOUS
  <2>2. sessionRows' = {r \in sessionRows : r.id # o.id} \cup {o}
    BY <1>5, <2>1 DEF Sessions!Effect
  <2>3. o \in sessionRows' /\ sessionRows' \ sessionRows \subseteq {o}
    BY <2>2
  <2>4. \A x, y \in sessionRows \ sessionRows' : x = y
    BY <1>3, <2>2
  <2> QED
    BY <2>3, <2>4 DEF OneRow
<1>6. CASE w.op # "upsert" /\ sessionRows' = Sessions!Effect(w)
  <2>1. \/ sessionRows' = {r \in sessionRows : r.id # w.id}
        \/ sessionRows' = {r \in sessionRows : r.ends >= now}
    BY <1>4, <1>6 DEF Sessions!Effect
  <2> QED
    BY <2>1
<1> QED
  BY <1>2, <1>5, <1>6

LEMMA SessionsTouched ==
  ASSUME SessionInv, NEW r \in Requests, Sessions!Touch(r) \/ Sessions!Register(r)
  PROVE  /\ OneRow(Sessions!Snapshot, Sessions!Snapshot')
         /\ saved' = saved /\ sessionRows' = sessionRows /\ kept' = kept
<1>1. saved' = saved /\ sessionRows' = sessionRows /\ kept' = kept
  BY DEF Sessions!Touch, Sessions!Register, Sessions!Disk
<1>2. /\ objs \in Seq(Objects) /\ Len(objs) \in Nat
      /\ \A id \in DOMAIN sessions : sessions[id] \in 1..Len(objs) /\ objs[sessions[id]].id = id
  BY StoreTypes DEF SessionInv, SessionTypeOK
<1>3. PICK id : id = req[r].id
  OBVIOUS
<1>4. CASE Sessions!Touch(r)
  <2>1. /\ sessions' = sessions
        /\ IF id \in DOMAIN sessions
           THEN objs' = [objs EXCEPT ![sessions[id]] = Until(objs[sessions[id]], now + Ttl)]
           ELSE objs' = objs
    BY <1>2, <1>3, <1>4 DEF Sessions!Touch, Sessions!Registered, Sessions!Extended, Until
  <2>2. \A i \in DOMAIN sessions \ {id} : objs'[sessions[i]] = objs[sessions[i]]
    BY <1>2, <2>1
  <2> QED
    BY <1>1, <2>1, <2>2, OneSession
<1>5. CASE Sessions!Register(r) /\ id \in DOMAIN sessions
  <2>1. objs' = objs /\ sessions' = sessions
    BY <1>3, <1>5 DEF Sessions!Register, Sessions!Registered
  <2> QED
    BY <1>1, <2>1, OneSession
<1>6. CASE Sessions!Register(r) /\ id \notin DOMAIN sessions
  <2>1. PICK o, new : /\ o = [id |-> id, state |-> "active", born |-> now, ends |-> now + Ttl]
                      /\ new = Len(objs) + 1
    OBVIOUS
  <2>2. /\ objs' = Append(objs, o)
        /\ sessions' = [i \in DOMAIN sessions \cup {id} |-> IF i = id THEN new ELSE sessions[i]]
    BY <1>3, <1>6, <2>1 DEF Sessions!Register, Sessions!Registered
  <2>3. /\ DOMAIN sessions' = DOMAIN sessions \cup {id}
        /\ \A i \in DOMAIN sessions : sessions'[i] = sessions[i]
    BY <1>6, <2>2
  <2>4. \A j \in 1..Len(objs) : objs'[j] = objs[j]
    BY <1>2, <2>2
  <2>5. \A i \in DOMAIN sessions \ {id} : objs'[sessions'[i]] = objs[sessions[i]]
    BY <1>2, <2>3, <2>4
  <2> QED
    BY <1>1, <2>3, <2>5, OneSession
<1> QED
  BY <1>4, <1>5, <1>6

LEMMA SessionsEnded ==
  ASSUME SessionInv, NEW id \in SessionIds, Sessions!EndSession(id)
  PROVE  /\ OneRow(Sessions!Snapshot, Sessions!Snapshot')
         /\ saved' = saved /\ sessionRows' = sessionRows /\ kept' = kept
<1>1. saved' = saved /\ sessionRows' = sessionRows /\ kept' = kept
  BY DEF Sessions!EndSession, Sessions!Disk
<1>2. /\ objs \in Seq(Objects) /\ Len(objs) \in Nat
      /\ \A i \in DOMAIN sessions : sessions[i] \in 1..Len(objs) /\ objs[sessions[i]].id = i
  BY StoreTypes DEF SessionInv, SessionTypeOK
<1>3. /\ id \in DOMAIN sessions /\ objs' = [objs EXCEPT ![sessions[id]] = Ended(objs[sessions[id]])]
      /\ sessions' = [i \in DOMAIN sessions \ {id} |-> sessions[i]]
  BY <1>2 DEF Sessions!EndSession, Sessions!Get, Sessions!Registered, Sessions!Drop, Ended
<1>4. \A i \in DOMAIN sessions \ {id} : sessions'[i] = sessions[i] /\ sessions[i] # sessions[id]
  BY <1>2, <1>3
<1>5. \A i \in DOMAIN sessions \ {id} : objs'[sessions'[i]] = objs[sessions[i]]
  BY <1>2, <1>3, <1>4
<1> QED
  BY <1>1, <1>3, <1>5, OneSession

LEMMA SessionsRefine ==
  ASSUME SessionInv, Sessions!SessionNext
  PROVE  IF kept = "db" THEN Sessions!InDb!AtomicNext ELSE Sessions!InFile!AtomicNext
<1>1. kept \in {"db", "file"} /\ (\A S : OneRow(S, S))
  BY DEF SessionInv, SessionTypeOK, OneRow
<1>2. CASE /\ OneRow(Sessions!Snapshot, Sessions!Snapshot')
           /\ saved' = saved /\ sessionRows' = sessionRows
  BY <1>1, <1>2, SessionsCalled
<1>3. ASSUME \/ \E r \in Requests : \/ \E id \in SessionIds : Sessions!Arrive(r, id)
                                    \/ Sessions!Answer(r)
             \/ Sessions!Tick
      PROVE  Sessions!Snapshot' = Sessions!Snapshot /\ saved' = saved /\ sessionRows' = sessionRows
  BY <1>3 DEF Sessions!Arrive, Sessions!Answer, Sessions!Tick, Sessions!Disk, Sessions!Snapshot
<1>4. CASE Sessions!Sweep
  <2>1. /\ UNCHANGED <<objs, saved, sessionRows>>
        /\ \E out : sessions' = [i \in DOMAIN sessions \ out |-> sessions[i]]
    BY <1>4 DEF Sessions!Sweep, Sessions!Disk, Sessions!Drop
  <2>2. Sessions!Snapshot' \subseteq Sessions!Snapshot
    BY <2>1 DEF Sessions!Snapshot
  <2> QED
    BY <1>1, <2>1, <2>2, SessionsCalled
<1>5. CASE Sessions!AfterSweep
  <2>1. /\ UNCHANGED <<objs, sessions, sessionRows>>
        /\ kept = "file" => saved' = Sessions!Snapshot
    BY <1>5 DEF Sessions!AfterSweep
  <2>2. Sessions!Snapshot' = Sessions!Snapshot
    BY <2>1 DEF Sessions!Snapshot
  <2> QED
    BY <1>1, <2>1, <2>2, SessionsCalled, SessionsSaved
<1>6. ASSUME NEW i \in 1..Len(queue), Sessions!WriteSession(i)
      PROVE  IF kept = "db" THEN Sessions!InDb!AtomicNext ELSE Sessions!InFile!AtomicNext
  <2>1. UNCHANGED <<objs, sessions, saved>>
    BY <1>6 DEF Sessions!WriteSession
  <2>2. Sessions!Snapshot' = Sessions!Snapshot
    BY <2>1 DEF Sessions!Snapshot
  <2> QED
    BY <1>1, <1>6, <2>1, <2>2, RowWritten, SessionsCalled
<1>7. CASE Sessions!Crash \/ Sessions!Close
  <2>1. /\ sessionRows' = sessionRows
        /\ kept = "file" => saved' \in {saved, {}, Sessions!Snapshot}
    BY <1>7 DEF Sessions!Crash, Sessions!Close, Sessions!RestartWith
  <2>2. kept = "file" => Sessions!Snapshot' = saved'
    BY <1>7, SessionRestartStep
  <2> QED
    BY <1>1, <2>1, <2>2, SessionsCalled, SessionsSaved
<1> QED
  BY <1>1, <1>2, <1>3, <1>4, <1>5, <1>6, <1>7, SessionsTouched, SessionsEnded
     DEF Sessions!SessionNext

\* And so are the sessions: in SQLite one row by each write, or an expiry, in whatever
\* order the goroutines come to them; with a file, one session in memory by each call,
\* and in the file those there were at the last save, or none if it was cut short.
THEOREM SessionsStoredHolds == Sessions!SessionSpec => Sessions!SessionsStored
<1>1. SessionInv /\ [Sessions!SessionNext]_(Sessions!sessionVars)
        => /\ SessionInv'
           /\ [IF kept = "db" THEN Sessions!InDb!AtomicNext
                             ELSE Sessions!InFile!AtomicNext]_(Sessions!sessionVars)
  BY SessionStep, SessionsRefine
<1> QED
  BY <1>1, SessionInitInv, PTL DEF Sessions!SessionSpec, Sessions!SessionsStored

\* In every behaviour of the parts side by side, SQLite, the files, the sessions and the
\* copies of documents implement the abstract tables.
THEOREM TablesKeptHolds == AllSpec => TablesKept
<1>1. AllInit => Twins!StorageInit /\ Sessions!SessionInit /\ Copies!SyncInit
  BY DEF AllInit
<1>2. [AllNext]_AllVars => /\ [Twins!StorageNext]_(Twins!storageVars)
                           /\ [Sessions!SessionNext]_(Sessions!sessionVars)
                           /\ [Copies!SyncNext]_(Copies!syncVars)
  BY DEF AllNext, AllVars, storageVars, sessionVars, syncVars, Twins!storageVars,
    Sessions!sessionVars, Copies!syncVars
<1>3. AllSpec => Twins!StorageSpec /\ Sessions!SessionSpec /\ Copies!SyncSpec
  BY <1>1, <1>2, PTL DEF AllSpec, Twins!StorageSpec, Sessions!SessionSpec, Copies!SyncSpec
<1> QED
  BY <1>3, StorageKeepsTables, SessionsStoredHolds, CopiesStoredHolds DEF TablesKept
================================================================================
