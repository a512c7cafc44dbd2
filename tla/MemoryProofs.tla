------------------------------ MODULE MemoryProofs ------------------------------
(******************************************************************************)
(* Proofs about the memory of the chats - its types, that the token count     *)
(* covers the memories, that no fact is lost between a copy and its result,   *)
(* that the disk follows - and about the two storages: they implement the     *)
(* abstract tables, and agree.                                                *)
(******************************************************************************)
EXTENDS MCMemory, FiniteSetTheorems, WellFoundedInduction, TLAPS

-------------------------------------------------------------------------------
(* The memories: counting tokens.  The least element of a set of naturals      *)
(* stands for induction.                                                       *)

LEMMA LeastElement ==
  ASSUME NEW T \in SUBSET Nat, T # {}
  PROVE  \E n \in T : \A m \in T : n <= m
<1>1. IsWellFoundedOn(OpToRel(<, Nat), Nat)
  BY NatLessThanWellFounded, Zenon
<1>2. \E n \in T : \A m \in T : ~ (<<m, n>> \in OpToRel(<, Nat))
  BY <1>1, WFMin, Zenon
<1>3. \A m, n \in Nat : m < n => <<m, n>> \in OpToRel(<, Nat)
  BY Zenon DEF OpToRel
<1>4. \E n \in T : \A m \in T : ~ (m < n)
  BY <1>2, <1>3, Zenon
<1> QED
  BY <1>4

\* The counts of the first memories of a sequence.
Counts(g, s, N) ==
  \A n \in 0..N : g[n] = IF n = 0 THEN 0 ELSE g[n - 1] + s[n].tokens

LEMMA MemoryTokens == \A m \in Memories : m.tokens \in Nat /\ m.facts \subseteq Facts
BY DEF Memories

LEMMA CountsExist ==
  ASSUME NEW s \in Seq(Memories), NEW N \in 0..Len(s)
  PROVE  \E g \in [0..N -> Nat] : Counts(g, s, N)
<1> DEFINE Bad == {k \in 0..Len(s) : ~ \E g \in [0..k -> Nat] : Counts(g, s, k)}
<1>1. SUFFICES ASSUME Bad # {} PROVE FALSE
  OBVIOUS
<1>2. Bad \in SUBSET Nat
  OBVIOUS
<1>3. PICK k \in Bad : \A m \in Bad : k <= m
  BY <1>1, <1>2, LeastElement
<1> HIDE DEF Bad
<1>4. k \in 0..Len(s) /\ ~ \E g \in [0..k -> Nat] : Counts(g, s, k)
  BY <1>3 DEF Bad
<1>5. k # 0
  <2> SUFFICES ASSUME k = 0 PROVE FALSE
    OBVIOUS
  <2>1. [n \in 0..0 |-> 0] \in [0..0 -> Nat] /\ Counts([n \in 0..0 |-> 0], s, 0)
    BY DEF Counts
  <2> QED
    BY <1>4, <2>1
<1>6. k - 1 \in 0..Len(s) /\ k - 1 \notin Bad
  BY <1>3, <1>4, <1>5
<1>7. PICK g \in [0..(k - 1) -> Nat] : Counts(g, s, k - 1)
  BY <1>6 DEF Bad
<1> DEFINE h == [n \in 0..k |-> IF n = k THEN g[k - 1] + s[k].tokens ELSE g[n]]
<1>8. s[k] \in Memories /\ s[k].tokens \in Nat /\ g[k - 1] \in Nat
  BY <1>4, <1>5, MemoryTokens
<1>9. h \in [0..k -> Nat]
  BY <1>4, <1>5, <1>8
<1>10. ASSUME NEW n \in 0..k PROVE h[n] = IF n = 0 THEN 0 ELSE h[n - 1] + s[n].tokens
  <2>1. CASE n = k
    BY <1>4, <1>5, <2>1
  <2>2. CASE n # k
    <3>1. n \in 0..(k - 1) /\ h[n] = g[n] /\ (n # 0 => h[n - 1] = g[n - 1])
      BY <1>4, <1>5, <2>2
    <3> QED
      BY <1>7, <3>1 DEF Counts
  <2> QED
    BY <2>1, <2>2
<1> QED
  <2> HIDE DEF h
  <2>1. Counts(h, s, k)
    BY <1>10 DEF Counts
  <2> QED
    BY <1>4, <1>9, <2>1

LEMMA CountsUnique ==
  ASSUME NEW s, NEW N \in Nat, NEW g, NEW h, Counts(g, s, N), Counts(h, s, N)
  PROVE  \A n \in 0..N : g[n] = h[n]
<1> DEFINE Bad == {k \in 0..N : g[k] # h[k]}
<1>1. SUFFICES ASSUME Bad # {} PROVE FALSE
  OBVIOUS
<1>2. PICK k \in Bad : \A m \in Bad : k <= m
  <2>1. Bad \in SUBSET Nat
    OBVIOUS
  <2> HIDE DEF Bad
  <2> QED
    BY <1>1, <2>1, LeastElement
<1>3. k \in 0..N /\ g[k] # h[k] /\ (k # 0 => g[k - 1] = h[k - 1])
  BY <1>2
<1>4. CASE k = 0
  BY <1>3, <1>4 DEF Counts
<1>5. CASE k # 0
  BY <1>3, <1>5 DEF Counts
<1> QED
  BY <1>4, <1>5

\* What the counts end with.
LEMMA TokensAre ==
  ASSUME NEW s \in Seq(Memories), NEW g, Counts(g, s, Len(s))
  PROVE  Tokens(s) = g[Len(s)] /\ Tokens(s) \in Nat
<1> DEFINE upTo == CHOOSE f : f = [n \in 0..Len(s) |->
                                   IF n = 0 THEN 0 ELSE f[n - 1] + s[n].tokens]
<1>1. Len(s) \in Nat /\ Len(s) \in 0..Len(s)
  OBVIOUS
<1>2. PICK f \in [0..Len(s) -> Nat] : Counts(f, s, Len(s))
  BY <1>1, CountsExist
<1>3. f = [n \in 0..Len(s) |-> IF n = 0 THEN 0 ELSE f[n - 1] + s[n].tokens]
  BY <1>2 DEF Counts
<1>4. upTo = [n \in 0..Len(s) |-> IF n = 0 THEN 0 ELSE upTo[n - 1] + s[n].tokens]
  BY <1>3
<1>5. Tokens(s) = upTo[Len(s)]
  BY DEF Tokens
<1> HIDE DEF upTo
<1>6. Counts(upTo, s, Len(s))
  BY <1>4 DEF Counts
<1>7. upTo[Len(s)] = g[Len(s)] /\ f[Len(s)] = g[Len(s)]
  BY <1>1, <1>2, <1>6, CountsUnique
<1> QED
  BY <1>1, <1>2, <1>5, <1>7

LEMMA TokensEmpty == Tokens(<<>>) = 0
<1>1. <<>> \in Seq(Memories) /\ Len(<<>>) = 0
  OBVIOUS
<1>2. Counts([n \in 0..0 |-> 0], <<>>, 0)
  BY DEF Counts
<1> QED
  BY <1>1, <1>2, TokensAre

LEMMA TokensAppend ==
  ASSUME NEW s \in Seq(Memories), NEW m \in Memories
  PROVE  /\ Append(s, m) \in Seq(Memories)
         /\ Tokens(s) \in Nat
         /\ Tokens(Append(s, m)) = Tokens(s) + m.tokens
<1>1. Len(s) \in Nat /\ Len(s) \in 0..Len(s) /\ m.tokens \in Nat
  BY MemoryTokens
<1>2. PICK g \in [0..Len(s) -> Nat] : Counts(g, s, Len(s))
  BY <1>1, CountsExist
<1> DEFINE t == Append(s, m)
           h == [n \in 0..Len(t) |-> IF n = Len(t) THEN g[Len(s)] + m.tokens ELSE g[n]]
<1>3. t \in Seq(Memories) /\ Len(t) = Len(s) + 1 /\ t[Len(t)] = m
      /\ \A n \in 1..Len(s) : t[n] = s[n]
  OBVIOUS
<1>4. Counts(h, t, Len(t))
  <2> SUFFICES ASSUME NEW n \in 0..Len(t)
               PROVE  h[n] = IF n = 0 THEN 0 ELSE h[n - 1] + t[n].tokens
    BY DEF Counts
  <2>1. CASE n = Len(t)
    <3>1. n # 0 /\ h[n] = g[Len(s)] + m.tokens /\ n - 1 = Len(s) /\ h[n - 1] = g[Len(s)]
      BY <1>1, <1>3, <2>1
    <3> QED
      BY <1>3, <2>1, <3>1
  <2>2. CASE n # Len(t)
    <3>1. n \in 0..Len(s) /\ h[n] = g[n] /\ (n # 0 => h[n - 1] = g[n - 1] /\ t[n] = s[n])
      BY <1>1, <1>3, <2>2
    <3> QED
      BY <1>2, <3>1 DEF Counts
  <2> QED
    BY <2>1, <2>2
<1>5. h[Len(t)] = g[Len(s)] + m.tokens
  BY <1>1, <1>3
<1> HIDE DEF h
<1>6. Tokens(t) = h[Len(t)]
  BY <1>3, <1>4, TokensAre
<1>7. Tokens(s) = g[Len(s)] /\ Tokens(s) \in Nat
  BY <1>2, TokensAre
<1> QED
  BY <1>3, <1>5, <1>6, <1>7

LEMMA TokensTail ==
  ASSUME NEW s \in Seq(Memories), s # <<>>
  PROVE  /\ Tail(s) \in Seq(Memories) /\ Head(s) \in Memories
         /\ Tokens(Tail(s)) \in Nat
         /\ Tokens(s) = Head(s).tokens + Tokens(Tail(s))
<1>1. /\ Len(s) \in Nat \ {0} /\ Len(s) \in 0..Len(s)
      /\ Tail(s) \in Seq(Memories) /\ Len(Tail(s)) = Len(s) - 1
      /\ Head(s) = s[1] /\ Head(s) \in Memories /\ Head(s).tokens \in Nat
      /\ \A n \in 1..(Len(s) - 1) : Tail(s)[n] = s[n + 1]
  BY MemoryTokens
<1>2. PICK g \in [0..Len(Tail(s)) -> Nat] : Counts(g, Tail(s), Len(Tail(s)))
  <2>1. Len(Tail(s)) \in 0..Len(Tail(s))
    BY <1>1
  <2> QED
    BY <1>1, <2>1, CountsExist
<1>3. g[0] = 0 /\ \A n \in 1..(Len(s) - 1) : g[n] = g[n - 1] + s[n + 1].tokens
  BY <1>1, <1>2 DEF Counts
<1> DEFINE h == [n \in 0..Len(s) |-> IF n = 0 THEN 0 ELSE Head(s).tokens + g[n - 1]]
<1>4. Counts(h, s, Len(s))
  <2> SUFFICES ASSUME NEW n \in 0..Len(s)
               PROVE  h[n] = IF n = 0 THEN 0 ELSE h[n - 1] + s[n].tokens
    BY DEF Counts
  <2>1. CASE n = 0
    BY <2>1
  <2>2. CASE n = 1
    <3>1. h[n] = Head(s).tokens + g[0] /\ h[n - 1] = 0
      BY <1>1, <2>2
    <3> QED
      BY <1>1, <1>3, <2>2, <3>1
  <2>3. CASE n > 1
    <3>1. /\ n - 1 \in 1..(Len(s) - 1)
          /\ h[n] = Head(s).tokens + g[n - 1] /\ h[n - 1] = Head(s).tokens + g[n - 1 - 1]
      BY <1>1, <2>3
    <3>2. g[n - 1] = g[n - 1 - 1] + s[n].tokens
      BY <1>1, <1>3, <3>1
    <3>3. g[n - 1 - 1] \in Nat
      <4>1. n - 1 - 1 \in 0..Len(Tail(s))
        BY <1>1, <2>3
      <4> QED
        BY <1>2, <4>1
    <3>4. s[n] \in Memories /\ s[n].tokens \in Nat
      <4>1. n \in 1..Len(s)
        BY <1>1, <2>3
      <4> QED
        BY <4>1, MemoryTokens
    <3> QED
      BY <1>1, <2>3, <3>1, <3>2, <3>3, <3>4
  <2> QED
    BY <2>1, <2>2, <2>3
<1>5. h[Len(s)] = Head(s).tokens + g[Len(Tail(s))]
  BY <1>1
<1> HIDE DEF h
<1>6. Tokens(s) = h[Len(s)]
  BY <1>4, TokensAre
<1>7. Tokens(Tail(s)) = g[Len(Tail(s))] /\ Tokens(Tail(s)) \in Nat
  BY <1>1, <1>2, TokensAre
<1> QED
  BY <1>1, <1>5, <1>6, <1>7

LEMMA TokensNat == \A s \in Seq(Memories) : Tokens(s) \in Nat
<1> SUFFICES ASSUME NEW s \in Seq(Memories) PROVE Tokens(s) \in Nat
  OBVIOUS
<1>1. PICK g \in [0..Len(s) -> Nat] : Counts(g, s, Len(s))
  <2>1. Len(s) \in 0..Len(s)
    OBVIOUS
  <2> QED
    BY <2>1, CountsExist
<1> QED
  BY <1>1, TokensAre

-------------------------------------------------------------------------------
(* The memories: what a load brings, and what a table will have.               *)

LEMMA RangeAppended ==
  ASSUME NEW S, NEW s \in Seq(S), NEW x \in S
  PROVE  /\ Range(Append(s, x)) = Range(s) \cup {x}
         /\ Len(Append(s, x)) = Len(s) + 1
<1>1. /\ DOMAIN s = 1..Len(s) /\ Len(s) \in Nat /\ Append(s, x) \in Seq(S)
      /\ Len(Append(s, x)) = Len(s) + 1 /\ Append(s, x)[Len(s) + 1] = x
      /\ \A i \in 1..Len(s) : Append(s, x)[i] = s[i]
  OBVIOUS
<1>2. DOMAIN Append(s, x) = 1..(Len(s) + 1)
  BY <1>1
<1>3. 1..(Len(s) + 1) = 1..Len(s) \cup {Len(s) + 1}
  BY <1>1
<1> QED
  BY <1>1, <1>2, <1>3 DEF Range

LEMMA RangeOfTail ==
  ASSUME NEW S, NEW s \in Seq(S), s # <<>>
  PROVE  /\ Range(s) = Range(Tail(s)) \cup {Head(s)}
         /\ Len(Tail(s)) = Len(s) - 1
<1>1. /\ DOMAIN s = 1..Len(s) /\ Len(s) \in Nat \ {0} /\ Tail(s) \in Seq(S)
      /\ Len(Tail(s)) = Len(s) - 1 /\ Head(s) = s[1]
      /\ \A i \in 1..(Len(s) - 1) : Tail(s)[i] = s[i + 1]
  OBVIOUS
<1>2. DOMAIN Tail(s) = 1..(Len(s) - 1)
  BY <1>1
<1>3. \A x \in Range(s) : x \in Range(Tail(s)) \cup {Head(s)}
  <2> SUFFICES ASSUME NEW i \in 1..Len(s), i # 1 PROVE s[i] \in Range(Tail(s))
    BY <1>1 DEF Range
  <2>1. i - 1 \in 1..(Len(s) - 1) /\ Tail(s)[i - 1] = s[i]
    BY <1>1
  <2> QED
    BY <1>2, <2>1 DEF Range
<1>4. \A x \in Range(Tail(s)) : x \in Range(s)
  <2> SUFFICES ASSUME NEW i \in 1..(Len(s) - 1) PROVE Tail(s)[i] \in Range(s)
    BY <1>2 DEF Range
  <2>1. i + 1 \in 1..Len(s) /\ Tail(s)[i] = s[i + 1]
    BY <1>1
  <2> QED
    BY <1>1, <2>1 DEF Range
<1>5. Head(s) \in Range(s)
  <2>1. 1 \in 1..Len(s)
    BY <1>1
  <2> QED
    BY <1>1, <2>1 DEF Range
<1> QED
  BY <1>1, <1>3, <1>4, <1>5

LEMMA RangeIn ==
  ASSUME NEW S, NEW s \in Seq(S)
  PROVE  Range(s) \subseteq S
BY DEF Range

LEMMA NewestAre ==
  ASSUME NEW at, NEW n \in Nat, NEW s \in NewestFirst(at, n)
  PROVE  s \in Seq(DOMAIN at) /\ Len(s) <= n /\ Range(s) \subseteq DOMAIN at
<1>1. PICK k \in 0..n : s \in [1..k -> DOMAIN at]
  BY DEF NewestFirst, BoundedSeq, SeqOf
<1>2. s \in Seq(DOMAIN at) /\ Len(s) = k
  BY <1>1
<1> QED
  BY <1>1, <1>2, RangeIn

\* A memory is in the table, or in a write to come, and no later write takes
\* it away.
Source(i, table0, ws) == IF i = 0 THEN table0 ELSE ws[i].rows
Spares(m, w) == w.op = "replace" => m \in w.rows
OnItsWay(m, table0, ws) ==
  \E i \in 0..Len(ws) : /\ m \in Source(i, table0, ws)
                        /\ \A j \in (i + 1)..Len(ws) : Spares(m, ws[j])
MemoryWrites == [op : {"upsert", "replace"}, rows : SUBSET Memories]

LEMMA NothingToCome ==
  ASSUME NEW m, NEW table0
  PROVE  m \in table0 <=> OnItsWay(m, table0, <<>>)
BY DEF OnItsWay, Source

LEMMA WriteAdded ==
  ASSUME NEW m, NEW table0, NEW ws \in Seq(MemoryWrites), NEW w \in MemoryWrites,
         m \in w.rows \/ (OnItsWay(m, table0, ws) /\ Spares(m, w))
  PROVE  OnItsWay(m, table0, Append(ws, w))
<1>1. /\ Len(ws) \in Nat /\ Len(Append(ws, w)) = Len(ws) + 1
      /\ Append(ws, w)[Len(ws) + 1] = w
      /\ \A i \in 1..Len(ws) : Append(ws, w)[i] = ws[i]
  OBVIOUS
<1>2. CASE m \in w.rows
  <2>1. m \in Source(Len(ws) + 1, table0, Append(ws, w))
    BY <1>1, <1>2 DEF Source
  <2>2. (Len(ws) + 1 + 1)..(Len(ws) + 1) = {}
    BY <1>1
  <2> QED
    BY <1>1, <2>1, <2>2 DEF OnItsWay
<1>3. CASE OnItsWay(m, table0, ws) /\ Spares(m, w)
  <2>1. PICK i \in 0..Len(ws) : /\ m \in Source(i, table0, ws)
                                /\ \A j \in (i + 1)..Len(ws) : Spares(m, ws[j])
    BY <1>3 DEF OnItsWay
  <2>2. m \in Source(i, table0, Append(ws, w))
    BY <1>1, <2>1 DEF Source
  <2>3. ASSUME NEW j \in (i + 1)..(Len(ws) + 1) PROVE Spares(m, Append(ws, w)[j])
    <3>1. CASE j = Len(ws) + 1
      BY <1>1, <1>3, <3>1
    <3>2. CASE j # Len(ws) + 1
      <4>1. j \in (i + 1)..Len(ws) /\ j \in 1..Len(ws)
        BY <1>1, <2>1, <3>2
      <4> QED
        BY <1>1, <2>1, <4>1
    <3> QED
      BY <3>1, <3>2
  <2>4. i \in 0..(Len(ws) + 1)
    BY <1>1
  <2> QED
    BY <1>1, <2>2, <2>3, <2>4 DEF OnItsWay
<1> QED
  BY <1>2, <1>3

\* The oldest write is carried out.
Written1(table0, w) == IF w.op = "replace" THEN w.rows ELSE table0 \cup w.rows

LEMMA WriteDone ==
  ASSUME NEW m, NEW table0, NEW ws \in Seq(MemoryWrites), ws # <<>>,
         OnItsWay(m, table0, ws)
  PROVE  OnItsWay(m, Written1(table0, ws[1]), Tail(ws))
<1>1. /\ Len(ws) \in Nat \ {0} /\ Len(Tail(ws)) = Len(ws) - 1
      /\ \A i \in 1..(Len(ws) - 1) : Tail(ws)[i] = ws[i + 1]
  OBVIOUS
<1>2. PICK i \in 0..Len(ws) : /\ m \in Source(i, table0, ws)
                              /\ \A j \in (i + 1)..Len(ws) : Spares(m, ws[j])
  BY DEF OnItsWay
<1>3. ASSUME NEW k \in 0..(Len(ws) - 1), NEW j \in (k + 1)..(Len(ws) - 1), i <= k + 1
      PROVE  Spares(m, Tail(ws)[j])
  <2>1. j + 1 \in (i + 1)..Len(ws) /\ j \in 1..(Len(ws) - 1)
    BY <1>1, <1>3
  <2> QED
    BY <1>1, <1>2, <2>1
<1>4. CASE i \in {0, 1}
  <2>1. m \in Written1(table0, ws[1])
    <3>1. CASE i = 0
      <4>1. m \in table0 /\ 1 \in (i + 1)..Len(ws)
        BY <1>1, <1>2, <3>1 DEF Source
      <4> QED
        BY <1>2, <4>1 DEF Spares, Written1
    <3>2. CASE i = 1
      BY <1>2, <3>2 DEF Source, Written1
    <3> QED
      BY <1>4, <3>1, <3>2
  <2>2. 0 \in 0..(Len(ws) - 1) /\ i <= 0 + 1
    BY <1>1, <1>4
  <2>3. m \in Source(0, Written1(table0, ws[1]), Tail(ws))
    BY <2>1 DEF Source
  <2>4. \A j \in (0 + 1)..(Len(ws) - 1) : Spares(m, Tail(ws)[j])
    BY <1>3, <2>2
  <2> QED
    BY <1>1, <2>2, <2>3, <2>4 DEF OnItsWay
<1>5. CASE i \notin {0, 1}
  <2>1. i - 1 \in 0..(Len(ws) - 1) /\ i - 1 \in 1..(Len(ws) - 1) /\ i <= (i - 1) + 1
    BY <1>1, <1>5
  <2>2. m \in Source(i - 1, Written1(table0, ws[1]), Tail(ws))
    BY <1>1, <1>2, <1>5, <2>1 DEF Source
  <2>3. \A j \in ((i - 1) + 1)..(Len(ws) - 1) : Spares(m, Tail(ws)[j])
    BY <1>3, <2>1
  <2> QED
    BY <1>1, <2>1, <2>2, <2>3 DEF OnItsWay
<1> QED
  BY <1>4, <1>5

LEMMA FirstRemoved ==
  ASSUME NEW S, NEW s \in Seq(S), NEW i \in 1..Len(s)
  PROVE  /\ RemoveAt(s, i) \in Seq(S)
         /\ i = 1 => RemoveAt(s, i) = Tail(s)
<1>0. SubSeq(s, 1, i - 1) \in Seq(S) /\ SubSeq(s, i + 1, Len(s)) \in Seq(S)
  OBVIOUS
<1>1. PICK a \in Seq(S), b \in Seq(S) : a = SubSeq(s, 1, i - 1) /\ b = SubSeq(s, i + 1, Len(s))
  BY <1>0, Zenon
<1>2. RemoveAt(s, i) = a \o b
  BY <1>1 DEF RemoveAt
<1>3. a \o b \in Seq(S)
  OBVIOUS
<1>4. ASSUME i = 1 PROVE RemoveAt(s, i) = Tail(s)
  <2>1. a = <<>> /\ b = Tail(s)
    BY <1>1, <1>4
  <2>2. <<>> \o b = b
    OBVIOUS
  <2> QED
    BY <1>2, <2>1, <2>2
<1> QED
  BY <1>2, <1>3, <1>4

-------------------------------------------------------------------------------
(* The memories: the invariant.                                                *)

MemoryStoreOK == memories \in Seq(Memories) /\ Len(memories) <= MaxMemories /\ total \in Nat
Locking == {"compress", "replace", "sync"}
PostsOK ==
  /\ pc \in [Posts -> Steps] /\ conv \in [Posts -> Convs]
  /\ todo \in [Posts -> SUBSET Facts]
  /\ snap \in [Posts -> Seq(Memories)] /\ \A p \in Posts : Len(snap[p]) <= MaxMemories
  /\ optimizing \in Posts \cup {NoPost}
  /\ \A p \in Posts : (optimizing = p) <=> pc[p] \in Locking
SumsOK(ss) ==
  /\ DOMAIN ss \subseteq Convs /\ \A c \in DOMAIN ss : ss[c] \in SummaryRecords
  /\ IsFiniteSet(DOMAIN ss) /\ Cardinality(DOMAIN ss) <= MaxSummaries
SumRowsOK(rs) == DOMAIN rs \subseteq Convs /\ \A c \in DOMAIN rs : rs[c] \in SummaryRecords
SumWritesOK == \A w \in sumWrites : w.conv \in Convs /\ w.row \in SummaryRecords
FileOK(f) ==
  /\ f = [memories |-> f.memories, sums |-> f.sums]
  /\ f.memories \in Seq(Memories) /\ Len(f.memories) <= MaxMemories /\ SumsOK(f.sums)
WritesOK == rows \subseteq Memories /\ writes \in Seq(MemoryWrites)
MemTypes ==
  /\ mode \in {"db", "file"} /\ clock \in Nat /\ sumClock \in Nat
  /\ MemoryStoreOK /\ PostsOK /\ SumsOK(sums) /\ SumRowsOK(sumRows) /\ SumWritesOK
  /\ FileOK(file) /\ WritesOK

\* While a post compresses, what the store gained since its copy is known.
CopyHas ==
  \A p \in Posts : pc[p] \in {"compress", "replace"} =>
    Stated(memories) \subseteq Stated(snap[p]) \cup overlapped

\* After the result is put in place and before the table is told, the memories
\* are those of the result; at other times each is on its way to the table.
SummaryComes(c) == \/ c \in DOMAIN sumRows
                   \/ \E w \in sumWrites : w.conv = c /\ w.row # NoRow
TableComes ==
  mode = "db" /\ ~missed =>
    /\ ~unordered =>
         /\ \A p \in Posts : pc[p] = "sync" => Range(memories) \subseteq Range(snap[p])
         /\ (\A p \in Posts : pc[p] # "sync") =>
              \A m \in Range(memories) : OnItsWay(m, rows, writes)
    /\ \A c \in DOMAIN sums : SummaryComes(c)
FileFollows ==
  mode = "file" /\ ~missed /\ ~dirty => file = [memories |-> memories, sums |-> sums]

MemInv ==
  /\ MemTypes
  /\ TotalCovers
  /\ FactsKept /\ CopyHas
  /\ TableComes /\ FileFollows

LEMMA StatedBy ==
  /\ \A ms, ns : Range(ms) \subseteq Range(ns) => Stated(ms) \subseteq Stated(ns)
  /\ \A ms, f : f \in Stated(ms) <=> \E m \in Range(ms) : f \in m.facts
BY DEF Stated

--------------------------------------------------------------------------------
(* The store and the posts, step by step.                                       *)

LEMMA MemInitInv == Init => MemInv
<1> SUFFICES ASSUME Init PROVE MemInv
  OBVIOUS
<1> USE ConstAssumption DEF ConstAssumption
<1>1. <<>> \in Seq(Memories) /\ Len(<<>>) = 0 /\ DOMAIN <<>> = {}
  OBVIOUS
<1>2. Range(<<>>) = {} /\ Stated(<<>>) = {}
  BY <1>1 DEF Range, Stated
<1>3. IsFiniteSet({}) /\ Cardinality({}) = 0
  BY FS_EmptySet
<1>4. SumsOK(<<>>) /\ SumRowsOK(<<>>)
  BY <1>1, <1>3 DEF SumsOK, SumRowsOK
<1>5. NoFile.memories = <<>> /\ NoFile.sums = <<>>
      /\ NoFile = [memories |-> NoFile.memories, sums |-> NoFile.sums]
  BY DEF NoFile
<1>6. FileOK(NoFile)
  BY <1>1, <1>4, <1>5 DEF FileOK
<1>7. MemoryStoreOK /\ PostsOK
  BY <1>1 DEF Init, MemoryStoreOK, PostsOK, Steps, Locking
<1>8. MemTypes
  <2>1. <<>> \in Seq(MemoryWrites)
    OBVIOUS
  <2> QED
    BY <1>4, <1>6, <1>7, <2>1 DEF Init, MemTypes, SumWritesOK, WritesOK
<1>9. TotalCovers
  BY TokensEmpty DEF Init, TotalCovers
<1>10. FactsKept /\ CopyHas
  BY DEF Init, FactsKept, CopyHas
<1>11. TableComes
  BY <1>1, <1>2 DEF Init, TableComes
<1>12. FileFollows
  BY DEF Init, FileFollows, NoFile
<1> QED
  BY <1>8, <1>9, <1>10, <1>11, <1>12 DEF MemInv

\* What a step that leaves the store, the tables and the file alone keeps.
StoreRest == UNCHANGED <<mode, memories, total, sums, dirty, clock, sumClock, evicted>>
DiskRest == UNCHANGED <<writes, sumWrites, rows, sumRows, file, unordered, missed>>

\* The arrival of the facts, and the look at the threshold.
LEMMA ExtractKeeps ==
  ASSUME MemInv, NEW p \in Posts, Extract(p) \/ CheckThreshold(p)
  PROVE  MemInv'
<1>1. /\ StoreRest /\ DiskRest /\ UNCHANGED <<optimizing, conv, snap, learned, overlapped, loaded>>
      /\ \E step \in Steps \ (Locking \cup {"sync"}) : pc' = [pc EXCEPT ![p] = step]
      /\ todo' = todo \/ \E said \in SUBSET Facts : todo' = [todo EXCEPT ![p] = said]
      /\ pc[p] \notin Locking
  BY DEF Extract, CheckThreshold, Goto, End, StoreRest, DiskRest, memVars, sumVars, addVars,
    diskVars, faultVars, Steps, Locking
<1>2. PICK step \in Steps \ Locking : pc' = [pc EXCEPT ![p] = step]
  BY <1>1
<1>3. pc \in [Posts -> Steps] /\ todo \in [Posts -> SUBSET Facts]
  BY DEF MemInv, MemTypes, PostsOK
<1>4. pc' \in [Posts -> Steps] /\ todo' \in [Posts -> SUBSET Facts]
  BY <1>1, <1>2, <1>3
<1>5. \A q \in Posts : \/ pc'[q] = pc[q]
                       \/ pc'[q] \notin Locking /\ pc[q] \notin Locking
  BY <1>1, <1>2, <1>3
<1>6. PostsOK'
  BY <1>1, <1>4, <1>5 DEF MemInv, MemTypes, PostsOK
<1>7. MemTypes'
  BY <1>1, <1>6 DEF MemInv, MemTypes, StoreRest, DiskRest, MemoryStoreOK, SumsOK, SumRowsOK,
    SumWritesOK, FileOK, WritesOK
<1>8. TotalCovers' /\ FactsKept' /\ FileFollows'
  BY <1>1 DEF MemInv, StoreRest, DiskRest, TotalCovers, FactsKept, FileFollows
<1>9. CopyHas'
  BY <1>1, <1>5 DEF MemInv, CopyHas, StoreRest, Locking
<1>10. TableComes'
  BY <1>1, <1>5 DEF MemInv, TableComes, SummaryComes, StoreRest, DiskRest, Locking
<1> QED
  BY <1>7, <1>8, <1>9, <1>10 DEF MemInv

LEMMA TryLockKeeps ==
  ASSUME MemInv, NEW p \in Posts, TryLock(p)
  PROVE  MemInv'
<1>1. /\ StoreRest /\ DiskRest /\ UNCHANGED <<conv, todo, learned, overlapped, loaded>>
      /\ pc[p] = "lock"
  BY DEF TryLock, StoreRest, DiskRest, memVars, sumVars, addVars, diskVars, faultVars
<1>2. /\ pc \in [Posts -> Steps] /\ snap \in [Posts -> Seq(Memories)]
      /\ memories \in Seq(Memories) /\ Len(memories) <= MaxMemories
      /\ \A q \in Posts : Len(snap[q]) <= MaxMemories
      /\ \A q \in Posts : (optimizing = q) <=> pc[q] \in Locking
      /\ optimizing \in Posts \cup {NoPost}
  BY DEF MemInv, MemTypes, PostsOK, MemoryStoreOK
<1>5. PostsOK' /\ CopyHas'
      /\ \A q \in Posts : /\ pc'[q] = "sync" <=> pc[q] = "sync"
                          /\ pc[q] = "sync" => snap'[q] = snap[q]
  <2>1. CASE optimizing = NoPost
    <3>1. /\ optimizing' = p /\ snap' = [snap EXCEPT ![p] = memories]
          /\ pc' = [pc EXCEPT ![p] = "compress"]
      BY <2>1 DEF TryLock, Goto
    <3>2. /\ pc' \in [Posts -> Steps] /\ snap' \in [Posts -> Seq(Memories)]
          /\ snap'[p] = memories /\ pc'[p] = "compress"
          /\ \A q \in Posts \ {p} : snap'[q] = snap[q] /\ pc'[q] = pc[q]
      BY <1>2, <3>1 DEF Steps
    <3>3. \A q \in Posts : pc[q] \notin Locking
      BY <1>2, <2>1, ConstAssumption DEF ConstAssumption
    <3>4. PostsOK'
      BY <1>1, <1>2, <3>1, <3>2, <3>3 DEF MemInv, MemTypes, PostsOK, Locking
    <3>5. CopyHas'
      BY <1>1, <3>2, <3>3 DEF CopyHas, StoreRest, Locking
    <3>6. \A q \in Posts : pc'[q] # "sync" /\ pc[q] # "sync"
      BY <3>2, <3>3 DEF Locking
    <3> QED
      BY <3>4, <3>5, <3>6
  <2>2. CASE optimizing # NoPost
    <3>1. /\ optimizing' = optimizing /\ snap' = snap
          /\ pc' = [pc EXCEPT ![p] = "ended"]
      BY <2>2 DEF TryLock, End, Goto
    <3>2. /\ pc' \in [Posts -> Steps] /\ pc'[p] = "ended"
          /\ \A q \in Posts \ {p} : pc'[q] = pc[q]
      BY <1>2, <3>1 DEF Steps
    <3>3. PostsOK'
      BY <1>1, <1>2, <3>1, <3>2 DEF MemInv, MemTypes, PostsOK, Locking
    <3>4. CopyHas'
      BY <1>1, <3>1, <3>2 DEF MemInv, CopyHas, StoreRest
    <3>5. \A q \in Posts : (pc'[q] = "sync" <=> pc[q] = "sync") /\ snap'[q] = snap[q]
      BY <1>1, <3>1, <3>2
    <3> QED
      BY <3>3, <3>4, <3>5
  <2> QED
    BY <2>1, <2>2
<1>6. MemTypes'
  BY <1>1, <1>5 DEF MemInv, MemTypes, StoreRest, DiskRest, MemoryStoreOK, SumsOK, SumRowsOK,
    SumWritesOK, FileOK, WritesOK
<1>7. TotalCovers' /\ FactsKept' /\ FileFollows'
  BY <1>1 DEF MemInv, StoreRest, DiskRest, TotalCovers, FactsKept, FileFollows
<1>8. TableComes'
  BY <1>1, <1>5 DEF MemInv, TableComes, SummaryComes, StoreRest, DiskRest
<1> QED
  BY <1>5, <1>6, <1>7, <1>8 DEF MemInv

\* A new memory, in the store and on its way to the table.
LEMMA NewMemory ==
  ASSUME MemInv, NEW f \in Facts
  PROVE  LET new == [id |-> clock + 1, facts |-> {f}, tokens |-> FactTokens]
             more == Append(memories, new)
         IN /\ new \in Memories /\ new.facts = {f} /\ new.tokens = FactTokens
            /\ more \in Seq(Memories) /\ Len(more) = Len(memories) + 1
            /\ Range(more) = Range(memories) \cup {new}
            /\ Tokens(more) = Tokens(memories) + FactTokens
            /\ Tokens(memories) \in Nat /\ more # <<>>
<1> DEFINE new == [id |-> clock + 1, facts |-> {f}, tokens |-> FactTokens]
           more == Append(memories, new)
<1>1. clock \in Nat /\ memories \in Seq(Memories) /\ FactTokens \in Nat
  BY ConstAssumption DEF ConstAssumption, MemInv, MemTypes, MemoryStoreOK
<1>2. new \in Memories /\ new.facts = {f} /\ new.tokens = FactTokens
  BY <1>1 DEF Memories
<1> HIDE DEF new
<1>3. more \in Seq(Memories) /\ more # <<>>
  BY <1>1, <1>2
<1>4. Len(more) = Len(memories) + 1 /\ Range(more) = Range(memories) \cup {new}
  BY <1>1, <1>2, RangeAppended
<1>5. Tokens(more) = Tokens(memories) + FactTokens /\ Tokens(memories) \in Nat
  BY <1>1, <1>2, TokensAppend
<1> QED
  BY <1>2, <1>3, <1>4, <1>5 DEF new

\* What an addition does to the store.
Inserted(f, new) ==
  /\ new \in Memories /\ new.facts = {f}
  /\ memories' \in Seq(Memories) /\ Len(memories') <= MaxMemories
  /\ new \in Range(memories') /\ Range(memories') \subseteq Range(memories) \cup {new}
  /\ \A m \in Range(memories) : m \in Range(memories') \/ m \in evicted'
  /\ evicted \subseteq evicted'
  /\ total' \in Nat /\ clock' \in Nat /\ dirty' = TRUE
  /\ TotalCovers'
  /\ writes' = IF mode = "db" THEN Append(writes, [op |-> "upsert", rows |-> {new}])
                              ELSE writes
  /\ overlapped' = IF Compressing THEN overlapped \cup {f} ELSE overlapped \ {f}
  /\ unordered' = (unordered \/ \E q \in Posts : pc[q] = "sync")

LEMMA InsertDoes ==
  ASSUME MemInv, NEW f \in Facts, Insert(f), loaded' = loaded
  PROVE  \E new : Inserted(f, new)
<1>1. PICK new : new = [id |-> clock + 1, facts |-> {f}, tokens |-> FactTokens]
  OBVIOUS
<1>2. PICK more : more = Append(memories, new)
  OBVIOUS
<1>3. /\ new \in Memories /\ new.facts = {f}
      /\ more \in Seq(Memories) /\ Len(more) = Len(memories) + 1 /\ more # <<>>
      /\ Range(more) = Range(memories) \cup {new}
      /\ Tokens(more) = Tokens(memories) + FactTokens /\ Tokens(memories) \in Nat
  BY <1>1, <1>2, NewMemory
<1>4. /\ memories' = IF OverLimit(more) THEN Tail(more) ELSE more
      /\ total' = TotalAfter(more) /\ dirty' = TRUE /\ clock' = clock + 1
      /\ evicted' = evicted \cup Dropped(more)
      /\ writes' = IF mode = "db" THEN Append(writes, [op |-> "upsert", rows |-> {new}])
                                  ELSE writes
      /\ overlapped' = IF Compressing THEN overlapped \cup {f} ELSE overlapped \ {f}
      /\ unordered' = (unordered \/ \E q \in Posts : pc[q] = "sync")
  BY <1>1, <1>2 DEF Insert, Enqueue
<1>5. /\ memories \in Seq(Memories) /\ Len(memories) <= MaxMemories /\ total \in Nat
      /\ clock \in Nat /\ Len(memories) \in Nat
      /\ total >= Tokens(memories)
      /\ MaxMemories \in Nat \ {0} /\ FactTokens \in Nat
  BY ConstAssumption DEF ConstAssumption, MemInv, MemTypes, MemoryStoreOK, TotalCovers
<1>7. ~loaded => total = Tokens(memories)
  BY DEF MemInv, TotalCovers
<1>6. /\ memories' \in Seq(Memories) /\ Len(memories') <= MaxMemories
      /\ new \in Range(memories') /\ Range(memories') \subseteq Range(memories) \cup {new}
      /\ \A m \in Range(memories) : m \in Range(memories') \/ m \in evicted'
      /\ total' \in Nat /\ TotalCovers'
  <2>1. CASE OverLimit(more)
    <3>1. memories' = Tail(more) /\ evicted' = evicted \cup {Head(more)}
          /\ total' = total + FactTokens - Head(more).tokens
      BY <1>4, <2>1 DEF Dropped, Victim, TotalAfter
    <3>2. /\ Tail(more) \in Seq(Memories) /\ Head(more) \in Memories
          /\ Tokens(Tail(more)) \in Nat
          /\ Tokens(more) = Head(more).tokens + Tokens(Tail(more))
      BY <1>3, TokensTail
    <3>3. PICK h \in Nat, k \in Nat : h = Head(more).tokens /\ k = Tokens(Tail(more))
      BY <3>2, MemoryTokens
    <3>4. Range(more) = Range(Tail(more)) \cup {Head(more)} /\ Len(Tail(more)) = Len(more) - 1
      BY <1>3, RangeOfTail
    <3>5. Len(Tail(more)) = Len(memories) /\ Len(memories) > 0
      BY <1>3, <1>5, <2>1, <3>4 DEF OverLimit
    <3>6. new \in Range(Tail(more))
      <4>1. Len(Tail(more)) \in DOMAIN Tail(more) /\ Tail(more)[Len(Tail(more))] = more[Len(more)]
        BY <1>3, <1>5, <3>2, <3>4, <3>5
      <4>2. more[Len(more)] = new
        BY <1>2, <1>3, <1>5
      <4> QED
        BY <4>1, <4>2 DEF Range
    <3>7. /\ total' >= Tokens(memories') /\ total' \in Nat
          /\ total = Tokens(memories) => total' = Tokens(memories')
      <4>1. /\ Tokens(memories') = k /\ total' = total + FactTokens - h
            /\ Tokens(memories) + FactTokens = h + k
        BY <1>3, <3>1, <3>2, <3>3
      <4>2. /\ total \in Nat /\ FactTokens \in Nat /\ Tokens(memories) \in Nat
            /\ total >= Tokens(memories)
        BY <1>3, <1>5
      <4>3. PICK t \in Nat : t = Tokens(memories)
        BY <4>2
      <4>4. /\ total + FactTokens - h >= k /\ total + FactTokens - h \in Nat
            /\ total = t => total + FactTokens - h = k
        BY <3>3, <4>1, <4>2, <4>3
      <4> QED
        BY <4>1, <4>3, <4>4
    <3>8. TotalCovers'
      BY <1>7, <3>7, Zenon DEF TotalCovers
    <3> QED
      BY <1>3, <1>5, <3>1, <3>2, <3>4, <3>5, <3>6, <3>7, <3>8
  <2>2. CASE ~OverLimit(more)
    <3>1. memories' = more /\ total' = total + FactTokens - 0
      BY <1>4, <2>2 DEF TotalAfter
    <3>2. Len(more) <= MaxMemories
      BY <1>3, <1>5, <2>2 DEF OverLimit
    <3>3. /\ total' >= Tokens(memories') /\ total' \in Nat
          /\ total = Tokens(memories) => total' = Tokens(memories')
      BY <1>3, <1>5, <3>1
    <3>4. TotalCovers'
      BY <1>7, <3>3, Zenon DEF TotalCovers
    <3> QED
      BY <1>3, <3>1, <3>2, <3>3, <3>4
  <2> QED
    BY <2>1, <2>2
<1>8. clock' \in Nat /\ evicted \subseteq evicted'
  BY <1>4, <1>5
<1>9. Inserted(f, new)
  BY <1>3, <1>4, <1>6, <1>8, Zenon DEF Inserted
<1> QED
  BY <1>9

LEMMA AddKeeps ==
  ASSUME MemInv, NEW p \in Posts, NEW f \in Facts, AddMemory(p, f)
  PROVE  MemInv'
<1>1. /\ pc[p] = "learn" /\ f \in todo[p]
      /\ todo' = [todo EXCEPT ![p] = @ \ {f}]
      /\ pc' = [pc EXCEPT ![p] = IF todo[p] = {f} THEN "summary" ELSE "learn"]
      /\ learned' = learned \cup {f}
      /\ UNCHANGED <<mode, sums, sumClock, sumWrites, optimizing, conv, snap, rows, sumRows,
                     file, loaded, missed>>
  BY DEF AddMemory, Goto, sumVars, diskVars, faultVars
<1>2. pc \in [Posts -> Steps] /\ todo \in [Posts -> SUBSET Facts]
  BY DEF MemInv, MemTypes, PostsOK
<1>3. PICK step \in {"summary", "learn"} : pc' = [pc EXCEPT ![p] = step]
  BY <1>1
<1>4. /\ pc' \in [Posts -> Steps] /\ todo' \in [Posts -> SUBSET Facts]
      /\ \A q \in Posts : \/ pc'[q] = pc[q]
                          \/ pc'[q] \notin Locking /\ pc[q] \notin Locking
  BY <1>1, <1>2, <1>3 DEF Steps, Locking
<1>5. PostsOK'
  BY <1>1, <1>4 DEF MemInv, MemTypes, PostsOK
<1>6. CASE Known(f) /\ UNCHANGED <<memVars, dirty, writes, unordered, overlapped>>
  <2>1. UNCHANGED <<memories, total, clock, evicted, dirty, writes, unordered, overlapped>>
    BY <1>6 DEF memVars
  <2>2. MemTypes'
    BY <1>1, <1>5, <2>1 DEF MemInv, MemTypes, MemoryStoreOK, SumsOK, SumRowsOK, SumWritesOK,
      FileOK, WritesOK
  <2>3. TotalCovers' /\ FileFollows'
    BY <1>1, <2>1 DEF MemInv, TotalCovers, FileFollows
  <2>4. FactsKept'
    <3>1. f \in Stated(memories)
      BY <1>6 DEF Known, Stated
    <3> QED
      BY <1>1, <2>1, <3>1 DEF MemInv, FactsKept
  <2>5. CopyHas'
    BY <1>1, <1>4, <2>1 DEF MemInv, CopyHas, Locking
  <2>6. TableComes'
    BY <1>1, <1>4, <2>1 DEF MemInv, TableComes, SummaryComes, Locking
  <2> QED
    BY <2>2, <2>3, <2>4, <2>5, <2>6 DEF MemInv
<1>7. CASE Insert(f)
  <2>1. PICK new : Inserted(f, new)
    BY <1>1, <1>7, InsertDoes
  <2>2. MemoryStoreOK' /\ clock' \in Nat
    BY <2>1 DEF Inserted, MemoryStoreOK
  <2>3. PICK w : w = [op |-> "upsert", rows |-> {new}]
    OBVIOUS
  <2>4. w \in MemoryWrites /\ new \in w.rows /\ w.op = "upsert"
    BY <2>1, <2>3 DEF MemoryWrites, Inserted
  <2>5. writes \in Seq(MemoryWrites) /\ writes' = IF mode = "db" THEN Append(writes, w) ELSE writes
    BY <2>1, <2>3 DEF MemInv, MemTypes, WritesOK, Inserted
  <2>6. WritesOK'
    BY <1>1, <2>4, <2>5 DEF MemInv, MemTypes, WritesOK
  <2>7. MemTypes'
    BY <1>1, <1>5, <2>2, <2>6 DEF MemInv, MemTypes, SumsOK, SumRowsOK, SumWritesOK, FileOK
  <2>8. TotalCovers' /\ dirty'
    BY <2>1 DEF Inserted
  <2>9. FileFollows'
    BY <2>8 DEF FileFollows
  <2>10. f \in Stated(memories')
    BY <2>1 DEF Inserted, Stated
  <2>11. FactsKept'
    <3> SUFFICES ASSUME NEW g \in learned', g # f
                 PROVE  \/ g \in Stated(memories') \/ g \in overlapped'
                        \/ \E m \in evicted' : g \in m.facts
      BY <2>10 DEF FactsKept
    <3>1. g \in learned
      BY <1>1
    <3>2. g \in overlapped => g \in overlapped'
      BY <2>1 DEF Inserted
    <3>3. g \in Stated(memories) =>
            g \in Stated(memories') \/ \E m \in evicted' : g \in m.facts
      BY <2>1, StatedBy DEF Inserted
    <3>4. evicted \subseteq evicted'
      BY <2>1 DEF Inserted
    <3> QED
      BY <3>1, <3>2, <3>3, <3>4 DEF MemInv, FactsKept
  <2>12. CopyHas'
    <3> SUFFICES ASSUME NEW q \in Posts, pc[q] \in {"compress", "replace"},
                        Stated(memories) \subseteq Stated(snap[q]) \cup overlapped
                 PROVE  Stated(memories') \subseteq Stated(snap[q]) \cup overlapped'
      BY <1>1, <1>4 DEF MemInv, CopyHas, Locking
    <3>1. overlapped' = overlapped \cup {f}
      BY <2>1 DEF Inserted, Compressing
    <3>2. \A g \in Stated(memories') : g \in Stated(memories) \/ g = f
      BY <2>1, StatedBy DEF Inserted
    <3> QED
      BY <3>1, <3>2
  <2>13. TableComes'
    <3> SUFFICES ASSUME mode = "db", ~missed PROVE TableComes'
      BY <1>1 DEF TableComes
    <3>1. \A c \in DOMAIN sums' : SummaryComes(c)'
      BY <1>1 DEF MemInv, TableComes, SummaryComes
    <3>2. ASSUME ~unordered'
          PROVE  /\ \A q \in Posts : pc'[q] # "sync"
                 /\ \A m \in Range(memories') : OnItsWay(m, rows', writes')
      <4>1. ~unordered /\ \A q \in Posts : pc[q] # "sync"
        BY <2>1, <3>2 DEF Inserted
      <4>2. \A m \in Range(memories) : OnItsWay(m, rows, writes)
        BY <4>1 DEF MemInv, TableComes
      <4>3. writes' = Append(writes, w) /\ rows' = rows
        BY <1>1, <2>5
      <4>4. \A m \in Range(memories) \cup {new} : OnItsWay(m, rows, Append(writes, w))
        BY <2>4, <2>5, <4>2, WriteAdded DEF Spares
      <4>5. Range(memories') \subseteq Range(memories) \cup {new}
        BY <2>1 DEF Inserted
      <4> QED
        BY <1>4, <4>1, <4>3, <4>4, <4>5 DEF Locking
    <3> QED
      BY <3>1, <3>2 DEF TableComes
  <2> QED
    BY <2>7, <2>8, <2>9, <2>11, <2>12, <2>13 DEF MemInv
<1> QED
  BY <1>6, <1>7 DEF AddMemory

--------------------------------------------------------------------------------
(* A summary is set.                                                            *)

LEMMA OldestIsThere ==
  ASSUME NEW ss, DOMAIN ss # {}, \A c \in DOMAIN ss : ss[c].created \in Nat
  PROVE  Oldest(ss) \in DOMAIN ss
<1> DEFINE Times == {ss[c].created : c \in DOMAIN ss}
<1>1. Times \in SUBSET Nat /\ Times # {}
  OBVIOUS
<1>2. PICK least \in Times : \A n \in Times : least <= n
  BY <1>1, LeastElement
<1>3. PICK c \in DOMAIN ss : ss[c].created = least
  BY <1>2
<1>4. \A d \in DOMAIN ss : ss[c].created <= ss[d].created
  BY <1>2, <1>3
<1> QED
  BY <1>4 DEF Oldest

LEMMA VictimsAreThere ==
  ASSUME NEW ss, DOMAIN ss # {}, \A c \in DOMAIN ss : ss[c].created \in Nat
  PROVE  Victims(ss) \subseteq DOMAIN ss
BY OldestIsThere DEF Victims

SummarySet(c, new) ==
  /\ new \in SummaryRecords /\ new # NoRow
  /\ SumsOK(sums') /\ DOMAIN sums' \subseteq DOMAIN sums \cup {c}
  /\ sumWrites' = IF mode = "db"
                  THEN sumWrites \cup {[conv |-> c,
                                        row |-> IF c \in DOMAIN sums' THEN new ELSE NoRow]}
                  ELSE sumWrites
  /\ dirty' = TRUE /\ sumClock' \in Nat

LEMMA SetDoes ==
  ASSUME MemInv, NEW p \in Posts, SetConversationSummary(p)
  PROVE  \E new : SummarySet(conv[p], new)
<1>1. PICK c \in Convs : c = conv[p]
  BY DEF MemInv, MemTypes, PostsOK
<1>2. PICK new : new = [created |-> sumClock + 1, updated |-> sumClock + 1]
  OBVIOUS
<1>3. sumClock \in Nat
  BY DEF MemInv, MemTypes
<1>4. new \in SummaryRecords /\ new # NoRow /\ sumClock + 1 \in Nat
  <2>1. new.created # 0
    BY <1>2, <1>3
  <2> QED
    BY <1>2, <1>3, <2>1 DEF SummaryRecords, NoRow
<1>5. PICK all : all = [d \in DOMAIN sums \cup {c} |-> IF d = c THEN new ELSE sums[d]]
  OBVIOUS
<1>6. /\ DOMAIN all = DOMAIN sums \cup {c} /\ DOMAIN all \subseteq Convs
      /\ \A d \in DOMAIN all : all[d] \in SummaryRecords /\ all[d].created \in Nat
  BY <1>1, <1>4, <1>5 DEF MemInv, MemTypes, SumsOK, SummaryRecords
<1>7. IsFiniteSet(DOMAIN all) /\ Cardinality(DOMAIN all) <= MaxSummaries + 1
      /\ Cardinality(DOMAIN all) \in Nat
  <2>1. IsFiniteSet(DOMAIN sums) /\ Cardinality(DOMAIN sums) <= MaxSummaries
    BY DEF MemInv, MemTypes, SumsOK
  <2>2. Cardinality(DOMAIN sums) \in Nat /\ MaxSummaries \in Nat
    BY <2>1, FS_CardinalityType, ConstAssumption DEF ConstAssumption
  <2>3. /\ IsFiniteSet(DOMAIN all)
        /\ Cardinality(DOMAIN all) = IF c \in DOMAIN sums THEN Cardinality(DOMAIN sums)
                                                          ELSE Cardinality(DOMAIN sums) + 1
    BY <1>6, <2>1, FS_AddElement
  <2> QED
    BY <2>1, <2>2, <2>3, FS_CardinalityType
<1>8. PICK ss : /\ sums' = ss
                /\ sumWrites' = IF mode = "db"
                     THEN sumWrites \cup {[conv |-> c, row |-> IF c \in DOMAIN ss THEN new
                                                                               ELSE NoRow]}
                     ELSE sumWrites
                /\ \/ ss = all /\ ~(Cardinality(DOMAIN all) > MaxSummaries)
                   \/ \E v \in Victims(all) : ss = Without(all, v)
  BY <1>1, <1>2, <1>5 DEF SetConversationSummary
<1>9. dirty' = TRUE /\ sumClock' = sumClock + 1
  BY DEF SetConversationSummary
<1>10. SumsOK(ss) /\ DOMAIN ss \subseteq DOMAIN sums \cup {c}
  <2>1. CASE ss = all /\ ~(Cardinality(DOMAIN all) > MaxSummaries)
    <3>1. Cardinality(DOMAIN all) <= MaxSummaries
      BY <1>7, <2>1, ConstAssumption DEF ConstAssumption
    <3> QED
      BY <1>6, <1>7, <2>1, <3>1 DEF SumsOK
  <2>2. ASSUME NEW v \in Victims(all), ss = Without(all, v)
        PROVE  SumsOK(ss) /\ DOMAIN ss \subseteq DOMAIN sums \cup {c}
    <3>1. v \in DOMAIN all
      BY <1>6, VictimsAreThere
    <3>2. /\ DOMAIN ss = DOMAIN all \ {v}
          /\ \A d \in DOMAIN ss : ss[d] = all[d]
      BY <2>2 DEF Without
    <3>3. IsFiniteSet(DOMAIN ss) /\ Cardinality(DOMAIN ss) = Cardinality(DOMAIN all) - 1
      BY <1>7, <3>1, <3>2, FS_RemoveElement
    <3>4. Cardinality(DOMAIN ss) <= MaxSummaries
      BY <1>7, <3>3, ConstAssumption DEF ConstAssumption
    <3> QED
      BY <1>6, <3>2, <3>3, <3>4 DEF SumsOK
  <2> QED
    BY <1>8, <2>1, <2>2
<1>11. SummarySet(c, new)
  BY <1>3, <1>4, <1>8, <1>9, <1>10 DEF SummarySet
<1> QED
  BY <1>1, <1>11

LEMMA SummariseKeeps ==
  ASSUME MemInv, NEW p \in Posts, Summarise(p)
  PROVE  MemInv'
<1>1. /\ pc[p] = "summary" /\ pc' = [pc EXCEPT ![p] = "check"]
      /\ UNCHANGED <<mode, memories, total, clock, evicted, optimizing, conv, todo, snap, writes,
                     unordered, learned, overlapped, rows, sumRows, file, loaded, missed>>
  BY DEF Summarise, Goto, memVars, addVars, diskVars, faultVars
<1>2. pc \in [Posts -> Steps] /\ conv[p] \in Convs
  BY DEF MemInv, MemTypes, PostsOK
<1>3. /\ pc' \in [Posts -> Steps]
      /\ \A q \in Posts : \/ pc'[q] = pc[q]
                          \/ pc'[q] \notin Locking /\ pc[q] \notin Locking
  BY <1>1, <1>2 DEF Steps, Locking
<1>4. PostsOK'
  BY <1>1, <1>3 DEF MemInv, MemTypes, PostsOK
<1>5. /\ SumsOK(sums') /\ SumWritesOK' /\ sumClock' \in Nat
      /\ (mode = "db" /\ ~missed) => \A c \in DOMAIN sums' : SummaryComes(c)'
      /\ dirty' = TRUE \/ (sums' = sums /\ dirty' = dirty)
  <2>1. CASE UNCHANGED <<sumVars, dirty>>
    <3>1. UNCHANGED <<sums, sumClock, sumWrites, dirty>>
      BY <2>1 DEF sumVars
    <3>2. SumsOK(sums') /\ SumWritesOK' /\ sumClock' \in Nat
      BY <3>1 DEF MemInv, MemTypes, SumWritesOK
    <3>3. (mode = "db" /\ ~missed) => \A c \in DOMAIN sums' : SummaryComes(c)'
      BY <1>1, <3>1 DEF MemInv, TableComes, SummaryComes
    <3> QED
      BY <3>1, <3>2, <3>3
  <2>2. CASE SetConversationSummary(p)
    <3>1. PICK c, new : c = conv[p] /\ SummarySet(c, new)
      BY <2>2, SetDoes
    <3>2. SumsOK(sums') /\ sumClock' \in Nat /\ dirty' = TRUE
      BY <3>1 DEF SummarySet
    <3>3. NoRow \in SummaryRecords
      BY DEF NoRow, SummaryRecords
    <3>4. PICK w : w = [conv |-> c, row |-> IF c \in DOMAIN sums' THEN new ELSE NoRow]
      OBVIOUS
    <3>5. /\ w.conv = c /\ w.row \in SummaryRecords
          /\ c \in DOMAIN sums' => w.row # NoRow
      BY <3>1, <3>3, <3>4 DEF SummarySet
    <3>6. sumWrites' = IF mode = "db" THEN sumWrites \cup {w} ELSE sumWrites
      BY <3>1, <3>4 DEF SummarySet
    <3>7. SumWritesOK'
      BY <1>2, <3>1, <3>5, <3>6 DEF MemInv, MemTypes, SumWritesOK
    <3>8. ASSUME mode = "db", ~missed, NEW d \in DOMAIN sums' PROVE SummaryComes(d)'
      <4>1. CASE d = c
        BY <3>5, <3>6, <3>8, <4>1 DEF SummaryComes
      <4>2. CASE d # c
        <5>1. d \in DOMAIN sums
          BY <3>1, <4>2 DEF SummarySet
        <5> QED
          BY <1>1, <3>6, <3>8, <5>1 DEF MemInv, TableComes, SummaryComes
      <4> QED
        BY <4>1, <4>2
    <3> QED
      BY <3>2, <3>7, <3>8
  <2> QED
    BY <2>1, <2>2 DEF Summarise
<1>6. MemTypes'
  BY <1>1, <1>4, <1>5 DEF MemInv, MemTypes, MemoryStoreOK, SumRowsOK, FileOK, SumsOK, WritesOK
<1>7. TotalCovers' /\ FactsKept'
  BY <1>1 DEF MemInv, TotalCovers, FactsKept
<1>8. CopyHas'
  BY <1>1, <1>3 DEF MemInv, CopyHas, Locking
<1>9. TableComes'
  BY <1>1, <1>3, <1>5 DEF MemInv, TableComes, Locking
<1>10. FileFollows'
  BY <1>1, <1>5 DEF MemInv, FileFollows
<1> QED
  BY <1>6, <1>7, <1>8, <1>9, <1>10 DEF MemInv

--------------------------------------------------------------------------------
(* The compression.                                                             *)

LEMMA CompressKeeps ==
  ASSUME MemInv, NEW p \in Posts, Compress(p)
  PROVE  MemInv'
<1>1. /\ pc[p] = "compress" /\ pc' = [pc EXCEPT ![p] = "replace"]
      /\ UNCHANGED <<mode, memories, total, evicted, sums, sumClock, sumWrites, dirty, optimizing,
                     conv, todo, writes, unordered, learned, overlapped, rows, sumRows, file,
                     loaded, missed>>
  BY DEF Compress, Goto, sumVars, addVars, diskVars, faultVars
<1>2. /\ pc \in [Posts -> Steps] /\ snap \in [Posts -> Seq(Memories)] /\ clock \in Nat
      /\ \A q \in Posts : Len(snap[q]) <= MaxMemories
      /\ MaxMemories \in Nat \ {0}
  BY ConstAssumption DEF ConstAssumption, MemInv, MemTypes, PostsOK
<1>3. PICK result \in Seq(Memories) :
        /\ snap' = [snap EXCEPT ![p] = result] /\ Len(result) <= MaxMemories
        /\ Stated(result) = Stated(snap[p]) /\ clock' \in Nat
  <2>1. CASE snap' = [snap EXCEPT ![p] = OnFailure(@)] /\ UNCHANGED clock
    <3>1. snap' = [snap EXCEPT ![p] = snap[p]]
      BY <2>1 DEF OnFailure
    <3> QED
      BY <1>2, <2>1, <3>1
  <2>2. ASSUME NEW t \in CompressedTokens, clock' = clock + 1,
               snap' = [snap EXCEPT ![p] =
                 <<[id |-> clock + 1, facts |-> Stated(snap[p]), tokens |-> t]>>]
        PROVE  \E result \in Seq(Memories) :
                 /\ snap' = [snap EXCEPT ![p] = result] /\ Len(result) <= MaxMemories
                 /\ Stated(result) = Stated(snap[p]) /\ clock' \in Nat
    <3>1. PICK m : m = [id |-> clock + 1, facts |-> Stated(snap[p]), tokens |-> t]
      OBVIOUS
    <3>2. Range(snap[p]) \subseteq Memories
      BY <1>2, RangeIn
    <3>3. Stated(snap[p]) \subseteq Facts
      BY <3>2, MemoryTokens DEF Stated
    <3>4. m \in Memories /\ m.facts = Stated(snap[p])
      BY <1>2, <3>1, <3>3, ConstAssumption DEF ConstAssumption, Memories
    <3>5. <<m>> \in Seq(Memories) /\ Len(<<m>>) = 1 /\ DOMAIN <<m>> = {1} /\ <<m>>[1] = m
      BY <3>4
    <3>6. Range(<<m>>) = {m}
      BY <3>5 DEF Range
    <3>7. Stated(<<m>>) = m.facts
      BY <3>6 DEF Stated
    <3>8. /\ snap' = [snap EXCEPT ![p] = <<m>>] /\ clock' \in Nat
          /\ <<m>> \in Seq(Memories) /\ Stated(<<m>>) = Stated(snap[p])
          /\ Len(<<m>>) <= MaxMemories
      BY <1>2, <2>2, <3>1, <3>4, <3>5, <3>7
    <3> QED
      BY <3>8
  <2> QED
    BY <2>1, <2>2 DEF Compress
<1>4. /\ pc' \in [Posts -> Steps] /\ snap' \in [Posts -> Seq(Memories)]
      /\ pc'[p] = "replace" /\ snap'[p] = result
      /\ \A q \in Posts \ {p} : pc'[q] = pc[q] /\ snap'[q] = snap[q]
  BY <1>1, <1>2, <1>3 DEF Steps
<1>5. PostsOK'
  <2>1. \A q \in Posts : Len(snap'[q]) <= MaxMemories
    BY <1>2, <1>3, <1>4
  <2>2. \A q \in Posts : (optimizing' = q) <=> pc'[q] \in Locking
    BY <1>1, <1>4 DEF MemInv, MemTypes, PostsOK, Locking
  <2> QED
    BY <1>1, <1>4, <2>1, <2>2 DEF MemInv, MemTypes, PostsOK
<1>6. MemTypes'
  BY <1>1, <1>3, <1>5 DEF MemInv, MemTypes, MemoryStoreOK, SumsOK, SumRowsOK, SumWritesOK, FileOK,
    WritesOK
<1>7. TotalCovers' /\ FactsKept' /\ FileFollows'
  BY <1>1 DEF MemInv, TotalCovers, FactsKept, FileFollows
<1>8. CopyHas'
  <2> SUFFICES ASSUME NEW q \in Posts, pc'[q] \in {"compress", "replace"}
               PROVE  Stated(memories) \subseteq Stated(snap'[q]) \cup overlapped
    BY <1>1 DEF CopyHas
  <2>1. pc[q] \in {"compress", "replace"} /\ Stated(snap'[q]) = Stated(snap[q])
    BY <1>1, <1>3, <1>4
  <2> QED
    BY <2>1 DEF MemInv, CopyHas
<1>9. \A q \in Posts : pc'[q] = "sync" => pc[q] = "sync" /\ snap'[q] = snap[q]
  BY <1>4
<1>10. \A q \in Posts : pc[q] = "sync" => pc'[q] = "sync"
  BY <1>1, <1>4
<1>11. TableComes'
  BY <1>1, <1>9, <1>10 DEF MemInv, TableComes, SummaryComes
<1> QED
  BY <1>6, <1>7, <1>8, <1>11 DEF MemInv

LEMMA ReplaceKeeps ==
  ASSUME MemInv, NEW p \in Posts, Replace(p)
  PROVE  MemInv'
<1>1. /\ pc[p] = "replace" /\ pc' = [pc EXCEPT ![p] = "sync"]
      /\ memories' = snap[p] /\ total' = Tokens(snap[p]) /\ dirty' = TRUE
      /\ UNCHANGED <<mode, clock, evicted, sums, sumClock, sumWrites, optimizing, conv, todo, snap,
                     writes, unordered, learned, overlapped, rows, sumRows, file, loaded, missed>>
  BY DEF Replace, DirtyAfter, Goto, sumVars, addVars, diskVars, faultVars
<1>2. /\ pc \in [Posts -> Steps] /\ snap[p] \in Seq(Memories) /\ Len(snap[p]) <= MaxMemories
      /\ \A q \in Posts : (optimizing = q) <=> pc[q] \in Locking
  BY DEF MemInv, MemTypes, PostsOK
<1>3. \A q \in Posts \ {p} : pc[q] \notin Locking
  BY <1>1, <1>2 DEF Locking
<1>4. /\ pc' \in [Posts -> Steps] /\ pc'[p] = "sync"
      /\ \A q \in Posts \ {p} : pc'[q] = pc[q] /\ pc'[q] \notin Locking
  BY <1>1, <1>2, <1>3 DEF Steps
<1>5. PostsOK'
  BY <1>1, <1>2, <1>4 DEF MemInv, MemTypes, PostsOK, Locking
<1>6. Tokens(snap[p]) \in Nat
  BY <1>2, TokensNat
<1>7. MemoryStoreOK' /\ TotalCovers'
  BY <1>1, <1>2, <1>6 DEF MemoryStoreOK, TotalCovers
<1>8. MemTypes'
  BY <1>1, <1>5, <1>7 DEF MemInv, MemTypes, SumsOK, SumRowsOK, SumWritesOK, FileOK, WritesOK
<1>9. FactsKept'
  <2>1. Stated(memories) \subseteq Stated(snap[p]) \cup overlapped
    BY <1>1 DEF MemInv, CopyHas
  <2> QED
    BY <1>1, <2>1 DEF MemInv, FactsKept
<1>10. CopyHas'
  BY <1>4 DEF CopyHas, Locking
<1>11. FileFollows'
  BY <1>1 DEF FileFollows
<1>12. TableComes'
  <2>1. (mode = "db" /\ ~missed) => \A c \in DOMAIN sums' : SummaryComes(c)'
    BY <1>1 DEF MemInv, TableComes, SummaryComes
  <2>2. \A q \in Posts : pc'[q] = "sync" => q = p
    BY <1>4 DEF Locking
  <2> QED
    BY <1>1, <1>4, <2>1, <2>2 DEF TableComes
<1> QED
  BY <1>7, <1>8, <1>9, <1>10, <1>11, <1>12 DEF MemInv

LEMMA SyncKeeps ==
  ASSUME MemInv, NEW p \in Posts, SyncReplaced(p)
  PROVE  MemInv'
<1>1. PICK w : w = [op |-> "replace", rows |-> Range(snap[p])]
  OBVIOUS
<1>2. /\ pc[p] = "sync" /\ pc' = [pc EXCEPT ![p] = "ended"]
      /\ writes' = IF mode = "db" THEN Append(writes, w) ELSE writes
      /\ optimizing' = NoPost /\ snap' = [snap EXCEPT ![p] = <<>>]
      /\ UNCHANGED <<mode, memories, total, clock, evicted, sums, sumClock, sumWrites, dirty, conv,
                     todo, unordered, learned, overlapped, rows, sumRows, file, loaded, missed>>
  BY <1>1 DEF SyncReplaced, Enqueue, End, Goto, memVars, sumVars, addVars, diskVars, faultVars
<1>3. /\ pc \in [Posts -> Steps] /\ snap \in [Posts -> Seq(Memories)]
      /\ \A q \in Posts : Len(snap[q]) <= MaxMemories
      /\ \A q \in Posts : (optimizing = q) <=> pc[q] \in Locking
      /\ MaxMemories \in Nat /\ NoPost \notin Posts
  BY ConstAssumption DEF ConstAssumption, MemInv, MemTypes, PostsOK
<1>4. \A q \in Posts \ {p} : pc[q] \notin Locking
  BY <1>2, <1>3 DEF Locking
<1>5. <<>> \in Seq(Memories) /\ Len(<<>>) = 0
  OBVIOUS
<1>6. /\ pc' \in [Posts -> Steps] /\ snap' \in [Posts -> Seq(Memories)]
      /\ \A q \in Posts : Len(snap'[q]) <= MaxMemories /\ pc'[q] \notin Locking
  <2>1. pc' \in [Posts -> Steps] /\ pc'[p] = "ended" /\ \A q \in Posts \ {p} : pc'[q] = pc[q]
    BY <1>2, <1>3 DEF Steps
  <2>2. /\ snap' \in [Posts -> Seq(Memories)] /\ snap'[p] = <<>>
        /\ \A q \in Posts \ {p} : snap'[q] = snap[q]
    BY <1>2, <1>3, <1>5
  <2>3. \A q \in Posts : Len(snap'[q]) <= MaxMemories
    <3> SUFFICES ASSUME NEW q \in Posts PROVE Len(snap'[q]) <= MaxMemories
      OBVIOUS
    <3>1. CASE q = p
      <4>1. Len(snap'[q]) = 0
        BY <1>5, <2>2, <3>1
      <4> QED
        BY <1>3, <4>1
    <3>2. CASE q # p
      BY <1>3, <2>2, <3>2
    <3> QED
      BY <3>1, <3>2
  <2>4. \A q \in Posts : pc'[q] \notin Locking
    BY <1>4, <2>1 DEF Locking
  <2> QED
    BY <2>1, <2>2, <2>3, <2>4
<1>7. PostsOK'
  BY <1>2, <1>3, <1>6 DEF MemInv, MemTypes, PostsOK
<1>8. w \in MemoryWrites /\ w.rows = Range(snap[p]) /\ w.op = "replace"
  <2>1. Range(snap[p]) \subseteq Memories
    BY <1>3, RangeIn
  <2> QED
    BY <1>1, <2>1 DEF MemoryWrites
<1>9. WritesOK'
  BY <1>2, <1>8 DEF MemInv, MemTypes, WritesOK
<1>10. MemTypes'
  BY <1>2, <1>7, <1>9 DEF MemInv, MemTypes, MemoryStoreOK, SumsOK, SumRowsOK, SumWritesOK, FileOK
<1>11. TotalCovers' /\ FactsKept' /\ FileFollows'
  BY <1>2 DEF MemInv, TotalCovers, FactsKept, FileFollows
<1>12. CopyHas'
  BY <1>6 DEF CopyHas, Locking
<1>13. TableComes'
  <2> SUFFICES ASSUME mode = "db", ~missed PROVE TableComes'
    BY <1>2 DEF TableComes
  <2>1. \A c \in DOMAIN sums' : SummaryComes(c)'
    BY <1>2 DEF MemInv, TableComes, SummaryComes
  <2>2. \A q \in Posts : pc'[q] # "sync"
    BY <1>6 DEF Locking
  <2>3. ASSUME ~unordered, NEW m \in Range(memories)
        PROVE  OnItsWay(m, rows, Append(writes, w))
    <3>1. m \in w.rows
      BY <1>2, <1>8, <2>3 DEF MemInv, TableComes
    <3>2. writes \in Seq(MemoryWrites)
      BY DEF MemInv, MemTypes, WritesOK
    <3> QED
      BY <1>8, <3>1, <3>2, WriteAdded
  <2>4. writes' = Append(writes, w)
    BY <1>2
  <2> QED
    BY <1>2, <2>1, <2>2, <2>3, <2>4 DEF TableComes
<1> QED
  BY <1>10, <1>11, <1>12, <1>13 DEF MemInv

--------------------------------------------------------------------------------
(* Writes and loads.                                                            *)

LEMMA WriteMemoryKeeps ==
  ASSUME MemInv, NEW i \in 1..Len(writes), WriteMemory(i)
  PROVE  MemInv'
<1>1. /\ writes' = RemoveAt(writes, i) /\ unordered' = (unordered \/ i > 1)
      /\ \/ rows' = Written1(rows, writes[i]) /\ missed' = missed
         \/ missed' = TRUE /\ rows' = rows
      /\ UNCHANGED <<mode, memories, total, clock, evicted, sums, sumClock, sumWrites, dirty,
                     optimizing, pc, conv, todo, snap, learned, overlapped, sumRows, file, loaded>>
  BY DEF WriteMemory, Mishap, Written1, memVars, sumVars, postVars, addVars
<1>2. writes \in Seq(MemoryWrites) /\ writes[i] \in MemoryWrites /\ rows \subseteq Memories
  BY DEF MemInv, MemTypes, WritesOK
<1>3. writes' \in Seq(MemoryWrites) /\ (i = 1 => writes' = Tail(writes))
  BY <1>1, <1>2, FirstRemoved
<1>4. writes[i].rows \subseteq Memories
  BY <1>2 DEF MemoryWrites
<1>5. rows' \subseteq Memories
  BY <1>1, <1>2, <1>4 DEF Written1
<1>6. MemTypes'
  BY <1>1, <1>3, <1>5 DEF MemInv, MemTypes, MemoryStoreOK, PostsOK, SumsOK, SumRowsOK, SumWritesOK,
    FileOK, WritesOK
<1>7. TotalCovers' /\ FactsKept' /\ CopyHas'
  BY <1>1 DEF MemInv, TotalCovers, FactsKept, CopyHas
<1>8. FileFollows'
  BY <1>1 DEF MemInv, FileFollows
<1>9. TableComes'
  <2> SUFFICES ASSUME mode = "db", ~missed' PROVE TableComes'
    BY <1>1 DEF TableComes
  <2>1. ~missed /\ rows' = Written1(rows, writes[i])
    BY <1>1
  <2>2. \A c \in DOMAIN sums' : SummaryComes(c)'
    BY <1>1, <2>1 DEF MemInv, TableComes, SummaryComes
  <2>3. ASSUME ~unordered'
        PROVE  /\ \A p \in Posts : pc[p] = "sync" => Range(memories) \subseteq Range(snap[p])
               /\ (\A p \in Posts : pc[p] # "sync") =>
                    \A m \in Range(memories) : OnItsWay(m, rows', writes')
    <3>1. ~unordered /\ ~(i > 1)
      BY <1>1, <2>3, Zenon
    <3>2. i = 1 /\ writes # <<>>
      BY <1>2, <3>1
    <3>3. /\ \A p \in Posts : pc[p] = "sync" => Range(memories) \subseteq Range(snap[p])
          /\ (\A p \in Posts : pc[p] # "sync") =>
               \A m \in Range(memories) : OnItsWay(m, rows, writes)
      BY <2>1, <3>1 DEF MemInv, TableComes
    <3>4. \A m : OnItsWay(m, rows, writes) => OnItsWay(m, rows', writes')
      BY <1>2, <1>3, <2>1, <3>2, WriteDone
    <3> QED
      BY <3>3, <3>4
  <2> QED
    BY <1>1, <2>2, <2>3 DEF TableComes
<1> QED
  BY <1>6, <1>7, <1>8, <1>9 DEF MemInv

LEMMA WriteSummaryKeeps ==
  ASSUME MemInv, NEW w \in sumWrites, WriteSummary(w)
  PROVE  MemInv'
<1>1. /\ w.row # NoRow /\ sumWrites' = sumWrites \ {w}
      /\ \/ sumRows' = SummaryRow(w) /\ missed' = missed
         \/ missed' = TRUE /\ sumRows' = sumRows
      /\ UNCHANGED <<mode, memories, total, clock, evicted, sums, sumClock, dirty, optimizing, pc,
                     conv, todo, snap, writes, unordered, learned, overlapped, rows, file, loaded>>
  BY DEF WriteSummary, Mishap, memVars, postVars, addVars
<1>2. w.conv \in Convs /\ w.row \in SummaryRecords
  BY DEF MemInv, MemTypes, SumWritesOK
<1>3. SumRowsOK(sumRows) /\ SumRowsOK(SummaryRow(w))
      /\ DOMAIN SummaryRow(w) = DOMAIN sumRows \cup {w.conv}
  <2>1. SumRowsOK(sumRows)
    BY DEF MemInv, MemTypes
  <2>2. CASE w.conv \in DOMAIN sumRows
    <3>1. PICK u \in Nat : u = w.row.updated
      BY <1>2 DEF SummaryRecords
    <3>2. SummaryRow(w) = [sumRows EXCEPT ![w.conv].updated = u]
      BY <2>2, <3>1 DEF SummaryRow
    <3>3. /\ DOMAIN SummaryRow(w) = DOMAIN sumRows
          /\ \A c \in DOMAIN sumRows \ {w.conv} : SummaryRow(w)[c] = sumRows[c]
          /\ SummaryRow(w)[w.conv] = [sumRows[w.conv] EXCEPT !.updated = u]
      BY <2>2, <3>2
    <3>4. sumRows[w.conv] \in SummaryRecords
      BY <2>1, <2>2 DEF SumRowsOK
    <3>5. [sumRows[w.conv] EXCEPT !.updated = u] \in SummaryRecords
      BY <3>1, <3>4 DEF SummaryRecords
    <3> QED
      BY <2>1, <2>2, <3>3, <3>5 DEF SumRowsOK
  <2>3. CASE w.conv \notin DOMAIN sumRows
    <3>1. /\ DOMAIN SummaryRow(w) = DOMAIN sumRows \cup {w.conv}
          /\ \A c \in DOMAIN sumRows : SummaryRow(w)[c] = sumRows[c]
          /\ SummaryRow(w)[w.conv] = w.row
      BY <2>3 DEF SummaryRow
    <3> QED
      BY <1>2, <2>1, <3>1 DEF SumRowsOK
  <2> QED
    BY <2>1, <2>2, <2>3
<1>4. SumWritesOK'
  BY <1>1 DEF MemInv, MemTypes, SumWritesOK
<1>5. SumRowsOK(sumRows')
  BY <1>1, <1>3
<1>6. MemTypes'
  BY <1>1, <1>4, <1>5 DEF MemInv, MemTypes, MemoryStoreOK, PostsOK, SumsOK, FileOK, WritesOK
<1>7. TotalCovers' /\ FactsKept' /\ CopyHas'
  BY <1>1 DEF MemInv, TotalCovers, FactsKept, CopyHas
<1>8. FileFollows'
  BY <1>1 DEF MemInv, FileFollows
<1>9. TableComes'
  <2> SUFFICES ASSUME mode = "db", ~missed' PROVE TableComes'
    BY <1>1 DEF TableComes
  <2>1. ~missed /\ DOMAIN sumRows' = DOMAIN sumRows \cup {w.conv}
    BY <1>1, <1>3
  <2>2. ASSUME NEW c \in DOMAIN sums PROVE SummaryComes(c)'
    <3>1. SummaryComes(c)
      BY <2>1 DEF MemInv, TableComes
    <3> QED
      BY <1>1, <2>1, <3>1 DEF SummaryComes
  <2> QED
    BY <1>1, <2>1, <2>2 DEF MemInv, TableComes
<1> QED
  BY <1>6, <1>7, <1>8, <1>9 DEF MemInv

LEMMA SaveKeeps ==
  ASSUME MemInv, SaveIfDirty
  PROVE  MemInv'
<1>1. /\ mode = "file" /\ dirty' = FALSE
      /\ \/ file' = [memories |-> memories, sums |-> sums] /\ missed' = missed
         \/ missed' = TRUE /\ file' = file
      /\ UNCHANGED <<mode, memories, total, clock, evicted, sums, sumClock, sumWrites, optimizing,
                     pc, conv, todo, snap, writes, unordered, learned, overlapped, rows, sumRows,
                     loaded>>
  BY DEF SaveIfDirty, Mishap, memVars, sumVars, postVars, addVars
<1>2. FileOK([memories |-> memories, sums |-> sums]) /\ FileOK(file)
  BY DEF MemInv, MemTypes, MemoryStoreOK, FileOK
<1>3. FileOK(file')
  BY <1>1, <1>2
<1>4. MemTypes'
  BY <1>1, <1>3 DEF MemInv, MemTypes, MemoryStoreOK, PostsOK, SumsOK, SumRowsOK, SumWritesOK, WritesOK
<1>5. TotalCovers' /\ FactsKept' /\ CopyHas'
  BY <1>1 DEF MemInv, TotalCovers, FactsKept, CopyHas
<1>6. TableComes'
  BY <1>1 DEF TableComes
<1>7. FileFollows'
  BY <1>1 DEF FileFollows
<1> QED
  BY <1>4, <1>5, <1>6, <1>7 DEF MemInv

\* The summaries a load takes from the table.
LEMMA SummariesLoaded ==
  ASSUME SumRowsOK(sumRows), NEW n \in Nat, n = MaxSummaries,
         NEW at, at = [c \in DOMAIN sumRows |-> sumRows[c].updated],
         NEW chosen \in NewestFirst(at, n),
         NEW ss, ss = [c \in Range(chosen) |-> sumRows[c]]
  PROVE  SumsOK(ss) /\ DOMAIN ss \subseteq DOMAIN sumRows
<1>1. DOMAIN at = DOMAIN sumRows
  OBVIOUS
<1>2. chosen \in Seq(DOMAIN sumRows) /\ Len(chosen) <= n /\ Range(chosen) \subseteq DOMAIN sumRows
  BY <1>1, NewestAre
<1>3. Len(chosen) \in Nat /\ DOMAIN chosen = 1..Len(chosen)
  BY <1>2
<1>4. chosen \in Surjection(1..Len(chosen), Range(chosen))
  BY <1>2, <1>3 DEF Surjection, Range
<1>5. IsFiniteSet(1..Len(chosen)) /\ Cardinality(1..Len(chosen)) = Len(chosen)
  <2>1. PICK k \in Nat : k = Len(chosen)
    BY <1>3
  <2>2. IsFiniteSet(1..k) /\ Cardinality(1..k) = IF 1 > k THEN 0 ELSE k - 1 + 1
    BY FS_Interval
  <2>3. (IF 1 > k THEN 0 ELSE k - 1 + 1) = k
    OBVIOUS
  <2> QED
    BY <2>1, <2>2, <2>3
<1>6. IsFiniteSet(Range(chosen)) /\ Cardinality(Range(chosen)) <= Len(chosen)
  BY <1>4, <1>5, FS_Surjection
<1>7. Cardinality(Range(chosen)) <= n
  BY <1>2, <1>3, <1>6, FS_CardinalityType
<1> QED
  BY <1>2, <1>6, <1>7 DEF SumsOK, SumRowsOK

LEMMA LoadKeeps ==
  ASSUME MemInv, NEW image, FileOK(image), LoadFrom(image)
  PROVE  MemInv'
<1>1. /\ LoadMemories(image) /\ LoadSummaries(image)
      /\ loaded' = TRUE /\ file' = image /\ total' = LoadedTotal(memories', sums')
      /\ dirty' = FALSE /\ optimizing' = NoPost
      /\ pc' = [p \in Posts |-> IF pc[p] = "idle" THEN "idle" ELSE "ended"]
      /\ todo' = [p \in Posts |-> {}] /\ snap' = [p \in Posts |-> <<>>]
      /\ writes' = <<>> /\ sumWrites' = {}
      /\ learned' = {} /\ overlapped' = {}
      /\ UNCHANGED <<mode, conv, rows, sumRows, clock, sumClock>>
  BY DEF LoadFrom
<1>2. MaxMemories \in Nat /\ MaxSummaries \in Nat /\ SummaryTokens \in Nat /\ NoPost \notin Posts
  BY ConstAssumption DEF ConstAssumption
<1>3. /\ mode \in {"db", "file"} /\ rows \subseteq Memories /\ SumRowsOK(sumRows)
      /\ conv \in [Posts -> Convs] /\ clock \in Nat /\ sumClock \in Nat
  BY DEF MemInv, MemTypes, WritesOK, PostsOK
<1>4. /\ memories' \in Seq(Memories) /\ Len(memories') <= MaxMemories
      /\ mode = "db" => Range(memories') \subseteq rows
      /\ mode = "file" => memories' = image.memories
  <2>1. CASE mode = "db"
    <3>1. PICK at : at = [m \in rows |-> m.id]
      OBVIOUS
    <3>2. memories' \in NewestFirst(at, MaxMemories) /\ DOMAIN at = rows
      BY <1>1, <2>1, <3>1 DEF LoadMemories
    <3>3. memories' \in Seq(rows) /\ Len(memories') <= MaxMemories /\ Range(memories') \subseteq rows
      BY <1>2, <3>2, NewestAre
    <3>4. memories' \in Seq(Memories)
      BY <1>3, <3>3
    <3> QED
      BY <2>1, <3>3, <3>4
  <2>2. CASE mode = "file"
    <3>1. memories' = image.memories
      BY <1>1, <2>2 DEF LoadMemories
    <3> QED
      BY <2>2, <3>1 DEF FileOK
  <2> QED
    BY <1>3, <2>1, <2>2
<1>5. /\ SumsOK(sums')
      /\ mode = "db" => DOMAIN sums' \subseteq DOMAIN sumRows
      /\ mode = "file" => sums' = image.sums
  <2>1. CASE mode = "db"
    <3>1. PICK at : at = [c \in DOMAIN sumRows |-> sumRows[c].updated]
      OBVIOUS
    <3>2. PICK chosen \in NewestFirst(at, MaxSummaries) :
            sums' = [c \in Range(chosen) |-> sumRows[c]]
      BY <1>1, <2>1, <3>1 DEF LoadSummaries
    <3> QED
      BY <1>2, <1>3, <2>1, <3>1, <3>2, SummariesLoaded
  <2>2. CASE mode = "file"
    <3>1. sums' = image.sums
      BY <1>1, <2>2 DEF LoadSummaries
    <3> QED
      BY <2>2, <3>1 DEF FileOK
  <2> QED
    BY <1>3, <2>1, <2>2
<1>6. total' \in Nat /\ total' >= Tokens(memories')
  <2>1. Tokens(memories') \in Nat
    BY <1>4, TokensNat
  <2>2. PICK n \in Nat : n = Cardinality(DOMAIN sums')
    BY <1>5, FS_CardinalityType DEF SumsOK
  <2>3. total' = Tokens(memories') + SummaryTokens * n
    BY <1>1, <2>2 DEF LoadedTotal
  <2>4. SummaryTokens * n \in Nat
    BY <1>2, <2>2
  <2> QED
    BY <2>1, <2>3, <2>4
<1>7. PostsOK'
  <2>1. /\ pc' \in [Posts -> Steps] /\ \A p \in Posts : pc'[p] \notin Locking
    BY <1>1 DEF Steps, Locking
  <2>2. <<>> \in Seq(Memories) /\ Len(<<>>) = 0
    OBVIOUS
  <2>3. snap' \in [Posts -> Seq(Memories)] /\ \A p \in Posts : snap'[p] = <<>>
    BY <1>1, <2>2
  <2>4. \A p \in Posts : Len(snap'[p]) <= MaxMemories
    BY <1>2, <2>2, <2>3
  <2>5. todo' \in [Posts -> SUBSET Facts] /\ conv' \in [Posts -> Convs]
    BY <1>1, <1>3
  <2> QED
    BY <1>1, <1>2, <2>1, <2>3, <2>4, <2>5 DEF PostsOK
<1>8. MemTypes'
  <2>1. <<>> \in Seq(MemoryWrites)
    OBVIOUS
  <2>2. WritesOK' /\ SumWritesOK' /\ SumRowsOK(sumRows') /\ FileOK(file')
    BY <1>1, <1>3, <2>1 DEF WritesOK, SumWritesOK
  <2>3. MemoryStoreOK'
    BY <1>4, <1>6 DEF MemoryStoreOK
  <2> QED
    BY <1>1, <1>3, <1>5, <1>7, <2>2, <2>3 DEF MemTypes
<1>9. TotalCovers'
  BY <1>1, <1>6 DEF TotalCovers
<1>10. FactsKept' /\ CopyHas'
  BY <1>1 DEF FactsKept, CopyHas
<1>11. TableComes'
  <2>1. \A p \in Posts : pc'[p] # "sync"
    BY <1>1
  <2>2. mode = "db" => \A m \in Range(memories') : OnItsWay(m, rows, <<>>)
    BY <1>4, NothingToCome
  <2>3. mode = "db" => \A c \in DOMAIN sums' : SummaryComes(c)'
    BY <1>1, <1>5 DEF SummaryComes
  <2> QED
    BY <1>1, <2>1, <2>2, <2>3 DEF TableComes
<1>12. FileFollows'
  BY <1>1, <1>4, <1>5 DEF FileFollows, FileOK
<1> QED
  BY <1>8, <1>9, <1>10, <1>11, <1>12 DEF MemInv

LEMMA MemStep == MemInv /\ [Next]_vars => MemInv'
<1> SUFFICES ASSUME MemInv, [Next]_vars PROVE MemInv'
  OBVIOUS
<1>1. FileOK(file)
  BY DEF MemInv, MemTypes
<1>2. FileOK(NoFile)
  <2>1. MemInv => \A n \in Nat : 0 <= n
    OBVIOUS
  <2>2. NoFile.memories = <<>> /\ NoFile.sums = <<>>
        /\ NoFile = [memories |-> NoFile.memories, sums |-> NoFile.sums]
    BY DEF NoFile
  <2>3. <<>> \in Seq(Memories) /\ Len(<<>>) = 0 /\ DOMAIN <<>> = {}
    OBVIOUS
  <2>4. SumsOK(<<>>) /\ 0 <= MaxMemories
    BY <2>1, <2>3, FS_EmptySet, ConstAssumption DEF SumsOK, ConstAssumption
  <2> QED
    BY <2>2, <2>3, <2>4 DEF FileOK
<1>3. ASSUME NEW p \in Posts, Extract(p) \/ PostStep(p) PROVE MemInv'
  BY <1>3, ExtractKeeps, AddKeeps, SummariseKeeps, TryLockKeeps, CompressKeeps, ReplaceKeeps,
     SyncKeeps DEF PostStep
<1>4. ASSUME Restart \/ CrashInSave \/ Panic PROVE MemInv'
  BY <1>1, <1>2, <1>4, LoadKeeps DEF Restart, CrashInSave, Panic
<1>5. CASE UNCHANGED vars
  BY <1>5 DEF vars, MemInv, MemTypes, MemoryStoreOK, PostsOK, SumsOK, SumRowsOK, SumWritesOK, FileOK,
    WritesOK, TotalCovers, FactsKept, CopyHas, TableComes, SummaryComes, FileFollows
<1> QED
  BY <1>3, <1>4, <1>5, WriteMemoryKeeps, WriteSummaryKeeps, SaveKeeps DEF Next

LEMMA MemInvHolds == Spec => []MemInv
BY MemInitInv, MemStep, PTL DEF Spec

\* Types: the store keeps at most MaxMemories memories and MaxSummaries
\* summaries, whatever is added, compressed and loaded, and one post at most
\* holds the lock of the compression.
THEOREM MemoryTypesHold == Spec => []TypeOK
<1>1. MemInv => TypeOK
  <2> SUFFICES ASSUME MemInv PROVE TypeOK
    OBVIOUS
  <2>1. Range(memories) \subseteq Memories
    BY RangeIn DEF MemInv, MemTypes, MemoryStoreOK
  <2>2. Range(sums) \subseteq SummaryRecords /\ Range(sumRows) \subseteq SummaryRecords
    BY DEF MemInv, MemTypes, SumsOK, SumRowsOK, Range
  <2> QED
    BY <2>1, <2>2 DEF MemInv, MemTypes, MemoryStoreOK, PostsOK, SumsOK, SumRowsOK, WritesOK, Locking,
      TypeOK
<1> QED
  BY <1>1, MemInvHolds, PTL

\* The token count never falls below what the memories cost, and is exact
\* until the daemon is started again: by induction over the sequence counted.
THEOREM TotalCoversHolds == Spec => []TotalCovers
<1>1. MemInv => TotalCovers
  BY DEF MemInv
<1> QED
  BY <1>1, MemInvHolds, PTL

\* A fact that was learned is stated by a memory, was dropped over the limit,
\* or came while a compression was under way: of what the store has, a copy
\* under compression states the rest.
THEOREM FactsKeptHolds == Spec => []FactsKept
<1>1. MemInv => FactsKept
  BY DEF MemInv
<1> QED
  BY <1>1, MemInvHolds, PTL

\* The disk has what the store has once all writes were carried out in order
\* and none failed: each memory is in the table or in a write that no later one
\* undoes, each summary in its table or in a write.
THEOREM DiskCatchesUpHolds == Spec => []DiskCatchesUp
<1>1. MemInv => DiskCatchesUp
  <2> SUFFICES ASSUME MemInv, ~missed
               PROVE  IF mode = "db"
                      THEN /\ writes = <<>> /\ ~unordered /\ (\A p \in Posts : pc[p] # "sync")
                                => Range(memories) \subseteq rows
                           /\ sumWrites = {} => DOMAIN sums \subseteq DOMAIN sumRows
                      ELSE ~dirty => file = [memories |-> memories, sums |-> sums]
    BY DEF DiskCatchesUp
  <2>1. CASE mode = "db"
    <3>1. ASSUME writes = <<>>, ~unordered, \A p \in Posts : pc[p] # "sync"
          PROVE  Range(memories) \subseteq rows
      <4>1. \A m \in Range(memories) : OnItsWay(m, rows, <<>>)
        BY <2>1, <3>1 DEF MemInv, TableComes
      <4> QED
        BY <4>1, NothingToCome
    <3>2. ASSUME sumWrites = {} PROVE DOMAIN sums \subseteq DOMAIN sumRows
      BY <2>1, <3>2 DEF MemInv, TableComes, SummaryComes
    <3> QED
      BY <2>1, <3>1, <3>2
  <2>2. CASE mode # "db"
    <3>1. mode = "file"
      BY <2>2 DEF MemInv, MemTypes
    <3> QED
      BY <2>2, <3>1 DEF MemInv, FileFollows
  <2> QED
    BY <2>1, <2>2
<1> QED
  BY <1>1, MemInvHolds, PTL

-------------------------------------------------------------------------------
(* The storages.                                                           *)

Columns == Twins!Tables \cup Twins!Lists
StoredRow == [key : Keys \cup Nat, text : Facts, born : Nat, at : Nat, ends : Nat]

\* A primary key; and the file's memories, of which no two say the same.
UniqueKeys(S) == \A x, y \in S : x.key = y.key => x = y
UniqueTexts(S) == \A x, y \in S : x.text = y.text => x = y

Stored(T) ==
  /\ DOMAIN T = Columns
  /\ \A t \in Twins!Tables : T[t] \subseteq StoredRow
  /\ \A t \in Twins!Keyed : UniqueKeys(T[t])
  /\ T["facts"] \in Seq(Facts)
SqlOK(T) == Stored(T) /\ UniqueKeys(T["memories"])
FilesOK(T) == Stored(T) /\ UniqueTexts(T["memories"])

\* The transaction has some of the rows asked for, and has the others to come.
KeysUpTo(S, c) == S \subseteq StoredRow /\ \A m \in S : m.key \in Nat /\ m.key <= c
TxOK(x, a, c) ==
  /\ KeysUpTo(a, c)
  /\ \/ x = Twins!NoTx
     \/ /\ x = [open |-> TRUE, todo |-> x.todo, rows |-> x.rows]
        /\ x.todo \in Seq(StoredRow) /\ UniqueKeys(x.rows)
        /\ x.rows \cup Twins!Range(x.todo) = a

\* Rows to import are rows of their tables; no call comes after the first.
ToImport(p) ==
  /\ p[1] \in Twins!Tables \cup {"facts"}
  /\ IF p[1] = "facts" THEN p[2].text \in Facts ELSE p[2] \in StoredRow
MigOK(g, S, a, c) ==
  /\ g = [next |-> g.next, todo |-> g.todo, read |-> g.read, skipped |-> g.skipped]
  /\ g.next \in Nat \ {0} /\ \A p \in g.todo \cup g.read : ToImport(p)
  /\ IF g.next = 1 THEN g.todo = {} /\ g.read = {} /\ KeysUpTo(S, c) ELSE a

StorageInv ==
  /\ dbClock \in Nat /\ SqlOK(sql) /\ FilesOK(dbFile) /\ FilesOK(disk)
  /\ TxOK(tx, asked, dbClock) /\ MigOK(mig, sql["memories"], apart, dbClock)

\* What a step does to the tables.
OneRow(S, S2) == /\ \A x, y \in S \ S2 : x = y
                 /\ S2 \subseteq S \/ \E r \in S2 : S2 \ S \subseteq {r}
Effect(T, T2, t, a) ==
  /\ \/ OneRow(T[t], T2[t])
     \/ t = "sessions" /\ T2[t] \subseteq T[t]
     \/ t = "memories" /\ T2[t] = a
  /\ \A u \in Twins!Tables \ {t} : T2[u] = T[u]
Effects(T, T2, a) == T2 = T \/ \E t \in Twins!Tables : Effect(T, T2, t, a)
FileSaved == \A t \in Twins!Tables : /\ dbFile'[t] = dbFile[t]
                                     /\ disk'[t] \in {dbFile[t], disk[t]}
FileReopened == \A t \in Twins!Tables : /\ disk'[t] \in {disk[t], {}}
                                        /\ dbFile'[t] = disk'[t]
FileCalled ==
  /\ \E t \in Twins!Tables : Effect(dbFile, dbFile', t, asked')
  /\ \A t \in Twins!Tables : disk'[t] = disk[t]
KeptByStep ==
  Effects(sql, sql', asked') /\ (FileCalled \/ FileSaved \/ FileReopened)

LEMMA ColumnNames ==
  /\ "memories" \in Twins!Tables /\ "memories" \notin Twins!Keyed
  /\ "sessions" \in Twins!Keyed /\ Twins!Keyed \subseteq Twins!Tables
  /\ Twins!Tables \cap Twins!Lists = {} /\ Twins!Tables \subseteq Columns
  /\ "facts" \in Twins!Lists /\ Twins!Lists \subseteq Columns
  /\ \A t \in Twins!Tables : t # "memories" => t \in Twins!Keyed
BY DEF Twins!Tables, Twins!Keyed, Twins!Lists, Columns

\* The refinement, from what the lemmas say of the steps.
LEMMA SqlRefines ==
  ASSUME Effects(sql, sql', asked')
  PROVE  [Twins!SqlTables!AtomicNext]_(Twins!SqlTables!tableVars)
<1>1. CASE sql' = sql
  BY <1>1 DEF Twins!SqlTables!tableVars
<1>2. CASE \E t \in Twins!Tables : Effect(sql, sql', t, asked')
  <2>1. PICK t \in Twins!Tables : Effect(sql, sql', t, asked')
    BY <1>2
  <2>2. Twins!SqlTables!Call(t)
    BY <2>1 DEF Twins!SqlTables!Call, Twins!SqlTables!Put, Twins!SqlTables!Remove,
      Twins!SqlTables!Expire, Twins!SqlTables!Replace, Twins!SqlTables!AtMostOneGoes,
      Effect, OneRow
  <2> QED
    BY <2>2 DEF Twins!SqlTables!AtomicNext
<1> QED
  BY <1>1, <1>2 DEF Effects

LEMMA FileRefines ==
  ASSUME FileCalled \/ FileSaved \/ FileReopened
  PROVE  [Twins!FileTables!AtomicNext]_(Twins!FileTables!tableVars)
<1>1. CASE FileCalled
  <2>1. PICK t \in Twins!Tables : Effect(dbFile, dbFile', t, asked')
    BY <1>1 DEF FileCalled
  <2>2. Twins!FileTables!Call(t)
    BY <1>1, <2>1 DEF FileCalled, Twins!FileTables!Call, Twins!FileTables!Put,
      Twins!FileTables!Remove, Twins!FileTables!Expire, Twins!FileTables!Replace,
      Twins!FileTables!AtMostOneGoes, Effect, OneRow
  <2> QED
    BY <2>2 DEF Twins!FileTables!AtomicNext
<1>2. CASE FileSaved
  BY <1>2 DEF FileSaved, Twins!FileTables!AtomicNext, Twins!FileTables!Save
<1>3. CASE FileReopened
  BY <1>3 DEF FileReopened, Twins!FileTables!AtomicNext, Twins!FileTables!Reopen
<1> QED
  BY <1>1, <1>2, <1>3

\* Assigning one column.
LEMMA Assigned ==
  ASSUME NEW T, DOMAIN T = Columns, NEW t \in Columns, NEW s,
         NEW U, U = [T EXCEPT ![t] = s]
  PROVE  DOMAIN U = Columns /\ U[t] = s /\ \A u \in Columns : u # t => U[u] = T[u]
OBVIOUS

LEMMA StoredTable ==
  ASSUME NEW T, Stored(T), NEW t \in Twins!Tables, NEW s \in SUBSET StoredRow,
         t \in Twins!Keyed => UniqueKeys(s), NEW U, U = [T EXCEPT ![t] = s]
  PROVE  Stored(U)
<1>1. DOMAIN T = Columns /\ t \in Columns
  BY ColumnNames DEF Stored
<1>2. DOMAIN U = Columns /\ U[t] = s /\ \A u \in Columns : u # t => U[u] = T[u]
  BY <1>1, Assigned
<1>3. \A u \in Twins!Tables : U[u] \subseteq StoredRow
  BY <1>2, ColumnNames DEF Stored
<1>4. \A u \in Twins!Keyed : UniqueKeys(U[u])
  BY <1>2, ColumnNames DEF Stored
<1>5. U["facts"] = T["facts"]
  BY <1>2, ColumnNames
<1> QED
  BY <1>2, <1>3, <1>4, <1>5 DEF Stored

LEMMA StoredList ==
  ASSUME NEW T, Stored(T), NEW t \in Twins!Lists, NEW s,
         t = "facts" => s \in Seq(Facts), NEW U, U = [T EXCEPT ![t] = s]
  PROVE  Stored(U)
<1>1. DOMAIN T = Columns /\ t \in Columns /\ \A u \in Twins!Tables : u \in Columns /\ u # t
  BY ColumnNames DEF Stored
<1>2. DOMAIN U = Columns /\ U[t] = s /\ \A u \in Columns : u # t => U[u] = T[u]
  BY <1>1, Assigned
<1>3. U["facts"] \in Seq(Facts)
  BY <1>2, ColumnNames DEF Stored
<1> QED
  BY <1>1, <1>2, <1>3, ColumnNames DEF Stored

LEMMA ListKeeps ==
  ASSUME NEW T, Stored(T), NEW t \in Twins!Lists, NEW s,
         NEW U, U = [T EXCEPT ![t] = s], NEW u \in Twins!Tables
  PROVE  U[u] = T[u]
<1>1. DOMAIN T = Columns /\ t \in Columns /\ u \in Columns /\ u # t
  BY ColumnNames DEF Stored
<1> QED
  BY <1>1, Assigned

LEMMA SameRows == \A S : OneRow(S, S)
BY DEF OneRow

\* A call to both, about one table.
LEMMA CallStep ==
  ASSUME StorageInv, NEW t \in Twins!Tables,
         NEW s \in SUBSET StoredRow, NEW f \in SUBSET StoredRow,
         t \in Twins!Keyed => UniqueKeys(s) /\ UniqueKeys(f),
         t = "memories" => UniqueKeys(s) /\ UniqueTexts(f) /\ KeysUpTo(s, dbClock'),
         OneRow(sql[t], s) \/ (t = "sessions" /\ s \subseteq sql[t]),
         OneRow(dbFile[t], f) \/ (t = "sessions" /\ f \subseteq dbFile[t]),
         Twins!Call, Twins!Rest, Twins!Both(t, s, f)
  PROVE  StorageInv' /\ KeptByStep
<1>1. /\ tx = Twins!NoTx /\ tx' = Twins!NoTx /\ mig.next = 1 /\ mig' = mig /\ disk' = disk
      /\ dbClock' = dbClock + 1 /\ apart' = apart /\ asked' = {}
      /\ sql' = [sql EXCEPT ![t] = s] \/ sql' = sql
      /\ dbFile' = [dbFile EXCEPT ![t] = f]
  BY DEF Twins!Call, Twins!Rest, Twins!Both
<1>2. /\ dbClock \in Nat /\ SqlOK(sql) /\ FilesOK(dbFile) /\ FilesOK(disk)
      /\ MigOK(mig, sql["memories"], apart, dbClock)
  BY DEF StorageInv
<1>3. DOMAIN sql = Columns /\ DOMAIN dbFile = Columns /\ t \in Columns
  BY <1>2, ColumnNames DEF SqlOK, FilesOK, Stored
<1>4. dbFile'[t] = f /\ \A u \in Columns : u # t => dbFile'[u] = dbFile[u]
  BY <1>1, <1>3, Assigned
<1>5. ASSUME sql' = [sql EXCEPT ![t] = s]
      PROVE  SqlOK(sql') /\ KeysUpTo(sql'["memories"], dbClock') /\ Effects(sql, sql', asked')
  <2>1. sql'[t] = s /\ \A u \in Columns : u # t => sql'[u] = sql[u]
    BY <1>3, <1>5, Assigned
  <2>2. Stored(sql')
    BY <1>2, <1>5, StoredTable DEF SqlOK
  <2>3. UniqueKeys(sql'["memories"])
    BY <1>2, <2>1, ColumnNames DEF SqlOK
  <2>4. KeysUpTo(sql'["memories"], dbClock')
    <3>1. KeysUpTo(sql["memories"], dbClock)
      BY <1>1, <1>2 DEF MigOK
    <3>2. KeysUpTo(sql["memories"], dbClock')
      BY <1>1, <1>2, <3>1 DEF KeysUpTo
    <3> QED
      BY <2>1, <3>2, ColumnNames
  <2>5. Effect(sql, sql', t, asked')
    BY <2>1, ColumnNames DEF Effect
  <2> QED
    BY <2>2, <2>3, <2>4, <2>5 DEF SqlOK, Effects
<1>6. ASSUME sql' = sql
      PROVE  SqlOK(sql') /\ KeysUpTo(sql'["memories"], dbClock') /\ Effects(sql, sql', asked')
  <2>1. KeysUpTo(sql["memories"], dbClock)
    BY <1>1, <1>2 DEF MigOK
  <2>2. KeysUpTo(sql'["memories"], dbClock')
    BY <1>1, <1>2, <1>6, <2>1 DEF KeysUpTo
  <2> QED
    BY <1>2, <1>6, <2>2 DEF Effects
<1>7. SqlOK(sql') /\ KeysUpTo(sql'["memories"], dbClock') /\ Effects(sql, sql', asked')
  BY <1>1, <1>5, <1>6
<1>8. FilesOK(dbFile')
  <2>1. Stored(dbFile')
    BY <1>1, <1>2, StoredTable DEF FilesOK
  <2>2. UniqueTexts(dbFile'["memories"])
    BY <1>2, <1>4, ColumnNames DEF FilesOK
  <2> QED
    BY <2>1, <2>2 DEF FilesOK
<1>9. FileCalled
  <2>1. Effect(dbFile, dbFile', t, asked')
    BY <1>4, ColumnNames DEF Effect
  <2> QED
    BY <1>1, <2>1 DEF FileCalled
<1>10. MigOK(mig', sql'["memories"], apart', dbClock')
  BY <1>1, <1>2, <1>7 DEF MigOK
<1>11. TxOK(tx', asked', dbClock')
  BY <1>1 DEF TxOK, KeysUpTo
<1>12. dbClock' \in Nat /\ FilesOK(disk')
  BY <1>1, <1>2
<1> QED
  BY <1>7, <1>8, <1>9, <1>10, <1>11, <1>12 DEF StorageInv, KeptByStep


LEMMA SqlPutRow ==
  ASSUME NEW S \in SUBSET StoredRow, UniqueKeys(S), NEW r \in StoredRow
  PROVE  \E n \in StoredRow :
           /\ Twins!SqlPut(S, r) = {o \in S : o.key # r.key} \cup {n}
           /\ n.key = r.key /\ n.text = r.text /\ n.at = r.at /\ n.ends = r.ends
<1>1. CASE r.key \in Twins!KeysOf(S)
  <2>1. PICK o \in S : o.key = r.key
    BY <1>1 DEF Twins!KeysOf
  <2>2. Twins!At(S, r.key) \in S
    BY <2>1 DEF Twins!At
  <2>3. PICK b : b = Twins!At(S, r.key).born
    OBVIOUS
  <2>4. b \in Nat
    BY <2>2, <2>3 DEF StoredRow
  <2>5. PICK n : n = [r EXCEPT !.born = b]
    OBVIOUS
  <2>6. n \in StoredRow /\ n.key = r.key /\ n.text = r.text /\ n.at = r.at /\ n.ends = r.ends
    BY <2>4, <2>5 DEF StoredRow
  <2>7. Twins!SqlPut(S, r) = {q \in S : q.key # r.key} \cup {n}
    BY <1>1, <2>3, <2>5 DEF Twins!SqlPut
  <2> QED
    BY <2>6, <2>7
<1>2. CASE r.key \notin Twins!KeysOf(S)
  BY <1>2 DEF Twins!SqlPut
<1> QED
  BY <1>1, <1>2

\* Putting a row in the place of those that share something with it.
LEMMA InPlace ==
  ASSUME NEW S \in SUBSET StoredRow, NEW n \in StoredRow, NEW W, W \subseteq S,
         \A x, y \in S \ W : x = y
  PROVE  OneRow(S, W \cup {n}) /\ W \cup {n} \in SUBSET StoredRow
BY DEF OneRow

LEMMA PutStep ==
  ASSUME NEW S \in SUBSET StoredRow, UniqueKeys(S), NEW n \in StoredRow
  PROVE  LET P == {o \in S : o.key # n.key} \cup {n}
         IN P \in SUBSET StoredRow /\ UniqueKeys(P) /\ OneRow(S, P)
BY InPlace DEF UniqueKeys

LEMMA RowType ==
  ASSUME dbClock \in Nat, NEW k \in Keys \cup Nat, NEW x \in Facts, NEW ttl \in Nat
  PROVE  /\ Twins!Row(k, x, ttl) \in StoredRow
         /\ Twins!Row(k, x, ttl).key = k /\ Twins!Row(k, x, ttl).text = x
BY DEF Twins!Row, StoredRow

LEMMA StoredTypes ==
  ASSUME StorageInv, NEW t \in Twins!Tables
  PROVE  /\ sql[t] \in SUBSET StoredRow /\ dbFile[t] \in SUBSET StoredRow
         /\ t \in Twins!Keyed => UniqueKeys(sql[t]) /\ UniqueKeys(dbFile[t])
         /\ t = "memories" => UniqueKeys(sql[t]) /\ UniqueTexts(dbFile[t])
         /\ dbClock \in Nat
BY DEF StorageInv, SqlOK, FilesOK, Stored

LEMMA UpsertStep ==
  ASSUME StorageInv, NEW t \in Twins!Keyed, NEW k \in Keys, NEW x \in Facts,
         NEW ttl \in 0..2, Twins!Upsert(t, k, x, ttl)
  PROVE  StorageInv' /\ KeptByStep
<1>1. t \in Twins!Tables /\ t # "memories"
  BY ColumnNames
<1>2. PICK r : r = Twins!Row(k, x, ttl)
  OBVIOUS
<1>3. r \in StoredRow
  BY <1>1, <1>2, RowType, StoredTypes
<1>4. PICK n \in StoredRow : /\ Twins!SqlPut(sql[t], r) = {o \in sql[t] : o.key # r.key} \cup {n}
                             /\ n.key = r.key
  BY <1>1, <1>3, StoredTypes, SqlPutRow
<1>5. /\ Twins!SqlPut(sql[t], r) \in SUBSET StoredRow
      /\ UniqueKeys(Twins!SqlPut(sql[t], r)) /\ OneRow(sql[t], Twins!SqlPut(sql[t], r))
  BY <1>1, <1>4, StoredTypes, PutStep
<1>6. Twins!FilePut(dbFile[t], r) = {o \in dbFile[t] : o.key # r.key} \cup {r}
  BY DEF Twins!FilePut
<1>7. /\ Twins!FilePut(dbFile[t], r) \in SUBSET StoredRow
      /\ UniqueKeys(Twins!FilePut(dbFile[t], r))
      /\ OneRow(dbFile[t], Twins!FilePut(dbFile[t], r))
  BY <1>1, <1>3, <1>6, StoredTypes, PutStep
<1>8. Twins!Call /\ Twins!Rest
      /\ Twins!Both(t, Twins!SqlPut(sql[t], r), Twins!FilePut(dbFile[t], r))
  BY <1>2 DEF Twins!Upsert
<1> QED
  BY <1>1, <1>5, <1>7, <1>8, CallStep

\* Rows that go, of one key or one at a time.
LEMMA GoneRows ==
  ASSUME NEW S \in SUBSET StoredRow, NEW W, W \subseteq S, \A x, y \in S \ W : x = y
  PROVE  W \in SUBSET StoredRow /\ OneRow(S, W)
BY DEF OneRow

LEMMA SubsetKeys ==
  \A S, W : W \subseteq S => /\ UniqueKeys(S) => UniqueKeys(W)
                             /\ UniqueTexts(S) => UniqueTexts(W)
                             /\ \A c : KeysUpTo(S, c) => KeysUpTo(W, c)
BY DEF UniqueKeys, UniqueTexts, KeysUpTo

LEMMA KeysUpToKept ==
  ASSUME StorageInv, Twins!Call
  PROVE  KeysUpTo(sql["memories"], dbClock')
<1>1. KeysUpTo(sql["memories"], dbClock) /\ dbClock \in Nat /\ dbClock' = dbClock + 1
  BY DEF StorageInv, MigOK, Twins!Call
<1> QED
  BY <1>1 DEF KeysUpTo

LEMMA DeleteStep ==
  ASSUME StorageInv, NEW t \in Twins!Keyed, NEW k \in Keys, Twins!Delete(t, k)
  PROVE  StorageInv' /\ KeptByStep
<1>1. t \in Twins!Tables /\ t # "memories"
  BY ColumnNames
<1>2. PICK s, f : s = {r \in sql[t] : r.key # k} /\ f = {r \in dbFile[t] : r.key # k}
  OBVIOUS
<1>3. /\ s \in SUBSET StoredRow /\ OneRow(sql[t], s) /\ UniqueKeys(s)
  BY <1>1, <1>2, StoredTypes, GoneRows DEF UniqueKeys
<1>4. /\ f \in SUBSET StoredRow /\ OneRow(dbFile[t], f) /\ UniqueKeys(f)
  BY <1>1, <1>2, StoredTypes, GoneRows DEF UniqueKeys
<1>5. Twins!Call /\ Twins!Rest /\ Twins!Both(t, s, f)
  BY <1>2 DEF Twins!Delete
<1> QED
  BY <1>1, <1>3, <1>4, <1>5, CallStep

LEMMA ExpireStep ==
  ASSUME StorageInv, Twins!DeleteExpiredSessions
  PROVE  StorageInv' /\ KeptByStep
<1>1. "sessions" \in Twins!Tables /\ "sessions" \in Twins!Keyed /\ "sessions" # "memories"
  BY ColumnNames
<1>2. PICK s, f : /\ s = Twins!SqlExpire(sql["sessions"], dbClock)
                  /\ f = Twins!FileExpire(dbFile["sessions"], dbClock)
  OBVIOUS
<1>3. s \subseteq sql["sessions"] /\ f \subseteq dbFile["sessions"]
  BY <1>2 DEF Twins!SqlExpire, Twins!FileExpire
<1>4. s \in SUBSET StoredRow /\ f \in SUBSET StoredRow /\ UniqueKeys(s) /\ UniqueKeys(f)
  BY <1>1, <1>3, StoredTypes, SubsetKeys
<1>5. Twins!Call /\ Twins!Rest /\ Twins!Both("sessions", s, f)
  BY <1>2 DEF Twins!DeleteExpiredSessions
<1> QED
  BY <1>1, <1>3, <1>4, <1>5, CallStep

LEMMA UpsertMemoryStep ==
  ASSUME StorageInv, NEW x \in Facts, Twins!UpsertMemory(x)
  PROVE  StorageInv' /\ KeptByStep
<1>1. "memories" \in Twins!Tables /\ "memories" \notin Twins!Keyed
  BY ColumnNames
<1>2. PICK r : r = Twins!Row(dbClock + 1, x, 0)
  OBVIOUS
<1>3. r \in StoredRow /\ r.key = dbClock + 1 /\ r.text = x /\ dbClock \in Nat
  <2>1. dbClock \in Nat
    BY DEF StorageInv
  <2>2. dbClock + 1 \in Keys \cup Nat /\ 0 \in Nat
    BY <2>1
  <2> QED
    BY <1>2, <2>1, <2>2, RowType
<1>4. Twins!Call /\ Twins!Rest
      /\ Twins!Both("memories", sql["memories"] \cup {r}, Twins!FilePutMemory(dbFile["memories"], r))
  BY <1>2 DEF Twins!UpsertMemory
<1>5. KeysUpTo(sql["memories"], dbClock') /\ KeysUpTo(sql["memories"], dbClock) /\ dbClock' = dbClock + 1
  BY <1>4, KeysUpToKept DEF Twins!Call, StorageInv, MigOK
<1>6. OneRow(sql["memories"], sql["memories"] \cup {r})
      /\ sql["memories"] \cup {r} \in SUBSET StoredRow
  BY <1>1, <1>3, StoredTypes, InPlace
<1>7. UniqueKeys(sql["memories"] \cup {r})
  BY <1>1, <1>3, <1>5, StoredTypes DEF UniqueKeys, KeysUpTo
<1>8. KeysUpTo(sql["memories"] \cup {r}, dbClock')
  BY <1>3, <1>5 DEF KeysUpTo
<1>9. PICK f : f = Twins!FilePutMemory(dbFile["memories"], r)
  OBVIOUS
<1>10. /\ f \in SUBSET StoredRow /\ OneRow(dbFile["memories"], f) /\ UniqueTexts(f)
  BY <1>1, <1>3, <1>9, StoredTypes, InPlace DEF Twins!FilePutMemory, UniqueTexts
<1> QED
  BY <1>1, <1>4, <1>6, <1>7, <1>8, <1>9, <1>10, CallStep

LEMMA DeleteMemoryStep ==
  ASSUME StorageInv, NEW k \in Keys, Twins!DeleteMemory(k)
  PROVE  StorageInv' /\ KeptByStep
<1>1. "memories" \in Twins!Tables /\ "memories" \notin Twins!Keyed
  BY ColumnNames
<1>2. PICK s : s = {m \in sql["memories"] : m.key # k}
  OBVIOUS
<1>3. /\ Twins!Call /\ Twins!Rest
      /\ \E out : (out = {} \/ \E m : out = {m})
                   /\ Twins!Both("memories", s, dbFile["memories"] \ out)
  BY <1>2 DEF Twins!DeleteMemory
<1>4. PICK out : (out = {} \/ \E m : out = {m})
                  /\ Twins!Both("memories", s, dbFile["memories"] \ out)
  BY <1>3
<1>5. PICK f : f = dbFile["memories"] \ out
  OBVIOUS
<1>6. s \in SUBSET StoredRow /\ OneRow(sql["memories"], s) /\ UniqueKeys(s)
      /\ KeysUpTo(s, dbClock')
  <2>1. s \subseteq sql["memories"] /\ \A x, y \in sql["memories"] \ s : x = y
    BY <1>1, <1>2, StoredTypes DEF UniqueKeys
  <2> QED
    BY <1>1, <1>3, <2>1, StoredTypes, GoneRows, SubsetKeys, KeysUpToKept
<1>7. f \in SUBSET StoredRow /\ OneRow(dbFile["memories"], f) /\ UniqueTexts(f)
  BY <1>1, <1>4, <1>5, StoredTypes, GoneRows, SubsetKeys
<1> QED
  BY <1>1, <1>3, <1>4, <1>5, <1>6, <1>7, CallStep

LEMMA OldestStep ==
  ASSUME StorageInv, Twins!DeleteOldestSummary
  PROVE  StorageInv' /\ KeptByStep
<1>1. "summaries" \in Twins!Tables /\ "summaries" \in Twins!Keyed /\ "summaries" # "memories"
  BY ColumnNames DEF Twins!Keyed
<1>2. PICK v, o : Twins!Call /\ Twins!Rest
                  /\ Twins!Both("summaries", sql["summaries"] \ {o}, dbFile["summaries"] \ {v})
  BY DEF Twins!DeleteOldestSummary
<1>3. PICK s, f : s = sql["summaries"] \ {o} /\ f = dbFile["summaries"] \ {v}
  OBVIOUS
<1>4. /\ s \in SUBSET StoredRow /\ OneRow(sql["summaries"], s) /\ UniqueKeys(s)
      /\ f \in SUBSET StoredRow /\ OneRow(dbFile["summaries"], f) /\ UniqueKeys(f)
  BY <1>1, <1>3, StoredTypes, GoneRows, SubsetKeys
<1> QED
  BY <1>1, <1>2, <1>3, <1>4, CallStep


LEMMA ListStep ==
  ASSUME StorageInv, NEW t \in Twins!Lists, NEW s, NEW f,
         t = "facts" => s \in Seq(Facts) /\ f \in Seq(Facts),
         tx = Twins!NoTx, mig.next = 1, mig' = mig, dbClock' = dbClock + 1, apart' = apart,
         FilesOK(disk'), \A u \in Twins!Tables : disk'[u] = disk[u],
         Twins!Rest, Twins!Both(t, s, f)
  PROVE  StorageInv' /\ KeptByStep
<1>1. /\ dbClock \in Nat /\ SqlOK(sql) /\ FilesOK(dbFile)
      /\ MigOK(mig, sql["memories"], apart, dbClock)
  BY DEF StorageInv
<1>2. /\ tx' = Twins!NoTx /\ asked' = {} /\ dbFile' = [dbFile EXCEPT ![t] = f]
      /\ sql' = [sql EXCEPT ![t] = s] \/ sql' = sql
  BY DEF Twins!Rest, Twins!Both
<1>3. Stored(dbFile') /\ \A u \in Twins!Tables : dbFile'[u] = dbFile[u]
  <2>1. Stored(dbFile) /\ (t = "facts" => f \in Seq(Facts))
    BY <1>1 DEF FilesOK
  <2>2. Stored(dbFile')
    BY <1>2, <2>1, StoredList
  <2>3. ASSUME NEW u \in Twins!Tables PROVE dbFile'[u] = dbFile[u]
    BY <1>2, <2>1, ListKeeps
  <2> QED
    BY <2>2, <2>3
<1>4. Stored(sql') /\ \A u \in Twins!Tables : sql'[u] = sql[u]
  <2>1. CASE sql' = [sql EXCEPT ![t] = s]
    <3>1. Stored(sql) /\ (t = "facts" => s \in Seq(Facts))
      BY <1>1 DEF SqlOK
    <3>2. Stored(sql')
      BY <2>1, <3>1, StoredList
    <3>3. ASSUME NEW u \in Twins!Tables PROVE sql'[u] = sql[u]
      BY <2>1, <3>1, ListKeeps
    <3> QED
      BY <3>2, <3>3
  <2> QED
    BY <1>1, <1>2, <2>1 DEF SqlOK
<1>5. FilesOK(dbFile') /\ SqlOK(sql')
  BY <1>1, <1>3, <1>4, ColumnNames DEF FilesOK, SqlOK
<1>6. Effect(sql, sql', "memories", asked') /\ Effect(dbFile, dbFile', "memories", asked')
  BY <1>3, <1>4, SameRows, ColumnNames DEF Effect
<1>7. KeptByStep
  BY <1>6, ColumnNames DEF KeptByStep, Effects, FileCalled
<1>8. KeysUpTo(sql'["memories"], dbClock')
  <2>1. KeysUpTo(sql["memories"], dbClock)
    BY <1>1 DEF MigOK
  <2> QED
    BY <1>1, <1>4, <2>1, ColumnNames DEF KeysUpTo
<1>9. MigOK(mig', sql'["memories"], apart', dbClock')
  BY <1>1, <1>8 DEF MigOK
<1>10. TxOK(tx', asked', dbClock')
  BY <1>2 DEF TxOK, KeysUpTo
<1> QED
  BY <1>1, <1>5, <1>7, <1>9, <1>10 DEF StorageInv

LEMMA FactLists ==
  ASSUME NEW fs \in Seq(Facts), NEW x \in Facts
  PROVE  Twins!SqlAddFact(fs, x) \in Seq(Facts) /\ Twins!FileAddFact(fs, x) \in Seq(Facts)
<1>1. Append(fs, x) \in Seq(Facts) /\ Append(fs, x) # <<>>
  <2>1. Append(fs, x) \in Seq(Facts) /\ Len(Append(fs, x)) = Len(fs) + 1 /\ Len(fs) \in Nat
    OBVIOUS
  <2>2. Len(Append(fs, x)) # 0
    BY <2>1
  <2> QED
    BY <2>1, <2>2
<1>2. Tail(Append(fs, x)) \in Seq(Facts)
  BY <1>1
<1> QED
  BY <1>1, <1>2 DEF Twins!SqlAddFact, Twins!FileAddFact

LEMMA ListCalls ==
  ASSUME StorageInv,
         \E x \in Facts : \/ Twins!AddFact(x) \/ Twins!WriteTrace(x)
                          \/ \E k \in Keys : Twins!InsertChatMessage(k, x)
  PROVE  StorageInv' /\ KeptByStep
<1>1. "facts" \in Twins!Lists /\ "chat" \in Twins!Lists /\ "traces" \in Twins!Lists
      /\ "chat" # "facts" /\ "traces" # "facts"
  BY DEF Twins!Lists
<1>2. /\ FilesOK(disk) /\ FilesOK(dbFile) /\ sql["facts"] \in Seq(Facts)
      /\ dbFile["facts"] \in Seq(Facts)
  BY DEF StorageInv, SqlOK, FilesOK, Stored
<1>3. ASSUME NEW x \in Facts, Twins!AddFact(x) PROVE StorageInv' /\ KeptByStep
  <2>1. PICK s, f : s = Twins!SqlAddFact(sql["facts"], x) /\ f = Twins!FileAddFact(dbFile["facts"], x)
    OBVIOUS
  <2>2. s \in Seq(Facts) /\ f \in Seq(Facts)
    BY <1>2, <2>1, FactLists
  <2>3. Twins!Rest /\ Twins!Both("facts", s, f) /\ Twins!Call
    BY <1>3, <2>1 DEF Twins!AddFact
  <2>4. /\ tx = Twins!NoTx /\ mig.next = 1 /\ mig' = mig /\ dbClock' = dbClock + 1
        /\ apart' = apart /\ disk' = disk
    BY <2>3 DEF Twins!Call
  <2> QED
    BY <1>1, <1>2, <2>2, <2>3, <2>4, ListStep
<1>4. ASSUME NEW x \in Facts, NEW k \in Keys, Twins!InsertChatMessage(k, x)
      PROVE  StorageInv' /\ KeptByStep
  <2>1. PICK s, f : Twins!Rest /\ Twins!Both("chat", s, f) /\ Twins!Call
    BY <1>4 DEF Twins!InsertChatMessage
  <2>2. /\ tx = Twins!NoTx /\ mig.next = 1 /\ mig' = mig /\ dbClock' = dbClock + 1
        /\ apart' = apart /\ disk' = disk
    BY <2>1 DEF Twins!Call
  <2> QED
    BY <1>1, <1>2, <2>1, <2>2, ListStep
<1>5. ASSUME NEW x \in Facts, Twins!WriteTrace(x) PROVE StorageInv' /\ KeptByStep
  <2>1. PICK s, f, d : /\ Twins!Rest /\ Twins!Both("traces", s, f)
                       /\ disk' = [disk EXCEPT !["traces"] = d]
    BY <1>5 DEF Twins!WriteTrace
  <2>2. /\ tx = Twins!NoTx /\ mig.next = 1 /\ mig' = mig /\ dbClock' = dbClock + 1
        /\ apart' = apart
    BY <1>5 DEF Twins!WriteTrace
  <2>3. Stored(disk') /\ \A u \in Twins!Tables : disk'[u] = disk[u]
    <3>1. Stored(disk) /\ ("traces" = "facts" => d \in Seq(Facts))
      BY <1>2 DEF FilesOK
    <3>2. Stored(disk')
      BY <1>1, <2>1, <3>1, StoredList
    <3>3. ASSUME NEW u \in Twins!Tables PROVE disk'[u] = disk[u]
      BY <1>1, <2>1, <3>1, ListKeeps
    <3> QED
      BY <3>2, <3>3
  <2>4. FilesOK(disk')
    BY <1>2, <2>3, ColumnNames DEF FilesOK
  <2> QED
    BY <1>1, <1>2, <2>1, <2>2, <2>3, <2>4, ListStep
<1> QED
  BY <1>3, <1>4, <1>5

LEMMA BatchOK ==
  ASSUME dbClock \in Nat, NEW batch \in Twins!Batches
  PROVE  /\ batch \in Seq(StoredRow) /\ Twins!Range(batch) \in SUBSET StoredRow
         /\ KeysUpTo(Twins!Range(batch), dbClock + 1) /\ UniqueTexts(Twins!Range(batch))
<1>1. CASE \E k \in {dbClock + 1}, x \in Facts : batch = <<Twins!Row(k, x, 0)>>
  <2>1. PICK x \in Facts : batch = <<Twins!Row(dbClock + 1, x, 0)>>
    BY <1>1
  <2>2. PICK r : r = Twins!Row(dbClock + 1, x, 0)
    OBVIOUS
  <2>3. dbClock + 1 \in Keys \cup Nat /\ 0 \in Nat
    OBVIOUS
  <2>4. r \in StoredRow /\ r.key = dbClock + 1
    BY <2>2, <2>3, RowType
  <2>5. batch = <<r>> /\ Twins!Range(batch) = {r}
    BY <2>1, <2>2 DEF Twins!Range
  <2> QED
    BY <2>4, <2>5 DEF KeysUpTo, UniqueTexts
<1>2. CASE \E k \in {dbClock, dbClock + 1}, p \in {q \in Facts \X Facts : q[1] # q[2]} :
             batch = <<Twins!Row(dbClock + 1, p[1], 0), Twins!Row(k, p[2], 0)>>
  <2>1. PICK k \in {dbClock, dbClock + 1}, p \in {q \in Facts \X Facts : q[1] # q[2]} :
          batch = <<Twins!Row(dbClock + 1, p[1], 0), Twins!Row(k, p[2], 0)>>
    BY <1>2
  <2>2. PICK r, o : r = Twins!Row(dbClock + 1, p[1], 0) /\ o = Twins!Row(k, p[2], 0)
    OBVIOUS
  <2>3. /\ dbClock + 1 \in Keys \cup Nat /\ k \in Keys \cup Nat /\ 0 \in Nat
        /\ p[1] \in Facts /\ p[2] \in Facts /\ p[1] # p[2] /\ k \in Nat /\ k <= dbClock + 1
    OBVIOUS
  <2>4. r \in StoredRow /\ r.key = dbClock + 1 /\ r.text = p[1]
    BY <2>2, <2>3, RowType
  <2>5. o \in StoredRow /\ o.key = k /\ o.text = p[2]
    BY <2>2, <2>3, RowType
  <2>6. batch = <<r, o>> /\ Twins!Range(batch) = {r, o}
    BY <2>1, <2>2 DEF Twins!Range
  <2> QED
    BY <2>3, <2>4, <2>5, <2>6 DEF KeysUpTo, UniqueTexts
<1> QED
  BY <1>1, <1>2 DEF Twins!Batches

LEMMA ReplaceStep ==
  ASSUME StorageInv, NEW batch \in Twins!Batches, Twins!ReplaceAllMemories(batch)
  PROVE  StorageInv' /\ KeptByStep
<1>1. /\ dbClock \in Nat /\ SqlOK(sql) /\ FilesOK(dbFile) /\ FilesOK(disk)
      /\ MigOK(mig, sql["memories"], apart, dbClock)
  BY DEF StorageInv
<1>2. /\ Twins!Call /\ dbFile' = [dbFile EXCEPT !["memories"] = Twins!Range(batch)]
      /\ \/ tx' = [open |-> TRUE, todo |-> batch, rows |-> {}]
         \/ tx' = Twins!NoTx
      /\ asked' = Twins!Range(batch) /\ sql' = sql
  BY DEF Twins!ReplaceAllMemories
<1>3. /\ mig.next = 1 /\ mig' = mig /\ disk' = disk /\ dbClock' = dbClock + 1 /\ apart' = apart
  BY <1>2 DEF Twins!Call
<1>4. /\ batch \in Seq(StoredRow) /\ asked' \in SUBSET StoredRow
      /\ KeysUpTo(asked', dbClock') /\ UniqueTexts(asked')
  BY <1>1, <1>2, <1>3, BatchOK
<1>5. TxOK(tx', asked', dbClock')
  <2>1. CASE tx' = [open |-> TRUE, todo |-> batch, rows |-> {}]
    <3>1. tx'.todo = batch /\ tx'.rows = {}
      BY <2>1
    <3>2. tx' = [open |-> TRUE, todo |-> tx'.todo, rows |-> tx'.rows]
      BY <2>1, <3>1
    <3>3. UniqueKeys(tx'.rows) /\ tx'.rows \cup Twins!Range(tx'.todo) = asked'
      BY <1>2, <3>1 DEF UniqueKeys
    <3> QED
      BY <1>4, <3>1, <3>2, <3>3 DEF TxOK
  <2> QED
    BY <1>2, <1>4, <2>1 DEF TxOK
<1>6. Stored(dbFile')
  BY <1>1, <1>2, <1>4, StoredTable, ColumnNames DEF FilesOK
<1>7. DOMAIN dbFile = Columns /\ "memories" \in Columns
  BY <1>1, ColumnNames DEF FilesOK, Stored
<1>8. dbFile'["memories"] = asked' /\ \A u \in Columns : u # "memories" => dbFile'[u] = dbFile[u]
  BY <1>2, <1>7, Assigned
<1>9. FilesOK(dbFile')
  BY <1>4, <1>6, <1>8 DEF FilesOK
<1>10. Effect(dbFile, dbFile', "memories", asked')
  BY <1>8, ColumnNames DEF Effect
<1>11. KeptByStep
  BY <1>2, <1>3, <1>10, ColumnNames DEF KeptByStep, Effects, FileCalled
<1>12. MigOK(mig', sql'["memories"], apart', dbClock')
  BY <1>1, <1>2, <1>3 DEF MigOK, KeysUpTo
<1> QED
  BY <1>1, <1>2, <1>3, <1>5, <1>9, <1>11, <1>12 DEF StorageInv


LEMMA HeadAndTail ==
  ASSUME NEW S, NEW s \in Seq(S), s # <<>>
  PROVE  /\ Head(s) \in S /\ Tail(s) \in Seq(S)
         /\ Twins!Range(s) = {Head(s)} \cup Twins!Range(Tail(s))
<1>1. /\ Head(s) \in S /\ Tail(s) \in Seq(S) /\ Len(s) \in Nat \ {0}
      /\ Len(Tail(s)) = Len(s) - 1 /\ Head(s) = s[1]
      /\ \A i \in 1..Len(Tail(s)) : Tail(s)[i] = s[i + 1]
      /\ DOMAIN s = 1..Len(s) /\ DOMAIN Tail(s) = 1..Len(Tail(s))
  OBVIOUS
<1>2. ASSUME NEW x \in Twins!Range(s) PROVE x = Head(s) \/ x \in Twins!Range(Tail(s))
  <2>1. PICK i \in 1..Len(s) : x = s[i]
    BY <1>1 DEF Twins!Range
  <2>2. CASE i # 1
    <3>1. i - 1 \in 1..Len(Tail(s)) /\ (i - 1) + 1 = i
      BY <1>1, <2>2
    <3>2. Tail(s)[i - 1] = x
      BY <1>1, <2>1, <3>1
    <3> QED
      BY <1>1, <3>1, <3>2 DEF Twins!Range
  <2> QED
    BY <1>1, <2>1, <2>2
<1>3. Head(s) \in Twins!Range(s)
  BY <1>1 DEF Twins!Range
<1>4. ASSUME NEW x \in Twins!Range(Tail(s)) PROVE x \in Twins!Range(s)
  <2>1. PICK i \in 1..Len(Tail(s)) : x = Tail(s)[i]
    BY <1>1 DEF Twins!Range
  <2>2. i + 1 \in 1..Len(s) /\ x = s[i + 1]
    BY <1>1, <2>1
  <2> QED
    BY <1>1, <2>2 DEF Twins!Range
<1> QED
  BY <1>1, <1>2, <1>3, <1>4

\* A transaction that is open has the rows and the rest of its list.
LEMMA OpenTx ==
  ASSUME StorageInv, tx.open
  PROVE  /\ tx = [open |-> TRUE, todo |-> tx.todo, rows |-> tx.rows]
         /\ tx.todo \in Seq(StoredRow) /\ UniqueKeys(tx.rows)
         /\ tx.rows \cup Twins!Range(tx.todo) = asked
         /\ KeysUpTo(asked, dbClock)
<1>1. TxOK(tx, asked, dbClock)
  BY DEF StorageInv
<1>2. tx # Twins!NoTx
  BY DEF Twins!NoTx
<1> QED
  BY <1>1, <1>2 DEF TxOK

LEMMA Unmoved ==
  ASSUME StorageInv, SqlOK(sql'), FilesOK(dbFile'), FilesOK(disk'),
         TxOK(tx', asked', dbClock'), dbClock' = dbClock,
         MigOK(mig', sql'["memories"], apart', dbClock)
  PROVE  StorageInv'
BY DEF StorageInv

LEMMA TxStep ==
  ASSUME StorageInv, Twins!TxInsert \/ Twins!TxCommit \/ Twins!TxFail
  PROVE  StorageInv' /\ KeptByStep
<1>1. /\ dbClock \in Nat /\ SqlOK(sql) /\ FilesOK(dbFile) /\ FilesOK(disk)
      /\ TxOK(tx, asked, dbClock) /\ MigOK(mig, sql["memories"], apart, dbClock)
  BY DEF StorageInv
<1>2. /\ tx.open
      /\ dbClock' = dbClock /\ dbFile' = dbFile /\ disk' = disk /\ asked' = asked /\ mig' = mig
  BY DEF Twins!TxInsert, Twins!TxCommit, Twins!TxFail, Twins!TxRest
<1>3. FileSaved
  BY <1>2 DEF FileSaved
<1>4. /\ tx = [open |-> TRUE, todo |-> tx.todo, rows |-> tx.rows]
      /\ tx.todo \in Seq(StoredRow) /\ UniqueKeys(tx.rows)
      /\ tx.rows \cup Twins!Range(tx.todo) = asked /\ KeysUpTo(asked, dbClock)
  BY <1>2, OpenTx
<1>5. CASE tx' = Twins!NoTx /\ sql' = sql /\ apart' = TRUE
  <2>1. TxOK(tx', asked', dbClock')
    BY <1>2, <1>4, <1>5 DEF TxOK
  <2>2. MigOK(mig', sql'["memories"], apart', dbClock)
    BY <1>1, <1>2, <1>5 DEF MigOK
  <2>3. Effects(sql, sql', asked')
    BY <1>5 DEF Effects
  <2> QED
    BY <1>1, <1>2, <1>3, <1>5, <2>1, <2>2, <2>3, Unmoved DEF KeptByStep
<1>6. CASE Twins!TxInsert /\ Head(tx.todo).key \notin Twins!KeysOf(tx.rows)
  <2>1. PICK m : m = Head(tx.todo)
    OBVIOUS
  <2>2. /\ tx.todo # <<>>
        /\ tx' = [open |-> TRUE, todo |-> Tail(tx.todo), rows |-> tx.rows \cup {m}]
        /\ sql' = sql /\ apart' = apart
    BY <1>6, <2>1 DEF Twins!TxInsert, Twins!InTx
  <2>3. /\ Tail(tx.todo) \in Seq(StoredRow)
        /\ Twins!Range(tx.todo) = {m} \cup Twins!Range(Tail(tx.todo))
    BY <1>4, <2>1, <2>2, HeadAndTail
  <2>5. /\ tx' = [open |-> TRUE, todo |-> tx'.todo, rows |-> tx'.rows]
        /\ tx'.todo = Tail(tx.todo) /\ tx'.rows = tx.rows \cup {m}
    BY <2>2
  <2>6. UniqueKeys(tx.rows \cup {m})
    BY <1>4, <1>6, <2>1 DEF UniqueKeys, Twins!KeysOf
  <2>7. tx'.rows \cup Twins!Range(tx'.todo) = asked
    BY <1>4, <2>3, <2>5
  <2>8. TxOK(tx', asked', dbClock')
    BY <1>2, <1>4, <2>3, <2>5, <2>6, <2>7 DEF TxOK
  <2>9. MigOK(mig', sql'["memories"], apart', dbClock)
    BY <1>1, <1>2, <2>2 DEF MigOK
  <2>10. Effects(sql, sql', asked')
    BY <2>2 DEF Effects
  <2> QED
    BY <1>1, <1>2, <1>3, <2>2, <2>8, <2>9, <2>10, Unmoved DEF KeptByStep
<1>7. CASE Twins!TxCommit
  <2>1. /\ tx.todo = <<>> /\ sql' = [sql EXCEPT !["memories"] = tx.rows]
        /\ tx' = Twins!NoTx /\ apart' = apart
    BY <1>7 DEF Twins!TxCommit
  <2>2. tx.rows = asked
    <3>1. \A s : s = <<>> => Twins!Range(s) = {}
      BY DEF Twins!Range
    <3>2. Twins!Range(tx.todo) = {}
      BY <2>1, <3>1
    <3> QED
      BY <1>4, <3>2
  <2>3. asked \in SUBSET StoredRow
    BY <1>4 DEF KeysUpTo
  <2>4. Stored(sql')
    BY <1>1, <2>1, <2>2, <2>3, StoredTable, ColumnNames DEF SqlOK
  <2>5. DOMAIN sql = Columns /\ "memories" \in Columns
    BY <1>1, ColumnNames DEF SqlOK, Stored
  <2>6. sql'["memories"] = asked /\ \A u \in Columns : u # "memories" => sql'[u] = sql[u]
    BY <2>1, <2>2, <2>5, Assigned
  <2>7. SqlOK(sql')
    BY <1>4, <2>2, <2>4, <2>6 DEF SqlOK
  <2>8. Effect(sql, sql', "memories", asked')
    BY <1>2, <2>6, ColumnNames DEF Effect
  <2>9. Effects(sql, sql', asked')
    BY <2>8, ColumnNames DEF Effects
  <2>10. TxOK(tx', asked', dbClock')
    BY <1>2, <1>4, <2>1 DEF TxOK
  <2>11. MigOK(mig', sql'["memories"], apart', dbClock)
    BY <1>1, <1>2, <1>4, <2>1, <2>6 DEF MigOK
  <2> QED
    BY <1>1, <1>2, <1>3, <2>7, <2>9, <2>10, <2>11, Unmoved DEF KeptByStep
<1>8. CASE Twins!TxFail
  <2>1. tx' = Twins!NoTx /\ sql' = sql /\ apart' = TRUE
    BY <1>8 DEF Twins!TxFail
  <2> QED
    BY <1>5, <2>1
<1>9. CASE Twins!TxInsert /\ Head(tx.todo).key \in Twins!KeysOf(tx.rows)
  <2>1. tx' = Twins!NoTx /\ sql' = sql /\ apart' = TRUE
    BY <1>9 DEF Twins!TxInsert
  <2> QED
    BY <1>5, <2>1
<1> QED
  BY <1>6, <1>7, <1>8, <1>9

\* Files and maps, column by column from one or the other.
LEMMA MixedFiles ==
  ASSUME NEW A, NEW B, FilesOK(A), FilesOK(B),
         NEW D, DOMAIN D = Columns, \A t \in Columns : D[t] \in {A[t], B[t]}
  PROVE  FilesOK(D)
<1>1. \A t \in Twins!Tables : D[t] \subseteq StoredRow
  BY ColumnNames DEF FilesOK, Stored
<1>2. \A t \in Twins!Keyed : UniqueKeys(D[t])
  BY ColumnNames DEF FilesOK, Stored
<1>3. D["facts"] \in Seq(Facts) /\ UniqueTexts(D["memories"])
  BY ColumnNames DEF FilesOK, Stored
<1> QED
  BY <1>1, <1>2, <1>3 DEF FilesOK, Stored

LEMMA BlankOK ==
  /\ DOMAIN Twins!Blank = Columns
  /\ \A t \in Twins!Tables : Twins!Blank[t] = {}
  /\ Twins!Blank["facts"] = <<>> /\ Twins!Blank["chat"] = <<>> /\ Twins!Blank["traces"] = <<>>
  /\ FilesOK(Twins!Blank) /\ SqlOK(Twins!Blank)
<1>1. /\ DOMAIN Twins!Blank = Columns
      /\ \A t \in Twins!Tables : Twins!Blank[t] = {}
      /\ Twins!Blank["facts"] = <<>> /\ Twins!Blank["chat"] = <<>> /\ Twins!Blank["traces"] = <<>>
  BY DEF Twins!Blank, Columns, Twins!Tables, Twins!Keyed, Twins!Lists
<1> QED
  BY <1>1, ColumnNames DEF FilesOK, SqlOK, Stored, UniqueKeys, UniqueTexts

LEMMA FileStep ==
  ASSUME StorageInv, Twins!Save \/ Twins!Reopen
  PROVE  StorageInv' /\ KeptByStep
<1>1. /\ dbClock \in Nat /\ SqlOK(sql) /\ FilesOK(dbFile) /\ FilesOK(disk)
      /\ TxOK(tx, asked, dbClock) /\ MigOK(mig, sql["memories"], apart, dbClock)
  BY DEF StorageInv
<1>2. /\ dbClock' = dbClock /\ sql' = sql /\ asked' = asked /\ mig' = mig
      /\ apart' = apart \/ apart' = TRUE
      /\ tx' = tx \/ tx' = Twins!NoTx
  BY DEF Twins!Save, Twins!Reopen
<1>3. MigOK(mig', sql'["memories"], apart', dbClock) /\ TxOK(tx', asked', dbClock')
      /\ Effects(sql, sql', asked')
  BY <1>1, <1>2 DEF MigOK, TxOK, Effects
<1>4. DOMAIN disk = Columns
  BY <1>1 DEF FilesOK, Stored
<1>5. CASE Twins!Save
  <2>1. PICK F : disk' = Twins!Written(F) /\ dbFile' = dbFile
    BY <1>5 DEF Twins!Save
  <2>2. DOMAIN disk' = Columns /\ \A t \in Columns : disk'[t] \in {dbFile[t], disk[t]}
    BY <1>4, <2>1 DEF Twins!Written
  <2>3. FilesOK(disk')
    BY <1>1, <2>2, MixedFiles
  <2>4. FileSaved
    BY <2>1, <2>2, ColumnNames DEF FileSaved
  <2> QED
    BY <1>1, <1>2, <1>3, <2>1, <2>3, <2>4, Unmoved DEF KeptByStep
<1>6. CASE Twins!Reopen
  <2>1. PICK F : disk' = Twins!Torn(F) /\ dbFile' = Twins!Torn(F)
    BY <1>6 DEF Twins!Reopen
  <2>2. DOMAIN disk' = Columns /\ \A t \in Columns : disk'[t] \in {Twins!Blank[t], disk[t]}
    BY <1>4, <2>1 DEF Twins!Torn
  <2>3. FilesOK(disk') /\ dbFile' = disk'
    BY <1>1, <2>1, <2>2, MixedFiles, BlankOK
  <2>4. FileReopened
    BY <2>2, <2>3, BlankOK, ColumnNames DEF FileReopened
  <2> QED
    BY <1>1, <1>2, <1>3, <2>3, <2>4, Unmoved DEF KeptByStep
<1> QED
  BY <1>5, <1>6


\* A file is read, and its rows are imported one by one.
LEMMA RowsImported ==
  ASSUME StorageInv, NEW f, NEW p \in Twins!RowsOfFile(f)
  PROVE  ToImport(p)
<1>1. PICK t \in Twins!Tables \cup {"facts"} : \E r \in Twins!RowsIn(t) : p = <<t, r>>
  BY DEF Twins!RowsOfFile
<1>2. PICK r \in Twins!RowsIn(t) : p = <<t, r>>
  BY <1>1
<1>3. FilesOK(disk)
  BY DEF StorageInv
<1>4. CASE t = "facts"
  <2>1. r \in {[key |-> x, text |-> x] : x \in Twins!Range(disk["facts"])}
    BY <1>2, <1>4 DEF Twins!RowsIn
  <2>2. PICK x \in Twins!Range(disk["facts"]) : r = [key |-> x, text |-> x]
    BY <2>1
  <2>3. x \in Facts /\ r.text = x
    BY <1>3, <2>2 DEF FilesOK, Stored, Twins!Range
  <2> QED
    BY <1>2, <1>4, <2>3 DEF ToImport
<1>5. CASE t # "facts"
  <2>1. r \in disk[t]
    BY <1>2, <1>5 DEF Twins!RowsIn
  <2>2. r \in StoredRow
    BY <1>1, <1>3, <1>5, <2>1 DEF FilesOK, Stored
  <2> QED
    BY <1>1, <1>2, <1>5, <2>2 DEF ToImport
<1> QED
  BY <1>4, <1>5

LEMMA ImportedOK ==
  ASSUME StorageInv, NEW p, ToImport(p), p[1] # "facts"
  PROVE  /\ p[1] \in Twins!Tables /\ Twins!Imported(p[1], p[2]) \in SUBSET StoredRow
         /\ UniqueKeys(Twins!Imported(p[1], p[2]))
         /\ OneRow(sql[p[1]], Twins!Imported(p[1], p[2]))
         /\ \E n \in Twins!Imported(p[1], p[2]) :
              /\ n.key = p[2].key
              /\ Twins!Imported(p[1], p[2]) = {o \in sql[p[1]] : o.key # p[2].key} \cup {n}
<1>1. PICK t, r : t = p[1] /\ r = p[2]
  OBVIOUS
<1>2. t \in Twins!Tables /\ r \in StoredRow /\ t # "facts"
  BY <1>1 DEF ToImport
<1>3. sql[t] \in SUBSET StoredRow /\ UniqueKeys(sql[t])
  <2>1. CASE t = "memories"
    BY <1>2, <2>1, StoredTypes
  <2>2. CASE t \in Twins!Keyed
    BY <1>2, <2>2, StoredTypes
  <2> QED
    BY <1>2, <2>1, <2>2, ColumnNames
<1>4. \E n \in StoredRow : Twins!Imported(t, r) = {o \in sql[t] : o.key # r.key} \cup {n}
                           /\ n.key = r.key
  <2>1. CASE t = "memories"
    BY <1>2, <2>1 DEF Twins!Imported
  <2>2. CASE t # "memories"
    <3>1. Twins!Imported(t, r) = Twins!SqlPut(sql[t], r)
      BY <1>2, <2>2 DEF Twins!Imported
    <3> QED
      BY <1>2, <1>3, <3>1, SqlPutRow
  <2> QED
    BY <2>1, <2>2
<1>5. PICK n \in StoredRow : Twins!Imported(t, r) = {o \in sql[t] : o.key # r.key} \cup {n}
                             /\ n.key = r.key
  BY <1>4
<1>6. PICK P : P = {o \in sql[t] : o.key # n.key} \cup {n}
  OBVIOUS
<1>7. P \in SUBSET StoredRow /\ UniqueKeys(P) /\ OneRow(sql[t], P) /\ n \in P
  BY <1>3, <1>6, PutStep
<1>8. P = Twins!Imported(t, r) /\ P = {o \in sql[t] : o.key # r.key} \cup {n}
  BY <1>5, <1>6
<1> QED
  BY <1>1, <1>2, <1>5, <1>7, <1>8

LEMMA ReadStep ==
  ASSUME StorageInv, Twins!ReadFile
  PROVE  StorageInv' /\ KeptByStep
<1>1. /\ dbClock \in Nat /\ SqlOK(sql) /\ FilesOK(dbFile) /\ FilesOK(disk)
      /\ TxOK(tx, asked, dbClock) /\ MigOK(mig, sql["memories"], apart, dbClock)
  BY DEF StorageInv
<1>2. /\ dbClock' = dbClock /\ sql' = sql /\ asked' = asked /\ tx' = tx
      /\ dbFile' = dbFile /\ disk' = disk /\ apart' = TRUE
  BY DEF Twins!ReadFile, Twins!MigRest
<1>3. PICK more : /\ \A p \in more : ToImport(p)
                  /\ \/ mig' = [mig EXCEPT !.next = @ + 1, !.todo = more, !.read = @ \cup more]
                     \/ mig' = [mig EXCEPT !.next = @ + 1]
  <2>1. PICK f : \/ mig' = [mig EXCEPT !.next = @ + 1, !.todo = Twins!RowsOfFile(f),
                                       !.read = @ \cup Twins!RowsOfFile(f)]
                 \/ mig' = [mig EXCEPT !.next = @ + 1]
    BY DEF Twins!ReadFile
  <2>2. \A p \in Twins!RowsOfFile(f) : ToImport(p)
    BY RowsImported
  <2> QED
    BY <2>1, <2>2
<1>4. PICK n, td, rd, sk : mig = [next |-> n, todo |-> td, read |-> rd, skipped |-> sk]
  BY <1>1 DEF MigOK
<1>5. n \in Nat \ {0} /\ \A p \in td \cup rd : ToImport(p)
  BY <1>1, <1>4 DEF MigOK
<1>6. \/ mig' = [next |-> n + 1, todo |-> more, read |-> rd \cup more, skipped |-> sk]
      \/ mig' = [next |-> n + 1, todo |-> td, read |-> rd, skipped |-> sk]
  BY <1>3, <1>4
<1>7. PICK td2, rd2 : /\ mig' = [next |-> n + 1, todo |-> td2, read |-> rd2, skipped |-> sk]
                      /\ \A p \in td2 \cup rd2 : ToImport(p)
  BY <1>3, <1>5, <1>6
<1>8. n + 1 # 1 /\ n + 1 \in Nat \ {0}
  BY <1>5
<1>9. MigOK(mig', sql'["memories"], apart', dbClock)
  BY <1>2, <1>7, <1>8 DEF MigOK
<1>10. FileSaved /\ Effects(sql, sql', asked')
  BY <1>2 DEF FileSaved, Effects
<1> QED
  BY <1>1, <1>2, <1>9, <1>10, Unmoved DEF KeptByStep

LEMMA ImportStep ==
  ASSUME StorageInv, NEW p \in mig.todo, Twins!ImportRow(p)
  PROVE  StorageInv' /\ KeptByStep
<1>1. /\ dbClock \in Nat /\ SqlOK(sql) /\ FilesOK(dbFile) /\ FilesOK(disk)
      /\ TxOK(tx, asked, dbClock) /\ MigOK(mig, sql["memories"], apart, dbClock)
  BY DEF StorageInv
<1>2. /\ dbClock' = dbClock /\ asked' = asked /\ tx' = tx
      /\ dbFile' = dbFile /\ disk' = disk /\ apart' = apart
      /\ \/ /\ sql' = [sql EXCEPT ![p[1]] = Twins!Imported(p[1], p[2])]
            /\ mig' = [mig EXCEPT !.todo = @ \ {p}]
         \/ /\ sql' = sql
            /\ mig' = [mig EXCEPT !.todo = {}, !.skipped = @ \cup Twins!SkippedOnError(p)]
  BY DEF Twins!ImportRow, Twins!MigRest
<1>3. PICK n, td, rd, sk : mig = [next |-> n, todo |-> td, read |-> rd, skipped |-> sk]
  BY <1>1 DEF MigOK
<1>4. /\ n \in Nat \ {0} /\ \A q \in td \cup rd : ToImport(q)
      /\ p \in td /\ n # 1 /\ apart
  BY <1>1, <1>3 DEF MigOK
<1>5. /\ mig' = [next |-> n, todo |-> mig'.todo, read |-> rd, skipped |-> mig'.skipped]
      /\ mig'.todo \subseteq td /\ mig'.next = n /\ mig'.read = rd
  <2>1. CASE mig' = [mig EXCEPT !.todo = @ \ {p}]
    <3>1. mig' = [next |-> n, todo |-> td \ {p}, read |-> rd, skipped |-> sk]
      BY <1>3, <2>1
    <3> QED
      BY <3>1
  <2>2. CASE mig' = [mig EXCEPT !.todo = {}, !.skipped = @ \cup Twins!SkippedOnError(p)]
    <3>1. PICK more : more = mig.skipped \cup Twins!SkippedOnError(p)
      OBVIOUS
    <3>2. mig' = [mig EXCEPT !.todo = {}, !.skipped = more]
      BY <2>2, <3>1
    <3>3. mig' = [next |-> n, todo |-> {}, read |-> rd, skipped |-> more]
      BY <1>3, <3>2
    <3> QED
      BY <3>3
  <2> QED
    BY <1>2, <2>1, <2>2
<1>6. MigOK(mig', sql'["memories"], apart', dbClock)
  BY <1>2, <1>4, <1>5 DEF MigOK
<1>7. SqlOK(sql') /\ Effects(sql, sql', asked')
  <2>1. CASE sql' = sql
    BY <1>1, <2>1 DEF Effects
  <2>2. CASE p[1] = "facts" /\ sql' = [sql EXCEPT ![p[1]] = Twins!Imported(p[1], p[2])]
    <3>1. p[2].text \in Facts
      BY <1>4, <2>2 DEF ToImport
    <3>2. sql["facts"] \in Seq(Facts) /\ Stored(sql)
      BY <1>1 DEF SqlOK, Stored
    <3>3. PICK s : s = Twins!SqlAddFact(sql["facts"], p[2].text)
      OBVIOUS
    <3>4. s \in Seq(Facts)
      BY <3>1, <3>2, <3>3, FactLists
    <3>5. sql' = [sql EXCEPT !["facts"] = s]
      BY <2>2, <3>3 DEF Twins!Imported
    <3>6. Stored(sql')
      BY <3>2, <3>4, <3>5, StoredList, ColumnNames
    <3>7. ASSUME NEW u \in Twins!Tables PROVE sql'[u] = sql[u]
      BY <3>2, <3>4, <3>5, ListKeeps, ColumnNames
    <3>8. SqlOK(sql')
      BY <1>1, <3>6, <3>7, ColumnNames DEF SqlOK
    <3>9. Effect(sql, sql', "memories", asked')
      BY <3>7, SameRows, ColumnNames DEF Effect
    <3> QED
      BY <3>8, <3>9, ColumnNames DEF Effects
  <2>3. CASE p[1] # "facts" /\ sql' = [sql EXCEPT ![p[1]] = Twins!Imported(p[1], p[2])]
    <3>1. PICK t, s : t = p[1] /\ s = Twins!Imported(p[1], p[2])
      OBVIOUS
    <3>2. t \in Twins!Tables /\ s \in SUBSET StoredRow /\ UniqueKeys(s) /\ OneRow(sql[t], s)
      BY <1>4, <2>3, <3>1, ImportedOK
    <3>3. sql' = [sql EXCEPT ![t] = s] /\ Stored(sql)
      BY <1>1, <2>3, <3>1 DEF SqlOK
    <3>4. Stored(sql')
      BY <3>2, <3>3, StoredTable
    <3>5. DOMAIN sql = Columns /\ t \in Columns
      BY <3>2, <3>3, ColumnNames DEF Stored
    <3>6. sql'[t] = s /\ \A u \in Columns : u # t => sql'[u] = sql[u]
      BY <3>3, <3>5, Assigned
    <3>7. SqlOK(sql')
      BY <1>1, <3>2, <3>4, <3>6, ColumnNames DEF SqlOK
    <3>8. Effect(sql, sql', t, asked')
      BY <3>2, <3>6, ColumnNames DEF Effect
    <3> QED
      BY <3>2, <3>7, <3>8 DEF Effects
  <2> QED
    BY <1>2, <2>1, <2>2, <2>3
<1>8. FileSaved
  BY <1>2 DEF FileSaved
<1> QED
  BY <1>1, <1>2, <1>6, <1>7, <1>8, Unmoved DEF KeptByStep

LEMMA StorageInitInv == Twins!StorageInit => StorageInv
<1> SUFFICES ASSUME Twins!StorageInit PROVE StorageInv
  OBVIOUS
<1>1. /\ dbClock = 0 /\ sql = Twins!Blank /\ dbFile = Twins!Blank /\ disk = Twins!Blank
      /\ tx = Twins!NoTx /\ asked = {}
      /\ mig = [next |-> 1, todo |-> {}, read |-> {}, skipped |-> {}]
  BY DEF Twins!StorageInit
<1>2. SqlOK(sql) /\ FilesOK(dbFile) /\ FilesOK(disk) /\ sql["memories"] = {}
  BY <1>1, BlankOK, ColumnNames
<1>3. TxOK(tx, asked, dbClock)
  BY <1>1 DEF TxOK, KeysUpTo
<1>4. MigOK(mig, sql["memories"], apart, dbClock)
  BY <1>1, <1>2 DEF MigOK, KeysUpTo
<1> QED
  BY <1>1, <1>2, <1>3, <1>4 DEF StorageInv

LEMMA StorageStep ==
  ASSUME StorageInv, [Twins!StorageNext]_(Twins!storageVars)
  PROVE  /\ StorageInv'
         /\ [Twins!SqlTables!AtomicNext]_(Twins!SqlTables!tableVars)
         /\ [Twins!FileTables!AtomicNext]_(Twins!FileTables!tableVars)
<1>1. CASE Twins!StorageNext
  <2>1. StorageInv' /\ KeptByStep
    BY <1>1, UpsertStep, DeleteStep, ExpireStep, UpsertMemoryStep, DeleteMemoryStep,
       OldestStep, ListCalls, ReplaceStep, TxStep, FileStep, ReadStep, ImportStep
       DEF Twins!StorageNext
  <2> QED
    BY <2>1, SqlRefines, FileRefines DEF KeptByStep
<1>2. CASE UNCHANGED Twins!storageVars
  <2>1. StorageInv'
    BY <1>2 DEF Twins!storageVars, StorageInv
  <2>2. UNCHANGED Twins!SqlTables!tableVars /\ UNCHANGED Twins!FileTables!tableVars
    BY <1>2 DEF Twins!storageVars, Twins!SqlTables!tableVars, Twins!FileTables!tableVars
  <2> QED
    BY <2>1, <2>2
<1> QED
  BY <1>1, <1>2

\* SQLite and the files implement the abstract tables: a call takes effect at
\* once or not at all, what SQLite shows it keeps, and a crash leaves the files as
\* they were last saved, but for one that was being written.
THEOREM StorageKeepsTables == Twins!StorageSpec => Twins!TablesKept
<1>1. Twins!StorageInit => sql = sql /\ dbFile = disk
  BY DEF Twins!StorageInit
<1>2. StorageInv /\ [Twins!StorageNext]_(Twins!storageVars)
        => /\ StorageInv'
           /\ [Twins!SqlTables!AtomicNext]_(Twins!SqlTables!tableVars)
           /\ [Twins!FileTables!AtomicNext]_(Twins!FileTables!tableVars)
  BY StorageStep
<1> QED
  BY <1>1, <1>2, StorageInitInv, PTL DEF Twins!StorageSpec, Twins!TablesKept,
    Twins!SqlTables!AtomicSpec, Twins!FileTables!AtomicSpec


\* The tables of the two.
SameColumn(t, S, F) ==
  /\ t = "facts" => Twins!Range(F) \subseteq Twins!Range(S)
  /\ t = "memories" => F \subseteq S
  /\ t \in Twins!Keyed \ {"summaries"} => Twins!Plain(S) = Twins!Plain(F)
  /\ t \in {"chat", "traces"} => S = F
SameTables(T, F, x, a) ==
  /\ \A t \in Columns \ {"memories"} : SameColumn(t, T[t], F[t])
  /\ IF x = Twins!NoTx THEN F["memories"] \subseteq T["memories"]
                       ELSE F["memories"] = a
TwinInv ==
  /\ twins /\ ~apart => SameTables(sql, dbFile, tx, asked)
  /\ Twins!Migrated
  /\ tx # Twins!NoTx => mig.next = 1

LEMMA PlainWithout ==
  ASSUME NEW S, NEW k, NEW D, \A o : o \in D <=> o \in S /\ o.key # k
  PROVE  \A q : q \in Twins!Plain(D) <=> q \in Twins!Plain(S) /\ q.key # k
<1>1. ASSUME NEW q \in Twins!Plain(D) PROVE q \in Twins!Plain(S) /\ q.key # k
  <2>1. PICK r \in D : q = [key |-> r.key, text |-> r.text, at |-> r.at, ends |-> r.ends]
    BY DEF Twins!Plain
  <2> QED
    BY <2>1 DEF Twins!Plain
<1>2. ASSUME NEW q \in Twins!Plain(S), q.key # k PROVE q \in Twins!Plain(D)
  <2>1. PICK r \in S : q = [key |-> r.key, text |-> r.text, at |-> r.at, ends |-> r.ends]
    BY DEF Twins!Plain
  <2>2. r \in D
    BY <1>2, <2>1
  <2> QED
    BY <2>1, <2>2 DEF Twins!Plain
<1> QED
  BY <1>1, <1>2

OfOtherKeys(S, k) == {o \in S : o.key # k}

LEMMA PlainBoth ==
  ASSUME NEW S, NEW F, Twins!Plain(S) = Twins!Plain(F), NEW k
  PROVE  Twins!Plain(OfOtherKeys(S, k)) = Twins!Plain(OfOtherKeys(F, k))
<1>1. PICK A, B : A = OfOtherKeys(S, k) /\ B = OfOtherKeys(F, k)
  OBVIOUS
<1>2. /\ \A o : o \in A <=> o \in S /\ o.key # k
      /\ \A o : o \in B <=> o \in F /\ o.key # k
  BY <1>1 DEF OfOtherKeys
<1>3. \A q : q \in Twins!Plain(A) <=> q \in Twins!Plain(S) /\ q.key # k
  BY <1>2, PlainWithout
<1>4. \A q : q \in Twins!Plain(B) <=> q \in Twins!Plain(F) /\ q.key # k
  BY <1>2, PlainWithout
<1> QED
  BY <1>1, <1>3, <1>4

LEMMA PlainWith ==
  ASSUME NEW A, NEW B, Twins!Plain(A) = Twins!Plain(B), NEW n, NEW r,
         n.key = r.key, n.text = r.text, n.at = r.at, n.ends = r.ends
  PROVE  Twins!Plain(A \cup {n}) = Twins!Plain(B \cup {r})
<1>1. ASSUME NEW S, NEW x
      PROVE  Twins!Plain(S \cup {x})
               = Twins!Plain(S) \cup
                 {[key |-> x.key, text |-> x.text, at |-> x.at, ends |-> x.ends]}
  BY DEF Twins!Plain
<1>2. [key |-> n.key, text |-> n.text, at |-> n.at, ends |-> n.ends]
        = [key |-> r.key, text |-> r.text, at |-> r.at, ends |-> r.ends]
  OBVIOUS
<1> QED
  BY <1>1, <1>2

LEMMA PlainExpire ==
  ASSUME NEW S \in SUBSET StoredRow, NEW F \in SUBSET StoredRow, NEW c \in Nat,
         Twins!Plain(S) = Twins!Plain(F)
  PROVE  Twins!Plain(Twins!SqlExpire(S, c)) = Twins!Plain(Twins!FileExpire(F, c))
<1>1. ASSUME NEW A \in SUBSET StoredRow, NEW D, D = {r \in A : r.ends >= c}
      PROVE  Twins!Plain(D) = {q \in Twins!Plain(A) : q.ends >= c}
  <2>1. ASSUME NEW q \in Twins!Plain(D) PROVE q \in Twins!Plain(A) /\ q.ends >= c
    <3>1. PICK r \in D : q = [key |-> r.key, text |-> r.text, at |-> r.at, ends |-> r.ends]
      BY DEF Twins!Plain
    <3> QED
      BY <1>1, <3>1 DEF Twins!Plain
  <2>2. ASSUME NEW q \in Twins!Plain(A), q.ends >= c PROVE q \in Twins!Plain(D)
    <3>1. PICK r \in A : q = [key |-> r.key, text |-> r.text, at |-> r.at, ends |-> r.ends]
      BY DEF Twins!Plain
    <3>2. r \in D
      BY <1>1, <2>2, <3>1
    <3> QED
      BY <3>1, <3>2 DEF Twins!Plain
  <2> QED
    BY <2>1, <2>2
<1>2. PICK D, E : D = {r \in S : r.ends >= c} /\ E = {r \in F : r.ends >= c}
  OBVIOUS
<1>3. Twins!SqlExpire(S, c) = D
  BY <1>2 DEF Twins!SqlExpire
<1>4. \A r \in F : ~(r.ends < c) <=> r.ends >= c
  BY DEF StoredRow
<1>5. Twins!FileExpire(F, c) = E
  BY <1>2, <1>4 DEF Twins!FileExpire
<1>6. Twins!Plain(D) = {q \in Twins!Plain(S) : q.ends >= c}
      /\ Twins!Plain(E) = {q \in Twins!Plain(F) : q.ends >= c}
  BY <1>1, <1>2
<1> QED
  BY <1>3, <1>5, <1>6

\* No call comes after the import has begun.
LEMMA NoneImported ==
  ASSUME StorageInv, mig.next = 1, mig' = mig
  PROVE  Twins!Migrated'
<1>1. mig.read = {}
  BY DEF StorageInv, MigOK
<1> QED
  BY <1>1 DEF Twins!Migrated

LEMMA CallAgrees ==
  ASSUME StorageInv, TwinInv, NEW t \in Columns, NEW s, NEW f,
         tx = Twins!NoTx, tx' = Twins!NoTx, twins' = twins, apart' = apart,
         mig.next = 1, mig' = mig, Twins!Both(t, s, f),
         SameColumn(t, sql[t], dbFile[t]) => SameColumn(t, s, f)
  PROVE  TwinInv'
<1>1. DOMAIN sql = Columns /\ DOMAIN dbFile = Columns
  BY DEF StorageInv, SqlOK, FilesOK, Stored
<1>2. ASSUME twins, ~apart PROVE SameTables(sql', dbFile', tx', asked')
  <2>1. sql' = [sql EXCEPT ![t] = s] /\ dbFile' = [dbFile EXCEPT ![t] = f]
    BY <1>2 DEF Twins!Both
  <2>2. sql'[t] = s /\ \A u \in Columns : u # t => sql'[u] = sql[u]
    BY <1>1, <2>1, Assigned
  <2>3. dbFile'[t] = f /\ \A u \in Columns : u # t => dbFile'[u] = dbFile[u]
    BY <1>1, <2>1, Assigned
  <2>4. \A F, S : SameColumn("memories", S, F) <=> F \subseteq S
    BY ColumnNames DEF SameColumn
  <2>5. "memories" \in Columns
    BY ColumnNames
  <2>6. \A u \in Columns : SameColumn(u, sql[u], dbFile[u])
    BY <1>2, <2>4 DEF TwinInv, SameTables
  <2>7. \A u \in Columns : SameColumn(u, sql'[u], dbFile'[u])
    BY <2>2, <2>3, <2>6
  <2> QED
    BY <2>4, <2>5, <2>7 DEF SameTables
<1>3. Twins!Migrated'
  BY NoneImported
<1> QED
  BY <1>2, <1>3 DEF TwinInv

\* A call of the calls that are one statement.
LEMMA Called ==
  ASSUME Twins!Call, Twins!Rest
  PROVE  /\ tx = Twins!NoTx /\ tx' = Twins!NoTx /\ twins' = twins /\ apart' = apart
         /\ mig.next = 1 /\ mig' = mig
BY DEF Twins!Call, Twins!Rest

LEMMA SameKeyed ==
  ASSUME NEW t \in Twins!Keyed, NEW S, NEW F
  PROVE  SameColumn(t, S, F) <=> (t = "summaries" \/ Twins!Plain(S) = Twins!Plain(F))
<1>1. t \notin {"facts", "memories", "chat", "traces"}
  BY DEF Twins!Keyed
<1> QED
  BY <1>1 DEF SameColumn

LEMMA UpsertAgrees ==
  ASSUME StorageInv, TwinInv, NEW t \in Twins!Keyed, NEW k \in Keys, NEW x \in Facts,
         NEW ttl \in 0..2, Twins!Upsert(t, k, x, ttl)
  PROVE  TwinInv'
<1>1. t \in Twins!Tables /\ t \in Columns
  BY ColumnNames
<1>2. PICK r : r = Twins!Row(k, x, ttl)
  OBVIOUS
<1>3. r \in StoredRow
  BY <1>1, <1>2, RowType, StoredTypes
<1>4. PICK n \in StoredRow :
        /\ Twins!SqlPut(sql[t], r) = {o \in sql[t] : o.key # r.key} \cup {n}
        /\ n.key = r.key /\ n.text = r.text /\ n.at = r.at /\ n.ends = r.ends
  BY <1>1, <1>3, StoredTypes, SqlPutRow
<1>5. PICK s, f : s = Twins!SqlPut(sql[t], r) /\ f = Twins!FilePut(dbFile[t], r)
  OBVIOUS
<1>6. Twins!Call /\ Twins!Rest /\ Twins!Both(t, s, f)
  BY <1>2, <1>5 DEF Twins!Upsert
<1>7. ASSUME Twins!Plain(sql[t]) = Twins!Plain(dbFile[t])
      PROVE  Twins!Plain(s) = Twins!Plain(f)
  <2>1. PICK A, B : A = OfOtherKeys(sql[t], r.key) /\ B = OfOtherKeys(dbFile[t], r.key)
    OBVIOUS
  <2>2. Twins!Plain(A) = Twins!Plain(B)
    BY <1>7, <2>1, PlainBoth
  <2>3. s = A \cup {n} /\ f = B \cup {r}
    BY <1>4, <1>5, <2>1 DEF Twins!FilePut, OfOtherKeys
  <2> QED
    BY <1>4, <2>2, <2>3, PlainWith
<1>8. SameColumn(t, sql[t], dbFile[t]) => SameColumn(t, s, f)
  BY <1>7, SameKeyed
<1> QED
  BY <1>1, <1>6, <1>8, Called, CallAgrees

LEMMA DeleteAgrees ==
  ASSUME StorageInv, TwinInv, NEW t \in Twins!Keyed, NEW k \in Keys, Twins!Delete(t, k)
  PROVE  TwinInv'
<1>1. t \in Columns
  BY ColumnNames
<1>2. PICK s, f : s = {r \in sql[t] : r.key # k} /\ f = {r \in dbFile[t] : r.key # k}
  OBVIOUS
<1>3. Twins!Call /\ Twins!Rest /\ Twins!Both(t, s, f)
  BY <1>2 DEF Twins!Delete
<1>4. Twins!Plain(sql[t]) = Twins!Plain(dbFile[t]) => Twins!Plain(s) = Twins!Plain(f)
  <2>1. s = OfOtherKeys(sql[t], k) /\ f = OfOtherKeys(dbFile[t], k)
    BY <1>2 DEF OfOtherKeys
  <2> QED
    BY <2>1, PlainBoth
<1>5. SameColumn(t, sql[t], dbFile[t]) => SameColumn(t, s, f)
  BY <1>4, SameKeyed
<1> QED
  BY <1>1, <1>3, <1>5, Called, CallAgrees


LEMMA ExpiryAgrees ==
  ASSUME StorageInv, TwinInv, Twins!DeleteExpiredSessions
  PROVE  TwinInv'
<1>1. "sessions" \in Twins!Tables /\ "sessions" \in Twins!Keyed /\ "sessions" \in Columns
  BY ColumnNames
<1>2. PICK s, f : /\ s = Twins!SqlExpire(sql["sessions"], dbClock)
                  /\ f = Twins!FileExpire(dbFile["sessions"], dbClock)
  OBVIOUS
<1>3. Twins!Call /\ Twins!Rest /\ Twins!Both("sessions", s, f)
  BY <1>2 DEF Twins!DeleteExpiredSessions
<1>4. Twins!Plain(sql["sessions"]) = Twins!Plain(dbFile["sessions"])
        => Twins!Plain(s) = Twins!Plain(f)
  BY <1>1, <1>2, StoredTypes, PlainExpire
<1>5. SameColumn("sessions", sql["sessions"], dbFile["sessions"])
        => SameColumn("sessions", s, f)
  BY <1>1, <1>4, SameKeyed
<1> QED
  BY <1>1, <1>3, <1>5, Called, CallAgrees

LEMMA MemoryAgrees ==
  ASSUME StorageInv, TwinInv,
         \/ \E x \in Facts : Twins!UpsertMemory(x)
         \/ \E k \in Keys : Twins!DeleteMemory(k)
         \/ Twins!DeleteOldestSummary
  PROVE  TwinInv'
<1>1. "memories" \in Columns /\ "summaries" \in Columns /\ "summaries" \in Twins!Keyed
  BY ColumnNames DEF Twins!Keyed
<1>2. \A S, F : SameColumn("memories", S, F) <=> F \subseteq S
  BY ColumnNames DEF SameColumn
<1>3. ASSUME NEW x \in Facts, Twins!UpsertMemory(x) PROVE TwinInv'
  <2>1. PICK r : r = Twins!Row(dbClock + 1, x, 0)
    OBVIOUS
  <2>2. PICK s, f : /\ s = sql["memories"] \cup {r}
                    /\ f = Twins!FilePutMemory(dbFile["memories"], r)
    OBVIOUS
  <2>3. Twins!Call /\ Twins!Rest /\ Twins!Both("memories", s, f)
    BY <1>3, <2>1, <2>2 DEF Twins!UpsertMemory
  <2>4. dbFile["memories"] \subseteq sql["memories"] => f \subseteq s
    BY <2>2 DEF Twins!FilePutMemory
  <2> QED
    BY <1>1, <1>2, <2>3, <2>4, Called, CallAgrees
<1>4. ASSUME NEW k \in Keys, Twins!DeleteMemory(k) PROVE TwinInv'
  <2>1. PICK found, s : /\ found = {m \in dbFile["memories"] : m.key = k}
                        /\ s = {m \in sql["memories"] : m.key # k}
    OBVIOUS
  <2>2. Twins!Call /\ Twins!Rest
        /\ \E out \in {{m} : m \in found} \cup (IF found = {} THEN {{}} ELSE {}) :
             Twins!Both("memories", s, dbFile["memories"] \ out)
    BY <1>4, <2>1 DEF Twins!DeleteMemory
  <2>3. PICK out : /\ found = {} \/ \E m \in found : out = {m}
                   /\ Twins!Both("memories", s, dbFile["memories"] \ out)
    BY <2>2
  <2>4. PICK f : f = dbFile["memories"] \ out
    OBVIOUS
  <2>5. UniqueKeys(sql["memories"])
    BY ColumnNames, StoredTypes
  <2>6. ASSUME dbFile["memories"] \subseteq sql["memories"], NEW m \in f PROVE m \in s
    <3>1. m \in dbFile["memories"] /\ m \in sql["memories"] /\ m \notin out
      BY <2>4, <2>6
    <3>2. m.key # k
      BY <2>1, <2>3, <2>5, <2>6, <3>1 DEF UniqueKeys
    <3> QED
      BY <2>1, <3>1, <3>2
  <2>7. dbFile["memories"] \subseteq sql["memories"] => f \subseteq s
    BY <2>6
  <2> QED
    BY <1>1, <1>2, <2>2, <2>3, <2>4, <2>7, Called, CallAgrees
<1>5. ASSUME Twins!DeleteOldestSummary PROVE TwinInv'
  <2>1. PICK s, f : Twins!Call /\ Twins!Rest /\ Twins!Both("summaries", s, f)
    BY <1>5 DEF Twins!DeleteOldestSummary
  <2>2. SameColumn("summaries", s, f)
    BY <1>1, SameKeyed
  <2> QED
    BY <1>1, <2>1, <2>2, Called, CallAgrees
<1> QED
  BY <1>3, <1>4, <1>5

LEMMA RangeAppend ==
  ASSUME NEW s \in Seq(Facts), NEW x \in Facts
  PROVE  Twins!Range(Append(s, x)) = Twins!Range(s) \cup {x}
<1>1. /\ Append(s, x) \in Seq(Facts) /\ Len(Append(s, x)) = Len(s) + 1 /\ Len(s) \in Nat
      /\ DOMAIN s = 1..Len(s) /\ DOMAIN Append(s, x) = 1..Len(s) + 1
      /\ \A i \in 1..Len(s) : Append(s, x)[i] = s[i]
      /\ Append(s, x)[Len(s) + 1] = x
  OBVIOUS
<1>2. ASSUME NEW y \in Twins!Range(Append(s, x)) PROVE y \in Twins!Range(s) \cup {x}
  <2>1. PICK i \in 1..Len(s) + 1 : y = Append(s, x)[i]
    BY <1>1 DEF Twins!Range
  <2>2. i \in 1..Len(s) \/ i = Len(s) + 1
    BY <1>1
  <2> QED
    BY <1>1, <2>1, <2>2 DEF Twins!Range
<1>3. ASSUME NEW y \in Twins!Range(s) PROVE y \in Twins!Range(Append(s, x))
  <2>1. PICK i \in 1..Len(s) : y = s[i]
    BY <1>1 DEF Twins!Range
  <2>2. i \in 1..Len(s) + 1
    BY <1>1
  <2> QED
    BY <1>1, <2>1, <2>2 DEF Twins!Range
<1>4. x \in Twins!Range(Append(s, x))
  <2>1. Len(s) + 1 \in 1..Len(s) + 1
    BY <1>1
  <2> QED
    BY <1>1, <2>1 DEF Twins!Range
<1> QED
  BY <1>2, <1>3, <1>4

LEMMA FactAdded ==
  ASSUME NEW fs \in Seq(Facts), NEW x \in Facts
  PROVE  Twins!Range(Twins!SqlAddFact(fs, x)) = Twins!Range(fs) \cup {x}
BY RangeAppend DEF Twins!SqlAddFact

LEMMA FactsAgree ==
  ASSUME NEW fs \in Seq(Facts), NEW gs \in Seq(Facts), NEW x \in Facts,
         Twins!Range(gs) \subseteq Twins!Range(fs)
  PROVE  Twins!Range(Twins!FileAddFact(gs, x)) \subseteq Twins!Range(Twins!SqlAddFact(fs, x))
<1>2. Twins!Range(Twins!SqlAddFact(fs, x)) = Twins!Range(fs) \cup {x}
  BY FactAdded
<1>3. /\ Append(gs, x) \in Seq(Facts) /\ Append(gs, x) # <<>>
  <2>1. Append(gs, x) \in Seq(Facts) /\ Len(Append(gs, x)) = Len(gs) + 1 /\ Len(gs) \in Nat
    OBVIOUS
  <2>2. Len(Append(gs, x)) # 0
    BY <2>1
  <2> QED
    BY <2>1, <2>2
<1>4. Twins!Range(Tail(Append(gs, x))) \subseteq Twins!Range(Append(gs, x))
  BY <1>3, HeadAndTail
<1>5. Twins!FileAddFact(gs, x) \in {gs, Append(gs, x), Tail(Append(gs, x))}
  BY DEF Twins!FileAddFact
<1>6. Twins!Range(Append(gs, x)) = Twins!Range(gs) \cup {x}
  BY RangeAppend
<1> QED
  BY <1>2, <1>4, <1>5, <1>6

LEMMA ListsAgree ==
  ASSUME StorageInv, TwinInv,
         \E x \in Facts : \/ Twins!AddFact(x) \/ Twins!WriteTrace(x)
                          \/ \E k \in Keys : Twins!InsertChatMessage(k, x)
  PROVE  TwinInv'
<1>1. "facts" \in Columns /\ "chat" \in Columns /\ "traces" \in Columns
  BY DEF Twins!Lists, Columns
<1>2. sql["facts"] \in Seq(Facts) /\ dbFile["facts"] \in Seq(Facts)
  BY DEF StorageInv, SqlOK, FilesOK, Stored
<1>3. /\ \A S, F : SameColumn("facts", S, F) <=> Twins!Range(F) \subseteq Twins!Range(S)
      /\ \A S, F : SameColumn("chat", S, F) <=> S = F
      /\ \A S, F : SameColumn("traces", S, F) <=> S = F
  BY DEF SameColumn, Twins!Keyed
<1>4. ASSUME NEW x \in Facts, Twins!AddFact(x) PROVE TwinInv'
  <2>1. PICK s, f : s = Twins!SqlAddFact(sql["facts"], x) /\ f = Twins!FileAddFact(dbFile["facts"], x)
    OBVIOUS
  <2>2. Twins!Rest /\ Twins!Both("facts", s, f) /\ Twins!Call
    BY <1>4, <2>1 DEF Twins!AddFact
  <2>3. Twins!Range(dbFile["facts"]) \subseteq Twins!Range(sql["facts"])
          => Twins!Range(f) \subseteq Twins!Range(s)
    BY <1>2, <2>1, FactsAgree
  <2> QED
    BY <1>1, <1>3, <2>2, <2>3, Called, CallAgrees
<1>5. ASSUME NEW x \in Facts, NEW k \in Keys, Twins!InsertChatMessage(k, x) PROVE TwinInv'
  <2>1. PICK msg : /\ Twins!Both("chat", Append(sql["chat"], msg), Append(dbFile["chat"], msg))
                   /\ Twins!Rest /\ Twins!Call
    BY <1>5 DEF Twins!InsertChatMessage
  <2>2. PICK s, f : s = Append(sql["chat"], msg) /\ f = Append(dbFile["chat"], msg)
    OBVIOUS
  <2> QED
    BY <1>1, <1>3, <2>1, <2>2, Called, CallAgrees
<1>6. ASSUME NEW x \in Facts, Twins!WriteTrace(x) PROVE TwinInv'
  <2>1. PICK s, f : s = Append(sql["traces"], x) /\ f = Append(dbFile["traces"], x)
    OBVIOUS
  <2>2. /\ Twins!Both("traces", s, f) /\ Twins!Rest
        /\ tx = Twins!NoTx /\ mig.next = 1 /\ mig' = mig /\ apart' = apart /\ twins' = twins
    BY <1>6, <2>1 DEF Twins!WriteTrace
  <2>3. tx' = Twins!NoTx
    BY <2>2 DEF Twins!Rest
  <2> QED
    BY <1>1, <1>3, <2>1, <2>2, <2>3, CallAgrees
<1> QED
  BY <1>4, <1>5, <1>6


LEMMA ReplaceAgrees ==
  ASSUME StorageInv, TwinInv, NEW batch \in Twins!Batches, Twins!ReplaceAllMemories(batch)
  PROVE  TwinInv'
<1>1. /\ mig.next = 1 /\ mig' = mig /\ twins' = twins /\ apart' = apart /\ tx = Twins!NoTx
  BY DEF Twins!ReplaceAllMemories, Twins!Call
<1>2. /\ dbFile' = [dbFile EXCEPT !["memories"] = Twins!Range(batch)]
      /\ twins => tx' = [open |-> TRUE, todo |-> batch, rows |-> {}]
      /\ asked' = Twins!Range(batch) /\ sql' = sql
  BY DEF Twins!ReplaceAllMemories
<1>3. ASSUME twins, ~apart PROVE SameTables(sql', dbFile', tx', asked')
  <2>1. DOMAIN dbFile = Columns /\ "memories" \in Columns
    BY ColumnNames DEF StorageInv, FilesOK, Stored
  <2>2. /\ dbFile'["memories"] = asked'
        /\ \A u \in Columns : u # "memories" => dbFile'[u] = dbFile[u]
    BY <1>2, <2>1, Assigned
  <2>3. tx'.open
    BY <1>2, <1>3
  <2>4. tx' # Twins!NoTx
    BY <2>3 DEF Twins!NoTx
  <2>5. \A t \in Columns \ {"memories"} : SameColumn(t, sql[t], dbFile[t])
    BY <1>3 DEF TwinInv, SameTables
  <2> QED
    BY <1>2, <2>2, <2>4, <2>5 DEF SameTables
<1>4. Twins!Migrated'
  BY <1>1, NoneImported
<1> QED
  BY <1>1, <1>3, <1>4 DEF TwinInv

LEMMA TxAgrees ==
  ASSUME StorageInv, TwinInv, Twins!TxInsert \/ Twins!TxCommit \/ Twins!TxFail
  PROVE  TwinInv'
<1>1. /\ tx.open
      /\ twins' = twins /\ dbFile' = dbFile /\ asked' = asked /\ mig' = mig
  BY DEF Twins!TxInsert, Twins!TxCommit, Twins!TxFail, Twins!TxRest
<1>2. tx # Twins!NoTx
  BY <1>1 DEF Twins!NoTx
<1>3. mig.next = 1 /\ Twins!Migrated'
  BY <1>1, <1>2, NoneImported DEF TwinInv
<1>4. ASSUME twins', ~apart' PROVE SameTables(sql', dbFile', tx', asked')
  <2>1. ~(Twins!TxInsert /\ Head(tx.todo).key \in Twins!KeysOf(tx.rows)) /\ ~Twins!TxFail
    BY <1>4 DEF Twins!TxInsert, Twins!TxFail
  <2>2. apart' = apart
    BY <2>1 DEF Twins!TxInsert, Twins!TxCommit
  <2>3. SameTables(sql, dbFile, tx, asked)
    BY <1>1, <1>4, <2>2 DEF TwinInv
  <2>4. CASE Twins!TxInsert
    <3>1. /\ tx' = [open |-> TRUE, todo |-> Tail(tx.todo), rows |-> tx.rows \cup {Head(tx.todo)}]
          /\ sql' = sql
      BY <2>1, <2>4 DEF Twins!TxInsert, Twins!InTx
    <3>2. tx'.open
      BY <3>1
    <3>3. tx' # Twins!NoTx
      BY <3>2 DEF Twins!NoTx
    <3> QED
      BY <1>1, <1>2, <2>3, <3>1, <3>3 DEF SameTables
  <2>5. CASE Twins!TxCommit
    <3>1. /\ tx.todo = <<>> /\ sql' = [sql EXCEPT !["memories"] = tx.rows]
          /\ tx' = Twins!NoTx
      BY <2>5 DEF Twins!TxCommit
    <3>2. tx.rows = asked
      <4>1. \A s : s = <<>> => Twins!Range(s) = {}
        BY DEF Twins!Range
      <4>2. Twins!Range(tx.todo) = {}
        BY <3>1, <4>1
      <4> QED
        BY <1>1, <4>2, OpenTx
    <3>3. DOMAIN sql = Columns /\ "memories" \in Columns
      BY ColumnNames DEF StorageInv, SqlOK, Stored
    <3>4. sql'["memories"] = asked /\ \A u \in Columns : u # "memories" => sql'[u] = sql[u]
      BY <3>1, <3>2, <3>3, Assigned
    <3> QED
      BY <1>1, <1>2, <2>3, <3>1, <3>4 DEF SameTables
  <2> QED
    BY <2>1, <2>4, <2>5
<1> QED
  BY <1>1, <1>3, <1>4 DEF TwinInv

LEMMA FilesAgree ==
  ASSUME StorageInv, TwinInv, Twins!Save \/ Twins!Reopen
  PROVE  TwinInv'
<1>1. /\ twins' = twins /\ sql' = sql /\ asked' = asked /\ mig' = mig
      /\ \/ apart' = apart /\ tx' = tx /\ dbFile' = dbFile
         \/ apart' = TRUE /\ tx' = Twins!NoTx
  BY DEF Twins!Save, Twins!Reopen
<1>2. Twins!Migrated'
  BY <1>1 DEF TwinInv, Twins!Migrated
<1> QED
  BY <1>1, <1>2 DEF TwinInv

LEMMA ReadAgrees ==
  ASSUME StorageInv, TwinInv, Twins!ReadFile
  PROVE  TwinInv'
<1>1. /\ sql' = sql /\ tx = Twins!NoTx /\ tx' = tx /\ apart' = TRUE /\ mig.todo = {}
  BY DEF Twins!ReadFile, Twins!MigRest
<1>2. PICK more : \/ mig' = [mig EXCEPT !.next = @ + 1, !.todo = more, !.read = @ \cup more]
                  \/ mig' = [mig EXCEPT !.next = @ + 1]
  BY DEF Twins!ReadFile
<1>3. PICK n, td, rd, sk : mig = [next |-> n, todo |-> td, read |-> rd, skipped |-> sk]
  BY DEF StorageInv, MigOK
<1>4. \/ mig' = [next |-> n + 1, todo |-> more, read |-> rd \cup more, skipped |-> sk]
      \/ mig' = [next |-> n + 1, todo |-> td, read |-> rd, skipped |-> sk]
  BY <1>2, <1>3
<1>5. mig'.read \ (mig'.todo \cup mig'.skipped) \subseteq mig.read \ (mig.todo \cup mig.skipped)
  BY <1>1, <1>3, <1>4
<1>6. Twins!Migrated'
  BY <1>1, <1>5 DEF TwinInv, Twins!Migrated
<1> QED
  BY <1>1, <1>6 DEF TwinInv

IsThere(p, T) == IF p[1] = "facts" THEN p[2].text \in Twins!Range(T["facts"])
                 ELSE p[2].key \in Twins!KeysOf(T[p[1]])

\* An import adds its row and takes nothing that is not in its place.
LEMMA RowThere ==
  ASSUME StorageInv, NEW p, ToImport(p),
         sql' = [sql EXCEPT ![p[1]] = Twins!Imported(p[1], p[2])]
  PROVE  /\ IsThere(p, sql')
         /\ \A q : ToImport(q) /\ IsThere(q, sql) => IsThere(q, sql')
<1>1. DOMAIN sql = Columns /\ sql["facts"] \in Seq(Facts)
  BY DEF StorageInv, SqlOK, Stored
<1>2. CASE p[1] = "facts"
  <2>1. p[2].text \in Facts /\ "facts" \in Columns
    BY <1>2, ColumnNames DEF ToImport
  <2>2. PICK s : s = Twins!SqlAddFact(sql["facts"], p[2].text)
    OBVIOUS
  <2>3. sql' = [sql EXCEPT !["facts"] = s]
    BY <1>2, <2>2 DEF Twins!Imported
  <2>4. sql'["facts"] = s /\ \A u \in Columns : u # "facts" => sql'[u] = sql[u]
    BY <1>1, <2>1, <2>3, Assigned
  <2>5. Twins!Range(s) = Twins!Range(sql["facts"]) \cup {p[2].text}
    BY <1>1, <2>1, <2>2, FactAdded
  <2>6. IsThere(p, sql')
    BY <1>2, <2>4, <2>5 DEF IsThere
  <2>7. ASSUME NEW q, ToImport(q), IsThere(q, sql) PROVE IsThere(q, sql')
    <3>1. CASE q[1] = "facts"
      BY <2>4, <2>5, <2>7, <3>1 DEF IsThere
    <3>2. CASE q[1] # "facts"
      <4>1. q[1] \in Columns
        BY <2>7, <3>2, ColumnNames DEF ToImport
      <4> QED
        BY <2>4, <2>7, <3>2, <4>1 DEF IsThere
    <3> QED
      BY <3>1, <3>2
  <2> QED
    BY <2>6, <2>7
<1>3. CASE p[1] # "facts"
  <2>1. PICK t, s : t = p[1] /\ s = Twins!Imported(p[1], p[2])
    OBVIOUS
  <2>2. /\ t \in Twins!Tables
        /\ \E n \in s : n.key = p[2].key /\ s = {o \in sql[t] : o.key # p[2].key} \cup {n}
    BY <1>3, <2>1, ImportedOK
  <2>3. t \in Columns /\ t # "facts"
    BY <1>3, <2>1, <2>2, ColumnNames
  <2>4. sql'[t] = s /\ \A u \in Columns : u # t => sql'[u] = sql[u]
    BY <1>1, <2>1, <2>3, Assigned
  <2>5. \A k : k = p[2].key \/ k \in Twins!KeysOf(sql[t]) => k \in Twins!KeysOf(s)
    BY <2>2 DEF Twins!KeysOf
  <2>6. IsThere(p, sql')
    BY <1>3, <2>1, <2>4, <2>5 DEF IsThere
  <2>7. ASSUME NEW q, ToImport(q), IsThere(q, sql) PROVE IsThere(q, sql')
    <3>1. q[1] \in Columns
      BY <2>7, ColumnNames DEF ToImport
    <3>2. "facts" \in Columns
      BY ColumnNames
    <3> QED
      BY <2>3, <2>4, <2>5, <2>7, <3>1, <3>2 DEF IsThere
  <2> QED
    BY <2>6, <2>7
<1> QED
  BY <1>2, <1>3

LEMMA ImportAgrees ==
  ASSUME StorageInv, TwinInv, NEW p \in mig.todo, Twins!ImportRow(p)
  PROVE  TwinInv'
<1>1. /\ tx = Twins!NoTx /\ tx' = tx /\ apart' = apart
      /\ \/ /\ sql' = [sql EXCEPT ![p[1]] = Twins!Imported(p[1], p[2])]
            /\ mig' = [mig EXCEPT !.todo = @ \ {p}]
         \/ /\ sql' = sql
            /\ mig' = [mig EXCEPT !.todo = {}, !.skipped = @ \cup Twins!SkippedOnError(p)]
  BY DEF Twins!ImportRow, Twins!MigRest
<1>2. PICK n, td, rd, sk : mig = [next |-> n, todo |-> td, read |-> rd, skipped |-> sk]
  BY DEF StorageInv, MigOK
<1>3. /\ n # 1 /\ apart /\ p \in td /\ \A q \in td \cup rd : ToImport(q)
  BY <1>2 DEF StorageInv, MigOK
<1>4. \A q \in rd \ (td \cup sk) : IsThere(q, sql)
  BY <1>2 DEF TwinInv, Twins!Migrated, IsThere
<1>5. \A q \in mig'.read \ (mig'.todo \cup mig'.skipped) : IsThere(q, sql')
  <2>1. CASE /\ sql' = [sql EXCEPT ![p[1]] = Twins!Imported(p[1], p[2])]
             /\ mig' = [mig EXCEPT !.todo = @ \ {p}]
    <3>1. mig' = [next |-> n, todo |-> td \ {p}, read |-> rd, skipped |-> sk]
      BY <1>2, <2>1
    <3>2. /\ IsThere(p, sql')
          /\ \A q : ToImport(q) /\ IsThere(q, sql) => IsThere(q, sql')
      BY <1>3, <2>1, RowThere
    <3> QED
      BY <1>3, <1>4, <3>1, <3>2
  <2>2. CASE /\ sql' = sql
             /\ mig' = [mig EXCEPT !.todo = {}, !.skipped = @ \cup Twins!SkippedOnError(p)]
    <3>1. Twins!SkippedOnError(p) = td
      BY <1>2 DEF Twins!SkippedOnError
    <3>2. PICK more : more = mig.skipped \cup Twins!SkippedOnError(p)
      OBVIOUS
    <3>3. mig' = [mig EXCEPT !.todo = {}, !.skipped = more]
      BY <2>2, <3>2
    <3>4. mig' = [next |-> n, todo |-> {}, read |-> rd, skipped |-> more]
      BY <1>2, <3>3
    <3>5. more = sk \cup td
      BY <1>2, <3>1, <3>2
    <3>6. mig'.read = rd /\ mig'.todo = {} /\ mig'.skipped = sk \cup td
      BY <3>4, <3>5
    <3>7. mig'.read \ (mig'.todo \cup mig'.skipped) = rd \ (td \cup sk)
      BY <3>6
    <3>8. \A q \in rd \ (td \cup sk) : IsThere(q, sql')
      BY <1>4, <2>2
    <3> QED
      BY <3>7, <3>8
  <2> QED
    BY <1>1, <2>1, <2>2
<1>6. Twins!Migrated'
  BY <1>5 DEF Twins!Migrated, IsThere
<1> QED
  BY <1>1, <1>3, <1>6 DEF TwinInv

LEMMA TwinStep ==
  ASSUME StorageInv, TwinInv, [Twins!StorageNext]_(Twins!storageVars)
  PROVE  TwinInv'
<1>1. CASE Twins!StorageNext
  BY <1>1, UpsertAgrees, DeleteAgrees, ExpiryAgrees, MemoryAgrees, ListsAgree,
     ReplaceAgrees, TxAgrees, FilesAgree, ReadAgrees, ImportAgrees DEF Twins!StorageNext
<1>2. CASE UNCHANGED Twins!storageVars
  BY <1>2 DEF Twins!storageVars, TwinInv, Twins!Migrated
<1> QED
  BY <1>1, <1>2

LEMMA TwinInitInv == Twins!StorageInit => TwinInv
<1> SUFFICES ASSUME Twins!StorageInit PROVE TwinInv
  OBVIOUS
<1>1. /\ sql = Twins!Blank /\ dbFile = Twins!Blank
      /\ tx = Twins!NoTx /\ mig = [next |-> 1, todo |-> {}, read |-> {}, skipped |-> {}]
  BY DEF Twins!StorageInit
<1>2. SameTables(sql, dbFile, tx, asked)
  BY <1>1 DEF SameTables, SameColumn
<1>3. Twins!Migrated
  BY <1>1 DEF Twins!Migrated
<1> QED
  BY <1>1, <1>2, <1>3 DEF TwinInv

\* Whichever storage is configured, the same calls leave the same rows, up to the
\* facts and memories that the file limits or joins; and every row an import read
\* is in SQLite, but for the rest of a file whose row failed.
THEOREM TwinsAgreeHolds == Twins!StorageSpec => []TwinsAgree
<1>1. Twins!StorageInit => StorageInv /\ TwinInv
  BY StorageInitInv, TwinInitInv
<1>2. StorageInv /\ TwinInv /\ [Twins!StorageNext]_(Twins!storageVars)
        => StorageInv' /\ TwinInv'
  BY StorageStep, TwinStep
<1>3. StorageInv /\ TwinInv => TwinsAgree
  <2> SUFFICES ASSUME StorageInv, TwinInv PROVE TwinsAgree
    OBVIOUS
  <2>1. ASSUME twins, ~apart, tx = Twins!NoTx PROVE Twins!SameCalls
    <3>1. \A t \in Columns : SameColumn(t, sql[t], dbFile[t])
      BY <2>1, ColumnNames DEF TwinInv, SameTables, SameColumn
    <3>2. \A t \in Twins!Keyed \ {"summaries"} : Twins!Plain(sql[t]) = Twins!Plain(dbFile[t])
      BY <3>1, ColumnNames, SameKeyed
    <3>3. sql["chat"] = dbFile["chat"] /\ sql["traces"] = dbFile["traces"]
      BY <3>1 DEF SameColumn, Columns, Twins!Lists
    <3>4. Twins!Range(dbFile["facts"]) \subseteq Twins!Range(sql["facts"])
      BY <3>1, ColumnNames DEF SameColumn
    <3>5. dbFile["memories"] \subseteq sql["memories"]
      BY <3>1, ColumnNames DEF SameColumn
    <3>6. Twins!TextsOf(dbFile["memories"]) \subseteq Twins!TextsOf(sql["memories"])
      BY <3>5 DEF Twins!TextsOf
    <3>7. ASSUME NEW k \in Keys, NEW n \in 0..MaxCalls
          PROVE  Twins!IsCut(Twins!About(k, sql["chat"]), n)
                   \/ Twins!SqlChat(k, n) = Twins!FileChat(k, n)
      BY <3>3 DEF Twins!SqlChat, Twins!FileChat, Twins!First
    <3> QED
      BY <3>2, <3>3, <3>4, <3>6, <3>7 DEF Twins!SameCalls
  <2>2. Twins!SameCalls
    BY <2>1 DEF Twins!SameCalls
  <2>3. Twins!Migrated
    BY DEF TwinInv
  <2> QED
    BY <2>2, <2>3 DEF TwinsAgree, Twins!TwinsAgree
<1> QED
  BY <1>1, <1>2, <1>3, PTL DEF Twins!StorageSpec
================================================================================
