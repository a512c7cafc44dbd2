--------------------------- MODULE WorkflowEngineProofs ---------------------------
(***************************************************************************)
(* Proofs about the workflow engine: its types, that the order of          *)
(* execution is a topological order, that a cyclic graph executes nothing, *)
(* that a failure is not lost and that no step outlives its turn, for any  *)
(* graph, any runs and any group nodes.                                    *)
(***************************************************************************)
EXTENDS WorkflowEngine, FiniteSetTheorems, TLAPS

USE ConstAssumption DEF ConstAssumption, sortVars, groupVars, stepVars

-------------------------------------------------------------------------------
(* Sorting.                                                                *)

SortTypeOK ==
  /\ wf \in [Runs -> Workflows]
  /\ pc \in [Runs -> {"load", "parse", "sort", "loop", "one", "seq", "rounds", "par", "done"}]
  /\ inDegree \in [Runs -> [Nodes -> Nat]]
  /\ ready \in [Runs -> SUBSET Nodes] /\ sorted \in [Runs -> Seq(Nodes)]

Before(r, i) == {sorted[r][j] : j \in 1..(i - 1)}

\* The sorted nodes are different and stand behind their parents.
OrderOK(r) ==
  \A i \in 1..Len(sorted[r]) :
    sorted[r][i] \notin Before(r, i) /\ Parents(r, sorted[r][i]) \subseteq Before(r, i)

\* While sorting, a degree counts the parents not sorted yet, and the queue has
\* the nodes without such parents.
QueueOK(r) ==
  pc[r] = "sort" =>
    /\ \A n \in Nodes \ InSorted(r) :
         inDegree[r][n] = Cardinality(Parents(r, n) \ InSorted(r))
    /\ \A n \in Nodes :
         n \in ready[r] <=> n \notin InSorted(r) /\ Parents(r, n) \subseteq InSorted(r)

\* Nodes that all have a parent among them are never sorted.
CyclesOut(r) ==
  \A S \in SUBSET Nodes :
    (\A n \in S : Parents(r, n) \cap S # {}) => S \cap InSorted(r) = {}

SortOK(r) ==
  /\ OrderOK(r) /\ QueueOK(r) /\ CyclesOut(r)
  /\ pc[r] \in {"load", "parse"} => sorted[r] = <<>>

SortInv == SortTypeOK /\ \A r \in Runs : SortOK(r)

LEMMA ParentsFinite ==
  ASSUME NEW r \in Runs, NEW n, NEW S
  PROVE  /\ Parents(r, n) \subseteq Nodes /\ IsFiniteSet(Parents(r, n) \ S)
         /\ Cardinality(Parents(r, n) \ S) \in Nat
         /\ Cardinality(Parents(r, n) \ S) = 0 <=> Parents(r, n) \subseteq S
<1>1. Parents(r, n) \subseteq Nodes
  BY DEF Parents
<1>2. IsFiniteSet(Parents(r, n) \ S)
  BY <1>1, FS_Subset
<1> QED
  BY <1>1, <1>2, FS_CardinalityType, FS_EmptySet

\* What appending a node does to a sequence.
LEMMA Appended ==
  ASSUME NEW r \in Runs, NEW n \in Nodes, sorted \in [Runs -> Seq(Nodes)],
         sorted' = [sorted EXCEPT ![r] = Append(@, n)]
  PROVE  /\ sorted' \in [Runs -> Seq(Nodes)]
         /\ Len(sorted'[r]) = Len(sorted[r]) + 1 /\ Len(sorted[r]) \in Nat
         /\ sorted'[r][Len(sorted[r]) + 1] = n
         /\ \A i \in 1..Len(sorted[r]) : sorted'[r][i] = sorted[r][i]
         /\ InSorted(r)' = InSorted(r) \cup {n}
<1>1. sorted'[r] = Append(sorted[r], n) /\ sorted[r] \in Seq(Nodes)
  OBVIOUS
<1>2. /\ Len(sorted'[r]) = Len(sorted[r]) + 1 /\ Len(sorted[r]) \in Nat
      /\ sorted'[r][Len(sorted[r]) + 1] = n
      /\ \A i \in 1..Len(sorted[r]) : sorted'[r][i] = sorted[r][i]
  BY <1>1
<1>3. InSorted(r)' = InSorted(r) \cup {n}
  <2>1. \A i \in 1..Len(sorted'[r]) : i \in 1..Len(sorted[r]) \/ i = Len(sorted[r]) + 1
    BY <1>2
  <2>2. /\ Len(sorted[r]) + 1 \in 1..Len(sorted'[r])
        /\ \A i \in 1..Len(sorted[r]) : i \in 1..Len(sorted'[r])
    BY <1>2
  <2> QED
    BY <1>2, <2>1, <2>2 DEF InSorted
<1>4. sorted' \in [Runs -> Seq(Nodes)]
  <2>1. Append(sorted[r], n) \in Seq(Nodes)
    BY <1>1
  <2> QED
    BY <2>1
<1> QED
  BY <1>2, <1>3, <1>4

\* The degree of a node falls by one when one of its parents is sorted.
LEMMA DegreeFalls ==
  ASSUME SortTypeOK, NEW r \in Runs, NEW n \in Nodes, NEW c \in Nodes,
         n \notin InSorted(r), NEW T, T = InSorted(r) \cup {n}
  PROVE  Cardinality(Parents(r, c) \ T) =
           IF n \in Parents(r, c) THEN Cardinality(Parents(r, c) \ InSorted(r)) - 1
           ELSE Cardinality(Parents(r, c) \ InSorted(r))
<1> DEFINE Left == Parents(r, c) \ InSorted(r)
<1>1. IsFiniteSet(Left)
  BY ParentsFinite
<1>2. Parents(r, c) \ T = Left \ {n}
  OBVIOUS
<1>3. n \in Left <=> n \in Parents(r, c)
  OBVIOUS
<1> HIDE DEF Left
<1>4. Cardinality(Left \ {n}) = IF n \in Left THEN Cardinality(Left) - 1
                                              ELSE Cardinality(Left)
  BY <1>1, FS_RemoveElement
<1>5. Cardinality(Parents(r, c) \ T) = IF n \in Parents(r, c) THEN Cardinality(Left) - 1
                                                              ELSE Cardinality(Left)
  BY <1>2, <1>3, <1>4
<1> QED
  BY <1>5 DEF Left

\* A run that a step leaves alone keeps what holds of it.
Untouched(q) ==
  /\ pc'[q] = pc[q] /\ inDegree'[q] = inDegree[q] /\ ready'[q] = ready[q]
  /\ sorted'[q] = sorted[q]

LEMMA UntouchedKeeps ==
  ASSUME NEW q \in Runs, wf' = wf, Untouched(q), SortOK(q)
  PROVE  SortOK(q)'
<1>1. /\ InSorted(q)' = InSorted(q) /\ \A n : Parents(q, n)' = Parents(q, n)
      /\ \A i : Before(q, i)' = Before(q, i)
  BY DEF Untouched, Before, InSorted, Parents
<1>2. OrderOK(q) => OrderOK(q)'
  BY <1>1 DEF Untouched, OrderOK
<1>3. QueueOK(q) => QueueOK(q)'
  BY <1>1 DEF Untouched, QueueOK
<1>4. CyclesOut(q) => CyclesOut(q)'
  BY <1>1 DEF CyclesOut
<1> QED
  BY <1>2, <1>3, <1>4 DEF Untouched, SortOK

\* The parents of a sorted node are sorted.
LEMMA SortedParents ==
  ASSUME NEW r \in Runs, sorted[r] \in Seq(Nodes), OrderOK(r), NEW c \in InSorted(r)
  PROVE  Parents(r, c) \subseteq InSorted(r)
<1>1. PICK i \in 1..Len(sorted[r]) : c = sorted[r][i]
  BY DEF InSorted
<1>2. Parents(r, c) \subseteq Before(r, i)
  BY <1>1 DEF OrderOK
<1>3. Before(r, i) \subseteq InSorted(r)
  BY DEF Before, InSorted
<1> QED
  BY <1>2, <1>3

\* The sort puts a node of the queue behind the nodes sorted so far.
LEMMA SortStepKeeps ==
  ASSUME SortInv, NEW r \in Runs, SortStep(r)
  PROVE  SortInv'
<1>1. PICK n \in ready[r] :
        /\ inDegree' = [inDegree EXCEPT ![r] =
             [c \in Nodes |-> IF c \in Children(r, n) THEN inDegree[r][c] - 1
                                                      ELSE inDegree[r][c]]]
        /\ ready' = [ready EXCEPT ![r] = (@ \ {n}) \cup
             {c \in Children(r, n) : inDegree'[r][c] = 0}]
        /\ sorted' = [sorted EXCEPT ![r] = Append(@, n)]
  <2>1. PICK n \in ready[r] :
        LET deg == [c \in Nodes |-> IF c \in Children(r, n) THEN inDegree[r][c] - 1
                                                            ELSE inDegree[r][c]]
        IN /\ inDegree' = [inDegree EXCEPT ![r] = deg]
           /\ ready' = [ready EXCEPT ![r] =
                (@ \ {n}) \cup {c \in Children(r, n) : Freed(deg, c)}]
           /\ sorted' = [sorted EXCEPT ![r] = Append(@, n)]
    BY DEF SortStep
  <2>2. inDegree'[r] = [c \in Nodes |-> IF c \in Children(r, n) THEN inDegree[r][c] - 1
                                                               ELSE inDegree[r][c]]
    BY <2>1 DEF SortInv, SortTypeOK
  <2> QED
    BY <2>1, <2>2 DEF Freed
<1>2. SortTypeOK /\ pc[r] = "sort" /\ wf' = wf /\ pc' = pc
  BY DEF SortInv, SortStep
<1>3. SortOK(r)
  BY DEF SortInv
<1>4. n \in Nodes /\ n \notin InSorted(r) /\ Parents(r, n) \subseteq InSorted(r)
  BY <1>1, <1>2, <1>3 DEF SortTypeOK, SortOK, QueueOK
<1> DEFINE T == InSorted(r) \cup {n}
<1>5. /\ sorted' \in [Runs -> Seq(Nodes)]
      /\ Len(sorted'[r]) = Len(sorted[r]) + 1 /\ Len(sorted[r]) \in Nat
      /\ sorted'[r][Len(sorted[r]) + 1] = n
      /\ \A i \in 1..Len(sorted[r]) : sorted'[r][i] = sorted[r][i]
      /\ InSorted(r)' = T
  BY <1>1, <1>2, <1>4, Appended DEF SortTypeOK
<1>6. \A c : Parents(r, c)' = Parents(r, c)
  BY <1>2 DEF Parents
<1>7. \A c \in Nodes : c \in Children(r, n) <=> n \in Parents(r, c)
  BY <1>4 DEF Children, Parents
<1>8. \A c \in Nodes :
        inDegree'[r][c] = IF n \in Parents(r, c) THEN inDegree[r][c] - 1
                                                 ELSE inDegree[r][c]
  BY <1>1, <1>2, <1>7 DEF SortTypeOK
<1>9. \A c \in Nodes \ T : inDegree'[r][c] = Cardinality(Parents(r, c) \ T)
  <2>1. SUFFICES ASSUME NEW c \in Nodes \ T
                 PROVE  inDegree'[r][c] = Cardinality(Parents(r, c) \ T)
    OBVIOUS
  <2>2. inDegree[r][c] = Cardinality(Parents(r, c) \ InSorted(r))
    BY <1>2, <1>3 DEF SortOK, QueueOK
  <2>3. Cardinality(Parents(r, c) \ T) =
          IF n \in Parents(r, c) THEN Cardinality(Parents(r, c) \ InSorted(r)) - 1
          ELSE Cardinality(Parents(r, c) \ InSorted(r))
    BY <1>2, <1>4, DegreeFalls
  <2> QED
    BY <1>8, <2>2, <2>3
<1>10. OrderOK(r)'
  <2>1. \A i \in 1..Len(sorted[r]) : Before(r, i)' = Before(r, i)
    <3>1. SUFFICES ASSUME NEW i \in 1..Len(sorted[r])
                   PROVE  Before(r, i)' = Before(r, i)
      OBVIOUS
    <3>2. \A j \in 1..(i - 1) : sorted'[r][j] = sorted[r][j]
      BY <1>5
    <3> QED
      BY <3>2 DEF Before
  <2>2. PICK l \in Nat : l = Len(sorted[r])
    BY <1>5
  <2>3. Before(r, l + 1)' = InSorted(r)
    <3>1. l + 1 - 1 = l /\ \A j \in 1..l : sorted'[r][j] = sorted[r][j]
      BY <1>5, <2>2
    <3> QED
      BY <2>2, <3>1 DEF Before, InSorted
  <2>4. \A i \in 1..Len(sorted'[r]) : i \in 1..Len(sorted[r]) \/ i = l + 1
    BY <1>5, <2>2
  <2>5. sorted'[r][l + 1] = n
    BY <1>5, <2>2
  <2>6. ASSUME NEW i \in 1..Len(sorted'[r])
        PROVE  /\ sorted'[r][i] \notin Before(r, i)'
               /\ Parents(r, sorted'[r][i]) \subseteq Before(r, i)'
    <3>1. CASE i = l + 1
      BY <1>4, <2>3, <2>5, <3>1
    <3>2. CASE i \in 1..Len(sorted[r])
      BY <1>3, <1>5, <2>1, <3>2, SMTT(30) DEF SortOK, OrderOK
    <3> QED
      BY <2>4, <3>1, <3>2
  <2> QED
    BY <1>6, <2>6 DEF OrderOK
<1>11. QueueOK(r)'
  <2>1. ASSUME NEW c \in Nodes
        PROVE  c \in ready'[r] <=> c \notin T /\ Parents(r, c) \subseteq T
    <3>1. c \in ready'[r] <=>
            (c \in ready[r] /\ c # n) \/ (n \in Parents(r, c) /\ inDegree'[r][c] = 0)
      <4>1. ready'[r] = (ready[r] \ {n}) \cup {d \in Children(r, n) : inDegree'[r][d] = 0}
        BY <1>1, <1>2 DEF SortTypeOK
      <4>2. c \in {d \in Children(r, n) : inDegree'[r][d] = 0} <=>
              n \in Parents(r, c) /\ inDegree'[r][c] = 0
        BY <1>7, Zenon
      <4> QED
        BY <4>1, <4>2
    <3>2. c \in ready[r] <=> c \notin InSorted(r) /\ Parents(r, c) \subseteq InSorted(r)
      BY <1>2, <1>3 DEF SortOK, QueueOK
    <3>3. n \in Parents(r, c) => c \notin T
      <4>1. c \in InSorted(r) => Parents(r, c) \subseteq InSorted(r)
        BY <1>2, <1>3, SortedParents DEF SortOK, SortTypeOK
      <4> QED
        BY <1>4, <4>1
    <3>4. c \notin T => (inDegree'[r][c] = 0 <=> Parents(r, c) \subseteq T)
      BY <1>9, ParentsFinite
    <3> QED
      BY <1>4, <3>1, <3>2, <3>3, <3>4
  <2> QED
    BY <1>5, <1>6, <1>9, <2>1 DEF QueueOK
<1>12. CyclesOut(r)'
  <2>1. SUFFICES ASSUME NEW S \in SUBSET Nodes, \A c \in S : Parents(r, c) \cap S # {}
                 PROVE  S \cap T = {}
    BY <1>5, <1>6 DEF CyclesOut
  <2>2. S \cap InSorted(r) = {}
    BY <1>3, <2>1 DEF SortOK, CyclesOut
  <2> QED
    BY <1>4, <2>1, <2>2
<1>13. SortTypeOK'
  <2>1. \A c \in Nodes : inDegree'[r][c] \in Nat
    <3>1. SUFFICES ASSUME NEW c \in Nodes PROVE inDegree'[r][c] \in Nat
      OBVIOUS
    <3>2. CASE c \notin T
      <4>1. inDegree'[r][c] = Cardinality(Parents(r, c) \ T)
        BY <1>9, <3>2
      <4>2. Cardinality(Parents(r, c) \ T) \in Nat
        BY ParentsFinite
      <4> QED
        BY <4>1, <4>2
    <3>3. CASE c \in T
      <4>1. n \notin Parents(r, c)
        <5>1. c \in InSorted(r) => Parents(r, c) \subseteq InSorted(r)
          BY <1>2, <1>3, SortedParents DEF SortOK, SortTypeOK
        <5> QED
          BY <1>4, <3>3, <5>1
      <4> QED
        BY <1>2, <1>8, <4>1 DEF SortTypeOK
    <3> QED
      BY <3>2, <3>3
  <2>2. inDegree' \in [Runs -> [Nodes -> Nat]]
    <3>1. inDegree'[r] \in [Nodes -> Nat]
      BY <1>1, <1>2, <2>1 DEF SortTypeOK
    <3> QED
      BY <1>1, <1>2, <3>1 DEF SortTypeOK
  <2>3. ready' \in [Runs -> SUBSET Nodes]
    BY <1>1, <1>2 DEF SortTypeOK, Children
  <2> QED
    BY <1>2, <1>5, <2>2, <2>3 DEF SortTypeOK
<1>14. ASSUME NEW q \in Runs PROVE SortOK(q)'
  <2>1. CASE q = r
    BY <1>2, <1>10, <1>11, <1>12, <2>1 DEF SortOK
  <2>2. CASE q # r
    <3>1. Untouched(q)
      BY <1>1, <1>2, <2>2 DEF SortTypeOK, Untouched
    <3> QED
      BY <1>2, <3>1, UntouchedKeeps DEF SortInv
  <2> QED
    BY <2>1, <2>2
<1> QED
  BY <1>13, <1>14 DEF SortInv

\* Parsing starts the sort with the nodes that have no parent.
LEMMA ParseKeeps ==
  ASSUME SortInv, NEW r \in Runs, Parse(r)
  PROVE  SortInv'
<1>1. SortTypeOK /\ SortOK(r) /\ pc[r] = "parse" /\ wf' = wf /\ sorted' = sorted
  BY DEF SortInv, Parse
<1>2. InSorted(r) = {} /\ InSorted(r)' = {} /\ sorted[r] = <<>>
  BY <1>1 DEF SortOK, InSorted
<1>3. \A c : Parents(r, c)' = Parents(r, c)
  BY <1>1 DEF Parents
<1>4. OrderOK(r)' /\ CyclesOut(r)'
  BY <1>1, <1>2 DEF OrderOK, CyclesOut
<1>5. CASE pc' = [pc EXCEPT ![r] = "done"] /\ UNCHANGED sortVars
  <2>1. SortTypeOK'
    BY <1>1, <1>5 DEF SortTypeOK
  <2>2. pc'[r] = "done"
    BY <1>1, <1>5 DEF SortTypeOK
  <2>3. SortOK(r)'
    BY <1>4, <2>2 DEF SortOK, QueueOK
  <2>4. \A q \in Runs \ {r} : Untouched(q)
    BY <1>1, <1>5 DEF SortTypeOK, Untouched
  <2> QED
    BY <1>1, <2>1, <2>3, <2>4, UntouchedKeeps DEF SortInv
<1>6. CASE /\ pc' = [pc EXCEPT ![r] = "sort"]
           /\ inDegree' = [inDegree EXCEPT ![r] =
                             [n \in Nodes |-> Cardinality(Parents(r, n))]]
           /\ ready' = [ready EXCEPT ![r] = {n \in Nodes : Parents(r, n) = {}}]
  <2>1. \A n \in Nodes : Cardinality(Parents(r, n)) \in Nat
    <3>1. \A n \in Nodes : Parents(r, n) \ {} = Parents(r, n)
      OBVIOUS
    <3> QED
      BY <3>1, ParentsFinite
  <2>2. [n \in Nodes |-> Cardinality(Parents(r, n))] \in [Nodes -> Nat]
    BY <2>1
  <2>3. inDegree' \in [Runs -> [Nodes -> Nat]] /\ ready' \in [Runs -> SUBSET Nodes]
    BY <1>1, <1>6, <2>2 DEF SortTypeOK
  <2>4. SortTypeOK'
    BY <1>1, <1>6, <2>3 DEF SortTypeOK
  <2>5. /\ \A n \in Nodes : inDegree'[r][n] = Cardinality(Parents(r, n))
        /\ ready'[r] = {n \in Nodes : Parents(r, n) = {}}
        /\ pc'[r] = "sort"
    BY <1>1, <1>6 DEF SortTypeOK
  <2>6. QueueOK(r)'
    <3>1. \A n \in Nodes : Parents(r, n) \ {} = Parents(r, n)
      OBVIOUS
    <3>2. \A n \in Nodes : n \in ready'[r] <=> Parents(r, n) \subseteq {}
      BY <2>5
    <3> QED
      BY <1>2, <1>3, <2>5, <3>1, <3>2 DEF QueueOK
  <2>7. SortOK(r)'
    BY <1>4, <2>5, <2>6 DEF SortOK
  <2>8. \A q \in Runs \ {r} : Untouched(q)
    BY <1>1, <1>6 DEF SortTypeOK, Untouched
  <2> QED
    BY <1>1, <2>4, <2>7, <2>8, UntouchedKeeps DEF SortInv
<1> QED
  BY <1>5, <1>6 DEF Parse, End

\* Every other step leaves the sort alone.
Unsorted(r) ==
  /\ wf' = wf /\ UNCHANGED sortVars
  /\ \/ pc' = pc
     \/ pc[r] = "load" /\ pc' = [pc EXCEPT ![r] = "parse"]
     \/ \E to \in {"loop", "one", "seq", "rounds", "par", "done"} :
          pc' = [pc EXCEPT ![r] = to]

LEMMA UnsortedKeeps ==
  ASSUME SortInv, NEW r \in Runs, Unsorted(r)
  PROVE  SortInv'
<1>1. SortTypeOK /\ SortTypeOK'
  BY DEF SortInv, SortTypeOK, Unsorted
<1>2. ASSUME NEW q \in Runs PROVE SortOK(q)'
  <2>1. /\ InSorted(q)' = InSorted(q) /\ \A n : Parents(q, n)' = Parents(q, n)
        /\ \A i : Before(q, i)' = Before(q, i)
        /\ sorted'[q] = sorted[q] /\ inDegree'[q] = inDegree[q] /\ ready'[q] = ready[q]
    BY DEF Unsorted, Before, InSorted, Parents
  <2>2. /\ pc'[q] = "sort" => pc[q] = "sort"
        /\ pc'[q] \in {"load", "parse"} => pc[q] \in {"load", "parse"}
    BY <1>1 DEF Unsorted, SortTypeOK
  <2>3. OrderOK(q) => OrderOK(q)'
    BY <2>1 DEF OrderOK
  <2>4. QueueOK(q) => QueueOK(q)'
    BY <2>1, <2>2 DEF QueueOK
  <2>5. CyclesOut(q) => CyclesOut(q)'
    BY <2>1 DEF CyclesOut
  <2> QED
    BY <2>1, <2>2, <2>3, <2>4, <2>5 DEF SortInv, SortOK
<1> QED
  BY <1>1, <1>2 DEF SortInv

LEMMA StepKinds ==
  ASSUME NEW r \in Runs, Step(r) \/ Cancel(r)
  PROVE  Parse(r) \/ SortStep(r) \/ Unsorted(r)
<1>1. CASE Load(r)
  BY <1>1 DEF Load, Unsorted
<1>2. CASE SortEnd(r) \/ LoopEnds(r)
  BY <1>2 DEF SortEnd, LoopEnds, End, Unsorted
<1>3. CASE Skip(r) \/ Single(r) \/ Condition(r)
  BY <1>3 DEF Skip, Single, Condition, Unsorted
<1>4. CASE Loop(r) \/ Parallel(r)
  BY <1>4 DEF Loop, Parallel, Unsorted
<1>5. CASE Router(r)
  BY <1>5 DEF Router, End, Unsorted
<1>6. ASSUME NEW n \in Nodes, StartChild(r, n) \/ EndChild(r, n) PROVE Unsorted(r)
  BY <1>6 DEF StartChild, EndChild, Unsorted
<1>7. CASE CutShort(r)
  BY <1>7 DEF CutShort, End, Unsorted
<1>8. CASE TurnEnds(r)
  BY <1>8 DEF TurnEnds, End, Unsorted
<1>9. CASE Cancel(r)
  BY <1>9 DEF Cancel, Unsorted
<1> QED
  BY <1>1, <1>2, <1>3, <1>4, <1>5, <1>6, <1>7, <1>8, <1>9
  DEF Step, Prepare, Visit, Child

LEMMA SortInvInit == Init => SortInv
<1>1. Init => SortTypeOK
  BY DEF Init, SortTypeOK
<1>2. ASSUME Init, NEW r \in Runs PROVE SortOK(r)
  <2>1. sorted[r] = <<>> /\ pc[r] = "load" /\ InSorted(r) = {}
    BY <1>2 DEF Init, InSorted
  <2> QED
    BY <2>1 DEF SortOK, OrderOK, QueueOK, CyclesOut
<1> QED
  BY <1>1, <1>2 DEF SortInv

LEMMA SortInvNext == SortInv /\ [Next]_vars => SortInv'
<1>1. ASSUME SortInv, NEW r \in Runs, Step(r) \/ Cancel(r) PROVE SortInv'
  BY <1>1, StepKinds, ParseKeeps, SortStepKeeps, UnsortedKeeps
<1>2. ASSUME SortInv, UNCHANGED vars PROVE SortInv'
  <2>1. wf' = wf /\ SortTypeOK' /\ \A q \in Runs : Untouched(q)
    BY <1>2 DEF vars, SortInv, SortTypeOK, Untouched
  <2> QED
    BY <1>2, <2>1, UntouchedKeeps DEF SortInv
<1> QED
  BY <1>1, <1>2 DEF Next

\* A sort of the right length has every node.
LEMMA AllSorted ==
  ASSUME SortInv, NEW r \in Runs, Len(sorted[r]) = Cardinality(Nodes)
  PROVE  InSorted(r) = Nodes
<1> DEFINE l == Len(sorted[r])
<1>1. /\ l \in Nat /\ sorted[r] \in [1..l -> Nodes]
      /\ InSorted(r) \subseteq Nodes
  BY DEF SortInv, SortTypeOK, InSorted
<1>2. \A i, j \in 1..l : j < i => sorted[r][i] # sorted[r][j]
  <2>1. SUFFICES ASSUME NEW i \in 1..l, NEW j \in 1..l, j < i
                 PROVE  sorted[r][i] # sorted[r][j]
    OBVIOUS
  <2>2. j \in 1..(i - 1)
    BY <1>1, <2>1
  <2> QED
    BY <2>2 DEF SortInv, SortOK, OrderOK, Before
<1>3. sorted[r] \in Bijection(1..l, InSorted(r))
  <2>1. \A i, j \in 1..l : sorted[r][i] = sorted[r][j] => i = j
    BY <1>1, <1>2
  <2>2. sorted[r] \in [1..l -> InSorted(r)]
    BY <1>1 DEF InSorted
  <2>3. \A n \in InSorted(r) : \E i \in 1..l : sorted[r][i] = n
    BY DEF InSorted
  <2> QED
    BY <2>1, <2>2, <2>3 DEF Bijection, Injection, IsInjective, Surjection
<1>4. IsFiniteSet(1..l) /\ Cardinality(1..l) = l
  BY <1>1, FS_Interval
<1>5. Cardinality(InSorted(r)) = l
  BY <1>3, <1>4, FS_Bijection DEF ExistsBijection
<1> QED
  BY <1>1, <1>5, FS_Subset

-------------------------------------------------------------------------------
(* The turns.                                                              *)

TurnTypeOK ==
  /\ loaded \in Workflows \cup {None} /\ pos \in [Runs -> Nat]
  /\ todo \in [Runs -> SUBSET Nodes] /\ rounds \in [Runs -> 0..MaxLoop + 1]
  /\ active \in [Runs -> SUBSET Nodes] /\ cancelled \subseteq Runs
  /\ result \in [Runs -> {"none", "completed", "failed"}]
  /\ ran \in [Runs -> SUBSET Nodes] /\ failed \in [Runs -> SUBSET Nodes]

Doer(r, n) == Kind(r, n) \in {"step", "other"}

\* The turn is that of a sorted node, and every node is sorted.
PlaceOK(r) ==
  /\ InTurn(r) => pos[r] \in 1..Len(sorted[r])
  /\ pc[r] = "loop" => pos[r] \in 1..Len(sorted[r]) + 1
  /\ pc[r] = "loop" \/ InTurn(r) \/ ran[r] # {} \/ result[r] = "completed" =>
       Len(sorted[r]) = Cardinality(Nodes)

\* Steps are under way during a turn only, and a failure ends the run.
StepsOK(r) ==
  /\ ~InTurn(r) => active[r] = {}
  /\ ~InTurn(r) /\ pc[r] # "done" => failed[r] = {}
  /\ pc[r] # "done" => result[r] = "none"
  /\ result[r] = "completed" => failed[r] = {}

\* Every node that does something is executed during its turn at the latest.
VisitedOK(r) ==
  /\ pc[r] = "loop" \/ InTurn(r) =>
       \A n \in Visited(r) : Doer(r, n) => n \in ran[r]
  /\ InTurn(r) /\ Doer(r, Turn(r)) =>
       pc[r] = "one" /\ rounds[r] = 1 /\ Turn(r) \in ran[r] \cup todo[r]
  /\ result[r] = "completed" => \A n \in InSorted(r) : Doer(r, n) => n \in ran[r]

TurnOK(r) == PlaceOK(r) /\ StepsOK(r) /\ VisitedOK(r)

TurnInv == TurnTypeOK /\ \A r \in Runs : TurnOK(r)

\* A run that a step leaves alone keeps what holds of it.
Same(q) ==
  /\ pc'[q] = pc[q] /\ sorted'[q] = sorted[q] /\ pos'[q] = pos[q]
  /\ todo'[q] = todo[q] /\ rounds'[q] = rounds[q] /\ active'[q] = active[q]
  /\ result'[q] = result[q] /\ ran'[q] = ran[q] /\ failed'[q] = failed[q]

LEMMA SameKeeps ==
  ASSUME NEW q \in Runs, wf' = wf, Same(q), TurnOK(q)
  PROVE  TurnOK(q)'
<1>1. /\ InSorted(q)' = InSorted(q) /\ Visited(q)' = Visited(q) /\ Turn(q)' = Turn(q)
      /\ InTurn(q)' = InTurn(q) /\ \A n : Doer(q, n)' = Doer(q, n)
  BY DEF Same, InSorted, Visited, Turn, InTurn, Doer, Kind
<1>2. PlaceOK(q) => PlaceOK(q)'
  BY <1>1 DEF Same, PlaceOK
<1>3. StepsOK(q) => StepsOK(q)'
  BY <1>1 DEF Same, StepsOK
<1>4. VisitedOK(q) => VisitedOK(q)'
  BY <1>1 DEF Same, VisitedOK
<1> QED
  BY <1>2, <1>3, <1>4 DEF TurnOK

LEMMA OthersSame ==
  ASSUME SortTypeOK, TurnTypeOK, NEW r \in Runs, Step(r) \/ Cancel(r),
         NEW q \in Runs, q # r
  PROVE  wf' = wf /\ Same(q)
<1>1. CASE Load(r)
  BY <1>1 DEF Load, Same, SortTypeOK
<1>2. CASE Parse(r)
  BY <1>2 DEF Parse, End, Same, SortTypeOK, TurnTypeOK
<1>3. CASE SortStep(r)
  BY <1>3 DEF SortStep, Same, SortTypeOK
<1>4. CASE SortEnd(r) \/ LoopEnds(r)
  BY <1>4 DEF SortEnd, LoopEnds, End, Same, SortTypeOK, TurnTypeOK
<1>5. CASE Skip(r) \/ Single(r)
  BY <1>5 DEF Skip, Single, Same, SortTypeOK, TurnTypeOK
<1>6. CASE Condition(r)
  BY <1>6 DEF Condition, Same, SortTypeOK, TurnTypeOK
<1>7. CASE Loop(r) \/ Parallel(r)
  BY <1>7 DEF Loop, Parallel, Same, SortTypeOK, TurnTypeOK
<1>8. CASE Router(r)
  BY <1>8 DEF Router, End, Same, SortTypeOK, TurnTypeOK
<1>9. ASSUME NEW n \in Nodes, StartChild(r, n) PROVE wf' = wf /\ Same(q)
  BY <1>9 DEF StartChild, StepStarts, Same, TurnTypeOK
<1>10. ASSUME NEW n \in Nodes, EndChild(r, n) PROVE wf' = wf /\ Same(q)
  BY <1>10 DEF EndChild, Same, TurnTypeOK
<1>11. CASE CutShort(r) \/ Cancel(r)
  BY <1>11 DEF CutShort, Cancel, End, Same, SortTypeOK, TurnTypeOK
<1>12. CASE TurnEnds(r)
  BY <1>12 DEF TurnEnds, End, Same, SortTypeOK, TurnTypeOK
<1> QED
  BY <1>1, <1>2, <1>3, <1>4, <1>5, <1>6, <1>7, <1>8, <1>9, <1>10, <1>11, <1>12
  DEF Step, Prepare, Visit, Child

\* Before the loop nothing is executed.
LEMMA PrepareKeeps ==
  ASSUME SortInv, TurnInv, NEW r \in Runs, Prepare(r)
  PROVE  TurnTypeOK' /\ TurnOK(r)'
<1>1. SortTypeOK /\ TurnTypeOK /\ TurnOK(r)
  BY DEF SortInv, TurnInv
<1>2. pc[r] \in {"load", "parse", "sort"}
  BY DEF Prepare, Load, Parse, SortStep, SortEnd
<1>3. /\ active[r] = {} /\ failed[r] = {} /\ result[r] = "none"
      /\ ran[r] # {} => Len(sorted[r]) = Cardinality(Nodes)
  BY <1>1, <1>2 DEF TurnOK, StepsOK, PlaceOK, InTurn
<1>4. UNCHANGED <<stepVars, todo, rounds, cancelled>>
  BY DEF Prepare, Load, Parse, SortStep, SortEnd
<1>5. CASE Load(r)
  <2>1. pc'[r] = "parse" /\ TurnTypeOK' /\ UNCHANGED <<sorted, result>>
    BY <1>1, <1>4, <1>5 DEF Load, LoadSkillsAndAgents, SortTypeOK, TurnTypeOK
  <2> QED
    BY <1>3, <1>4, <2>1 DEF TurnOK, StepsOK, PlaceOK, VisitedOK, InTurn
<1>6. CASE Parse(r)
  <2>1. UNCHANGED <<loaded, pos, sorted>>
    BY <1>6 DEF Parse
  <2>2. CASE End(r, "failed")
    <3>1. TurnTypeOK' /\ pc'[r] = "done" /\ result'[r] = "failed"
      BY <1>1, <1>4, <2>1, <2>2 DEF End, SortTypeOK, TurnTypeOK
    <3> QED
      BY <1>3, <1>4, <2>1, <3>1 DEF TurnOK, StepsOK, PlaceOK, VisitedOK, InTurn
  <2>3. CASE pc' = [pc EXCEPT ![r] = "sort"] /\ UNCHANGED result
    <3>1. TurnTypeOK' /\ pc'[r] = "sort" /\ result'[r] = "none"
      BY <1>1, <1>3, <1>4, <2>1, <2>3 DEF SortTypeOK, TurnTypeOK
    <3> QED
      BY <1>3, <1>4, <2>1, <3>1 DEF TurnOK, StepsOK, PlaceOK, VisitedOK, InTurn
  <2> QED
    BY <1>6, <2>2, <2>3 DEF Parse
<1>7. CASE SortStep(r)
  <2>1. TurnTypeOK' /\ pc'[r] = "sort" /\ result'[r] = "none" /\ ran'[r] = ran[r]
    BY <1>1, <1>3, <1>4, <1>7 DEF SortStep, TurnTypeOK
  <2>2. ran[r] = {}
    <3>1. SUFFICES ASSUME ran[r] # {} PROVE FALSE
      OBVIOUS
    <3>2. InSorted(r) = Nodes
      BY <1>3, <3>1, AllSorted
    <3>3. ready[r] = {}
      BY <1>1, <1>7, <3>2 DEF SortInv, SortOK, QueueOK, SortStep, SortTypeOK
    <3> QED
      BY <1>7, <3>3 DEF SortStep
  <2> QED
    BY <1>3, <1>4, <2>1, <2>2 DEF TurnOK, StepsOK, PlaceOK, VisitedOK, InTurn
<1>8. CASE SortEnd(r)
  <2>1. TurnTypeOK' /\ sorted' = sorted
    <3>1. UNCHANGED <<loaded, sorted>>
      BY <1>8 DEF SortEnd
    <3>2. CASE End(r, "failed") /\ UNCHANGED pos
      BY <1>1, <1>4, <3>1, <3>2 DEF End, TurnTypeOK
    <3>3. CASE pos' = [pos EXCEPT ![r] = 1] /\ UNCHANGED result
      BY <1>1, <1>4, <3>1, <3>3 DEF TurnTypeOK
    <3> QED
      BY <1>8, <3>1, <3>2, <3>3 DEF SortEnd
  <2>2. CASE pc'[r] = "done" /\ result'[r] = "failed"
    BY <1>3, <1>4, <2>1, <2>2 DEF TurnOK, StepsOK, PlaceOK, VisitedOK, InTurn
  <2>3. CASE /\ pc'[r] = "loop" /\ pos'[r] = 1 /\ result'[r] = "none"
             /\ Len(sorted[r]) = Cardinality(Nodes)
    <3>1. Visited(r)' = {}
      BY <2>3 DEF Visited
    <3>2. Len(sorted[r]) \in Nat
      BY <1>1 DEF SortTypeOK
    <3> QED
      BY <1>3, <1>4, <2>1, <2>3, <3>1, <3>2
      DEF TurnOK, StepsOK, PlaceOK, VisitedOK, InTurn
  <2> QED
    BY <1>1, <1>3, <1>8, <2>2, <2>3 DEF SortEnd, Incomplete, End, SortTypeOK, TurnTypeOK
<1> QED
  BY <1>5, <1>6, <1>7, <1>8 DEF Prepare

\* What holds at a node of the loop.
LEMMA AtNodeFacts ==
  ASSUME SortInv, TurnInv, NEW r \in Runs, AtNode(r)
  PROVE  /\ pos[r] \in 1..Len(sorted[r]) /\ Turn(r) \in Nodes
         /\ Len(sorted[r]) \in Nat /\ Len(sorted[r]) = Cardinality(Nodes)
         /\ active[r] = {} /\ failed[r] = {} /\ result[r] = "none"
         /\ \A n \in Visited(r) : Doer(r, n) => n \in ran[r]
<1>1. SortTypeOK /\ TurnOK(r) /\ pc[r] = "loop" /\ pos[r] <= Len(sorted[r])
  BY DEF SortInv, TurnInv, AtNode
<1>2. Len(sorted[r]) \in Nat /\ pos[r] \in 1..Len(sorted[r]) + 1
  BY <1>1 DEF SortTypeOK, TurnOK, PlaceOK
<1>3. pos[r] \in 1..Len(sorted[r])
  BY <1>1, <1>2
<1>4. Turn(r) \in Nodes
  BY <1>1, <1>3 DEF SortTypeOK, Turn
<1> QED
  BY <1>1, <1>2, <1>3, <1>4 DEF TurnOK, PlaceOK, StepsOK, VisitedOK, InTurn

\* Moving on from a node that does nothing, or has been executed.
LEMMA MovesOn ==
  ASSUME SortTypeOK, NEW r \in Runs, pos[r] \in 1..Len(sorted[r]), wf' = wf,
         sorted' = sorted, pos'[r] = pos[r] + 1
  PROVE  /\ Visited(r)' = Visited(r) \cup {Turn(r)}
         /\ pos'[r] \in 1..Len(sorted[r]) + 1
<1>1. Len(sorted[r]) \in Nat
  BY DEF SortTypeOK
<1>2. /\ \A i \in 1..(pos[r] + 1 - 1) : i \in 1..(pos[r] - 1) \/ i = pos[r]
      /\ \A i \in 1..(pos[r] - 1) : i \in 1..(pos[r] + 1 - 1)
      /\ pos[r] \in 1..(pos[r] + 1 - 1)
  BY <1>1
<1> QED
  BY <1>1, <1>2 DEF Visited, Turn

\* A group node has its turn: the nodes it executes are known.
LEMMA TurnStarts ==
  ASSUME SortInv, TurnInv, NEW r \in Runs, AtNode(r), wf' = wf, sorted' = sorted,
         pos' = pos, UNCHANGED stepVars, result' = result,
         pc'[r] \in {"one", "seq", "rounds", "par"},
         Doer(r, Turn(r)) =>
           pc'[r] = "one" /\ rounds'[r] = 1 /\ Turn(r) \in todo'[r]
  PROVE  TurnOK(r)'
<1>1. /\ Visited(r)' = Visited(r) /\ Turn(r)' = Turn(r) /\ InTurn(r)' /\ pc'[r] # "loop"
      /\ \A n : Doer(r, n)' = Doer(r, n)
  BY DEF Visited, Turn, InTurn, Doer, Kind
<1>2. PlaceOK(r)' /\ StepsOK(r)'
  BY <1>1, AtNodeFacts DEF PlaceOK, StepsOK
<1>3. VisitedOK(r)'
  BY <1>1, AtNodeFacts DEF VisitedOK
<1> QED
  BY <1>2, <1>3 DEF TurnOK

LEMMA KidsAreNodes ==
  ASSUME NEW r \in Runs, NEW n, NEW label
  PROVE  Kids(r, n) \subseteq Nodes /\ OnBranch(r, n, label) \subseteq Nodes
BY DEF Kids, OnBranch, Children

\* The end of a run, with every step at rest.
LEMMA EndKeeps ==
  ASSUME SortInv, TurnInv, NEW r \in Runs, NEW res \in {"completed", "failed"}, End(r, res),
         wf' = wf, sorted' = sorted, UNCHANGED stepVars, active[r] = {},
         Len(sorted[r]) = Cardinality(Nodes),
         res = "completed" =>
           failed[r] = {} /\ \A n \in InSorted(r) : Doer(r, n) => n \in ran[r]
  PROVE  TurnOK(r)' /\ result' \in [Runs -> {"none", "completed", "failed"}]
<1>1. SortTypeOK /\ TurnTypeOK
  BY DEF SortInv, TurnInv
<1>2. /\ pc'[r] = "done" /\ result'[r] = res
      /\ result' \in [Runs -> {"none", "completed", "failed"}]
  BY <1>1 DEF End, SortTypeOK, TurnTypeOK
<1>3. InSorted(r)' = InSorted(r) /\ \A n : Doer(r, n)' = Doer(r, n)
  BY DEF InSorted, Doer, Kind
<1>4. PlaceOK(r)' /\ StepsOK(r)'
  BY <1>2 DEF PlaceOK, StepsOK, InTurn
<1>5. VisitedOK(r)'
  BY <1>2, <1>3 DEF VisitedOK, InTurn
<1> QED
  BY <1>2, <1>4, <1>5 DEF TurnOK

LEMMA LoopEndsKeeps ==
  ASSUME SortInv, TurnInv, NEW r \in Runs, LoopEnds(r)
  PROVE  TurnTypeOK' /\ TurnOK(r)'
<1>1. /\ pc[r] = "loop" /\ wf' = wf /\ sorted' = sorted /\ UNCHANGED stepVars
      /\ UNCHANGED <<loaded, pos, groupVars, cancelled>>
  BY DEF LoopEnds
<1>2. TurnTypeOK /\ TurnOK(r) /\ SortTypeOK
  BY DEF SortInv, TurnInv
<1>3. /\ active[r] = {} /\ failed[r] = {} /\ Len(sorted[r]) = Cardinality(Nodes)
      /\ pos[r] \in 1..Len(sorted[r]) + 1 /\ Len(sorted[r]) \in Nat
      /\ \A n \in Visited(r) : Doer(r, n) => n \in ran[r]
  BY <1>1, <1>2 DEF TurnOK, PlaceOK, StepsOK, VisitedOK, InTurn, SortTypeOK
<1>4. CASE pos[r] > Len(sorted[r]) /\ End(r, "completed")
  <2>1. pos[r] - 1 = Len(sorted[r])
    BY <1>3, <1>4
  <2>2. Visited(r) = InSorted(r)
    BY <2>1 DEF Visited, InSorted
  <2> QED
    BY <1>1, <1>2, <1>3, <1>4, <2>2, EndKeeps DEF TurnTypeOK
<1>5. CASE End(r, "failed")
  BY <1>1, <1>2, <1>3, <1>5, EndKeeps DEF TurnTypeOK
<1> QED
  BY <1>4, <1>5 DEF LoopEnds

LEMMA SkipKeeps ==
  ASSUME SortInv, TurnInv, NEW r \in Runs, Skip(r)
  PROVE  TurnTypeOK' /\ TurnOK(r)'
<1>1. /\ AtNode(r) /\ Skipped(r, Turn(r)) /\ pos' = [pos EXCEPT ![r] = @ + 1]
      /\ UNCHANGED <<wf, loaded, pc, sortVars, groupVars, stepVars, cancelled, result>>
  BY DEF Skip
<1>2. TurnTypeOK /\ SortTypeOK /\ pc[r] = "loop"
  BY <1>1 DEF SortInv, TurnInv, AtNode
<1>3. pos'[r] = pos[r] + 1 /\ pos' \in [Runs -> Nat]
  BY <1>1, <1>2 DEF TurnTypeOK
<1>4. ~Doer(r, Turn(r)) /\ \A n : Doer(r, n)' = Doer(r, n)
  BY <1>1 DEF Skipped, Doer, Kind
<1>5. /\ Visited(r)' = Visited(r) \cup {Turn(r)}
      /\ pos'[r] \in 1..Len(sorted[r]) + 1
  BY <1>1, <1>2, <1>3, AtNodeFacts, MovesOn
<1>6. PlaceOK(r)' /\ StepsOK(r)'
  BY <1>1, <1>2, <1>5, AtNodeFacts DEF PlaceOK, StepsOK, InTurn
<1>7. VisitedOK(r)'
  BY <1>1, <1>2, <1>4, <1>5, AtNodeFacts DEF VisitedOK, InTurn
<1> QED
  BY <1>1, <1>2, <1>3, <1>6, <1>7 DEF TurnOK, TurnTypeOK

LEMMA GroupKeeps ==
  ASSUME SortInv, TurnInv, NEW r \in Runs,
         Single(r) \/ Condition(r) \/ Loop(r) \/ Parallel(r) \/ Router(r)
  PROVE  TurnTypeOK' /\ TurnOK(r)'
<1>1. /\ AtNode(r) /\ wf' = wf /\ sorted' = sorted /\ pos' = pos
      /\ UNCHANGED <<loaded, stepVars, cancelled>>
  BY DEF Single, Condition, Loop, Parallel, Router
<1>2. TurnTypeOK /\ SortTypeOK
  BY DEF SortInv, TurnInv
<1>3. 1 \in 0..MaxLoop + 1 /\ \A k \in 0..MaxLoop : k \in 0..MaxLoop + 1
  OBVIOUS
<1>4. CASE Single(r)
  <2>1. /\ pc' = [pc EXCEPT ![r] = "one"]
        /\ todo' = [todo EXCEPT ![r] = {Turn(r)}] /\ rounds' = [rounds EXCEPT ![r] = 1]
        /\ UNCHANGED <<result>>
    BY <1>4 DEF Single
  <2>2. TurnTypeOK'
    BY <1>1, <1>2, <1>3, <2>1, AtNodeFacts DEF TurnTypeOK
  <2>3. pc'[r] = "one" /\ rounds'[r] = 1 /\ Turn(r) \in todo'[r]
    BY <1>2, <2>1 DEF SortTypeOK, TurnTypeOK
  <2> QED
    BY <1>1, <2>1, <2>2, <2>3, TurnStarts
<1>5. CASE Condition(r)
  <2>1. PICK label \in {"true", "false"} :
          /\ todo' = [todo EXCEPT ![r] =
                        {c \in OnBranch(r, Turn(r), label) : ~Skipped(r, c)}]
          /\ pc' = [pc EXCEPT ![r] = "seq"] /\ rounds' = [rounds EXCEPT ![r] = 1]
          /\ result' = result /\ Kind(r, Turn(r)) = "condition"
    BY <1>5 DEF Condition
  <2>2. TurnTypeOK'
    BY <1>1, <1>2, <1>3, <2>1, KidsAreNodes DEF TurnTypeOK, Children
  <2>3. pc'[r] = "seq" /\ ~Doer(r, Turn(r))
    BY <1>2, <2>1 DEF SortTypeOK, Doer
  <2> QED
    BY <1>1, <2>1, <2>2, <2>3, TurnStarts
<1>6. CASE Loop(r)
  <2>1. PICK k \in 0..MaxLoop :
          /\ rounds' = [rounds EXCEPT ![r] = k]
          /\ todo' = [todo EXCEPT ![r] = IF k = 0 THEN {} ELSE Kids(r, Turn(r))]
          /\ pc' = [pc EXCEPT ![r] = "rounds"] /\ UNCHANGED <<result>>
          /\ Kind(r, Turn(r)) = "loop"
    BY <1>6 DEF Loop
  <2>2. TurnTypeOK'
    BY <1>1, <1>2, <1>3, <2>1, KidsAreNodes DEF TurnTypeOK
  <2>3. pc'[r] = "rounds" /\ ~Doer(r, Turn(r))
    BY <1>2, <2>1 DEF SortTypeOK, Doer
  <2> QED
    BY <1>1, <2>1, <2>2, <2>3, TurnStarts
<1>7. CASE Parallel(r)
  <2>1. /\ pc' = [pc EXCEPT ![r] = "par"]
        /\ todo' = [todo EXCEPT ![r] = Kids(r, Turn(r))]
        /\ rounds' = [rounds EXCEPT ![r] = 1] /\ UNCHANGED <<result>>
        /\ Kind(r, Turn(r)) = "parallel"
    BY <1>7 DEF Parallel
  <2>2. TurnTypeOK'
    BY <1>1, <1>2, <1>3, <2>1, KidsAreNodes DEF TurnTypeOK
  <2>3. pc'[r] = "par" /\ ~Doer(r, Turn(r))
    BY <1>2, <2>1 DEF SortTypeOK, Doer
  <2> QED
    BY <1>1, <2>1, <2>2, <2>3, TurnStarts
<1>8. CASE Router(r)
  <2>1. Kind(r, Turn(r)) = "router"
    BY <1>8 DEF Router
  <2>2. ~Doer(r, Turn(r))
    BY <2>1 DEF Doer
  <2>3. CASE End(r, "failed") /\ UNCHANGED groupVars
    BY <1>1, <1>2, <2>1, <2>3, EndKeeps, AtNodeFacts DEF TurnTypeOK
  <2>4. CASE \E to \in {"one", "seq"}, S \in SUBSET Nodes :
               /\ todo' = [todo EXCEPT ![r] = S] /\ pc' = [pc EXCEPT ![r] = to]
               /\ rounds' = [rounds EXCEPT ![r] = 1] /\ result' = result
    <3>1. TurnTypeOK' /\ pc'[r] \in {"one", "seq"} /\ result' = result
      BY <1>1, <1>2, <1>3, <2>1, <2>4 DEF SortTypeOK, TurnTypeOK
    <3> QED
      BY <1>1, <2>2, <3>1, TurnStarts
  <2>5. \/ End(r, "failed") /\ UNCHANGED groupVars
        \/ \E to \in {"one", "seq"}, S \in SUBSET Nodes :
             /\ todo' = [todo EXCEPT ![r] = S] /\ pc' = [pc EXCEPT ![r] = to]
             /\ rounds' = [rounds EXCEPT ![r] = 1] /\ result' = result
    BY <1>8, KidsAreNodes DEF Router
  <2> QED
    BY <2>3, <2>4, <2>5
<1> QED
  BY <1>4, <1>5, <1>6, <1>7, <1>8

\* What holds during a turn.
LEMMA InTurnFacts ==
  ASSUME SortInv, TurnInv, NEW r \in Runs, InTurn(r)
  PROVE  /\ pos[r] \in 1..Len(sorted[r]) /\ Turn(r) \in Nodes
         /\ Len(sorted[r]) \in Nat /\ Len(sorted[r]) = Cardinality(Nodes)
         /\ result[r] = "none" /\ pc[r] # "done" /\ pc[r] # "loop"
         /\ \A n \in Visited(r) : Doer(r, n) => n \in ran[r]
         /\ Doer(r, Turn(r)) =>
              pc[r] = "one" /\ rounds[r] = 1 /\ Turn(r) \in ran[r] \cup todo[r]
<1>1. SortTypeOK /\ TurnOK(r) /\ pc[r] \in {"one", "seq", "rounds", "par"}
  BY DEF SortInv, TurnInv, InTurn
<1>2. pos[r] \in 1..Len(sorted[r]) /\ Len(sorted[r]) \in Nat
  BY <1>1 DEF SortTypeOK, TurnOK, PlaceOK
<1>3. Turn(r) \in Nodes
  BY <1>1, <1>2 DEF SortTypeOK, Turn
<1> QED
  BY <1>1, <1>2, <1>3 DEF TurnOK, PlaceOK, StepsOK, VisitedOK

LEMMA ChildKeeps ==
  ASSUME SortInv, TurnInv, NEW r \in Runs, NEW n \in Nodes,
         StartChild(r, n) \/ EndChild(r, n)
  PROVE  TurnTypeOK' /\ TurnOK(r)'
<1>1. UNCHANGED <<wf, loaded, pc, sorted, pos, rounds, cancelled, result>>
  BY DEF StartChild, EndChild
<1>2. TurnTypeOK /\ SortTypeOK /\ TurnOK(r)
  BY DEF SortInv, TurnInv
<1>3. InTurn(r)
  <2>1. CASE StartChild(r, n)
    BY <2>1 DEF StartChild
  <2>2. CASE EndChild(r, n)
    BY <1>2, <2>2 DEF EndChild, TurnOK, StepsOK
  <2> QED
    BY <2>1, <2>2
<1>4. /\ TurnTypeOK' /\ ran[r] \subseteq ran'[r]
      /\ todo[r] \subseteq todo'[r] \cup ran'[r]
  <2>1. CASE StartChild(r, n)
    <3>1. /\ todo' = [todo EXCEPT ![r] = @ \ {n}]
          /\ ran' = [ran EXCEPT ![r] = @ \cup {n}]
          /\ \/ active' = [active EXCEPT ![r] = @ \cup {n}] /\ UNCHANGED failed
             \/ failed' = [failed EXCEPT ![r] = @ \cup {n}] /\ UNCHANGED active
      BY <2>1 DEF StartChild, StepStarts
    <3>2. ran'[r] = ran[r] \cup {n} /\ todo'[r] = todo[r] \ {n}
      BY <1>2, <3>1 DEF TurnTypeOK
    <3>3. TurnTypeOK'
      BY <1>1, <1>2, <3>1 DEF TurnTypeOK
    <3> QED
      BY <3>2, <3>3
  <2>2. CASE EndChild(r, n)
    <3>1. /\ UNCHANGED <<todo, ran>> /\ active' = [active EXCEPT ![r] = @ \ {n}]
          /\ failed' = failed \/ failed' = [failed EXCEPT ![r] = @ \cup {n}]
      BY <2>2 DEF EndChild
    <3> QED
      BY <1>1, <1>2, <3>1 DEF TurnTypeOK
  <2> QED
    BY <2>1, <2>2
<1>5. /\ Visited(r)' = Visited(r) /\ Turn(r)' = Turn(r) /\ InTurn(r)'
      /\ \A m : Doer(r, m)' = Doer(r, m)
  BY <1>1, <1>3 DEF Visited, Turn, InTurn, Doer, Kind
<1>6. PlaceOK(r)' /\ StepsOK(r)'
  BY <1>1, <1>3, <1>5, InTurnFacts DEF PlaceOK, StepsOK
<1>7. VisitedOK(r)'
  BY <1>1, <1>3, <1>4, <1>5, InTurnFacts DEF VisitedOK
<1> QED
  BY <1>4, <1>6, <1>7 DEF TurnOK

LEMMA CutShortKeeps ==
  ASSUME SortInv, TurnInv, NEW r \in Runs, CutShort(r)
  PROVE  TurnTypeOK' /\ TurnOK(r)'
<1>1. /\ UNCHANGED <<wf, loaded, sorted, pos, groupVars, stepVars, cancelled>>
      /\ active[r] = {} /\ InTurn(r) /\ End(r, "failed")
  BY DEF CutShort, InTurn
<1>2. TurnTypeOK
  BY DEF TurnInv
<1> QED
  BY <1>1, <1>2, InTurnFacts, EndKeeps DEF TurnTypeOK

LEMMA TurnEndsKeeps ==
  ASSUME SortInv, TurnInv, NEW r \in Runs, TurnEnds(r)
  PROVE  TurnTypeOK' /\ TurnOK(r)'
<1>1. /\ UNCHANGED <<wf, loaded, sorted, stepVars, cancelled>>
      /\ InTurn(r) /\ active[r] = {}
  BY DEF TurnEnds, Waited
<1>2. TurnTypeOK /\ SortTypeOK
  BY DEF SortInv, TurnInv
<1>3. CASE End(r, "failed") /\ UNCHANGED <<groupVars, pos>>
  BY <1>1, <1>2, <1>3, InTurnFacts, EndKeeps DEF TurnTypeOK
<1>4. CASE /\ rounds[r] > 1 /\ todo' = [todo EXCEPT ![r] = Kids(r, Turn(r))]
           /\ rounds' = [rounds EXCEPT ![r] = RoundsLeft(@)]
           /\ UNCHANGED <<pc, pos, result>>
  <2>1. RoundsLeft(rounds[r]) \in 0..MaxLoop + 1
    BY <1>2, <1>4 DEF TurnTypeOK, RoundsLeft
  <2>2. TurnTypeOK'
    BY <1>1, <1>2, <1>4, <2>1, KidsAreNodes DEF TurnTypeOK
  <2>3. /\ Visited(r)' = Visited(r) /\ Turn(r)' = Turn(r) /\ InTurn(r)'
        /\ \A m : Doer(r, m)' = Doer(r, m)
    BY <1>1, <1>4 DEF Visited, Turn, InTurn, Doer, Kind
  <2>4. ~Doer(r, Turn(r))
    BY <1>1, <1>4, InTurnFacts
  <2>5. PlaceOK(r)' /\ StepsOK(r)'
    BY <1>1, <1>4, <2>3, InTurnFacts DEF PlaceOK, StepsOK
  <2>6. VisitedOK(r)'
    BY <1>1, <1>4, <2>3, <2>4, InTurnFacts DEF VisitedOK
  <2> QED
    BY <2>2, <2>5, <2>6 DEF TurnOK
<1>5. CASE /\ ~Failed(r) /\ todo[r] = {}
           /\ pc' = [pc EXCEPT ![r] = "loop"] /\ pos' = [pos EXCEPT ![r] = @ + 1]
           /\ UNCHANGED <<groupVars, result>>
  <2>1. pc'[r] = "loop" /\ pos'[r] = pos[r] + 1 /\ TurnTypeOK'
    BY <1>1, <1>2, <1>5 DEF SortTypeOK, TurnTypeOK
  <2>2. /\ Visited(r)' = Visited(r) \cup {Turn(r)}
        /\ pos'[r] \in 1..Len(sorted[r]) + 1
    BY <1>1, <1>2, <2>1, InTurnFacts, MovesOn
  <2>3. /\ failed[r] = {} /\ ~InTurn(r)' /\ \A m : Doer(r, m)' = Doer(r, m)
    BY <1>1, <1>5, <2>1 DEF Failed, InTurn, Doer, Kind
  <2>4. PlaceOK(r)' /\ StepsOK(r)'
    BY <1>1, <1>5, <2>1, <2>2, <2>3, InTurnFacts DEF PlaceOK, StepsOK
  <2>5. VisitedOK(r)'
    BY <1>1, <1>5, <2>1, <2>2, <2>3, InTurnFacts DEF VisitedOK
  <2> QED
    BY <2>1, <2>4, <2>5 DEF TurnOK
<1> QED
  BY <1>3, <1>4, <1>5 DEF TurnEnds

LEMMA CancelKeeps ==
  ASSUME SortInv, TurnInv, NEW r \in Runs, Cancel(r)
  PROVE  TurnTypeOK' /\ TurnOK(r)'
<1>1. TurnTypeOK' /\ wf' = wf /\ Same(r)
  BY DEF Cancel, TurnInv, TurnTypeOK, Same
<1> QED
  BY <1>1, SameKeeps DEF TurnInv

LEMMA TurnInvInit == Init => TurnInv
<1>1. Init => TurnTypeOK
  BY DEF Init, TurnTypeOK
<1>2. ASSUME Init, NEW r \in Runs PROVE TurnOK(r)
  BY <1>2 DEF Init, TurnOK, PlaceOK, StepsOK, VisitedOK, InTurn
<1> QED
  BY <1>1, <1>2 DEF TurnInv

LEMMA TurnInvNext == SortInv /\ TurnInv /\ [Next]_vars => TurnInv'
<1>1. ASSUME SortInv, TurnInv, NEW r \in Runs, Step(r) \/ Cancel(r) PROVE TurnInv'
  <2>1. TurnTypeOK' /\ TurnOK(r)'
    BY <1>1, PrepareKeeps, LoopEndsKeeps, SkipKeeps, GroupKeeps, ChildKeeps,
       CutShortKeeps, TurnEndsKeeps, CancelKeeps DEF Step, Visit, Child
  <2>2. \A q \in Runs : q # r => TurnOK(q)'
    BY <1>1, OthersSame, SameKeeps DEF SortInv, TurnInv
  <2> QED
    BY <2>1, <2>2 DEF TurnInv
<1>2. ASSUME TurnInv, UNCHANGED vars PROVE TurnInv'
  <2>1. TurnTypeOK' /\ wf' = wf /\ \A q \in Runs : Same(q)
    BY <1>2 DEF vars, TurnInv, TurnTypeOK, Same
  <2> QED
    BY <1>2, <2>1, SameKeeps DEF TurnInv
<1> QED
  BY <1>1, <1>2 DEF Next

\* The inductive invariant: the queue, the order and the degrees of every sort, and
\* what every turn leaves behind.
THEOREM Invariants == Spec => [](SortInv /\ TurnInv)
<1> QED
  BY SortInvInit, SortInvNext, TurnInvInit, TurnInvNext, PTL DEF Spec

\* The variables have their types: rounds stay within their bound, and the node
\* whose turn it is exists.
THEOREM TypeCorrect == Spec => []TypeOK
<1>1. SortInv /\ TurnInv => TypeOK
  BY DEF SortInv, TurnInv, SortTypeOK, TurnTypeOK, TypeOK, TurnOK, PlaceOK
<1> QED
  BY <1>1, Invariants, PTL

\* When a node's turn comes, every parent of it had its turn before.
THEOREM ParentsFirstHolds == Spec => []ParentsFirst
<1>1. SortInv /\ TurnInv => ParentsFirst
  <2>1. SUFFICES ASSUME SortInv, TurnInv, NEW r \in Runs, InTurn(r)
                 PROVE  Turn(r) \notin Visited(r) /\ Parents(r, Turn(r)) \subseteq Visited(r)
    BY DEF ParentsFirst
  <2>2. pos[r] \in 1..Len(sorted[r])
    BY <2>1, InTurnFacts
  <2> QED
    BY <2>1, <2>2 DEF SortInv, SortOK, OrderOK, Before, Visited, Turn
<1> QED
  BY <1>1, Invariants, PTL

\* A cyclic workflow executes nothing and does not complete; a sort that ends
\* short of a node proves a cycle.
THEOREM CyclicRunsNothingHolds == Spec => []CyclicRunsNothing
<1>1. SortInv /\ TurnInv => CyclicRunsNothing
  <2>1. SUFFICES ASSUME SortInv, TurnInv, NEW r \in Runs
                 PROVE  /\ Cyclic(r) => ran[r] = {} /\ result[r] # "completed"
                        /\ pc[r] = "sort" /\ ready[r] = {} /\ ~Cyclic(r) =>
                             InSorted(r) = Nodes
    BY DEF CyclicRunsNothing
  <2>2. ASSUME Cyclic(r) PROVE ran[r] = {} /\ result[r] # "completed"
    <3>1. PICK S \in (SUBSET Nodes) \ {{}} : \A n \in S : Parents(r, n) \cap S # {}
      BY <2>2 DEF Cyclic
    <3>2. S \cap InSorted(r) = {}
      BY <2>1, <3>1 DEF SortInv, SortOK, CyclesOut
    <3>3. Len(sorted[r]) # Cardinality(Nodes)
      BY <2>1, <3>1, <3>2, AllSorted
    <3> QED
      BY <2>1, <3>3 DEF TurnInv, TurnOK, PlaceOK
  <2>3. ASSUME pc[r] = "sort", ready[r] = {}, ~Cyclic(r) PROVE InSorted(r) = Nodes
    <3> DEFINE S == Nodes \ InSorted(r)
    <3>1. \A n \in S : Parents(r, n) \cap S # {}
      <4>1. SUFFICES ASSUME NEW n \in S PROVE Parents(r, n) \cap S # {}
        OBVIOUS
      <4>2. ~(Parents(r, n) \subseteq InSorted(r))
        BY <2>1, <2>3, <4>1 DEF SortInv, SortOK, QueueOK
      <4> QED
        BY <4>2, ParentsFinite
    <3>2. S = {}
      BY <2>3, <3>1 DEF Cyclic
    <3> QED
      BY <2>1, <3>2, SMTT(30) DEF SortInv, SortTypeOK, InSorted
  <2> QED
    BY <2>2, <2>3
<1> QED
  BY <1>1, Invariants, PTL

\* A run completes only without a failed step and with every node executed.
THEOREM CompletedMeansHolds == Spec => []CompletedMeans
<1>1. SortInv /\ TurnInv => CompletedMeans
  <2>1. SUFFICES ASSUME SortInv, TurnInv, NEW r \in Runs, result[r] = "completed"
                 PROVE  /\ failed[r] = {}
                        /\ \A n \in Nodes : Kind(r, n) \in {"step", "other"} => n \in ran[r]
    BY DEF CompletedMeans
  <2>2. TurnOK(r)
    BY <2>1 DEF TurnInv
  <2>3. InSorted(r) = Nodes
    BY <2>1, <2>2, AllSorted DEF TurnOK, PlaceOK
  <2> QED
    BY <2>1, <2>2, <2>3 DEF TurnOK, StepsOK, VisitedOK, Doer
<1> QED
  BY <1>1, Invariants, PTL

\* No step outlives the turn that started it.
THEOREM NoStrayStepsHolds == Spec => []NoStraySteps
<1>1. SortInv /\ TurnInv => NoStraySteps
  BY DEF TurnInv, TurnOK, StepsOK, NoStraySteps, InTurn
<1> QED
  BY <1>1, Invariants, PTL
===============================================================================
