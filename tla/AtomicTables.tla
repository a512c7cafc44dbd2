------------------------------ MODULE AtomicTables ------------------------------
(* What internal/db promises its callers, whichever implementation they were   *)
(* given: a call takes effect at once or not at all.  A durable one keeps each *)
(* effect through a crash, the other what it held when it was last saved.      *)

CONSTANTS
  Tables,
  Durable        \* whether an effect is kept as soon as it is seen

VARIABLES
  live,          \* table -> the rows a call reads
  kept,          \* table -> the rows that a crash leaves
  asked          \* the rows of the last request to replace all memories

tableVars == <<live, kept>>

AtMostOneGoes(t) == \A x, y \in live[t] \ live'[t] : x = y

\* One row comes, in the place of at most one other.
Put(t) == AtMostOneGoes(t) /\ \E r \in live'[t] : live'[t] \ live[t] \subseteq {r}
Remove(t) == AtMostOneGoes(t) /\ live'[t] \subseteq live[t]
Expire(t) == t = "sessions" /\ live'[t] \subseteq live[t]
Replace(t) == t = "memories" /\ live'[t] = asked'

Call(t) ==
  /\ Put(t) \/ Remove(t) \/ Expire(t) \/ Replace(t)
  /\ \A u \in Tables \ {t} : live'[u] = live[u]
  /\ \A u \in Tables : kept'[u] = IF Durable THEN live'[u] ELSE kept[u]

\* Some tables are written out as they are.
Save ==
  /\ ~Durable
  /\ \A t \in Tables : live'[t] = live[t] /\ kept'[t] \in {live[t], kept[t]}

\* A crash: the next start has what was kept, but for the tables of a file it
\* was in the middle of writing.
Reopen ==
  /\ ~Durable
  /\ \A t \in Tables : kept'[t] \in {kept[t], {}} /\ live'[t] = kept'[t]

\* A call that only reads.
Look == live' = live /\ kept' = kept

AtomicNext == Look \/ Save \/ Reopen \/ \E t \in Tables : Call(t)

AtomicSpec == live = kept /\ [][AtomicNext]_tableVars
=================================================================================
