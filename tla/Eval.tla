----------------------------------- MODULE Eval -----------------------------------
(******************************************************************************)
(* Evaluation (internal/eval, cli/eval_cmd.go): sets of cases, kept in SQLite, *)
(* are edited and run by commands.  Each is a process of its own, so several   *)
(* work on one database; a statement is atomic, and no command uses a          *)
(* transaction.  The set's id is known once it exists.                         *)
(*                                                                             *)
(* Texts and scores are left out, and the steps of a workflow run, which only  *)
(* cases with a node can expect: no command makes such a case.                 *)
(******************************************************************************)
EXTENDS Integers, Sequences

CONSTANTS
  Runners,          \* processes of "eval run"
  Editors,          \* processes of the other commands that write
  MaxIterations,    \* cfg.Eval.MaxIterations
  MaxCases,         \* bound on cases
  MaxDowns          \* bound on processes that die and statements that fail

VARIABLES
  evalSet,          \* none, there, deleted
  cases,            \* rows of eval_cases, numbered and ordered as they are inserted
  inserted,
  runs,             \* runner -> its row of eval_runs, or NoRow
  results,          \* runner -> its rows of eval_results
  runner,           \* runner -> what its process knows
  editor,           \* editor -> what its process does next
  downs,
  late              \* history: the cases inserted once a deletion had begun

evalVars == <<evalSet, cases, inserted, runs, results, runner, editor, downs, late>>
rowVars == <<runs, results, runner>>
editVars == <<evalSet, cases, inserted, editor, late>>

NoRow == [status |-> "none", total |-> 0, completed |-> 0]
Idle == [step |-> "idle", iters |-> 0, todo |-> <<>>, row |-> NoRow]
Down == downs < MaxDowns /\ downs' = downs + 1

------------------------------------------------------------------------------
(* Editing.                                                                 *)

Does(e, what) == editor' = [editor EXCEPT ![e] = what]

UpsertEvalSet(e) ==
  /\ evalSet = "none" /\ editor[e] = "idle"
  /\ evalSet' = "there"
  /\ UNCHANGED <<cases, inserted, editor, late, rowVars, downs>>

\* Nothing asks whether the set still exists.
InsertEvalCase ==
  /\ evalSet # "none" /\ inserted < MaxCases
  /\ inserted' = inserted + 1
  /\ cases' = Append(cases, inserted')
  /\ late' = IF evalSet = "deleted" \/ \E d \in Editors : editor[d] = "delete"
             THEN late \cup {inserted'} ELSE late

AddCase(e) ==
  /\ editor[e] = "idle" /\ InsertEvalCase
  /\ UNCHANGED <<evalSet, editor, rowVars, downs>>

\* An import goes on row by row, and ends at the first that fails.
ImportCase(e, more) ==
  /\ editor[e] \in {"idle", "import"} /\ InsertEvalCase
  /\ Does(e, IF more THEN "import" ELSE "idle")
  /\ UNCHANGED <<evalSet, rowVars, downs>>

ImportEnds(e) ==
  /\ editor[e] = "import" /\ Down
  /\ Does(e, "idle")
  /\ UNCHANGED <<evalSet, cases, inserted, late, rowVars>>

\* DeleteEvalSet: two statements; runs and results stay.
DeleteCases(e) ==
  /\ evalSet = "there" /\ editor[e] = "idle"
  /\ cases' = <<>> /\ Does(e, "delete")
  /\ UNCHANGED <<evalSet, inserted, late, rowVars, downs>>
DeleteSet(e) ==
  /\ editor[e] = "delete"
  /\ evalSet' = "deleted" /\ Does(e, "idle")
  /\ UNCHANGED <<cases, inserted, late, rowVars, downs>>
DeleteEnds(e) ==
  /\ editor[e] = "delete" /\ Down
  /\ Does(e, "idle")
  /\ UNCHANGED <<evalSet, cases, inserted, late, rowVars>>

------------------------------------------------------------------------------
(* eval run: the set, its cases and the new row are three statements.  A      *)
(* statement that fails before the row is inserted ends the command, as a set *)
(* that is not there, or has no cases, does.                               *)

\* --iterations, or the configured default of 1, up to the configured limit.
Iterations(asked) ==
  CASE asked < 1 -> 1 [] asked > MaxIterations -> MaxIterations [] OTHER -> asked

GetEvalSet(r, asked) ==
  /\ runner[r].step = "idle" /\ evalSet = "there"
  /\ runner' = [runner EXCEPT ![r].step = "list", ![r].iters = Iterations(asked)]
  /\ UNCHANGED <<editVars, runs, results, downs>>

\* ORDER BY created_at, and every case as often as it is to be run.
Items(n) == [k \in 1..Len(cases) * n |->
               [case |-> cases[((k - 1) \div n) + 1], iter |-> ((k - 1) % n) + 1]]
ListEvalCases(r) ==
  /\ runner[r].step = "list"
  /\ runner' = [runner EXCEPT ![r] =
       IF cases = <<>> THEN Idle
       ELSE [@ EXCEPT !.step = "insert", !.todo = Items(runner[r].iters)]]
  /\ UNCHANGED <<editVars, runs, results, downs>>

InsertEvalRun(r) ==
  /\ runner[r].step = "insert"
  /\ LET row == [status |-> "running", total |-> Len(runner[r].todo), completed |-> 0]
     IN /\ runs' = [runs EXCEPT ![r] = row]
        /\ runner' = [runner EXCEPT ![r].step = "run", ![r].row = row]
  /\ UNCHANGED <<editVars, results, downs>>

\* A case is passed over if there is no answer to it, no score from 1 to 10 for
\* the answer, or no row.
Outcomes == {"saved", "no answer", "no score", "no row"}
CountedBefore(n, outcome) == n + 1               \* faulty: counts what was not saved
Counted(n, outcome) == IF outcome = "saved" THEN n + 1 ELSE n
RunItem(r, outcome) ==
  /\ runner[r].step = "run" /\ runner[r].todo # <<>>
  /\ IF outcome = "saved"
     THEN /\ results' = [results EXCEPT ![r] = Append(@, Head(runner[r].todo))]
          /\ UNCHANGED downs
     ELSE Down /\ UNCHANGED results
  /\ runner' = [runner EXCEPT ![r].todo = Tail(@),
                              ![r].row.completed = Counted(@, outcome)]
  /\ UNCHANGED <<editVars, runs>>

UpdateEvalRun(r) ==
  /\ runner[r].step = "run" /\ runner[r].todo = <<>>
  /\ LET row == [runner[r].row EXCEPT !.status = "completed"]
     IN \/ runs' = [runs EXCEPT ![r] = row] /\ UNCHANGED downs
        \/ Down /\ UNCHANGED runs
  /\ runner' = [runner EXCEPT ![r].step = "over"]
  /\ UNCHANGED <<editVars, results>>

Dies(r) ==
  /\ runner[r].step \in {"list", "insert", "run"} /\ Down
  /\ runner' = [runner EXCEPT ![r].step = "over"]
  /\ UNCHANGED <<editVars, runs, results>>

------------------------------------------------------------------------------
EvalInit ==
  /\ evalSet = "none" /\ cases = <<>> /\ inserted = 0 /\ downs = 0 /\ late = {}
  /\ editor = [e \in Editors |-> "idle"]
  /\ runs = [r \in Runners |-> NoRow] /\ results = [r \in Runners |-> <<>>]
  /\ runner = [r \in Runners |-> Idle]

EvalNext ==
  \/ \E e \in Editors : \/ UpsertEvalSet(e) \/ ImportEnds(e)
                         \/ AddCase(e) \/ \E more \in BOOLEAN : ImportCase(e, more)
                         \/ DeleteCases(e) \/ DeleteSet(e) \/ DeleteEnds(e)
  \/ \E r \in Runners : \/ \E asked \in 0..MaxIterations + 1 : GetEvalSet(r, asked)
                         \/ ListEvalCases(r) \/ InsertEvalRun(r) \/ UpdateEvalRun(r)
                         \/ Dies(r) \/ \E outcome \in Outcomes : RunItem(r, outcome)

EvalSpec == EvalInit /\ [][EvalNext]_evalVars

------------------------------------------------------------------------------
(* Properties.                                                              *)

Live(r) == runner[r].step = "run"
Twice(s) == \E i, j \in DOMAIN s : i # j /\ s[i] = s[j]

\* Whatever other commands do to the set meanwhile, and whatever fails: a completed
\* run counts exactly the results it has in the table, none of them twice and no
\* more than it announced; one that says "running" has counted nothing yet, and
\* its process still runs, unless something went down; and a deleted set has no
\* cases but those inserted once its deletion had begun.
EvalAccounted ==
  /\ \A r \in Runners :
       /\ runs[r].status = "completed" => runs[r].completed = Len(results[r])
       /\ Len(results[r]) <= runs[r].total /\ ~Twice(results[r])
       /\ runs[r].status = "running" => /\ runs[r].completed = 0
                                        /\ Live(r) \/ downs > 0
  /\ evalSet = "deleted" => \A k \in DOMAIN cases : cases[k] \in late
===============================================================================
