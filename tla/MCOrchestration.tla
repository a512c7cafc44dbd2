---------------------------- MODULE MCOrchestration ----------------------------
(* What decides what is called next: Orchestration over every plan of two      *)
(* subtasks, with one name or two, and of three, t1, t2 and t3; and, beside    *)
(* it, SkillRunner over every kind of step, Eval, and Semantic, which picks    *)
(* the model.  They share no state of the model, so a behaviour is about one   *)
(* of them, and the others stay as they were at the start.                     *)
EXTENDS Orchestration

CONSTANTS t1, t2, t3

Two == {[size |-> 2, id |-> [i \in 1..3 |-> IF i = 1 THEN t1 ELSE x],
         deps |-> [i \in 1..3 |-> IF i = 1 THEN D ELSE E]] :
         x \in {t1, t2}, D, E \in SUBSET Ids}

Three == {[size |-> 3, id |-> [i \in 1..3 |-> CASE i = 1 -> t1 [] i = 2 -> t2
                                                [] OTHER -> t3],
           deps |-> [i \in 1..3 |-> CASE i = 1 -> D [] i = 2 -> E [] OTHER -> F]] :
           D, E, F \in SUBSET Ids}

AllPlans == Two \cup Three

\* Of the two kinds of intents whose tiers a low score leaves different.
TwoKinds == [chat |-> "simple", analysis |-> "reasoning"]

CONSTANTS
  MaxSteps,                                             \* SkillRunner
  Runners, Editors, MaxIterations, MaxCases, MaxDowns,  \* Eval
  Messages, Intents, ComplexityOf, MinSamples,          \* Semantic
  MaxClock, MaxAsks, MaxRounds, MaxTroubles

ASSUME PartsAssumption == MaxSteps \in Nat \ {0} /\ MaxIterations \in Nat \ {0}

VARIABLES
  part,                                                 \* which of them acts
  job, setup, cancelled, stage, round, kept, calls, effects, answer, verdict,
  evalSet, cases, inserted, runs, rows, runner, editor, downs, late,
  clock, enabled, minTier, learned, intentFile, chosen, feedback, learn, lastLearn,
  asks, rounds, troubles, unsaved, times

Skill == INSTANCE SkillRunner
Evaluation == INSTANCE Eval WITH results <- rows
Routing == INSTANCE Semantic

skillVars == <<job, setup, cancelled, stage, round, kept, calls, effects, answer, verdict>>
evalVars == <<evalSet, cases, inserted, runs, rows, runner, editor, downs, late>>
routingVars == <<clock, enabled, minTier, learned, intentFile, chosen, feedback, learn,
                 lastLearn, asks, rounds, troubles, unsaved, times>>

\* A part that does not act has one initial state.
AllInit ==
  /\ part \in {"plan", "skill", "eval", "routing"}
  /\ Init /\ Skill!SkillInit /\ Evaluation!EvalInit
  /\ Routing!SemanticInit
  /\ part # "skill" => /\ job = CHOOSE j \in Skill!SkillJobs : TRUE
                       /\ setup = {}

AllNext ==
  /\ UNCHANGED part
  /\ \/ part = "plan"  /\ Next
     \/ part = "skill" /\ Skill!SkillNext
     \/ part = "eval"  /\ Evaluation!EvalNext
     \/ part = "routing" /\ Routing!SemanticNext
  /\ part # "plan"  => UNCHANGED vars
  /\ part # "skill" => UNCHANGED skillVars
  /\ part # "eval"  => UNCHANGED evalVars
  /\ part # "routing" => UNCHANGED routingVars

AllSpec == AllInit /\ [][AllNext]_<<part, vars, skillVars, evalVars, routingVars>>

-----------------------------------------------------------------------------
(* The properties, as they are stated in the modules.                        *)

\* A step is completed with its last call's answer, or failed by that call.
SkillVerdict == Skill!SkillVerdict
\* What a run of an evaluation says of itself is what its rows say.
EvalAccounted == Evaluation!EvalAccounted
\* Ratings are learned from once, within the tiers, and saved.
LearningSound == Routing!LearningSound
===============================================================================
