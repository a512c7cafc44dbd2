------------------------------- MODULE SkillRunner -------------------------------
(******************************************************************************)
(* One step of a workflow that runs a skill or an agent: the step executor     *)
(* (internal/engine/executor.go) looks them up, and the skill runner           *)
(* (skill_runner.go) calls a model, perhaps through a reasoner                 *)
(* (internal/reasoning), an HTTP API, a tool or the nlook API (internal/mcp).  *)
(*                                                                             *)
(* Prompts, templates and answers are left out: an answer is the number of the *)
(* call that gave it.  A call whose answer is lost may have had its effect.    *)
(******************************************************************************)
EXTENDS Integers, Sequences

CONSTANT MaxSteps     \* Config.MaxSteps, at least 1

VARIABLES
  job,                \* the node, with what it refers to
  setup,              \* what the process has been given
  cancelled,          \* the step's context
  stage,              \* start, reason, oneshot, effect, done
  round,              \* passes through the loop of DefaultReasoner.Reason
  kept,               \* the steps it has kept
  calls,              \* history: the calls of models, [to, ok, during]
  effects,            \* history: the requests that had an effect elsewhere
  answer,             \* the call whose text is the output
  verdict             \* StepResult.Status, none before

skillVars == <<job, setup, cancelled, stage, round, kept, calls, effects, answer, verdict>>
callVars == <<round, kept, calls, answer>>

\* A name that begins with "claude" is claude's for both; "Claude-3" has a native
\* reasoner but goes to OpenAI; "qwen" goes to Ollama and has no reasoner.
Models == [route : {"claude"}, native : {TRUE}]
          \cup [route : {"ollama", "openai"}, native : BOOLEAN]
DefaultModel == [route |-> "claude", native |-> TRUE]

\* A skill node without an agent, or whose agent is not in the workflow, takes
\* the default model; an agent node has no skill that could ask for reasoning.
SkillJobs ==
  [node : {"skill"}, ref : {"none", "missing"}, type : {"prompt"},
   model : {DefaultModel}, reasons : {FALSE}]
  \cup [node : {"skill"}, ref : {"found"}, type : {"prompt"}, model : Models,
        reasons : BOOLEAN]
  \cup [node : {"skill"}, ref : {"found"}, type : {"api", "tool", "mcp", "other"},
        model : {DefaultModel}, reasons : {FALSE}]
AgentJobs ==
  [node : {"agent"}, ref : {"none", "missing"}, type : {"prompt"},
   model : {DefaultModel}, reasons : {FALSE}]
  \cup [node : {"agent"}, ref : {"found"}, type : {"prompt"}, model : Models,
        reasons : BOOLEAN]
Setups == SUBSET {"cli", "anthropic", "openai", "manager"}
          \cup SUBSET {"url", "tools", "mcp"}

------------------------------------------------------------------------------
(* executeSkillNode, executeAgentNode and RunSkill.                         *)

Done(v) == stage' = "done" /\ verdict' = v

Attached == job.ref = "found"
Unattached ==
  /\ stage = "start" /\ ~Attached
  /\ Done(IF job.ref = "none" THEN "completed" ELSE "failed")
  /\ UNCHANGED <<job, setup, cancelled, callVars, effects>>

Reasons == job.reasons /\ "manager" \in setup
RunSkill ==
  /\ stage = "start" /\ Attached
  /\ IF job.type = "other" THEN Done("completed")
     ELSE /\ stage' = CASE job.type # "prompt" -> "effect"
                        [] Reasons -> "reason"
                        [] OTHER -> "oneshot"
          /\ UNCHANGED verdict
  /\ UNCHANGED <<job, setup, cancelled, callVars, effects>>

Cancel ==
  /\ ~cancelled /\ stage # "done" /\ cancelled' = TRUE
  /\ UNCHANGED <<job, setup, stage, callVars, effects, verdict>>

------------------------------------------------------------------------------
(* A call of a model.                                                       *)

Called(to, ok) ==
  /\ ok => ~cancelled
  /\ calls' = Append(calls, [to |-> to, ok |-> ok, during |-> stage])
NoKey(ok) == ~ok /\ UNCHANGED calls

HasCLI == "cli" \in setup                      \* findClaudeCLI
CallAnthropicAPI(ok) ==
  IF "anthropic" \in setup THEN Called("anthropic", ok) ELSE NoKey(ok)

\* A CLI that fails is not replaced by the API, one that is not there is.
CallClaudeCLI(ok) == IF HasCLI THEN Called("cli", ok) ELSE CallAnthropicAPI(ok)
CallOpenAI(ok) == IF "openai" \in setup THEN Called("openai", ok) ELSE NoKey(ok)
CallOllama(ok) == Called("ollama", ok)

CallLLM(ok) ==
  \/ job.model.route = "claude" /\ CallClaudeCLI(ok)
  \/ job.model.route = "ollama" /\ CallOllama(ok)
  \/ job.model.route = "openai" /\ CallOpenAI(ok)

Answer == answer' = Len(calls') /\ Done("completed")

\* A native reasoner calls once; its thoughts are the steps.
NativeReason ==
  /\ stage = "reason" /\ job.model.native
  /\ CallLLM(TRUE) /\ Answer
  /\ UNCHANGED <<job, setup, cancelled, round, kept, effects>>

\* What parseStepResponse finds in an answer.
Replies == {"continue", "final_answer", "reset", "raw"}

\* DefaultReasoner: what is not the JSON of a step is the answer; else the last
\* step's result is, a step that was reset included.
CoTStep(next) ==
  /\ stage = "reason" /\ ~job.model.native
  /\ CallLLM(TRUE)
  /\ round' = round + 1
  /\ kept' = CASE next = "raw" -> kept [] next = "reset" -> 0 [] OTHER -> kept + 1
  /\ IF next \in {"raw", "final_answer"} \/ round' = MaxSteps
     THEN Answer ELSE UNCHANGED <<answer, stage, verdict>>
  /\ UNCHANGED <<job, setup, cancelled, effects>>

\* The call fails, or the reasoning's own 120 seconds are over: the skill is run
\* without reasoning, in the step's context.
AfterFailedReasonSettles ==            \* faulty: the steps so far are the answer
  answer' = Len(calls) /\ Done("completed")
AfterFailedReason == stage' = "oneshot" /\ UNCHANGED <<answer, verdict>>
ReasonFails ==
  /\ stage = "reason"
  /\ CallLLM(FALSE)
  /\ AfterFailedReason
  /\ UNCHANGED <<job, setup, cancelled, round, kept, effects>>

OneShot ==
  /\ stage = "oneshot"
  /\ \/ CallLLM(TRUE) /\ Answer
     \/ CallLLM(FALSE) /\ Done("failed") /\ UNCHANGED answer
  /\ UNCHANGED <<job, setup, cancelled, round, kept, effects>>

------------------------------------------------------------------------------
(* The other types.  Every HTTP status is a result of runAPI, an error of    *)
(* runMCP; an error of a tool is a result.                                  *)

Performed == ~cancelled /\ effects' = effects + 1
MaybePerformed == UNCHANGED effects \/ Performed

RunAPI ==
  /\ stage = "effect" /\ job.type = "api"
  /\ \/ "url" \notin setup /\ UNCHANGED effects /\ Done("failed")
     \/ "url" \in setup /\ Performed /\ Done("completed")
     \/ "url" \in setup /\ MaybePerformed /\ Done("failed")
  /\ UNCHANGED <<job, setup, cancelled, callVars>>

ExecuteTool == MaybePerformed
RunTool ==
  /\ stage = "effect" /\ job.type = "tool"
  /\ IF "tools" \in setup THEN ExecuteTool ELSE UNCHANGED effects
  /\ Done("completed")
  /\ UNCHANGED <<job, setup, cancelled, callVars>>

\* Every tool is one request; a name it does not know is an error.
CallTool ==
  \/ Performed /\ Done("completed")
  \/ MaybePerformed /\ Done("failed")
RunMCP ==
  /\ stage = "effect" /\ job.type = "mcp"
  /\ IF "mcp" \in setup THEN CallTool ELSE UNCHANGED effects /\ Done("failed")
  /\ UNCHANGED <<job, setup, cancelled, callVars>>

------------------------------------------------------------------------------
SkillInit ==
  /\ job \in SkillJobs \cup AgentJobs /\ setup \in Setups
  /\ cancelled = FALSE /\ stage = "start"
  /\ round = 0 /\ kept = 0 /\ calls = <<>> /\ effects = 0
  /\ answer = 0 /\ verdict = "none"

SkillNext ==
  \/ Unattached \/ RunSkill \/ Cancel
  \/ NativeReason \/ ReasonFails \/ OneShot
  \/ \E next \in Replies : CoTStep(next)
  \/ RunAPI \/ RunTool \/ RunMCP

SkillSpec == SkillInit /\ [][SkillNext]_skillVars

------------------------------------------------------------------------------
(* Properties.                                                              *)

LastCall == calls[Len(calls)]
Prompted == Attached /\ job.type = "prompt" /\ verdict # "none"

\* However many calls a prompt takes and whichever of them fails, and whenever the
\* run is cancelled: it is completed with what its last call, a successful one,
\* said; it is failed only by a call without reasoning, or with no model to call;
\* the only call that follows a failed one is that without reasoning; a Claude
\* model's prompt goes to Claude, and no other does.
SkillVerdict ==
  /\ Prompted /\ verdict = "completed" =>
       calls # <<>> /\ LastCall.ok /\ answer = Len(calls)
  /\ Prompted /\ verdict = "failed" /\ calls # <<>> =>
       ~LastCall.ok /\ LastCall.during = "oneshot"
  /\ \A k \in 1..Len(calls) - 1 :
       ~calls[k].ok => k = Len(calls) - 1 /\ LastCall.during = "oneshot"
  /\ \A k \in 1..Len(calls) :
       calls[k].to \in {"cli", "anthropic"} <=> job.model.route = "claude"
  /\ kept <= round /\ Len(calls) <= MaxSteps + 1
===============================================================================
