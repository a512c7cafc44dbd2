---------------------------------- MODULE Chat ----------------------------------
(***************************************************************************)
(* A chat request from its arrival to its verdict (internal/chat), with    *)
(* the streamed calls of internal/reasoning.                               *)
(*                                                                         *)
(* A request is classified, may be turned into an offer to create an item, *)
(* or be given the result of a tool, and is then passed from backend to    *)
(* backend until one answers.  Every call runs on a context of two         *)
(* minutes.  Texts, prompts and histories are left out: an answer is named *)
(* by what it was made from.                                               *)
(***************************************************************************)
EXTENDS Naturals, Sequences

CONSTANTS
  Requests,
  MaxFaults,      \* bound on the calls that fail with time left
  MaxSelects,     \* bound on the selections of a user, for each request
  Setups          \* the configurations of the daemon

Backends == {"reasoning", "tools", "plain", "claude", "gemini"}

\* What the daemon was given: an API key (mcp), a reasoning model, a semantic
\* router, the Claude CLI, a Gemini key.
SetupType == [mcp : BOOLEAN, reason : BOOLEAN, semantic : BOOLEAN,
              claude : BOOLEAN, gemini : BOOLEAN]

ASSUME ConstAssumption ==
  /\ MaxFaults \in Nat /\ MaxSelects \in Nat
  /\ Setups \subseteq SetupType

VARIABLES
  setup,          \* the fields of Handler and what is installed
  pc,             \* where processChat is: a step, or the call it waits for
  thinking,       \* the model's name ends in ":thinking"
  intent,         \* classifyResult.Intent
  level,          \* the tier of the semantic router, or the complexity
  chain,          \* the backends still to be asked, in this order
  answer,         \* resp.Content
  expired,        \* the two minutes are over
  streamed,       \* sources of which chat:delta messages were sent
  told,           \* chat:error, and the contents of chat:response
  kept,           \* roles given to the session context and saveChatMessage
  stream,         \* the goroutine of a reasoner, or the event it sent last
  cut,            \* Stream has returned, and cancelled the reasoner's context
  calls,          \* times the tool calls of a model were executed
  offered,        \* chat:action has been sent
  selects, items, saved,  \* selections, items created for them, successes told
  faults,
  tried, local    \* history: the backends that failed; findLocalModel

reqVars == <<pc, thinking, intent, level, chain, answer>>
outVars == <<streamed, told, kept>>
reasonVars == <<stream, cut>>
effectVars == <<calls, offered, selects, items, saved>>
ghostVars == <<tried, local>>
vars == <<setup, reqVars, expired, outVars, reasonVars, effectVars, faults, ghostVars>>

-------------------------------------------------------------------------------
(* Routing.                                                                *)

Levels == IF setup.semantic THEN {"tier1", "tier2", "tier3", "tier4"}
                            ELSE {"simple", "complex", "reasoning"}

\* Only the names of the Haiku classifier ask for a confirmation.
Intents == {"general", "tool", "create"} \cup
             (IF setup.semantic THEN {} ELSE {"confirm"})

When(condition, backend) == IF condition THEN <<backend>> ELSE <<>>

\* The semantic router: the backend of the tier, then Gemini.
TierChain(l, hasLocal) ==
  CASE l = "tier4" -> When(setup.reason, "reasoning") \o When(setup.claude, "claude")
    [] l \in {"tier2", "tier3"} -> When(setup.claude, "claude")
    [] OTHER -> When(hasLocal /\ setup.mcp, "tools") \o When(hasLocal, "plain")

\* Without one: cloud models only for what is not simple.
LegacyChain(l, hasLocal) ==
  When(l = "reasoning" /\ setup.reason, "reasoning")
    \o When(hasLocal /\ setup.mcp, "tools")
    \o When(l # "simple" /\ setup.claude, "claude")

\* faulty: Gemini is kept for when there is nothing else
ChainGeminiAlone(l, hasLocal) ==
  LET first == IF setup.semantic THEN TierChain(l, hasLocal) ELSE LegacyChain(l, hasLocal)
  IN  first \o When(setup.gemini /\ first = <<>>, "gemini")
Chain(l, hasLocal) ==
  IF setup.semantic THEN TierChain(l, hasLocal) \o When(setup.gemini, "gemini")
  ELSE LegacyChain(l, hasLocal) \o When(l # "simple" /\ setup.gemini, "gemini")

-------------------------------------------------------------------------------
(* Steps shared by the handlers.                                           *)

\* A call fails by itself, or because the context is done.
Fails(q) ==
  \/ /\ expired[q] /\ UNCHANGED faults
  \/ /\ ~expired[q] /\ faults < MaxFaults
     /\ faults' = faults + 1

Goto(q, step) == pc' = [pc EXCEPT ![q] = step]

Streams(q, source) == streamed' = [streamed EXCEPT ![q] = @ \cup {source}]

MayStream(q, source) == UNCHANGED streamed \/ Streams(q, source)

Tell(q, verdict) == told' = [told EXCEPT ![q] = @ \cup {verdict}]

\* processChat returns resp.
Answer(q, content) ==
  /\ answer' = [answer EXCEPT ![q] = content]
  /\ Goto(q, "reply")

-------------------------------------------------------------------------------
(* Arrival and classification.                                             *)

Receive(q) ==
  /\ pc[q] = "idle"
  /\ \E t \in BOOLEAN :
       /\ thinking' = [thinking EXCEPT ![q] = t]
       /\ Goto(q, IF t THEN "think" ELSE "classify")
  /\ kept' = [kept EXCEPT ![q] = {"user"}]
  /\ UNCHANGED <<setup, intent, level, chain, answer, expired, streamed, told,
                 reasonVars, effectVars, faults, ghostVars>>

Expire(q) ==
  /\ pc[q] \notin {"idle", "done"} /\ ~expired[q]
  /\ expired' = [expired EXCEPT ![q] = TRUE]
  /\ UNCHANGED <<setup, reqVars, outVars, reasonVars, effectVars, faults, ghostVars>>

\* The references of the query are read, then the router or a model classifies it.
Classify(q) ==
  /\ pc[q] = "classify"
  /\ \E i \in Intents, l \in Levels :
       /\ intent' = [intent EXCEPT ![q] = i]
       /\ level' = [level EXCEPT ![q] = l]
       /\ Goto(q, CASE i = "general" -> "plan"
                    [] i = "tool" -> "tool"
                    [] OTHER -> "create")
  /\ UNCHANGED <<setup, thinking, chain, answer, expired, outVars, reasonVars,
                 effectVars, faults, ghostVars>>

\* handleCreateAction: the workspaces are offered, and their list is the answer.
Offer(q) ==
  /\ pc[q] = "create" /\ setup.mcp /\ ~expired[q]
  /\ offered' = [offered EXCEPT ![q] = TRUE]
  /\ Answer(q, "title")
  /\ UNCHANGED <<setup, thinking, intent, level, chain, expired, outVars, reasonVars,
                 calls, selects, items, saved, faults, ghostVars>>

\* No API key, no workspaces, or they cannot be fetched: the request goes on.
OfferNothing(q) ==
  /\ pc[q] = "create"
  /\ Goto(q, IF intent[q] = "confirm" THEN "tool" ELSE "plan")
  /\ UNCHANGED <<setup, thinking, intent, level, chain, answer, expired, outVars,
                 reasonVars, effectVars, faults, ghostVars>>

\* ExecuteIntent: its result or its error becomes part of the query.
UseTool(q) ==
  /\ pc[q] = "tool"
  /\ Streams(q, "tool")
  /\ Goto(q, "plan")
  /\ UNCHANGED <<setup, thinking, intent, level, chain, answer, expired, told, kept,
                 reasonVars, effectVars, faults, ghostVars>>

Plan(q) ==
  /\ pc[q] = "plan"
  /\ \E loc \in BOOLEAN :
       /\ local' = [local EXCEPT ![q] = loc]
       /\ chain' = [chain EXCEPT ![q] = Chain(level[q], loc)]
  /\ Goto(q, "route")
  /\ UNCHANGED <<setup, thinking, intent, level, answer, expired, outVars, reasonVars,
                 effectVars, faults, tried>>

Ask(q) ==
  /\ pc[q] = "route" /\ chain[q] # <<>>
  /\ Goto(q, Head(chain[q]))
  /\ chain' = [chain EXCEPT ![q] = Tail(@)]
  /\ UNCHANGED <<setup, thinking, intent, level, answer, expired, outVars, reasonVars,
                 effectVars, faults, ghostVars>>

-------------------------------------------------------------------------------
(* The verdict.                                                            *)

GiveUp(q) ==
  /\ pc[q] = "route" /\ chain[q] = <<>>
  /\ Tell(q, "error")
  /\ Goto(q, "done")
  /\ UNCHANGED <<setup, thinking, intent, level, chain, answer, expired, streamed, kept,
                 reasonVars, effectVars, faults, ghostVars>>

Reply(q) ==
  /\ pc[q] = "reply"
  /\ kept' = [kept EXCEPT ![q] = @ \cup {"assistant"}]
  /\ Tell(q, answer[q])
  /\ Goto(q, "done")
  /\ UNCHANGED <<setup, thinking, intent, level, chain, answer, expired, streamed,
                 reasonVars, effectVars, faults, ghostVars>>

-------------------------------------------------------------------------------
(* Reasoning.  Stream makes a context, starts a goroutine that calls the   *)
(* model and sends events, and cancels the context when it returns.        *)

Reasoning(q) == pc[q] \in {"think", "reasoning"}

StartStream(q) ==
  /\ Reasoning(q) /\ stream[q] = "none"
  /\ stream' = [stream EXCEPT ![q] = "started"]
  /\ UNCHANGED <<setup, reqVars, expired, outVars, cut, effectVars, faults, ghostVars>>

StreamReturns(q) ==
  /\ stream[q] # "none" /\ ~cut[q]
  /\ cut' = [cut EXCEPT ![q] = TRUE]
  /\ UNCHANGED <<setup, reqVars, expired, outVars, stream, effectVars, faults, ghostVars>>

\* The goroutine: a call on a finished context is not made.
CallModel(q) ==
  /\ stream[q] = "started"
  /\ stream' = [stream EXCEPT ![q] = IF cut[q] \/ expired[q] THEN "error" ELSE "calls"]
  /\ UNCHANGED <<setup, reqVars, expired, outVars, cut, effectVars, faults, ghostVars>>

\* An HTTP call fails; a CLI is killed, and what it has written is the answer.
ModelFails(q) ==
  /\ stream[q] = "calls"
  /\ (cut[q] /\ UNCHANGED faults) \/ Fails(q)
  /\ \E e \in {"error", "partial"} : stream' = [stream EXCEPT ![q] = e]
  /\ UNCHANGED <<setup, reqVars, expired, outVars, cut, effectVars, ghostVars>>

ModelAnswers(q) ==
  /\ stream[q] = "calls" /\ ~cut[q] /\ ~expired[q]
  /\ stream' = [stream EXCEPT ![q] = "reasoned"]
  /\ UNCHANGED <<setup, reqVars, expired, outVars, cut, effectVars, faults, ghostVars>>

\* processChatReasoning: the events, up to the last.
AfterReasoningRetries(q) == pc[q]                \* faulty: streams again
AfterReasoning(q) == IF pc[q] = "think" THEN "classify" ELSE "route"

TakeEvents(q) ==
  /\ Reasoning(q) /\ cut[q] /\ stream[q] \in {"reasoned", "partial", "error"}
  /\ IF stream[q] = "error"
     THEN /\ Goto(q, AfterReasoning(q))
          /\ tried' = [tried EXCEPT ![q] = @ \cup ({pc[q]} \ {"think"})]
          /\ MayStream(q, "reasoned")
          /\ UNCHANGED answer
     ELSE /\ Answer(q, stream[q])
          /\ Streams(q, "reasoned")
          /\ UNCHANGED tried
  /\ stream' = [stream EXCEPT ![q] = "none"] /\ cut' = [cut EXCEPT ![q] = FALSE]
  /\ UNCHANGED <<setup, thinking, intent, level, chain, expired, told, kept,
                 effectVars, faults, local>>

-------------------------------------------------------------------------------
(* The other backends.  Each call may send deltas before it ends.          *)

restVars == <<setup, thinking, intent, level, chain, expired, kept, reasonVars,
              offered, selects, items, saved, local>>

\* The next backend is asked, not this one again.
Abandon(q, backend) ==
  /\ Goto(q, "route")
  /\ tried' = [tried EXCEPT ![q] = @ \cup {backend}]
  /\ UNCHANGED <<answer, told, calls>>

\* An answer that came without streaming is sent at once, and again by Reply.
SendTextAndGoOn(q, content) ==                   \* faulty: no return after the send
  Tell(q, content) /\ Goto(q, "converse") /\ UNCHANGED answer
SendText(q, content) ==
  /\ Tell(q, content)
  /\ Answer(q, content)

\* processChatOllama: the model is asked with the tools, without streaming.
AskWithTools(q) ==
  /\ pc[q] = "tools"
  /\ \/ SendText(q, "text") /\ UNCHANGED faults
     \/ Goto(q, "execute") /\ UNCHANGED <<answer, told, faults>>
     \/ Goto(q, "converse") /\ Fails(q) /\ UNCHANGED <<answer, told>>
     \/ Goto(q, "converse") /\ UNCHANGED <<answer, told, faults>>  \* it said nothing
  /\ UNCHANGED <<restVars, streamed, calls, tried>>

\* The tool calls of its answer, failed ones too, become results.
ExecuteCalls(q) ==
  /\ pc[q] = "execute"
  /\ calls' = [calls EXCEPT ![q] = @ + 1]
  /\ Goto(q, "follow")
  /\ UNCHANGED <<restVars, answer, streamed, told, faults, tried>>

WithoutResultsRetries(q) == Goto(q, "tools")     \* faulty: asks with the tools again
WithoutResults(q) == Goto(q, "converse")

\* The results go back to the model.  If that fails, what it said with the calls is
\* the answer; if it said nothing, it is asked again, without tools and results.
FollowUp(q) ==
  /\ pc[q] = "follow"
  /\ \/ /\ Answer(q, "followed") /\ Streams(q, "followed")
        /\ UNCHANGED <<told, faults>>
     \/ /\ Fails(q) /\ MayStream(q, "followed")
        /\ \/ SendText(q, "stale")
           \/ WithoutResults(q) /\ UNCHANGED <<answer, told>>
  /\ UNCHANGED <<restVars, calls, tried>>

\* processChatOllamaSimple, and the end of processChatOllama.
Converse(q) ==
  /\ pc[q] \in {"converse", "plain"}
  /\ \/ /\ Answer(q, "plain") /\ Streams(q, "plain")
        /\ UNCHANGED <<told, calls, faults, tried>>
     \/ /\ Fails(q) /\ MayStream(q, "plain")
        /\ Abandon(q, IF pc[q] = "plain" THEN "plain" ELSE "tools")
  /\ UNCHANGED restVars

\* processChatClaudeCLIInternal: once started, the CLI has no errors.
StartClaude(q) ==
  /\ pc[q] = "claude"
  /\ \/ ~expired[q] /\ Goto(q, "cli") /\ UNCHANGED <<answer, told, calls, faults, tried>>
     \/ Fails(q) /\ Abandon(q, "claude")
  /\ UNCHANGED <<restVars, streamed>>

EndClaude(q) ==
  /\ pc[q] = "cli"
  /\ MayStream(q, "claude")
  /\ \/ Answer(q, "claude") /\ UNCHANGED faults
     \/ Answer(q, "partial") /\ Fails(q)
  /\ UNCHANGED <<restVars, told, calls, tried>>

\* processChatGemini: after the header of the answer, nor has Gemini.
AskGemini(q) ==
  /\ pc[q] = "gemini"
  /\ \/ /\ MayStream(q, "gemini")
        /\ \/ Answer(q, "gemini") /\ UNCHANGED faults
           \/ Answer(q, "partial") /\ Fails(q)
        /\ UNCHANGED <<told, calls, tried>>
     \/ Fails(q) /\ Abandon(q, "gemini") /\ UNCHANGED streamed
  /\ UNCHANGED restVars

-------------------------------------------------------------------------------
(* handleActionSelect: the user chooses a workspace, perhaps again.        *)

\* The item is created and the user told so; or it is not; or it is, and the answer
\* is lost.
Select(q) ==
  /\ offered[q] /\ selects[q] < MaxSelects
  /\ selects' = [selects EXCEPT ![q] = @ + 1]
  /\ \/ items' = [items EXCEPT ![q] = @ + 1] /\ saved' = [saved EXCEPT ![q] = @ + 1]
     \/ items' = [items EXCEPT ![q] = @ + 1] /\ UNCHANGED saved
     \/ UNCHANGED <<items, saved>>
  /\ UNCHANGED <<setup, reqVars, expired, outVars, reasonVars, calls, offered, faults,
                 ghostVars>>

-------------------------------------------------------------------------------
Init ==
  /\ setup \in Setups
  /\ pc = [q \in Requests |-> "idle"]
  /\ thinking = [q \in Requests |-> FALSE]
  /\ intent = [q \in Requests |-> "none"] /\ level = [q \in Requests |-> "none"]
  /\ chain = [q \in Requests |-> <<>>]
  /\ answer = [q \in Requests |-> "none"]
  /\ expired = [q \in Requests |-> FALSE]
  /\ streamed = [q \in Requests |-> {}]
  /\ told = [q \in Requests |-> {}]
  /\ kept = [q \in Requests |-> {}]
  /\ stream = [q \in Requests |-> "none"]
  /\ cut = [q \in Requests |-> FALSE]
  /\ calls = [q \in Requests |-> 0]
  /\ offered = [q \in Requests |-> FALSE]
  /\ selects = [q \in Requests |-> 0]
  /\ items = [q \in Requests |-> 0] /\ saved = [q \in Requests |-> 0]
  /\ faults = 0
  /\ tried = [q \in Requests |-> {}]
  /\ local = [q \in Requests |-> FALSE]

\* Steps of the request that wait for nobody.
Handle(q) ==
  \/ Plan(q) \/ Ask(q) \/ GiveUp(q) \/ Reply(q)
  \/ StartStream(q) \/ StreamReturns(q) \/ TakeEvents(q)

\* Steps that wait for a call.
Wait(q) ==
  \/ Classify(q) \/ Offer(q) \/ OfferNothing(q) \/ UseTool(q)
  \/ AskWithTools(q) \/ ExecuteCalls(q) \/ FollowUp(q) \/ Converse(q)
  \/ StartClaude(q) \/ EndClaude(q) \/ AskGemini(q)

Next ==
  \E q \in Requests :
    \/ Receive(q) \/ Expire(q) \/ Handle(q) \/ Wait(q) \/ Select(q)
    \/ CallModel(q) \/ ModelFails(q) \/ ModelAnswers(q)

Spec == Init /\ [][Next]_vars

\* A call may hang until its context is done, but no longer.
FairSpec ==
  /\ Spec
  /\ \A q \in Requests :
       /\ WF_vars(Handle(q)) /\ WF_vars(Expire(q))
       /\ WF_vars(expired[q] /\ Wait(q))
       /\ WF_vars(CallModel(q))
       /\ WF_vars((cut[q] \/ expired[q]) /\ ModelFails(q))

-------------------------------------------------------------------------------
(* Properties.                                                             *)

Contents == {"title", "reasoned", "partial", "text", "followed", "stale", "plain",
             "claude", "gemini"}

Sources == {"tool", "reasoned", "followed", "plain", "claude", "gemini"}

Steps == {"idle", "think", "classify", "create", "tool", "plan", "route", "execute",
          "follow", "converse", "cli", "reply", "done"} \cup Backends

TypeOK ==
  /\ setup \in SetupType
  /\ pc \in [Requests -> Steps]
  /\ thinking \in [Requests -> BOOLEAN]
  /\ intent \in [Requests -> {"none", "general", "tool", "create", "confirm"}]
  /\ level \in [Requests -> {"none", "simple", "complex", "reasoning",
                             "tier1", "tier2", "tier3", "tier4"}]
  /\ chain \in [Requests -> Seq(Backends)]
  /\ answer \in [Requests -> Contents \cup {"none"}]
  /\ expired \in [Requests -> BOOLEAN]
  /\ streamed \in [Requests -> SUBSET Sources]
  /\ told \in [Requests -> SUBSET (Contents \cup {"error"})]
  /\ kept \in [Requests -> SUBSET {"user", "assistant"}]
  /\ stream \in [Requests -> {"none", "started", "calls", "error", "partial", "reasoned"}]
  /\ cut \in [Requests -> BOOLEAN]
  /\ calls \in [Requests -> Nat]
  /\ offered \in [Requests -> BOOLEAN]
  /\ selects \in [Requests -> Nat] /\ items \in [Requests -> Nat]
  /\ saved \in [Requests -> Nat]
  /\ faults \in 0..MaxFaults
  /\ tried \in [Requests -> SUBSET Backends]
  /\ local \in [Requests -> BOOLEAN]

\* Whatever backends fail, and however late: once the user has been told an answer or
\* an error, no other verdict and no more text follows, and only an answer is kept.
OneVerdict ==
  [][\A q \in Requests : told[q] # {} =>
       /\ told'[q] = told[q] /\ streamed'[q] = streamed[q]
       /\ "error" \in told[q] => kept'[q] = kept[q]]_vars

\* What changes the user's data is done once: the tool calls of a model are executed
\* in one place of the chain only, whatever fails after them; each selection creates
\* at most one item; and who is told that an item was saved has it.
EffectsOnce ==
  \A q \in Requests :
    calls[q] <= 1 /\ items[q] <= selects[q] /\ saved[q] <= items[q]

\* The backends that could answer a request of this kind, one by one.
CanAnswer(q, backend) ==
  CASE backend = "reasoning" -> setup.reason /\ level[q] \in {"tier4", "reasoning"}
    [] backend = "tools" ->
         setup.mcp /\ local[q] /\ level[q] \notin {"tier2", "tier3", "tier4"}
    [] backend = "plain" -> local[q] /\ level[q] = "tier1"
    [] backend = "claude" -> setup.claude /\ level[q] \notin {"simple", "tier1"}
    [] backend = "gemini" -> setup.gemini /\ level[q] # "simple"

\* "no LLM available": a user is told so only after every backend that the kind of the
\* request allows was asked and failed, in every configuration.
ErrorMeansAllFailed ==
  \A q \in Requests : "error" \in told[q] =>
    \A backend \in Backends : CanAnswer(q, backend) => backend \in tried[q]

\* Every request gets a verdict, also if a backend hangs.
RequestEnds == \A q \in Requests : pc[q] # "idle" ~> pc[q] = "done"

\* README: "When reasoning is enabled, all responses include a `reasoning` field".
\* Only the reasoner's answers have one, whole or cut off.  With nothing failing and
\* time left, a request for a model ":thinking" should get nothing else.
ThinkingAnswers ==
  \A q \in Requests :
    thinking[q] /\ ~expired[q] => told[q] \subseteq {"reasoned", "partial"}

===============================================================================
