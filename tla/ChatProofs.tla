------------------------------- MODULE ChatProofs -------------------------------
(***************************************************************************)
(* Proofs about chat requests, for any number of them and any failures:    *)
(* their types, that each gets one verdict, that tool calls are executed   *)
(* once, and that an error means that everything allowed has failed.       *)
(***************************************************************************)
EXTENDS Chat, TLAPS

USE ConstAssumption DEF ConstAssumption

Moves(q) ==
  \/ Receive(q) \/ Expire(q) \/ Handle(q) \/ Wait(q) \/ Select(q)
  \/ CallModel(q) \/ ModelFails(q) \/ ModelAnswers(q)

-------------------------------------------------------------------------------
(* Types.                                                                  *)

LEMMA ChainType ==
  ASSUME setup \in SetupType, NEW l, NEW h \in BOOLEAN
  PROVE  Chain(l, h) \in Seq(Backends)
<1>1. \A c, b : b \in Backends => When(c, b) \in Seq(Backends)
  BY DEF When
<1>2. TierChain(l, h) \in Seq(Backends) /\ LegacyChain(l, h) \in Seq(Backends)
  BY <1>1 DEF TierChain, LegacyChain, Backends
<1> QED
  BY <1>1, <1>2 DEF Chain, Backends

\* The answer a request replies with was made.
Answered == \A q \in Requests : pc[q] = "reply" => answer[q] \in Contents

LEMMA ContentNames ==
  /\ "title" \in Contents /\ "reasoned" \in Contents /\ "partial" \in Contents
  /\ "text" \in Contents /\ "followed" \in Contents /\ "stale" \in Contents
  /\ "plain" \in Contents /\ "claude" \in Contents /\ "gemini" \in Contents
BY DEF Contents

LEMMA SourceNames ==
  /\ "tool" \in Sources /\ "reasoned" \in Sources /\ "followed" \in Sources
  /\ "plain" \in Sources /\ "claude" \in Sources /\ "gemini" \in Sources
BY DEF Sources

LEMMA StepNames ==
  /\ "idle" \in Steps /\ "think" \in Steps /\ "classify" \in Steps /\ "create" \in Steps
  /\ "tool" \in Steps /\ "plan" \in Steps /\ "route" \in Steps /\ "execute" \in Steps
  /\ "follow" \in Steps /\ "converse" \in Steps /\ "cli" \in Steps /\ "reply" \in Steps
  /\ "done" \in Steps /\ Backends \subseteq Steps
BY DEF Steps

LEMMA BackendNames ==
  /\ "reasoning" \in Backends /\ "tools" \in Backends /\ "plain" \in Backends
  /\ "claude" \in Backends /\ "gemini" \in Backends /\ "reply" \notin Backends
BY DEF Backends

LEMMA TypeInit == Init => TypeOK /\ Answered
BY StepNames DEF Init, TypeOK, Answered

\* The types of what the shared steps change.
Progress ==
  /\ pc \in [Requests -> Steps]
  /\ answer \in [Requests -> Contents \cup {"none"}]
  /\ told \in [Requests -> SUBSET (Contents \cup {"error"})]
  /\ calls \in [Requests -> Nat]
  /\ tried \in [Requests -> SUBSET Backends]
  /\ Answered

LEMMA FaultsType ==
  ASSUME TypeOK, NEW q, Fails(q) \/ UNCHANGED faults
  PROVE  faults' \in 0..MaxFaults
BY DEF TypeOK, Fails

LEMMA StreamedType ==
  ASSUME TypeOK, NEW q \in Requests, NEW s \in Sources, MayStream(q, s)
  PROVE  streamed' \in [Requests -> SUBSET Sources]
<1>1. streamed \in [Requests -> SUBSET Sources]
  BY DEF TypeOK
<1>2. CASE Streams(q, s)
  BY <1>1, <1>2 DEF Streams
<1> QED
  BY <1>1, <1>2 DEF MayStream

LEMMA GotoType ==
  ASSUME TypeOK, Answered, NEW q \in Requests, NEW step \in Steps, step # "reply",
         Goto(q, step), UNCHANGED <<answer, told, calls, tried>>
  PROVE  Progress'
BY DEF TypeOK, Answered, Goto, Progress

LEMMA AnswerType ==
  ASSUME TypeOK, Answered, NEW q \in Requests, NEW c \in Contents,
         Answer(q, c), UNCHANGED <<told, calls, tried>>
  PROVE  Progress'
BY StepNames DEF TypeOK, Answered, Answer, Goto, Progress

LEMMA SendType ==
  ASSUME TypeOK, Answered, NEW q \in Requests, NEW c \in Contents,
         SendText(q, c), UNCHANGED <<calls, tried>>
  PROVE  Progress'
BY StepNames DEF TypeOK, Answered, SendText, Tell, Answer, Goto, Progress

LEMMA AbandonType ==
  ASSUME TypeOK, Answered, NEW q \in Requests, NEW b \in Backends, Abandon(q, b)
  PROVE  Progress'
BY StepNames DEF TypeOK, Answered, Abandon, Goto, Progress

LEMMA TypeStep == TypeOK /\ Answered /\ [Next]_vars => TypeOK' /\ Answered'
<1> SUFFICES ASSUME TypeOK, Answered, [Next]_vars PROVE TypeOK' /\ Answered'
  OBVIOUS
<1> USE ContentNames, SourceNames, StepNames, BackendNames
        DEF Goto, Tell, Answer, Streams, MayStream, Fails, reqVars, outVars, reasonVars,
            effectVars, ghostVars, restVars, Reasoning, Answered
<1>1. ASSUME NEW q \in Requests, Receive(q) PROVE TypeOK' /\ Answered'
  BY <1>1 DEF Receive, TypeOK
<1>2. ASSUME NEW q \in Requests, Expire(q) PROVE TypeOK' /\ Answered'
  BY <1>2 DEF Expire, TypeOK
<1>3. ASSUME NEW q \in Requests, Plan(q) PROVE TypeOK' /\ Answered'
  BY <1>3, ChainType DEF Plan, TypeOK
<1>4. ASSUME NEW q \in Requests, Ask(q) PROVE TypeOK' /\ Answered'
  BY <1>4 DEF Ask, TypeOK
<1>5. ASSUME NEW q \in Requests, GiveUp(q) PROVE TypeOK' /\ Answered'
  BY <1>5 DEF GiveUp, TypeOK
<1>6. ASSUME NEW q \in Requests, Reply(q) PROVE TypeOK' /\ Answered'
  BY <1>6 DEF Reply, TypeOK
<1>7. ASSUME NEW q \in Requests, StartStream(q) PROVE TypeOK' /\ Answered'
  BY <1>7 DEF StartStream, TypeOK
<1>8. ASSUME NEW q \in Requests, StreamReturns(q) PROVE TypeOK' /\ Answered'
  BY <1>8 DEF StreamReturns, TypeOK
<1>9. ASSUME NEW q \in Requests, TakeEvents(q) PROVE TypeOK' /\ Answered'
  <2>1. streamed' \in [Requests -> SUBSET Sources]
    BY <1>9, StreamedType, SourceNames DEF TakeEvents, MayStream
  <2>2. Progress'
    <3>1. CASE stream[q] = "error"
      <4>1. Goto(q, AfterReasoning(q)) /\ AfterReasoning(q) \in Steps \ {"reply"}
        BY <1>9, <3>1 DEF TakeEvents, AfterReasoning
      <4>2. pc' \in [Requests -> Steps] /\ pc'[q] # "reply"
            /\ \A p \in Requests \ {q} : pc'[p] = pc[p]
        BY <4>1 DEF TypeOK
      <4>3. tried' \in [Requests -> SUBSET Backends]
        <5>1. tried \in [Requests -> SUBSET Backends]
          BY DEF TypeOK
        <5>2. {pc[q]} \ {"think"} \subseteq Backends
          BY <1>9 DEF TakeEvents
        <5>3. tried' = [tried EXCEPT ![q] = @ \cup ({pc[q]} \ {"think"})]
          BY <1>9, <3>1 DEF TakeEvents
        <5> HIDE DEF Goto, Answered
        <5> QED
          BY <5>1, <5>2, <5>3
      <4> QED
        BY <1>9, <3>1, <4>2, <4>3 DEF TakeEvents, TypeOK, Progress
    <3>2. CASE stream[q] # "error"
      <4>1. stream[q] \in Contents
        BY <1>9, <3>2 DEF TakeEvents
      <4> QED
        BY <1>9, <3>2, <4>1, AnswerType DEF TakeEvents
    <3> QED
      BY <3>1, <3>2
  <2>3. stream' \in [Requests -> {"none", "started", "calls", "error", "partial", "reasoned"}]
        /\ cut' \in [Requests -> BOOLEAN]
    BY <1>9 DEF TakeEvents, TypeOK
  <2> QED
    BY <1>9, <2>1, <2>2, <2>3 DEF TakeEvents, TypeOK, Progress
<1>10. ASSUME NEW q \in Requests, Classify(q) PROVE TypeOK' /\ Answered'
  BY <1>10 DEF Classify, Intents, Levels, TypeOK
<1>11. ASSUME NEW q \in Requests, Offer(q) PROVE TypeOK' /\ Answered'
  BY <1>11 DEF Offer, TypeOK
<1>12. ASSUME NEW q \in Requests, OfferNothing(q) PROVE TypeOK' /\ Answered'
  BY <1>12 DEF OfferNothing, TypeOK
<1>13. ASSUME NEW q \in Requests, UseTool(q) PROVE TypeOK' /\ Answered'
  BY <1>13 DEF UseTool, TypeOK
<1>14. ASSUME NEW q \in Requests, AskWithTools(q) PROVE TypeOK' /\ Answered'
  <2>1. faults' \in 0..MaxFaults
    BY <1>14, FaultsType DEF AskWithTools
  <2>2. Progress'
    <3>1. CASE SendText(q, "text")
      BY <1>14, <3>1, SendType, ContentNames DEF AskWithTools
    <3>2. CASE Goto(q, "execute") /\ UNCHANGED <<answer, told>>
      BY <1>14, <3>2, GotoType, StepNames DEF AskWithTools
    <3>3. CASE Goto(q, "converse") /\ UNCHANGED <<answer, told>>
      BY <1>14, <3>3, GotoType, StepNames DEF AskWithTools
    <3> QED
      BY <1>14, <3>1, <3>2, <3>3 DEF AskWithTools
  <2> QED
    BY <1>14, <2>1, <2>2 DEF AskWithTools, TypeOK, Progress
<1>15. ASSUME NEW q \in Requests, ExecuteCalls(q) PROVE TypeOK' /\ Answered'
  BY <1>15 DEF ExecuteCalls, TypeOK
<1>16. ASSUME NEW q \in Requests, FollowUp(q) PROVE TypeOK' /\ Answered'
  <2>1. faults' \in 0..MaxFaults
    BY <1>16, FaultsType DEF FollowUp
  <2>2. streamed' \in [Requests -> SUBSET Sources]
    BY <1>16, StreamedType, SourceNames DEF FollowUp, MayStream
  <2>3. Progress'
    <3>1. CASE Answer(q, "followed") /\ UNCHANGED told
      BY <1>16, <3>1, AnswerType, ContentNames DEF FollowUp
    <3>2. CASE SendText(q, "stale")
      BY <1>16, <3>2, SendType, ContentNames DEF FollowUp
    <3>3. CASE WithoutResults(q) /\ UNCHANGED <<answer, told>>
      BY <1>16, <3>3, GotoType, StepNames DEF FollowUp, WithoutResults
    <3> QED
      BY <1>16, <3>1, <3>2, <3>3 DEF FollowUp
  <2> QED
    BY <1>16, <2>1, <2>2, <2>3 DEF FollowUp, TypeOK, Progress
<1>17. ASSUME NEW q \in Requests, Converse(q) PROVE TypeOK' /\ Answered'
  <2>1. faults' \in 0..MaxFaults
    BY <1>17, FaultsType DEF Converse
  <2>2. streamed' \in [Requests -> SUBSET Sources]
    BY <1>17, StreamedType, SourceNames DEF Converse, MayStream
  <2>3. Progress'
    <3>1. CASE Answer(q, "plain") /\ UNCHANGED <<told, calls, tried>>
      BY <3>1, AnswerType, ContentNames
    <3>2. CASE Abandon(q, IF pc[q] = "plain" THEN "plain" ELSE "tools")
      BY <3>2, AbandonType, BackendNames
    <3> QED
      BY <1>17, <3>1, <3>2 DEF Converse
  <2> QED
    BY <1>17, <2>1, <2>2, <2>3 DEF Converse, TypeOK, Progress
<1>18. ASSUME NEW q \in Requests, StartClaude(q) PROVE TypeOK' /\ Answered'
  <2>1. faults' \in 0..MaxFaults
    BY <1>18, FaultsType DEF StartClaude
  <2>2. Progress'
    <3>1. CASE Goto(q, "cli") /\ UNCHANGED <<answer, told, calls, tried>>
      BY <3>1, GotoType, StepNames
    <3>2. CASE Abandon(q, "claude")
      BY <3>2, AbandonType, BackendNames
    <3> QED
      BY <1>18, <3>1, <3>2 DEF StartClaude
  <2> QED
    BY <1>18, <2>1, <2>2 DEF StartClaude, TypeOK, Progress
<1>19. ASSUME NEW q \in Requests, EndClaude(q) PROVE TypeOK' /\ Answered'
  <2>1. faults' \in 0..MaxFaults
    BY <1>19, FaultsType DEF EndClaude
  <2>2. streamed' \in [Requests -> SUBSET Sources]
    BY <1>19, StreamedType, SourceNames DEF EndClaude
  <2>3. Progress'
    BY <1>19, AnswerType, ContentNames DEF EndClaude
  <2> QED
    BY <1>19, <2>1, <2>2, <2>3 DEF EndClaude, TypeOK, Progress
<1>20. ASSUME NEW q \in Requests, AskGemini(q) PROVE TypeOK' /\ Answered'
  <2>1. faults' \in 0..MaxFaults
    BY <1>20, FaultsType DEF AskGemini
  <2>2. streamed' \in [Requests -> SUBSET Sources]
    BY <1>20, StreamedType, SourceNames DEF AskGemini, MayStream
  <2>3. Progress'
    <3>1. CASE Abandon(q, "gemini")
      BY <3>1, AbandonType, BackendNames
    <3>2. CASE (Answer(q, "gemini") \/ Answer(q, "partial")) /\ UNCHANGED <<told, calls, tried>>
      BY <3>2, AnswerType, ContentNames
    <3> QED
      BY <1>20, <3>1, <3>2 DEF AskGemini
  <2> QED
    BY <1>20, <2>1, <2>2, <2>3 DEF AskGemini, TypeOK, Progress
<1>21. ASSUME NEW q \in Requests, Select(q) PROVE TypeOK' /\ Answered'
  <2>1. selects' \in [Requests -> Nat] /\ items' \in [Requests -> Nat]
        /\ saved' \in [Requests -> Nat]
    <3>1. selects \in [Requests -> Nat] /\ items \in [Requests -> Nat]
          /\ saved \in [Requests -> Nat]
      BY DEF TypeOK
    <3>2. selects[q] + 1 \in Nat /\ items[q] + 1 \in Nat /\ saved[q] + 1 \in Nat
      BY <3>1
    <3> QED
      BY <1>21, <3>1, <3>2 DEF Select
  <2> QED
    BY <1>21, <2>1 DEF Select, TypeOK
<1>22. ASSUME NEW q \in Requests, CallModel(q) PROVE TypeOK' /\ Answered'
  BY <1>22 DEF CallModel, TypeOK
<1>23. ASSUME NEW q \in Requests, ModelFails(q) PROVE TypeOK' /\ Answered'
  BY <1>23 DEF ModelFails, TypeOK
<1>24. ASSUME NEW q \in Requests, ModelAnswers(q) PROVE TypeOK' /\ Answered'
  BY <1>24 DEF ModelAnswers, TypeOK
<1>25. CASE UNCHANGED vars
  BY <1>25 DEF vars, TypeOK
<1> QED
  BY <1>1, <1>2, <1>3, <1>4, <1>5, <1>6, <1>7, <1>8, <1>9, <1>10, <1>11, <1>12, <1>13,
     <1>14, <1>15, <1>16, <1>17, <1>18, <1>19, <1>20, <1>21, <1>22, <1>23, <1>24, <1>25 DEF Next, Handle, Wait

\* Type correctness, for any requests and configurations.
THEOREM TypeCorrect == Spec => []TypeOK
<1> QED
  BY TypeInit, TypeStep, PTL DEF Spec
-------------------------------------------------------------------------------
(* One verdict.                                                            *)

\* While a request is handled nothing was told, but for an answer that was sent when
\* it came and that the handler is about to send again.
VerdictInv ==
  \A q \in Requests :
    /\ told[q] # {} => pc[q] \in {"reply", "done"}
    /\ pc[q] = "reply" => told[q] \subseteq {answer[q]}

Settled ==
  \A q \in Requests : told[q] # {} =>
    /\ told'[q] = told[q] /\ streamed'[q] = streamed[q]
    /\ "error" \in told[q] => kept'[q] = kept[q]

\* What the verdicts depend on.
Typed ==
  /\ pc \in [Requests -> Steps]
  /\ answer \in [Requests -> Contents \cup {"none"}]
  /\ told \in [Requests -> SUBSET (Contents \cup {"error"})]
  /\ streamed \in [Requests -> SUBSET Sources]
  /\ kept \in [Requests -> SUBSET {"user", "assistant"}]

LEMMA NoErrorContent == "error" \notin Contents
BY DEF Contents

LEMMA NotBackends ==
  "reply" \notin Backends /\ "done" \notin Backends
BY DEF Backends

LEMMA VerdictStep ==
  TypeOK /\ Answered /\ VerdictInv /\ [Next]_vars => VerdictInv' /\ Settled
<1> SUFFICES ASSUME TypeOK, Answered, VerdictInv, [Next]_vars PROVE VerdictInv' /\ Settled
  OBVIOUS
<1>0. Typed
  BY DEF TypeOK, Typed
<1> USE <1>0 DEF Typed, Goto, Tell, Answer, Streams, MayStream, reqVars, outVars, reasonVars,
            effectVars, ghostVars, restVars, Reasoning, VerdictInv, Settled
<1>1. ASSUME NEW q \in Requests, Receive(q) PROVE VerdictInv' /\ Settled
  BY <1>1 DEF Receive
<1>2. ASSUME NEW q \in Requests, Expire(q) PROVE VerdictInv' /\ Settled
  BY <1>2 DEF Expire
<1>3. ASSUME NEW q \in Requests, Plan(q) PROVE VerdictInv' /\ Settled
  BY <1>3 DEF Plan
<1>4. ASSUME NEW q \in Requests, Ask(q) PROVE VerdictInv' /\ Settled
  <2>1. Head(chain[q]) \in Backends
    BY <1>4 DEF Ask, TypeOK
  <2> QED
    BY <1>4, <2>1, NotBackends DEF Ask
<1>5. ASSUME NEW q \in Requests, GiveUp(q) PROVE VerdictInv' /\ Settled
  BY <1>5 DEF GiveUp
<1>6. ASSUME NEW q \in Requests, Reply(q) PROVE VerdictInv' /\ Settled
  BY <1>6, NoErrorContent DEF Reply, Answered
<1>7. ASSUME NEW q \in Requests, StartStream(q) PROVE VerdictInv' /\ Settled
  BY <1>7 DEF StartStream
<1>8. ASSUME NEW q \in Requests, StreamReturns(q) PROVE VerdictInv' /\ Settled
  BY <1>8 DEF StreamReturns
<1>9. ASSUME NEW q \in Requests, TakeEvents(q) PROVE VerdictInv' /\ Settled
  BY <1>9 DEF TakeEvents, AfterReasoning
<1>10. ASSUME NEW q \in Requests, Classify(q) PROVE VerdictInv' /\ Settled
  BY <1>10 DEF Classify
<1>11. ASSUME NEW q \in Requests, Offer(q) PROVE VerdictInv' /\ Settled
  BY <1>11 DEF Offer
<1>12. ASSUME NEW q \in Requests, OfferNothing(q) PROVE VerdictInv' /\ Settled
  BY <1>12 DEF OfferNothing
<1>13. ASSUME NEW q \in Requests, UseTool(q) PROVE VerdictInv' /\ Settled
  BY <1>13 DEF UseTool
<1>14. ASSUME NEW q \in Requests, AskWithTools(q) PROVE VerdictInv' /\ Settled
  BY <1>14 DEF AskWithTools, SendText
<1>15. ASSUME NEW q \in Requests, ExecuteCalls(q) PROVE VerdictInv' /\ Settled
  BY <1>15 DEF ExecuteCalls
<1>16. ASSUME NEW q \in Requests, FollowUp(q) PROVE VerdictInv' /\ Settled
  BY <1>16 DEF FollowUp, SendText, WithoutResults
<1>17. ASSUME NEW q \in Requests, Converse(q) PROVE VerdictInv' /\ Settled
  BY <1>17 DEF Converse, Abandon
<1>18. ASSUME NEW q \in Requests, StartClaude(q) PROVE VerdictInv' /\ Settled
  BY <1>18 DEF StartClaude, Abandon
<1>19. ASSUME NEW q \in Requests, EndClaude(q) PROVE VerdictInv' /\ Settled
  BY <1>19 DEF EndClaude
<1>20. ASSUME NEW q \in Requests, AskGemini(q) PROVE VerdictInv' /\ Settled
  BY <1>20 DEF AskGemini, Abandon
<1>21. ASSUME NEW q \in Requests, Select(q) PROVE VerdictInv' /\ Settled
  BY <1>21 DEF Select
<1>22. ASSUME NEW q \in Requests, CallModel(q) PROVE VerdictInv' /\ Settled
  BY <1>22 DEF CallModel
<1>23. ASSUME NEW q \in Requests, ModelFails(q) PROVE VerdictInv' /\ Settled
  BY <1>23 DEF ModelFails
<1>24. ASSUME NEW q \in Requests, ModelAnswers(q) PROVE VerdictInv' /\ Settled
  BY <1>24 DEF ModelAnswers
<1>25. CASE UNCHANGED vars
  BY <1>25 DEF vars
<1> QED
  BY <1>1, <1>2, <1>3, <1>4, <1>5, <1>6, <1>7, <1>8, <1>9, <1>10, <1>11, <1>12, <1>13,
     <1>14, <1>15, <1>16, <1>17, <1>18, <1>19, <1>20, <1>21, <1>22, <1>23, <1>24, <1>25 DEF Next, Handle, Wait

\* OneVerdict: after an answer or an error nothing else is told or streamed.
THEOREM OneVerdictHolds == Spec => OneVerdict
<1>1. Init => VerdictInv
  BY DEF Init, VerdictInv
<1>2. Settled => (\A q \in Requests : told[q] # {} =>
                    /\ told'[q] = told[q] /\ streamed'[q] = streamed[q]
                    /\ "error" \in told[q] => kept'[q] = kept[q])
  BY DEF Settled
<1> QED
  BY <1>1, <1>2, TypeInit, TypeStep, VerdictStep, PTL DEF Spec, OneVerdict
-------------------------------------------------------------------------------
(* Chains.                                                                 *)

Has(s, b) == \E i \in 1..Len(s) : s[i] = b

Once(s) == \A i, j \in 1..Len(s) : s[i] = "tools" /\ s[j] = "tools" => i = j

LEMMA WhenFacts ==
  ASSUME NEW c \in BOOLEAN, NEW b \in Backends
  PROVE  /\ When(c, b) \in Seq(Backends) /\ Once(When(c, b))
         /\ \A x : Has(When(c, b), x) <=> c /\ x = b
BY DEF When, Once, Has

LEMMA ConcatFacts ==
  ASSUME NEW s \in Seq(Backends), NEW t \in Seq(Backends)
  PROVE  /\ s \o t \in Seq(Backends)
         /\ \A x : Has(s \o t, x) <=> Has(s, x) \/ Has(t, x)
         /\ Once(s) /\ Once(t) /\ ~(Has(s, "tools") /\ Has(t, "tools")) => Once(s \o t)
<1>1. /\ s \o t \in Seq(Backends) /\ Len(s \o t) = Len(s) + Len(t)
      /\ Len(s) \in Nat /\ Len(t) \in Nat
  OBVIOUS
<1>2. \A i \in 1..Len(s) : (s \o t)[i] = s[i]
  OBVIOUS
<1>3. \A i \in 1..Len(t) : (s \o t)[Len(s) + i] = t[i]
  OBVIOUS
<1>4. \A i \in 1..Len(s \o t) : i \in 1..Len(s) \/ \E j \in 1..Len(t) : i = Len(s) + j
  <2> TAKE i \in 1..Len(s \o t)
  <2>1. CASE i <= Len(s)
    BY <1>1, <2>1
  <2>2. CASE i > Len(s)
    <3>1. i - Len(s) \in 1..Len(t) /\ i = Len(s) + (i - Len(s))
      BY <1>1, <2>2
    <3> QED
      BY <3>1
  <2> QED
    BY <1>1, <2>1, <2>2
<1>5. \A x : Has(s \o t, x) <=> Has(s, x) \/ Has(t, x)
  <2> TAKE x
  <2>1. Has(s, x) => Has(s \o t, x)
    BY <1>1, <1>2 DEF Has
  <2>2. ASSUME Has(t, x) PROVE Has(s \o t, x)
    <3>1. PICK i \in 1..Len(t) : t[i] = x
      BY <2>2 DEF Has
    <3>2. Len(s) + i \in 1..Len(s \o t) /\ (s \o t)[Len(s) + i] = x
      BY <1>1, <1>3, <3>1
    <3> QED
      BY <3>2 DEF Has
  <2>3. Has(s \o t, x) => Has(s, x) \/ Has(t, x)
    BY <1>2, <1>3, <1>4 DEF Has
  <2> QED
    BY <2>1, <2>2, <2>3
<1>6. ASSUME Once(s), Once(t), ~(Has(s, "tools") /\ Has(t, "tools")) PROVE Once(s \o t)
  <2> SUFFICES ASSUME NEW i \in 1..Len(s \o t), NEW j \in 1..Len(s \o t),
                      (s \o t)[i] = "tools", (s \o t)[j] = "tools"
               PROVE  i = j
    BY DEF Once
  <2>1. CASE i \in 1..Len(s) /\ j \in 1..Len(s)
    BY <1>2, <1>6, <2>1 DEF Once
  <2>2. CASE (\E k \in 1..Len(t) : i = Len(s) + k) /\ (\E k \in 1..Len(t) : j = Len(s) + k)
    BY <1>3, <1>6, <2>2 DEF Once
  <2>3. ~(i \in 1..Len(s) /\ \E k \in 1..Len(t) : j = Len(s) + k)
    BY <1>2, <1>3, <1>6 DEF Has
  <2>4. ~(j \in 1..Len(s) /\ \E k \in 1..Len(t) : i = Len(s) + k)
    BY <1>2, <1>3, <1>6 DEF Has
  <2> QED
    BY <1>4, <2>1, <2>2, <2>3, <2>4
<1> QED
  BY <1>1, <1>5, <1>6

\* A backend is in the chain exactly if it may be asked, and once.
Allowed(l, h, b) ==
  CASE b = "reasoning" -> setup.reason /\ l \in {"tier4", "reasoning"}
    [] b = "tools" -> setup.mcp /\ h /\ l \notin {"tier2", "tier3", "tier4"}
    [] b = "plain" -> h /\ l = "tier1"
    [] b = "claude" -> setup.claude /\ l \notin {"simple", "tier1"}
    [] b = "gemini" -> setup.gemini /\ l # "simple"

LEMMA ChainFacts ==
  ASSUME setup \in SetupType, NEW l \in Levels, NEW h \in BOOLEAN
  PROVE  /\ Chain(l, h) \in Seq(Backends) /\ Once(Chain(l, h))
         /\ \A b \in Backends : Allowed(l, h, b) => Has(Chain(l, h), b)
<1>0. /\ setup.mcp \in BOOLEAN /\ setup.reason \in BOOLEAN /\ setup.semantic \in BOOLEAN
      /\ setup.claude \in BOOLEAN /\ setup.gemini \in BOOLEAN
  BY DEF SetupType
<1> DEFINE r == When(l = "reasoning" /\ setup.reason, "reasoning")
           r4 == When(setup.reason, "reasoning")
           t == When(h /\ setup.mcp, "tools")
           p == When(h, "plain")
           c == When(setup.claude, "claude")
           cl == When(l # "simple" /\ setup.claude, "claude")
           g == When(setup.gemini, "gemini")
           gl == When(l # "simple" /\ setup.gemini, "gemini")
<1>1. /\ r \in Seq(Backends) /\ Once(r)
      /\ \A x : Has(r, x) <=> (l = "reasoning" /\ setup.reason) /\ x = "reasoning"
  BY <1>0, WhenFacts, BackendNames
<1>2. r4 \in Seq(Backends) /\ Once(r4) /\ \A x : Has(r4, x) <=> setup.reason /\ x = "reasoning"
  BY <1>0, WhenFacts, BackendNames
<1>3. t \in Seq(Backends) /\ Once(t) /\ \A x : Has(t, x) <=> (h /\ setup.mcp) /\ x = "tools"
  BY <1>0, WhenFacts, BackendNames
<1>4. p \in Seq(Backends) /\ Once(p) /\ \A x : Has(p, x) <=> h /\ x = "plain"
  BY <1>0, WhenFacts, BackendNames
<1>5. c \in Seq(Backends) /\ Once(c) /\ \A x : Has(c, x) <=> setup.claude /\ x = "claude"
  BY <1>0, WhenFacts, BackendNames
<1>6. /\ cl \in Seq(Backends) /\ Once(cl)
      /\ \A x : Has(cl, x) <=> (l # "simple" /\ setup.claude) /\ x = "claude"
  BY <1>0, WhenFacts, BackendNames
<1>7. g \in Seq(Backends) /\ Once(g) /\ \A x : Has(g, x) <=> setup.gemini /\ x = "gemini"
  BY <1>0, WhenFacts, BackendNames
<1>8. /\ gl \in Seq(Backends) /\ Once(gl)
      /\ \A x : Has(gl, x) <=> (l # "simple" /\ setup.gemini) /\ x = "gemini"
  BY <1>0, WhenFacts, BackendNames
<1> DEFINE rc == r4 \o c
           tp == t \o p
           rt == r \o t
           rtc == rt \o cl
<1> HIDE DEF r, r4, t, p, c, cl, g, gl
<1>9. CASE setup.semantic /\ l = "tier4"
  <2>1. Chain(l, h) = rc \o g
    BY <1>9 DEF Chain, TierChain, r4, c, g
  <2>2. /\ rc \in Seq(Backends) /\ Once(rc)
        /\ \A x : Has(rc, x) <=> Has(r4, x) \/ Has(c, x)
    BY <1>2, <1>5, ConcatFacts
  <2>3. /\ Chain(l, h) \in Seq(Backends) /\ Once(Chain(l, h))
        /\ \A x : Has(Chain(l, h), x) <=> Has(rc, x) \/ Has(g, x)
    <3> HIDE DEF rc
    <3> QED
      BY <1>2, <1>5, <1>7, <2>1, <2>2, ConcatFacts
  <2> QED
    BY <1>2, <1>5, <1>7, <1>9, <2>2, <2>3 DEF Allowed, Backends
<1>10. CASE setup.semantic /\ l \in {"tier2", "tier3"}
  <2>1. Chain(l, h) = c \o g
    BY <1>10 DEF Chain, TierChain, c, g
  <2>2. /\ Chain(l, h) \in Seq(Backends) /\ Once(Chain(l, h))
        /\ \A x : Has(Chain(l, h), x) <=> Has(c, x) \/ Has(g, x)
    BY <1>5, <1>7, <2>1, ConcatFacts
  <2> QED
    BY <1>5, <1>7, <1>10, <2>2 DEF Allowed, Backends
<1>11. CASE setup.semantic /\ l = "tier1"
  <2>1. Chain(l, h) = tp \o g
    BY <1>11 DEF Chain, TierChain, t, p, g
  <2>2. /\ tp \in Seq(Backends) /\ Once(tp)
        /\ \A x : Has(tp, x) <=> Has(t, x) \/ Has(p, x)
    BY <1>3, <1>4, ConcatFacts
  <2>3. /\ Chain(l, h) \in Seq(Backends) /\ Once(Chain(l, h))
        /\ \A x : Has(Chain(l, h), x) <=> Has(tp, x) \/ Has(g, x)
    <3> HIDE DEF tp
    <3> QED
      BY <1>3, <1>4, <1>7, <2>1, <2>2, ConcatFacts
  <2> QED
    BY <1>3, <1>4, <1>7, <1>11, <2>2, <2>3 DEF Allowed, Backends
<1>12. CASE ~setup.semantic
  <2>1. Chain(l, h) = rtc \o gl
    BY <1>12 DEF Chain, LegacyChain, r, t, cl, gl
  <2>2. /\ rt \in Seq(Backends) /\ Once(rt)
        /\ \A x : Has(rt, x) <=> Has(r, x) \/ Has(t, x)
    BY <1>1, <1>3, ConcatFacts
  <2>3. /\ rtc \in Seq(Backends) /\ Once(rtc)
        /\ \A x : Has(rtc, x) <=> Has(rt, x) \/ Has(cl, x)
    <3> HIDE DEF rt
    <3> QED
      BY <1>1, <1>3, <1>6, <2>2, ConcatFacts
  <2>4. /\ Chain(l, h) \in Seq(Backends) /\ Once(Chain(l, h))
        /\ \A x : Has(Chain(l, h), x) <=> Has(rtc, x) \/ Has(gl, x)
    <3>1. ~Has(gl, "tools")
      BY <1>8
    <3> HIDE DEF rtc
    <3> QED
      BY <1>8, <2>1, <2>3, <3>1, ConcatFacts
  <2> QED
    BY <1>1, <1>3, <1>6, <1>8, <1>12, <2>2, <2>3, <2>4 DEF Allowed, Backends, Levels
<1> QED
  BY <1>0, <1>9, <1>10, <1>11, <1>12 DEF Levels

-------------------------------------------------------------------------------
(* Effects.                                                                *)

\* Before there is a chain.
Early == {"idle", "think", "classify", "create", "tool", "plan"}

\* While tools may still be asked, or are, nothing was executed; and then they are not
\* asked again.
EffectsInv ==
  \A q \in Requests :
    /\ pc[q] \in Early \cup {"tools", "execute"} => calls[q] = 0
    /\ calls[q] # 0 \/ pc[q] \in {"tools", "execute", "follow", "converse"} =>
         ~Has(chain[q], "tools")
    /\ Once(chain[q])
    /\ calls[q] <= 1
    /\ items[q] <= selects[q] /\ saved[q] <= items[q]

\* What the effects depend on.
EffectsTyped ==
  /\ pc \in [Requests -> Steps]
  /\ chain \in [Requests -> Seq(Backends)]
  /\ calls \in [Requests -> Nat]
  /\ selects \in [Requests -> Nat] /\ items \in [Requests -> Nat]
  /\ saved \in [Requests -> Nat]

\* The next backend, and what is left of the chain.
LEMMA TailFacts ==
  ASSUME NEW s \in Seq(Backends), s # <<>>
  PROVE  /\ Head(s) \in Backends /\ Tail(s) \in Seq(Backends)
         /\ Has(s, Head(s))
         /\ \A x : Has(s, x) <=> x = Head(s) \/ Has(Tail(s), x)
         /\ Once(s) => Once(Tail(s))
         /\ Once(s) /\ Head(s) = "tools" => ~Has(Tail(s), "tools")
<1>1. /\ Len(s) \in Nat \ {0} /\ Len(Tail(s)) = Len(s) - 1 /\ Head(s) = s[1]
      /\ Head(s) \in Backends /\ Tail(s) \in Seq(Backends)
  OBVIOUS
<1>2. \A i \in 1..Len(Tail(s)) : Tail(s)[i] = s[i + 1]
  OBVIOUS
<1>3. \A i \in 1..Len(s) : i = 1 \/ i - 1 \in 1..Len(Tail(s))
  BY <1>1
<1>4. \A i \in 1..Len(Tail(s)) : i + 1 \in 1..Len(s) /\ i + 1 # 1 /\ (i + 1) - 1 = i
  BY <1>1
<1>5. Has(s, Head(s))
  BY <1>1 DEF Has
<1>6. \A x : Has(s, x) <=> x = Head(s) \/ Has(Tail(s), x)
  <2> TAKE x
  <2>1. Has(Tail(s), x) => Has(s, x)
    BY <1>2, <1>4 DEF Has
  <2>2. ASSUME Has(s, x), x # Head(s) PROVE Has(Tail(s), x)
    <3>1. PICK i \in 1..Len(s) : s[i] = x
      BY <2>2 DEF Has
    <3>2. i - 1 \in 1..Len(Tail(s)) /\ Tail(s)[i - 1] = x
      BY <1>1, <1>2, <1>3, <2>2, <3>1
    <3> QED
      BY <3>2 DEF Has
  <2> QED
    BY <1>5, <2>1, <2>2
<1>7. Once(s) => Once(Tail(s))
  BY <1>1, <1>2, <1>4 DEF Once
<1>8. Once(s) /\ Head(s) = "tools" => ~Has(Tail(s), "tools")
  BY <1>1, <1>2, <1>4 DEF Once, Has
<1> QED
  BY <1>1, <1>5, <1>6, <1>7, <1>8

\* A request that is being routed has one of the levels of its configuration.
Routed ==
  \A q \in Requests :
    pc[q] \notin {"idle", "think", "classify", "reply", "done"} => level[q] \in Levels

LEMMA RoutedStep == TypeOK /\ Routed /\ [Next]_vars => Routed'
<1> SUFFICES ASSUME TypeOK, Routed, [Next]_vars PROVE Routed'
  OBVIOUS
<1>0. /\ pc \in [Requests -> Steps] /\ setup' = setup
      /\ DOMAIN level = Requests
  <2>1. setup' = setup
    BY ZenonT(60) DEF Next, vars, Receive, Expire, Handle, Wait, Select, CallModel, ModelFails,
       ModelAnswers, Plan, Ask, GiveUp, Reply, StartStream, StreamReturns, TakeEvents, Classify,
       Offer, OfferNothing, UseTool, AskWithTools, ExecuteCalls, FollowUp, Converse, StartClaude,
       EndClaude, AskGemini, restVars
  <2> QED
    BY <2>1 DEF TypeOK
<1>a. Levels' = Levels
  BY <1>0 DEF Levels
<1> USE <1>0, <1>a DEF Goto, Tell, Answer, Streams, MayStream, reqVars, outVars, reasonVars,
            effectVars, ghostVars, restVars, Reasoning, Routed
<1>1. ASSUME NEW q \in Requests, Receive(q) PROVE Routed'
  BY <1>1 DEF Receive
<1>2. ASSUME NEW q \in Requests, Expire(q) PROVE Routed'
  BY <1>2 DEF Expire
<1>3. ASSUME NEW q \in Requests, Plan(q) PROVE Routed'
  BY <1>3 DEF Plan
<1>4. ASSUME NEW q \in Requests, Ask(q) PROVE Routed'
  BY <1>4 DEF Ask
<1>5. ASSUME NEW q \in Requests, GiveUp(q) PROVE Routed'
  BY <1>5 DEF GiveUp
<1>6. ASSUME NEW q \in Requests, Reply(q) PROVE Routed'
  BY <1>6 DEF Reply
<1>7. ASSUME NEW q \in Requests, StartStream(q) PROVE Routed'
  BY <1>7 DEF StartStream
<1>8. ASSUME NEW q \in Requests, StreamReturns(q) PROVE Routed'
  BY <1>8 DEF StreamReturns
<1>9. ASSUME NEW q \in Requests, TakeEvents(q) PROVE Routed'
  BY <1>9 DEF TakeEvents, AfterReasoning
<1>10. ASSUME NEW q \in Requests, Classify(q) PROVE Routed'
  BY <1>10 DEF Classify, TypeOK
<1>11. ASSUME NEW q \in Requests, Offer(q) PROVE Routed'
  BY <1>11 DEF Offer
<1>12. ASSUME NEW q \in Requests, OfferNothing(q) PROVE Routed'
  BY <1>12 DEF OfferNothing
<1>13. ASSUME NEW q \in Requests, UseTool(q) PROVE Routed'
  BY <1>13 DEF UseTool
<1>14. ASSUME NEW q \in Requests, AskWithTools(q) PROVE Routed'
  BY <1>14 DEF AskWithTools, SendText
<1>15. ASSUME NEW q \in Requests, ExecuteCalls(q) PROVE Routed'
  BY <1>15 DEF ExecuteCalls
<1>16. ASSUME NEW q \in Requests, FollowUp(q) PROVE Routed'
  BY <1>16 DEF FollowUp, SendText, WithoutResults
<1>17. ASSUME NEW q \in Requests, Converse(q) PROVE Routed'
  BY <1>17 DEF Converse, Abandon
<1>18. ASSUME NEW q \in Requests, StartClaude(q) PROVE Routed'
  BY <1>18 DEF StartClaude, Abandon
<1>19. ASSUME NEW q \in Requests, EndClaude(q) PROVE Routed'
  BY <1>19 DEF EndClaude
<1>20. ASSUME NEW q \in Requests, AskGemini(q) PROVE Routed'
  BY <1>20 DEF AskGemini, Abandon
<1>21. ASSUME NEW q \in Requests, Select(q) PROVE Routed'
  BY <1>21 DEF Select
<1>22. ASSUME NEW q \in Requests, CallModel(q) PROVE Routed'
  BY <1>22 DEF CallModel
<1>23. ASSUME NEW q \in Requests, ModelFails(q) PROVE Routed'
  BY <1>23 DEF ModelFails
<1>24. ASSUME NEW q \in Requests, ModelAnswers(q) PROVE Routed'
  BY <1>24 DEF ModelAnswers
<1>25. CASE UNCHANGED vars
  BY <1>25 DEF vars
<1> QED
  BY <1>1, <1>2, <1>3, <1>4, <1>5, <1>6, <1>7, <1>8, <1>9, <1>10, <1>11, <1>12, <1>13,
     <1>14, <1>15, <1>16, <1>17, <1>18, <1>19, <1>20, <1>21, <1>22, <1>23, <1>24, <1>25 DEF Next, Handle, Wait

LEMMA EffectsStep ==
  TypeOK /\ Routed /\ EffectsInv /\ [Next]_vars => EffectsInv'
<1> SUFFICES ASSUME TypeOK, Routed, EffectsInv, [Next]_vars PROVE EffectsInv'
  OBVIOUS
<1>0. EffectsTyped
  BY DEF TypeOK, EffectsTyped
<1> USE <1>0 DEF EffectsTyped, Goto, Tell, Answer, Streams, MayStream, reqVars, outVars,
            reasonVars, effectVars, ghostVars, restVars, Reasoning, EffectsInv, Early
<1>1. ASSUME NEW q \in Requests, Receive(q) PROVE EffectsInv'
  BY <1>1 DEF Receive
<1>2. ASSUME NEW q \in Requests, Expire(q) PROVE EffectsInv'
  BY <1>2 DEF Expire
<1>3. ASSUME NEW q \in Requests, Plan(q) PROVE EffectsInv'
  <2>1. PICK h \in BOOLEAN : chain' = [chain EXCEPT ![q] = Chain(level[q], h)]
    BY <1>3 DEF Plan
  <2>2. setup \in SetupType /\ level[q] \in Levels
    BY <1>3 DEF Plan, TypeOK, Routed
  <2>3. Once(Chain(level[q], h))
    BY <2>2, ChainFacts
  <2> QED
    BY <1>3, <2>1, <2>3 DEF Plan
<1>4. ASSUME NEW q \in Requests, Ask(q) PROVE EffectsInv'
  <2>1. chain[q] \in Seq(Backends) /\ chain[q] # <<>>
    BY <1>4 DEF Ask
  <2> QED
    BY <1>4, <2>1, TailFacts DEF Ask, Backends
<1>5. ASSUME NEW q \in Requests, GiveUp(q) PROVE EffectsInv'
  BY <1>5 DEF GiveUp
<1>6. ASSUME NEW q \in Requests, Reply(q) PROVE EffectsInv'
  BY <1>6 DEF Reply
<1>7. ASSUME NEW q \in Requests, StartStream(q) PROVE EffectsInv'
  BY <1>7 DEF StartStream
<1>8. ASSUME NEW q \in Requests, StreamReturns(q) PROVE EffectsInv'
  BY <1>8 DEF StreamReturns
<1>9. ASSUME NEW q \in Requests, TakeEvents(q) PROVE EffectsInv'
  BY <1>9 DEF TakeEvents, AfterReasoning
<1>10. ASSUME NEW q \in Requests, Classify(q) PROVE EffectsInv'
  BY <1>10 DEF Classify
<1>11. ASSUME NEW q \in Requests, Offer(q) PROVE EffectsInv'
  BY <1>11 DEF Offer
<1>12. ASSUME NEW q \in Requests, OfferNothing(q) PROVE EffectsInv'
  BY <1>12 DEF OfferNothing
<1>13. ASSUME NEW q \in Requests, UseTool(q) PROVE EffectsInv'
  BY <1>13 DEF UseTool
<1>14. ASSUME NEW q \in Requests, AskWithTools(q) PROVE EffectsInv'
  BY <1>14 DEF AskWithTools, SendText
<1>15. ASSUME NEW q \in Requests, ExecuteCalls(q) PROVE EffectsInv'
  BY <1>15 DEF ExecuteCalls
<1>16. ASSUME NEW q \in Requests, FollowUp(q) PROVE EffectsInv'
  BY <1>16 DEF FollowUp, SendText, WithoutResults
<1>17. ASSUME NEW q \in Requests, Converse(q) PROVE EffectsInv'
  BY <1>17 DEF Converse, Abandon
<1>18. ASSUME NEW q \in Requests, StartClaude(q) PROVE EffectsInv'
  BY <1>18 DEF StartClaude, Abandon
<1>19. ASSUME NEW q \in Requests, EndClaude(q) PROVE EffectsInv'
  BY <1>19 DEF EndClaude
<1>20. ASSUME NEW q \in Requests, AskGemini(q) PROVE EffectsInv'
  BY <1>20 DEF AskGemini, Abandon
<1>21. ASSUME NEW q \in Requests, Select(q) PROVE EffectsInv'
  BY <1>21, SMTT(30) DEF Select
<1>22. ASSUME NEW q \in Requests, CallModel(q) PROVE EffectsInv'
  BY <1>22 DEF CallModel
<1>23. ASSUME NEW q \in Requests, ModelFails(q) PROVE EffectsInv'
  BY <1>23 DEF ModelFails
<1>24. ASSUME NEW q \in Requests, ModelAnswers(q) PROVE EffectsInv'
  BY <1>24 DEF ModelAnswers
<1>25. CASE UNCHANGED vars
  BY <1>25 DEF vars
<1> QED
  BY <1>1, <1>2, <1>3, <1>4, <1>5, <1>6, <1>7, <1>8, <1>9, <1>10, <1>11, <1>12, <1>13,
     <1>14, <1>15, <1>16, <1>17, <1>18, <1>19, <1>20, <1>21, <1>22, <1>23, <1>24, <1>25 DEF Next, Handle, Wait

\* EffectsOnce: the tool calls of a model are executed once, whatever fails then; a
\* selection creates one item at most; an item that was announced exists.
THEOREM EffectsOnceHolds == Spec => []EffectsOnce
<1>1. Init => EffectsInv /\ Routed
  BY DEF Init, EffectsInv, Routed, Once, Has
<1>2. EffectsInv => EffectsOnce
  BY DEF EffectsInv, EffectsOnce
<1> QED
  BY <1>1, <1>2, TypeInit, TypeStep, RoutedStep, EffectsStep, PTL DEF Spec
-------------------------------------------------------------------------------
(* Errors.                                                                 *)

\* The backend a step belongs to.
Asked(step) ==
  CASE step \in {"execute", "follow", "converse"} -> "tools"
    [] step = "cli" -> "claude"
    [] OTHER -> step

\* Until there is an answer, each backend that can answer was tried, is being asked, or
\* is still in the chain.
Reachable(q) ==
  \A b \in Backends : CanAnswer(q, b) =>
    b \in tried[q] \/ b = Asked(pc[q]) \/ Has(chain[q], b)

Quiet == Early \cup {"reply", "done"}

Fallback(q) ==
  /\ pc[q] \notin Quiet => Reachable(q)
  /\ "error" \in told[q] =>
       pc[q] = "done" /\ \A b \in Backends : CanAnswer(q, b) => b \in tried[q]

FallbackInv == \A q \in Requests : Fallback(q)

\* What the invariant depends on, unchanged for a request.
Same(q) ==
  /\ pc'[q] = pc[q] /\ told'[q] = told[q] /\ chain'[q] = chain[q] /\ tried'[q] = tried[q]
  /\ level'[q] = level[q] /\ local'[q] = local[q]

LEMMA Frame ==
  ASSUME FallbackInv, setup' = setup, NEW q \in Requests,
         \A p \in Requests \ {q} : Same(p), Fallback(q)'
  PROVE  FallbackInv'
<1> SUFFICES ASSUME NEW p \in Requests, p # q PROVE Fallback(p)'
  BY DEF FallbackInv
<1>1. Fallback(p) /\ Same(p)
  BY DEF FallbackInv
<1>2. \A b : CanAnswer(p, b)' <=> CanAnswer(p, b)
  BY <1>1 DEF Same, CanAnswer
<1> QED
  BY <1>1, <1>2 DEF Same, Fallback, Reachable

\* A step that ends the search, or comes before it.
LEMMA Rests ==
  ASSUME NEW q \in Requests, pc'[q] \in Quiet, "error" \notin told'[q]
  PROVE  Fallback(q)'
BY DEF Fallback

\* A step of a backend: it goes on, or it is abandoned as tried.
LEMMA Advance ==
  ASSUME setup' = setup, NEW q \in Requests, Reachable(q),
         level'[q] = level[q], local'[q] = local[q], chain'[q] = chain[q],
         tried[q] \subseteq tried'[q], "error" \notin told'[q],
         Asked(pc'[q]) = Asked(pc[q]) \/ Asked(pc[q]) \in tried'[q]
  PROVE  Fallback(q)'
<1>1. \A b : CanAnswer(q, b)' <=> CanAnswer(q, b)
  BY DEF CanAnswer
<1> QED
  BY <1>1 DEF Fallback, Reachable

FallbackTyped ==
  /\ pc \in [Requests -> Steps]
  /\ level \in [Requests -> {"none", "simple", "complex", "reasoning",
                             "tier1", "tier2", "tier3", "tier4"}]
  /\ chain \in [Requests -> Seq(Backends)]
  /\ told \in [Requests -> SUBSET (Contents \cup {"error"})]
  /\ tried \in [Requests -> SUBSET Backends]
  /\ local \in [Requests -> BOOLEAN]

LEMMA FallbackStep ==
  TypeOK /\ Answered /\ Routed /\ FallbackInv /\ [Next]_vars => FallbackInv'
<1> SUFFICES ASSUME TypeOK, Answered, Routed, FallbackInv, [Next]_vars PROVE FallbackInv'
  OBVIOUS
<1>0. FallbackTyped
  BY DEF TypeOK, FallbackTyped
<1>a. \A q \in Requests : /\ pc[q] # "done" => "error" \notin told[q]
                          /\ pc[q] \notin Quiet => Reachable(q)
  BY DEF FallbackInv, Fallback
<1> USE <1>0 DEF FallbackTyped, Goto, Tell, Answer, Streams, MayStream, reqVars, outVars,
            reasonVars, effectVars, ghostVars, restVars, Reasoning
<1>1. ASSUME NEW q \in Requests, Receive(q) PROVE FallbackInv'
  <2>0. setup' = setup
    BY <1>1 DEF Receive
  <2>1. \A p \in Requests \ {q} : Same(p)
    BY <1>1 DEF Receive, Same
  <2>2. Fallback(q)'
    BY <1>1, <1>a, Rests DEF Receive, Quiet, Early
  <2> QED
    BY <2>0, <2>1, <2>2, Frame
<1>2. ASSUME NEW q \in Requests, Expire(q) PROVE FallbackInv'
  <2>0. setup' = setup
    BY <1>2 DEF Expire
  <2>1. \A p \in Requests : Same(p)
    BY <1>2 DEF Expire, Same
  <2>2. Fallback(q)'
    <3>1. \A b : CanAnswer(q, b)' <=> CanAnswer(q, b)
      BY <2>0, <2>1 DEF Same, CanAnswer
    <3> QED
      BY <2>1, <3>1 DEF FallbackInv, Fallback, Reachable, Same
  <2> QED
    BY <2>0, <2>1, <2>2, Frame
<1>3. ASSUME NEW q \in Requests, Plan(q) PROVE FallbackInv'
  <2>0. setup' = setup
    BY <1>3 DEF Plan
  <2>1. \A p \in Requests \ {q} : Same(p)
    BY <1>3 DEF Plan, Same
  <2>2. Fallback(q)'
    <3>1. PICK h \in BOOLEAN : /\ chain' = [chain EXCEPT ![q] = Chain(level[q], h)]
                               /\ local' = [local EXCEPT ![q] = h]
      BY <1>3 DEF Plan
    <3>2. setup \in SetupType /\ level[q] \in Levels
      BY <1>3 DEF Plan, TypeOK, Routed
    <3>3. \A b \in Backends : Allowed(level[q], h, b) => Has(Chain(level[q], h), b)
      BY <3>2, ChainFacts
    <3>4. \A b \in Backends : CanAnswer(q, b)' <=> Allowed(level[q], h, b)
      BY <1>3, <3>1 DEF Plan, CanAnswer, Allowed
    <3>5. chain'[q] = Chain(level[q], h) /\ "error" \notin told'[q]
      BY <1>3, <3>1, <1>a DEF Plan
    <3> QED
      BY <3>3, <3>4, <3>5 DEF Fallback, Reachable
  <2> QED
    BY <2>0, <2>1, <2>2, Frame
<1>4. ASSUME NEW q \in Requests, Ask(q) PROVE FallbackInv'
  <2>0. setup' = setup
    BY <1>4 DEF Ask
  <2>1. \A p \in Requests \ {q} : Same(p)
    BY <1>4 DEF Ask, Same
  <2>2. Fallback(q)'
    <3>1. chain[q] \in Seq(Backends) /\ chain[q] # <<>> /\ Reachable(q)
      BY <1>4, <1>a DEF Ask, Quiet, Early
    <3>2. /\ pc'[q] = Head(chain[q]) /\ chain'[q] = Tail(chain[q]) /\ tried'[q] = tried[q]
          /\ "error" \notin told'[q] /\ level' = level /\ local' = local /\ setup' = setup
      BY <1>4, <1>a DEF Ask
    <3>3. \A x : Has(chain[q], x) <=> x = pc'[q] \/ Has(chain'[q], x)
      BY <3>1, <3>2, TailFacts
    <3>4. Asked(pc'[q]) = pc'[q] /\ Asked(pc[q]) \notin Backends
      BY <1>4, <3>1, <3>2, TailFacts DEF Ask, Asked, Backends
    <3>5. \A b : CanAnswer(q, b)' <=> CanAnswer(q, b)
      BY <3>2 DEF CanAnswer
    <3> QED
      BY <3>1, <3>2, <3>3, <3>4, <3>5 DEF Fallback, Reachable
  <2> QED
    BY <2>0, <2>1, <2>2, Frame
<1>5. ASSUME NEW q \in Requests, GiveUp(q) PROVE FallbackInv'
  <2>0. setup' = setup
    BY <1>5 DEF GiveUp
  <2>1. \A p \in Requests \ {q} : Same(p)
    BY <1>5 DEF GiveUp, Same
  <2>2. Fallback(q)'
    <3>1. \A b : ~Has(chain[q], b)
      BY <1>5 DEF GiveUp, Has
    <3>2. Reachable(q) /\ Asked(pc[q]) \notin Backends
      BY <1>5, <1>a DEF GiveUp, Quiet, Early, Asked, Backends
    <3>3. pc'[q] = "done" /\ tried'[q] = tried[q]
      BY <1>5 DEF GiveUp
    <3>4. \A b : CanAnswer(q, b)' <=> CanAnswer(q, b)
      BY <1>5 DEF GiveUp, CanAnswer
    <3> QED
      BY <3>1, <3>2, <3>3, <3>4 DEF Fallback, Reachable, Quiet
  <2> QED
    BY <2>0, <2>1, <2>2, Frame
<1>6. ASSUME NEW q \in Requests, Reply(q) PROVE FallbackInv'
  <2>0. setup' = setup
    BY <1>6 DEF Reply
  <2>1. \A p \in Requests \ {q} : Same(p)
    BY <1>6 DEF Reply, Same
  <2>2. Fallback(q)'
    <3>1. pc'[q] = "done" /\ told'[q] = told[q] \cup {answer[q]}
      BY <1>6 DEF Reply
    <3>2. "error" \notin told[q] /\ answer[q] # "error"
      BY <1>6, <1>a, NoErrorContent DEF Reply, Answered
    <3> QED
      BY <3>1, <3>2, Rests DEF Quiet
  <2> QED
    BY <2>0, <2>1, <2>2, Frame
<1>7. ASSUME NEW q \in Requests, StartStream(q) PROVE FallbackInv'
  <2>0. setup' = setup
    BY <1>7 DEF StartStream
  <2>1. \A p \in Requests : Same(p)
    BY <1>7 DEF StartStream, Same
  <2>2. Fallback(q)'
    <3>1. \A b : CanAnswer(q, b)' <=> CanAnswer(q, b)
      BY <2>0, <2>1 DEF Same, CanAnswer
    <3> QED
      BY <2>1, <3>1 DEF FallbackInv, Fallback, Reachable, Same
  <2> QED
    BY <2>0, <2>1, <2>2, Frame
<1>8. ASSUME NEW q \in Requests, StreamReturns(q) PROVE FallbackInv'
  <2>0. setup' = setup
    BY <1>8 DEF StreamReturns
  <2>1. \A p \in Requests : Same(p)
    BY <1>8 DEF StreamReturns, Same
  <2>2. Fallback(q)'
    <3>1. \A b : CanAnswer(q, b)' <=> CanAnswer(q, b)
      BY <2>0, <2>1 DEF Same, CanAnswer
    <3> QED
      BY <2>1, <3>1 DEF FallbackInv, Fallback, Reachable, Same
  <2> QED
    BY <2>0, <2>1, <2>2, Frame
<1>9. ASSUME NEW q \in Requests, TakeEvents(q) PROVE FallbackInv'
  <2>0. setup' = setup
    BY <1>9 DEF TakeEvents
  <2>1. \A p \in Requests \ {q} : Same(p)
    BY <1>9 DEF TakeEvents, AfterReasoning, Same
  <2>2. Fallback(q)'
    <3>1. "error" \notin told'[q] /\ (pc[q] = "reasoning" => Reachable(q))
      BY <1>9, <1>a DEF TakeEvents, Quiet, Early
    <3>2. CASE stream[q] # "error" \/ pc[q] = "think"
      <4>1. pc'[q] \in {"reply", "classify"}
        BY <1>9, <3>2 DEF TakeEvents, AfterReasoning
      <4> QED
        BY <3>1, <4>1, Rests DEF Quiet, Early
    <3>3. CASE stream[q] = "error" /\ pc[q] = "reasoning"
      <4>1. tried'[q] = tried[q] \cup {"reasoning"} /\ Asked(pc[q]) = "reasoning"
        BY <1>9, <3>3 DEF TakeEvents, Asked
      <4>2. level'[q] = level[q] /\ local'[q] = local[q] /\ chain'[q] = chain[q]
        BY <1>9 DEF TakeEvents
      <4> QED
        BY <2>0, <3>1, <3>3, <4>1, <4>2, Advance
    <3> QED
      BY <1>9, <3>2, <3>3 DEF TakeEvents
  <2> QED
    BY <2>0, <2>1, <2>2, Frame
<1>10. ASSUME NEW q \in Requests, Classify(q) PROVE FallbackInv'
  <2>0. setup' = setup
    BY <1>10 DEF Classify
  <2>1. \A p \in Requests \ {q} : Same(p)
    BY <1>10 DEF Classify, Same
  <2>2. Fallback(q)'
    BY <1>10, <1>a, Rests DEF Classify, Quiet, Early
  <2> QED
    BY <2>0, <2>1, <2>2, Frame
<1>11. ASSUME NEW q \in Requests, Offer(q) PROVE FallbackInv'
  <2>0. setup' = setup
    BY <1>11 DEF Offer
  <2>1. \A p \in Requests \ {q} : Same(p)
    BY <1>11 DEF Offer, Same
  <2>2. Fallback(q)'
    BY <1>11, <1>a, Rests DEF Offer, Quiet, Early
  <2> QED
    BY <2>0, <2>1, <2>2, Frame
<1>12. ASSUME NEW q \in Requests, OfferNothing(q) PROVE FallbackInv'
  <2>0. setup' = setup
    BY <1>12 DEF OfferNothing
  <2>1. \A p \in Requests \ {q} : Same(p)
    BY <1>12 DEF OfferNothing, Same
  <2>2. Fallback(q)'
    BY <1>12, <1>a, Rests DEF OfferNothing, Quiet, Early
  <2> QED
    BY <2>0, <2>1, <2>2, Frame
<1>13. ASSUME NEW q \in Requests, UseTool(q) PROVE FallbackInv'
  <2>0. setup' = setup
    BY <1>13 DEF UseTool
  <2>1. \A p \in Requests \ {q} : Same(p)
    BY <1>13 DEF UseTool, Same
  <2>2. Fallback(q)'
    BY <1>13, <1>a, Rests DEF UseTool, Quiet, Early
  <2> QED
    BY <2>0, <2>1, <2>2, Frame
<1>14. ASSUME NEW q \in Requests, AskWithTools(q) PROVE FallbackInv'
  <2>0. setup' = setup
    BY <1>14 DEF AskWithTools
  <2>1. \A p \in Requests \ {q} : Same(p)
    BY <1>14 DEF AskWithTools, SendText, Same
  <2>2. Fallback(q)'
    <3>1. Reachable(q) /\ "error" \notin told[q]
      BY <1>14, <1>a DEF AskWithTools, Quiet, Early, Backends
    <3>2. \/ pc'[q] = "reply" /\ "error" \notin told'[q]
          \/ /\ Asked(pc'[q]) = Asked(pc[q]) \/ Asked(pc[q]) \in tried'[q]
             /\ tried[q] \subseteq tried'[q] /\ told'[q] = told[q]
      BY <1>14, <3>1 DEF AskWithTools, SendText, Asked
    <3>3. level'[q] = level[q] /\ local'[q] = local[q] /\ chain'[q] = chain[q]
      BY <1>14 DEF AskWithTools
    <3> QED
      BY <2>0, <3>1, <3>2, <3>3, Rests, Advance DEF Quiet
  <2> QED
    BY <2>0, <2>1, <2>2, Frame
<1>15. ASSUME NEW q \in Requests, ExecuteCalls(q) PROVE FallbackInv'
  <2>0. setup' = setup
    BY <1>15 DEF ExecuteCalls
  <2>1. \A p \in Requests \ {q} : Same(p)
    BY <1>15 DEF ExecuteCalls, Same
  <2>2. Fallback(q)'
    <3>1. Reachable(q) /\ "error" \notin told[q]
      BY <1>15, <1>a DEF ExecuteCalls, Quiet, Early, Backends
    <3>2. \/ pc'[q] = "reply" /\ "error" \notin told'[q]
          \/ /\ Asked(pc'[q]) = Asked(pc[q]) \/ Asked(pc[q]) \in tried'[q]
             /\ tried[q] \subseteq tried'[q] /\ told'[q] = told[q]
      BY <1>15, <3>1 DEF ExecuteCalls, Asked
    <3>3. level'[q] = level[q] /\ local'[q] = local[q] /\ chain'[q] = chain[q]
      BY <1>15 DEF ExecuteCalls
    <3> QED
      BY <2>0, <3>1, <3>2, <3>3, Rests, Advance DEF Quiet
  <2> QED
    BY <2>0, <2>1, <2>2, Frame
<1>16. ASSUME NEW q \in Requests, FollowUp(q) PROVE FallbackInv'
  <2>0. setup' = setup
    BY <1>16 DEF FollowUp
  <2>1. \A p \in Requests \ {q} : Same(p)
    BY <1>16 DEF FollowUp, SendText, WithoutResults, Same
  <2>2. Fallback(q)'
    <3>1. Reachable(q) /\ "error" \notin told[q]
      BY <1>16, <1>a DEF FollowUp, Quiet, Early, Backends
    <3>2. \/ pc'[q] = "reply" /\ "error" \notin told'[q]
          \/ /\ Asked(pc'[q]) = Asked(pc[q]) \/ Asked(pc[q]) \in tried'[q]
             /\ tried[q] \subseteq tried'[q] /\ told'[q] = told[q]
      BY <1>16, <3>1 DEF FollowUp, SendText, WithoutResults, Asked
    <3>3. level'[q] = level[q] /\ local'[q] = local[q] /\ chain'[q] = chain[q]
      BY <1>16 DEF FollowUp
    <3> QED
      BY <2>0, <3>1, <3>2, <3>3, Rests, Advance DEF Quiet
  <2> QED
    BY <2>0, <2>1, <2>2, Frame
<1>17. ASSUME NEW q \in Requests, Converse(q) PROVE FallbackInv'
  <2>0. setup' = setup
    BY <1>17 DEF Converse
  <2>1. \A p \in Requests \ {q} : Same(p)
    BY <1>17 DEF Converse, Abandon, Same
  <2>2. Fallback(q)'
    <3>1. Reachable(q) /\ "error" \notin told[q]
      BY <1>17, <1>a DEF Converse, Quiet, Early, Backends
    <3>2. \/ pc'[q] = "reply" /\ "error" \notin told'[q]
          \/ /\ Asked(pc'[q]) = Asked(pc[q]) \/ Asked(pc[q]) \in tried'[q]
             /\ tried[q] \subseteq tried'[q] /\ told'[q] = told[q]
      BY <1>17, <3>1 DEF Converse, Abandon, Asked
    <3>3. level'[q] = level[q] /\ local'[q] = local[q] /\ chain'[q] = chain[q]
      BY <1>17 DEF Converse
    <3> QED
      BY <2>0, <3>1, <3>2, <3>3, Rests, Advance DEF Quiet
  <2> QED
    BY <2>0, <2>1, <2>2, Frame
<1>18. ASSUME NEW q \in Requests, StartClaude(q) PROVE FallbackInv'
  <2>0. setup' = setup
    BY <1>18 DEF StartClaude
  <2>1. \A p \in Requests \ {q} : Same(p)
    BY <1>18 DEF StartClaude, Abandon, Same
  <2>2. Fallback(q)'
    <3>1. Reachable(q) /\ "error" \notin told[q]
      BY <1>18, <1>a DEF StartClaude, Quiet, Early, Backends
    <3>2. \/ pc'[q] = "reply" /\ "error" \notin told'[q]
          \/ /\ Asked(pc'[q]) = Asked(pc[q]) \/ Asked(pc[q]) \in tried'[q]
             /\ tried[q] \subseteq tried'[q] /\ told'[q] = told[q]
      BY <1>18, <3>1 DEF StartClaude, Abandon, Asked
    <3>3. level'[q] = level[q] /\ local'[q] = local[q] /\ chain'[q] = chain[q]
      BY <1>18 DEF StartClaude
    <3> QED
      BY <2>0, <3>1, <3>2, <3>3, Rests, Advance DEF Quiet
  <2> QED
    BY <2>0, <2>1, <2>2, Frame
<1>19. ASSUME NEW q \in Requests, EndClaude(q) PROVE FallbackInv'
  <2>0. setup' = setup
    BY <1>19 DEF EndClaude
  <2>1. \A p \in Requests \ {q} : Same(p)
    BY <1>19 DEF EndClaude, Same
  <2>2. Fallback(q)'
    <3>1. Reachable(q) /\ "error" \notin told[q]
      BY <1>19, <1>a DEF EndClaude, Quiet, Early, Backends
    <3>2. \/ pc'[q] = "reply" /\ "error" \notin told'[q]
          \/ /\ Asked(pc'[q]) = Asked(pc[q]) \/ Asked(pc[q]) \in tried'[q]
             /\ tried[q] \subseteq tried'[q] /\ told'[q] = told[q]
      BY <1>19, <3>1 DEF EndClaude, Asked
    <3>3. level'[q] = level[q] /\ local'[q] = local[q] /\ chain'[q] = chain[q]
      BY <1>19 DEF EndClaude
    <3> QED
      BY <2>0, <3>1, <3>2, <3>3, Rests, Advance DEF Quiet
  <2> QED
    BY <2>0, <2>1, <2>2, Frame
<1>20. ASSUME NEW q \in Requests, AskGemini(q) PROVE FallbackInv'
  <2>0. setup' = setup
    BY <1>20 DEF AskGemini
  <2>1. \A p \in Requests \ {q} : Same(p)
    BY <1>20 DEF AskGemini, Abandon, Same
  <2>2. Fallback(q)'
    <3>1. Reachable(q) /\ "error" \notin told[q]
      BY <1>20, <1>a DEF AskGemini, Quiet, Early, Backends
    <3>2. \/ pc'[q] = "reply" /\ "error" \notin told'[q]
          \/ /\ Asked(pc'[q]) = Asked(pc[q]) \/ Asked(pc[q]) \in tried'[q]
             /\ tried[q] \subseteq tried'[q] /\ told'[q] = told[q]
      BY <1>20, <3>1 DEF AskGemini, Abandon, Asked
    <3>3. level'[q] = level[q] /\ local'[q] = local[q] /\ chain'[q] = chain[q]
      BY <1>20 DEF AskGemini
    <3> QED
      BY <2>0, <3>1, <3>2, <3>3, Rests, Advance DEF Quiet
  <2> QED
    BY <2>0, <2>1, <2>2, Frame
<1>21. ASSUME NEW q \in Requests, Select(q) PROVE FallbackInv'
  <2>0. setup' = setup
    BY <1>21 DEF Select
  <2>1. \A p \in Requests : Same(p)
    BY <1>21 DEF Select, Same
  <2>2. Fallback(q)'
    <3>1. \A b : CanAnswer(q, b)' <=> CanAnswer(q, b)
      BY <2>0, <2>1 DEF Same, CanAnswer
    <3> QED
      BY <2>1, <3>1 DEF FallbackInv, Fallback, Reachable, Same
  <2> QED
    BY <2>0, <2>1, <2>2, Frame
<1>22. ASSUME NEW q \in Requests, CallModel(q) PROVE FallbackInv'
  <2>0. setup' = setup
    BY <1>22 DEF CallModel
  <2>1. \A p \in Requests : Same(p)
    BY <1>22 DEF CallModel, Same
  <2>2. Fallback(q)'
    <3>1. \A b : CanAnswer(q, b)' <=> CanAnswer(q, b)
      BY <2>0, <2>1 DEF Same, CanAnswer
    <3> QED
      BY <2>1, <3>1 DEF FallbackInv, Fallback, Reachable, Same
  <2> QED
    BY <2>0, <2>1, <2>2, Frame
<1>23. ASSUME NEW q \in Requests, ModelFails(q) PROVE FallbackInv'
  <2>0. setup' = setup
    BY <1>23 DEF ModelFails
  <2>1. \A p \in Requests : Same(p)
    BY <1>23 DEF ModelFails, Same
  <2>2. Fallback(q)'
    <3>1. \A b : CanAnswer(q, b)' <=> CanAnswer(q, b)
      BY <2>0, <2>1 DEF Same, CanAnswer
    <3> QED
      BY <2>1, <3>1 DEF FallbackInv, Fallback, Reachable, Same
  <2> QED
    BY <2>0, <2>1, <2>2, Frame
<1>24. ASSUME NEW q \in Requests, ModelAnswers(q) PROVE FallbackInv'
  <2>0. setup' = setup
    BY <1>24 DEF ModelAnswers
  <2>1. \A p \in Requests : Same(p)
    BY <1>24 DEF ModelAnswers, Same
  <2>2. Fallback(q)'
    <3>1. \A b : CanAnswer(q, b)' <=> CanAnswer(q, b)
      BY <2>0, <2>1 DEF Same, CanAnswer
    <3> QED
      BY <2>1, <3>1 DEF FallbackInv, Fallback, Reachable, Same
  <2> QED
    BY <2>0, <2>1, <2>2, Frame
<1>25. CASE UNCHANGED vars
  BY <1>25 DEF vars, FallbackInv, Fallback, Reachable, CanAnswer
<1> QED
  BY <1>1, <1>2, <1>3, <1>4, <1>5, <1>6, <1>7, <1>8, <1>9, <1>10, <1>11, <1>12, <1>13,
     <1>14, <1>15, <1>16, <1>17, <1>18, <1>19, <1>20, <1>21, <1>22, <1>23, <1>24, <1>25 DEF Next, Handle, Wait

\* ErrorMeansAllFailed: a request is given up only when every backend it may be sent to
\* was asked and failed.
THEOREM ErrorMeansAllFailedHolds == Spec => []ErrorMeansAllFailed
<1>1. Init => FallbackInv /\ Routed
  BY DEF Init, FallbackInv, Fallback, Routed, Quiet, Early
<1>2. FallbackInv => ErrorMeansAllFailed
  BY DEF FallbackInv, Fallback, ErrorMeansAllFailed
<1> QED
  BY <1>1, <1>2, TypeInit, TypeStep, RoutedStep, FallbackStep, PTL DEF Spec
===============================================================================
