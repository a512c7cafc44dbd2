-------------------------------- MODULE Semantic --------------------------------
(******************************************************************************)
(* The semantic router (internal/semantic): a request is matched to an intent *)
(* by the similarity of its embedding, and the score and the intent's minimum *)
(* tier choose the model.  Each choice is recorded in SQLite, the user may     *)
(* rate the answer, and now and then a goroutine moves the minimum tiers by    *)
(* the ratings and adds the liked queries to the intents' vectors.             *)
(*                                                                             *)
(* Texts and vectors are left out: which intent is the nearest, and how near,  *)
(* is a free choice, and a learned vector is named by its message.  A score    *)
(* is 0 below Tier3, 1 below Tier2, 2 from there: Tier1 makes no difference.   *)
(******************************************************************************)
EXTENDS Integers, FiniteSets, Sequences, SequencesExt

CONSTANTS
  Messages,      \* ids of messages, which the cloud may send again
  Intents,
  ComplexityOf,  \* intent -> simple, complex, reasoning
  MinSamples,
  MaxClock,      \* bound on seconds
  MaxAsks,       \* bound on requests
  MaxRounds,     \* bound on rounds of learning
  MaxTroubles    \* bound on failed calls and restarts

VARIABLES
  clock,
  enabled,       \* the intents have vectors: the router is installed
  minTier,       \* intent -> IntentCategory.MinTier
  learned,       \* intent -> the messages whose vectors were added
  intentFile,    \* intent_vectors.json: what it holds of the two, or NoFile
  chosen,        \* message -> the choice made for it and not yet recorded
  feedback,      \* message -> its row in routing_feedback
  learn,         \* the learning goroutine: its step and the rows it has read
  lastLearn,
  asks, rounds, troubles,
  unsaved,       \* history: the last save failed, or the process ended in Learn
  times          \* history: message -> how often the row it has was learned
                 \* since the process started

semanticVars == <<clock, enabled, minTier, learned, intentFile, chosen, feedback,
                  learn, lastLearn, asks, rounds, troubles, unsaved, times>>
boundVars == <<asks, rounds>>
intentVars == <<enabled, minTier, learned>>

DefaultTier == [i \in Intents |-> CASE ComplexityOf[i] = "simple" -> 1
                                    [] ComplexityOf[i] = "complex" -> 2
                                    [] OTHER -> 3]
NoVectors == [i \in Intents |-> <<>>]
NoFile == [tiers |-> <<>>, vectors |-> <<>>]
AtRest == [step |-> "idle", stats |-> {}, liked |-> {}]

Trouble == troubles < MaxTroubles /\ troubles' = troubles + 1

------------------------------------------------------------------------------
(* A request.                                                               *)

AtLeast(n, i) == IF minTier[i] > n THEN minTier[i] ELSE n
ScoreTier(score, i) ==
  CASE score = 0 -> 1
    [] ComplexityOf[i] = "simple" -> AtLeast(1, i)
    [] ComplexityOf[i] = "reasoning" /\ score >= 2 -> AtLeast(3, i)
    [] OTHER -> AtLeast(2, i)

\* A query that cannot be embedded is classified by Haiku, as one of the tools'
\* intents, which are not the router's, and goes to the second tier.
Classify(m) ==
  /\ enabled /\ m \notin DOMAIN chosen
  /\ asks < MaxAsks /\ asks' = asks + 1
  /\ \/ /\ \E i \in Intents, score \in 0..2 :
             chosen' = [n \in DOMAIN chosen \cup {m} |-> IF n = m
                          THEN [intent |-> i, tier |-> ScoreTier(score, i)]
                          ELSE chosen[n]]
        /\ UNCHANGED troubles
     \/ /\ Trouble
        /\ chosen' = [n \in DOMAIN chosen \cup {m} |-> IF n = m
                        THEN [intent |-> "general", tier |-> 2] ELSE chosen[n]]
  /\ UNCHANGED <<rounds, clock, intentVars, intentFile, feedback, learn, lastLearn,
                 unsaved, times>>

Unrecorded(m) == chosen' = [n \in DOMAIN chosen \ {m} |-> chosen[n]]

\* INSERT OR REPLACE: a message that comes again loses its rating.
Record(m) ==
  /\ m \in DOMAIN chosen
  /\ Unrecorded(m)
  /\ \/ /\ feedback' = [n \in DOMAIN feedback \cup {m} |-> IF n = m
                          THEN [intent |-> chosen[m].intent, tier |-> chosen[m].tier,
                                liked |-> "unrated", at |-> clock]
                          ELSE feedback[n]]
        /\ times' = [times EXCEPT ![m] = 0]
        /\ UNCHANGED troubles
     \/ Trouble /\ UNCHANGED <<feedback, times>>
  /\ UNCHANGED <<boundVars, clock, intentVars, intentFile, learn, lastLearn, unsaved>>

\* chat:feedback; the user may change a rating.
UpdateLiked(m, liked) ==
  /\ m \in DOMAIN feedback
  /\ feedback' = [feedback EXCEPT ![m].liked = liked]
  /\ UNCHANGED <<boundVars, clock, intentVars, intentFile, chosen, learn, lastLearn,
                 troubles, unsaved, times>>

------------------------------------------------------------------------------
(* Learn.                                                                   *)

Rated == {m \in DOMAIN feedback : feedback[m].liked # "unrated"}
Group(m) == {n \in Rated : feedback[n].intent = feedback[m].intent
                        /\ feedback[n].tier = feedback[m].tier}
Liked(S) == {m \in S : feedback[m].liked = "yes"}

\* GetRoutingFeedbackStats: for each intent and tier, over all that was ever rated.
Stats == {[intent |-> feedback[m].intent, tier |-> feedback[m].tier,
           total |-> Cardinality(Group(m)), liked |-> Cardinality(Liked(Group(m)))] :
            m \in Rated}

BeginLearn ==
  /\ enabled /\ learn = AtRest
  /\ rounds < MaxRounds /\ rounds' = rounds + 1
  /\ learn' = [AtRest EXCEPT !.step = "adjust", !.stats = Stats]
  /\ UNCHANGED <<asks, clock, intentVars, intentFile, chosen, feedback, lastLearn,
                 troubles, unsaved, times>>

RaiseMinTier(i) == IF minTier[i] < 4 THEN minTier[i] + 1 ELSE minTier[i]
LowerMinTier(i) == IF minTier[i] > 1 THEN minTier[i] - 1 ELSE minTier[i]
Adjusted(s) ==
  CASE s.total < MinSamples -> minTier[s.intent]
    [] 2 * s.liked < s.total -> RaiseMinTier(s.intent)
    [] 10 * s.liked > 9 * s.total -> LowerMinTier(s.intent)
    [] OTHER -> minTier[s.intent]

Adjust(s) ==
  /\ learn.step = "adjust" /\ s \in learn.stats
  /\ minTier' = IF s.intent \in Intents
                THEN [minTier EXCEPT ![s.intent] = Adjusted(s)] ELSE minTier
  /\ learn' = [learn EXCEPT !.stats = @ \ {s}]
  /\ UNCHANGED <<boundVars, clock, enabled, learned, intentFile, chosen, feedback, lastLearn,
                 troubles, unsaved, times>>

\* GetLikedFeedback, of what was recorded since; if it fails, so does Learn.
QueryLiked ==
  /\ learn.step = "adjust" /\ learn.stats = {}
  /\ \/ /\ learn' = [AtRest EXCEPT !.step = "embed",
                       !.liked = {[msg |-> m, intent |-> feedback[m].intent] :
                         m \in {n \in Liked(Rated) : feedback[n].at > lastLearn}}]
        /\ UNCHANGED <<troubles, unsaved>>
     \/ Trouble /\ learn' = AtRest /\ unsaved' = TRUE
  /\ UNCHANGED <<boundVars, clock, intentVars, intentFile, chosen, feedback, lastLearn, times>>

AddVector(i, m) ==
  learned' = IF i \in Intents THEN [learned EXCEPT ![i] = Append(@, m)] ELSE learned

\* The query's embedding is asked for again; without it, it is passed over.
EmbedLiked(rec) ==
  /\ learn.step = "embed" /\ rec \in learn.liked
  /\ learn' = [learn EXCEPT !.liked = @ \ {rec}]
  /\ \/ /\ AddVector(rec.intent, rec.msg)
        /\ times' = [times EXCEPT ![rec.msg] = @ + 1]
        /\ UNCHANGED troubles
     \/ Trouble /\ UNCHANGED <<learned, times>>
  /\ UNCHANGED <<boundVars, clock, enabled, minTier, intentFile, chosen, feedback, lastLearn,
                 unsaved>>

InMemory == [tiers |-> minTier, vectors |-> learned]
LearnedUntilUnset == lastLearn                 \* faulty: lastLearn stays
LearnedUntil == clock

\* Save; the error of a write is logged.
EndLearn ==
  /\ learn.step = "embed" /\ learn.liked = {}
  /\ learn' = AtRest
  /\ lastLearn' = LearnedUntil
  /\ \/ intentFile' = InMemory /\ unsaved' = FALSE /\ UNCHANGED troubles
     \/ Trouble /\ unsaved' = TRUE /\ UNCHANGED intentFile
  /\ UNCHANGED <<boundVars, clock, intentVars, chosen, feedback, times>>

------------------------------------------------------------------------------
(* The process.                                                             *)

Second ==
  /\ clock < MaxClock /\ clock' = clock + 1
  /\ UNCHANGED <<boundVars, intentVars, intentFile, chosen, feedback, learn, lastLearn,
                 troubles, unsaved, times>>

\* loadFromFile copies intent by intent, up to one the file does not have; then
\* all are embedded anew, and the tiers copied so far are kept.
Complete(f) == DOMAIN f.tiers = Intents
Loaded(f, before) ==
  [i \in Intents |-> IF i \in before \cap DOMAIN f.tiers THEN f.tiers[i]
                                                 ELSE DefaultTier[i]]

\* Initialize, with the file f; it fails if the embedder does, and then the
\* daemon goes on without the router.  The error of a write is logged.
Initialize(f) ==
  \/ /\ Complete(f)
     /\ minTier' = f.tiers /\ learned' = f.vectors
     /\ enabled' = TRUE /\ intentFile' = f
     /\ UNCHANGED unsaved
  \/ /\ ~Complete(f)
     /\ \E before \in SUBSET Intents : minTier' = Loaded(f, before)
     /\ learned' = NoVectors
     /\ \/ enabled' = TRUE
           /\ intentFile' = [tiers |-> minTier', vectors |-> NoVectors]
           /\ unsaved' = FALSE
        \/ enabled' = TRUE /\ intentFile' = f /\ unsaved' = TRUE
        \/ enabled' = FALSE /\ intentFile' = f /\ UNCHANGED unsaved

\* A file whose writing was cut short does not parse; one of an older version
\* lacks an intent.
Older(f, i) == [tiers |-> [j \in Intents \ {i} |-> f.tiers[j]],
                vectors |-> [j \in Intents \ {i} |-> f.vectors[j]]]
Restart ==
  /\ Trouble
  /\ \/ Initialize(intentFile)
     \/ learn.step = "embed" /\ learn.liked = {} /\ Initialize(NoFile)
     \/ /\ Complete(intentFile)
        /\ \E i \in Intents : Initialize(Older(intentFile, i))
  /\ chosen' = <<>> /\ learn' = AtRest /\ lastLearn' = 0
  /\ times' = [m \in Messages |-> 0]
  /\ UNCHANGED <<boundVars, clock, feedback>>

SemanticInit ==
  /\ clock = 1 /\ asks = 0 /\ rounds = 0 /\ troubles = 0
  /\ enabled = TRUE /\ minTier = DefaultTier /\ learned = NoVectors
  /\ intentFile = [tiers |-> DefaultTier, vectors |-> NoVectors]
  /\ chosen = <<>> /\ feedback = <<>> /\ learn = AtRest /\ lastLearn = 0
  /\ unsaved = FALSE /\ times = [m \in Messages |-> 0]

SemanticNext ==
  \/ \E m \in Messages : \/ Classify(m) \/ Record(m)
                         \/ UpdateLiked(m, "yes") \/ UpdateLiked(m, "no")
  \/ BeginLearn \/ QueryLiked \/ EndLearn
  \/ \E s \in learn.stats : Adjust(s)
  \/ \E rec \in learn.liked : EmbedLiked(rec)
  \/ Second \/ Restart

SemanticSpec == SemanticInit /\ [][SemanticNext]_semanticVars

------------------------------------------------------------------------------
(* Properties.                                                              *)

InLastSave == enabled /\ learn = AtRest /\ ~unsaved => intentFile = InMemory

\* However requests, ratings, repeated messages and restarts interleave with the
\* learning: every minimum tier names a tier; a recorded choice is learned from
\* once in the life of a process, although each round reads the table anew;
\* and between rounds the file has all that was learned, unless its writing
\* failed or Learn was broken off.
LearningSound ==
  /\ \A i \in Intents : minTier[i] \in 1..4
  /\ \A m \in Messages : times[m] <= 1
  /\ InLastSave
===============================================================================
