CONSTANTS
  t1 = t1
  t2 = t2
  t3 = t3
  Ids = {t1, t2, t3}
  MaxTasks = 3
  MaxEscalations = 2
  Plans <- AllPlans
  MaxSteps = 3
  Runners = {"r1", "r2"}
  Editors = {"e1", "e2"}
  MaxIterations = 2
  MaxCases = 2
  MaxDowns = 2
  Messages = {m1, m2}
  Intents = {"chat", "analysis"}
  ComplexityOf <- TwoKinds
  MinSamples = 2
  MaxClock = 2
  MaxAsks = 2
  MaxRounds = 2
  MaxTroubles = 1
SPECIFICATION AllSpec
INVARIANT DependenciesFirst
INVARIANT RunsWholePlan
INVARIANT SkillVerdict
INVARIANT EvalAccounted
INVARIANT LearningSound
CHECK_DEADLOCK FALSE
