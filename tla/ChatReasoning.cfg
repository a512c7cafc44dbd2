CONSTANTS
  Requests = {q1}
  MaxFaults = 0
  MaxSelects = 0
  Setups <- SetupType
SPECIFICATION Spec
INVARIANT ThinkingAnswers
CHECK_DEADLOCK FALSE
