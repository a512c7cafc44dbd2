CONSTANTS
  Requests = {q1}
  MaxFaults = 2
  MaxSelects = 2
  Setups <- SetupType
SPECIFICATION FairSpec
INVARIANT EffectsOnce
 
PROPERTY OneVerdict
PROPERTY RequestEnds
CHECK_DEADLOCK FALSE
