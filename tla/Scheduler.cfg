CONSTANTS
  w1 = w1
  Ids = {s1}
  Workflows = {w1}
  WorkflowOf <- SameWorkflow
  Api = {s1}
  Exprs = {e1, e2}
  Valid = {e1, e2}
  None = None
  MaxEdits = 2
  MaxFaults = 2
  Runs = {r1}
SPECIFICATION FairSpec
PROPERTY CronConverges
PROPERTY ApiRunSettles
CHECK_DEADLOCK FALSE
