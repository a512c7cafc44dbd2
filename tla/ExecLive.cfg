CONSTANTS
  r1 = r1
  r2 = r2
  w1 = w1
  Runs = {r1, r2}
  NoRun = NoRun
  Workflows = {w1}
  NoWorkflow = NoWorkflow
  WorkflowOf <- OneWorkflow
  RunType <- WorkflowOther
  Ready = {r1, r2}
  EvalRuns = {r1}
  Execs = {e1, e2}
  NoExec = NoExec
  Readers = {}
  Flaps = TRUE
  MaxFaults = 1
SPECIFICATION FairSpec
PROPERTY ExecutionEnds
PROPERTY PendingPickedUp
CHECK_DEADLOCK FALSE
