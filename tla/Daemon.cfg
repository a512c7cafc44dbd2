CONSTANTS
  r1 = r1
  r2 = r2
  w1 = w1
  Runs = {r1, r2}
  NoRun = NoRun
  Workflows = {w1}
  NoWorkflow = NoWorkflow
  WorkflowOf <- OneWorkflow
  RunType <- WorkflowAgent
  Ready = {r1, r2}
  EvalRuns = {r1, r2}
  Execs = {e1, e2}
  NoExec = NoExec
  Readers = {d1}
  Flaps = FALSE
  MaxFaults = 2
  MaxConns = 2
  MaxSends = 3
  Cap = 2
  MaxReconnect = 3
SPECIFICATION AllSpec
SYMMETRY Slots
INVARIANT AtMostOneLive
INVARIANT CancelReaches
INVARIANT RunningIsOwned
INVARIANT OnlyCurrentOpen
 
PROPERTY SendsInOrder
CHECK_DEADLOCK FALSE
