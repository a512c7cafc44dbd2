CONSTANTS
  g = g
  x = x
  y = y
  r1 = r1
  r2 = r2
  None = None
  Runs = {r1, r2}
  Nodes = {g, x, y}
  Workflows <- TwoWorkflows
  MaxLoop = 2
SPECIFICATION Spec
PROPERTY SkillsFound
CHECK_DEADLOCK FALSE
