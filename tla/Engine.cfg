CONSTANTS
  g = g
  x = x
  y = y
  r1 = r1
  r2 = r2
  None = None
  Runs = {r1}
  Nodes = {g, x, y}
  Workflows <- AllGraphs
  MaxLoop = 2
SPECIFICATION FairSpec
INVARIANT ParentsFirst
 
PROPERTY RunEnds
CHECK_DEADLOCK FALSE
