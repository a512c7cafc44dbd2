CONSTANTS
  p1 = p1
  p2 = p2
  Posts = {p1, p2}
  NoPost = NoPost
  Facts = {a, b}
  Convs = {0, 1, 2}
  ConvOf <- OneWithout
  MaxMemories = 2
  MaxSummaries = 1
  Threshold = 4
  FactTokens = 2
  SummaryTokens = 1
  CompressedTokens = {3}
  MaxMishaps = 1
  Keys = {0, 1}
  MaxFacts = 1
  MaxCalls = 3
  MaxFaults = 1
  Ids = {d, e}
  SessionIds = {"s"}
  Requests = {q1, q2}
  Ttl = 1
  MaxTime = 2
  MaxLosses = 1
  Items <- ThreeItems
  MaxEdits = 2
  MaxOutages = 1
  Calls = {c1, c2, c3}
  MaxHour = 2
  MaxMisses = 2
SPECIFICATION AllSpec
SYMMETRY Swaps
 
INVARIANT FactsKept
INVARIANT DiskCatchesUp
 
INVARIANT InUseStays
 
INVARIANT CopyFollows
INVARIANT UsageAccounted
PROPERTY TablesKept
CHECK_DEADLOCK FALSE
