CONSTANTS
  Ids = {a, b}
  NoId = NoId
  MaxStarts = 2
  MaxSessions = 1
  Handlers = {h1}
  BufSize = 1
SPECIFICATION FairSpec
 
 
PROPERTY AgentsEnd
CHECK_DEADLOCK FALSE
