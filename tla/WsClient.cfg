CONSTANTS
  MaxConns = 2
  MaxSends = 3
  Cap = 2
  MaxReconnect = 3
SPECIFICATION FairSpec
PROPERTY StopsClean
PROPERTY QueueDrains
CHECK_DEADLOCK FALSE
