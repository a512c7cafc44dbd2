CONSTANTS
  Ids = {a, b}
  Readers = {d1}
  Max = 1
  MaxOpens = 2
  MaxAsked = 3
  Reuse = FALSE
  Streams = {"stdout", "stderr"}
  Stdout = "stdout"
  MaxOutputRate = 1
  MaxRead = 2
  Buffer = 1
  MaxNow = 2
  MaxBytes = 2
  MaxWrites = 2
SPECIFICATION AllSpec
INVARIANT TableSound
INVARIANT StreamLimits
 
PROPERTY CloseEnds
CHECK_DEADLOCK FALSE
