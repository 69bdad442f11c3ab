CONSTANTS
  MAXARGS = 3
  NPROC = 5
  NOFILE = 5
  Pipe = {q1}
  Line <- Typed
  PIPESIZE = 1
  MaxWrites = 2
  None = None
  MaxTokens = 5
  MaxPattern = 4
  MaxText = 2
  MinCore = 4
  Limit = 11
  MaxUnits = 5
  BSIZE = 2
  NDIRECT = 1
  NINDIRECT = 2
  nmeta = 3
  FSSIZE = 16
  NINODES = 3
  Word = {98, 99}
SPECIFICATION UserSpec
INVARIANTS Wired ForegroundDone ParsesExactly HeapSound MatchExact ImageSound
PROPERTY CommandEnds
CHECK_DEADLOCK FALSE
