CONSTANTS
  Proc = {p1, p2}
  Byte = {0, 1}
  PIPESIZE = 2
  UINT = 4
  MaxLen = 3
  Readers = {p1}
  Writers = {p1, p2}
  initproc = p1
  Inode = {i1}
  PipePage = {q1}
  None = None
  NFILE = 3
  NOFILE = 2
  Char = {"x", "newline", "eof"}
  INPUT_BUF = 3
  MaxUint = 5
  MaxRead = 2
SPECIFICATION StreamsSpec
INVARIANTS WaitJustified UseLive CountsExact
PROPERTIES AsFifo AsLineInput
CHECK_DEADLOCK FALSE
