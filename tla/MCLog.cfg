CONSTANTS
  Proc = {p1, p2}
  Block = {b1, b2}
  Value = {v0, v1}
  NoBlock = NoBlock
  MAXOPBLOCKS = 4
  LOGSIZE = 8
  NLOG = 8
  OpBlocks = 2
SPECIFICATION FairSpec
INVARIANT SleeperHasWaker
PROPERTIES CrashAtomic SleeperWakes
