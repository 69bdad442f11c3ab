CONSTANTS
  p1 = p1
  p2 = p2
  Proc = {p1, p2}
  x = x
  y = y
  Name = {x, y}
  None = None
  Request <- Tree
  NINODES = 3
  NINODE = 3
  Inode = {i1, i2}
  NBLOCK = 5
  NDIRECT = 1
  BSIZE = 2
  ChunkMax = 3
  ReadSize = {1}
  WriteSize = {4}
  MaxCalls = 4
SPECIFICATION FileSystemSpec
INVARIANTS RefExact CacheCoherent NotFreedInUse LinksExact CrashConsistent
PROPERTY WritesExact
\* Calls that wait for each other's inodes stop for ever, and the calls of the second half are bounded.
CHECK_DEADLOCK FALSE
