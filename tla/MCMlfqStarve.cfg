CONSTANTS
  NPROC = 3
  NCPU = 1
  NQUEUE = 2
  AGE = 0
  ticksQ <- Slices
SPECIFICATION FairSpec
PROPERTIES NoStarvation
