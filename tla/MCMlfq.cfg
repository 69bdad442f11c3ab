CONSTANTS
  NPROC = 2
  NCPU = 2
  NQUEUE = 2
  AGE = 0
  ticksQ <- Slices
SPECIFICATION FairSpec
INVARIANT QueuesSound
PROPERTY RunnableQueued
