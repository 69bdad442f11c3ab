CONSTANTS
  Builds = {"ROUND_ROBIN", "FCFS", "PBS"}
  NPROC = 3
  NCPU = 2
  Priority = {50, 60}
  DefaultPriority = 60
  MaxTicks = 2
SPECIFICATION FairSpec
PROPERTIES EveryoneRuns FirstRuns
