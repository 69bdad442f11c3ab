CONSTANTS
  NPROC = 3
  NCPU = 2
  Event = {10}
  MaxPid = 5
  KillPids = {2, 3}
  RingProc = {"q1", "q2", "q3"}
  RingQueues = 2
SPECIFICATION TableSpec
INVARIANTS OneCpuEach NoMissedExit FamilySound RingsAreQueues
