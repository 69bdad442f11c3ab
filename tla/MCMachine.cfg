CONSTANTS
  Proc = {p1, p2}
  initproc = p1
  None = None
  NPAGE = 15
  PGSIZE = 2
  NPTENTRIES = 2
  KERNBASE = 8
  UintMod = 16
  Grow <- SomeGrow
  Program = {1, 3}
  ncpu = 3
  bsp = 1
  Early = 2
  BootPages = 4
  UserPages = 1
  Core = {c0, c1}
  cpu0 = c0
  UINT = 4
  Sleeps = {2}
SPECIFICATION MachineSpec
INVARIANTS MemorySound PagesApart ClockSound
PROPERTIES AllStart SleepEnds
