CONSTANTS
  Cpu = {c1, c2}
  Proc = {p1, p2}
  Lock = {ptable, cons}
  ptable = ptable
  cons = cons
  None = None
  Waiter = {w1, w2, w3}
SPECIFICATION LocksSpec
SYMMETRY Symmetry
INVARIANTS LocksExact InterruptsRestored SleepLockSound
\* CPUs that spin for each other's lock stop for ever: the order of ptable.lock and cons.lock.
CHECK_DEADLOCK FALSE
