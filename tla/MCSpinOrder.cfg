CONSTANTS
  Cpu = {c1, c2}
  Proc = {p1, p2}
  Lock = {ptable, cons}
  ptable = ptable
  cons = cons
  None = None
  Waiter = {w1, w2, w3}
SPECIFICATION LocksSpec
SYMMETRY Symmetry
INVARIANT NoStandstill
CHECK_DEADLOCK FALSE
