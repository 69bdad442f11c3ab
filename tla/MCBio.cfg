CONSTANTS
  Buf = {b1, b2, b3}
  Block = {n1, n2, n3, n4}
  Proc = {p1, p2}
  Value = {0, 1}
  None = None
  MaxPinned = 2
  ReadErrors = FALSE
SPECIFICATION Spec
SYMMETRY Symmetry
INVARIANTS BuffersSound QueueServed
PROPERTIES AsBlockStore
