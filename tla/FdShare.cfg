CONSTANTS
  Procs = {p1, p2, p3}
  First = p1
  Descs = {d1, d2}
  MaxFds = 2
  MaxRefs = 5
  None = None
SPECIFICATION Spec
SYMMETRY Symmetry
INVARIANTS NoUseAfterFree ResourceCounts
CHECK_DEADLOCK FALSE
