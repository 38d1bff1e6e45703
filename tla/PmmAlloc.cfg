CONSTANTS
  Callers = {a, b}
  PageSize = 1
  Memmap <- Split
  MaxPages = 3
  None = None
SPECIFICATION Spec
INVARIANT Disjoint
PROPERTY FailsHonestly
