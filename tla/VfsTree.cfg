CONSTANTS
  Threads = {t1, t2}
  Calls <- MCCalls
  MaxNodes = 9
  MaxCalls = 5
  None = None
SPECIFICATION Spec
INVARIANTS NamesUnique RootLive PathBack
SYMMETRY Symmetry
CHECK_DEADLOCK FALSE
