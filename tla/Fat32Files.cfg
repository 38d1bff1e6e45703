CONSTANTS
  Ids = {f1, f2}
  ClusterCount = 4
  Pad = 1
  ClusterSize = 2
  DentsPerCluster = 4
  MaxSize = 3
  MaxRefs = 2
  f1 = f1
  f2 = f2
  NameSlots <- ShortAndLong
  None = None
SPECIFICATION Spec
INVARIANTS ChainsExact CountersExact EntriesAgree NoForeignData
CHECK_DEADLOCK FALSE
