SPECIFICATION FairSpec
CONSTANTS
  None = None
  c1 = c1
  c2 = c2
  t1 = t1
  t2 = t2
  t3 = t3
  Cpus <- TwoCpus
  Threads <- ThreeThreads
  Ops <- MCOps
  Boot = t1
  MaxRunning = 2
INVARIANTS
  OneCpu
  LoadsSaved
PROPERTIES
  KeepsCpu
  WokenReturns
