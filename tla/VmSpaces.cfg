SPECIFICATION Spec
CONSTANTS
  p1 = p1
  p2 = p2
  t1 = t1
  t2 = t2
  c1 = c1
  Procs <- MCProcs
  Parent = p1
  Threads <- MCThreads
  ProcOf <- MCProcOf
  Frames = {f1, f2, f3}
  FilePage = FilePage
  NPages = 3
  AnonBase = 1
  Maps <- MCMaps
  Mappers <- MCMappers
  MaxCalls = 3
  None = None
SYMMETRY MCSymmetry
INVARIANTS FramesOnce MappedOwned FaultServed
CHECK_DEADLOCK FALSE
