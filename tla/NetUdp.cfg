CONSTANTS
  Threads = {t1, t2}
  t1 = t1
  t2 = t2
  Sockets = {s1, s2, s3, s4}
  s1 = s1
  s2 = s2
  s3 = s3
  s4 = s4
  AnyAddr = "any"
  Broadcast = "all"
  Loopback = "lo"
  Prefix <- MCPrefix
  Hosts = {"peer"}
  PortSpace = 4
  RangeStart = 2
  PortBits = 8
  ByteBits = 2
  Scripts <- MCScripts
  None = None
SPECIFICATION FairSpec
INVARIANTS Exclusion EmptyTake AskVain PortsDistinct
PROPERTIES Drains
CHECK_DEADLOCK FALSE
