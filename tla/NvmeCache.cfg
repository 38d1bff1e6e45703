CONSTANTS
  Threads = {t1, t2}
  Values = {a, b}
  LbaCount = 5
  BlockLbas = 2
  CacheSlots = 2
  QueueSlots = 2
  CidSpace = 4
  LbaSize = 2
  Table <- Mbr
  Requests <- SomeRequests
  None = None
SPECIFICATION FairSpec
INVARIANTS OwnCompletion PanicPastEnd
PROPERTIES LockReturned Atomic
CHECK_DEADLOCK FALSE
