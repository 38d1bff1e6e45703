SPECIFICATION FairSpec
CONSTANTS
  e1 = e1
  e2 = e2
  e3 = e3
  t1 = t1
  t2 = t2
  None = None
  Threads <- TwoThreads
  Irqs = {i1}
  Cpus = {c1}
  Events = {e1, e2, e3}
  Awaits <- LongAwaits
  MaxListeners = 2
  MaxEvents = 2
  MaxPending = 1
  MaxSlots = 3
  SMP = FALSE
CHECK_DEADLOCK FALSE
INVARIANTS
  SleeperListed
  ListenersLive
  ReturnsFired
PROPERTY
  TriggerWakes
