CONSTANTS
  Threads = {t1, t2}
  Durations <- Edges
  Timeouts <- Limits
  Nanos = {500000000}
  TIMER_FREQ = 4
  None = None
SPECIFICATION FairSpec
INVARIANTS ArmedAlive FiresOnTime
PROPERTY SleepEnds
