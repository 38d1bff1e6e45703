SPECIFICATION FairSpec
CONSTANTS
  Readers = {r}
  Writers = {w}
  Bytes = {0, 1}
  Cap = 2
  MaxCount = 2
  MaxPending = 4
  MaxFds = 2
  KeepMode = TRUE
CHECK_DEADLOCK FALSE
INVARIANTS
  StuckTogether
PROPERTIES
  Refines
  EofDelivered
