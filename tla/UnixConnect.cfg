SPECIFICATION FairSpec
CONSTANTS
  Clients = {c1, c2, c3}
  Servers = {s1, s2}
  Binder = s1
  Listener = l
  Conns = {k1, k2}
  Backlogs = {0, 2}
  None = None
INVARIANTS
  PeersAgree
  NoSleepOnBacklog
PROPERTY
  LockFreed
