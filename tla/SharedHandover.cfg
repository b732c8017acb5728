SPECIFICATION FairSpec
CONSTANTS
  Daemon = {d1, d2}
  Client = {c1}
  Starter = {s1}
  Service = {db}
  Hooked = {}
  SlowStart = FALSE
  None = None
INVARIANTS
  CountIsExact
  OneOwner
  
PROPERTIES
  DaemonGoesAway
CHECK_DEADLOCK FALSE
