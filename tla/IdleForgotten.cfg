SPECIFICATION FairSpec
CONSTANTS
  Daemon = {d1}
  Client = {c1}
  Starter = {s1}
  Service = {db}
  Hooked = {}
  SlowStart = FALSE
  None = None
PROPERTIES
  IdleDaemonExits
CHECK_DEADLOCK FALSE
