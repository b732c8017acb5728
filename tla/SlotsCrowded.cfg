SPECIFICATION Spec
CONSTANTS
  Instance = {i1, i2, i3}
  Pid = {p1, p2, p3}
  Caller = {c1}
  MaxSlots = 2
  Kind = {"supervisor", "task", "reaper"}
  SlowStart = FALSE
  None = None
SYMMETRY Interchangeable
INVARIANTS
  LoneStacksDistinct
PROPERTIES
  LiveClaimsKept
CHECK_DEADLOCK FALSE
