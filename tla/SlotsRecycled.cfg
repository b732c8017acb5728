SPECIFICATION Spec
CONSTANTS
  Instance = {i1, i2}
  Pid = {p1, p2, p3}
  Caller = {c1}
  MaxSlots = 2
  Kind = {"supervisor", "stranger"}
  SlowStart = TRUE
  None = None
SYMMETRY Interchangeable
INVARIANTS
  RegistryConsistent
CHECK_DEADLOCK FALSE
