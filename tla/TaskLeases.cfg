SPECIFICATION EndingSpec
CONSTANTS
  Run = {r1, r2}
  Pool <- TwoPools
  Capacity <- TwoAndOne
  Needs <- AllOfThem
  GuardianDies = TRUE
  SlowGuardian = TRUE
  None = None
INVARIANT LeaseExclusive
PROPERTY LeasesComeBack
CHECK_DEADLOCK FALSE
