SPECIFICATION TasksSpec
CONSTANTS
  Run = {r1, r2}
  Pool <- OnePool
  Capacity <- OneLease
  Needs <- AllOfThem
  GuardianDies = FALSE
  SlowGuardian = FALSE
  None = None
  i1 = i1
  i2 = i2
  check = check
  build = build
  test = test
  deps = deps
  gen = gen
  Invocation = {i1, i2}
  Token = {i2}
  Root <- RootDef
  Task = {check, build, test}
  DependsOn <- DependsOnDef
  Aggregate = {check}
  Serving = {test}
  Scarce = {build}
  Direct <- DirectDef
  Step = {deps, gen}
  StepAfter <- StepAfterDef
  Shell = {deps, gen}
  Trust <- TrustDef
  Weight = {1, 2}
  Retention = 2
INVARIANTS
  SomebodyAnswers
  PlansAreKept
  LatestIsKept
PROPERTY OrphansKeepWhatTheyUse
PROPERTY OrphansEnd
PROPERTY CancelsEnd
CHECK_DEADLOCK FALSE
