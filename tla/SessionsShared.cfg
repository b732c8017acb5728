SPECIFICATION Spec
CONSTANTS
  db = db
  log = log
  sim = sim
  A = A
  B = B
  device = device
  c1 = c1
  c2 = c2
  c3 = c3
  Step = {}
  Service = {db, sim}
  Requires <- NoEdges
  External = {}
  SessionScoped = {sim}
  Provisionable = {}
  Manual = {}
  NoTargets = NoTargets
  Client = {c1, c2, c3}
  Stoppers = {c3}
  Session = {A, B}
  Needs <- MixedNeeds
  Resource = {device}
  Uses <- OneDevice
  AutoRestarted = {db}
  UserRestarted = {db}
  TargetSets <- DbOnly
  MaxGeneration = 2
  MaxIncarnation = 1
SYMMETRY Symmetry
INVARIANTS
  SidecarsAreLeased
  OneLauncher
  SessionsEnd
PROPERTIES
  InUseIsSpared
CHECK_DEADLOCK FALSE
