SPECIFICATION Spec
CONSTANTS
  db = db
  api = api
  c1 = c1
  c2 = c2
  Step = {}
  Service = {db, api}
  Requires <- ChainRequires
  External = {}
  SessionScoped = {}
  Provisionable = {}
  Manual = {}
  NoTargets = NoTargets
  Client = {c1, c2}
  Session = {}
  Restarts <- NoRestarts
  Probed = {db}
  Malformed = {}
  CrashLoopThreshold = 1
  MaxIncarnation = 1
  MaxTimer = 1
  MaxRun = 1
  TargetSets <- EachService
INVARIANTS
  NothingForgotten
PROPERTIES
  SpawnsOnHealthyDeps
  HoldsDecide
