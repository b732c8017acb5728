SPECIFICATION FairSpec
CONSTANTS
  db = db
  api = api
  c1 = c1
  c2 = c2
  Step = {}
  Service = {api}
  Requires <- SoloRequires
  External = {}
  SessionScoped = {}
  Provisionable = {}
  Manual = {}
  NoTargets = NoTargets
  Client = {c1}
  Session = {}
  Restarts <- SoloRestarts
  Probed = {api}
  Malformed = {}
  CrashLoopThreshold = 2
  MaxIncarnation = 2
  MaxTimer = 2
  MaxRun = 1
  TargetSets <- ApiOnly
INVARIANTS
  RecordsAreRight
  RunningIsEvidenced
PROPERTIES
  ImplementsProcessLife
  StartingIsDecided
  StopsComplete
