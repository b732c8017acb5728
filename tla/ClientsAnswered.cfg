SPECIFICATION TalkSpec
CONSTANTS
  api = api
  chk = chk
  ext = ext
  c1 = c1
  Step = {chk}
  Service = {api, ext}
  Requires <- SetupRequires
  External = {ext}
  SessionScoped = {}
  Provisionable = {chk}
  Manual = {}
  NoTargets = NoTargets
  Client = {c1}
  Session = {}
  Restarts <- OnFailure
  Probed = {api}
  Malformed = {}
  CrashLoopThreshold = 1
  MaxIncarnation = 1
  MaxTimer = 1
  MaxRun = 2
  TargetSets <- ApiOnly
  Talker = {c1}
  Wanted = {api}
  Commanded <- SomeCommands
INVARIANTS
  ViewsAgree
  ReadyIsHeard
  WaitsAreAnswered
