SPECIFICATION Spec
CONSTANTS
  RotateLines = 2
  MaxLines = 6
  MaxTime = 2
  Run = {r1, r2}
  MaxRev = 1
  MaxFiles = 1
  MaxSeen = 1
  Id = {a, b}
  MaxLife = 2
  Prompt = TRUE
  Stack = {w1, w2}
  Home = w1
  None = None
  Reports <- StackReports
  SharedReports <- RepoReports
  Tree = {t1}
SYMMETRY Symmetry
INVARIANTS
  HistoryIsRecent
  ToldOnce
  
  ShownIsMeant
  
CHECK_DEADLOCK FALSE
