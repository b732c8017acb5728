SPECIFICATION FilesSpec
CONSTANTS
  app = app
  doc = doc
  auth = auth
  pay = pay
  theme = theme
  Path = {app, doc}
  Feature = {auth, pay, theme}
  Absent = "absent"
  Proc = {q}
  MaxVersion = 2
  Content <- ContentDef
  Edits <- EditsDef
  Base <- BaseDef
  Payload <- PayloadDef
  Depends <- DependsDef
  Excludes <- ExcludesDef
  Generated <- GeneratedDef
  Wizard = {z}
  Batch = {b}
  Setter = {s}
  Var = {"K", "L"}
  Required = {"K"}
  Value <- ValueDef
  Quoted = {"w x"}
  Bare <- BareDef
  Empty = Empty
  Torn = Torn
INVARIANTS
  Restorable
  ValuesAreKept
  AcceptedIsSound
  
PROPERTY ImplementsComposition
CHECK_DEADLOCK FALSE
