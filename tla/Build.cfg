\* Two units over a source file and a header: every edit, revert, failed,
\* killed and repeated build that MaxClock writes allow.
SPECIFICATION Spec
CONSTANTS
  a = a
  h = h
  ua = ua
  uh = uh
  plugin = plugin
  db = db
  None = None
  File = {a, h}
  Unit = {ua, uh}
  Deps <- MCDeps
  Target = {plugin, db}
  Inputs <- MCInputs
  FlagLinked = {db}
  Good = {g1, g2}
  Bad = {bad}
  Flag = {fast, traced}
  MaxClock = 7
CHECK_DEADLOCK FALSE
INVARIANTS BuiltWithFlags NothingLeft
PROPERTIES AsIfFromScratch
