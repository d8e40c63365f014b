SPECIFICATION Spec
CONSTANTS
  Process = {p1, p2}
  Handle = {h1, h2}
  Main = h1
  Pid = {i1, i2}
  None = None
  Queries = 2
  Room = 1
  EngineId = {e1, e2, e3}
  MaxCursor = 1
  MaxFail = 0
SYMMETRY Alike
CHECK_DEADLOCK FALSE
INVARIANT QueriesSurviveDiscovery
