CONSTANTS
  Sessions = {c1, c2}
  VerifyFirst = 1
  Threshold = 2
  MaxQuery = 4
  MaxBind = 3
  MaxRefError = 1
  MaxCmpError = 1
SPECIFICATION Spec
INVARIANTS FailClosed  BreakerNeedsFailures  BurnInChecked
PROPERTIES AnswersGuarded
SYMMETRY AnyOrder
