CONSTANTS
  Sessions = {c1, c2}
  VerifyFirst = 1
  Threshold = 2
  MaxQuery = 3
  MaxBind = 1
  MaxRefError = 0
  MaxCmpError = 0
SPECIFICATION Spec
INVARIANT ProvenFirst
