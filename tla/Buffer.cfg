CONSTANTS
  Threads = {1, 2}
  Pages = {p1, p2, p3}
  N = 2
  MaxHold = 2
  MaxQuery = 2
SPECIFICATION Spec
INVARIANTS PinsExact MapExact SweepIsClock
PROPERTIES PinsKept WaiterServed
