CONSTANTS
  Workers = {1, 2, 3}
  GenSize = 2
  MaxCall = 3
SPECIFICATION FairSpec
INVARIANTS CallableAlive
PROPERTIES KeepsPromise ReturnsIfRoused ClosesIfRoused
