CONSTANTS
  N = 3
  Restarts = {1}
  Eager = {3}
  Teardowns = {1, 2}
  MaxBuild = 1
  MaxBatch = 2
  MaxThrow = 0
  MaxNoFork = 0
  MaxCrash = 0
  CrashAt = {}
  CrashHow = {}
  MaxTrouble = 0
  HangAt = {"load", "reload", "compute"}
  Republished = {}
SPECIFICATION RunnerSpec
INVARIANT OwnAnswer
