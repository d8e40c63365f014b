CONSTANTS
  N = 3
  Restarts = {1}
  Eager = {3}
  Teardowns = {1, 2}
  MaxBuild = 2
  MaxBatch = 2
  MaxThrow = 0
  MaxNoFork = 0
  MaxCrash = 1
  CrashAt = {"load", "compute"}
  CrashHow = {"sig"}
  MaxTrouble = 1
  HangAt = {"load", "reload", "compute"}
  Republished = {1}
SPECIFICATION RunnerSpec
PROPERTIES KeepsProtocol CallEnds
