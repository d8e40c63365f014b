CONSTANTS
  N = 3
  Restarts = {1}
  Eager = {3}
  Teardowns = {1, 2}
  MaxBuild = 2
  MaxBatch = 2
  MaxThrow = 1
  MaxNoFork = 1
  MaxCrash = 2
  CrashAt = {"restart", "grace", "check", "stop", "reload", "compute", "record", "fork", "notify"}
  CrashHow = {"sig"}
SPECIFICATION FairSpec
INVARIANTS PipesDrained AnswerIsFresh InputProduced ChildTracked RecordNeverNewer
PROPERTIES RunAnswered TerminateEnds
