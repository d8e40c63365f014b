------------------------- MODULE MCEngineLifecycle -------------------------
(* EngineLifecycle for TLC: processes, pids and engine names are alike.     *)
EXTENDS EngineLifecycle, TLC

Alike == Permutations(Process) \cup Permutations(Pid) \cup Permutations(EngineId)
=============================================================================
