---------------------------- MODULE ParallelFor ----------------------------
(***************************************************************************)
(* What ThreadPool::parallel_for promises its caller (thread_pool.hpp):    *)
(* every invocation of the callable is made once, the call returns when    *)
(* all of them have finished, and it rethrows if and only if one of them   *)
(* threw.  The pool is destroyed between two calls.                        *)
(***************************************************************************)
CONSTANT Threads  \* the invocations of one call, tid 0 (the caller's) included

VARIABLES
  phase,    \* "idle", "busy" or "over"
  left,     \* invocations of the current call that have not finished
  threw,    \* whether one of them threw
  outcome   \* how the last call ended

vars == <<phase, left, threw, outcome>>

Init == phase = "idle" /\ left = {} /\ threw = FALSE /\ outcome = "none"

Call ==
  /\ phase = "idle"
  /\ phase' = "busy"
  /\ left' = Threads
  /\ UNCHANGED <<threw, outcome>>

Finish(t) ==
  /\ phase = "busy" /\ t \in left
  /\ left' = left \ {t}
  /\ threw' \in {threw, TRUE}
  /\ UNCHANGED <<phase, outcome>>

Return ==
  /\ phase = "busy" /\ left = {}
  /\ phase' = "idle"
  /\ outcome' = IF threw THEN "threw" ELSE "ok"
  /\ threw' = FALSE
  /\ UNCHANGED left

Destroy ==
  /\ phase = "idle"
  /\ phase' = "over"
  /\ UNCHANGED <<left, threw, outcome>>

Next == Call \/ (\E t \in Threads : Finish(t)) \/ Return \/ Destroy

Spec == Init /\ [][Next]_vars
===========================================================================
