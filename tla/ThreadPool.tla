----------------------------- MODULE ThreadPool -----------------------------
(***************************************************************************)
(* The worker pool of a generated engine (thread_pool.hpp): one caller     *)
(* that runs parallel_for and at last the destructor, and workers that     *)
(* spin on a generation counter and, when that takes too long, sleep on a  *)
(* condition variable.  Workers and the caller meet in three atomics and   *)
(* in first_exception; task_fn and task_ctx, written by the caller before  *)
(* it raises the generation, are the number of the call here.              *)
(*                                                                         *)
(* idle_mutex is not a variable: only workers take it, each to test its    *)
(* own condition, and the caller notifies without it.  What it does not    *)
(* do is make the test and the sleep one step for the caller.              *)
(***************************************************************************)
EXTENDS Integers, FiniteSets

CONSTANTS
  Workers,   \* tids of the pool's threads; the caller is tid 0
  GenSize,   \* number of values of the generation counter, 2^32 in the code
  MaxCall    \* bound: calls of parallel_for

ASSUME PoolAssumption ==
  /\ Workers \subseteq Nat \ {0} /\ IsFiniteSet(Workers)
  /\ GenSize \in Nat \ {0, 1}
  /\ MaxCall \in Nat

Threads == Workers \cup {0}

VARIABLES
  generation,
  done,      \* done_count
  shutdown,
  exception, \* first_exception: the call whose invocation threw, 0 if null
  call,      \* the call task_fn and task_ctx belong to
  mpc,       \* where the caller is
  outcome,   \* how the last call ended
  wpc,       \* where each worker is
  myGen,     \* my_gen
  runs       \* history: the invocations each thread has finished

callVars == <<exception, call, outcome>>
vars == <<generation, done, shutdown, callVars, mpc, wpc, myGen, runs>>

\* Where a worker is between two tasks.
Waiting == {"spin", "test", "falling", "asleep"}
WorkerSteps == Waiting \cup {"wake", "check", "run", "count", "exit"}

Busy == {"reset", "raise", "notify", "run", "wait", "finish"}
Closing == {"stop", "rouse", "join", "gone"}
CallerSteps == {"idle"} \cup Busy \cup Closing

Generations == 0..(GenSize - 1)

\* fetch_add(1): the counter wraps around.
Raised(g) == IF g = GenSize - 1 THEN 0 ELSE g + 1

Init ==
  /\ generation = 0 /\ done = 0 /\ shutdown = FALSE
  /\ exception = 0 /\ call = 0
  /\ mpc = "idle" /\ outcome = "none"
  /\ wpc = [w \in Workers |-> "spin"]
  /\ myGen = [w \in Workers |-> 0]
  /\ runs = [t \in Threads |-> 0]

Goto(w, p) == wpc' = [wpc EXCEPT ![w] = p]

\* Thread t returns from the callable or throws out of it; record_exception
\* keeps the first exception.
Invoke(t) ==
  /\ runs' = [runs EXCEPT ![t] = @ + 1]
  /\ exception' \in {exception, IF exception = 0 THEN call ELSE exception}

\* notify_all: the sleepers test their condition again.
NotifyAll == wpc' = [w \in Workers |-> IF wpc[w] = "asleep" THEN "test" ELSE wpc[w]]
---------------------------------------------------------------------------
(* Bug variants of the steps below, for the properties to catch.           *)

ResetLate ==                \* Notify: done_count is reset after the generation is raised
  /\ mpc = "notify"
  /\ done' = 0
  /\ NotifyAll
  /\ mpc' = "run"
  /\ UNCHANGED <<generation, shutdown, callVars, myGen, runs>>

KeepException ==            \* ResetCall: first_exception is not cleared
  /\ mpc = "reset"
  /\ done' = 0
  /\ mpc' = "raise"
  /\ UNCHANGED <<generation, shutdown, callVars, wpc, myGen, runs>>

WaitForAllButOne ==         \* WaitDone: need is off by one
  /\ mpc = "wait" /\ done >= Cardinality(Workers) - 1
  /\ mpc' = "finish"
  /\ UNCHANGED <<generation, done, shutdown, callVars, wpc, myGen, runs>>

StopLate ==                 \* Stop: shutdown is set after the generation
  /\ mpc = "idle"
  /\ mpc' = "stop"
  /\ UNCHANGED <<generation, done, shutdown, callVars, wpc, myGen, runs>>
---------------------------------------------------------------------------
(* parallel_for and the destructor, on the caller's thread.                *)

Install ==
  /\ mpc = "idle" /\ call < MaxCall
  /\ call' = call + 1
  /\ mpc' = "reset"
  /\ UNCHANGED <<generation, done, shutdown, exception, outcome, wpc, myGen, runs>>

ResetCall ==
  /\ mpc = "reset"
  /\ exception' = 0
  /\ done' = 0
  /\ mpc' = "raise"
  /\ UNCHANGED <<generation, shutdown, call, outcome, wpc, myGen, runs>>

RaiseGeneration ==
  /\ mpc = "raise"
  /\ generation' = Raised(generation)
  /\ mpc' = "notify"
  /\ UNCHANGED <<done, shutdown, callVars, wpc, myGen, runs>>

Notify ==
  /\ mpc = "notify"
  /\ NotifyAll
  /\ mpc' = "run"
  /\ UNCHANGED <<generation, done, shutdown, callVars, myGen, runs>>

\* f(0, num_threads).
RunOwn ==
  /\ mpc = "run"
  /\ Invoke(0)
  /\ mpc' = "wait"
  /\ UNCHANGED <<generation, done, shutdown, call, outcome, wpc, myGen>>

WaitDone ==
  /\ mpc = "wait" /\ done >= Cardinality(Workers)
  /\ mpc' = "finish"
  /\ UNCHANGED <<generation, done, shutdown, callVars, wpc, myGen, runs>>

Return ==
  /\ mpc = "finish"
  /\ outcome' = IF exception # 0 THEN "threw" ELSE "ok"
  /\ mpc' = "idle"
  /\ UNCHANGED <<generation, done, shutdown, exception, call, wpc, myGen, runs>>

Stop ==
  /\ mpc = "idle"
  /\ shutdown' = TRUE
  /\ mpc' = "stop"
  /\ UNCHANGED <<generation, done, callVars, wpc, myGen, runs>>

RaiseLast ==
  /\ mpc = "stop"
  /\ generation' = Raised(generation)
  /\ mpc' = "rouse"
  /\ UNCHANGED <<done, shutdown, callVars, wpc, myGen, runs>>

NotifyLast ==
  /\ mpc = "rouse"
  /\ NotifyAll
  /\ mpc' = "join"
  /\ UNCHANGED <<generation, done, shutdown, callVars, myGen, runs>>

Join ==
  /\ mpc = "join" /\ \A w \in Workers : wpc[w] = "exit"
  /\ mpc' = "gone"
  /\ UNCHANGED <<generation, done, shutdown, callVars, wpc, myGen, runs>>

\* What the caller does on its own once it is in the pool's code.
CallerStep ==
  \/ ResetCall \/ RaiseGeneration \/ Notify \/ RunOwn \/ WaitDone \/ Return
  \/ RaiseLast \/ NotifyLast \/ Join
---------------------------------------------------------------------------
(* The loop of a worker.                                                   *)

SeeGeneration(w) ==
  /\ wpc[w] = "spin" /\ generation # myGen[w]
  /\ Goto(w, "wake")
  /\ UNCHANGED <<generation, done, shutdown, callVars, mpc, myGen, runs>>

\* idle_spin_limit is reached; it may be 0, for never.
GiveUp(w) ==
  /\ wpc[w] = "spin" /\ generation = myGen[w]
  /\ Goto(w, "test")
  /\ UNCHANGED <<generation, done, shutdown, callVars, mpc, myGen, runs>>

\* idle_cv.wait tests the condition, and only then blocks.
TestCondition(w) ==
  /\ wpc[w] = "test"
  /\ Goto(w, IF generation # myGen[w] THEN "wake" ELSE "falling")
  /\ UNCHANGED <<generation, done, shutdown, callVars, mpc, myGen, runs>>

FallAsleep(w) ==
  /\ wpc[w] = "falling"
  /\ Goto(w, "asleep")
  /\ UNCHANGED <<generation, done, shutdown, callVars, mpc, myGen, runs>>

\* A condition variable may wake a thread for no reason; it need not.
SpuriousWakeup(w) ==
  /\ wpc[w] = "asleep"
  /\ Goto(w, "test")
  /\ UNCHANGED <<generation, done, shutdown, callVars, mpc, myGen, runs>>

TakeGeneration(w) ==
  /\ wpc[w] = "wake"
  /\ myGen' = [myGen EXCEPT ![w] = generation]
  /\ Goto(w, "check")
  /\ UNCHANGED <<generation, done, shutdown, callVars, mpc, runs>>

CheckShutdown(w) ==
  /\ wpc[w] = "check"
  /\ Goto(w, IF shutdown THEN "exit" ELSE "run")
  /\ UNCHANGED <<generation, done, shutdown, callVars, mpc, myGen, runs>>

\* task_fn(task_ctx, tid, num_threads).
RunTask(w) ==
  /\ wpc[w] = "run"
  /\ Invoke(w)
  /\ Goto(w, "count")
  /\ UNCHANGED <<generation, done, shutdown, call, outcome, mpc, myGen>>

CountDone(w) ==
  /\ wpc[w] = "count"
  /\ done' = done + 1
  /\ Goto(w, "spin")
  /\ UNCHANGED <<generation, shutdown, callVars, mpc, myGen, runs>>

WorkerStep(w) ==
  \/ SeeGeneration(w) \/ TestCondition(w) \/ FallAsleep(w) \/ TakeGeneration(w)
  \/ CheckShutdown(w) \/ RunTask(w) \/ CountDone(w)

Gone == mpc = "gone" /\ UNCHANGED vars

Next ==
  \/ Install \/ Stop \/ CallerStep \/ Gone
  \/ \E w \in Workers : WorkerStep(w) \/ GiveUp(w) \/ SpuriousWakeup(w)

\* Threads are scheduled and the callable returns.  Nothing obliges the caller
\* to make a call or to destroy the pool, a spinner to give up or a sleeper to
\* wake up unasked.
FairSpec == Init /\ [][Next]_vars /\ WF_vars(CallerStep)
                 /\ \A w \in Workers : WF_vars(WorkerStep(w))

Spec == Init /\ [][Next]_vars
---------------------------------------------------------------------------
(* Properties.                                                             *)

(* Types: no call counts more workers than there are.                      *)
TypeOK ==
  /\ generation \in Generations
  /\ done \in 0..Cardinality(Workers)
  /\ shutdown \in BOOLEAN
  /\ exception \in 0..MaxCall /\ call \in 0..MaxCall
  /\ mpc \in CallerSteps
  /\ outcome \in {"none", "ok", "threw"}
  /\ wpc \in [Workers -> WorkerSteps]
  /\ myGen \in [Workers -> Generations]
  /\ runs \in [Threads -> 0..MaxCall]

(* The callable lives on the stack of its call: a worker only gets to it   *)
(* while that call is in progress, and the caller never installs the next  *)
(* one under a worker's eyes.                                              *)
CallableAlive ==
  \A w \in Workers : wpc[w] \in {"run", "count"} => mpc \in {"notify", "run", "wait"}

(* The refinement mapping to what parallel_for promises.                   *)
Promise == INSTANCE ParallelFor WITH
  phase <- IF mpc \in Busy THEN "busy" ELSE IF mpc = "idle" THEN "idle" ELSE "over",
  left  <- IF mpc \in Busy THEN {t \in Threads : runs[t] < call} ELSE {},
  threw <- mpc \in Busy \ {"reset"} /\ exception # 0

(* Every call runs each invocation once, returns after the last one and    *)
(* rethrows exactly its own exceptions, however workers spin and sleep.    *)
KeepsPromise == Promise!Spec

(* "Sleep until parallel_for wakes us": a call wakes its workers and       *)
(* returns.                                                                *)
CallReturns == mpc \in Busy ~> mpc = "idle"

(* The destructor wakes the workers and joins them all.                    *)
PoolCloses == mpc = "stop" ~> mpc = "gone"

SleepsThrough(w) == wpc[w] = "asleep" /\ generation # myGen[w]
NoneLeftAsleep == \A w \in Workers : []<>~SleepsThrough(w)

(* A worker that sleeps through a raised generation is all that can keep a *)
(* call from returning: neither the counter that wraps around nor workers  *)
(* late by a call can.                                                     *)
ReturnsIfRoused == NoneLeftAsleep => CallReturns

(* And all that can keep the destructor from joining every worker.         *)
ClosesIfRoused == NoneLeftAsleep => PoolCloses
===========================================================================
