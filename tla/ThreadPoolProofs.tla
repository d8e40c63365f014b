------------------------- MODULE ThreadPoolProofs -------------------------
(***************************************************************************)
(* What the worker pool guarantees for any number of workers, any number   *)
(* of calls and any size of the generation counter, whichever workers      *)
(* sleep on the condition variable.                                        *)
(***************************************************************************)
EXTENDS ThreadPool, FiniteSetTheorems, TLAPS

(* A worker that has not seen the last generation, and one that has and is *)
(* waiting for the next.                                                   *)
Unaware(w) == wpc[w] \in Waiting \cup {"wake"} /\ myGen[w] # generation
Between(w) == wpc[w] \in Waiting /\ myGen[w] = generation

(* During a call a worker is on its way to the callable, in it, or behind. *)
InCall(w) ==
  \/ Unaware(w) /\ runs[w] = call - 1
  \/ wpc[w] \in {"check", "run"} /\ myGen[w] = generation /\ runs[w] = call - 1
  \/ wpc[w] = "count" /\ myGen[w] = generation /\ runs[w] = call
  \/ Between(w) /\ runs[w] = call

(* The last generation sends it out of its loop.                           *)
Leaving(w) ==
  /\ runs[w] = call
  /\ Unaware(w) \/ (wpc[w] \in {"check", "exit"} /\ myGen[w] = generation)

(* The workers that done_count has counted.                                *)
Counted == {w \in Workers : runs[w] = call /\ wpc[w] # "count"}

WorkersInv ==
  /\ mpc \in {"idle", "finish", "stop"} =>
       \A w \in Workers : Between(w) /\ runs[w] = call
  /\ mpc \in {"reset", "raise"} =>
       \A w \in Workers : Between(w) /\ runs[w] = call - 1
  /\ mpc \in {"notify", "run", "wait"} => \A w \in Workers : InCall(w)
  /\ mpc \in {"rouse", "join", "gone"} => \A w \in Workers : Leaving(w)

DoneInv ==
  /\ mpc = "raise" => done = 0
  /\ mpc \in {"notify", "run", "wait"} => done = Cardinality(Counted)

CallerInv ==
  /\ runs[0] = IF mpc \in {"reset", "raise", "notify", "run"} THEN call - 1 ELSE call
  /\ mpc \in Busy => call > 0
  /\ shutdown <=> mpc \in Closing

PoolInv == TypeOK /\ WorkersInv /\ DoneInv /\ CallerInv
---------------------------------------------------------------------------
LEMMA Constants ==
  /\ Workers \subseteq Nat /\ 0 \notin Workers /\ IsFiniteSet(Workers)
  /\ Cardinality(Workers) \in Nat
  /\ GenSize \in Nat /\ GenSize > 1 /\ MaxCall \in Nat
  BY PoolAssumption, FS_CardinalityType

(* Raising the generation is seen, also when it wraps around.              *)
LEMMA RaisedDiffers ==
  ASSUME NEW g \in Generations
  PROVE  Raised(g) \in Generations /\ Raised(g) # g
  BY Constants DEF Raised, Generations

LEMMA CountedFinite ==
  /\ IsFiniteSet(Counted) /\ Counted \subseteq Workers
  /\ Cardinality(Counted) \in 0..Cardinality(Workers)
  /\ Cardinality(Counted) = Cardinality(Workers) => Counted = Workers
<1>1. Counted \in SUBSET Workers
  BY DEF Counted
<1>2. /\ IsFiniteSet(Counted)
      /\ Cardinality(Counted) <= Cardinality(Workers)
      /\ Cardinality(Workers) = Cardinality(Counted) => Workers = Counted
  BY <1>1, Constants, FS_Subset
<1>3. Cardinality(Counted) \in Nat
  BY <1>2, FS_CardinalityType
<1>4. QED
  BY <1>1, <1>2, <1>3, Constants

LEMMA InitInv == Init => PoolInv
<1> SUFFICES ASSUME Init PROVE PoolInv
  OBVIOUS
<1> USE Constants DEF Init
<1>1. TypeOK
  <2>1. wpc \in [Workers -> WorkerSteps] /\ mpc \in CallerSteps
    BY DEF WorkerSteps, Waiting, CallerSteps
  <2>2. generation \in Generations /\ myGen \in [Workers -> Generations]
    BY DEF Generations
  <2>3. runs \in [Threads -> 0..MaxCall]
    OBVIOUS
  <2>4. /\ done \in 0..Cardinality(Workers) /\ outcome \in {"none", "ok", "threw"}
        /\ exception \in 0..MaxCall /\ call \in 0..MaxCall
    OBVIOUS
  <2>5. shutdown \in BOOLEAN
    OBVIOUS
  <2>6. QED
    BY <2>1, <2>2, <2>3, <2>4, <2>5, Zenon DEF TypeOK
<1>2. WorkersInv
  BY DEF WorkersInv, Between, Waiting, Threads
<1>3. DoneInv /\ CallerInv
  <2>1. 0 \in Threads
    BY DEF Threads
  <2>2. runs[0] = 0 /\ mpc \notin Busy /\ mpc \notin Closing
    BY <2>1 DEF Busy, Closing
  <2>3. ~shutdown
    BY Zenon
  <2>4. shutdown <=> mpc \in Closing
    BY <2>2, <2>3, Zenon
  <2>5. QED
    BY <2>2, <2>4 DEF DoneInv, CallerInv
<1>4. QED
  BY <1>1, <1>2, <1>3 DEF PoolInv
---------------------------------------------------------------------------
(* The steps of the caller.                                                *)

LEMMA InstallStep == PoolInv /\ Install => PoolInv'
<1> SUFFICES ASSUME PoolInv, Install PROVE PoolInv'
  OBVIOUS
<1> USE Constants DEF PoolInv, Install
<1>1. TypeOK'
  BY DEF TypeOK, CallerSteps, Busy
<1>2. WorkersInv'
  BY DEF WorkersInv, Between, TypeOK
<1>3. DoneInv' /\ CallerInv'
  BY DEF DoneInv, CallerInv, Busy, Closing, TypeOK
<1>4. QED
  BY <1>1, <1>2, <1>3

LEMMA ResetStep == PoolInv /\ ResetCall => PoolInv'
<1> SUFFICES ASSUME PoolInv, ResetCall PROVE PoolInv'
  OBVIOUS
<1> USE Constants DEF PoolInv, ResetCall
<1>1. TypeOK'
  BY DEF TypeOK, CallerSteps, Busy
<1>2. WorkersInv'
  BY DEF WorkersInv, Between
<1>3. DoneInv' /\ CallerInv'
  BY DEF DoneInv, CallerInv, Busy, Closing
<1>4. QED
  BY <1>1, <1>2, <1>3

(* Every worker waits with the old generation: none has counted yet.       *)
LEMMA RaiseStep == PoolInv /\ RaiseGeneration => PoolInv'
<1> SUFFICES ASSUME PoolInv, RaiseGeneration PROVE PoolInv'
  OBVIOUS
<1> USE Constants DEF PoolInv, RaiseGeneration
<1>1. generation' \in Generations /\ generation' # generation
  BY RaisedDiffers DEF TypeOK
<1>2. TypeOK'
  BY <1>1 DEF TypeOK, CallerSteps, Busy, callVars
<1>3. WorkersInv'
  BY <1>1 DEF WorkersInv, Between, InCall, Unaware, callVars
<1>4. Counted' = {}
  <2>1. \A w \in Workers : runs'[w] # call'
    BY DEF WorkersInv, TypeOK, callVars
  <2>2. QED
    BY <2>1 DEF Counted
<1>5. DoneInv'
  BY <1>4, FS_EmptySet DEF DoneInv, callVars
<1>6. CallerInv'
  BY DEF CallerInv, Busy, Closing, callVars
<1>7. QED
  BY <1>2, <1>3, <1>5, <1>6

(* notify_all moves workers within Waiting.                                *)
LEMMA NotifyWorkers ==
  ASSUME TypeOK, NotifyAll, UNCHANGED <<generation, myGen, runs, call>>
  PROVE  /\ wpc' \in [Workers -> WorkerSteps]
         /\ \A w \in Workers : InCall(w) => InCall(w)'
         /\ \A w \in Workers : Leaving(w) => Leaving(w)'
         /\ Counted' = Counted
<1>1. wpc' \in [Workers -> WorkerSteps]
  BY DEF NotifyAll, TypeOK, WorkerSteps, Waiting
<1>2. \A w \in Workers :
        IF wpc[w] = "asleep" THEN wpc'[w] = "test" ELSE wpc'[w] = wpc[w]
  BY DEF NotifyAll
<1>3. ASSUME NEW w \in Workers, InCall(w) PROVE InCall(w)'
  BY <1>2, <1>3 DEF InCall, Unaware, Between, Waiting
<1>4. ASSUME NEW w \in Workers, Leaving(w) PROVE Leaving(w)'
  BY <1>2, <1>4 DEF Leaving, Unaware, Waiting
<1>5. Counted' = Counted
  BY <1>2 DEF Counted
<1>6. QED
  BY <1>1, <1>3, <1>4, <1>5

LEMMA NotifyStep == PoolInv /\ (Notify \/ NotifyLast) => PoolInv'
<1> SUFFICES ASSUME PoolInv, Notify \/ NotifyLast PROVE PoolInv'
  OBVIOUS
<1> USE DEF PoolInv, Notify, NotifyLast
<1>1. /\ NotifyAll
      /\ UNCHANGED <<generation, done, shutdown, exception, call, outcome, myGen, runs>>
      /\ \/ mpc = "notify" /\ mpc' = "run"
         \/ mpc = "rouse" /\ mpc' = "join"
  BY DEF callVars
<1>2. /\ wpc' \in [Workers -> WorkerSteps]
      /\ \A w \in Workers : InCall(w) => InCall(w)'
      /\ \A w \in Workers : Leaving(w) => Leaving(w)'
      /\ Counted' = Counted
  BY <1>1, NotifyWorkers
<1>3. TypeOK'
  BY <1>1, <1>2 DEF TypeOK, CallerSteps, Busy, Closing
<1>4. WorkersInv'
  BY <1>1, <1>2 DEF WorkersInv
<1>5. DoneInv' /\ CallerInv'
  BY <1>1, <1>2 DEF DoneInv, CallerInv, Busy, Closing
<1>6. QED
  BY <1>3, <1>4, <1>5

LEMMA RunOwnStep == PoolInv /\ RunOwn => PoolInv'
<1> SUFFICES ASSUME PoolInv, RunOwn PROVE PoolInv'
  OBVIOUS
<1> USE Constants DEF PoolInv, RunOwn
<1>1. /\ runs[0] = call - 1
      /\ runs' = [runs EXCEPT ![0] = @ + 1]
      /\ exception' \in {exception, call}
      /\ call > 0
  BY DEF CallerInv, Invoke, Busy
<1>2. /\ runs'[0] = call /\ runs' \in [Threads -> 0..MaxCall]
      /\ \A w \in Workers : runs'[w] = runs[w]
  BY <1>1 DEF TypeOK, Threads
<1>3. TypeOK'
  BY <1>1, <1>2 DEF TypeOK, CallerSteps, Busy
<1>4. WorkersInv'
  BY <1>2 DEF WorkersInv, InCall, Unaware, Between
<1>5. Counted' = Counted
  BY <1>2 DEF Counted
<1>6. DoneInv' /\ CallerInv'
  BY <1>2, <1>5 DEF DoneInv, CallerInv, Busy, Closing
<1>7. QED
  BY <1>3, <1>4, <1>6

(* done_count reaches num_threads - 1: all workers have counted.           *)
LEMMA WaitDoneStep == PoolInv /\ WaitDone => PoolInv'
<1> SUFFICES ASSUME PoolInv, WaitDone PROVE PoolInv'
  OBVIOUS
<1> USE DEF PoolInv, WaitDone
<1>1. Counted = Workers
  BY Constants, CountedFinite DEF DoneInv, TypeOK
<1>2. \A w \in Workers : Between(w) /\ runs[w] = call
  BY <1>1, Constants DEF WorkersInv, InCall, Counted, TypeOK
<1>3. TypeOK'
  BY DEF TypeOK, CallerSteps, Busy, callVars
<1>4. WorkersInv'
  BY <1>2 DEF WorkersInv, Between, callVars
<1>5. DoneInv' /\ CallerInv'
  BY DEF DoneInv, CallerInv, Busy, Closing, callVars
<1>6. QED
  BY <1>3, <1>4, <1>5

LEMMA ReturnStep == PoolInv /\ Return => PoolInv'
<1> SUFFICES ASSUME PoolInv, Return PROVE PoolInv'
  OBVIOUS
<1> USE DEF PoolInv, Return
<1>1. TypeOK'
  BY DEF TypeOK, CallerSteps
<1>2. WorkersInv'
  BY DEF WorkersInv, Between
<1>3. DoneInv' /\ CallerInv'
  BY DEF DoneInv, CallerInv, Busy, Closing
<1>4. QED
  BY <1>1, <1>2, <1>3

LEMMA StopStep == PoolInv /\ Stop => PoolInv'
<1> SUFFICES ASSUME PoolInv, Stop PROVE PoolInv'
  OBVIOUS
<1> USE DEF PoolInv, Stop
<1>1. TypeOK'
  BY DEF TypeOK, CallerSteps, Closing, callVars
<1>2. WorkersInv'
  BY DEF WorkersInv, Between, callVars
<1>3. DoneInv' /\ CallerInv'
  BY DEF DoneInv, CallerInv, Busy, Closing, callVars
<1>4. QED
  BY <1>1, <1>2, <1>3

LEMMA RaiseLastStep == PoolInv /\ RaiseLast => PoolInv'
<1> SUFFICES ASSUME PoolInv, RaiseLast PROVE PoolInv'
  OBVIOUS
<1> USE DEF PoolInv, RaiseLast
<1>1. generation' \in Generations /\ generation' # generation
  BY RaisedDiffers DEF TypeOK
<1>2. TypeOK'
  BY <1>1 DEF TypeOK, CallerSteps, Closing, callVars
<1>3. WorkersInv'
  BY <1>1 DEF WorkersInv, Between, Leaving, Unaware, callVars
<1>4. DoneInv' /\ CallerInv'
  BY DEF DoneInv, CallerInv, Busy, Closing, callVars
<1>5. QED
  BY <1>2, <1>3, <1>4

LEMMA JoinStep == PoolInv /\ Join => PoolInv'
<1> SUFFICES ASSUME PoolInv, Join PROVE PoolInv'
  OBVIOUS
<1> USE DEF PoolInv, Join
<1>1. TypeOK'
  BY DEF TypeOK, CallerSteps, Closing, callVars
<1>2. WorkersInv'
  BY DEF WorkersInv, Leaving, Unaware, callVars
<1>3. DoneInv' /\ CallerInv'
  BY DEF DoneInv, CallerInv, Busy, Closing, callVars
<1>4. QED
  BY <1>1, <1>2, <1>3
---------------------------------------------------------------------------
(* The steps of a worker.  Those outside the callable only change where it *)
(* is, and perhaps the generation it knows.                                *)

Elsewhere(w) == \A v \in Workers \ {w} : wpc'[v] = wpc[v] /\ myGen'[v] = myGen[v]
                                          /\ runs'[v] = runs[v]

LEMMA OthersKeep ==
  ASSUME NEW w \in Workers, Elsewhere(w), UNCHANGED <<generation, call>>,
         NEW v \in Workers, v # w
  PROVE  /\ InCall(v)' <=> InCall(v)
         /\ Leaving(v)' <=> Leaving(v)
         /\ Between(v)' <=> Between(v)
  BY DEF Elsewhere, InCall, Leaving, Between, Unaware

LEMMA WaitingStep ==
  ASSUME NEW w \in Workers, PoolInv,
         SeeGeneration(w) \/ GiveUp(w) \/ TestCondition(w) \/ FallAsleep(w)
           \/ SpuriousWakeup(w)
  PROVE  PoolInv'
<1> USE DEF PoolInv, SeeGeneration, GiveUp, TestCondition, FallAsleep, SpuriousWakeup
<1>1. /\ wpc[w] \in Waiting
      /\ wpc'[w] \in Waiting \/ (wpc'[w] = "wake" /\ generation # myGen[w])
      /\ wpc' = [wpc EXCEPT ![w] = wpc'[w]]
      /\ UNCHANGED <<generation, done, shutdown, exception, call, outcome, mpc, myGen, runs>>
  BY DEF Goto, TypeOK, Waiting, callVars
<1>2. Elsewhere(w)
  BY <1>1 DEF Elsewhere, TypeOK
<1>3. TypeOK'
  BY <1>1 DEF TypeOK, WorkerSteps, Waiting
<1>4. /\ Between(w) => Between(w)'
      /\ InCall(w) => InCall(w)'
      /\ Leaving(w) => Leaving(w)'
  BY <1>1 DEF Between, InCall, Leaving, Unaware, Waiting
<1>5. WorkersInv'
  BY <1>1, <1>2, <1>4, OthersKeep DEF WorkersInv, Between
<1>6. Counted' = Counted
  BY <1>1, <1>2 DEF Counted, Elsewhere, Waiting
<1>7. DoneInv' /\ CallerInv'
  BY <1>1, <1>6 DEF DoneInv, CallerInv
<1>8. QED
  BY <1>3, <1>5, <1>7

LEMMA TakeStep ==
  ASSUME NEW w \in Workers, PoolInv, TakeGeneration(w) PROVE PoolInv'
<1> USE DEF PoolInv, TakeGeneration
<1>1. /\ wpc[w] = "wake" /\ wpc'[w] = "check" /\ myGen'[w] = generation
      /\ UNCHANGED <<generation, done, shutdown, exception, call, outcome, mpc, runs>>
  BY DEF Goto, TypeOK, callVars
<1>2. Elsewhere(w)
  BY DEF Elsewhere, TypeOK, Goto
<1>3. TypeOK'
  BY DEF TypeOK, WorkerSteps, Goto, callVars
<1>4. /\ ~Between(w)
      /\ InCall(w) => InCall(w)'
      /\ Leaving(w) => Leaving(w)'
  BY <1>1 DEF Between, InCall, Leaving, Unaware, Waiting
<1>5. WorkersInv'
  BY <1>1, <1>2, <1>4, OthersKeep DEF WorkersInv
<1>6. Counted' = Counted
  BY <1>1, <1>2 DEF Counted, Elsewhere
<1>7. DoneInv' /\ CallerInv'
  BY <1>1, <1>6 DEF DoneInv, CallerInv
<1>8. QED
  BY <1>3, <1>5, <1>7

(* shutdown is set if and only if the generation was the last one.         *)
LEMMA CheckStep ==
  ASSUME NEW w \in Workers, PoolInv, CheckShutdown(w) PROVE PoolInv'
<1> USE DEF PoolInv, CheckShutdown
<1>1. /\ wpc[w] = "check" /\ wpc'[w] = IF shutdown THEN "exit" ELSE "run"
      /\ UNCHANGED <<generation, done, shutdown, exception, call, outcome, mpc, myGen, runs>>
  BY DEF Goto, TypeOK, callVars
<1>2. Elsewhere(w)
  BY DEF Elsewhere, TypeOK, Goto, callVars
<1>3. TypeOK'
  BY DEF TypeOK, WorkerSteps, Goto, callVars
<1>4. mpc \in {"notify", "run", "wait", "rouse", "join", "gone"}
  BY <1>1 DEF WorkersInv, Between, Waiting, TypeOK, CallerSteps, Busy, Closing
<1>5. CASE shutdown
  <2>1. mpc \in {"rouse", "join", "gone"}
    BY <1>4, <1>5 DEF CallerInv, Closing
  <2>2. Leaving(w)'
    BY <1>1, <1>5, <2>1 DEF WorkersInv, Leaving, Unaware, Waiting
  <2>3. QED
    BY <1>1, <1>2, <2>1, <2>2, <1>3, OthersKeep DEF WorkersInv, DoneInv, CallerInv
<1>6. CASE ~shutdown
  <2>1. mpc \in {"notify", "run", "wait"}
    BY <1>4, <1>6 DEF CallerInv, Closing
  <2>2. InCall(w)'
    BY <1>1, <1>6, <2>1 DEF WorkersInv, InCall, Between, Unaware, Waiting
  <2>3. WorkersInv'
    BY <1>1, <1>2, <2>1, <2>2, OthersKeep DEF WorkersInv
  <2>4. Counted' = Counted
    BY <1>1, <1>2, <1>6 DEF Counted, Elsewhere
  <2>5. DoneInv' /\ CallerInv'
    BY <1>1, <2>4 DEF DoneInv, CallerInv
  <2>6. QED
    BY <1>3, <2>3, <2>5
<1>7. QED
  BY <1>5, <1>6

(* A worker in the callable: a call is in progress.                        *)
LEMMA AtWork ==
  ASSUME NEW w \in Workers, PoolInv, wpc[w] \in {"run", "count"}
  PROVE  /\ mpc \in {"notify", "run", "wait"}
         /\ myGen[w] = generation
         /\ runs[w] = IF wpc[w] = "run" THEN call - 1 ELSE call
<1>1. mpc \in {"notify", "run", "wait"}
  BY DEF PoolInv, WorkersInv, Between, Leaving, Unaware, Waiting, TypeOK, CallerSteps,
         Busy, Closing
<1>2. QED
  BY <1>1 DEF PoolInv, WorkersInv, InCall, Between, Unaware, Waiting

LEMMA TaskStep ==
  ASSUME NEW w \in Workers, PoolInv, RunTask(w) PROVE PoolInv'
<1> USE Constants DEF PoolInv, RunTask
<1>1. mpc \in {"notify", "run", "wait"} /\ myGen[w] = generation /\ runs[w] = call - 1
  BY AtWork
<1>2. /\ wpc[w] = "run" /\ wpc'[w] = "count"
      /\ exception' \in {exception, call}
      /\ UNCHANGED <<generation, done, shutdown, call, outcome, mpc, myGen>>
  BY DEF Goto, TypeOK, Invoke
<1>3. /\ runs' \in [Threads -> 0..MaxCall]
      /\ runs'[w] = call
      /\ \A t \in Threads \ {w} : runs'[t] = runs[t]
  <2>1. w \in Threads /\ runs' = [runs EXCEPT ![w] = @ + 1]
    BY DEF Threads, Invoke
  <2>2. QED
    BY <1>1, <2>1 DEF TypeOK
<1>4. Elsewhere(w)
  BY <1>3 DEF Elsewhere, TypeOK, Goto, Threads
<1>5. TypeOK'
  BY <1>2, <1>3 DEF TypeOK, WorkerSteps, Goto
<1>6. WorkersInv'
  BY <1>1, <1>2, <1>3, <1>4, OthersKeep DEF WorkersInv, InCall
<1>7. Counted' = Counted
  <2>1. call \in Int
    BY DEF TypeOK
  <2>2. runs[w] # call /\ wpc'[w] = "count"
    BY <1>1, <1>2, <2>1
  <2>3. QED
    BY <1>2, <1>4, <2>2 DEF Counted, Elsewhere
<1>8. runs'[0] = runs[0]
  BY <1>3 DEF Threads
<1>9. DoneInv' /\ CallerInv'
  BY <1>2, <1>7, <1>8 DEF DoneInv, CallerInv
<1>10. QED
  BY <1>5, <1>6, <1>9

LEMMA CountStep ==
  ASSUME NEW w \in Workers, PoolInv, CountDone(w) PROVE PoolInv'
<1> USE Constants DEF PoolInv, CountDone
<1>1. mpc \in {"notify", "run", "wait"} /\ myGen[w] = generation /\ runs[w] = call
  BY AtWork
<1>2. /\ wpc[w] = "count" /\ wpc'[w] = "spin" /\ done' = done + 1
      /\ UNCHANGED <<generation, shutdown, exception, call, outcome, mpc, myGen, runs>>
  BY DEF Goto, TypeOK, callVars
<1>3. Elsewhere(w)
  BY DEF Elsewhere, TypeOK, Goto, callVars
<1>4. WorkersInv'
  BY <1>1, <1>2, <1>3, OthersKeep DEF WorkersInv, InCall, Between, Waiting
<1>5. w \notin Counted /\ Counted' = Counted \cup {w}
  BY <1>1, <1>2, <1>3 DEF Counted, Elsewhere
<1>6. Cardinality(Counted') = Cardinality(Counted) + 1
  BY <1>5, CountedFinite, FS_AddElement
<1>7. Cardinality(Counted') \in 0..Cardinality(Workers)
  <2>1. Counted' \in SUBSET Workers
    BY <1>5, CountedFinite
  <2>2. Cardinality(Counted') <= Cardinality(Workers)
    BY <2>1, FS_Subset
  <2>3. QED
    BY <1>6, <2>2, CountedFinite
<1>8. done' = Cardinality(Counted')
  BY <1>1, <1>2, <1>6 DEF DoneInv
<1>9. TypeOK'
  BY <1>2, <1>7, <1>8 DEF TypeOK, WorkerSteps, Waiting, Goto
<1>10. DoneInv' /\ CallerInv'
  BY <1>1, <1>2, <1>8 DEF DoneInv, CallerInv
<1>11. QED
  BY <1>4, <1>9, <1>10
---------------------------------------------------------------------------
LEMMA StepInv == PoolInv /\ [Next]_vars => PoolInv'
<1> SUFFICES ASSUME PoolInv, [Next]_vars PROVE PoolInv'
  OBVIOUS
<1>1. CASE Install
  BY <1>1, InstallStep
<1>2. CASE Stop
  BY <1>2, StopStep
<1>3. CASE CallerStep
  BY <1>3, ResetStep, RaiseStep, NotifyStep, RunOwnStep, WaitDoneStep, ReturnStep,
     RaiseLastStep, JoinStep DEF CallerStep
<1>4. ASSUME NEW w \in Workers, WorkerStep(w) \/ GiveUp(w) \/ SpuriousWakeup(w) PROVE PoolInv'
  BY <1>4, WaitingStep, TakeStep, CheckStep, TaskStep, CountStep DEF WorkerStep
<1>5. CASE Gone \/ UNCHANGED vars
  <2>1. UNCHANGED <<generation, done, shutdown, exception, call, outcome, mpc, wpc, myGen, runs>>
    BY <1>5 DEF Gone, vars, callVars
  <2>2. TypeOK' /\ CallerInv'
    BY <2>1 DEF PoolInv, TypeOK, CallerInv
  <2>3. WorkersInv'
    BY <2>1 DEF PoolInv, WorkersInv, InCall, Leaving, Between, Unaware
  <2>4. Counted' = Counted
    BY <2>1 DEF Counted
  <2>5. DoneInv'
    BY <2>1, <2>4 DEF PoolInv, DoneInv
  <2>6. QED
    BY <2>2, <2>3, <2>5 DEF PoolInv
<1>6. QED
  BY <1>1, <1>2, <1>3, <1>4, <1>5 DEF Next

LEMMA Invariance == Spec => []PoolInv
  BY InitInv, StepInv, PTL DEF Spec

(* For any number of workers and calls the variables keep their types:     *)
(* done_count never exceeds the number of workers.                         *)
THEOREM PoolTypeCorrect == Spec => []TypeOK
<1>1. PoolInv => TypeOK
  BY DEF PoolInv
<1>2. QED
  BY <1>1, Invariance, PTL

(* The callable, which lives on the caller's stack, is only reached while  *)
(* its call is in progress, whatever the size of the generation counter.   *)
THEOREM CallableOutlivesUse == Spec => []CallableAlive
<1>1. PoolInv => CallableAlive
  BY AtWork DEF CallableAlive
<1>2. QED
  BY <1>1, Invariance, PTL
---------------------------------------------------------------------------
(* The pool implements ParallelFor.                                        *)

LEMMA InitMaps == Init => Promise!Init
<1> SUFFICES ASSUME Init PROVE Promise!Init
  OBVIOUS
<1>1. mpc \notin Busy /\ mpc = "idle" /\ outcome = "none"
  BY DEF Init, Busy
<1>2. QED
  BY <1>1 DEF Promise!Init

LEMMA CallMaps ==
  ASSUME PoolInv, Install PROVE Promise!Call
<1>1. /\ mpc = "idle" /\ mpc' = "reset" /\ call' = call + 1
      /\ UNCHANGED <<outcome, runs>>
  BY DEF Install
<1>2. \A t \in Threads : runs[t] = call
  BY <1>1 DEF PoolInv, WorkersInv, CallerInv, Threads
<1>3. {t \in Threads : runs'[t] < call'} = Threads
  BY <1>1, <1>2 DEF PoolInv, TypeOK
<1>4. QED
  BY <1>1, <1>3 DEF Promise!Call, Busy

(* An invocation that ends is one of the current call, and not yet ended.  *)
LEMMA FinishMaps ==
  ASSUME PoolInv, NEW t \in Threads, mpc \in Busy \ {"reset"}, mpc' \in Busy \ {"reset"},
         runs[t] = call - 1, Invoke(t), UNCHANGED <<call, outcome>>
  PROVE  Promise!Finish(t)
<1>1. call \in Nat /\ call > 0 /\ exception \in Nat
  BY Constants DEF PoolInv, TypeOK, CallerInv
<1>2. /\ runs'[t] = call
      /\ \A u \in Threads \ {t} : runs'[u] = runs[u]
  BY <1>1 DEF Invoke, PoolInv, TypeOK
<1>3. /\ t \in {u \in Threads : runs[u] < call}
      /\ {u \in Threads : runs'[u] < call'} = {u \in Threads : runs[u] < call} \ {t}
  BY <1>1, <1>2
<1>4. \/ (exception' # 0) = (exception # 0)
      \/ exception' # 0
  BY <1>1 DEF Invoke
<1>5. QED
  BY <1>3, <1>4 DEF Promise!Finish

LEMMA ReturnMaps ==
  ASSUME PoolInv, Return PROVE Promise!Return
<1>1. /\ mpc = "finish" /\ mpc' = "idle"
      /\ outcome' = IF exception # 0 THEN "threw" ELSE "ok"
  BY DEF Return
<1>2. \A t \in Threads : runs[t] = call
  BY <1>1 DEF PoolInv, WorkersInv, CallerInv, Threads
<1>3. {t \in Threads : runs[t] < call} = {}
  BY <1>2 DEF PoolInv, TypeOK
<1>4. QED
  BY <1>1, <1>3 DEF Promise!Return, Busy

LEMMA DestroyMaps == Stop => Promise!Destroy
  BY DEF Stop, callVars, Promise!Destroy, Busy

(* The steps between: only what the promise does not mention changes.      *)
LEMMA Stutters ==
  ASSUME UNCHANGED <<call, runs, outcome>>,
         \/ mpc' = mpc /\ exception' = exception
         \/ mpc = "reset" /\ exception' = 0 /\ mpc' = "raise"
         \/ {mpc, mpc'} \subseteq Busy \ {"reset"} /\ exception' = exception
         \/ {mpc, mpc'} \subseteq Closing /\ exception' = exception
  PROVE  UNCHANGED Promise!vars
<1>1. (mpc' \in Busy) = (mpc \in Busy) /\ (mpc' = "idle") = (mpc = "idle")
  BY DEF Busy, Closing
<1>2. (mpc' \in Busy \ {"reset"} /\ exception' # 0) = (mpc \in Busy \ {"reset"} /\ exception # 0)
  BY DEF Busy, Closing
<1>3. QED
  BY <1>1, <1>2 DEF Promise!vars

LEMMA StepMaps == PoolInv /\ [Next]_vars => [Promise!Next]_(Promise!vars)
<1> SUFFICES ASSUME PoolInv, [Next]_vars PROVE Promise!Next \/ UNCHANGED Promise!vars
  OBVIOUS
<1>1. CASE Install
  BY <1>1, CallMaps DEF Promise!Next
<1>2. CASE Stop
  BY <1>2, DestroyMaps DEF Promise!Next
<1>3. CASE RunOwn
  <2>1. /\ 0 \in Threads /\ mpc \in Busy \ {"reset"} /\ mpc' \in Busy \ {"reset"}
        /\ runs[0] = call - 1 /\ Invoke(0) /\ UNCHANGED <<call, outcome>>
    BY <1>3 DEF RunOwn, PoolInv, CallerInv, Busy, Threads
  <2>2. QED
    BY <2>1, FinishMaps DEF Promise!Next
<1>4. CASE Return
  BY <1>4, ReturnMaps DEF Promise!Next
<1>5. CASE ResetCall \/ RaiseGeneration \/ Notify \/ WaitDone
  BY <1>5, Stutters DEF ResetCall, RaiseGeneration, Notify, WaitDone, callVars, Busy
<1>6. CASE RaiseLast \/ NotifyLast \/ Join
  BY <1>6, Stutters DEF RaiseLast, NotifyLast, Join, callVars, Closing
<1>7. ASSUME NEW w \in Workers, WorkerStep(w) \/ GiveUp(w) \/ SpuriousWakeup(w)
      PROVE Promise!Next \/ UNCHANGED Promise!vars
  <2>1. CASE RunTask(w)
    <3>1. w \in Threads /\ mpc \in Busy \ {"reset"} /\ runs[w] = call - 1
      BY <2>1, AtWork DEF RunTask, Threads, Busy
    <3>2. Invoke(w) /\ UNCHANGED <<call, outcome, mpc>>
      BY <2>1 DEF RunTask
    <3>3. QED
      BY <3>1, <3>2, FinishMaps DEF Promise!Next
  <2>2. CASE ~RunTask(w)
    <3>1. UNCHANGED <<call, runs, outcome, mpc, exception>>
      BY <1>7, <2>2 DEF WorkerStep, SeeGeneration, GiveUp, TestCondition, FallAsleep,
         SpuriousWakeup, TakeGeneration, CheckShutdown, CountDone, callVars
    <3>2. QED
      BY <3>1, Stutters
  <2>3. QED
    BY <2>1, <2>2
<1>8. CASE Gone \/ UNCHANGED vars
  BY <1>8, Stutters DEF Gone, vars, callVars
<1>9. QED
  BY <1>1, <1>2, <1>3, <1>4, <1>5, <1>6, <1>7, <1>8 DEF Next, CallerStep

(* parallel_for runs every invocation once, returns after the last and     *)
(* rethrows exactly its own exceptions, for any number of workers and      *)
(* calls: the pool implements ParallelFor.                                 *)
THEOREM PoolImplementsPromise == Spec => KeepsPromise
  BY InitMaps, StepMaps, Invariance, PTL DEF Spec, KeepsPromise, Promise!Spec
===========================================================================
