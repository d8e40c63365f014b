-------------------------- MODULE HotpatchProofs --------------------------
(***************************************************************************)
(* What holds of the warm process tree for every number of stages, every   *)
(* policy, any number of publications and batches, and any crashes, throws *)
(* and failed forks within the declared bounds; and, from the same         *)
(* invariants, what holds of the answers HotpatchProc.run returns.         *)
(***************************************************************************)
EXTENDS HotpatchRunner, TLAPS, WellFoundedInduction

(* A stage past its constructor has dlopened some version of its plugin.   *)
LoadedPastLoad == \A s \in Stages : Live(s) /\ pc[s] # "load" => loaded[s] # 0

(* The terminal stage never gets to the steps that concern a child.        *)
TerminalHasNoChild == pc[N] \notin {"grace", "stop", "record", "fork", "notify"}

(* Between the decision to recompute and the fork a stage has no child.    *)
NoChildWhileBuilding ==
  \A s \in Stages : pc[s] \in {"reload", "compute", "record", "fork"} => ~active[s]

(* Only a stage that has run forks a child.                                *)
ForkAfterRun ==
  /\ \A s \in Stages : pc[s] \in {"record", "fork"} => hasRun[s]
  /\ \A s \in Stages : active[s] => hasRun[s]

(* The recorded build id was read from disk, where ids only grow.          *)
RecordWasOnDisk == \A s \in Restarts : lastId[s] <= file[s + 1]

TreeInv ==
  /\ TerminalHasNoChild
  /\ NoChildWhileBuilding
  /\ ForkAfterRun
  /\ ChildTracked
  /\ RecordWasOnDisk
  /\ RecordNeverNewer
---------------------------------------------------------------------------
VarTypes == TypeOK /\ LoadedPastLoad

(* What the steps below need of the assumption on the constants.           *)
LEMMA Bounds ==
  /\ N \in Nat \ {0} /\ MaxBuild \in Nat \ {0} /\ MaxBatch \in Nat
  /\ MaxThrow \in Nat /\ MaxNoFork \in Nat /\ MaxCrash \in Nat
  /\ CrashHow \subseteq Statuses
  BY PipelineAssumption DEF Statuses

LEMMA BuildTypes ==
  /\ BuildIds \subseteq Nat
  /\ Builds \subseteq BuildIds /\ 0 \in BuildIds /\ 0 \notin Builds
  /\ \A b \in BuildIds : b # 0 => b \in Builds
  BY Bounds DEF Builds, BuildIds

(* The control messages, the empty trace and what they carry.              *)
LEMMA MessageTypes ==
  /\ Terminate \in Message
  /\ \A b \in Batches : Run(b) \in Message
  /\ \A m \in Message : m.of \in Batches
  /\ 0 \in Batches
  BY Bounds DEF Terminate, Run, Message, Batches

LEMMA OutcomeTypes ==
  /\ Statuses \subseteq Outcome
  /\ {"ok", "threw", "nochild"} \subseteq Outcome
  BY DEF Outcome

(* Extending what a stage was given by its own build id gives a value.     *)
LEMMA ValueTypes ==
  /\ <<>> \in Value
  /\ \A v \in Value, b \in Builds : Append(v, b) \in Value
  /\ NoTrace \in Trace
  BY MessageTypes DEF Value, NoTrace, Trace

(* A write to a control pipe keeps it well typed, whoever it goes to.      *)
LEMMA TellTypes ==
  ASSUME TypeOK, NEW t, NEW m \in Message, Tell(t, m)
  PROVE  inbox' \in [Stages -> Seq(Message)]
<1>1. CASE t \in Stages
  <2>1. inbox \in [Stages -> Seq(Message)]
    BY DEF TypeOK
  <2>2. Append(inbox[t], m) \in Seq(Message)
    BY <1>1, <2>1
  <2> QED
    BY <2>1, <2>2 DEF Tell
<1>2. CASE t \notin Stages
  BY <1>2 DEF Tell, TypeOK
<1> QED
  BY <1>1, <1>2

(* So does a done token.                                                   *)
LEMMA DoneTypes ==
  ASSUME TypeOK, NEW s \in Stages, NEW how \in Outcome, WriteDone(s, how)
  PROVE  doneQ' \in Seq(Token)
<1>1. [of |-> job[s], how |-> how] \in Token
  BY DEF TypeOK, Token
<1> QED
  BY <1>1 DEF TypeOK, WriteDone

LEMMA RestartIsInner == \A s \in Restarts : s \in Stages /\ s + 1 \in Stages
  BY PipelineAssumption DEF Stages

(* The fault counters stay within their bounds.                            *)
LEMMA FaultTypes ==
  ASSUME TypeOK
  PROVE  LET F == [threw : 0..MaxThrow, nofork : 0..MaxNoFork, crash : 0..MaxCrash] IN
         /\ faults.threw < MaxThrow => [faults EXCEPT !.threw = @ + 1] \in F
         /\ faults.nofork < MaxNoFork => [faults EXCEPT !.nofork = @ + 1] \in F
         /\ faults.crash < MaxCrash => [faults EXCEPT !.crash = @ + 1] \in F
<1>1. /\ faults.threw \in Nat /\ faults.nofork \in Nat /\ faults.crash \in Nat
      /\ faults.threw <= MaxThrow /\ faults.nofork <= MaxNoFork
      /\ faults.crash <= MaxCrash
      /\ faults = [threw |-> faults.threw, nofork |-> faults.nofork,
                   crash |-> faults.crash]
  BY Bounds DEF TypeOK
<1>2. faults.threw < MaxThrow => faults.threw + 1 \in 0..MaxThrow
  BY <1>1, Bounds
<1>3. faults.nofork < MaxNoFork => faults.nofork + 1 \in 0..MaxNoFork
  BY <1>1, Bounds
<1>4. faults.crash < MaxCrash => faults.crash + 1 \in 0..MaxCrash
  BY <1>1, Bounds
<1> QED
  BY <1>2, <1>3, <1>4 DEF TypeOK

LEMMA ChildIsStage ==
  ASSUME NEW s \in Stages, HasChild(s) PROVE s + 1 \in Stages
  BY Bounds DEF Stages, HasChild

(* Reaping a dead child, and reporting its status.                         *)
LEMMA ReapTypes ==
  ASSUME TypeOK, NEW s \in Stages, ReapDeadChild(s)
  PROVE  /\ doneQ' \in Seq(Token)
         /\ life' \in [Stages -> {"none", "live", "dead"}]
         /\ handle' \in [Stages -> BOOLEAN]
         /\ active' \in [Stages -> BOOLEAN]
<1>1. CASE ChildDead(s)
  <2>1. status[s + 1] \in Outcome
    BY <1>1, ChildIsStage, OutcomeTypes DEF ChildDead, TypeOK
  <2>2. doneQ' \in Seq(Token)
    BY <1>1, <2>1, DoneTypes DEF ReapDeadChild
  <2> QED
    BY <1>1, <2>2 DEF ReapDeadChild, Reap, TypeOK
<1>2. CASE ~ChildDead(s)
  BY <1>2 DEF ReapDeadChild, TypeOK
<1> QED
  BY <1>1, <1>2

(* The death of a stage.                                                   *)
LEMMA DiesTypes ==
  ASSUME TypeOK, LoadedPastLoad, NEW s, NEW how \in Statuses, Dies(s, how),
         UNCHANGED <<pc, loaded>>
  PROVE  /\ life' \in [Stages -> {"none", "live", "dead"}]
         /\ status' \in [Stages -> Statuses]
         /\ LoadedPastLoad'
  BY DEF Dies, TypeOK, LoadedPastLoad, Live

(* A process tree that has just been started: main has forked stage 1.     *)
Begun ==
  /\ life   = [s \in Stages |-> IF s = 1 THEN "live" ELSE "none"]
  /\ status = [s \in Stages |-> "clean"]
  /\ pc     = [s \in Stages |-> "load"]
  /\ inbox  = [s \in Stages |-> <<>>]
  /\ job    = [s \in Stages |-> 0]
  /\ loaded = [s \in Stages |-> 0]
  /\ hasRun = [s \in Stages |-> FALSE]
  /\ input  = [s \in Stages |-> <<>>]
  /\ data   = [s \in Stages |-> <<>>]
  /\ active = [s \in Stages |-> FALSE]
  /\ handle = [s \in Stages |-> FALSE]
  /\ lastId = [s \in Stages |-> 0]
  /\ doneQ = <<>> /\ traceQ = <<>>
  /\ ppc = "recv" /\ token = NoToken /\ trace = NoTrace /\ reply = NoReply

(* The types of what outlives it.                                          *)
DriverTypes ==
  /\ file \in [Stages -> Builds] /\ sentFile \in [Stages -> Builds] /\ batch \in Batches
  /\ faults \in [threw : 0..MaxThrow, nofork : 0..MaxNoFork, crash : 0..MaxCrash]

LEMMA InitBegins == Init => Begun
  BY DEF Init, Begun

LEMMA InitDriver == Init => DriverTypes
  BY Bounds, MessageTypes DEF Init, DriverTypes, Builds

LEMMA TypeBegun == Begun /\ DriverTypes => VarTypes
  BY Bounds, ValueTypes, MessageTypes
  DEF Begun, DriverTypes, VarTypes, TypeOK, LoadedPastLoad, Stages, BuildIds, Phases,
      Statuses, Live

LEMMA TypeInit == Init => VarTypes
  BY InitBegins, InitDriver, TypeBegun

(* A step that leaves a group of variables alone keeps their types.        *)
LEMMA TypeStep == VarTypes /\ [Next]_vars => VarTypes'
<1> SUFFICES ASSUME VarTypes, [Next]_vars PROVE VarTypes'
  OBVIOUS
<1> USE DEF VarTypes, TypeOK
<1>1. ASSUME NEW s \in Stages, Load(s) PROVE VarTypes'
  <2>1. pc' \in [Stages -> Phases]
    BY <1>1 DEF Load, Goto, Phases
  <2>2. loaded' \in [Stages -> BuildIds]
    BY <1>1, BuildTypes DEF Load
  <2>3. LoadedPastLoad'
    BY <1>1, Bounds DEF Load, LoadedPastLoad, Live, At, Goto, Phases, pluginVars, Builds
  <2> QED
    BY <2>1, <2>2, <2>3, <1>1 DEF Load, childVars, pipeVars, parentVars, driverVars
<1>2. ASSUME NEW s \in Stages, ReceiveRun(s) PROVE VarTypes'
  <2>1. /\ doneQ' \in Seq(Token)
       /\ life' \in [Stages -> {"none", "live", "dead"}]
       /\ handle' \in [Stages -> BOOLEAN]
       /\ active' \in [Stages -> BOOLEAN]
    BY <1>2, ReapTypes DEF ReceiveRun
  <2>2. pc' \in [Stages -> Phases]
    BY <1>2 DEF ReceiveRun, Goto, Phases
  <2>3. inbox' \in [Stages -> Seq(Message)]
    BY <1>2 DEF ReceiveRun
  <2>4. job' \in [Stages -> Batches]
    BY <1>2, MessageTypes DEF ReceiveRun
  <2>5. LoadedPastLoad'
    BY <1>2, Bounds DEF ReceiveRun, LoadedPastLoad, Live, At, Goto, Phases, pluginVars,
       ReapDeadChild, Reap
  <2> QED
    BY <2>1, <2>2, <2>3, <2>4, <2>5, <1>2 DEF ReceiveRun, pluginVars, parentVars,
       driverVars
<1>3. ASSUME NEW s \in Stages, ReapIdle(s) PROVE VarTypes'
  <2>1. /\ doneQ' \in Seq(Token)
       /\ life' \in [Stages -> {"none", "live", "dead"}]
       /\ handle' \in [Stages -> BOOLEAN]
       /\ active' \in [Stages -> BOOLEAN]
    BY <1>3, ReapTypes DEF ReapIdle
  <2>2. LoadedPastLoad'
    BY <1>3, Bounds DEF ReapIdle, LoadedPastLoad, Live, At, Goto, Phases, pluginVars,
       ReapDeadChild, Reap
  <2> QED
    BY <2>1, <2>2, <1>3 DEF ReapIdle, pluginVars, parentVars, driverVars
<1>4. ASSUME NEW s \in Stages, CheckRestart(s) PROVE VarTypes'
  <2>1. pc' \in [Stages -> Phases]
    BY <1>4 DEF CheckRestart, Goto, Phases
  <2>2. inbox' \in [Stages -> Seq(Message)]
    BY <1>4, TellTypes, MessageTypes DEF CheckRestart
  <2>3. active' \in [Stages -> BOOLEAN]
    BY <1>4 DEF CheckRestart
  <2>4. LoadedPastLoad'
    BY <1>4, Bounds DEF CheckRestart, LoadedPastLoad, Live, At, Goto, Phases, pluginVars
  <2> QED
    BY <2>1, <2>2, <2>3, <2>4, <1>4 DEF CheckRestart, pluginVars, pipeVars, parentVars,
       driverVars
<1>5. ASSUME NEW s \in Stages, KillChild(s) PROVE VarTypes'
  <2>1. /\ life' \in [Stages -> {"none", "live", "dead"}]
       /\ status' \in [Stages -> Statuses]
       /\ LoadedPastLoad'
    BY <1>5, DiesTypes, Bounds DEF KillChild, Statuses, pluginVars
  <2> QED
    BY <2>1, <1>5 DEF KillChild, pluginVars, childVars, pipeVars, parentVars, driverVars
<1>6. ASSUME NEW s \in Stages, Restarted(s) PROVE VarTypes'
  <2>1. pc' \in [Stages -> Phases]
    BY <1>6 DEF Restarted, Goto, Phases
  <2>2. /\ life' \in [Stages -> {"none", "live", "dead"}]
       /\ active' \in [Stages -> BOOLEAN]
       /\ handle' \in [Stages -> BOOLEAN]
    BY <1>6 DEF Restarted, Reap
  <2>3. LoadedPastLoad'
    BY <1>6, Bounds DEF Restarted, LoadedPastLoad, Live, At, Goto, Phases, pluginVars,
       Reap
  <2> QED
    BY <2>1, <2>2, <2>3, <1>6 DEF Restarted, pluginVars, pipeVars, parentVars, driverVars
<1>7. ASSUME NEW s \in Stages, CheckReload(s) PROVE VarTypes'
  <2>1. pc' \in [Stages -> Phases]
    BY <1>7 DEF CheckReload, Goto, Phases
  <2>2. inbox' \in [Stages -> Seq(Message)]
    BY <1>7, TellTypes, MessageTypes DEF CheckReload
  <2>3. active' \in [Stages -> BOOLEAN]
    BY <1>7 DEF CheckReload
  <2>4. LoadedPastLoad'
    BY <1>7, Bounds DEF CheckReload, LoadedPastLoad, Live, At, Goto, Phases, pluginVars
  <2> QED
    BY <2>1, <2>2, <2>3, <2>4, <1>7 DEF CheckReload, pluginVars, pipeVars, parentVars,
       driverVars
<1>8. ASSUME NEW s \in Stages, Stopped(s) PROVE VarTypes'
  <2>1. pc' \in [Stages -> Phases]
    BY <1>8 DEF Stopped, Goto, Phases
  <2>2. /\ life' \in [Stages -> {"none", "live", "dead"}]
       /\ active' \in [Stages -> BOOLEAN]
       /\ handle' \in [Stages -> BOOLEAN]
    BY <1>8 DEF Stopped, Reap
  <2>3. LoadedPastLoad'
    BY <1>8, Bounds DEF Stopped, LoadedPastLoad, Live, At, Goto, Phases, pluginVars, Reap
  <2> QED
    BY <2>1, <2>2, <2>3, <1>8 DEF Stopped, pluginVars, pipeVars, parentVars, driverVars
<1>9. ASSUME NEW s \in Stages, Reload(s) PROVE VarTypes'
  <2>1. pc' \in [Stages -> Phases]
    BY <1>9 DEF Reload, Goto, Phases
  <2>2. loaded' \in [Stages -> BuildIds]
    BY <1>9, BuildTypes DEF Reload
  <2>3. data' \in [Stages -> Value]
    BY <1>9, ValueTypes DEF Reload
  <2>4. LoadedPastLoad'
    BY <1>9, Bounds DEF Reload, LoadedPastLoad, Live, At, Goto, Phases, pluginVars, Builds
  <2> QED
    BY <2>1, <2>2, <2>3, <2>4, <1>9 DEF Reload, childVars, pipeVars, parentVars,
       driverVars
<1>10. ASSUME NEW s \in Stages, Compute(s) PROVE VarTypes'
  <2>1. pc' \in [Stages -> Phases]
    BY <1>10 DEF Compute, Goto, Phases
  <2>2. hasRun' \in [Stages -> BOOLEAN]
    BY <1>10 DEF Compute
  <2>3. Append(input[s], loaded[s]) \in Value
    BY <1>10, ValueTypes, BuildTypes DEF Compute, LoadedPastLoad, At
  <2>4. data' \in [Stages -> Value]
    BY <1>10, <2>3 DEF Compute
  <2>5. traceQ' \in Seq(Trace)
    <3>1. [of |-> job[s], vers |-> Append(input[s], loaded[s])] \in Trace
      BY <2>3 DEF Trace
    <3>2. CASE s < N
      BY <1>10, <3>2 DEF Compute
    <3>3. CASE ~(s < N)
      <4>1. traceQ' = Append(traceQ, [of |-> job[s], vers |-> Append(input[s],
           loaded[s])])
        BY <1>10, <3>3 DEF Compute
      <4> QED
        BY <3>1, <4>1
    <3> QED
      BY <3>2, <3>3
  <2>6. LoadedPastLoad'
    BY <1>10, Bounds DEF Compute, LoadedPastLoad, Live, At, Goto, Phases, pluginVars
  <2> QED
    BY <2>1, <2>2, <2>4, <2>5, <2>6, <1>10 DEF Compute, childVars, parentVars, driverVars
<1>11. ASSUME NEW s \in Stages, Throw(s) PROVE VarTypes'
  <2>1. pc' \in [Stages -> Phases]
    BY <1>11 DEF Throw, Goto, Phases
  <2>2. doneQ' \in Seq(Token)
    BY <1>11, DoneTypes, OutcomeTypes DEF Throw
  <2>3. faults' \in [threw : 0..MaxThrow, nofork : 0..MaxNoFork, crash : 0..MaxCrash]
    BY <1>11, FaultTypes DEF Throw
  <2>4. LoadedPastLoad'
    BY <1>11, Bounds DEF Throw, LoadedPastLoad, Live, At, Goto, Phases, pluginVars
  <2> QED
    BY <2>1, <2>2, <2>3, <2>4, <1>11 DEF Throw, pluginVars, childVars, parentVars,
       driverVars
<1>12. ASSUME NEW s \in Stages, RecordChildId(s) PROVE VarTypes'
  <2>1. pc' \in [Stages -> Phases]
    BY <1>12 DEF RecordChildId, Goto, Phases
  <2>2. lastId' \in [Stages -> BuildIds]
    BY <1>12, RestartIsInner, BuildTypes DEF RecordChildId
  <2>3. LoadedPastLoad'
    BY <1>12, Bounds DEF RecordChildId, LoadedPastLoad, Live, At, Goto, Phases, pluginVars
  <2> QED
    BY <2>1, <2>2, <2>3, <1>12 DEF RecordChildId, pluginVars, pipeVars, parentVars,
       driverVars
<1>13. ASSUME NEW s \in Stages, Fork(s) PROVE VarTypes'
  <2>1. /\ life' \in [Stages -> {"none", "live", "dead"}]
        /\ pc' \in [Stages -> Phases]
    BY <1>13 DEF Fork, Phases
  <2>2. inbox' \in [Stages -> Seq(Message)]
    <3>1. inbox' = [inbox EXCEPT ![s + 1] = <<>>]
      BY <1>13 DEF Fork
    <3>2. <<>> \in Seq(Message)
      OBVIOUS
    <3> QED
      BY <3>1, <3>2
  <2>3. job' \in [Stages -> Batches]
    BY <1>13, MessageTypes DEF Fork
  <2>4. loaded' \in [Stages -> BuildIds]
    BY <1>13, BuildTypes DEF Fork
  <2>5. hasRun' \in [Stages -> BOOLEAN]
    BY <1>13 DEF Fork
  <2>6. input' \in [Stages -> Value] /\ data' \in [Stages -> Value]
    BY <1>13, ValueTypes DEF Fork
  <2>7. active' \in [Stages -> BOOLEAN]
    BY <1>13 DEF Fork
  <2>8. handle' \in [Stages -> BOOLEAN]
    BY <1>13 DEF Fork
  <2>9. lastId' \in [Stages -> BuildIds]
    BY <1>13, BuildTypes DEF Fork
  <2>10. LoadedPastLoad'
    BY <1>13 DEF Fork, LoadedPastLoad, Live, At
  <2> QED
    BY <2>1, <2>2, <2>3, <2>4, <2>5, <2>6, <2>7, <2>8, <2>9, <2>10, <1>13
    DEF Fork, pipeVars, parentVars, driverVars
<1>14. ASSUME NEW s \in Stages, ForkFails(s) PROVE VarTypes'
  <2>1. pc' \in [Stages -> Phases]
    BY <1>14 DEF ForkFails, Goto, Phases
  <2>2. handle' \in [Stages -> BOOLEAN]
    BY <1>14 DEF ForkFails
  <2>3. doneQ' \in Seq(Token)
    BY <1>14, DoneTypes, OutcomeTypes DEF ForkFails
  <2>4. faults' \in [threw : 0..MaxThrow, nofork : 0..MaxNoFork, crash : 0..MaxCrash]
    BY <1>14, FaultTypes DEF ForkFails
  <2>5. LoadedPastLoad'
    BY <1>14, Bounds DEF ForkFails, LoadedPastLoad, Live, At, Goto, Phases, pluginVars
  <2> QED
    BY <2>1, <2>2, <2>3, <2>4, <2>5, <1>14 DEF ForkFails, pluginVars, parentVars,
       driverVars
<1>15. ASSUME NEW s \in Stages, Done(s) PROVE VarTypes'
  <2>1. pc' \in [Stages -> Phases]
    BY <1>15 DEF Done, Goto, Phases
  <2>2. doneQ' \in Seq(Token)
    BY <1>15, DoneTypes, OutcomeTypes DEF Done
  <2>3. LoadedPastLoad'
    BY <1>15, Bounds DEF Done, LoadedPastLoad, Live, At, Goto, Phases, pluginVars
  <2> QED
    BY <2>1, <2>2, <2>3, <1>15 DEF Done, pluginVars, childVars, parentVars, driverVars
<1>16. ASSUME NEW s \in Stages, NotifyChild(s) PROVE VarTypes'
  <2>1. pc' \in [Stages -> Phases]
    BY <1>16 DEF NotifyChild, Goto, Phases
  <2>2. /\ life' \in [Stages -> {"none", "live", "dead"}]
       /\ handle' \in [Stages -> BOOLEAN]
    BY <1>16 DEF NotifyChild, Reap
  <2>3. inbox' \in [Stages -> Seq(Message)]
    BY <1>16, TellTypes, MessageTypes DEF NotifyChild
  <2>4. doneQ' \in Seq(Token)
    BY <1>16, DoneTypes, OutcomeTypes, ChildIsStage DEF NotifyChild, ChildDead
  <2>5. LoadedPastLoad'
    BY <1>16, Bounds DEF NotifyChild, LoadedPastLoad, Live, At, Goto, Phases, pluginVars,
       Reap
  <2> QED
    BY <2>1, <2>2, <2>3, <2>4, <2>5, <1>16 DEF NotifyChild, pluginVars, parentVars,
       driverVars
<1>17. ASSUME NEW s \in Stages, Finish(s) PROVE VarTypes'
  <2>1. /\ doneQ' \in Seq(Token)
       /\ life' \in [Stages -> {"none", "live", "dead"}]
       /\ handle' \in [Stages -> BOOLEAN]
       /\ active' \in [Stages -> BOOLEAN]
    BY <1>17, ReapTypes DEF Finish
  <2>2. pc' \in [Stages -> Phases]
    BY <1>17 DEF Finish, Goto, Phases
  <2>3. LoadedPastLoad'
    BY <1>17, Bounds DEF Finish, LoadedPastLoad, Live, At, Goto, Phases, pluginVars,
       ReapDeadChild, Reap
  <2> QED
    BY <2>1, <2>2, <2>3, <1>17 DEF Finish, pluginVars, parentVars, driverVars
<1>18. ASSUME NEW s \in Stages, ReceiveTerminate(s) PROVE VarTypes'
  <2>1. pc' \in [Stages -> Phases]
    BY <1>18 DEF ReceiveTerminate, Goto, Phases
  <2>2. inbox' \in [Stages -> Seq(Message)]
    BY <1>18, TellTypes, MessageTypes DEF ReceiveTerminate
  <2>3. LoadedPastLoad'
    BY <1>18, Bounds DEF ReceiveTerminate, LoadedPastLoad, Live, At, Goto, Phases,
       pluginVars
  <2> QED
    BY <2>1, <2>2, <2>3, <1>18 DEF ReceiveTerminate, pluginVars, childVars, pipeVars,
       parentVars, driverVars
<1>19. ASSUME NEW s \in Stages, Exit(s) PROVE VarTypes'
  <2>1. /\ life' \in [Stages -> {"none", "live", "dead"}]
       /\ status' \in [Stages -> Statuses]
       /\ LoadedPastLoad'
    BY <1>19, DiesTypes, Bounds DEF Exit, Statuses, pluginVars
  <2> QED
    BY <2>1, <1>19 DEF Exit, pluginVars, childVars, pipeVars, parentVars, driverVars
<1>20. ASSUME NEW s \in Stages, Crash(s) PROVE VarTypes'
  <2>1. /\ life' \in [Stages -> {"none", "live", "dead"}]
       /\ status' \in [Stages -> Statuses]
       /\ LoadedPastLoad'
    <3>1. PICK how \in CrashHow : Dies(s, how)
      BY <1>20 DEF Crash
    <3> QED
      BY <1>20, <3>1, DiesTypes, Bounds DEF Crash, pluginVars
  <2>2. faults' \in [threw : 0..MaxThrow, nofork : 0..MaxNoFork, crash : 0..MaxCrash]
    BY <1>20, FaultTypes DEF Crash
  <2> QED
    BY <2>1, <2>2, <1>20 DEF Crash, pluginVars, childVars, pipeVars, parentVars,
       driverVars
<1>21. ASSUME NEW s \in Stages, Publish(s) PROVE VarTypes'
  <2>1. file' \in [Stages -> Builds]
    BY <1>21, Bounds DEF Publish, Builds
  <2> QED
    BY <2>1, <1>21 DEF Publish, procVars, pluginVars, childVars, pipeVars, parentVars,
       LoadedPastLoad, Live
<1>22. ASSUME SendRun PROVE VarTypes'
  <2>1. batch' \in Batches /\ batch + 1 \in Batches
    BY <1>22, Bounds DEF SendRun, Batches
  <2>2. inbox' \in [Stages -> Seq(Message)]
    BY <1>22, <2>1, TellTypes, MessageTypes DEF SendRun
  <2>3. /\ ppc' \in {"recv", "wait", "reap", "gone", "dead"}
       /\ token' \in Token \cup {NoToken}
       /\ sentFile' \in [Stages -> Builds]
    BY <1>22 DEF SendRun
  <2>4. trace' \in Trace
    BY <1>22, ValueTypes DEF SendRun
  <2> QED
    BY <2>2, <2>3, <2>4, <2>1, <1>22 DEF SendRun, pluginVars, childVars, pipeVars,
       LoadedPastLoad, Live, procVars
<1>23. ASSUME ReadDone PROVE VarTypes'
  <2>1. /\ doneQ' \in Seq(Token)
       /\ token' \in Token \cup {NoToken}
    BY <1>23 DEF ReadDone
  <2> QED
    BY <2>1, <1>23 DEF ReadDone, procVars, pluginVars, childVars, driverVars,
       LoadedPastLoad, Live
<1>24. ASSUME ReadTrace PROVE VarTypes'
  <2>1. /\ traceQ' \in Seq(Trace)
       /\ trace' \in Trace
    BY <1>24, ValueTypes DEF ReadTrace
  <2> QED
    BY <2>1, <1>24 DEF ReadTrace, procVars, pluginVars, childVars, driverVars,
       LoadedPastLoad, Live
<1>25. ASSUME HangUp PROVE VarTypes'
  <2>1. ppc' \in {"recv", "wait", "reap", "gone", "dead"}
    BY <1>25 DEF HangUp
  <2> QED
    BY <2>1, <1>25 DEF HangUp, procVars, pluginVars, childVars, pipeVars, driverVars,
       LoadedPastLoad, Live
<1>26. ASSUME Reply PROVE VarTypes'
  <2>1. ppc' \in {"recv", "wait", "reap", "gone", "dead"}
    BY <1>26 DEF Reply
  <2> QED
    BY <2>1, <1>26 DEF Reply, procVars, pluginVars, childVars, pipeVars, driverVars,
       LoadedPastLoad, Live
<1>27. ASSUME SendTerminate PROVE VarTypes'
  <2>1. inbox' \in [Stages -> Seq(Message)]
    BY <1>27, TellTypes, MessageTypes DEF SendTerminate
  <2>2. ppc' \in {"recv", "wait", "reap", "gone", "dead"}
    BY <1>27 DEF SendTerminate
  <2> QED
    BY <2>1, <2>2, <1>27 DEF SendTerminate, pluginVars, childVars, pipeVars, driverVars,
       LoadedPastLoad, Live, procVars
<1>28. ASSUME ParentExits PROVE VarTypes'
  <2>1. ppc' \in {"recv", "wait", "reap", "gone", "dead"}
    BY <1>28 DEF ParentExits
  <2> QED
    BY <2>1, <1>28 DEF ParentExits, procVars, pluginVars, childVars, pipeVars, driverVars,
       LoadedPastLoad, Live
<1>29. ASSUME UNCHANGED vars PROVE VarTypes'
    BY <1>29 DEF vars, procVars, pluginVars, childVars, pipeVars, parentVars, driverVars,
     LoadedPastLoad, Live
<1> QED
    BY <1>1, <1>2, <1>3, <1>4, <1>5, <1>6, <1>7, <1>8, <1>9, <1>10, <1>11, <1>12, <1>13,
     <1>14, <1>15, <1>16, <1>17, <1>18, <1>19, <1>20, <1>21, <1>22, <1>23, <1>24,
     <1>25, <1>26, <1>27, <1>28, <1>29 DEF Next, StageStep, ParentStep, Ended
(* Initially there is one stage process and nobody has a child.            *)
LEMMA TreeBegun == Begun /\ DriverTypes => TreeInv
<1> SUFFICES ASSUME Begun, DriverTypes PROVE TreeInv
  OBVIOUS
<1>1. N \in Stages /\ \A s \in Stages : s + 1 # 1
  BY Bounds DEF Stages
<1>2. TerminalHasNoChild /\ NoChildWhileBuilding /\ ForkAfterRun
  BY <1>1 DEF Begun, TerminalHasNoChild, NoChildWhileBuilding, ForkAfterRun
<1>3. ChildTracked
  BY <1>1 DEF Begun, ChildTracked, Live
<1>4. RecordWasOnDisk /\ RecordNeverNewer
  BY RestartIsInner, Bounds DEF Begun, DriverTypes, Builds, RecordWasOnDisk, RecordNeverNewer
<1> QED
  BY <1>2, <1>3, <1>4 DEF TreeInv

LEMMA TreeInit == Init => TreeInv
  BY InitBegins, InitDriver, TreeBegun

(* The death of a stage, whatever kills it.                                *)
Death(s, how) ==
  /\ Live(s) /\ Dies(s, how)
  /\ UNCHANGED <<pc, inbox, job, pluginVars, childVars, pipeVars, parentVars, driverVars>>

LEMMA TypeDeath ==
  ASSUME VarTypes, NEW s \in Stages, NEW how \in Statuses, Death(s, how), DriverTypes'
  PROVE  VarTypes'
<1>1. /\ life' \in [Stages -> {"none", "live", "dead"}] /\ status' \in [Stages -> Statuses]
      /\ LoadedPastLoad'
  BY DiesTypes DEF Death, VarTypes, pluginVars
<1> QED
  BY <1>1 DEF Death, DriverTypes, VarTypes, TypeOK, pluginVars, childVars, pipeVars, parentVars

LEMMA TreeDeath ==
  ASSUME VarTypes, TreeInv, NEW s \in Stages, NEW how \in Statuses, Death(s, how)
  PROVE  TreeInv'
<1>1. \A t \in Stages : life'[t] = IF t = s THEN "dead" ELSE IF t > s THEN "none" ELSE life[t]
  BY DEF Death, Dies
<1>2. \A t \in Stages : t \in Nat
  BY Bounds DEF Stages
<1>3. UNCHANGED <<pc, loaded, hasRun, active, handle, lastId, file>>
  BY DEF Death, pluginVars, childVars, driverVars
<1>4. \A t \in Stages : Live(t)' <=> Live(t) /\ t < s
  BY <1>1, <1>2 DEF Live
<1>5. ChildTracked'
  BY <1>2, <1>3, <1>4 DEF TreeInv, ChildTracked, HasChild
<1>6. RecordWasOnDisk' /\ RecordNeverNewer'
  BY <1>3, <1>4, RestartIsInner DEF TreeInv, RecordWasOnDisk, RecordNeverNewer
<1> QED
  BY <1>3, <1>5, <1>6 DEF TreeInv, TerminalHasNoChild, NoChildWhileBuilding, ForkAfterRun

(* Who has a child, and what is recorded about it, step by step.           *)
LEMMA TreeStep == VarTypes /\ TreeInv /\ [Next]_vars => TreeInv'
<1> SUFFICES ASSUME VarTypes, TreeInv, [Next]_vars PROVE TreeInv'
  OBVIOUS
<1>a. /\ life \in [Stages -> {"none", "live", "dead"}]
      /\ pc \in [Stages -> Phases]
      /\ loaded \in [Stages -> BuildIds] /\ hasRun \in [Stages -> BOOLEAN]
      /\ active \in [Stages -> BOOLEAN] /\ handle \in [Stages -> BOOLEAN]
      /\ lastId \in [Stages -> BuildIds] /\ file \in [Stages -> Builds]
  BY DEF VarTypes, TypeOK
<1>b. \A s \in Stages : N \in Nat /\ s \in Nat /\ (s < N => s + 1 \in Stages)
                        /\ (s # N => s < N) /\ N \in Stages /\ N + 1 \notin Stages
  BY Bounds DEF Stages
<1>c. \A s \in Stages : loaded[s] \in Nat /\ lastId[s] \in Nat /\ file[s] \in Nat
  BY <1>a, BuildTypes
<1> USE <1>a, <1>b, <1>c, RestartIsInner DEF TreeInv, TerminalHasNoChild,
     NoChildWhileBuilding, ForkAfterRun,
      ChildTracked, RecordWasOnDisk, RecordNeverNewer
<1>1. ASSUME NEW s \in Stages, Load(s) PROVE TreeInv'
  BY <1>1 DEF Load, At, Goto, Live, HasChild, ChildDead, procVars, pluginVars,
     childVars, driverVars
<1>2. ASSUME NEW s \in Stages, ReceiveRun(s) PROVE TreeInv'
  <2>1. CASE ChildDead(s)
    <3>1. /\ life' = [life EXCEPT ![s + 1] = "none"]
          /\ pc' = [pc EXCEPT ![s] = "restart"]
          /\ handle' = [handle EXCEPT ![s] = FALSE]
          /\ active' = [active EXCEPT ![s] = FALSE]
          /\ UNCHANGED <<loaded, hasRun, lastId, file>>
      BY <1>2, <2>1 DEF ReceiveRun, Goto, ReapDeadChild, Reap, pluginVars, driverVars
    <3>2. s < N
      BY <2>1 DEF ChildDead, HasChild
    <3>3. TerminalHasNoChild' /\ NoChildWhileBuilding' /\ ForkAfterRun'
      BY <3>1, <3>2
    <3>4. ChildTracked'
      BY <2>1, <3>1, <3>2 DEF ChildDead, Live, HasChild
    <3>5. RecordWasOnDisk' /\ RecordNeverNewer'
      BY <3>1 DEF Live
    <3> QED
      BY <3>3, <3>4, <3>5
  <2>2. CASE ~ChildDead(s)
    BY <1>2, <2>2 DEF ReceiveRun, At, Goto, Live, HasChild, ReapDeadChild, pluginVars,
       driverVars
  <2> QED
    BY <2>1, <2>2
<1>3. ASSUME NEW s \in Stages, ReapIdle(s) PROVE TreeInv'
  BY <1>3 DEF ReapIdle, At, Goto, Live, HasChild, ChildDead, ReapDeadChild, Reap,
     procVars, pluginVars, childVars, driverVars
<1>4. ASSUME NEW s \in Stages, CheckRestart(s) PROVE TreeInv'
  <2>1. CASE pc'[s] = "grace"
    BY <1>4, <2>1 DEF CheckRestart, At, Goto, Live, HasChild, ChildSourceChanged,
       pluginVars, driverVars
  <2>2. CASE pc'[s] # "grace"
    BY <1>4, <2>2 DEF CheckRestart, At, Goto, Live, HasChild, ChildSourceChanged,
       pluginVars, driverVars
  <2> QED
    BY <2>1, <2>2
<1>5. ASSUME NEW s \in Stages, KillChild(s) PROVE TreeInv'
  BY <1>5 DEF KillChild, At, Goto, Live, HasChild, ChildDead, Dies, procVars,
     pluginVars, childVars, driverVars
<1>6. ASSUME NEW s \in Stages, Restarted(s) PROVE TreeInv'
  BY <1>6 DEF Restarted, At, Goto, Live, HasChild, ChildDead, Reap, procVars,
     pluginVars, childVars, driverVars
<1>7. ASSUME NEW s \in Stages, CheckReload(s) PROVE TreeInv'
  <2>1. CASE NeedsReload(s)
    BY <1>7, <2>1 DEF CheckReload, At, Goto, Live, HasChild, pluginVars, driverVars
  <2>2. CASE ~NeedsReload(s)
    <3>1. s # N
      BY <2>2, PipelineAssumption DEF NeedsReload
    <3> QED
      BY <1>7, <2>2, <3>1 DEF CheckReload, At, Goto, Live, HasChild, pluginVars,
         driverVars
  <2> QED
    BY <2>1, <2>2
<1>8. ASSUME NEW s \in Stages, Stopped(s) PROVE TreeInv'
  BY <1>8 DEF Stopped, At, Goto, Live, HasChild, ChildDead, Reap, procVars, pluginVars,
     childVars, driverVars
<1>9. ASSUME NEW s \in Stages, Reload(s) PROVE TreeInv'
  BY <1>9 DEF Reload, At, Goto, Live, HasChild, ChildDead, procVars, pluginVars,
     childVars, driverVars
<1>10. ASSUME NEW s \in Stages, Compute(s) PROVE TreeInv'
  <2>1. /\ pc[s] = "compute"
        /\ pc' = [pc EXCEPT ![s] = IF s < N THEN "record" ELSE "done"]
        /\ hasRun' = [hasRun EXCEPT ![s] = TRUE]
        /\ UNCHANGED <<life, loaded, active, handle, lastId, file>>
    BY <1>10 DEF Compute, At, Goto, childVars, driverVars
  <2> QED
    BY <2>1 DEF Live, HasChild
<1>11. ASSUME NEW s \in Stages, Throw(s) PROVE TreeInv'
  BY <1>11 DEF Throw, At, Goto, Live, HasChild, ChildDead, procVars, pluginVars,
     childVars, driverVars
<1>12. ASSUME NEW s \in Stages, RecordChildId(s) PROVE TreeInv'
  BY <1>12 DEF RecordChildId, At, Goto, Live, HasChild, ChildDead, procVars, pluginVars,
     childVars, driverVars
<1>13. ASSUME NEW s \in Stages, Fork(s) PROVE TreeInv'
  <2>1. pc[s] = "fork" /\ s < N /\ ~active[s] /\ hasRun[s] /\ ~Live(s + 1)
    BY <1>13 DEF Fork, At, Live, HasChild
  <2>2. s \in Nat /\ s + 1 \in Stages /\ s + 1 # s /\ \A t \in Stages : t + 1 = s + 1
       <=> t = s
    BY <2>1
  <2>3. /\ pc' = [pc EXCEPT ![s] = "notify", ![s + 1] = "load"]
        /\ hasRun' = [hasRun EXCEPT ![s + 1] = FALSE]
        /\ active' = [active EXCEPT ![s] = TRUE, ![s + 1] = FALSE]
    BY <1>13 DEF Fork
  <2>4. TerminalHasNoChild' /\ NoChildWhileBuilding' /\ ForkAfterRun'
    BY <2>1, <2>2, <2>3
  <2>5. ChildTracked'
    BY <1>13, <2>1, <2>2 DEF Fork, At, Live, HasChild
  <2>6. RecordWasOnDisk' /\ RecordNeverNewer'
    BY <1>13, <2>1, <2>2 DEF Fork, Live, driverVars
  <2> QED
    BY <2>4, <2>5, <2>6
<1>14. ASSUME NEW s \in Stages, ForkFails(s) PROVE TreeInv'
  BY <1>14 DEF ForkFails, At, Goto, Live, HasChild, ChildDead, procVars, pluginVars,
     childVars, driverVars
<1>15. ASSUME NEW s \in Stages, Done(s) PROVE TreeInv'
  BY <1>15 DEF Done, At, Goto, Live, HasChild, ChildDead, procVars, pluginVars,
     childVars, driverVars
<1>16. ASSUME NEW s \in Stages, NotifyChild(s) PROVE TreeInv'
  BY <1>16 DEF NotifyChild, At, Goto, Live, HasChild, ChildDead, Reap, procVars,
     pluginVars, childVars, driverVars
<1>17. ASSUME NEW s \in Stages, Finish(s) PROVE TreeInv'
  BY <1>17 DEF Finish, At, Goto, Live, HasChild, ChildDead, ReapDeadChild, Reap,
     procVars, pluginVars, childVars, driverVars
<1>18. ASSUME NEW s \in Stages, ReceiveTerminate(s) PROVE TreeInv'
  BY <1>18 DEF ReceiveTerminate, At, Goto, Live, HasChild, ChildDead, procVars,
     pluginVars, childVars, driverVars
<1>19. ASSUME NEW s \in Stages, Exit(s) PROVE TreeInv'
  BY <1>19 DEF Exit, At, Goto, Live, HasChild, ChildDead, Dies, procVars, pluginVars,
     childVars, driverVars
<1>20. ASSUME NEW s \in Stages, Crash(s) PROVE TreeInv'
  BY <1>20 DEF Crash, At, Goto, Live, HasChild, ChildDead, Dies, procVars, pluginVars,
     childVars, driverVars
<1>21. ASSUME NEW s \in Stages, Publish(s) PROVE TreeInv'
  BY <1>21 DEF Publish, At, Goto, Live, HasChild, ChildDead, procVars, pluginVars,
     childVars, driverVars
<1>22. ASSUME SendRun PROVE TreeInv'
  BY <1>22 DEF SendRun, Live, HasChild, ChildDead, procVars, pluginVars, childVars,
     driverVars
<1>23. ASSUME ReadDone PROVE TreeInv'
  BY <1>23 DEF ReadDone, Live, HasChild, ChildDead, procVars, pluginVars, childVars,
     driverVars
<1>24. ASSUME ReadTrace PROVE TreeInv'
  BY <1>24 DEF ReadTrace, Live, HasChild, ChildDead, procVars, pluginVars, childVars,
     driverVars
<1>25. ASSUME HangUp PROVE TreeInv'
  BY <1>25 DEF HangUp, Live, HasChild, ChildDead, procVars, pluginVars, childVars,
     driverVars
<1>26. ASSUME Reply PROVE TreeInv'
  BY <1>26 DEF Reply, Live, HasChild, ChildDead, procVars, pluginVars, childVars,
     driverVars
<1>27. ASSUME SendTerminate PROVE TreeInv'
  BY <1>27 DEF SendTerminate, Live, HasChild, ChildDead, procVars, pluginVars,
     childVars, driverVars
<1>28. ASSUME ParentExits PROVE TreeInv'
  BY <1>28 DEF ParentExits, Live, HasChild, ChildDead, procVars, pluginVars, childVars,
     driverVars
<1>29. ASSUME UNCHANGED vars PROVE TreeInv'
  BY <1>29 DEF vars, Live, HasChild, procVars, pluginVars, childVars, pipeVars,
     parentVars, driverVars
<1> QED
  BY <1>1, <1>2, <1>3, <1>4, <1>5, <1>6, <1>7, <1>8, <1>9, <1>10, <1>11, <1>12, <1>13,
     <1>14, <1>15, <1>16, <1>17, <1>18, <1>19, <1>20, <1>21, <1>22, <1>23, <1>24, <1>25,
     <1>26, <1>27, <1>28, <1>29 DEF Next, StageStep, ParentStep, Ended
---------------------------------------------------------------------------
(* The variables always have their types, and a stage that has left its    *)
(* constructor has its plugin mapped.                                      *)
THEOREM TypeCorrect == Spec => []TypeOK
<1>1. Spec => []VarTypes
  BY TypeInit, TypeStep, PTL DEF Spec
<1> QED
  BY <1>1, PTL DEF VarTypes

(* Whatever dies or throws and whenever the compiler publishes, a live     *)
(* stage is the child its live parent has a handle on: stage_loop_impl     *)
(* never forks a second child beside it nor forgets it.                    *)
THEOREM OneTrackedChild == Spec => []ChildTracked
<1>1. Spec => []TreeInv
  BY TypeInit, TypeStep, TreeInit, TreeStep, PTL DEF Spec
<1> QED
  BY <1>1, PTL DEF TreeInv

(* The build id stage_loop_impl records before a fork is never newer than  *)
(* what the child has loaded, so ChildSourceChanged misses no publication. *)
THEOREM RecordIsConservative == Spec => []RecordNeverNewer
<1>1. Spec => []TreeInv
  BY TypeInit, TypeStep, TreeInit, TreeStep, PTL DEF Spec
<1> QED
  BY <1>1, PTL DEF TreeInv
---------------------------------------------------------------------------
(* A stage that has run holds a value of its own stage, except between the *)
(* teardown of a reload and the compute that follows it.                   *)
Rebuilt ==
  faults.threw = 0 =>
     \A s \in Stages : hasRun[s] /\ pc[s] # "compute" => Len(data[s]) = s

InputInv == InputProduced /\ Rebuilt

LEMMA InputInit == Init => InputInv
  BY Bounds DEF Init, InputInv, InputProduced, Rebuilt, Live, Stages

LEMMA InputStep ==
  VarTypes /\ TreeInv /\ InputInv /\ [Next]_vars => InputInv'
<1> SUFFICES ASSUME VarTypes, TreeInv, InputInv, [Next]_vars PROVE InputInv'
  OBVIOUS
<1>a. /\ life \in [Stages -> {"none", "live", "dead"}]
      /\ pc \in [Stages -> Phases] /\ hasRun \in [Stages -> BOOLEAN]
      /\ input \in [Stages -> Value] /\ data \in [Stages -> Value]
      /\ loaded \in [Stages -> BuildIds]
      /\ faults \in [threw : 0..MaxThrow, nofork : 0..MaxNoFork, crash : 0..MaxCrash]
  BY DEF VarTypes, TypeOK
<1> USE <1>a DEF InputInv, InputProduced, Rebuilt
<1>1. ASSUME NEW s \in Stages, Load(s) PROVE InputInv'
  BY <1>1 DEF Load, At, Goto, Live
<1>2. ASSUME NEW s \in Stages, ReceiveRun(s) PROVE InputInv'
  BY <1>2 DEF ReceiveRun, At, Goto, Live, ReapDeadChild, Reap, pluginVars
<1>3. ASSUME NEW s \in Stages, ReapIdle(s) PROVE InputInv'
  BY <1>3 DEF ReapIdle, At, Goto, Live, ReapDeadChild, Reap, pluginVars
<1>4. ASSUME NEW s \in Stages, CheckRestart(s) PROVE InputInv'
  BY <1>4 DEF CheckRestart, At, Goto, Live, pluginVars
<1>5. ASSUME NEW s \in Stages, KillChild(s) PROVE InputInv'
  BY <1>5 DEF KillChild, At, Goto, Live, Dies, pluginVars
<1>6. ASSUME NEW s \in Stages, Restarted(s) PROVE InputInv'
  BY <1>6 DEF Restarted, At, Goto, Live, Reap, pluginVars
<1>7. ASSUME NEW s \in Stages, CheckReload(s) PROVE InputInv'
  BY <1>7 DEF CheckReload, At, Goto, Live, pluginVars
<1>8. ASSUME NEW s \in Stages, Stopped(s) PROVE InputInv'
  BY <1>8 DEF Stopped, At, Goto, Live, Reap, pluginVars
<1>9. ASSUME NEW s \in Stages, Reload(s) PROVE InputInv'
  BY <1>9 DEF Reload, At, Goto, Live
<1>10. ASSUME NEW s \in Stages, Compute(s) PROVE InputInv'
  <2>1. loaded[s] \in Builds
    BY <1>10, BuildTypes DEF Compute, At, VarTypes, LoadedPastLoad
  <2>2. faults.threw = 0 => Len(Append(input[s], loaded[s])) = s
    BY <1>10, <2>1, Bounds DEF Compute, At, Value, Stages
  <2> QED
    BY <1>10, <2>2 DEF Compute, Goto, Live
<1>11. ASSUME NEW s \in Stages, Throw(s) PROVE InputInv'
  <2>1. faults.threw \in Nat /\ faults'.threw = faults.threw + 1
    BY <1>11, Bounds DEF Throw
  <2>2. faults'.threw # 0
    BY <2>1
  <2> QED
    BY <2>2
<1>12. ASSUME NEW s \in Stages, RecordChildId(s) PROVE InputInv'
  BY <1>12 DEF RecordChildId, At, Goto, Live, pluginVars
<1>13. ASSUME NEW s \in Stages, Fork(s) PROVE InputInv'
  <2>1. hasRun[s] /\ pc[s] = "fork" /\ s \in Nat /\ s + 1 # s /\ s < N
    BY <1>13, Bounds DEF Fork, At, TreeInv, ForkAfterRun, TerminalHasNoChild, Stages
  <2> QED
    BY <1>13, <2>1 DEF Fork, Live
<1>14. ASSUME NEW s \in Stages, ForkFails(s) PROVE InputInv'
  BY <1>14 DEF ForkFails, At, Goto, Live, pluginVars
<1>15. ASSUME NEW s \in Stages, Done(s) PROVE InputInv'
  BY <1>15 DEF Done, At, Goto, Live, pluginVars
<1>16. ASSUME NEW s \in Stages, NotifyChild(s) PROVE InputInv'
  BY <1>16 DEF NotifyChild, At, Goto, Live, Reap, pluginVars
<1>17. ASSUME NEW s \in Stages, Finish(s) PROVE InputInv'
  BY <1>17 DEF Finish, At, Goto, Live, ReapDeadChild, Reap, pluginVars
<1>18. ASSUME NEW s \in Stages, ReceiveTerminate(s) PROVE InputInv'
  BY <1>18 DEF ReceiveTerminate, At, Goto, Live, pluginVars
<1>19. ASSUME NEW s \in Stages, Exit(s) PROVE InputInv'
  BY <1>19 DEF Exit, At, Goto, Live, Dies, pluginVars
<1>20. ASSUME NEW s \in Stages, Crash(s) PROVE InputInv'
  BY <1>20 DEF Crash, At, Goto, Live, Dies, pluginVars
<1>21. ASSUME NEW s \in Stages, Publish(s) PROVE InputInv'
  BY <1>21 DEF Publish, At, Goto, Live, procVars, pluginVars
<1>22. ASSUME SendRun PROVE InputInv'
  BY <1>22 DEF SendRun, Live, pluginVars
<1>23. ASSUME ReadDone PROVE InputInv'
  BY <1>23 DEF ReadDone, Live, procVars, pluginVars
<1>24. ASSUME ReadTrace PROVE InputInv'
  BY <1>24 DEF ReadTrace, Live, procVars, pluginVars
<1>25. ASSUME HangUp PROVE InputInv'
  BY <1>25 DEF HangUp, Live, procVars, pluginVars
<1>26. ASSUME Reply PROVE InputInv'
  BY <1>26 DEF Reply, Live, procVars, pluginVars
<1>27. ASSUME SendTerminate PROVE InputInv'
  BY <1>27 DEF SendTerminate, Live, pluginVars
<1>28. ASSUME ParentExits PROVE InputInv'
  BY <1>28 DEF ParentExits, Live, procVars, pluginVars
<1>29. ASSUME UNCHANGED vars PROVE InputInv'
  BY <1>29 DEF vars, Live, procVars, pluginVars
<1> QED
  BY <1>1, <1>2, <1>3, <1>4, <1>5, <1>6, <1>7, <1>8, <1>9, <1>10, <1>11, <1>12, <1>13,
     <1>14, <1>15, <1>16, <1>17, <1>18, <1>19, <1>20, <1>21, <1>22, <1>23, <1>24, <1>25,
     <1>26, <1>27, <1>28, <1>29 DEF Next, StageStep, ParentStep, Ended

(* As long as no plugin callback throws, a stage is only ever forked from  *)
(* data its parent produced, also across in-place reloads and teardowns.   *)
THEOREM InputWithoutThrow == Spec => []InputProduced
<1>1. Spec => []InputInv
  BY TypeInit, TypeStep, TreeInit, TreeStep, InputInit, InputStep, PTL DEF Spec
<1> QED
  BY <1>1, PTL DEF InputInv
---------------------------------------------------------------------------
(* What an inbox holds: a RUN, at most one RUN, a TERMINATE.               *)
HoldsRun(q) == \E i \in DOMAIN q : q[i].act = "RUN"
OneRun(q) == \A i, j \in DOMAIN q : q[i].act = "RUN" /\ q[j].act = "RUN" => i = j
HoldsTerminate(q) == \E i \in DOMAIN q : q[i].act = "TERMINATE"

LEMMA SentTerminate ==
  ASSUME NEW q \in Seq(Message)
  PROVE  LET r == Append(q, Terminate) IN
         (HoldsRun(r) <=> HoldsRun(q)) /\ (OneRun(q) => OneRun(r)) /\ HoldsTerminate(r)
<1> DEFINE r == Append(q, Terminate)
<1>1. /\ Len(q) \in Nat /\ DOMAIN q = 1..Len(q) /\ DOMAIN r = 1..(Len(q) + 1)
      /\ r[Len(q) + 1] = Terminate /\ \A i \in 1..Len(q) : r[i] = q[i]
  BY MessageTypes
<1>2. Terminate.act = "TERMINATE"
  BY DEF Terminate
<1> QED
  BY <1>1, <1>2 DEF HoldsRun, OneRun, HoldsTerminate

LEMMA SentRun ==
  ASSUME NEW q \in Seq(Message), NEW b \in Batches
  PROVE  LET r == Append(q, Run(b)) IN
         (~HoldsRun(q) => OneRun(r)) /\ (HoldsTerminate(r) <=> HoldsTerminate(q))
<1> DEFINE r == Append(q, Run(b))
<1>1. /\ Len(q) \in Nat /\ DOMAIN q = 1..Len(q) /\ DOMAIN r = 1..(Len(q) + 1)
      /\ r[Len(q) + 1] = Run(b) /\ \A i \in 1..Len(q) : r[i] = q[i]
  BY MessageTypes
<1>2. Run(b).act = "RUN"
  BY DEF Run
<1> QED
  BY <1>1, <1>2 DEF HoldsRun, OneRun, HoldsTerminate

LEMMA Received ==
  ASSUME NEW q \in Seq(Message), q # <<>>
  PROVE  /\ Head(q).act = "RUN" => HoldsRun(q) /\ (OneRun(q) => ~HoldsRun(Tail(q)))
         /\ HoldsTerminate(Tail(q)) => HoldsTerminate(q)
         /\ Head(q).act = "TERMINATE" => HoldsTerminate(q)
<1>1. /\ Len(q) \in Nat \ {0} /\ DOMAIN q = 1..Len(q) /\ DOMAIN Tail(q) = 1..(Len(q) - 1)
      /\ Head(q) = q[1] /\ \A i \in 1..(Len(q) - 1) : Tail(q)[i] = q[i + 1]
  OBVIOUS
<1>2. \A i \in DOMAIN Tail(q) : i + 1 \in DOMAIN q /\ i + 1 # 1 /\ 1 \in DOMAIN q
  BY <1>1
<1> QED
  BY <1>1, <1>2 DEF HoldsRun, OneRun, HoldsTerminate

LEMMA Nothing == ~HoldsRun(<<>>) /\ OneRun(<<>>) /\ ~HoldsTerminate(<<>>)
  BY DEF HoldsRun, OneRun, HoldsTerminate

LEMMA NoRun == \A q : ~HoldsRun(q) => OneRun(q)
  BY DEF HoldsRun, OneRun
---------------------------------------------------------------------------
(* The stages that live are the first ones.                                *)
LivePrefix == \A s, t \in Stages : t < s /\ Live(s) => Live(t)

(* A stage is only told to end by a parent that waits for its end.         *)
Waiting == {"grace", "stop", "exit"}

ToldByParent ==
  \A s \in Stages :
     s > 1 /\ Live(s) /\ (pc[s] = "exit" \/ HoldsTerminate(inbox[s])) => pc[s - 1] \in Waiting

OrderInv == LivePrefix /\ ToldByParent

LEMMA OrderBegun == Begun => OrderInv
<1> SUFFICES ASSUME Begun PROVE OrderInv
  OBVIOUS
<1>1. \A s \in Stages : s \in Nat /\ s >= 1
  BY Bounds DEF Stages
<1>2. LivePrefix
  BY <1>1 DEF Begun, LivePrefix, Live
<1>3. ToldByParent
  BY <1>1 DEF Begun, ToldByParent, Live
<1> QED
  BY <1>2, <1>3 DEF OrderInv

(* After the death of a stage the stages before it are as they were, and   *)
(* the stages after it are gone.                                           *)
LEMMA AfterDeath ==
  ASSUME NEW s \in Stages, NEW how, Dies(s, how)
  PROVE  \A t \in Stages :
           /\ Live(t)' <=> Live(t) /\ t < s
           /\ t < s => life'[t] = life[t]
           /\ t > s => life'[t] = "none"
           /\ t = s => life'[t] = "dead"
<1> SUFFICES ASSUME NEW t \in Stages
             PROVE  /\ Live(t)' <=> Live(t) /\ t < s
                    /\ t < s => life'[t] = life[t]
                    /\ t > s => life'[t] = "none"
                    /\ t = s => life'[t] = "dead"
  OBVIOUS
<1>1. s \in Nat /\ t \in Nat
  BY Bounds DEF Stages
<1>2. life'[t] = IF t = s THEN "dead" ELSE IF t > s THEN "none" ELSE life[t]
  BY DEF Dies
<1> QED
  BY <1>1, <1>2 DEF Live

(* The last stage never gets to a step that concerns a child.              *)
LEMMA TerminalOnly ==
  ASSUME TreeInv, NEW s \in Stages, pc[s] \in {"grace", "stop", "record", "fork", "notify"}
  PROVE  s < N /\ s + 1 \in Stages
  BY Bounds DEF TreeInv, TerminalHasNoChild, Stages

LEMMA OrderDeath ==
  ASSUME VarTypes, OrderInv, NEW s \in Stages, NEW how, Dies(s, how), UNCHANGED <<pc, inbox>>
  PROVE  OrderInv'
<1>1. \A t \in Stages : Live(t)' <=> Live(t) /\ t < s
  BY AfterDeath
<1>2. \A t \in Stages : t \in Nat /\ (t > 1 => t - 1 \in Stages)
  BY Bounds DEF Stages
<1>3. LivePrefix'
  <2> SUFFICES ASSUME NEW u \in Stages, NEW t \in Stages, t < u, Live(u)' PROVE Live(t)'
    BY DEF LivePrefix
  <2>1. Live(u) /\ u < s
    BY <1>1
  <2>2. Live(t) /\ t < s
    BY <1>2, <2>1 DEF OrderInv, LivePrefix
  <2> QED
    BY <1>1, <2>2
<1>4. ToldByParent'
  BY <1>1 DEF OrderInv, ToldByParent
<1> QED
  BY <1>3, <1>4 DEF OrderInv

LEMMA OrderStep == VarTypes /\ TreeInv /\ OrderInv /\ [Next]_vars => OrderInv'
<1> SUFFICES ASSUME VarTypes, TreeInv, OrderInv, [Next]_vars PROVE OrderInv'
  OBVIOUS
<1>a. /\ life \in [Stages -> {"none", "live", "dead"}]
      /\ pc \in [Stages -> Phases] /\ inbox \in [Stages -> Seq(Message)]
      /\ active \in [Stages -> BOOLEAN] /\ handle \in [Stages -> BOOLEAN]
  BY DEF VarTypes, TypeOK
<1>b. /\ N \in Nat
      /\ \A s \in Stages : s \in Nat /\ s >= 1 /\ (s < N => s + 1 \in Stages)
                           /\ (s > 1 => s - 1 \in Stages /\ (s - 1) + 1 = s)
                           /\ (s + 1) - 1 = s
  BY Bounds DEF Stages
<1>c. ChildTracked
  BY DEF TreeInv
<1> USE <1>a, <1>b DEF OrderInv, LivePrefix, ToldByParent, Live, Waiting
<1>d. \A s, t \in Stages : t > 1 /\ t - 1 = s <=> t = s + 1
  OBVIOUS
(* A parent whose child has ended goes on.                                 *)
<1>f. ASSUME NEW s \in Stages, pc[s] # "exit", ~Live(s + 1), Reap(s), UNCHANGED inbox,
             NEW p, p # "exit", pc' = [pc EXCEPT ![s] = p]
      PROVE  OrderInv'
  <2>1. \A t \in Stages : Live(t)' <=> Live(t)
    BY <1>f DEF Reap
  <2>2. LivePrefix'
    BY <2>1
  <2>3. ToldByParent'
    <3> SUFFICES ASSUME NEW t \in Stages, t > 1, Live(t)',
                        pc'[t] = "exit" \/ HoldsTerminate(inbox'[t])
                 PROVE  pc'[t - 1] \in Waiting
      OBVIOUS
    <3>1. Live(t) /\ t # s + 1 /\ t - 1 # s
      BY <1>f, <2>1, <1>d
    <3> QED
      BY <1>f, <3>1
  <2> QED
    BY <2>2, <2>3
<1>1. ASSUME NEW s \in Stages, Load(s) PROVE OrderInv'
  BY <1>1 DEF Load, At, Goto
<1>2. ASSUME NEW s \in Stages, ReceiveRun(s) PROVE OrderInv'
  <2>1. HoldsTerminate(Tail(inbox[s])) => HoldsTerminate(inbox[s])
    BY <1>2, Received DEF ReceiveRun
  <2>2. /\ inbox' = [inbox EXCEPT ![s] = Tail(inbox[s])]
        /\ pc' = [pc EXCEPT ![s] = "restart"] /\ pc[s] = "poll"
    BY <1>2 DEF ReceiveRun, At, Goto
  <2>3. \A t \in Stages : life'[t] = life[t] \/ (life[t] = "dead" /\ life'[t] = "none")
    BY <1>2 DEF ReceiveRun, ReapDeadChild, Reap, ChildDead
  <2> QED
    BY <2>1, <2>2, <2>3
<1>3. ASSUME NEW s \in Stages, ReapIdle(s) PROVE OrderInv'
  <2>1. \A t \in Stages : life'[t] = life[t] \/ (life[t] = "dead" /\ life'[t] = "none")
    BY <1>3 DEF ReapIdle, ReapDeadChild, Reap, ChildDead
  <2>2. UNCHANGED <<pc, inbox>>
    BY <1>3 DEF ReapIdle
  <2> QED
    BY <2>1, <2>2
<1>4. ASSUME NEW s \in Stages, CheckRestart(s) PROVE OrderInv'
  <2>1. UNCHANGED life /\ pc[s] = "restart" /\ Live(s)
    BY <1>4 DEF CheckRestart, At
  <2>2. LivePrefix'
    BY <2>1
  <2>3. CASE pc' = [pc EXCEPT ![s] = "grace"]
    <3>1. \A t \in Stages : t # s + 1 => inbox'[t] = inbox[t]
      BY <1>4 DEF CheckRestart, Tell
    <3> QED
      BY <2>1, <2>2, <2>3, <3>1, <1>d
  <2>4. CASE pc' = [pc EXCEPT ![s] = "check"] /\ UNCHANGED inbox
    BY <2>1, <2>2, <2>4
  <2> QED
    BY <1>4, <2>3, <2>4 DEF CheckRestart, Goto
<1>5. ASSUME NEW s \in Stages, KillChild(s) PROVE OrderInv'
  <2>1. s + 1 \in Stages
    BY <1>5, TerminalOnly DEF KillChild, At
  <2> QED
    BY <1>5, <2>1, OrderDeath DEF KillChild
<1>6. ASSUME NEW s \in Stages, Restarted(s) PROVE OrderInv'
  BY <1>6, <1>f DEF Restarted, At, Goto
<1>7. ASSUME NEW s \in Stages, CheckReload(s) PROVE OrderInv'
  <2>1. UNCHANGED life /\ pc[s] = "check" /\ Live(s)
    BY <1>7 DEF CheckReload, At
  <2>2. LivePrefix'
    BY <2>1
  <2>3. CASE pc' = [pc EXCEPT ![s] = "stop"]
    <3>1. \A t \in Stages : t # s + 1 => inbox'[t] = inbox[t]
      BY <1>7 DEF CheckReload, Tell
    <3> QED
      BY <2>1, <2>2, <2>3, <3>1, <1>d
  <2>4. CASE UNCHANGED inbox /\ \E p \in {"reload", "compute", "record", "notify"} :
                pc' = [pc EXCEPT ![s] = p]
    BY <2>1, <2>2, <2>4
  <2> QED
    BY <1>7, <2>3, <2>4 DEF CheckReload, Goto
<1>8. ASSUME NEW s \in Stages, Stopped(s) PROVE OrderInv'
  BY <1>8, <1>f DEF Stopped, At, Goto
<1>9. ASSUME NEW s \in Stages, Reload(s) PROVE OrderInv'
  BY <1>9 DEF Reload, At, Goto
<1>10. ASSUME NEW s \in Stages, Compute(s) PROVE OrderInv'
  BY <1>10 DEF Compute, At, Goto
<1>11. ASSUME NEW s \in Stages, Throw(s) PROVE OrderInv'
  BY <1>11 DEF Throw, At, Goto
<1>12. ASSUME NEW s \in Stages, RecordChildId(s) PROVE OrderInv'
  BY <1>12 DEF RecordChildId, At, Goto
<1>13. ASSUME NEW s \in Stages, Fork(s) PROVE OrderInv'
  <2>1. s < N
    BY <1>13, TerminalOnly DEF Fork, At
  <2>2. /\ Live(s) /\ s + 1 \in Stages /\ s + 1 # s /\ pc[s] = "fork"
        /\ life' = [life EXCEPT ![s + 1] = "live"]
        /\ pc' = [pc EXCEPT ![s] = "notify", ![s + 1] = "load"]
        /\ inbox' = [inbox EXCEPT ![s + 1] = <<>>]
    BY <1>13, <2>1 DEF Fork, At
  <2>5. ~Live(s + 1) /\ \A t \in Stages : t > s => ~Live(t)
    <3>1. ~Live(s + 1)
      BY <2>2, <1>c DEF TreeInv, NoChildWhileBuilding, ChildTracked, HasChild
    <3> QED
      BY <2>2, <3>1
  <2>3. LivePrefix'
    <3> SUFFICES ASSUME NEW u \in Stages, NEW t \in Stages, t < u, Live(u)' PROVE Live(t)'
      OBVIOUS
    <3>1. CASE u = s + 1
      <4>1. t = s \/ t < s
        BY <3>1
      <4> QED
        BY <2>2, <4>1
    <3>2. CASE u # s + 1
      BY <2>2, <3>2
    <3> QED
      BY <3>1, <3>2
  <2>4. ToldByParent'
    <3> SUFFICES ASSUME NEW t \in Stages, t > 1, Live(t)',
                        pc'[t] = "exit" \/ HoldsTerminate(inbox'[t])
                 PROVE  pc'[t - 1] \in Waiting
      OBVIOUS
    <3>1. t # s + 1 /\ t - 1 # s
      BY <2>2, Nothing, <1>d
    <3>2. Live(t) /\ (pc[t] = "exit" \/ HoldsTerminate(inbox[t]))
      BY <2>2, <3>1
    <3>3. pc[t - 1] \in Waiting
      BY <3>2
    <3>4. t - 1 # s + 1
      BY <2>2, <3>2, <3>3, <2>5
    <3> QED
      BY <2>2, <3>1, <3>3, <3>4
  <2> QED
    BY <2>3, <2>4
<1>14. ASSUME NEW s \in Stages, ForkFails(s) PROVE OrderInv'
  BY <1>14 DEF ForkFails, At, Goto
<1>15. ASSUME NEW s \in Stages, Done(s) PROVE OrderInv'
  BY <1>15 DEF Done, At, Goto
<1>16. ASSUME NEW s \in Stages, NotifyChild(s) PROVE OrderInv'
  <2>1. pc[s] = "notify" /\ Live(s) /\ pc' = [pc EXCEPT ![s] = "final"]
    BY <1>16 DEF NotifyChild, At, Goto
  <2>2. CASE ChildDead(s)
    BY <1>16, <2>1, <2>2, <1>f DEF NotifyChild, ChildDead
  <2>3. CASE ~ChildDead(s)
    <3>1. UNCHANGED life
      BY <1>16, <2>3 DEF NotifyChild
    <3>2. \A t \in Stages : HoldsTerminate(inbox'[t]) => HoldsTerminate(inbox[t])
      <4>1. job[s] \in Batches
        BY DEF VarTypes, TypeOK
      <4>2. \A t \in Stages : \/ inbox'[t] = inbox[t]
                              \/ inbox'[t] = Append(inbox[t], Run(job[s]))
        BY <1>16, <2>3 DEF NotifyChild, Tell
      <4>3. \A t \in Stages : HoldsTerminate(Append(inbox[t], Run(job[s])))
                                <=> HoldsTerminate(inbox[t])
        BY <4>1, SentRun
      <4> QED
        BY <4>2, <4>3
    <3> QED
      BY <2>1, <3>1, <3>2
  <2> QED
    BY <2>2, <2>3
<1>17. ASSUME NEW s \in Stages, Finish(s) PROVE OrderInv'
  BY <1>17 DEF Finish, At, Goto, ReapDeadChild, Reap, ChildDead
<1>18. ASSUME NEW s \in Stages, ReceiveTerminate(s) PROVE OrderInv'
  <2>1. /\ UNCHANGED life /\ pc[s] = "poll" /\ Live(s) /\ HoldsTerminate(inbox[s])
        /\ pc' = [pc EXCEPT ![s] = "exit"]
    BY <1>18, Received DEF ReceiveTerminate, At, Goto
  <2>2. \A t \in Stages : t # s + 1 => inbox'[t] = inbox[t]
    BY <1>18 DEF ReceiveTerminate, Tell
  <2>3. LivePrefix'
    BY <2>1
  <2>4. ToldByParent'
    <3> SUFFICES ASSUME NEW t \in Stages, t > 1, Live(t)',
                        pc'[t] = "exit" \/ HoldsTerminate(inbox'[t])
                 PROVE  pc'[t - 1] \in Waiting
      OBVIOUS
    <3>1. CASE t - 1 = s
      BY <2>1, <3>1
    <3>2. CASE t - 1 # s
      BY <2>1, <2>2, <3>2, <1>d
    <3> QED
      BY <3>1, <3>2
  <2> QED
    BY <2>3, <2>4
<1>19. ASSUME NEW s \in Stages, Exit(s) PROVE OrderInv'
  BY <1>19, OrderDeath DEF Exit
<1>20. ASSUME NEW s \in Stages, Crash(s) PROVE OrderInv'
  BY <1>20, OrderDeath DEF Crash
<1>21. ASSUME NEW s \in Stages, Publish(s) PROVE OrderInv'
  BY <1>21 DEF Publish, procVars
<1>22. ASSUME SendRun PROVE OrderInv'
  BY <1>22 DEF SendRun, Tell
<1>23. ASSUME ReadDone PROVE OrderInv'
  BY <1>23 DEF ReadDone, procVars
<1>24. ASSUME ReadTrace PROVE OrderInv'
  BY <1>24 DEF ReadTrace, procVars
<1>25. ASSUME HangUp PROVE OrderInv'
  BY <1>25 DEF HangUp, procVars
<1>26. ASSUME Reply PROVE OrderInv'
  BY <1>26 DEF Reply, procVars
<1>27. ASSUME SendTerminate PROVE OrderInv'
  BY <1>27 DEF SendTerminate, Tell
<1>28. ASSUME ParentExits PROVE OrderInv'
  BY <1>28 DEF ParentExits, procVars
<1>29. ASSUME UNCHANGED vars PROVE OrderInv'
  BY <1>29 DEF vars, procVars
<1> QED
  BY <1>1, <1>2, <1>3, <1>4, <1>5, <1>6, <1>7, <1>8, <1>9, <1>10, <1>11, <1>12, <1>13,
     <1>14, <1>15, <1>16, <1>17, <1>18, <1>19, <1>20, <1>21, <1>22, <1>23, <1>24, <1>25,
     <1>26, <1>27, <1>28, <1>29 DEF Next, StageStep, ParentStep, Ended
---------------------------------------------------------------------------
(* The batch in flight is in one place, the baton: at the stage that works *)
(* on it, in the control pipe of the stage that is to take it, or with a   *)
(* dead child whose parent will report it.                                 *)
Working == {"restart", "grace", "check", "stop", "reload", "compute", "record", "fork",
            "notify", "done"}

Serving(s) == Live(s) /\ pc[s] \in Working
Called(s)  == Live(s) /\ HoldsRun(inbox[s])
Fallen(s)  == /\ s > 1 /\ life[s] = "dead" /\ Live(s - 1)
              /\ active[s - 1] /\ handle[s - 1] /\ pc[s - 1] \notin Waiting
Baton(s)   == Serving(s) \/ Called(s) \/ Fallen(s)

(* A stage is sent one RUN at a time, and none while it works on one.      *)
RunOnce ==
  \A s \in Stages : Live(s) => OneRun(inbox[s]) /\ ~(Serving(s) /\ Called(s))

(* There is one baton at most, and while there is one the parent waits and *)
(* no stage has answered.                                                  *)
OneBaton   == \A s, t \in Stages : Baton(s) /\ Baton(t) => s = t
BatonWaits == \A s \in Stages : Baton(s) => ppc = "wait" /\ doneQ = <<>> /\ token = NoToken
DoneOnce   == Len(doneQ) <= 1 /\ (doneQ # <<>> => ppc = "wait" /\ token = NoToken)

BatonInv == RunOnce /\ OneBaton /\ BatonWaits /\ DoneOnce

(* A step that hands no stage the baton.                                   *)
NoNewBaton ==
  \A t \in Stages : /\ Serving(t)' => Serving(t)
                    /\ Called(t)' => Called(t)
                    /\ Fallen(t)' => Fallen(t)
                    /\ Live(t)' => OneRun(inbox[t])'

(* The baton only goes down the chain, by a RUN that is handed on; the     *)
(* driver brings a new one when there is none.                             *)
GoesDown ==
  \/ SendRun
  \/ \A t \in Stages : Baton(t)' =>
        Baton(t) \/ (~Fallen(t)' /\ \E u \in Stages : u < t /\ Baton(u))

BatonNext == BatonInv' /\ GoesDown

LEMMA StillRunOnce == BatonInv /\ NoNewBaton => RunOnce'
<1> SUFFICES ASSUME BatonInv, NoNewBaton, NEW t \in Stages, Live(t)'
             PROVE  OneRun(inbox[t])' /\ ~(Serving(t)' /\ Called(t)')
  BY DEF RunOnce
<1>1. ~(Serving(t) /\ Called(t))
  BY DEF BatonInv, RunOnce, Serving
<1> QED
  BY <1>1 DEF NoNewBaton

LEMMA StillDown == NoNewBaton => GoesDown
  BY DEF NoNewBaton, GoesDown, Baton

LEMMA Kept ==
  ASSUME BatonInv, NoNewBaton, UNCHANGED <<ppc, doneQ, token>> PROVE BatonNext
<1>1. RunOnce'
  BY StillRunOnce
<1>2. OneBaton' /\ BatonWaits'
  BY DEF BatonInv, NoNewBaton, OneBaton, BatonWaits, Baton
<1>3. DoneOnce'
  BY DEF BatonInv, DoneOnce
<1> QED
  BY <1>1, <1>2, <1>3, StillDown DEF BatonInv, BatonNext

(* The stage that has the baton answers.                                   *)
LEMMA Answered ==
  ASSUME BatonInv, NoNewBaton, NEW u \in Stages, Baton(u), ~Baton(u)',
         NEW d, doneQ' = Append(doneQ, d), UNCHANGED <<ppc, token>>
  PROVE  BatonNext
<1>1. RunOnce'
  BY StillRunOnce
<1>2. \A t \in Stages : ~Baton(t)'
  BY DEF BatonInv, NoNewBaton, OneBaton, Baton
<1>3. doneQ = <<>> /\ ppc = "wait" /\ token = NoToken
  BY DEF BatonInv, BatonWaits
<1>4. DoneOnce'
  BY <1>3 DEF DoneOnce
<1> QED
  BY <1>1, <1>2, <1>4, StillDown DEF BatonInv, OneBaton, BatonWaits, BatonNext

(* The baton goes from one stage to another.                               *)
LEMMA HandedOn ==
  ASSUME BatonInv, NEW s \in Stages, Baton(s), NEW u \in Stages,
         \A t \in Stages : Baton(t)' => t = u, u = s \/ (s < u /\ ~Fallen(u)'),
         RunOnce', UNCHANGED <<ppc, doneQ, token>>
  PROVE  BatonNext
<1>1. doneQ = <<>> /\ ppc = "wait" /\ token = NoToken
  BY DEF BatonInv, BatonWaits
<1>2. BatonInv'
  BY <1>1 DEF BatonInv, OneBaton, BatonWaits, DoneOnce
<1>3. GoesDown
  BY DEF GoesDown
<1> QED
  BY <1>2, <1>3 DEF BatonNext

(* Nobody has the baton.                                                   *)
LEMMA NoBaton ==
  ASSUME BatonInv, NoNewBaton, \A t \in Stages : ~Baton(t), DoneOnce' PROVE BatonNext
<1>1. RunOnce'
  BY StillRunOnce
<1>2. \A t \in Stages : ~Baton(t)'
  BY DEF NoNewBaton, Baton
<1> QED
  BY <1>1, <1>2, StillDown DEF BatonInv, OneBaton, BatonWaits, BatonNext

(* A TERMINATE in a control pipe changes nothing for the RUNs in it.        *)
LEMMA ToldTerminate ==
  ASSUME VarTypes, NEW u, Tell(u, Terminate) \/ UNCHANGED inbox
  PROVE  \A t \in Stages : /\ HoldsRun(inbox'[t]) => HoldsRun(inbox[t])
                           /\ OneRun(inbox[t]) => OneRun(inbox'[t])
<1> SUFFICES ASSUME NEW t \in Stages
             PROVE  /\ HoldsRun(inbox'[t]) => HoldsRun(inbox[t])
                    /\ OneRun(inbox[t]) => OneRun(inbox'[t])
  OBVIOUS
<1>1. inbox \in [Stages -> Seq(Message)]
  BY DEF VarTypes, TypeOK
<1>2. inbox'[t] = inbox[t] \/ inbox'[t] = Append(inbox[t], Terminate)
  BY <1>1 DEF Tell
<1>3. inbox[t] \in Seq(Message)
  BY <1>1
<1> QED
  BY <1>2, <1>3, SentTerminate

(* A stage moves on, and at most loses a child or sends a TERMINATE.       *)
LEMMA Moved ==
  ASSUME VarTypes, BatonInv, NEW s \in Stages, NEW p,
         pc' = [pc EXCEPT ![s] = p],
         p \in Working => pc[s] \in Working,
         pc[s] \in Waiting => p \in Waiting \/ (s < N => life'[s + 1] # "dead"),
         \A t \in Stages : life'[t] = life[t] \/ life'[t] = "none",
         \A t \in Stages : (active'[t] => active[t]) /\ (handle'[t] => handle[t]),
         \A t \in Stages : /\ HoldsRun(inbox'[t]) => HoldsRun(inbox[t])
                           /\ OneRun(inbox[t]) => OneRun(inbox'[t])
  PROVE  NoNewBaton
<1> SUFFICES ASSUME NEW t \in Stages
             PROVE  /\ Serving(t)' => Serving(t)
                    /\ Called(t)' => Called(t)
                    /\ Fallen(t)' => Fallen(t)
                    /\ Live(t)' => OneRun(inbox[t])'
  BY DEF NoNewBaton
<1>1. pc \in [Stages -> Phases]
  BY DEF VarTypes, TypeOK
<1>2. Live(t)' => Live(t)
  BY DEF Live
<1>3. Serving(t)' => Serving(t)
  BY <1>1, <1>2 DEF Serving
<1>4. Called(t)' => Called(t)
  BY <1>2 DEF Called
<1>5. Live(t)' => OneRun(inbox[t])'
  BY <1>2 DEF BatonInv, RunOnce
<1>6. ASSUME Fallen(t)' PROVE Fallen(t)
  <2>1. t > 1 /\ t - 1 \in Stages /\ (t - 1 = s => s < N /\ s + 1 = t)
    BY <1>6, Bounds DEF Fallen, Stages
  <2>2. /\ life'[t] = "dead" /\ life'[t - 1] = "live" /\ active'[t - 1] /\ handle'[t - 1]
        /\ pc'[t - 1] \notin Waiting
    BY <1>6 DEF Fallen, Live
  <2>3. /\ life[t] = "dead" /\ Live(t - 1) /\ active[t - 1] /\ handle[t - 1]
    BY <2>1, <2>2 DEF Live
  <2>4. pc[t - 1] \notin Waiting
    BY <1>1, <2>1, <2>2
  <2> QED
    BY <2>1, <2>3, <2>4 DEF Fallen
<1> QED
  BY <1>3, <1>4, <1>5, <1>6

(* A parent that can reap its child at leisure has found the baton.        *)
LEMMA DeadChildIsBaton ==
  ASSUME NEW s \in Stages, ChildDead(s), Live(s), pc[s] \notin Waiting
  PROVE  s + 1 \in Stages /\ s + 1 # s /\ Fallen(s + 1)
<1>1. s \in Nat /\ s >= 1 /\ s + 1 \in Stages /\ (s + 1) - 1 = s /\ s + 1 > 1
  BY Bounds DEF Stages, ChildDead, HasChild
<1> QED
  BY <1>1 DEF Fallen, ChildDead, HasChild

LEMMA WorksAlone ==
  ASSUME BatonInv, NEW s \in Stages, Baton(s), Live(s), pc[s] \notin Waiting
  PROVE  ~ChildDead(s)
  BY DeadChildIsBaton DEF BatonInv, OneBaton, Baton
---------------------------------------------------------------------------
(* The steps of the tree, the driver and the compiler, deaths left aside.  *)
Move ==
  \/ \E s \in Stages : StageStep(s) \/ Publish(s)
  \/ SendRun \/ SendTerminate \/ ParentStep \/ UNCHANGED vars

LEMMA MoveOrCrash == [Next]_vars => Move \/ \E s \in Stages : Crash(s)
  BY DEF Next, Move, Ended

LEMMA MoveIsStep == Move => [Next]_vars
  BY DEF Next, Move

(* The death of s now will be reported for the batch: the batch is not     *)
(* above s, and nothing has been reported for it.                          *)
Covered(s) ==
  /\ ppc = "wait" /\ doneQ = <<>> /\ token = NoToken
  /\ \A t \in Stages : (t < s => ~Baton(t)) /\ ~At(t, "done")

(* A stage may be killed while it works on a batch, not while it waits for *)
(* one or has already answered it.                                         *)
TimelyDeaths == CrashAt \cap {"load", "poll", "done", "final", "exit"} = {}

LEMMA CrashIsDeath ==
  ASSUME VarTypes, NEW s \in Stages, Crash(s)
  PROVE  \E how \in Statuses : Death(s, how)
<1>1. PICK how \in CrashHow : Dies(s, how)
  BY DEF Crash
<1> QED
  BY <1>1, Bounds DEF Crash, Death

LEMMA TimelyCrash ==
  ASSUME TimelyDeaths, VarTypes, BatonInv, NEW s \in Stages, Crash(s)
  PROVE  Covered(s)
<1>1. Serving(s) /\ pc[s] # "done"
  BY DEF Crash, TimelyDeaths, Serving, Working, Phases, VarTypes, TypeOK
<1>2. \A t \in Stages : Baton(t) => t = s
  BY <1>1 DEF BatonInv, OneBaton, Baton
<1>3. \A t \in Stages : ~At(t, "done")
  BY <1>1, <1>2 DEF At, Baton, Serving, Working
<1>4. \A t \in Stages : t < s => t # s
  BY Bounds DEF Stages
<1> QED
  BY <1>1, <1>2, <1>3, <1>4 DEF BatonInv, BatonWaits, Baton, Covered

LEMMA BatonBegun == Begun => BatonInv
<1> SUFFICES ASSUME Begun PROVE BatonInv
  OBVIOUS
<1>1. \A s \in Stages : ~Baton(s) /\ OneRun(inbox[s])
  BY Nothing DEF Begun, Baton, Serving, Called, Fallen, Live, Working
<1>2. DoneOnce
  BY DEF Begun, DoneOnce
<1> QED
  BY <1>1, <1>2 DEF BatonInv, RunOnce, OneBaton, BatonWaits, Baton

LEMMA DeathBaton ==
  ASSUME NEW s \in Stages, NEW how, Death(s, how), Covered(s)
  PROVE  \A t \in Stages : Baton(t)' => t = s
<1>1. UNCHANGED <<pc, inbox, active, handle>>
  BY DEF Death, childVars
<1>2. \A t \in Stages : /\ Live(t)' <=> Live(t) /\ t < s
                        /\ t < s => life'[t] = life[t]
                        /\ t > s => life'[t] = "none"
  BY AfterDeath DEF Death
<1> SUFFICES ASSUME NEW t \in Stages, t # s, Baton(t)' PROVE FALSE
  OBVIOUS
<1>3. CASE Fallen(t)'
  <2>1. t - 1 \in Stages /\ t \in Nat /\ s \in Nat
    BY <1>3, Bounds DEF Fallen, Stages
  <2>2. t < s /\ life[t] = "dead"
    BY <1>2, <1>3, <2>1 DEF Fallen
  <2> QED
    BY <1>1, <1>2, <1>3, <2>1, <2>2 DEF Covered, Baton, Fallen
<1> QED
  BY <1>1, <1>2, <1>3 DEF Covered, Baton, Serving, Called

LEMMA BatonDeath ==
  ASSUME VarTypes, BatonInv, NEW s \in Stages, NEW how, Death(s, how), Covered(s)
  PROVE  BatonInv'
<1>1. UNCHANGED <<pc, inbox, ppc, doneQ, token>>
  BY DEF Death, pipeVars, parentVars
<1>2. \A t \in Stages : Live(t)' => Live(t)
  BY AfterDeath DEF Death
<1>3. RunOnce'
  BY <1>1, <1>2 DEF BatonInv, RunOnce, Serving, Called
<1> QED
  BY <1>1, <1>3, DeathBaton DEF Covered, BatonInv, OneBaton, BatonWaits, DoneOnce

LEMMA BatonStep == VarTypes /\ TreeInv /\ OrderInv /\ BatonInv /\ Move => BatonNext
<1> SUFFICES ASSUME VarTypes, TreeInv, OrderInv, BatonInv, Move PROVE BatonNext
  OBVIOUS
<1>a. /\ life \in [Stages -> {"none", "live", "dead"}]
      /\ pc \in [Stages -> Phases] /\ inbox \in [Stages -> Seq(Message)]
      /\ active \in [Stages -> BOOLEAN] /\ handle \in [Stages -> BOOLEAN]
      /\ job \in [Stages -> Batches] /\ doneQ \in Seq(Token) /\ batch \in Batches
  BY DEF VarTypes, TypeOK
<1>b. \A s \in Stages : s \in Nat /\ s >= 1 /\ (s < N => s + 1 \in Stages)
                        /\ (s + 1) - 1 = s /\ s + 1 # s
  BY Bounds DEF Stages
<1>c. ASSUME NEW s \in Stages, Serving(s), ~Serving(s)', ~Called(s)', life'[s] = "live"
      PROVE  Baton(s) /\ ~Baton(s)'
  BY <1>c DEF Baton, Fallen
(* Steps that leave the batch where it is.                                 *)
<1>1. ASSUME NEW s \in Stages, Load(s) PROVE BatonNext
  <2>1. NoNewBaton
    BY <1>1, <1>a, Moved DEF Load, At, Goto, Working, Waiting, childVars
  <2> QED
    BY <1>1, <2>1, Kept DEF Load, pipeVars, parentVars
<1>4. ASSUME NEW s \in Stages, CheckRestart(s) PROVE BatonNext
  <2>1. \A t \in Stages : /\ HoldsRun(inbox'[t]) => HoldsRun(inbox[t])
                          /\ OneRun(inbox[t]) => OneRun(inbox'[t])
    BY <1>4, ToldTerminate DEF CheckRestart
  <2>2. PICK p \in {"grace", "check"} : pc' = [pc EXCEPT ![s] = p]
    BY <1>4 DEF CheckRestart, Goto
  <2>3. /\ pc[s] = "restart" /\ UNCHANGED <<life, handle, ppc, doneQ, token>>
        /\ \A t \in Stages : active'[t] => active[t]
    BY <1>4, <1>a DEF CheckRestart, At, pipeVars, parentVars
  <2>4. NoNewBaton
    BY <2>1, <2>2, <2>3, Moved DEF Working, Waiting
  <2> QED
    BY <2>3, <2>4, Kept
<1>5. ASSUME NEW s \in Stages, KillChild(s) PROVE BatonNext
  <2>1. s + 1 \in Stages /\ pc[s] = "grace"
    BY <1>5, TerminalOnly DEF KillChild, At
  <2>2. /\ Dies(s + 1, "sig")
        /\ UNCHANGED <<pc, inbox, active, handle, ppc, doneQ, token>>
    BY <1>5 DEF KillChild, childVars, pipeVars, parentVars
  <2>3. \A t \in Stages : /\ Live(t)' => Live(t)
                          /\ life'[t] = "dead" => life[t] = "dead" \/ t = s + 1
    BY <2>1, <2>2, <1>b, AfterDeath
  <2>4. \A t \in Stages : Fallen(t)' => Fallen(t)
    <3> SUFFICES ASSUME NEW t \in Stages, Fallen(t)' PROVE Fallen(t)
      OBVIOUS
    <3>1. t - 1 \in Stages /\ t > 1
      BY <1>b, Bounds DEF Fallen, Stages
    <3>2. t # s + 1
      BY <2>1, <2>2, <1>b DEF Fallen, Waiting
    <3> QED
      BY <2>2, <2>3, <3>1, <3>2 DEF Fallen
  <2>5. NoNewBaton
    BY <2>2, <2>3, <2>4 DEF NoNewBaton, Serving, Called, BatonInv, RunOnce
  <2> QED
    BY <2>2, <2>5, Kept
<1>6. ASSUME NEW s \in Stages, Restarted(s) PROVE BatonNext
  <2>1. /\ pc[s] = "grace" /\ pc' = [pc EXCEPT ![s] = "check"]
        /\ life' = [life EXCEPT ![s + 1] = "none"]
        /\ UNCHANGED <<inbox, ppc, doneQ, token>>
        /\ \A t \in Stages : (active'[t] => active[t]) /\ (handle'[t] => handle[t])
    BY <1>6, <1>a DEF Restarted, At, Goto, Reap, pipeVars, parentVars
  <2>2. NoNewBaton
    BY <2>1, <1>a, <1>b, Moved DEF Working, Waiting
  <2> QED
    BY <2>1, <2>2, Kept
<1>7. ASSUME NEW s \in Stages, CheckReload(s) PROVE BatonNext
  <2>1. \A t \in Stages : /\ HoldsRun(inbox'[t]) => HoldsRun(inbox[t])
                          /\ OneRun(inbox[t]) => OneRun(inbox'[t])
    BY <1>7, ToldTerminate DEF CheckReload
  <2>2. PICK p \in {"stop", "reload", "compute", "record", "notify"} :
             pc' = [pc EXCEPT ![s] = p]
    BY <1>7 DEF CheckReload, Goto
  <2>3. /\ pc[s] = "check" /\ UNCHANGED <<life, handle, ppc, doneQ, token>>
        /\ \A t \in Stages : active'[t] => active[t]
    BY <1>7, <1>a DEF CheckReload, At, pipeVars, parentVars
  <2>4. NoNewBaton
    BY <2>1, <2>2, <2>3, Moved DEF Working, Waiting
  <2> QED
    BY <2>3, <2>4, Kept
<1>8. ASSUME NEW s \in Stages, Stopped(s) PROVE BatonNext
  <2>1. /\ pc[s] = "stop" /\ pc' = [pc EXCEPT ![s] = "reload"]
        /\ life' = [life EXCEPT ![s + 1] = "none"]
        /\ UNCHANGED <<inbox, ppc, doneQ, token>>
        /\ \A t \in Stages : (active'[t] => active[t]) /\ (handle'[t] => handle[t])
    BY <1>8, <1>a DEF Stopped, At, Goto, Reap, pipeVars, parentVars
  <2>2. NoNewBaton
    BY <2>1, <1>a, <1>b, Moved DEF Working, Waiting
  <2> QED
    BY <2>1, <2>2, Kept
<1>9. ASSUME NEW s \in Stages, Reload(s) PROVE BatonNext
  <2>1. NoNewBaton
    BY <1>9, <1>a, Moved DEF Reload, At, Goto, Working, Waiting, childVars
  <2> QED
    BY <1>9, <2>1, Kept DEF Reload, pipeVars, parentVars
<1>10. ASSUME NEW s \in Stages, Compute(s) PROVE BatonNext
  <2>1. PICK p \in {"record", "done"} : pc' = [pc EXCEPT ![s] = p]
    BY <1>10 DEF Compute, Goto
  <2>2. pc[s] = "compute" /\ UNCHANGED <<life, inbox, active, handle, ppc, doneQ, token>>
    BY <1>10 DEF Compute, At, childVars, parentVars
  <2>3. NoNewBaton
    BY <2>1, <2>2, Moved DEF Working, Waiting
  <2> QED
    BY <2>2, <2>3, Kept
<1>12. ASSUME NEW s \in Stages, RecordChildId(s) PROVE BatonNext
  <2>1. NoNewBaton
    BY <1>12, <1>a, Moved DEF RecordChildId, At, Goto, Working, Waiting
  <2> QED
    BY <1>12, <2>1, Kept DEF RecordChildId, pipeVars, parentVars
<1>13. ASSUME NEW s \in Stages, Fork(s) PROVE BatonNext
  <2>1. s + 1 \in Stages
    BY <1>13, TerminalOnly DEF Fork, At
  <2>2. /\ pc[s] = "fork" /\ Live(s) /\ ~active[s]
        /\ life' = [life EXCEPT ![s + 1] = "live"]
        /\ pc' = [pc EXCEPT ![s] = "notify", ![s + 1] = "load"]
        /\ inbox' = [inbox EXCEPT ![s + 1] = <<>>]
        /\ active' = [active EXCEPT ![s] = TRUE, ![s + 1] = FALSE]
        /\ handle' = [handle EXCEPT ![s] = TRUE, ![s + 1] = FALSE]
        /\ UNCHANGED <<ppc, doneQ, token>>
    BY <1>13 DEF Fork, At, TreeInv, NoChildWhileBuilding, pipeVars, parentVars
  <2>3. NoNewBaton
    <3> SUFFICES ASSUME NEW t \in Stages
                 PROVE  /\ Serving(t)' => Serving(t)
                        /\ Called(t)' => Called(t)
                        /\ Fallen(t)' => Fallen(t)
                        /\ Live(t)' => OneRun(inbox[t])'
      BY DEF NoNewBaton
    <3>1. CASE t = s + 1
      BY <2>1, <2>2, <3>1, <1>a, Nothing DEF Serving, Called, Fallen, Live, Working
    <3>2. CASE t # s + 1
      <4>1. /\ life'[t] = life[t] /\ inbox'[t] = inbox[t]
            /\ pc'[t] \in Working => pc[t] \in Working
        BY <2>1, <2>2, <3>2, <1>a DEF Working
      <4>2. Fallen(t)' => Fallen(t)
        <5> SUFFICES ASSUME Fallen(t)' PROVE Fallen(t)
          OBVIOUS
        <5>1. t - 1 \in Stages /\ t - 1 # s
          BY <3>2, <1>b, Bounds DEF Fallen, Stages
        <5>2. t - 1 # s + 1
          BY <2>1, <2>2, <1>a DEF Fallen
        <5> QED
          BY <2>2, <4>1, <5>1, <5>2, <1>a DEF Fallen, Live
      <4> QED
        BY <4>1, <4>2 DEF Serving, Called, Live, BatonInv, RunOnce
    <3> QED
      BY <3>1, <3>2
  <2> QED
    BY <2>2, <2>3, Kept
<1>18. ASSUME NEW s \in Stages, ReceiveTerminate(s) PROVE BatonNext
  <2>1. \A t \in Stages : /\ HoldsRun(inbox'[t]) => HoldsRun(inbox[t])
                          /\ OneRun(inbox[t]) => OneRun(inbox'[t])
    BY <1>18, ToldTerminate DEF ReceiveTerminate
  <2>2. /\ pc[s] = "poll" /\ pc' = [pc EXCEPT ![s] = "exit"]
        /\ UNCHANGED <<life, active, handle, ppc, doneQ, token>>
    BY <1>18 DEF ReceiveTerminate, At, Goto, childVars, pipeVars, parentVars
  <2>3. NoNewBaton
    BY <2>1, <2>2, Moved DEF Working, Waiting
  <2> QED
    BY <2>2, <2>3, Kept
<1>19. ASSUME NEW s \in Stages, Exit(s) PROVE BatonNext
  <2>1. /\ Dies(s, "clean") /\ pc[s] = "exit" /\ Live(s)
        /\ UNCHANGED <<pc, inbox, active, handle, ppc, doneQ, token>>
    BY <1>19 DEF Exit, At, childVars, pipeVars, parentVars
  <2>2. \A t \in Stages : /\ Live(t)' => Live(t)
                          /\ life'[t] = "dead" => life[t] = "dead" \/ t = s
    BY <2>1, <1>b, AfterDeath
  <2>3. s > 1 => pc[s - 1] \in Waiting
    BY <2>1 DEF OrderInv, ToldByParent
  <2>4. \A t \in Stages : Fallen(t)' => Fallen(t)
    <3> SUFFICES ASSUME NEW t \in Stages, Fallen(t)' PROVE Fallen(t)
      OBVIOUS
    <3>1. t - 1 \in Stages /\ t > 1
      BY <1>b, Bounds DEF Fallen, Stages
    <3>2. t # s
      BY <2>1, <2>3, <3>1 DEF Fallen
    <3> QED
      BY <2>1, <2>2, <3>1, <3>2 DEF Fallen
  <2>5. NoNewBaton
    BY <2>1, <2>2, <2>4 DEF NoNewBaton, Serving, Called, BatonInv, RunOnce
  <2> QED
    BY <2>1, <2>5, Kept
(* The batch goes on to another stage, or its stage falls.                 *)
<1>2. ASSUME NEW s \in Stages, ReceiveRun(s) PROVE BatonNext
  <2>1. /\ pc[s] = "poll" /\ Live(s) /\ inbox[s] # <<>> /\ Head(inbox[s]).act = "RUN"
        /\ inbox' = [inbox EXCEPT ![s] = Tail(inbox[s])]
        /\ pc' = [pc EXCEPT ![s] = "restart"]
    BY <1>2 DEF ReceiveRun, At, Goto
  <2>2. HoldsRun(inbox[s]) /\ OneRun(inbox[s]) /\ ~HoldsRun(Tail(inbox[s]))
    BY <2>1, <1>a, Received DEF BatonInv, RunOnce
  <2>3. Baton(s)
    BY <2>1, <2>2 DEF Baton, Called
  <2>4. UNCHANGED <<life, active, handle, ppc, doneQ, token>>
    BY <1>2, <2>1, <2>3, WorksAlone DEF ReceiveRun, ReapDeadChild, parentVars, Waiting
  <2>5. \A t \in Stages : t # s => (Baton(t)' => Baton(t)) /\ inbox'[t] = inbox[t] /\ pc'[t] = pc[t]
    <3> SUFFICES ASSUME NEW t \in Stages, t # s PROVE Baton(t)' => Baton(t)
      BY <2>1, <1>a
    <3>1. inbox'[t] = inbox[t] /\ pc'[t] = pc[t]
      BY <2>1, <1>a
    <3>2. t > 1 => t - 1 \in Stages
      BY Bounds DEF Stages
    <3>3. t > 1 => (pc'[t - 1] \notin Waiting => pc[t - 1] \notin Waiting)
      BY <2>1, <3>2, <1>a DEF Waiting
    <3> QED
      BY <2>4, <3>1, <3>2, <3>3 DEF Baton, Serving, Called, Fallen, Live
  <2>6. \A t \in Stages : Baton(t)' => t = s
    BY <2>3, <2>5 DEF BatonInv, OneBaton
  <2>7. RunOnce'
    <3> SUFFICES ASSUME NEW t \in Stages, Live(t)'
                 PROVE  OneRun(inbox[t])' /\ ~(Serving(t)' /\ Called(t)')
      BY DEF RunOnce
    <3>1. CASE t = s
      BY <2>1, <2>2, <3>1, <1>a, NoRun DEF Called
    <3>2. CASE t # s
      BY <2>4, <2>5, <3>2 DEF BatonInv, RunOnce, Serving, Called, Live
    <3> QED
      BY <3>1, <3>2
  <2> QED
    BY <2>3, <2>4, <2>6, <2>7, HandedOn
<1>16. ASSUME NEW s \in Stages, NotifyChild(s) PROVE BatonNext
  <2>1. pc[s] = "notify" /\ Live(s) /\ pc' = [pc EXCEPT ![s] = "final"]
    BY <1>16 DEF NotifyChild, At, Goto
  <2>2. Baton(s) /\ ~Fallen(s) /\ ~Called(s)
    BY <2>1 DEF Baton, Serving, Working, BatonInv, RunOnce, Fallen, Live
  <2>3. ~ChildDead(s)
    BY <2>1, <2>2, WorksAlone DEF Waiting
  <2>4. /\ UNCHANGED <<life, active, handle, ppc, doneQ, token>>
        /\ IF HasChild(s) THEN Tell(s + 1, Run(job[s])) ELSE UNCHANGED inbox
    BY <1>16, <2>3 DEF NotifyChild, parentVars
  <2>5. CASE UNCHANGED inbox
    <3>1. NoNewBaton
      BY <2>1, <2>4, <2>5, Moved DEF Working, Waiting
    <3> QED
      BY <2>4, <3>1, Kept
  <2>6. CASE HasChild(s) /\ Live(s + 1) /\ inbox' = [inbox EXCEPT ![s + 1] = Append(@, Run(job[s]))]
    <3>1. s + 1 \in Stages /\ s + 1 # s /\ job[s] \in Batches /\ inbox[s + 1] \in Seq(Message)
      BY <2>6, <1>a, <1>b, ChildIsStage
    <3>2. ~Baton(s + 1)
      BY <2>2, <3>1 DEF BatonInv, OneBaton
    <3>3. ~HoldsRun(inbox[s + 1]) /\ pc[s + 1] \notin Working
      BY <2>6, <3>2 DEF Baton, Called, Serving
    <3>4. OneRun(inbox'[s + 1])
      BY <2>6, <3>1, <3>3, <1>a, SentRun
    <3>5. \A t \in Stages : t # s + 1 => inbox'[t] = inbox[t]
      BY <2>6
    <3>6. \A t \in Stages : t # s + 1 => (Serving(t)' => Serving(t)) /\ (Called(t)' => Called(t))
      BY <2>1, <2>4, <3>5, <1>a DEF Serving, Called, Live, Working
    <3>7. \A t \in Stages : Fallen(t)' => Fallen(t)
      <4> SUFFICES ASSUME NEW t \in Stages, Fallen(t)' PROVE Fallen(t)
        OBVIOUS
      <4>1. t - 1 \in Stages
        BY Bounds DEF Fallen, Stages
      <4>2. pc'[t - 1] \notin Waiting => pc[t - 1] \notin Waiting
        BY <2>1, <4>1, <1>a DEF Waiting
      <4> QED
        BY <2>4, <4>2 DEF Fallen, Live
    <3>8. \A t \in Stages : Baton(t)' => t = s + 1
      <4> SUFFICES ASSUME NEW t \in Stages, t # s + 1, Baton(t)' PROVE FALSE
        OBVIOUS
      <4>1. Baton(t)
        BY <3>6, <3>7 DEF Baton
      <4>2. t = s
        BY <2>2, <4>1 DEF BatonInv, OneBaton
      <4>3. Serving(s)'
        BY <2>2, <3>6, <3>7, <4>2 DEF Baton
      <4> QED
        BY <2>1, <4>3, <1>a DEF Serving, Working
    <3>9. RunOnce'
      <4> SUFFICES ASSUME NEW t \in Stages, Live(t)'
                   PROVE  OneRun(inbox[t])' /\ ~(Serving(t)' /\ Called(t)')
        BY DEF RunOnce
      <4>1. CASE t = s + 1
        BY <2>1, <3>1, <3>3, <3>4, <4>1, <1>a DEF Serving
      <4>2. CASE t # s + 1
        BY <2>4, <3>5, <3>6, <4>2 DEF BatonInv, RunOnce, Live
      <4> QED
        BY <4>1, <4>2
    <3>10. s < s + 1 /\ ~Fallen(s + 1)'
      BY <2>4, <2>6, <1>b DEF Fallen, Live
    <3> QED
      BY <2>2, <2>4, <3>1, <3>8, <3>9, <3>10, HandedOn
  <2> QED
    BY <2>4, <2>5, <2>6 DEF Tell
(* A stage answers, for itself or for its dead child.                      *)
<1>3. ASSUME NEW s \in Stages, ReapIdle(s) PROVE BatonNext
  <2>1. /\ pc[s] = "poll" /\ Live(s) /\ ChildDead(s)
        /\ life' = [life EXCEPT ![s + 1] = "none"]
        /\ UNCHANGED <<pc, inbox, ppc, token>>
        /\ \A t \in Stages : (active'[t] => active[t]) /\ (handle'[t] => handle[t])
        /\ WriteDone(s, status[s + 1])
    BY <1>3, <1>a DEF ReapIdle, At, ReapDeadChild, Reap, parentVars
  <2>2. s + 1 \in Stages /\ Fallen(s + 1)
    BY <2>1, DeadChildIsBaton DEF Waiting
  <2>3. NoNewBaton
    BY <2>1, <1>a, Moved DEF Working, Waiting
  <2>4. ~Baton(s + 1)'
    BY <2>1, <2>2, <1>a DEF Baton, Serving, Called, Fallen, Live
  <2> QED
    BY <2>1, <2>2, <2>3, <2>4, Answered DEF WriteDone, Baton
<1>17. ASSUME NEW s \in Stages, Finish(s) PROVE BatonNext
  <2>1. /\ pc[s] = "final" /\ Live(s) /\ pc' = [pc EXCEPT ![s] = "poll"]
        /\ UNCHANGED <<inbox, ppc, token>>
    BY <1>17 DEF Finish, At, Goto, parentVars
  <2>2. CASE ChildDead(s)
    <3>1. /\ life' = [life EXCEPT ![s + 1] = "none"]
          /\ \A t \in Stages : (active'[t] => active[t]) /\ (handle'[t] => handle[t])
          /\ WriteDone(s, status[s + 1])
      BY <1>17, <2>2, <1>a DEF Finish, ReapDeadChild, Reap
    <3>2. s + 1 \in Stages /\ Fallen(s + 1)
      BY <2>1, <2>2, DeadChildIsBaton DEF Waiting
    <3>3. NoNewBaton
      BY <2>1, <3>1, <1>a, Moved DEF Working, Waiting
    <3>4. ~Baton(s + 1)'
      BY <3>1, <3>2, <1>a DEF Baton, Serving, Called, Fallen, Live
    <3> QED
      BY <2>1, <3>1, <3>2, <3>3, <3>4, Answered DEF WriteDone, Baton
  <2>3. CASE ~ChildDead(s)
    <3>1. UNCHANGED <<life, active, handle, doneQ>>
      BY <1>17, <2>3 DEF Finish, ReapDeadChild
    <3>2. NoNewBaton
      BY <2>1, <3>1, Moved DEF Working, Waiting
    <3> QED
      BY <2>1, <3>1, <3>2, Kept
  <2> QED
    BY <2>2, <2>3
<1>d. ASSUME NEW s \in Stages, Serving(s), pc[s] \notin Waiting, NEW how, WriteDone(s, how),
             pc' = [pc EXCEPT ![s] = "final"], UNCHANGED <<life, inbox, active, ppc, token>>,
             \A t \in Stages : handle'[t] => handle[t]
      PROVE  BatonNext
  <2>1. NoNewBaton
    BY <1>d, Moved DEF Working
  <2>2. ~Serving(s)' /\ ~Called(s)' /\ life'[s] = "live"
    BY <1>d, <1>a DEF Serving, Called, Live, Working, BatonInv, RunOnce
  <2> QED
    BY <1>d, <2>1, <2>2, <1>c, Answered DEF WriteDone
<1>11. ASSUME NEW s \in Stages, Throw(s) PROVE BatonNext
  BY <1>11, <1>d DEF Throw, At, Goto, Serving, Working, Waiting, childVars, parentVars
<1>14. ASSUME NEW s \in Stages, ForkFails(s) PROVE BatonNext
  BY <1>14, <1>d, <1>a DEF ForkFails, At, Goto, Serving, Working, Waiting, parentVars
<1>15. ASSUME NEW s \in Stages, Done(s) PROVE BatonNext
  BY <1>15, <1>d DEF Done, At, Goto, Serving, Working, Waiting, childVars, parentVars
(* The parent sends a batch, and takes the answer.                         *)
<1>e. ASSUME UNCHANGED <<life, pc, inbox, active, handle>> PROVE NoNewBaton
  BY <1>e DEF NoNewBaton, Serving, Called, Fallen, Live, BatonInv, RunOnce
<1>21. ASSUME NEW s \in Stages, Publish(s) PROVE BatonNext
  BY <1>21, <1>e, Kept DEF Publish, procVars, childVars, pipeVars, parentVars
<1>22. ASSUME SendRun PROVE BatonNext
  <2>1. (\A t \in Stages : ~Baton(t)) /\ doneQ = <<>>
    BY <1>22 DEF SendRun, BatonInv, BatonWaits, DoneOnce
  <2>2. /\ token' = NoToken /\ ppc' = IF Live(1) THEN "wait" ELSE "dead"
        /\ UNCHANGED <<life, pc, active, handle, doneQ>>
        /\ Tell(1, Run(batch + 1)) /\ batch + 1 \in Batches /\ 1 \in Stages
    BY <1>22, <1>a, Bounds DEF SendRun, childVars, pipeVars, Batches, Stages
  <2>3. CASE Live(1)
    <3>1. inbox' = [inbox EXCEPT ![1] = Append(@, Run(batch + 1))]
      BY <2>2, <2>3 DEF Tell
    <3>2. OneRun(inbox'[1]) /\ pc[1] \notin Working
      BY <2>1, <2>2, <2>3, <3>1, <1>a, SentRun DEF Baton, Serving, Called
    <3>3. \A t \in Stages : t # 1 => ~Baton(t)'
      BY <2>1, <2>2, <3>1 DEF Baton, Serving, Called, Fallen, Live
    <3>4. RunOnce'
      BY <2>2, <3>1, <3>2, <1>a DEF BatonInv, RunOnce, Serving, Called, Live
    <3>5. ppc' = "wait" /\ doneQ' = <<>>
      BY <2>1, <2>2, <2>3
    <3>6. BatonInv'
      BY <2>2, <3>3, <3>4, <3>5 DEF BatonInv, OneBaton, BatonWaits, DoneOnce
    <3> QED
      BY <1>22, <3>6 DEF BatonNext, GoesDown
  <2>4. CASE ~Live(1)
    <3>1. UNCHANGED inbox
      BY <2>2, <2>4 DEF Tell
    <3> QED
      BY <2>1, <2>2, <3>1, <1>e, NoBaton DEF DoneOnce
  <2> QED
    BY <2>3, <2>4
<1>23. ASSUME ReadDone PROVE BatonNext
  <2>1. \A t \in Stages : ~Baton(t)
    BY <1>23 DEF ReadDone, BatonInv, BatonWaits
  <2>2. doneQ' = <<>>
    BY <1>23, <1>a DEF ReadDone, BatonInv, DoneOnce
  <2>3. DoneOnce'
    BY <2>2 DEF DoneOnce
  <2>4. UNCHANGED <<life, pc, inbox, active, handle>>
    BY <1>23 DEF ReadDone, procVars, childVars
  <2> QED
    BY <1>e, <2>1, <2>3, <2>4, NoBaton
<1>24. ASSUME ReadTrace PROVE BatonNext
  BY <1>24, <1>e, Kept DEF ReadTrace, procVars, childVars
<1>25. ASSUME HangUp PROVE BatonNext
  <2>1. \A t \in Stages : ~Baton(t)
    BY <1>25, Bounds DEF HangUp, Baton, Serving, Called, Fallen, Stages
  <2> QED
    BY <1>25, <1>e, <2>1, NoBaton DEF HangUp, procVars, childVars, pipeVars, DoneOnce
<1>26. ASSUME Reply PROVE BatonNext
  <2>1. (\A t \in Stages : ~Baton(t)) /\ doneQ = <<>>
    BY <1>26 DEF Reply, BatonInv, BatonWaits, DoneOnce
  <2> QED
    BY <1>26, <1>e, <2>1, NoBaton DEF Reply, procVars, childVars, pipeVars, DoneOnce
<1>27. ASSUME SendTerminate PROVE BatonNext
  <2>1. (\A t \in Stages : ~Baton(t)) /\ doneQ = <<>>
    BY <1>27 DEF SendTerminate, BatonInv, BatonWaits, DoneOnce
  <2>2. NoNewBaton
    BY <1>27, ToldTerminate
    DEF SendTerminate, NoNewBaton, Serving, Called, Fallen, Live, BatonInv, RunOnce, childVars
  <2> QED
    BY <1>27, <2>1, <2>2, NoBaton DEF SendTerminate, pipeVars, DoneOnce
<1>28. ASSUME ParentExits PROVE BatonNext
  <2>1. (\A t \in Stages : ~Baton(t)) /\ doneQ = <<>>
    BY <1>28 DEF ParentExits, BatonInv, BatonWaits, DoneOnce
  <2> QED
    BY <1>28, <1>e, <2>1, NoBaton DEF ParentExits, procVars, childVars, pipeVars, DoneOnce
<1>29. ASSUME UNCHANGED vars PROVE BatonNext
  BY <1>29, <1>e, Kept DEF vars, procVars, childVars, pipeVars, parentVars
<1> QED
  BY <1>1, <1>2, <1>3, <1>4, <1>5, <1>6, <1>7, <1>8, <1>9, <1>10, <1>11, <1>12, <1>13,
     <1>14, <1>15, <1>16, <1>17, <1>18, <1>19, <1>21, <1>22, <1>23, <1>24, <1>25,
     <1>26, <1>27, <1>28, <1>29 DEF Move, StageStep, ParentStep
---------------------------------------------------------------------------
(* While the parent waits, a trace is on its way exactly when a success    *)
(* is: the query stage is about to report it, or has, or the parent has    *)
(* read it.                                                                *)
HasTrace == traceQ # <<>> \/ trace # NoTrace
Success  == \/ \E s \in Stages : At(s, "done")
            \/ doneQ # <<>> /\ Head(doneQ).how = "ok"
            \/ token.how = "ok"

TraceInv ==
  /\ Len(traceQ) <= 1
  /\ traceQ # <<>> => ppc \in {"wait", "dead"} /\ trace = NoTrace /\ Head(traceQ) # NoTrace
  /\ ppc = "wait" => (HasTrace <=> Success)

LEMMA TraceBegun == Begun => TraceInv
<1> SUFFICES ASSUME Begun PROVE TraceInv
  OBVIOUS
<1>1. traceQ = <<>> /\ ppc = "recv"
  BY DEF Begun
<1> QED
  BY <1>1 DEF TraceInv

(* A step after which the same stage is about to report its success, and   *)
(* that appends nothing to the done pipe but a failure.                    *)
LEMMA TraceKept ==
  ASSUME VarTypes, TraceInv, \A t \in Stages : At(t, "done")' <=> At(t, "done"),
         \/ doneQ' = doneQ
         \/ \E d \in Token : d.how # "ok" /\ doneQ' = Append(doneQ, d),
         UNCHANGED <<traceQ, trace, ppc, token>>
  PROVE  TraceInv'
<1> DEFINE Won(q) == q # <<>> /\ Head(q).how = "ok"
<1>1. Won(doneQ') <=> Won(doneQ)
  <2>1. CASE doneQ' = doneQ
    BY <2>1
  <2>2. ASSUME NEW d \in Token, d.how # "ok", doneQ' = Append(doneQ, d)
        PROVE  Won(doneQ') <=> Won(doneQ)
    <3>1. doneQ \in Seq(Token)
      BY DEF VarTypes, TypeOK
    <3>2. doneQ' # <<>> /\ Head(doneQ') = IF doneQ = <<>> THEN d ELSE Head(doneQ)
      BY <2>2, <3>1
    <3> QED
      BY <2>2, <3>2
  <2> QED
    BY <2>1, <2>2
<1>2. Success' <=> Success
  BY <1>1 DEF Success
<1> QED
  BY <1>2 DEF TraceInv, HasTrace

LEMMA DoneStays ==
  ASSUME VarTypes, NEW s \in Stages, NEW p, pc' = [pc EXCEPT ![s] = p],
         pc[s] # "done", p # "done", \A t \in Stages : Live(t)' <=> Live(t)
  PROVE  \A t \in Stages : At(t, "done")' <=> At(t, "done")
<1>1. pc \in [Stages -> Phases]
  BY DEF VarTypes, TypeOK
<1>2. \A t \in Stages : pc'[t] = "done" <=> pc[t] = "done"
  BY <1>1
<1> QED
  BY <1>2 DEF At

(* What a stage reports of itself or of a dead child is no success.        *)
LEMMA Failure ==
  ASSUME VarTypes, NEW s \in Stages, NEW how \in Statuses \cup {"threw", "nochild"},
         WriteDone(s, how)
  PROVE  \E d \in Token : d.how # "ok" /\ doneQ' = Append(doneQ, d)
<1>1. [of |-> job[s], how |-> how] \in Token
  BY OutcomeTypes DEF VarTypes, TypeOK, Token
<1>2. how # "ok"
  BY DEF Statuses
<1> QED
  BY <1>1, <1>2 DEF WriteDone

LEMMA ReapReports ==
  ASSUME VarTypes, NEW s \in Stages, ReapDeadChild(s)
  PROVE  /\ doneQ' = doneQ \/ \E d \in Token : d.how # "ok" /\ doneQ' = Append(doneQ, d)
         /\ \A t \in Stages : Live(t)' <=> Live(t)
<1>1. CASE ChildDead(s)
  <2>1. s + 1 \in Stages /\ status[s + 1] \in Statuses /\ life[s + 1] = "dead"
    BY <1>1, ChildIsStage DEF ChildDead, VarTypes, TypeOK
  <2>2. life' = [life EXCEPT ![s + 1] = "none"] /\ WriteDone(s, status[s + 1])
    BY <1>1 DEF ReapDeadChild, Reap
  <2>3. life \in [Stages -> {"none", "live", "dead"}]
    BY DEF VarTypes, TypeOK
  <2> QED
    BY <2>1, <2>2, <2>3, Failure DEF Live
<1>2. CASE ~ChildDead(s)
  BY <1>2 DEF ReapDeadChild, Live
<1> QED
  BY <1>1, <1>2

(* A stage dies, and none at its "done" dies with it.                      *)
LEMMA TraceDies ==
  ASSUME VarTypes, TraceInv, NEW s \in Stages, NEW how, Dies(s, how),
         \A t \in Stages : At(t, "done") => t < s,
         UNCHANGED <<pc, doneQ, traceQ, trace, ppc, token>>
  PROVE  TraceInv'
<1>1. \A t \in Stages : At(t, "done")' <=> At(t, "done")
  BY AfterDeath DEF At
<1> QED
  BY <1>1, TraceKept

LEMMA TraceDeath ==
  ASSUME VarTypes, TraceInv, NEW s \in Stages, NEW how, Death(s, how), Covered(s)
  PROVE  TraceInv'
  BY TraceDies DEF Death, Covered, pipeVars, parentVars

LEMMA TraceStep ==
  VarTypes /\ TreeInv /\ OrderInv /\ BatonInv /\ TraceInv /\ Move => TraceInv'
<1> SUFFICES ASSUME VarTypes, TreeInv, OrderInv, BatonInv, TraceInv, Move PROVE TraceInv'
  OBVIOUS
<1>a. /\ life \in [Stages -> {"none", "live", "dead"}]
      /\ pc \in [Stages -> Phases] /\ doneQ \in Seq(Token) /\ traceQ \in Seq(Trace)
      /\ job \in [Stages -> Batches] /\ input \in [Stages -> Value]
      /\ loaded \in [Stages -> BuildIds]
  BY DEF VarTypes, TypeOK
<1>b. \A s \in Stages : s \in Nat /\ s >= 1 /\ (s < N => s + 1 \in Stages)
                        /\ (s # N => s < N)
  BY Bounds DEF Stages
<1>c. NoToken.how # "ok" /\ NoTrace.vers = <<>>
  BY DEF NoToken, NoTrace
<1>d. ASSUME NEW s \in Stages, NEW p, pc' = [pc EXCEPT ![s] = p], pc[s] # "done",
             p # "done", \A t \in Stages : Live(t)' <=> Live(t),
             \/ doneQ' = doneQ
             \/ \E d \in Token : d.how # "ok" /\ doneQ' = Append(doneQ, d),
             UNCHANGED <<traceQ, trace, ppc, token>>
      PROVE  TraceInv'
  <2>1. \A t \in Stages : At(t, "done")' <=> At(t, "done")
    BY <1>d, DoneStays
  <2> QED
    BY <1>d, <2>1, TraceKept
<1>f. \A s, t \in Stages : Serving(s) /\ At(t, "done") => t = s
  BY DEF BatonInv, OneBaton, Baton, Serving, At, Working
<1>1. ASSUME NEW s \in Stages, Load(s) PROVE TraceInv'
  BY <1>1, <1>d DEF Load, At, Goto, Live, pipeVars, parentVars
<1>2. ASSUME NEW s \in Stages, ReceiveRun(s) PROVE TraceInv'
  BY <1>2, <1>d, ReapReports DEF ReceiveRun, At, Goto, parentVars
<1>3. ASSUME NEW s \in Stages, ReapIdle(s) PROVE TraceInv'
  <2>1. \A t \in Stages : At(t, "done")' <=> At(t, "done")
    BY <1>3, ReapReports DEF ReapIdle, At
  <2> QED
    BY <1>3, <2>1, ReapReports, TraceKept DEF ReapIdle, parentVars
<1>4. ASSUME NEW s \in Stages, CheckRestart(s) PROVE TraceInv'
  <2>1. PICK p \in {"grace", "check"} : pc' = [pc EXCEPT ![s] = p]
    BY <1>4 DEF CheckRestart, Goto
  <2> QED
    BY <1>4, <2>1, <1>d DEF CheckRestart, At, Live, pipeVars, parentVars
<1>5. ASSUME NEW s \in Stages, KillChild(s) PROVE TraceInv'
  <2>1. /\ s + 1 \in Stages /\ pc[s] = "grace" /\ Live(s) /\ Dies(s + 1, "sig")
        /\ UNCHANGED <<pc, doneQ, traceQ, trace, ppc, token>>
    BY <1>5, TerminalOnly DEF KillChild, At, pipeVars, parentVars
  <2>2. \A t \in Stages : ~At(t, "done")
    BY <2>1, <1>f DEF Serving, Working, At
  <2> QED
    BY <2>1, <2>2, TraceDies
<1>6. ASSUME NEW s \in Stages, Restarted(s) PROVE TraceInv'
  <2>1. \A t \in Stages : Live(t)' <=> Live(t)
    BY <1>6, <1>a DEF Restarted, Reap, Live
  <2> QED
    BY <1>6, <2>1, <1>d DEF Restarted, At, Goto, pipeVars, parentVars
<1>7. ASSUME NEW s \in Stages, CheckReload(s) PROVE TraceInv'
  <2>1. PICK p \in {"stop", "reload", "compute", "record", "notify"} :
             pc' = [pc EXCEPT ![s] = p]
    BY <1>7 DEF CheckReload, Goto
  <2> QED
    BY <1>7, <2>1, <1>d DEF CheckReload, At, Live, pipeVars, parentVars
<1>8. ASSUME NEW s \in Stages, Stopped(s) PROVE TraceInv'
  <2>1. \A t \in Stages : Live(t)' <=> Live(t)
    BY <1>8, <1>a DEF Stopped, Reap, Live
  <2> QED
    BY <1>8, <2>1, <1>d DEF Stopped, At, Goto, pipeVars, parentVars
<1>9. ASSUME NEW s \in Stages, Reload(s) PROVE TraceInv'
  BY <1>9, <1>d DEF Reload, At, Goto, Live, pipeVars, parentVars
<1>10. ASSUME NEW s \in Stages, Compute(s) PROVE TraceInv'
  <2>1. pc[s] = "compute" /\ Live(s) /\ UNCHANGED <<life, doneQ, trace, ppc, token>>
    BY <1>10 DEF Compute, At, parentVars
  <2>2. CASE s < N
    BY <1>10, <2>1, <2>2, <1>d DEF Compute, Goto, Live, childVars
  <2>3. CASE ~(s < N)
    <3> DEFINE r == [of |-> job[s], vers |-> Append(input[s], loaded[s])]
    <3>1. pc' = [pc EXCEPT ![s] = "done"] /\ traceQ' = Append(traceQ, r)
      BY <1>10, <2>3 DEF Compute, Goto
    <3>2. Serving(s) /\ ppc = "wait" /\ doneQ = <<>> /\ token = NoToken
      BY <2>1 DEF Serving, Working, BatonInv, BatonWaits, Baton
    <3>3. ~Success
      BY <2>1, <3>2, <1>c, <1>f DEF Success, At
    <3>4. traceQ = <<>> /\ trace = NoTrace
      BY <3>2, <3>3 DEF TraceInv, HasTrace
    <3>5. r # NoTrace
      <4>1. r.vers = Append(input[s], loaded[s]) /\ input[s] \in Seq(Builds)
        BY <1>a DEF Value
      <4>2. Len(Append(input[s], loaded[s])) = Len(input[s]) + 1 /\ Len(input[s]) \in Nat
        BY <4>1
      <4> QED
        BY <4>1, <4>2, <1>c
    <3>6. At(s, "done")'
      BY <2>1, <3>1, <1>a DEF At, Live
    <3>7. Success'
      BY <3>6 DEF Success
    <3>8. Len(traceQ') = 1 /\ traceQ' # <<>> /\ Head(traceQ') = r
      BY <3>1, <3>4
    <3> HIDE DEF r
    <3> QED
      BY <2>1, <3>2, <3>4, <3>5, <3>7, <3>8 DEF TraceInv, HasTrace
  <2> QED
    BY <2>2, <2>3
<1>11. ASSUME NEW s \in Stages, Throw(s) PROVE TraceInv'
  <2>1. \E d \in Token : d.how # "ok" /\ doneQ' = Append(doneQ, d)
    BY <1>11, Failure DEF Throw
  <2> QED
    BY <1>11, <2>1, <1>d DEF Throw, At, Goto, Live, parentVars
<1>12. ASSUME NEW s \in Stages, RecordChildId(s) PROVE TraceInv'
  BY <1>12, <1>d DEF RecordChildId, At, Goto, Live, pipeVars, parentVars
<1>13. ASSUME NEW s \in Stages, Fork(s) PROVE TraceInv'
  <2>1. s + 1 \in Stages
    BY <1>13, TerminalOnly DEF Fork, At
  <2>2. /\ pc[s] = "fork" /\ Live(s)
        /\ life' = [life EXCEPT ![s + 1] = "live"]
        /\ pc' = [pc EXCEPT ![s] = "notify", ![s + 1] = "load"]
        /\ UNCHANGED <<doneQ, traceQ, trace, ppc, token>>
    BY <1>13 DEF Fork, At, pipeVars, parentVars
  <2>3. \A t \in Stages : ~At(t, "done")
    BY <2>2, <1>f DEF Serving, Working, At
  <2>4. \A t \in Stages : ~At(t, "done")'
    BY <2>1, <2>2, <2>3, <1>a DEF At, Live
  <2> QED
    BY <2>2, <2>3, <2>4, TraceKept
<1>14. ASSUME NEW s \in Stages, ForkFails(s) PROVE TraceInv'
  <2>1. \E d \in Token : d.how # "ok" /\ doneQ' = Append(doneQ, d)
    BY <1>14, Failure DEF ForkFails
  <2> QED
    BY <1>14, <2>1, <1>d DEF ForkFails, At, Goto, Live, parentVars
<1>15. ASSUME NEW s \in Stages, Done(s) PROVE TraceInv'
  <2>1. At(s, "done") /\ UNCHANGED <<traceQ, trace, ppc, token>>
    BY <1>15 DEF Done, parentVars
  <2>2. doneQ = <<>> /\ ppc = "wait"
    BY <2>1 DEF At, BatonInv, BatonWaits, Baton, Serving, Working
  <2>3. doneQ' # <<>> /\ Head(doneQ').how = "ok"
    BY <1>15, <2>2 DEF Done, WriteDone
  <2>4. HasTrace /\ Success'
    BY <2>1, <2>2, <2>3 DEF TraceInv, Success
  <2> QED
    BY <2>1, <2>4 DEF TraceInv, HasTrace
<1>16. ASSUME NEW s \in Stages, NotifyChild(s) PROVE TraceInv'
  <2>1. pc[s] = "notify" /\ Live(s) /\ pc' = [pc EXCEPT ![s] = "final"]
    BY <1>16 DEF NotifyChild, At, Goto
  <2>2. ~ChildDead(s)
    BY <2>1, WorksAlone DEF Baton, Serving, Working, Waiting
  <2> QED
    BY <1>16, <2>1, <2>2, <1>d DEF NotifyChild, Live, parentVars
<1>17. ASSUME NEW s \in Stages, Finish(s) PROVE TraceInv'
  BY <1>17, <1>d, ReapReports DEF Finish, At, Goto, parentVars
<1>18. ASSUME NEW s \in Stages, ReceiveTerminate(s) PROVE TraceInv'
  BY <1>18, <1>d DEF ReceiveTerminate, At, Goto, Live, pipeVars, parentVars
<1>19. ASSUME NEW s \in Stages, Exit(s) PROVE TraceInv'
  <2>1. /\ Dies(s, "clean") /\ pc[s] = "exit" /\ (HasChild(s) => ~Live(s + 1))
        /\ UNCHANGED <<pc, doneQ, traceQ, trace, ppc, token>>
    BY <1>19 DEF Exit, At, pipeVars, parentVars
  <2>2. ASSUME NEW t \in Stages, At(t, "done") PROVE t < s
    <3>1. t # s
      BY <2>1, <2>2 DEF At
    <3>2. ASSUME t > s PROVE FALSE
      <4>1. s + 1 \in Stages /\ (t = s + 1 \/ s + 1 < t)
        BY <3>2, Bounds DEF Stages
      <4>2. Live(s + 1)
        BY <2>2, <4>1 DEF At, OrderInv, LivePrefix
      <4> QED
        BY <2>1, <4>1, <4>2 DEF TreeInv, ChildTracked
    <3> QED
      BY <3>1, <3>2, <1>b
  <2> QED
    BY <2>1, <2>2, TraceDies
<1>g. ASSUME UNCHANGED <<life, pc>> PROVE \A t \in Stages : At(t, "done")' <=> At(t, "done")
  BY <1>g DEF At, Live
<1>21. ASSUME NEW s \in Stages, Publish(s) PROVE TraceInv'
  BY <1>21, <1>g, TraceKept DEF Publish, procVars, pipeVars, parentVars
<1>22. ASSUME SendRun PROVE TraceInv'
  <2>1. /\ ppc = "recv" /\ UNCHANGED <<life, pc, doneQ, traceQ>>
        /\ token' = NoToken /\ trace' = NoTrace
    BY <1>22 DEF SendRun, pipeVars
  <2>2. traceQ = <<>> /\ doneQ = <<>>
    BY <2>1 DEF TraceInv, BatonInv, DoneOnce
  <2>3. \A t \in Stages : ~At(t, "done")
    BY <2>1 DEF BatonInv, BatonWaits, Baton, Serving, At, Working
  <2>4. ~HasTrace' /\ ~Success'
    BY <2>1, <2>2, <2>3, <1>c, <1>g DEF HasTrace, Success
  <2> QED
    BY <2>1, <2>2, <2>4 DEF TraceInv
<1>23. ASSUME ReadDone PROVE TraceInv'
  <2>1. /\ doneQ # <<>> /\ token' = Head(doneQ) /\ doneQ' = Tail(doneQ)
        /\ UNCHANGED <<life, pc, traceQ, trace, ppc>>
    BY <1>23 DEF ReadDone, procVars
  <2>2. doneQ' = <<>> /\ token = NoToken
    BY <2>1, <1>a DEF BatonInv, DoneOnce
  <2>3. Success' <=> Success
    BY <2>1, <2>2, <1>c, <1>g DEF Success
  <2> QED
    BY <2>1, <2>3 DEF TraceInv, HasTrace
<1>24. ASSUME ReadTrace PROVE TraceInv'
  <2>1. /\ ppc = "wait" /\ traceQ # <<>> /\ trace' = Head(traceQ) /\ traceQ' = Tail(traceQ)
        /\ UNCHANGED <<life, pc, doneQ, token, ppc>>
    BY <1>24 DEF ReadTrace, procVars
  <2>2. traceQ' = <<>> /\ trace' # NoTrace
    BY <2>1, <1>a DEF TraceInv
  <2>3. Success' <=> Success
    BY <2>1, <1>g DEF Success
  <2> QED
    BY <2>1, <2>2, <2>3 DEF TraceInv, HasTrace
<1>25. ASSUME HangUp PROVE TraceInv'
  BY <1>25 DEF HangUp, TraceInv, pipeVars
<1>26. ASSUME Reply PROVE TraceInv'
  <2>1. /\ ppc = "wait" /\ token # NoToken /\ ppc' = "recv" /\ UNCHANGED <<traceQ, trace>>
        /\ token.how \in TraceFree \/ trace # NoTrace \/ traceQ = <<>>
    BY <1>26 DEF Reply, pipeVars
  <2>2. doneQ = <<>> /\ \A t \in Stages : ~At(t, "done")
    BY <2>1 DEF BatonInv, BatonWaits, DoneOnce, Baton, Serving, At, Working
  <2>3. token.how \in TraceFree => ~HasTrace
    BY <2>1, <2>2 DEF TraceInv, Success, TraceFree
  <2>4. traceQ = <<>>
    BY <2>1, <2>3 DEF TraceInv, HasTrace
  <2> QED
    BY <2>1, <2>4 DEF TraceInv
<1>27. ASSUME SendTerminate PROVE TraceInv'
  BY <1>27 DEF SendTerminate, TraceInv, pipeVars
<1>28. ASSUME ParentExits PROVE TraceInv'
  BY <1>28 DEF ParentExits, TraceInv, pipeVars
<1>29. ASSUME UNCHANGED vars PROVE TraceInv'
  BY <1>29, <1>g, TraceKept DEF vars, procVars, pipeVars, parentVars
<1> QED
  BY <1>1, <1>2, <1>3, <1>4, <1>5, <1>6, <1>7, <1>8, <1>9, <1>10, <1>11, <1>12, <1>13,
     <1>14, <1>15, <1>16, <1>17, <1>18, <1>19, <1>21, <1>22, <1>23, <1>24, <1>25,
     <1>26, <1>27, <1>28, <1>29 DEF Move, StageStep, ParentStep

LEMMA TimelyStep ==
  ASSUME TimelyDeaths, VarTypes, TreeInv, OrderInv, BatonInv, TraceInv, [Next]_vars
  PROVE  BatonInv' /\ TraceInv'
<1>1. CASE Move
  BY <1>1, BatonStep, TraceStep DEF BatonNext
<1>2. ASSUME NEW s \in Stages, Crash(s) PROVE BatonInv' /\ TraceInv'
  <2>1. PICK how \in Statuses : Death(s, how)
    BY <1>2, CrashIsDeath
  <2> QED
    BY <1>2, <2>1, TimelyCrash, BatonDeath, TraceDeath
<1> QED
  BY <1>1, <1>2, MoveOrCrash

(* A RUN is answered by exactly one done token, and its trace is drained   *)
(* with it, as long as no stage process dies while it waits for a RUN, or  *)
(* after it has answered one: run_parent starts the next batch on empty    *)
(* pipes.                                                                  *)
THEOREM OneAnswerPerRun == ASSUME TimelyDeaths PROVE Spec => []PipesDrained
<1> DEFINE Inv == VarTypes /\ TreeInv /\ OrderInv /\ BatonInv /\ TraceInv
<1>1. Init => Inv
  BY TypeInit, TreeInit, InitBegins, OrderBegun, BatonBegun, TraceBegun
<1>2. Inv /\ [Next]_vars => Inv'
  BY TypeStep, TreeStep, OrderStep, TimelyStep
<1>3. Inv => PipesDrained
  BY DEF BatonInv, DoneOnce, TraceInv, PipesDrained
<1> QED
  BY <1>1, <1>2, <1>3, PTL DEF Spec
---------------------------------------------------------------------------
(* What a stage holds: what it was given, extended by its own plugin, and  *)
(* what it was given is what its parent still holds.                       *)
LoadNotRun == \A s \in Stages : pc[s] = "load" => ~hasRun[s]

DataIs ==
  faults.threw = 0 =>
     \A s \in Stages : hasRun[s] /\ pc[s] # "compute" => data[s] = Append(input[s], loaded[s])

InputIs == \A s \in Stages : s > 1 /\ Live(s) => input[s] = data[s - 1]

HeldInv == LoadNotRun /\ DataIs /\ InputIs /\ input[1] = <<>>

LEMMA HeldBegun == Begun => HeldInv
  BY Bounds DEF Begun, HeldInv, LoadNotRun, DataIs, InputIs, Live, Stages

(* A step that computes nothing, forks nothing and loads nothing.          *)
LEMMA HeldKept ==
  ASSUME HeldInv, UNCHANGED <<loaded, hasRun, input, data>>,
         \A t \in Stages : /\ pc'[t] = "load" => pc[t] = "load"
                           /\ pc[t] = "compute" => pc'[t] = "compute"
                           /\ Live(t)' => Live(t),
         faults'.threw = faults.threw
  PROVE  HeldInv'
<1>1. LoadNotRun' /\ DataIs'
  BY DEF HeldInv, LoadNotRun, DataIs
<1>2. InputIs' /\ input'[1] = <<>>
  BY DEF HeldInv, InputIs
<1> QED
  BY <1>1, <1>2 DEF HeldInv

LEMMA HeldDeath ==
  ASSUME HeldInv, NEW s \in Stages, NEW how, Death(s, how), faults'.threw = faults.threw
  PROVE  HeldInv'
  BY HeldKept, AfterDeath DEF Death, pluginVars

LEMMA HeldStep ==
  VarTypes /\ TreeInv /\ OrderInv /\ HeldInv /\ [Next]_vars => HeldInv'
<1> SUFFICES ASSUME VarTypes, TreeInv, OrderInv, HeldInv, [Next]_vars PROVE HeldInv'
  OBVIOUS
<1>a. /\ life \in [Stages -> {"none", "live", "dead"}]
      /\ pc \in [Stages -> Phases]
      /\ data \in [Stages -> Value] /\ input \in [Stages -> Value]
      /\ hasRun \in [Stages -> BOOLEAN] /\ loaded \in [Stages -> BuildIds]
      /\ faults.threw \in Nat
      /\ faults \in [threw : 0..MaxThrow, nofork : 0..MaxNoFork, crash : 0..MaxCrash]
  BY Bounds DEF VarTypes, TypeOK
<1>b. \A s \in Stages : s \in Nat /\ s >= 1 /\ (s < N => s + 1 \in Stages) /\ s + 1 # s
                        /\ s + 1 # 1
                        /\ (s > 1 => s - 1 \in Stages /\ s - 1 # s /\ (s - 1) + 1 = s)
  BY Bounds DEF Stages
<1>c. ASSUME NEW s \in Stages, NEW p, pc' = [pc EXCEPT ![s] = p], p # "load",
             pc[s] # "compute", UNCHANGED <<loaded, hasRun, input, data>>,
             \A t \in Stages : Live(t)' => Live(t), faults'.threw = faults.threw
      PROVE  HeldInv'
  BY <1>c, <1>a, HeldKept
<1>d. ASSUME UNCHANGED <<pc, loaded, hasRun, input, data>>,
             \A t \in Stages : Live(t)' => Live(t), faults'.threw = faults.threw
      PROVE  HeldInv'
  BY <1>d, HeldKept
(* A stage that builds its data has no child that was given the old one.   *)
<1>e. ASSUME NEW s \in Stages, pc[s] \in {"reload", "compute", "fork"}
      PROVE  \A t \in Stages : t > 1 /\ Live(t) => t - 1 # s
  BY <1>e, <1>b DEF TreeInv, NoChildWhileBuilding, ChildTracked, HasChild
<1>1. ASSUME NEW s \in Stages, Load(s) PROVE HeldInv'
  <2>1. /\ pc[s] = "load" /\ pc' = [pc EXCEPT ![s] = "poll"]
        /\ loaded' = [loaded EXCEPT ![s] = file[s]]
        /\ UNCHANGED <<life, hasRun, input, data, faults>>
    BY <1>1 DEF Load, At, Goto
  <2>2. LoadNotRun' /\ DataIs'
    BY <2>1, <1>a DEF HeldInv, LoadNotRun, DataIs
  <2>3. InputIs' /\ input'[1] = <<>>
    BY <2>1 DEF HeldInv, InputIs, Live
  <2> QED
    BY <2>2, <2>3 DEF HeldInv
<1>2. ASSUME NEW s \in Stages, ReceiveRun(s) PROVE HeldInv'
  BY <1>2, <1>c, ReapReports DEF ReceiveRun, At, Goto, pluginVars
<1>3. ASSUME NEW s \in Stages, ReapIdle(s) PROVE HeldInv'
  BY <1>3, <1>d, ReapReports DEF ReapIdle, pluginVars
<1>4. ASSUME NEW s \in Stages, CheckRestart(s) PROVE HeldInv'
  <2>1. PICK p \in {"grace", "check"} : pc' = [pc EXCEPT ![s] = p]
    BY <1>4 DEF CheckRestart, Goto
  <2> QED
    BY <1>4, <2>1, <1>c DEF CheckRestart, At, Live, pluginVars
<1>5. ASSUME NEW s \in Stages, KillChild(s) PROVE HeldInv'
  <2>1. s + 1 \in Stages /\ Dies(s + 1, "sig")
    BY <1>5, TerminalOnly DEF KillChild, At
  <2> QED
    BY <1>5, <2>1, <1>d, AfterDeath DEF KillChild, pluginVars
<1>6. ASSUME NEW s \in Stages, Restarted(s) PROVE HeldInv'
  <2>1. \A t \in Stages : Live(t)' => Live(t)
    BY <1>6, <1>a DEF Restarted, Reap, Live
  <2> QED
    BY <1>6, <2>1, <1>c DEF Restarted, At, Goto, pluginVars
<1>7. ASSUME NEW s \in Stages, CheckReload(s) PROVE HeldInv'
  <2>1. PICK p \in {"stop", "reload", "compute", "record", "notify"} :
             pc' = [pc EXCEPT ![s] = p]
    BY <1>7 DEF CheckReload, Goto
  <2> QED
    BY <1>7, <2>1, <1>c DEF CheckReload, At, Live, pluginVars
<1>8. ASSUME NEW s \in Stages, Stopped(s) PROVE HeldInv'
  <2>1. \A t \in Stages : Live(t)' => Live(t)
    BY <1>8, <1>a DEF Stopped, Reap, Live
  <2> QED
    BY <1>8, <2>1, <1>c DEF Stopped, At, Goto, pluginVars
<1>9. ASSUME NEW s \in Stages, Reload(s) PROVE HeldInv'
  <2>1. /\ pc[s] = "reload" /\ pc' = [pc EXCEPT ![s] = "compute"]
        /\ loaded' = [loaded EXCEPT ![s] = file[s]]
        /\ \A t \in Stages : t # s => data'[t] = data[t]
        /\ UNCHANGED <<life, hasRun, input, faults>>
    BY <1>9 DEF Reload, At, Goto
  <2>2. LoadNotRun' /\ DataIs'
    BY <2>1, <1>a DEF HeldInv, LoadNotRun, DataIs
  <2>3. InputIs' /\ input'[1] = <<>>
    BY <2>1, <1>b, <1>e DEF HeldInv, InputIs, Live
  <2> QED
    BY <2>2, <2>3 DEF HeldInv
<1>10. ASSUME NEW s \in Stages, Compute(s) PROVE HeldInv'
  <2>1. /\ pc[s] = "compute"
        /\ hasRun' = [hasRun EXCEPT ![s] = TRUE]
        /\ data' = [data EXCEPT ![s] = Append(input[s], loaded[s])]
        /\ UNCHANGED <<life, loaded, input, faults>>
    BY <1>10 DEF Compute, At
  <2>2. PICK p \in {"record", "done"} : pc' = [pc EXCEPT ![s] = p]
    BY <1>10 DEF Compute, Goto
  <2>3. LoadNotRun' /\ DataIs'
    BY <2>1, <2>2, <1>a DEF HeldInv, LoadNotRun, DataIs
  <2>4. InputIs' /\ input'[1] = <<>>
    BY <2>1, <1>a, <1>b, <1>e DEF HeldInv, InputIs, Live
  <2> QED
    BY <2>3, <2>4 DEF HeldInv
<1>11. ASSUME NEW s \in Stages, Throw(s) PROVE HeldInv'
  <2>1. /\ pc' = [pc EXCEPT ![s] = "final"] /\ faults'.threw = faults.threw + 1
        /\ UNCHANGED <<life, hasRun, input, data>>
    BY <1>11, <1>a DEF Throw, Goto, pluginVars
  <2>2. LoadNotRun'
    BY <2>1, <1>a DEF HeldInv, LoadNotRun
  <2>3. DataIs'
    BY <2>1, <1>a DEF DataIs
  <2>4. InputIs' /\ input'[1] = <<>>
    BY <2>1 DEF HeldInv, InputIs, Live
  <2> QED
    BY <2>2, <2>3, <2>4 DEF HeldInv
<1>12. ASSUME NEW s \in Stages, RecordChildId(s) PROVE HeldInv'
  BY <1>12, <1>c DEF RecordChildId, At, Goto, Live, pluginVars
<1>13. ASSUME NEW s \in Stages, Fork(s) PROVE HeldInv'
  <2>1. s + 1 \in Stages
    BY <1>13, TerminalOnly DEF Fork, At
  <2>2. /\ pc[s] = "fork" /\ Live(s)
        /\ life' = [life EXCEPT ![s + 1] = "live"]
        /\ pc' = [pc EXCEPT ![s] = "notify", ![s + 1] = "load"]
        /\ loaded' = [loaded EXCEPT ![s + 1] = 0]
        /\ hasRun' = [hasRun EXCEPT ![s + 1] = FALSE]
        /\ input' = [input EXCEPT ![s + 1] = data[s]]
        /\ data' = [data EXCEPT ![s + 1] = <<>>]
        /\ UNCHANGED faults
    BY <1>13 DEF Fork, At
  <2>3. LoadNotRun' /\ DataIs'
    BY <2>1, <2>2, <1>a, <1>b DEF HeldInv, LoadNotRun, DataIs
  <2>4. ~Live(s + 1)
    BY <2>1, <2>2, <1>b, <1>e
  <2>5. InputIs'
    <3> SUFFICES ASSUME NEW t \in Stages, t > 1, Live(t)' PROVE input'[t] = data'[t - 1]
      BY DEF InputIs
    <3>1. CASE t = s + 1
      BY <3>1, <2>1, <2>2, <1>a, <1>b
    <3>2. CASE t # s + 1
      <4>1. Live(t)
        BY <2>2, <3>2 DEF Live
      <4>2. t - 1 # s + 1
        <5> SUFFICES ASSUME t - 1 = s + 1 PROVE FALSE
          OBVIOUS
        <5>1. s + 1 < t
          BY <1>b
        <5> QED
          BY <2>1, <2>4, <4>1, <5>1 DEF OrderInv, LivePrefix
      <4> QED
        BY <2>2, <3>2, <4>1, <4>2, <1>a, <1>b DEF HeldInv, InputIs
    <3> QED
      BY <3>1, <3>2
  <2> QED
    BY <2>1, <2>2, <2>3, <2>5, <1>b DEF HeldInv
<1>14. ASSUME NEW s \in Stages, ForkFails(s) PROVE HeldInv'
  <2>1. faults'.threw = faults.threw
    BY <1>14, <1>a DEF ForkFails
  <2> QED
    BY <1>14, <2>1, <1>c DEF ForkFails, At, Goto, Live, pluginVars
<1>15. ASSUME NEW s \in Stages, Done(s) PROVE HeldInv'
  BY <1>15, <1>c DEF Done, At, Goto, Live, pluginVars
<1>16. ASSUME NEW s \in Stages, NotifyChild(s) PROVE HeldInv'
  <2>1. \A t \in Stages : Live(t)' => Live(t)
    BY <1>16, <1>a DEF NotifyChild, Reap, Live
  <2> QED
    BY <1>16, <2>1, <1>c DEF NotifyChild, At, Goto, pluginVars
<1>17. ASSUME NEW s \in Stages, Finish(s) PROVE HeldInv'
  BY <1>17, <1>c, ReapReports DEF Finish, At, Goto, pluginVars
<1>18. ASSUME NEW s \in Stages, ReceiveTerminate(s) PROVE HeldInv'
  BY <1>18, <1>c DEF ReceiveTerminate, At, Goto, Live, pluginVars
<1>19. ASSUME NEW s \in Stages, Exit(s) PROVE HeldInv'
  BY <1>19, <1>d, AfterDeath DEF Exit, pluginVars
<1>20. ASSUME NEW s \in Stages, Crash(s) PROVE HeldInv'
  <2>1. faults'.threw = faults.threw
    BY <1>20, <1>a DEF Crash
  <2> QED
    BY <1>20, <2>1, <1>d, AfterDeath DEF Crash, pluginVars
<1>21. ASSUME NEW s \in Stages, Publish(s) PROVE HeldInv'
  BY <1>21, <1>d DEF Publish, Live, procVars, pluginVars
<1>22. ASSUME SendRun PROVE HeldInv'
  BY <1>22, <1>d DEF SendRun, Live, pluginVars
<1>23. ASSUME ReadDone PROVE HeldInv'
  BY <1>23, <1>d DEF ReadDone, Live, procVars, pluginVars
<1>24. ASSUME ReadTrace PROVE HeldInv'
  BY <1>24, <1>d DEF ReadTrace, Live, procVars, pluginVars
<1>25. ASSUME HangUp PROVE HeldInv'
  BY <1>25, <1>d DEF HangUp, Live, procVars, pluginVars
<1>26. ASSUME Reply PROVE HeldInv'
  BY <1>26, <1>d DEF Reply, Live, procVars, pluginVars
<1>27. ASSUME SendTerminate PROVE HeldInv'
  BY <1>27, <1>d DEF SendTerminate, Live, pluginVars
<1>28. ASSUME ParentExits PROVE HeldInv'
  BY <1>28, <1>d DEF ParentExits, Live, procVars, pluginVars
<1>29. ASSUME UNCHANGED vars PROVE HeldInv'
  BY <1>29, <1>d DEF vars, Live, procVars, pluginVars
<1> QED
  BY <1>1, <1>2, <1>3, <1>4, <1>5, <1>6, <1>7, <1>8, <1>9, <1>10, <1>11, <1>12, <1>13,
     <1>14, <1>15, <1>16, <1>17, <1>18, <1>19, <1>20, <1>21, <1>22, <1>23, <1>24, <1>25,
     <1>26, <1>27, <1>28, <1>29 DEF Next, StageStep, ParentStep, Ended
---------------------------------------------------------------------------
(* A value of the first k stages, computed by plugins at least as new as   *)
(* those that were on disk when the last batch was sent.                   *)
NewEnough(v, k) == Len(v) = k /\ \A i \in 1..k : v[i] >= sentFile[i]

(* The stage that works on the batch, or is to take it.                    *)
Holder(s) == Serving(s) \/ Called(s)

SentWasOnDisk == \A s \in Stages : sentFile[s] <= file[s]
ReplyPast     == reply.of \in Nat /\ reply.of <= batch

(* The batch only gets to a stage when all stages before it are new enough.*)
Before == \A s \in Stages : Holder(s) => \A t \in 1..(s - 1) : NewEnough(data[t], t)

(* A stage computes with a plugin that is new enough, and once it goes to  *)
(* its child what it holds is new enough.                                  *)
Handing == {"record", "fork", "notify"}
AtWork  == \A s \in Stages : Serving(s) =>
              /\ pc[s] = "compute" => loaded[s] >= sentFile[s]
              /\ pc[s] \in Handing => NewEnough(data[s], s)

TraceFresh == ppc = "wait" => /\ traceQ # <<>> => NewEnough(Head(traceQ).vers, N)
                              /\ trace # NoTrace => NewEnough(trace.vers, N)

FreshInv == /\ SentWasOnDisk /\ ReplyPast
            /\ faults.threw = 0 => Before /\ AtWork /\ TraceFresh
            /\ AnswerIsFresh

LEMMA SentInit == Init => SentWasOnDisk /\ ReplyPast
  BY DEF Init, NoReply, SentWasOnDisk, ReplyPast

LEMMA FreshBegun == Begun /\ SentWasOnDisk /\ ReplyPast => FreshInv
<1> SUFFICES ASSUME Begun, SentWasOnDisk, ReplyPast PROVE FreshInv
  OBVIOUS
<1>1. ppc = "recv" /\ reply.how # "ok" /\ \A s \in Stages : pc[s] = "load" /\ inbox[s] = <<>>
  BY DEF Begun, NoReply
<1>2. \A s \in Stages : ~Holder(s)
  BY <1>1, Nothing DEF Holder, Serving, Called, Working
<1>3. Before /\ AtWork /\ TraceFresh /\ AnswerIsFresh
  BY <1>1, <1>2 DEF Before, AtWork, TraceFresh, AnswerIsFresh, Holder
<1> QED
  BY <1>3 DEF FreshInv

LEMMA Extended ==
  ASSUME NEW s \in Stages, NEW v \in Value, NEW b \in Builds,
         sentFile \in [Stages -> Builds], NewEnough(v, s - 1), b >= sentFile[s]
  PROVE  NewEnough(Append(v, b), s)
<1>1. s \in Nat /\ s >= 1 /\ v \in Seq(Builds)
  BY Bounds DEF Stages, Value
<1>2. /\ Len(Append(v, b)) = s /\ Append(v, b)[s] = b
      /\ \A i \in 1..(s - 1) : Append(v, b)[i] = v[i]
  BY <1>1 DEF NewEnough
<1>3. \A i \in 1..s : i = s \/ i \in 1..(s - 1)
  BY <1>1
<1> QED
  BY <1>2, <1>3 DEF NewEnough

(* The stage that works on a batch was given input that is new enough.     *)
LEMMA GivenFresh ==
  ASSUME HeldInv, Before, NEW s \in Stages, Serving(s)
  PROVE  NewEnough(input[s], s - 1)
<1>1. CASE s = 1
  BY <1>1 DEF HeldInv, NewEnough
<1>2. CASE s # 1
  <2>1. s > 1 /\ s - 1 \in 1..(s - 1)
    BY <1>2, Bounds DEF Stages
  <2>2. input[s] = data[s - 1]
    BY <2>1 DEF HeldInv, InputIs, Serving
  <2> QED
    BY <2>1, <2>2 DEF Before, Holder
<1> QED
  BY <1>1, <1>2

(* A step that neither computes nor hands on the batch.                    *)
LEMMA FreshKept ==
  ASSUME FreshInv, UNCHANGED <<file, data, loaded, sentFile, batch, reply, traceQ, trace, ppc>>,
         faults'.threw = faults.threw,
         \A t \in Stages : /\ Holder(t)' => Holder(t)
                           /\ Live(t)' => Live(t)
                           /\ pc'[t] = "compute" => pc[t] = "compute"
                           /\ pc'[t] \in Handing => pc[t] \in Handing
  PROVE  FreshInv'
<1>1. SentWasOnDisk' /\ ReplyPast' /\ AnswerIsFresh'
  BY DEF FreshInv, SentWasOnDisk, ReplyPast, AnswerIsFresh
<1>2. ASSUME faults.threw = 0 PROVE Before' /\ AtWork' /\ TraceFresh'
  <2>1. Before /\ AtWork /\ TraceFresh
    BY <1>2 DEF FreshInv
  <2>2. Before'
    BY <2>1 DEF Before, NewEnough
  <2>3. AtWork'
    BY <2>1 DEF AtWork, NewEnough, Serving, Handing, Working
  <2>4. TraceFresh'
    BY <2>1 DEF TraceFresh, NewEnough
  <2> QED
    BY <2>2, <2>3, <2>4
<1> QED
  BY <1>1, <1>2 DEF FreshInv

(* A stage moves on without a new batch.                                   *)
LEMMA FreshMoved ==
  ASSUME VarTypes, FreshInv, NEW s \in Stages, NEW p, pc' = [pc EXCEPT ![s] = p],
         p \in Working => pc[s] \in Working,
         p # "compute", p \in Handing => pc[s] \in Handing,
         UNCHANGED <<file, data, loaded, sentFile, batch, reply, traceQ, trace, ppc>>,
         faults'.threw = faults.threw,
         \A t \in Stages : /\ Live(t)' => Live(t)
                           /\ HoldsRun(inbox'[t]) => HoldsRun(inbox[t])
  PROVE  FreshInv'
<1>1. pc \in [Stages -> Phases]
  BY DEF VarTypes, TypeOK
<1>2. \A t \in Stages : Holder(t)' => Holder(t)
  BY <1>1 DEF Holder, Serving, Called
<1> QED
  BY <1>1, <1>2, FreshKept

(* No stage moves, and at most some die.                                   *)
LEMMA FreshStill ==
  ASSUME FreshInv,
         UNCHANGED <<pc, inbox, file, data, loaded, sentFile, batch, reply, traceQ, trace, ppc>>,
         faults'.threw = faults.threw, \A t \in Stages : Live(t)' => Live(t)
  PROVE  FreshInv'
<1>1. \A t \in Stages : Holder(t)' => Holder(t)
  BY DEF Holder, Serving, Called
<1> QED
  BY <1>1, FreshKept

LEMMA FreshDeath ==
  ASSUME FreshInv, NEW s \in Stages, NEW how, Death(s, how), faults'.threw = faults.threw
  PROVE  FreshInv'
  BY FreshStill, AfterDeath DEF Death, pluginVars, pipeVars, parentVars, driverVars

LEMMA FreshStep ==
  VarTypes /\ TreeInv /\ OrderInv /\ BatonInv /\ TraceInv /\ HeldInv /\ FreshInv
    /\ [Next]_vars => FreshInv'
<1> SUFFICES ASSUME VarTypes, TreeInv, OrderInv, BatonInv, TraceInv, HeldInv, FreshInv,
                    [Next]_vars
             PROVE  FreshInv'
  OBVIOUS
<1>a. /\ life \in [Stages -> {"none", "live", "dead"}]
      /\ pc \in [Stages -> Phases] /\ inbox \in [Stages -> Seq(Message)]
      /\ data \in [Stages -> Value] /\ input \in [Stages -> Value]
      /\ hasRun \in [Stages -> BOOLEAN] /\ loaded \in [Stages -> BuildIds]
      /\ file \in [Stages -> Builds] /\ sentFile \in [Stages -> Builds]
      /\ traceQ \in Seq(Trace) /\ job \in [Stages -> Batches] /\ batch \in Nat
      /\ faults.threw \in Nat
      /\ faults \in [threw : 0..MaxThrow, nofork : 0..MaxNoFork, crash : 0..MaxCrash]
  BY Bounds DEF VarTypes, TypeOK, Batches
<1>b. \A s \in Stages : s \in Nat /\ s >= 1 /\ (s < N => s + 1 \in Stages) /\ s + 1 # s
                        /\ (s # N => s < N) /\ N \in Nat
  BY Bounds DEF Stages
<1>c. \A s \in Stages : file[s] \in Nat /\ sentFile[s] \in Nat /\ sentFile[s] <= file[s]
                        /\ loaded[s] \in Nat
  BY <1>a, BuildTypes DEF FreshInv, SentWasOnDisk
(* The stage that works on the batch is the only one that has it.          *)
<1>d. \A s, t \in Stages : Serving(s) /\ Holder(t) => t = s
  BY DEF BatonInv, OneBaton, Baton, Holder
<1>1. ASSUME NEW s \in Stages, Load(s) PROVE FreshInv'
  <2>1. /\ pc[s] = "load" /\ pc' = [pc EXCEPT ![s] = "poll"]
        /\ loaded' = [loaded EXCEPT ![s] = file[s]]
        /\ UNCHANGED <<life, inbox, data, file, sentFile, batch, reply, traceQ, trace, ppc,
                       faults>>
    BY <1>1 DEF Load, At, Goto, pipeVars, parentVars, driverVars
  <2>2. \A t \in Stages : (Holder(t)' => Holder(t)) /\ (Serving(t)' => t # s)
    BY <2>1, <1>a DEF Holder, Serving, Called, Live, Working
  <2>3. SentWasOnDisk' /\ ReplyPast' /\ AnswerIsFresh'
    BY <2>1 DEF FreshInv, SentWasOnDisk, ReplyPast, AnswerIsFresh
  <2>4. ASSUME faults.threw = 0 PROVE Before' /\ AtWork' /\ TraceFresh'
    <3>1. Before /\ AtWork /\ TraceFresh
      BY <2>4 DEF FreshInv
    <3>2. Before' /\ TraceFresh'
      BY <2>1, <2>2, <3>1 DEF Before, TraceFresh, NewEnough
    <3>3. \A t \in Stages : Serving(t)' => Serving(t) /\ pc'[t] = pc[t] /\ loaded'[t] = loaded[t]
      BY <2>1, <2>2, <1>a DEF Serving, Live
    <3>4. AtWork'
      BY <2>1, <3>1, <3>3 DEF AtWork, NewEnough
    <3> QED
      BY <3>2, <3>4
  <2> QED
    BY <2>1, <2>3, <2>4 DEF FreshInv
<1>2. ASSUME NEW s \in Stages, ReceiveRun(s) PROVE FreshInv'
  <2>1. /\ pc[s] = "poll" /\ Live(s) /\ inbox[s] # <<>> /\ Head(inbox[s]).act = "RUN"
        /\ inbox' = [inbox EXCEPT ![s] = Tail(inbox[s])]
        /\ pc' = [pc EXCEPT ![s] = "restart"]
        /\ UNCHANGED <<file, data, loaded, sentFile, batch, reply, traceQ, trace, ppc, faults>>
        /\ \A t \in Stages : Live(t)' => Live(t)
    BY <1>2, ReapReports DEF ReceiveRun, At, Goto, pluginVars, parentVars, driverVars
  <2>2. HoldsRun(inbox[s])
    BY <2>1, <1>a, Received
  <2>3. \A t \in Stages : Holder(t)' => Holder(t)
    <3> SUFFICES ASSUME NEW t \in Stages, Holder(t)' PROVE Holder(t)
      OBVIOUS
    <3>1. CASE t = s
      BY <2>1, <2>2, <3>1 DEF Holder, Called
    <3>2. CASE t # s
      BY <2>1, <3>2, <1>a DEF Holder, Serving, Called
    <3> QED
      BY <3>1, <3>2
  <2> QED
    BY <2>1, <2>3, <1>a, FreshKept DEF Handing
<1>3. ASSUME NEW s \in Stages, ReapIdle(s) PROVE FreshInv'
  BY <1>3, FreshStill, ReapReports DEF ReapIdle, pluginVars, parentVars, driverVars
<1>4. ASSUME NEW s \in Stages, CheckRestart(s) PROVE FreshInv'
  <2>1. PICK p \in {"grace", "check"} : pc' = [pc EXCEPT ![s] = p]
    BY <1>4 DEF CheckRestart, Goto
  <2>2. \A t \in Stages : HoldsRun(inbox'[t]) => HoldsRun(inbox[t])
    BY <1>4, ToldTerminate DEF CheckRestart
  <2> QED
    BY <1>4, <2>1, <2>2, FreshMoved
    DEF CheckRestart, At, Live, Working, Handing, pluginVars, pipeVars, parentVars, driverVars
<1>5. ASSUME NEW s \in Stages, KillChild(s) PROVE FreshInv'
  <2>1. s + 1 \in Stages /\ Dies(s + 1, "sig")
    BY <1>5, TerminalOnly DEF KillChild, At
  <2> QED
    BY <1>5, <2>1, FreshStill, AfterDeath
    DEF KillChild, pluginVars, pipeVars, parentVars, driverVars
<1>6. ASSUME NEW s \in Stages, Restarted(s) PROVE FreshInv'
  <2>1. \A t \in Stages : Live(t)' => Live(t)
    BY <1>6, <1>a DEF Restarted, Reap, Live
  <2> QED
    BY <1>6, <2>1, FreshMoved
    DEF Restarted, At, Goto, Working, Handing, pluginVars, pipeVars, parentVars, driverVars
<1>7. ASSUME NEW s \in Stages, CheckReload(s) PROVE FreshInv'
  <2>1. PICK p \in {"stop", "reload", "compute", "record", "notify"} :
             /\ pc' = [pc EXCEPT ![s] = p]
             /\ p \in {"compute", "record", "notify"} => loaded[s] = file[s]
             /\ p \in {"record", "notify"} => hasRun[s]
    BY <1>7 DEF CheckReload, Goto, NeedsReload
  <2>2. \A t \in Stages : HoldsRun(inbox'[t]) => HoldsRun(inbox[t])
    BY <1>7, ToldTerminate DEF CheckReload
  <2>3. /\ pc[s] = "check" /\ Live(s)
        /\ UNCHANGED <<life, file, data, loaded, sentFile, batch, reply, traceQ, trace, ppc,
                       faults>>
    BY <1>7 DEF CheckReload, At, pluginVars, pipeVars, parentVars, driverVars
  <2>4. Serving(s) /\ \A t \in Stages : Holder(t)' => Holder(t)
    BY <2>1, <2>2, <2>3, <1>a DEF Holder, Serving, Called, Live, Working
  <2>5. SentWasOnDisk' /\ ReplyPast' /\ AnswerIsFresh'
    BY <2>3 DEF FreshInv, SentWasOnDisk, ReplyPast, AnswerIsFresh
  <2>6. ASSUME faults.threw = 0 PROVE Before' /\ AtWork' /\ TraceFresh'
    <3>1. Before /\ AtWork /\ TraceFresh
      BY <2>6 DEF FreshInv
    <3>2. Before' /\ TraceFresh'
      BY <2>3, <2>4, <3>1 DEF Before, TraceFresh, NewEnough
    <3>3. p = "compute" => loaded[s] >= sentFile[s]
      BY <2>1, <1>c
    <3>4. ASSUME p \in Handing PROVE NewEnough(data[s], s)
      <4>1. data[s] = Append(input[s], loaded[s]) /\ loaded[s] = file[s]
        BY <2>1, <2>3, <2>6, <3>4 DEF Handing, HeldInv, DataIs
      <4>2. NewEnough(input[s], s - 1)
        BY <2>4, <3>1, GivenFresh
      <4> QED
        BY <4>1, <4>2, <1>a, <1>c, Extended
    <3>5. \A t \in Stages : Serving(t)' => t = s
      BY <2>4, <1>d DEF Holder
    <3>6. AtWork'
      BY <2>1, <2>3, <3>3, <3>4, <3>5, <1>a DEF AtWork, NewEnough
    <3> QED
      BY <3>2, <3>6
  <2> QED
    BY <2>3, <2>5, <2>6 DEF FreshInv
<1>8. ASSUME NEW s \in Stages, Stopped(s) PROVE FreshInv'
  <2>1. \A t \in Stages : Live(t)' => Live(t)
    BY <1>8, <1>a DEF Stopped, Reap, Live
  <2> QED
    BY <1>8, <2>1, FreshMoved
    DEF Stopped, At, Goto, Working, Handing, pluginVars, pipeVars, parentVars, driverVars
<1>9. ASSUME NEW s \in Stages, Reload(s) PROVE FreshInv'
  <2>1. /\ pc[s] = "reload" /\ Live(s) /\ pc' = [pc EXCEPT ![s] = "compute"]
        /\ loaded' = [loaded EXCEPT ![s] = file[s]]
        /\ \A t \in Stages : t # s => data'[t] = data[t]
        /\ UNCHANGED <<life, inbox, file, sentFile, batch, reply, traceQ, trace, ppc, faults>>
    BY <1>9 DEF Reload, At, Goto, pipeVars, parentVars, driverVars
  <2>2. Serving(s) /\ \A t \in Stages : Holder(t)' => t = s
    <3>1. Serving(s)
      BY <2>1 DEF Serving, Working
    <3>2. \A t \in Stages : Holder(t)' => Holder(t)
      BY <2>1, <1>a DEF Holder, Serving, Called, Live, Working
    <3> QED
      BY <3>1, <3>2, <1>d
  <2>3. SentWasOnDisk' /\ ReplyPast' /\ AnswerIsFresh'
    BY <2>1 DEF FreshInv, SentWasOnDisk, ReplyPast, AnswerIsFresh
  <2>4. ASSUME faults.threw = 0 PROVE Before' /\ AtWork' /\ TraceFresh'
    <3>1. Before /\ AtWork /\ TraceFresh
      BY <2>4 DEF FreshInv
    <3>2. \A t \in 1..(s - 1) : t \in Stages /\ t # s /\ NewEnough(data[t], t)
      BY <2>2, <3>1, Bounds DEF Before, Holder, Stages
    <3>3. Before'
      BY <2>1, <2>2, <3>2 DEF Before, NewEnough
    <3>4. AtWork'
      BY <2>1, <2>2, <1>a, <1>c DEF AtWork, Handing, Holder
    <3>5. TraceFresh'
      BY <2>1, <3>1 DEF TraceFresh, NewEnough
    <3> QED
      BY <3>3, <3>4, <3>5
  <2> QED
    BY <2>1, <2>3, <2>4 DEF FreshInv
<1>10. ASSUME NEW s \in Stages, Compute(s) PROVE FreshInv'
  <2> DEFINE v == Append(input[s], loaded[s])
  <2>1. /\ pc[s] = "compute" /\ Live(s)
        /\ data' = [data EXCEPT ![s] = v]
        /\ UNCHANGED <<life, inbox, loaded, file, sentFile, batch, reply, trace, ppc, faults>>
    BY <1>10 DEF Compute, At, parentVars, driverVars
  <2>2. PICK p \in {"record", "done"} : pc' = [pc EXCEPT ![s] = p]
    BY <1>10 DEF Compute, Goto
  <2>3. Serving(s) /\ \A t \in Stages : Holder(t)' => t = s
    <3>1. Serving(s)
      BY <2>1 DEF Serving, Working
    <3>2. \A t \in Stages : Holder(t)' => Holder(t)
      BY <2>1, <2>2, <1>a DEF Holder, Serving, Called, Live, Working
    <3> QED
      BY <3>1, <3>2, <1>d
  <2>4. SentWasOnDisk' /\ ReplyPast' /\ AnswerIsFresh'
    BY <2>1 DEF FreshInv, SentWasOnDisk, ReplyPast, AnswerIsFresh
  <2>5. ASSUME faults.threw = 0 PROVE Before' /\ AtWork' /\ TraceFresh'
    <3>1. Before /\ AtWork /\ TraceFresh
      BY <2>5 DEF FreshInv
    <3>2. \A t \in 1..(s - 1) : t \in Stages /\ t # s /\ NewEnough(data[t], t)
      BY <2>3, <3>1, Bounds DEF Before, Holder, Stages
    <3>3. Before'
      BY <2>1, <2>3, <3>2 DEF Before, NewEnough
    <3>4. NewEnough(v, s)
      <4>1. loaded[s] \in Builds /\ loaded[s] >= sentFile[s]
        BY <2>1, <2>3, <3>1, BuildTypes DEF AtWork, VarTypes, LoadedPastLoad, TypeOK
      <4>2. NewEnough(input[s], s - 1)
        BY <2>3, <3>1, GivenFresh
      <4> QED
        BY <4>1, <4>2, <1>a, Extended
    <3>5. NewEnough(v, s)'
      BY <3>4, <1>10 DEF NewEnough, Compute, driverVars
    <3>6. AtWork'
      BY <2>1, <2>2, <2>3, <3>4, <1>a DEF AtWork, Holder, NewEnough
    <3>7. TraceFresh'
      <4>1. CASE s < N
        BY <1>10, <2>1, <3>1, <4>1 DEF Compute, TraceFresh, NewEnough
      <4>2. CASE ~(s < N)
        <5>1. traceQ' = Append(traceQ, [of |-> job[s], vers |-> v]) /\ s = N
          BY <1>10, <4>2, <1>b DEF Compute
        <5>2. traceQ = <<>> /\ trace = NoTrace
          <6>1. ppc = "wait" /\ doneQ = <<>> /\ token = NoToken
            BY <2>3 DEF BatonInv, BatonWaits, Baton
          <6>2. \A t \in Stages : ~At(t, "done")
            BY <2>1, <2>3, <1>d DEF At, Holder, Serving, Working
          <6> QED
            BY <6>1, <6>2 DEF TraceInv, HasTrace, Success, NoToken
        <5>3. Head(traceQ').vers = v
          BY <5>1, <5>2
        <5> QED
          BY <2>1, <3>4, <5>1, <5>2, <5>3 DEF TraceFresh, NewEnough
      <4> QED
        BY <4>1, <4>2
    <3> QED
      BY <3>3, <3>6, <3>7
  <2> QED
    BY <2>1, <2>4, <2>5 DEF FreshInv
<1>11. ASSUME NEW s \in Stages, Throw(s) PROVE FreshInv'
  <2>1. faults'.threw # 0 /\ UNCHANGED <<file, sentFile, batch, reply>>
    BY <1>11, <1>a DEF Throw, driverVars, parentVars
  <2> QED
    BY <2>1 DEF FreshInv, SentWasOnDisk, ReplyPast, AnswerIsFresh
<1>12. ASSUME NEW s \in Stages, RecordChildId(s) PROVE FreshInv'
  BY <1>12, FreshMoved
  DEF RecordChildId, At, Goto, Live, Working, Handing, pluginVars, pipeVars, parentVars,
      driverVars
<1>13. ASSUME NEW s \in Stages, Fork(s) PROVE FreshInv'
  <2>1. s + 1 \in Stages /\ s + 1 # s
    BY <1>13, <1>b, TerminalOnly DEF Fork, At
  <2>2. /\ pc[s] = "fork" /\ Live(s)
        /\ life' = [life EXCEPT ![s + 1] = "live"]
        /\ pc' = [pc EXCEPT ![s] = "notify", ![s + 1] = "load"]
        /\ inbox' = [inbox EXCEPT ![s + 1] = <<>>]
        /\ data' = [data EXCEPT ![s + 1] = <<>>]
        /\ UNCHANGED <<file, sentFile, batch, reply, traceQ, trace, ppc, faults>>
    BY <1>13 DEF Fork, At, pipeVars, parentVars, driverVars
  <2>3. Serving(s) /\ \A t \in Stages : Holder(t)' => t = s
    <3>1. Serving(s)
      BY <2>2 DEF Serving, Working
    <3>2. ~Holder(s + 1)'
      BY <2>1, <2>2, <1>a, Nothing DEF Holder, Serving, Called, Working
    <3>3. \A t \in Stages : t # s + 1 => (Holder(t)' => Holder(t))
      BY <2>1, <2>2, <1>a DEF Holder, Serving, Called, Live, Working
    <3> QED
      BY <3>1, <3>2, <3>3, <1>d
  <2>4. SentWasOnDisk' /\ ReplyPast' /\ AnswerIsFresh'
    BY <2>2 DEF FreshInv, SentWasOnDisk, ReplyPast, AnswerIsFresh
  <2>5. ASSUME faults.threw = 0 PROVE Before' /\ AtWork' /\ TraceFresh'
    <3>1. Before /\ AtWork /\ TraceFresh
      BY <2>5 DEF FreshInv
    <3>2. \A t \in 1..(s - 1) : t \in Stages /\ t # s + 1 /\ NewEnough(data[t], t)
      BY <2>3, <3>1, Bounds DEF Before, Holder, Stages
    <3>3. Before'
      BY <2>2, <2>3, <3>2 DEF Before, NewEnough
    <3>4. NewEnough(data[s], s)
      BY <2>2, <2>3, <3>1 DEF AtWork, Handing
    <3>5. AtWork'
      BY <2>1, <2>2, <2>3, <3>4, <1>a DEF AtWork, Holder, NewEnough
    <3>6. TraceFresh'
      BY <2>2, <3>1 DEF TraceFresh, NewEnough
    <3> QED
      BY <3>3, <3>5, <3>6
  <2> QED
    BY <2>2, <2>4, <2>5 DEF FreshInv
<1>14. ASSUME NEW s \in Stages, ForkFails(s) PROVE FreshInv'
  <2>1. faults'.threw = faults.threw
    BY <1>14, <1>a DEF ForkFails
  <2> QED
    BY <1>14, <2>1, FreshMoved
    DEF ForkFails, At, Goto, Live, Working, Handing, pluginVars, pipeVars, parentVars,
        driverVars
<1>15. ASSUME NEW s \in Stages, Done(s) PROVE FreshInv'
  BY <1>15, FreshMoved
  DEF Done, At, Goto, Live, Working, Handing, pluginVars, parentVars, driverVars
<1>16. ASSUME NEW s \in Stages, NotifyChild(s) PROVE FreshInv'
  <2>1. /\ pc[s] = "notify" /\ Live(s) /\ pc' = [pc EXCEPT ![s] = "final"]
        /\ UNCHANGED <<file, data, loaded, sentFile, batch, reply, traceQ, trace, ppc, faults>>
    BY <1>16 DEF NotifyChild, At, Goto, pluginVars, parentVars, driverVars
  <2>2. Serving(s) /\ ~ChildDead(s)
    BY <2>1, WorksAlone DEF Baton, Serving, Working, Waiting
  <2>3. UNCHANGED life /\ IF HasChild(s) THEN Tell(s + 1, Run(job[s])) ELSE UNCHANGED inbox
    BY <1>16, <2>2 DEF NotifyChild
  <2>4. CASE UNCHANGED inbox
    BY <2>1, <2>3, <2>4, FreshMoved DEF Live, Working, Handing
  <2>5. CASE s + 1 \in Stages /\ \A t \in Stages : t # s + 1 => inbox'[t] = inbox[t]
    <3>1. \A t \in Stages : /\ Serving(t)' => FALSE
                            /\ Holder(t)' => t = s + 1
      <4> SUFFICES ASSUME NEW t \in Stages
                   PROVE  (Serving(t)' => FALSE) /\ (Holder(t)' => t = s + 1)
        OBVIOUS
      <4>1. Serving(t)' => Serving(t) /\ t # s
        BY <2>1, <2>3, <1>a DEF Serving, Live, Working
      <4>2. ~Serving(t)'
        BY <4>1, <2>2, <1>d DEF Holder
      <4>3. t # s + 1 => (Called(t)' => Called(t))
        BY <2>3, <2>5 DEF Called, Live
      <4>4. Called(s) => FALSE
        BY <2>2 DEF BatonInv, RunOnce, Serving
      <4> QED
        BY <2>2, <4>2, <4>3, <4>4, <1>d DEF Holder
    <3>2. SentWasOnDisk' /\ ReplyPast' /\ AnswerIsFresh'
      BY <2>1 DEF FreshInv, SentWasOnDisk, ReplyPast, AnswerIsFresh
    <3>3. ASSUME faults.threw = 0 PROVE Before' /\ AtWork' /\ TraceFresh'
      <4>1. Before /\ AtWork /\ TraceFresh
        BY <3>3 DEF FreshInv
      <4>2. NewEnough(data[s], s) /\ \A t \in 1..(s - 1) : NewEnough(data[t], t)
        BY <2>1, <2>2, <4>1 DEF AtWork, Handing, Before, Holder
      <4>3. \A t \in 1..((s + 1) - 1) : t = s \/ t \in 1..(s - 1)
        BY <1>b
      <4>4. Before'
        BY <2>1, <3>1, <4>2, <4>3 DEF Before, NewEnough
      <4>5. AtWork' /\ TraceFresh'
        BY <2>1, <3>1, <4>1 DEF AtWork, TraceFresh, NewEnough
      <4> QED
        BY <4>4, <4>5
    <3> QED
      BY <2>1, <3>2, <3>3 DEF FreshInv
  <2> QED
    <3>1. CASE HasChild(s)
      <4>1. s + 1 \in Stages /\ Tell(s + 1, Run(job[s]))
        BY <2>3, <3>1, ChildIsStage
      <4>2. \A t \in Stages : t # s + 1 => inbox'[t] = inbox[t]
        BY <4>1, <1>a DEF Tell
      <4> QED
        BY <4>1, <4>2, <2>5
    <3>2. CASE ~HasChild(s)
      BY <2>3, <2>4, <3>2
    <3> QED
      BY <3>1, <3>2
<1>17. ASSUME NEW s \in Stages, Finish(s) PROVE FreshInv'
  BY <1>17, FreshMoved, ReapReports
  DEF Finish, At, Goto, Working, Handing, pluginVars, parentVars, driverVars
<1>18. ASSUME NEW s \in Stages, ReceiveTerminate(s) PROVE FreshInv'
  <2>1. \A t \in Stages : HoldsRun(inbox'[t]) => HoldsRun(inbox[t])
    BY <1>18, ToldTerminate DEF ReceiveTerminate
  <2> QED
    BY <1>18, <2>1, FreshMoved
    DEF ReceiveTerminate, At, Goto, Live, Working, Handing, pluginVars, pipeVars, parentVars,
        driverVars
<1>19. ASSUME NEW s \in Stages, Exit(s) PROVE FreshInv'
  BY <1>19, FreshStill, AfterDeath DEF Exit, pluginVars, pipeVars, parentVars, driverVars
<1>20. ASSUME NEW s \in Stages, Crash(s) PROVE FreshInv'
  <2>1. faults'.threw = faults.threw
    BY <1>20, <1>a DEF Crash
  <2> QED
    BY <1>20, <2>1, FreshStill, AfterDeath
    DEF Crash, pluginVars, pipeVars, parentVars, driverVars
(* The parent and the driver.                                              *)
<1>e. ASSUME UNCHANGED <<life, pc, inbox>> PROVE \A t \in Stages : Holder(t)' <=> Holder(t)
  BY <1>e DEF Holder, Serving, Called, Live
<1>21. ASSUME NEW s \in Stages, Publish(s) PROVE FreshInv'
  <2>1. /\ file' = [file EXCEPT ![s] = @ + 1]
        /\ UNCHANGED <<life, pc, inbox, data, loaded, sentFile, batch, reply, traceQ, trace,
                       ppc, faults>>
    BY <1>21 DEF Publish, procVars, pluginVars, pipeVars, parentVars
  <2>2. SentWasOnDisk'
    BY <2>1, <1>a, <1>c DEF SentWasOnDisk
  <2>3. ReplyPast' /\ AnswerIsFresh'
    BY <2>1 DEF FreshInv, ReplyPast, AnswerIsFresh
  <2>4. ASSUME faults.threw = 0 PROVE Before' /\ AtWork' /\ TraceFresh'
    BY <2>1, <2>4, <1>e DEF FreshInv, Before, AtWork, TraceFresh, NewEnough, Serving, Live
  <2> QED
    BY <2>1, <2>2, <2>3, <2>4 DEF FreshInv
<1>22. ASSUME SendRun PROVE FreshInv'
  <2>1. /\ ppc = "recv" /\ batch' = batch + 1 /\ sentFile' = file /\ trace' = NoTrace
        /\ UNCHANGED <<life, pc, data, loaded, reply, traceQ, file, faults>>
        /\ Tell(1, Run(batch + 1))
    BY <1>22 DEF SendRun, pluginVars, pipeVars
  <2>2. (\A t \in Stages : ~Holder(t)) /\ traceQ = <<>>
    BY <2>1 DEF BatonInv, BatonWaits, Baton, Holder, TraceInv
  <2>3. \A t \in Stages : ~Serving(t)' /\ (Holder(t)' => t = 1)
    BY <2>1, <2>2 DEF Holder, Serving, Called, Live, Tell
  <2>4. SentWasOnDisk' /\ ReplyPast'
    BY <2>1, <1>a, <1>c DEF SentWasOnDisk, ReplyPast, FreshInv
  <2>5. AnswerIsFresh'
    BY <2>1, <1>a DEF AnswerIsFresh, ReplyPast, FreshInv
  <2>6. Before' /\ AtWork' /\ TraceFresh'
    BY <2>1, <2>2, <2>3 DEF Before, AtWork, TraceFresh
  <2> QED
    BY <2>4, <2>5, <2>6 DEF FreshInv
<1>23. ASSUME ReadDone PROVE FreshInv'
  BY <1>23, <1>e, FreshStill DEF ReadDone, Live, procVars, pluginVars, driverVars
<1>24. ASSUME ReadTrace PROVE FreshInv'
  <2>1. /\ ppc = "wait" /\ traceQ # <<>> /\ trace' = Head(traceQ) /\ traceQ' = Tail(traceQ)
        /\ UNCHANGED <<life, pc, inbox, data, loaded, sentFile, file, batch, reply, ppc, faults>>
    BY <1>24 DEF ReadTrace, procVars, pluginVars, driverVars
  <2>2. traceQ' = <<>>
    BY <2>1, <1>a DEF TraceInv
  <2>3. SentWasOnDisk' /\ ReplyPast' /\ AnswerIsFresh'
    BY <2>1 DEF FreshInv, SentWasOnDisk, ReplyPast, AnswerIsFresh
  <2>4. ASSUME faults.threw = 0 PROVE Before' /\ AtWork' /\ TraceFresh'
    BY <2>1, <2>2, <2>4, <1>e
    DEF FreshInv, Before, AtWork, TraceFresh, NewEnough, Serving, Live
  <2> QED
    BY <2>1, <2>3, <2>4 DEF FreshInv
<1>f. ASSUME ppc' # "wait", UNCHANGED <<file, data, loaded, sentFile, batch, faults>>,
             \A t \in Stages : /\ Holder(t)' => Holder(t)
                               /\ Serving(t)' => Serving(t) /\ pc'[t] = pc[t],
             ReplyPast', AnswerIsFresh'
      PROVE  FreshInv'
  <2>1. SentWasOnDisk'
    BY <1>f DEF FreshInv, SentWasOnDisk
  <2>2. ASSUME faults.threw = 0 PROVE Before' /\ AtWork' /\ TraceFresh'
    BY <1>f, <2>2 DEF FreshInv, Before, AtWork, TraceFresh, NewEnough
  <2> QED
    BY <1>f, <2>1, <2>2 DEF FreshInv
<1>g. ASSUME UNCHANGED <<reply, batch, sentFile, faults>> PROVE ReplyPast' /\ AnswerIsFresh'
  BY <1>g DEF FreshInv, ReplyPast, AnswerIsFresh
<1>25. ASSUME HangUp PROVE FreshInv'
  BY <1>25, <1>e, <1>f, <1>g DEF HangUp, Serving, Live, procVars, pluginVars, driverVars
<1>26. ASSUME Reply PROVE FreshInv'
  <2>1. /\ ppc = "wait" /\ token # NoToken /\ ppc' = "recv"
        /\ token.how \in TraceFree \/ trace # NoTrace \/ traceQ = <<>>
        /\ reply' = [of |-> batch, how |-> token.how, tokenOf |-> token.of,
                     traceOf |-> trace.of, vers |-> trace.vers]
        /\ UNCHANGED <<life, pc, inbox, data, loaded, sentFile, file, batch, faults>>
    BY <1>26 DEF Reply, procVars, pluginVars, driverVars
  <2>2. ReplyPast'
    BY <2>1, <1>a DEF ReplyPast
  <2>3. AnswerIsFresh'
    <3> SUFFICES ASSUME faults.threw = 0, token.how = "ok"
                 PROVE  Len(trace.vers) = N /\ \A s \in Stages : trace.vers[s] >= sentFile[s]
      BY <2>1 DEF AnswerIsFresh
    <3>1. trace # NoTrace
      BY <2>1 DEF TraceInv, HasTrace, Success, TraceFree
    <3> QED
      BY <2>1, <3>1 DEF FreshInv, TraceFresh, NewEnough, Stages
  <2> QED
    BY <2>1, <2>2, <2>3, <1>e, <1>f DEF Serving, Live
<1>27. ASSUME SendTerminate PROVE FreshInv'
  <2>1. \A t \in Stages : HoldsRun(inbox'[t]) => HoldsRun(inbox[t])
    BY <1>27, ToldTerminate DEF SendTerminate
  <2>2. /\ UNCHANGED <<life, pc, data, loaded, sentFile, file, batch, reply, faults>>
        /\ ppc' # "wait"
    BY <1>27 DEF SendTerminate, pluginVars, driverVars
  <2>3. \A t \in Stages : /\ Holder(t)' => Holder(t)
                          /\ Serving(t)' => Serving(t) /\ pc'[t] = pc[t]
    BY <2>1, <2>2 DEF Holder, Serving, Called, Live
  <2> QED
    BY <2>2, <2>3, <1>f, <1>g
<1>28. ASSUME ParentExits PROVE FreshInv'
  BY <1>28, <1>e, <1>f, <1>g DEF ParentExits, Serving, Live, procVars, pluginVars, driverVars
<1>29. ASSUME UNCHANGED vars PROVE FreshInv'
  BY <1>29, FreshStill DEF vars, Live, procVars, pluginVars, pipeVars, parentVars, driverVars
<1> QED
  BY <1>1, <1>2, <1>3, <1>4, <1>5, <1>6, <1>7, <1>8, <1>9, <1>10, <1>11, <1>12, <1>13,
     <1>14, <1>15, <1>16, <1>17, <1>18, <1>19, <1>20, <1>21, <1>22, <1>23, <1>24, <1>25,
     <1>26, <1>27, <1>28, <1>29 DEF Next, StageStep, ParentStep, Ended

(* As long as no callback threw, a successful answer was computed by       *)
(* plugins at least as new as those on disk when its batch was sent, for   *)
(* any number of stages, policies and publications: neither the restart of *)
(* a child nor the in-place reload of stage_loop_impl misses one.  Stage   *)
(* processes may die as in OneAnswerPerRun.                                *)
THEOREM HotpatchTaken == ASSUME TimelyDeaths PROVE Spec => []AnswerIsFresh
<1> DEFINE Inv == VarTypes /\ TreeInv /\ OrderInv /\ BatonInv /\ TraceInv /\ HeldInv
                    /\ FreshInv
<1>1. Init => Inv
  BY TypeInit, TreeInit, InitBegins, OrderBegun, BatonBegun, TraceBegun, HeldBegun, SentInit,
     FreshBegun
<1>2. Inv /\ [Next]_vars => Inv'
  BY TypeStep, TreeStep, OrderStep, TimelyStep, HeldStep, FreshStep
<1>3. Inv => AnswerIsFresh
  BY DEF FreshInv
<1> QED
  BY <1>1, <1>2, <1>3, PTL DEF Spec
---------------------------------------------------------------------------
(* The batch ids of the RUNs in a control pipe.                            *)
RunsIn(q) == {q[i].of : i \in {j \in DOMAIN q : q[j].act = "RUN"}}

LEMMA RunsSent ==
  ASSUME NEW q \in Seq(Message), NEW m \in Message
  PROVE  \A b : b \in RunsIn(Append(q, m)) <=> b \in RunsIn(q) \/ (m.act = "RUN" /\ b = m.of)
<1> DEFINE r == Append(q, m)
<1>1. /\ Len(q) \in Nat /\ DOMAIN q = 1..Len(q) /\ DOMAIN r = 1..(Len(q) + 1)
      /\ r[Len(q) + 1] = m /\ \A i \in 1..Len(q) : r[i] = q[i]
  OBVIOUS
<1>2. \A i : i \in DOMAIN r <=> i \in DOMAIN q \/ i = Len(q) + 1
  BY <1>1
<1>3. \A i \in DOMAIN q : r[i] = q[i]
  BY <1>1
<1>4. r[Len(q) + 1] = m
  BY <1>1
<1> HIDE DEF r
<1> QED
  BY <1>2, <1>3, <1>4, Zenon DEF RunsIn, r

LEMMA RunsReceived ==
  ASSUME NEW q \in Seq(Message), q # <<>>
  PROVE  /\ RunsIn(Tail(q)) \subseteq RunsIn(q)
         /\ Head(q).act = "RUN" => Head(q).of \in RunsIn(q)
<1>1. /\ Len(q) \in Nat \ {0} /\ DOMAIN q = 1..Len(q) /\ DOMAIN Tail(q) = 1..(Len(q) - 1)
      /\ Head(q) = q[1] /\ \A i \in 1..(Len(q) - 1) : Tail(q)[i] = q[i + 1]
  OBVIOUS
<1>2. \A i \in DOMAIN Tail(q) : i + 1 \in DOMAIN q /\ Tail(q)[i] = q[i + 1]
  BY <1>1
<1>3. Head(q) = q[1] /\ 1 \in DOMAIN q
  BY <1>1
<1> QED
  BY <1>2, <1>3 DEF RunsIn

LEMMA RunsAreBatches ==
  ASSUME NEW q \in Seq(Message) PROVE RunsIn(q) \subseteq Batches
<1>1. \A i \in DOMAIN q : q[i] \in Message
  OBVIOUS
<1> QED
  BY <1>1, MessageTypes DEF RunsIn

LEMMA RunsHeld ==
  /\ \A q : HoldsRun(q) <=> RunsIn(q) # {}
  /\ RunsIn(<<>>) = {}
  BY DEF RunsIn, HoldsRun

(* A RUN for a batch in a pipe, as InHand says it.                         *)
LEMMA RunFor ==
  ASSUME NEW q \in Seq(Message), NEW b
  PROVE  (\E i \in DOMAIN q : q[i] = Run(b)) <=> b \in RunsIn(q)
<1>1. \A i \in DOMAIN q : q[i] \in Message
  OBVIOUS
<1>2. \A m \in Message : m = Run(b) <=> m.act = "RUN" /\ m.of = b
  BY DEF Message, Run
<1> QED
  BY <1>1, <1>2 DEF RunsIn

LEMMA RunsTold ==
  ASSUME VarTypes, NEW u, Tell(u, Terminate) \/ UNCHANGED inbox
  PROVE  \A t \in Stages : RunsIn(inbox'[t]) \subseteq RunsIn(inbox[t])
<1> SUFFICES ASSUME NEW t \in Stages PROVE RunsIn(inbox'[t]) \subseteq RunsIn(inbox[t])
  OBVIOUS
<1>1. inbox \in [Stages -> Seq(Message)]
  BY DEF VarTypes, TypeOK
<1>2. inbox'[t] = inbox[t] \/ inbox'[t] = Append(inbox[t], Terminate)
  BY <1>1 DEF Tell
<1>3. inbox[t] \in Seq(Message) /\ Terminate \in Message /\ Terminate.act # "RUN"
  BY <1>1, MessageTypes DEF Terminate
<1> QED
  BY <1>2, <1>3, RunsSent

(* What a step of a stage does with the batch ids it has, was sent and     *)
(* sends on.                                                               *)
Reports(s) ==
  /\ \/ UNCHANGED doneQ
     \/ /\ \E how : doneQ' = Append(doneQ, [of |-> job[s], how |-> how])
        /\ Serving(s) \/ (s + 1 \in Stages /\ Fallen(s + 1))
  /\ \/ UNCHANGED traceQ
     \/ /\ \E v : traceQ' = Append(traceQ, [of |-> job[s], vers |-> v])
        /\ Serving(s)

Takes(s, t) == t = s /\ Live(s) /\ job'[t] \in RunsIn(inbox[s])

StageEffect(s) ==
  /\ UNCHANGED <<batch, reply, ppc, token, trace>>
  /\ Reports(s)
  /\ \A t \in Stages :
       /\ job'[t] = job[t] \/ Takes(s, t) \/ (Fork(s) /\ t = s + 1 /\ job'[t] = 0)
       /\ Serving(t)' => Serving(t) \/ Takes(s, t)
       /\ Live(t)' => Live(t) \/ (Fork(s) /\ t = s + 1 /\ job'[t] = 0)
       /\ \A b \in RunsIn(inbox'[t]) :
             \/ b \in RunsIn(inbox[t]) /\ (Live(t)' => Live(t))
             \/ Serving(s) /\ t = s + 1 /\ b = job[s] /\ Live(t)

LEMMA PlainStep ==
  ASSUME VarTypes, NEW s \in Stages, NEW p, pc' = [pc EXCEPT ![s] = p],
         p \in Working => pc[s] \in Working,
         UNCHANGED <<job, batch, reply, ppc, token, trace>>, Reports(s),
         \A t \in Stages : (Live(t)' => Live(t)) /\ RunsIn(inbox'[t]) \subseteq RunsIn(inbox[t])
  PROVE  StageEffect(s)
<1>1. pc \in [Stages -> Phases]
  BY DEF VarTypes, TypeOK
<1> QED
  BY <1>1 DEF StageEffect, Serving

LEMMA StillStep ==
  ASSUME VarTypes, NEW s \in Stages,
         UNCHANGED <<pc, inbox, job, batch, reply, ppc, token, trace>>, Reports(s),
         \A t \in Stages : Live(t)' => Live(t)
  PROVE  StageEffect(s)
  BY DEF StageEffect, Serving

LEMMA ReapReportsOwn ==
  ASSUME VarTypes, NEW s \in Stages, ReapDeadChild(s), Live(s), pc[s] \notin Waiting,
         UNCHANGED traceQ
  PROVE  Reports(s)
<1>1. CASE ChildDead(s)
  BY <1>1, DeadChildIsBaton DEF ReapDeadChild, WriteDone, Reports
<1>2. CASE ~ChildDead(s)
  BY <1>2 DEF ReapDeadChild, Reports
<1> QED
  BY <1>1, <1>2

LEMMA StageEffects ==
  ASSUME VarTypes, TreeInv, NEW s \in Stages, StageStep(s)
  PROVE  StageEffect(s)
<1>a. /\ life \in [Stages -> {"none", "live", "dead"}]
      /\ pc \in [Stages -> Phases] /\ inbox \in [Stages -> Seq(Message)]
      /\ job \in [Stages -> Batches]
  BY DEF VarTypes, TypeOK
<1>b. UNCHANGED <<doneQ, traceQ>> => Reports(s)
  BY DEF Reports
<1>c. UNCHANGED inbox => \A t \in Stages : RunsIn(inbox'[t]) \subseteq RunsIn(inbox[t])
  OBVIOUS
<1>d. ASSUME NEW p, pc' = [pc EXCEPT ![s] = p], p \in Working => pc[s] \in Working,
             UNCHANGED <<life, inbox, job, batch, reply, ppc, token, trace>>, Reports(s)
      PROVE  StageEffect(s)
  BY <1>d, <1>c, PlainStep DEF Live
<1>e. ASSUME NEW t \in Stages, s < N, Reap(s) PROVE Live(t)' => Live(t)
  BY <1>e, <1>a DEF Reap, Live
<1>1. CASE Load(s)
  BY <1>1, <1>b, <1>d DEF Load, At, Goto, Working, pipeVars, parentVars, driverVars
<1>2. CASE ReceiveRun(s)
  <2>1. /\ pc[s] = "poll" /\ Live(s) /\ inbox[s] # <<>> /\ Head(inbox[s]).act = "RUN"
        /\ inbox' = [inbox EXCEPT ![s] = Tail(inbox[s])]
        /\ pc' = [pc EXCEPT ![s] = "restart"]
        /\ job' = [job EXCEPT ![s] = Head(inbox[s]).of]
        /\ UNCHANGED <<batch, reply, ppc, token, trace, traceQ>>
        /\ ReapDeadChild(s)
    BY <1>2 DEF ReceiveRun, At, Goto, parentVars, driverVars
  <2>2. Takes(s, s) /\ RunsIn(Tail(inbox[s])) \subseteq RunsIn(inbox[s])
    BY <2>1, <1>a, RunsReceived DEF Takes
  <2>3. Reports(s) /\ \A t \in Stages : Live(t)' => Live(t)
    BY <2>1, ReapReportsOwn, ReapReports DEF Waiting
  <2>4. \A t \in Stages : /\ RunsIn(inbox'[t]) \subseteq RunsIn(inbox[t])
                          /\ t # s => job'[t] = job[t] /\ pc'[t] = pc[t]
    BY <2>1, <2>2, <1>a
  <2> QED
    BY <2>1, <2>2, <2>3, <2>4 DEF StageEffect, Serving
<1>3. CASE ReapIdle(s)
  BY <1>3, StillStep, ReapReportsOwn, ReapReports
  DEF ReapIdle, At, Waiting, parentVars, driverVars
<1>4. CASE CheckRestart(s)
  <2>1. PICK p \in {"grace", "check"} : pc' = [pc EXCEPT ![s] = p]
    BY <1>4 DEF CheckRestart, Goto
  <2>2. \A t \in Stages : RunsIn(inbox'[t]) \subseteq RunsIn(inbox[t])
    BY <1>4, RunsTold DEF CheckRestart
  <2> QED
    BY <1>4, <2>1, <2>2, <1>b, PlainStep
    DEF CheckRestart, At, Live, Working, pipeVars, parentVars, driverVars
<1>5. CASE KillChild(s)
  <2>1. s + 1 \in Stages
    BY <1>5, TerminalOnly DEF KillChild, At
  <2> QED
    BY <1>5, <2>1, <1>b, StillStep, AfterDeath DEF KillChild, pipeVars, parentVars, driverVars
<1>6. CASE Restarted(s)
  <2>1. s < N
    BY <1>6, TerminalOnly DEF Restarted, At
  <2> QED
    BY <1>6, <2>1, <1>b, <1>c, <1>e, PlainStep
    DEF Restarted, At, Goto, Working, pipeVars, parentVars, driverVars
<1>7. CASE CheckReload(s)
  <2>1. PICK p : pc' = [pc EXCEPT ![s] = p]
    BY <1>7 DEF CheckReload, Goto
  <2>2. \A t \in Stages : RunsIn(inbox'[t]) \subseteq RunsIn(inbox[t])
    BY <1>7, RunsTold DEF CheckReload
  <2> QED
    BY <1>7, <2>1, <2>2, <1>b, PlainStep
    DEF CheckReload, At, Live, Working, pipeVars, parentVars, driverVars
<1>8. CASE Stopped(s)
  <2>1. s < N
    BY <1>8, TerminalOnly DEF Stopped, At
  <2> QED
    BY <1>8, <2>1, <1>b, <1>c, <1>e, PlainStep
    DEF Stopped, At, Goto, Working, pipeVars, parentVars, driverVars
<1>9. CASE Reload(s)
  BY <1>9, <1>b, <1>d DEF Reload, At, Goto, Working, pipeVars, parentVars, driverVars
<1>10. CASE Compute(s)
  <2>1. PICK p : pc' = [pc EXCEPT ![s] = p]
    BY <1>10 DEF Compute, Goto
  <2>2. Reports(s)
    BY <1>10 DEF Compute, At, Serving, Working, Reports
  <2> QED
    BY <1>10, <2>1, <2>2, <1>d DEF Compute, At, Working, parentVars, driverVars
<1>f. ASSUME At(s, "compute") \/ At(s, "fork") \/ At(s, "done"), NEW how, WriteDone(s, how),
             UNCHANGED traceQ
      PROVE  Reports(s)
  BY <1>f DEF At, Serving, Working, WriteDone, Reports
<1>11. CASE Throw(s)
  BY <1>11, <1>f, <1>d DEF Throw, At, Goto, Working, parentVars, driverVars
<1>12. CASE RecordChildId(s)
  BY <1>12, <1>b, <1>d DEF RecordChildId, At, Goto, Working, pipeVars, parentVars, driverVars
<1>13. CASE Fork(s)
  <2>1. /\ pc[s] = "fork" /\ s + 1 \in Stages /\ s + 1 # s
        /\ pc' = [pc EXCEPT ![s] = "notify", ![s + 1] = "load"]
        /\ life' = [life EXCEPT ![s + 1] = "live"]
        /\ inbox' = [inbox EXCEPT ![s + 1] = <<>>] /\ job' = [job EXCEPT ![s + 1] = 0]
        /\ UNCHANGED <<batch, reply, ppc, token, trace, doneQ, traceQ>>
    BY <1>13, TerminalOnly, Bounds DEF Fork, At, pipeVars, parentVars, driverVars, Stages
  <2>2. /\ RunsIn(inbox'[s + 1]) = {} /\ job'[s + 1] = 0 /\ pc'[s + 1] = "load"
        /\ pc'[s] = "notify"
    BY <2>1, <1>a, RunsHeld
  <2>3. \A t \in Stages : t # s + 1 => /\ inbox'[t] = inbox[t] /\ job'[t] = job[t]
                                       /\ life'[t] = life[t]
                                       /\ t # s => pc'[t] = pc[t]
    BY <2>1, <1>a
  <2>4. \A t \in Stages : /\ Serving(t)' => Serving(t)
                          /\ Live(t)' => Live(t) \/ t = s + 1
    BY <2>1, <2>2, <2>3, <1>13 DEF Fork, At, Serving, Live, Working
  <2>5. Reports(s)
    BY <2>1, <1>b
  <2> QED
    BY <1>13, <2>1, <2>2, <2>3, <2>4, <2>5 DEF StageEffect, Live
<1>14. CASE ForkFails(s)
  BY <1>14, <1>f, <1>d DEF ForkFails, At, Goto, Working, parentVars, driverVars
<1>15. CASE Done(s)
  BY <1>15, <1>f, <1>d DEF Done, At, Goto, Working, parentVars, driverVars
<1>16. CASE NotifyChild(s)
  <2>1. /\ pc[s] = "notify" /\ Live(s) /\ pc' = [pc EXCEPT ![s] = "final"]
        /\ UNCHANGED <<job, batch, reply, ppc, token, trace, traceQ>>
    BY <1>16 DEF NotifyChild, At, Goto, parentVars, driverVars
  <2>2. s < N /\ s + 1 \in Stages /\ Serving(s)
    BY <2>1, TerminalOnly DEF Serving, Working
  <2>3. CASE ChildDead(s)
    <3>1. WriteDone(s, status[s + 1]) /\ Reap(s) /\ UNCHANGED inbox
      BY <1>16, <2>3 DEF NotifyChild
    <3>2. Reports(s)
      BY <2>1, <2>2, <3>1 DEF WriteDone, Reports
    <3> QED
      BY <2>1, <2>2, <3>1, <3>2, <1>c, <1>e, PlainStep DEF Working
  <2>4. CASE ~ChildDead(s)
    <3>1. UNCHANGED <<doneQ, life>> /\ (UNCHANGED inbox \/ Tell(s + 1, Run(job[s])))
      BY <1>16, <2>4 DEF NotifyChild
    <3>2. CASE UNCHANGED inbox
      BY <2>1, <3>1, <3>2, <1>b, <1>d DEF Working
    <3>3. CASE Live(s + 1) /\ inbox' = [inbox EXCEPT ![s + 1] = Append(@, Run(job[s]))]
      <4>1. Run(job[s]) \in Message /\ Run(job[s]).of = job[s]
        BY <1>a, MessageTypes DEF Run
      <4>2. \A b \in RunsIn(inbox'[s + 1]) : b \in RunsIn(inbox[s + 1]) \/ b = job[s]
        BY <2>2, <3>3, <4>1, <1>a, RunsSent
      <4>3. \A t \in Stages : /\ t # s + 1 => inbox'[t] = inbox[t]
                              /\ t # s => pc'[t] = pc[t]
        BY <2>1, <3>3, <1>a
      <4> QED
        BY <2>1, <2>2, <3>1, <3>3, <4>2, <4>3, <1>b DEF StageEffect, Serving, Live
    <3> QED
      BY <3>1, <3>2, <3>3 DEF Tell
  <2> QED
    BY <2>3, <2>4
<1>17. CASE Finish(s)
  BY <1>17, <1>c, PlainStep, ReapReportsOwn, ReapReports
  DEF Finish, At, Goto, Waiting, Working, parentVars, driverVars
<1>18. CASE ReceiveTerminate(s)
  <2>1. \A t \in Stages : RunsIn(inbox'[t]) \subseteq RunsIn(inbox[t])
    BY <1>18, RunsTold DEF ReceiveTerminate
  <2> QED
    BY <1>18, <2>1, <1>b, PlainStep
    DEF ReceiveTerminate, At, Goto, Live, Working, pipeVars, parentVars, driverVars
<1>19. CASE Exit(s)
  BY <1>19, <1>b, StillStep, AfterDeath DEF Exit, pipeVars, parentVars, driverVars
<1> QED
  BY <1>1, <1>2, <1>3, <1>4, <1>5, <1>6, <1>7, <1>8, <1>9, <1>10, <1>11, <1>12, <1>13,
     <1>14, <1>15, <1>16, <1>17, <1>18, <1>19 DEF StageStep
---------------------------------------------------------------------------
(* Whose batch it is.  No stage has a batch that was never sent.           *)
IdsPast ==
  /\ \A s \in Stages : job[s] <= batch /\ \A b \in RunsIn(inbox[s]) : b <= batch
  /\ ppc = "wait" => batch >= 1

(* The stage took the last batch, or is about to.                          *)
Has(s) == job[s] = batch \/ batch \in RunsIn(inbox[s])

(* Above the stages the batch has come to nobody has the baton any more,   *)
(* and every stage above them, and above a dead child, took that batch.    *)
DownOnly == \A s, t \in Stages : Live(s) /\ Has(s) /\ t < s => ~Baton(t)
Passed   == \A s, t \in Stages :
               ((Live(s) /\ Has(s)) \/ Fallen(s)) /\ t < s => job[t] = batch
OwnRun   == \A s \in Stages : Serving(s) => job[s] = batch
OwnInbox == \A s \in Stages : Live(s) => RunsIn(inbox[s]) \subseteq {batch}

(* What the parent is going to read is of that batch.                      *)
OwnPipes ==
  ppc = "wait" => /\ doneQ # <<>> => Head(doneQ).of = batch
                  /\ token # NoToken => token.of = batch
                  /\ traceQ # <<>> => Head(traceQ).of = batch
                  /\ trace # NoTrace => trace.of = batch

JobIs  == DownOnly /\ Passed /\ OwnRun /\ OwnInbox
JobInv == JobIs /\ OwnPipes

LEMMA IdsBegun == Begun /\ DriverTypes => IdsPast
  BY RunsHeld, Bounds DEF Begun, DriverTypes, IdsPast, Batches

LEMMA IdsStep == VarTypes /\ TreeInv /\ IdsPast /\ [Next]_vars => IdsPast'
<1> SUFFICES ASSUME VarTypes, TreeInv, IdsPast, [Next]_vars PROVE IdsPast'
  OBVIOUS
<1>a. /\ inbox \in [Stages -> Seq(Message)] /\ job \in [Stages -> Batches]
      /\ batch \in Nat /\ \A s \in Stages : job[s] \in Nat
  BY Bounds DEF VarTypes, TypeOK, Batches
<1>b. ASSUME UNCHANGED <<job, batch>>, ppc' = "wait" => ppc = "wait",
             \A t \in Stages : RunsIn(inbox'[t]) \subseteq RunsIn(inbox[t])
      PROVE  IdsPast'
  BY <1>b DEF IdsPast
<1>1. ASSUME NEW s \in Stages, StageStep(s) PROVE IdsPast'
  <2>1. StageEffect(s)
    BY <1>1, StageEffects
  <2>2. ASSUME NEW t \in Stages
        PROVE  job'[t] <= batch' /\ \A b \in RunsIn(inbox'[t]) : b <= batch'
    BY <2>1, <2>2, <1>a, <1>1 DEF StageEffect, Takes, IdsPast
  <2> QED
    BY <2>1, <2>2 DEF StageEffect, IdsPast
<1>2. ASSUME NEW s \in Stages, Crash(s) PROVE IdsPast'
  BY <1>2, <1>b DEF Crash, parentVars, driverVars
<1>3. ASSUME NEW s \in Stages, Publish(s) PROVE IdsPast'
  BY <1>3, <1>b DEF Publish, procVars, parentVars
<1>4. CASE SendRun
  <2>1. batch' = batch + 1 /\ UNCHANGED job /\ Tell(1, Run(batch + 1)) /\ batch + 1 \in Batches
    BY <1>4, <1>a, Bounds DEF SendRun, Batches
  <2>2. ASSUME NEW t \in Stages
        PROVE  \A b \in RunsIn(inbox'[t]) : b \in RunsIn(inbox[t]) \/ b = batch + 1
    <3>1. inbox'[t] = inbox[t] \/ inbox'[t] = Append(inbox[t], Run(batch + 1))
      BY <2>1, <1>a DEF Tell
    <3>2. Run(batch + 1) \in Message /\ Run(batch + 1).of = batch + 1
      BY <2>1, MessageTypes DEF Run
    <3> QED
      BY <3>1, <3>2, <1>a, RunsSent
  <2>3. ASSUME NEW t \in Stages
        PROVE  job'[t] <= batch' /\ \A b \in RunsIn(inbox'[t]) : b <= batch'
    <3>1. job[t] <= batch /\ \A b \in RunsIn(inbox[t]) : b <= batch
      BY DEF IdsPast
    <3>2. \A b \in RunsIn(inbox[t]) : b \in Nat
      BY <1>a, Bounds, RunsAreBatches DEF Batches
    <3>3. job'[t] <= batch'
      BY <2>1, <3>1, <1>a
    <3>4. ASSUME NEW b \in RunsIn(inbox'[t]) PROVE b <= batch'
      <4>1. b = batch + 1 \/ (b \in Nat /\ b <= batch)
        BY <2>2, <3>1, <3>2, <3>4
      <4> QED
        BY <2>1, <4>1, <1>a
    <3> QED
      BY <3>3, <3>4
  <2> QED
    BY <2>1, <2>3, <1>a DEF IdsPast
<1>5. CASE SendTerminate
  BY <1>5, <1>b, RunsTold DEF SendTerminate, driverVars
<1>6. CASE ParentStep
  BY <1>6, <1>b
  DEF ParentStep, ReadDone, ReadTrace, HangUp, Reply, ParentExits, procVars, driverVars
<1>7. CASE UNCHANGED vars
  BY <1>7, <1>b DEF vars, procVars, parentVars, driverVars
<1> QED
  BY <1>1, <1>2, <1>3, <1>4, <1>5, <1>6, <1>7, MoveOrCrash DEF Move

LEMMA BatonHas ==
  ASSUME JobIs, NEW s \in Stages, Baton(s) PROVE (Live(s) /\ Has(s)) \/ Fallen(s)
  BY RunsHeld DEF JobIs, OwnRun, OwnInbox, Baton, Serving, Called, Has

LEMMA JobBegun == Begun => JobInv
<1> SUFFICES ASSUME Begun PROVE JobInv
  OBVIOUS
<1>1. \A s \in Stages : ~Baton(s) /\ RunsIn(inbox[s]) = {}
  BY Nothing, RunsHeld DEF Begun, Baton, Serving, Called, Fallen, Live, Working
<1>2. ASSUME NEW s \in Stages, Live(s) PROVE \A t \in Stages : ~(t < s)
  BY <1>2, Bounds DEF Begun, Live, Stages
<1>3. OwnPipes
  BY DEF Begun, OwnPipes
<1> QED
  BY <1>1, <1>2, <1>3 DEF JobInv, JobIs, DownOnly, Passed, OwnRun, OwnInbox, Baton

(* No stage takes or sends a batch.                                        *)
LEMMA JobKept ==
  ASSUME JobIs, UNCHANGED <<batch, job>>,
         \A t \in Stages : /\ Live(t)' => Live(t)
                           /\ Serving(t)' => Serving(t)
                           /\ Fallen(t)' => Fallen(t)
                           /\ RunsIn(inbox'[t]) \subseteq RunsIn(inbox[t])
  PROVE  JobIs'
<1>1. \A t \in Stages : (Called(t)' => Called(t)) /\ (Has(t)' => Has(t))
  BY RunsHeld DEF Called, Has
<1>2. DownOnly'
  BY <1>1 DEF JobIs, DownOnly, Baton
<1>3. Passed'
  BY <1>1 DEF JobIs, Passed
<1>4. OwnRun' /\ OwnInbox'
  BY DEF JobIs, OwnRun, OwnInbox
<1> QED
  BY <1>2, <1>3, <1>4 DEF JobIs

LEMMA HeadSent ==
  ASSUME NEW S, NEW q \in Seq(S), NEW d
  PROVE  Head(Append(q, d)) = IF q = <<>> THEN d ELSE Head(q)
<1>1. q \in Seq(S \cup {d}) /\ d \in S \cup {d}
  OBVIOUS
<1> QED
  BY <1>1

LEMMA JobStage ==
  ASSUME VarTypes, TreeInv, OrderInv, BatonInv, BatonInv', GoesDown, IdsPast, JobInv,
         NEW s \in Stages, StageStep(s)
  PROVE  JobInv'
<1>a. /\ batch \in Nat /\ doneQ \in Seq(Token) /\ traceQ \in Seq(Trace)
      /\ \A t \in Stages : t \in Nat
  BY Bounds DEF VarTypes, TypeOK, Batches, Stages
<1>b. StageEffect(s)
  BY StageEffects
<1>c. batch' = batch
  BY <1>b DEF StageEffect
<1>d. \A t \in Stages : Baton(t)' =>
         Baton(t) \/ (~Fallen(t)' /\ \E u \in Stages : u < t /\ Baton(u))
  <2>1. ~SendRun
    BY <1>a, <1>c DEF SendRun
  <2> QED
    BY <2>1 DEF GoesDown
<1>e. DownOnly /\ Passed /\ OwnRun /\ OwnInbox
  BY DEF JobInv, JobIs
(* A stage that forks has the baton, and nobody lives below it.            *)
<1>f. ASSUME Fork(s) PROVE Serving(s) /\ batch # 0 /\ \A t \in Stages : t > s => ~Live(t)
  <2>1. pc[s] = "fork" /\ Live(s) /\ Serving(s) /\ s + 1 \in Stages
    BY <1>f, TerminalOnly DEF Fork, At, Serving, Working
  <2>2. ~Live(s + 1)
    BY <2>1 DEF TreeInv, NoChildWhileBuilding, ChildTracked, HasChild
  <2>3. \A t \in Stages : t > s => t = s + 1 \/ s + 1 < t
    BY <1>a
  <2>4. batch # 0
    BY <2>1 DEF BatonInv, BatonWaits, Baton, IdsPast
  <2> QED
    BY <2>1, <2>2, <2>3, <2>4 DEF OrderInv, LivePrefix
<1>g. \A t \in Stages : Takes(s, t) => t = s /\ Live(s) /\ Has(s) /\ job'[t] = batch
  BY <1>e DEF Takes, OwnInbox, Has
<1>h. \A t \in Stages : job'[t] = job[t] \/ Takes(s, t) \/ (Fork(s) /\ t = s + 1 /\ job'[t] = 0)
  BY <1>b DEF StageEffect
<1>1. ASSUME NEW u \in Stages, Live(u)', Has(u)'
      PROVE  (Live(u) /\ Has(u)) \/ (Serving(s) /\ u = s + 1 /\ Live(u) /\ Called(u)')
  <2>1. CASE batch \in RunsIn(inbox'[u])
    <3>1. \/ batch \in RunsIn(inbox[u]) /\ Live(u)
          \/ Serving(s) /\ u = s + 1 /\ Live(u)
      BY <1>1, <2>1, <1>b DEF StageEffect
    <3>2. Called(u)'
      BY <1>1, <2>1, RunsHeld DEF Called
    <3> QED
      BY <3>1, <3>2 DEF Has
  <2>2. CASE job'[u] = batch
    <3>1. Live(u)
      BY <1>1, <2>2, <1>b, <1>f DEF StageEffect
    <3> QED
      BY <2>2, <3>1, <1>f, <1>g, <1>h DEF Has
  <2> QED
    BY <1>1, <2>1, <2>2, <1>c DEF Has
<1>2. DownOnly'
  <2> SUFFICES ASSUME NEW u \in Stages, NEW t \in Stages, Live(u)', Has(u)', t < u, Baton(t)'
               PROVE  FALSE
    BY DEF DownOnly
  <2>1. CASE Called(u)'
    BY <2>1, <1>a DEF BatonInv, OneBaton, Baton
  <2>2. CASE Live(u) /\ Has(u)
    <3>1. \A v \in Stages : v < u => ~Baton(v)
      BY <2>2, <1>e DEF DownOnly
    <3>2. PICK v \in Stages : (v = t \/ v < t) /\ Baton(v)
      BY <1>d
    <3>3. v < u
      BY <3>2, <1>a
    <3> QED
      BY <3>1, <3>2, <3>3
  <2> QED
    BY <2>1, <2>2, <1>1
<1>3. Passed'
  <2> SUFFICES ASSUME NEW u \in Stages, NEW t \in Stages, t < u,
                      (Live(u)' /\ Has(u)') \/ Fallen(u)'
               PROVE  job'[t] = batch
    BY <1>c DEF Passed
  <2>1. \/ (Live(u) /\ Has(u)) \/ Fallen(u)
        \/ Serving(s) /\ u = s + 1 /\ Live(u)
    <3>1. CASE Fallen(u)'
      <4>1. Baton(u)
        BY <3>1, <1>d DEF Baton
      <4> QED
        BY <4>1, BatonHas DEF JobInv
    <3> QED
      BY <3>1, <1>1
  <2>2. job[t] = batch
    <3>1. CASE Serving(s) /\ u = s + 1
      <4>1. Live(s) /\ Has(s) /\ (t = s \/ t < s)
        BY <3>1, <1>a, <1>e DEF Serving, OwnRun, Has
      <4> QED
        BY <3>1, <4>1, <1>e DEF Passed, OwnRun
    <3> QED
      BY <2>1, <3>1, <1>e DEF Passed
  <2>3. ~(Fork(s) /\ t = s + 1)
    <3> SUFFICES ASSUME Fork(s), t = s + 1 PROVE FALSE
      OBVIOUS
    <3>1. u > s /\ Serving(s) /\ ~Live(u)
      BY <1>a, <1>f
    <3> QED
      BY <2>1, <3>1, <1>a DEF BatonInv, OneBaton, Baton
  <2> QED
    BY <2>2, <2>3, <1>g, <1>h
<1>4. OwnRun'
  <2> SUFFICES ASSUME NEW u \in Stages, Serving(u)' PROVE job'[u] = batch
    BY <1>c DEF OwnRun
  <2>1. Serving(u) \/ Takes(s, u)
    BY <1>b DEF StageEffect
  <2>2. ASSUME Fork(s), u = s + 1 PROVE ~Serving(u)
    BY <2>2, <1>a, <1>f DEF Serving
  <2> QED
    BY <2>1, <2>2, <1>e, <1>g, <1>h, <1>a DEF OwnRun, Takes
<1>5. OwnInbox'
  <2> SUFFICES ASSUME NEW u \in Stages, Live(u)', NEW b \in RunsIn(inbox'[u]) PROVE b = batch
    BY <1>c DEF OwnInbox
  <2>1. (b \in RunsIn(inbox[u]) /\ Live(u)) \/ (Serving(s) /\ b = job[s])
    BY <1>b DEF StageEffect
  <2> QED
    BY <2>1, <1>e DEF OwnInbox, OwnRun
<1>6. OwnPipes'
  <2>1. UNCHANGED <<ppc, token, trace>> /\ Reports(s)
    BY <1>b DEF StageEffect
  <2>2. Serving(s) \/ (s + 1 \in Stages /\ Fallen(s + 1)) => job[s] = batch
    BY <1>a, <1>e DEF OwnRun, Passed
  <2>3. doneQ' = doneQ \/ \E d : d.of = batch /\ doneQ' = Append(doneQ, d)
    BY <2>1, <2>2 DEF Reports
  <2>4. traceQ' = traceQ \/ \E d : d.of = batch /\ traceQ' = Append(traceQ, d)
    BY <2>1, <2>2 DEF Reports
  <2>5. ppc = "wait" /\ doneQ' # <<>> => Head(doneQ').of = batch
    BY <2>3, <1>a, HeadSent DEF JobInv, OwnPipes
  <2>6. ppc = "wait" /\ traceQ' # <<>> => Head(traceQ').of = batch
    BY <2>4, <1>a, HeadSent DEF JobInv, OwnPipes
  <2> QED
    BY <2>1, <2>5, <2>6, <1>c DEF JobInv, OwnPipes
<1> QED
  BY <1>2, <1>3, <1>4, <1>5, <1>6 DEF JobInv, JobIs

LEMMA JobStep ==
  ASSUME VarTypes, TreeInv, OrderInv, BatonInv, BatonInv', GoesDown, TraceInv, IdsPast,
         JobInv, Move
  PROVE  JobInv'
<1>a. /\ batch \in Nat /\ doneQ \in Seq(Token) /\ traceQ \in Seq(Trace)
      /\ inbox \in [Stages -> Seq(Message)] /\ job \in [Stages -> Batches]
      /\ \A t \in Stages : t \in Nat /\ job[t] \in Nat
  BY Bounds DEF VarTypes, TypeOK, Batches, Stages
<1>b. ASSUME UNCHANGED <<life, pc, active, handle, batch, job>>,
             \A t \in Stages : RunsIn(inbox'[t]) \subseteq RunsIn(inbox[t])
      PROVE  JobIs'
  BY <1>b, JobKept DEF JobInv, Live, Serving, Fallen
<1>c. ASSUME ppc' # "wait" PROVE OwnPipes'
  BY <1>c DEF OwnPipes
<1>1. ASSUME NEW s \in Stages, StageStep(s) PROVE JobInv'
  BY <1>1, JobStage
<1>2. ASSUME NEW s \in Stages, Publish(s) PROVE JobInv'
  BY <1>2, <1>b
  DEF Publish, procVars, childVars, pipeVars, parentVars, JobInv, OwnPipes
<1>3. CASE SendRun
  <2>1. /\ ppc = "recv" /\ batch' = batch + 1 /\ Tell(1, Run(batch + 1))
        /\ token' = NoToken /\ trace' = NoTrace /\ batch + 1 \in Batches
        /\ UNCHANGED <<life, pc, job, active, handle, doneQ, traceQ>>
    BY <1>3, <1>a, Bounds DEF SendRun, childVars, pipeVars, Batches
  <2>2. (\A t \in Stages : ~Baton(t)) /\ doneQ = <<>> /\ traceQ = <<>>
    BY <2>1 DEF BatonInv, BatonWaits, DoneOnce, TraceInv
  <2>3. \A t \in Stages : Live(t) => RunsIn(inbox[t]) = {}
    BY <2>2, RunsHeld DEF Baton, Called
  <2>4. ASSUME NEW t \in Stages, NEW b \in RunsIn(inbox'[t])
        PROVE  b \in RunsIn(inbox[t]) \/ (t = 1 /\ b = batch')
    <3>1. inbox'[t] = inbox[t] \/ (t = 1 /\ inbox'[t] = Append(inbox[t], Run(batch + 1)))
      BY <2>1, <1>a DEF Tell
    <3>2. Run(batch + 1) \in Message /\ Run(batch + 1).of = batch'
      BY <2>1, MessageTypes DEF Run
    <3> QED
      BY <2>4, <3>1, <3>2, <1>a, RunsSent
  <2>5. \A t \in Stages : ~Serving(t)' /\ ~Fallen(t)' /\ (Live(t)' <=> Live(t))
    BY <2>1, <2>2 DEF Baton, Serving, Fallen, Live
  <2>6. \A t \in Stages : Live(t)' /\ Has(t)' => t = 1
    <3> SUFFICES ASSUME NEW t \in Stages, Live(t)', Has(t)' PROVE t = 1
      OBVIOUS
    <3>1. job'[t] # batch'
      BY <2>1, <1>a DEF IdsPast
    <3> QED
      BY <2>3, <2>4, <2>5, <3>1 DEF Has
  <2>7. \A t \in Stages : ~(t < 1)
    BY Bounds DEF Stages
  <2>8. OwnInbox'
    BY <2>3, <2>4, <2>5 DEF OwnInbox
  <2> QED
    BY <2>1, <2>2, <2>5, <2>6, <2>7, <2>8
    DEF JobInv, JobIs, DownOnly, Passed, OwnRun, OwnPipes
<1>4. CASE SendTerminate
  <2>1. ppc' # "wait" /\ UNCHANGED <<life, pc, active, handle, batch, job>>
    BY <1>4 DEF SendTerminate, childVars, driverVars
  <2>2. \A t \in Stages : RunsIn(inbox'[t]) \subseteq RunsIn(inbox[t])
    BY <1>4, RunsTold DEF SendTerminate
  <2> QED
    BY <2>1, <2>2, <1>b, <1>c DEF JobInv
<1>d. ASSUME ParentStep PROVE JobIs'
  BY <1>d, <1>b
  DEF ParentStep, ReadDone, ReadTrace, HangUp, Reply, ParentExits, procVars, childVars,
      driverVars
<1>5. CASE ReadDone
  <2>1. /\ ppc = "wait" /\ doneQ # <<>> /\ token' = Head(doneQ) /\ doneQ' = Tail(doneQ)
        /\ UNCHANGED <<traceQ, trace, ppc, batch>>
    BY <1>5 DEF ReadDone, driverVars
  <2>2. doneQ' = <<>>
    BY <2>1, <1>a DEF BatonInv, DoneOnce
  <2>3. OwnPipes'
    BY <2>1, <2>2 DEF JobInv, OwnPipes
  <2> QED
    BY <1>5, <2>3, <1>d DEF ParentStep, JobInv
<1>6. CASE ReadTrace
  <2>1. /\ ppc = "wait" /\ traceQ # <<>> /\ trace' = Head(traceQ) /\ traceQ' = Tail(traceQ)
        /\ UNCHANGED <<doneQ, token, ppc, batch>>
    BY <1>6 DEF ReadTrace, driverVars
  <2>2. traceQ' = <<>>
    BY <2>1, <1>a DEF TraceInv
  <2>3. OwnPipes'
    BY <2>1, <2>2 DEF JobInv, OwnPipes
  <2> QED
    BY <1>6, <2>3, <1>d DEF ParentStep, JobInv
<1>7. CASE HangUp \/ Reply \/ ParentExits
  BY <1>7, <1>c, <1>d DEF HangUp, Reply, ParentExits, ParentStep, JobInv
<1>8. CASE UNCHANGED vars
  BY <1>8, <1>b
  DEF vars, procVars, childVars, pipeVars, parentVars, driverVars, JobInv, OwnPipes
<1> QED
  BY <1>1, <1>2, <1>3, <1>4, <1>5, <1>6, <1>7, <1>8 DEF Move, ParentStep

(* A stage that dies with the batch leaves it to its parent.               *)
LEMMA JobDeath ==
  ASSUME VarTypes, JobInv, NEW s \in Stages, NEW how, Death(s, how), Covered(s), Has(s)
  PROVE  JobInv'
<1>1. UNCHANGED <<pc, inbox, job, active, handle, doneQ, traceQ, ppc, token, trace, batch>>
  BY DEF Death, childVars, pipeVars, parentVars, driverVars
<1>2. \A t \in Stages : Live(t)' <=> Live(t) /\ t < s
  BY AfterDeath DEF Death
<1>3. \A t \in Stages : (Serving(t)' => Serving(t)) /\ (Has(t)' <=> Has(t))
  BY <1>1, <1>2 DEF Serving, Has
<1>4. \A t \in Stages : Baton(t)' => t = s
  BY DeathBaton
<1>5. Live(s) /\ \A t \in Stages : t \in Nat
  BY Bounds DEF Death, Stages
<1>6. DownOnly'
  BY <1>2, <1>4, <1>5 DEF DownOnly
<1>7. Passed'
  BY <1>1, <1>2, <1>3, <1>4, <1>5 DEF JobInv, JobIs, Passed, Baton
<1>8. OwnRun' /\ OwnInbox' /\ OwnPipes'
  BY <1>1, <1>2, <1>3 DEF JobInv, JobIs, OwnRun, OwnInbox, OwnPipes
<1> QED
  BY <1>6, <1>7, <1>8 DEF JobInv, JobIs
---------------------------------------------------------------------------
(* The answer, once it is there.                                           *)
ReplyOwn ==
  reply.of = batch => /\ reply.tokenOf = reply.of /\ reply.traceOf \in {0, reply.of}
                      /\ reply.how = "ok" => reply.traceOf = reply.of

ReplyFine == ReplyOwn /\ AnswerIsFresh

LEMMA StageKeeps ==
  ASSUME VarTypes, NEW s \in Stages, StageStep(s)
  PROVE  /\ UNCHANGED <<file, batch, sentFile, reply, ppc>>
         /\ faults'.threw = 0 => faults.threw = 0
<1>a. /\ faults.threw \in Nat
      /\ faults \in [threw : 0..MaxThrow, nofork : 0..MaxNoFork, crash : 0..MaxCrash]
  BY Bounds DEF VarTypes, TypeOK
<1>1. CASE Throw(s)
  BY <1>1, <1>a DEF Throw, driverVars, parentVars
<1>2. CASE ForkFails(s)
  BY <1>2, <1>a DEF ForkFails, driverVars, parentVars
<1>3. CASE ~Throw(s) /\ ~ForkFails(s)
  <2>1. UNCHANGED <<driverVars, parentVars, faults>>
    BY <1>3
    DEF StageStep, Load, ReceiveRun, ReapIdle, CheckRestart, KillChild, Restarted, CheckReload,
        Stopped, Reload, Compute, RecordChildId, Fork, Done, NotifyChild, Finish,
        ReceiveTerminate, Exit
  <2> QED
    BY <2>1 DEF driverVars, parentVars
<1> QED
  BY <1>1, <1>2, <1>3

(* What run_parent said last stays, unless it says something else.         *)
LEMMA ReplyStays ==
  ASSUME VarTypes, Move
  PROVE  /\ Reply \/ UNCHANGED reply
         /\ \/ UNCHANGED <<batch, sentFile>>
            \/ SendRun
         /\ faults'.threw = 0 => faults.threw = 0
         /\ Over => Over' /\ ~Reply
<1>1. ASSUME NEW s \in Stages, StageStep(s) PROVE UNCHANGED <<batch, sentFile, reply, ppc>>
  BY <1>1, StageKeeps
<1>2. ASSUME NEW s \in Stages, Publish(s)
      PROVE  UNCHANGED <<batch, sentFile, reply, ppc, faults>>
  BY <1>2 DEF Publish, parentVars
<1>3. CASE \E s \in Stages : StageStep(s) \/ Publish(s)
  BY <1>1, <1>2, <1>3, StageKeeps DEF Over, Reply
<1>4. CASE SendRun
  BY <1>4 DEF SendRun, Over, Reply
<1>5. CASE SendTerminate
  BY <1>5 DEF SendTerminate, Over, Reply, driverVars
<1>6. CASE ParentStep
  BY <1>6
  DEF ParentStep, ReadDone, ReadTrace, HangUp, Reply, ParentExits, Over, driverVars
<1>7. CASE UNCHANGED vars
  BY <1>7 DEF vars, parentVars, driverVars, Over, Reply
<1> QED
  BY <1>3, <1>4, <1>5, <1>6, <1>7 DEF Move

LEMMA SentStep ==
  ASSUME VarTypes, SentWasOnDisk, ReplyPast, [Next]_vars
  PROVE  SentWasOnDisk' /\ ReplyPast'
<1>a. /\ file \in [Stages -> Builds] /\ sentFile \in [Stages -> Builds] /\ batch \in Nat
      /\ Builds \subseteq Nat
  BY Bounds DEF VarTypes, TypeOK, Batches, Builds
<1>b. ASSUME UNCHANGED <<file, sentFile, batch, reply>> PROVE SentWasOnDisk' /\ ReplyPast'
  BY <1>b DEF SentWasOnDisk, ReplyPast
<1>1. ASSUME NEW s \in Stages, StageStep(s) PROVE SentWasOnDisk' /\ ReplyPast'
  BY <1>1, <1>b, StageKeeps
<1>2. ASSUME NEW s \in Stages, Crash(s) PROVE SentWasOnDisk' /\ ReplyPast'
  BY <1>2, <1>b DEF Crash, parentVars, driverVars
<1>3. ASSUME NEW s \in Stages, Publish(s) PROVE SentWasOnDisk' /\ ReplyPast'
  <2>1. file' = [file EXCEPT ![s] = @ + 1] /\ UNCHANGED <<sentFile, batch, reply>>
    BY <1>3 DEF Publish, parentVars
  <2>2. \A t \in Stages : file[t] \in Nat /\ sentFile[t] \in Nat
    BY <1>a
  <2>3. SentWasOnDisk'
    BY <2>1, <2>2, <1>a DEF SentWasOnDisk
  <2> QED
    BY <2>1, <2>3 DEF ReplyPast
<1>4. CASE SendRun
  <2>1. batch' = batch + 1 /\ sentFile' = file /\ UNCHANGED <<file, reply>>
    BY <1>4 DEF SendRun
  <2>2. \A t \in Stages : file[t] \in Nat
    BY <1>a
  <2> QED
    BY <2>1, <2>2, <1>a DEF SentWasOnDisk, ReplyPast
<1>5. CASE SendTerminate
  BY <1>5, <1>b DEF SendTerminate, driverVars
<1>6. CASE Reply
  BY <1>6, <1>a DEF Reply, SentWasOnDisk, ReplyPast, driverVars
<1>7. CASE ParentStep /\ ~Reply
  BY <1>7, <1>b
  DEF ParentStep, ReadDone, ReadTrace, HangUp, ParentExits, driverVars
<1>8. CASE UNCHANGED vars
  BY <1>8, <1>b DEF vars, parentVars, driverVars
<1> QED
  BY <1>1, <1>2, <1>3, <1>4, <1>5, <1>6, <1>7, <1>8, MoveOrCrash DEF Move

LEMMA ReplyKept ==
  ASSUME ReplyPast, ReplyFine, UNCHANGED reply, batch \in Nat,
         UNCHANGED <<batch, sentFile>> \/ batch' = batch + 1,
         faults'.threw = 0 => faults.threw = 0
  PROVE  ReplyFine'
<1>1. CASE UNCHANGED <<batch, sentFile>>
  BY <1>1 DEF ReplyFine, ReplyOwn, AnswerIsFresh
<1>2. CASE batch' = batch + 1
  <2>1. reply'.of # batch'
    BY <1>2 DEF ReplyPast
  <2> QED
    BY <2>1 DEF ReplyFine, ReplyOwn, AnswerIsFresh
<1> QED
  BY <1>1, <1>2

LEMMA ReplyIsOwn ==
  ASSUME VarTypes, BatonInv, TraceInv, JobInv, Reply PROVE ReplyOwn'
<1>1. /\ ppc = "wait" /\ token # NoToken /\ UNCHANGED batch
      /\ token.how \in TraceFree \/ trace # NoTrace \/ traceQ = <<>>
      /\ reply' = [of |-> batch, how |-> token.how, tokenOf |-> token.of,
                   traceOf |-> trace.of, vers |-> trace.vers]
  BY DEF Reply, driverVars
<1>2. token.of = batch /\ (trace = NoTrace \/ trace.of = batch)
  BY <1>1 DEF JobInv, OwnPipes
<1>3. token.how = "ok" => trace # NoTrace
  BY <1>1 DEF TraceInv, HasTrace, Success, TraceFree
<1>4. NoTrace.of = 0
  BY DEF NoTrace
<1> QED
  BY <1>1, <1>2, <1>3, <1>4 DEF ReplyOwn
---------------------------------------------------------------------------
(* The driver.  What holds of the tree whatever happens, and what holds as *)
(* long as no stage of this process died late and the process runs.        *)
Always ==
  /\ VarTypes /\ TreeInv /\ OrderInv /\ HeldInv /\ SentWasOnDisk /\ ReplyPast /\ IdsPast

Whole == BatonInv /\ TraceInv /\ FreshInv /\ JobInv

Sound == ReplyFine /\ (~Over => Whole)

RunnerInv ==
  /\ Always
  /\ ~late => Sound
  /\ OwnUnlessLate
  /\ call = "write" => result = NoResult

LEMMA AlwaysMove == Always /\ Move => Always'
  BY MoveIsStep, TypeStep, TreeStep, OrderStep, HeldStep, SentStep, IdsStep DEF Always

LEMMA SoundMove == Always /\ Sound /\ Move => Sound'
<1> SUFFICES ASSUME Always, Sound, Move PROVE Sound'
  OBVIOUS
<1>a. batch \in Nat /\ (SendRun => batch' = batch + 1)
  BY Bounds DEF Always, VarTypes, TypeOK, Batches, SendRun
<1>1. CASE Over
  <2>1. Over' /\ UNCHANGED reply
    BY <1>1, ReplyStays DEF Always
  <2> QED
    BY <2>1, <1>a, ReplyStays, ReplyKept DEF Always, Sound
<1>2. CASE ~Over
  <2>1. BatonInv' /\ GoesDown
    BY <1>2, BatonStep DEF Always, Sound, Whole, BatonNext
  <2>2. TraceInv'
    BY <1>2, TraceStep DEF Always, Sound, Whole
  <2>3. FreshInv'
    BY <1>2, FreshStep, MoveIsStep DEF Always, Sound, Whole
  <2>4. JobInv'
    BY <1>2, <2>1, JobStep DEF Always, Sound, Whole
  <2>5. ReplyFine'
    <3>1. CASE Reply
      BY <1>2, <2>3, <3>1, ReplyIsOwn DEF Always, Sound, Whole, FreshInv, ReplyFine
    <3>2. CASE ~Reply
      BY <3>2, <1>a, ReplyStays, ReplyKept DEF Always, Sound
    <3> QED
      BY <3>1, <3>2
  <2> QED
    BY <2>1, <2>2, <2>3, <2>4, <2>5 DEF Sound, Whole
<1> QED
  BY <1>1, <1>2

(* The death of a stage.                                                   *)
LEMMA AlwaysDeath ==
  ASSUME Always, NEW s \in Stages, NEW how \in Statuses, Death(s, how), DriverTypes',
         faults'.threw = faults.threw
  PROVE  Always'
<1>1. UNCHANGED <<pc, inbox, job, batch, ppc, reply, file, sentFile>>
  BY DEF Death, parentVars, driverVars
<1>2. VarTypes' /\ TreeInv' /\ HeldInv'
  BY TypeDeath, TreeDeath, HeldDeath DEF Always
<1>3. OrderInv'
  BY OrderDeath, <1>1 DEF Always, Death
<1>4. SentWasOnDisk' /\ ReplyPast' /\ IdsPast'
  BY <1>1 DEF Always, SentWasOnDisk, ReplyPast, IdsPast
<1> QED
  BY <1>2, <1>3, <1>4 DEF Always

(* A death that is not late leaves the batch with the parent of the stage. *)
LEMMA TimelyIsCovered ==
  ASSUME VarTypes, Whole, NEW s \in Stages, Live(s), ~Untimely(s)
  PROVE  Covered(s) /\ Has(s)
<1>1. /\ ppc = "wait" /\ token = NoToken /\ trace = NoTrace /\ doneQ = <<>> /\ traceQ = <<>>
      /\ InHand(s)
  BY DEF Untimely
<1>2. Has(s)
  <2>1. inbox[s] \in Seq(Message)
    BY DEF VarTypes, TypeOK
  <2> QED
    BY <1>1, <2>1, RunFor DEF InHand, Has
<1>3. \A t \in Stages : t < s => ~Baton(t)
  BY <1>2 DEF Whole, JobInv, JobIs, DownOnly
<1>4. \A t \in Stages : ~At(t, "done")
  BY <1>1 DEF Whole, TraceInv, HasTrace, Success
<1> QED
  BY <1>1, <1>2, <1>3, <1>4 DEF Covered

LEMMA SoundDeath ==
  ASSUME Always, Sound, NEW s \in Stages, NEW how \in Statuses, Death(s, how), ~Untimely(s),
         faults'.threw = faults.threw
  PROVE  Sound'
<1>1. ~Over /\ UNCHANGED <<batch, sentFile, reply, ppc>> /\ Live(s)
  BY DEF Untimely, Over, Death, parentVars, driverVars
<1>2. Covered(s) /\ Has(s)
  BY <1>1, TimelyIsCovered DEF Always, Sound
<1>3. BatonInv' /\ TraceInv' /\ FreshInv' /\ JobInv'
  BY <1>1, <1>2, BatonDeath, TraceDeath, FreshDeath, JobDeath DEF Always, Sound, Whole
<1>4. ReplyFine'
  BY <1>1, Bounds, ReplyKept DEF Always, Sound, VarTypes, TypeOK, Batches
<1> QED
  BY <1>3, <1>4 DEF Sound, Whole

(* The death of the whole process group.                                   *)
LEMMA AfterTreeDies ==
  ASSUME Always, TreeDies, DriverTypes', faults'.threw = faults.threw
  PROVE  Always' /\ (Sound => Sound')
<1>1. /\ \A s \in Stages : life'[s] = "none" /\ ~Live(s)'
      /\ life' = [s \in Stages |-> "none"] /\ ppc' = "dead"
      /\ UNCHANGED <<status, pc, inbox, job, pluginVars, childVars, pipeVars, token, trace,
                     reply, driverVars>>
  BY DEF TreeDies, Live
<1>2. VarTypes'
  BY <1>1 DEF Always, VarTypes, TypeOK, LoadedPastLoad, DriverTypes, pluginVars, childVars,
              pipeVars
<1>3. TreeInv'
  BY <1>1, RestartIsInner
  DEF Always, TreeInv, TerminalHasNoChild, NoChildWhileBuilding, ForkAfterRun, ChildTracked,
      RecordWasOnDisk, RecordNeverNewer, pluginVars, childVars, driverVars
<1>4. OrderInv'
  BY <1>1 DEF OrderInv, LivePrefix, ToldByParent
<1>5. HeldInv'
  BY <1>1, HeldKept DEF Always, pluginVars
<1>6. SentWasOnDisk' /\ ReplyPast' /\ IdsPast'
  BY <1>1 DEF Always, SentWasOnDisk, ReplyPast, IdsPast, driverVars
<1>7. Sound => Sound'
  BY <1>1, Bounds, ReplyKept
  DEF Always, Sound, Over, VarTypes, TypeOK, Batches, driverVars
<1> QED
  BY <1>2, <1>3, <1>4, <1>5, <1>6, <1>7 DEF Always

(* A new process.                                                          *)
LEMMA AlwaysBegun ==
  Begun /\ DriverTypes /\ SentWasOnDisk /\ ReplyPast => Always /\ Sound
<1> SUFFICES ASSUME Begun, DriverTypes, SentWasOnDisk, ReplyPast PROVE Always /\ Sound
  OBVIOUS
<1>1. Always
  BY TypeBegun, TreeBegun, OrderBegun, HeldBegun, IdsBegun DEF Always
<1>2. Whole
  BY BatonBegun, TraceBegun, FreshBegun, JobBegun DEF Whole
<1>3. ReplyFine
  BY <1>2 DEF Whole, FreshInv, ReplyFine, ReplyOwn, Begun, NoReply
<1> QED
  BY <1>1, <1>2, <1>3 DEF Sound

LEMMA StartsAfresh ==
  ASSUME Always, NewTree, doneQ' = <<>>, traceQ' = <<>>, UNCHANGED <<driverVars, faults>>
  PROVE  Begun' /\ DriverTypes' /\ SentWasOnDisk' /\ ReplyPast'
<1>1. Begun'
  BY DEF NewTree, Begun
<1>2. DriverTypes'
  BY DEF Always, VarTypes, TypeOK, DriverTypes, driverVars
<1>3. SentWasOnDisk' /\ ReplyPast'
  BY Bounds
  DEF Always, NewTree, NoReply, SentWasOnDisk, ReplyPast, VarTypes, TypeOK, Batches, driverVars
<1> QED
  BY <1>1, <1>2, <1>3

(* The deepest process is a stage, if the watchdog sees any.               *)
LEMMA LastOne ==
  ASSUME NEW S, S \subseteq Stages
  PROVE  \E d \in 0..N : (d # 0 => d \in S) /\ \A s \in Stages : s > d => s \notin S
<1>a. N \in Nat /\ Stages = 1..N
  BY Bounds DEF Stages
<1>1. CASE S = {}
  BY <1>1, <1>a
<1>2. CASE S # {}
  <2> DEFINE T == {n \in Nat : \E d \in S : n = N - d}
             R == {p \in Nat \X Nat : p[1] < p[2]}
  <2>1. T \subseteq Nat /\ T # {}
    <3>1. PICK d \in S : TRUE
      BY <1>2
    <3>2. N - d \in Nat
      BY <1>a
    <3> QED
      BY <3>2
  <2>2. IsWellFoundedOn(R, Nat)
    BY NatLessThanWellFounded, Zenon DEF OpToRel
  <2>3. PICK x \in T : \A y \in T : ~ (<<y, x>> \in R)
    <3> HIDE DEF T, R
    <3> QED
      BY <2>1, <2>2, WFMin, Zenon
  <2>4. \A y \in T : ~(y < x)
    BY <2>3
  <2>5. N - x \in S /\ N - x \in 0..N
    BY <1>a
  <2>6. \A s \in Stages : s > N - x => s \notin S
    <3> SUFFICES ASSUME NEW s \in Stages, s > N - x, s \in S PROVE FALSE
      OBVIOUS
    <3>1. N - s \in T /\ N - s < x
      BY <1>a
    <3> QED
      BY <3>1, <2>4
  <2> QED
    BY <2>5, <2>6, <1>a
<1> QED
  BY <1>1, <1>2

LEMMA DeepestIsStage == Observed # "none" => Deepest \in Stages
<1>1. \E d \in 0..N : /\ d # 0 => life[d] # "none"
                      /\ \A s \in Stages : s > d => life[s] = "none"
  <2> DEFINE S == {s \in Stages : life[s] # "none"}
  <2>1. PICK d \in 0..N : (d # 0 => d \in S) /\ \A s \in Stages : s > d => s \notin S
    BY LastOne
  <2> QED
    BY <2>1
<1>2. Deepest \in 0..N
  BY <1>1 DEF Deepest
<1> QED
  BY <1>2, Bounds DEF Observed, Stages
---------------------------------------------------------------------------
LEMMA ResultKept ==
  ASSUME OwnUnlessLate, UNCHANGED <<result, batch, sentFile>>, ~late' => ~late,
         faults'.threw = 0 => faults.threw = 0
  PROVE  OwnUnlessLate'
  BY DEF OwnUnlessLate

LEMMA NoResultYet == ASSUME result'.kind # "line" PROVE OwnUnlessLate'
  BY DEF OwnUnlessLate

LEMMA QuietStep ==
  ASSUME RunnerInv, Move, UNCHANGED late, call' = "write" => result' = NoResult,
         (UNCHANGED result /\ ~SendRun) \/ result'.kind # "line"
  PROVE  RunnerInv'
<1>1. Always' /\ (~late' => Sound')
  BY AlwaysMove, SoundMove DEF RunnerInv
<1>2. OwnUnlessLate'
  BY ReplyStays, ResultKept, NoResultYet DEF RunnerInv, Always
<1> QED
  BY <1>1, <1>2 DEF RunnerInv

LEMMA DeathStep ==
  ASSUME RunnerInv, NEW s \in Stages, NEW how \in Statuses, Death(s, how),
         late' = (late \/ Untimely(s)), DriverTypes', faults'.threw = faults.threw,
         UNCHANGED result, call' # "write"  \/ UNCHANGED call
  PROVE  RunnerInv'
<1>1. Always' /\ (~late' => Sound')
  BY AlwaysDeath, SoundDeath DEF RunnerInv
<1>2. OwnUnlessLate'
  BY ResultKept DEF RunnerInv, Death, driverVars
<1> QED
  BY <1>1, <1>2 DEF RunnerInv

LEMMA GroupStep ==
  ASSUME RunnerInv, TreeDies, DriverTypes', faults'.threw = faults.threw,
         UNCHANGED <<result, call, late>>
  PROVE  RunnerInv'
<1>1. Always' /\ (~late' => Sound')
  BY AfterTreeDies DEF RunnerInv
<1>2. OwnUnlessLate'
  BY ResultKept DEF RunnerInv, TreeDies, driverVars
<1> QED
  BY <1>1, <1>2 DEF RunnerInv

LEMMA RunnerInitInv == RunnerInit => RunnerInv
<1> SUFFICES ASSUME RunnerInit PROVE RunnerInv
  OBVIOUS
<1>1. Always /\ Sound
  BY InitBegins, InitDriver, SentInit, AlwaysBegun DEF RunnerInit
<1>2. OwnUnlessLate /\ call # "write"
  BY DEF RunnerInit, OwnUnlessLate, NoResult
<1> QED
  BY <1>1, <1>2 DEF RunnerInv

LEMMA RunnerStep == RunnerInv /\ [RunnerNext]_allVars => RunnerInv'
<1> SUFFICES ASSUME RunnerInv, [RunnerNext]_allVars PROVE RunnerInv'
  OBVIOUS
<1>a. DriverTypes /\ faults.threw \in Nat /\ VarTypes
  BY Bounds DEF RunnerInv, Always, VarTypes, TypeOK, DriverTypes
<1>b. NoResult.kind = "none"
  BY DEF NoResult
<1>c. ASSUME UNCHANGED vars, UNCHANGED late, call' = "write" => result' = NoResult,
             UNCHANGED result \/ result'.kind # "line"
      PROVE  RunnerInv'
  <2>1. Move
    BY <1>c DEF Move
  <2>2. ~SendRun
    BY <1>c, <1>a, Bounds DEF SendRun, vars, driverVars, DriverTypes, Batches
  <2> QED
    BY <1>c, <2>1, <2>2, QuietStep
<1>d. call = "write" => result = NoResult
  BY DEF RunnerInv
<1>1. CASE Start
  <2>1. CASE Over
    <3>1. /\ call' = "write" /\ result' = NoResult /\ UNCHANGED <<driverVars, faults>>
          /\ NewTree /\ doneQ' = <<>> /\ traceQ' = <<>>
      BY <1>1, <2>1 DEF Start
    <3>2. Begun' /\ DriverTypes' /\ SentWasOnDisk' /\ ReplyPast'
      BY <3>1, StartsAfresh DEF RunnerInv
    <3>3. Always' /\ Sound'
      BY <3>2, AlwaysBegun, PTL
    <3> QED
      BY <3>1, <3>3, <1>b, NoResultYet DEF RunnerInv
  <2>2. CASE ~Over
    BY <1>1, <2>2, <1>b, <1>c DEF Start, vars
  <2> QED
    BY <2>1, <2>2
<1>2. CASE Close
  <2>1. Move /\ UNCHANGED <<late, result>> /\ call' # "write" /\ ~SendRun
    BY <1>2, <1>a, Bounds DEF Close, Move, SendTerminate, SendRun, driverVars, DriverTypes, Batches
  <2> QED
    BY <2>1, QuietStep
<1>3. CASE Write
  <2>1. CASE Over
    <3>1. UNCHANGED vars /\ UNCHANGED late /\ call' = "idle" /\ result'.kind = "raised"
      BY <1>3, <2>1 DEF Write, NoResult
    <3> QED
      BY <3>1, <1>c
  <2>2. CASE ~Over
    <3>1. Move /\ UNCHANGED <<late, result>> /\ call' # "write" /\ result'.kind # "line"
      BY <1>3, <2>2, <1>b, <1>d DEF Write, Move
    <3> QED
      BY <3>1, QuietStep
  <2> QED
    BY <2>1, <2>2
<1>4. CASE Select \/ Watch \/ Closed \/ Rest \/ \E s \in Stages : Hang(s)
  BY <1>4, <1>c, <1>d DEF Select, Watch, AfterEnforce, Closed, Rest, Hang, allVars, runnerVars
<1>5. CASE Expire
  <2>1. /\ phase # "none" /\ phase = Observed /\ UNCHANGED result /\ call' # "write"
        /\ UNCHANGED <<pc, inbox, job, pluginVars, childVars, pipeVars, parentVars, driverVars,
                       faults>>
    BY <1>5 DEF Expire, AfterEnforce
  <2>2. Deepest \in Stages
    BY <2>1, DeepestIsStage
  <2>3. CASE Live(Deepest)
    <3>1. Death(Deepest, "sig") /\ late' = (late \/ Untimely(Deepest))
      BY <1>5, <2>1, <2>3 DEF Expire, Death
    <3>2. DriverTypes'
      BY <2>1, <1>a DEF DriverTypes, driverVars
    <3>3. "sig" \in Statuses
      BY DEF Statuses
    <3> QED
      BY <2>1, <2>2, <3>1, <3>2, <3>3, DeathStep
  <2>4. CASE ~Live(Deepest)
    <3>1. UNCHANGED vars /\ UNCHANGED late
      BY <1>5, <2>1, <2>4 DEF Expire, vars, procVars
    <3> QED
      BY <2>1, <3>1, <1>c
  <2> QED
    BY <2>3, <2>4
<1>6. CASE Read
  <2>1. UNCHANGED vars /\ UNCHANGED late /\ call' = "idle"
    BY <1>6 DEF Read
  <2>2. CASE result'.kind # "line"
    BY <2>1, <2>2, <1>c
  <2>3. CASE result'.kind = "line"
    <3>1. LineWritten /\ result'.line = reply
      BY <1>6, <2>3, <1>b DEF Read, NoResult
    <3>2. Move
      BY <2>1 DEF Move
    <3>3. Always' /\ (~late' => Sound')
      BY <2>1, <3>2, AlwaysMove, SoundMove DEF RunnerInv
    <3>4. UNCHANGED <<reply, batch, sentFile, faults, late>>
      BY <2>1 DEF vars, parentVars, driverVars
    <3>5. OwnUnlessLate'
      BY <3>1, <3>4
      DEF RunnerInv, Sound, ReplyFine, ReplyOwn, AnswerIsFresh, LineWritten, OwnUnlessLate
    <3> QED
      BY <2>1, <3>3, <3>5 DEF RunnerInv
  <2> QED
    BY <2>2, <2>3
<1>7. CASE Escalate
  BY <1>7, <1>a, GroupStep DEF Escalate, TreeDies, DriverTypes, driverVars
<1>8. CASE ParentRuns
  <2>1. Move /\ UNCHANGED <<late, result, call>>
    BY <1>8 DEF ParentRuns, Keep, Move
  <2>2. ~SendRun
    BY <1>8 DEF ParentRuns, ParentStep, ReadDone, ReadTrace, HangUp, Reply, ParentExits, SendRun
  <2> QED
    BY <2>1, <2>2, <1>d, QuietStep
<1>9. CASE OutOfMemory
  <2>1. /\ TreeDies /\ UNCHANGED <<result, call, late>>
        /\ faults.crash < MaxCrash /\ faults' = [faults EXCEPT !.crash = @ + 1]
    BY <1>9 DEF OutOfMemory, Keep
  <2>2. DriverTypes' /\ faults'.threw = faults.threw
    BY <2>1, <1>a, FaultTypes DEF TreeDies, DriverTypes, driverVars, VarTypes
  <2> QED
    BY <2>1, <2>2, GroupStep
<1>10. ASSUME NEW s \in Stages, StageRuns(s) PROVE RunnerInv'
  <2>1. Move /\ StageStep(s) /\ UNCHANGED <<late, result, call>>
    BY <1>10 DEF StageRuns, Keep, Move
  <2>2. UNCHANGED batch
    BY <2>1, <1>a, StageKeeps
  <2>3. ~SendRun
    BY <2>2, <1>a, Bounds DEF SendRun, DriverTypes, Batches
  <2> QED
    BY <2>1, <2>3, <1>d, QuietStep
<1>11. ASSUME NEW s \in Stages, StageDies(s) PROVE RunnerInv'
  <2>1. /\ Crash(s) /\ late' = (late \/ Untimely(s)) /\ UNCHANGED <<result, call>>
        /\ faults.crash < MaxCrash /\ faults' = [faults EXCEPT !.crash = @ + 1]
    BY <1>11 DEF StageDies, Keep, Crash
  <2>2. PICK how \in Statuses : Death(s, how)
    BY <2>1, <1>a, CrashIsDeath
  <2>3. DriverTypes' /\ faults'.threw = faults.threw
    BY <2>1, <2>2, <1>a, FaultTypes DEF Death, DriverTypes, driverVars, VarTypes
  <2> QED
    BY <2>1, <2>2, <2>3, DeathStep
<1>12. ASSUME NEW s \in Stages, Published(s) PROVE RunnerInv'
  <2>1. Move /\ UNCHANGED <<late, result, call, batch>>
    BY <1>12 DEF Published, Keep, Move, Publish
  <2>2. ~SendRun
    BY <2>1, <1>a, Bounds DEF SendRun, DriverTypes, Batches
  <2> QED
    BY <2>1, <2>2, <1>d, QuietStep
<1>13. CASE UNCHANGED allVars
  BY <1>13, <1>c, <1>d DEF allVars, runnerVars
<1> QED
  BY <1>1, <1>2, <1>3, <1>4, <1>5, <1>6, <1>7, <1>8, <1>9, <1>10, <1>11, <1>12, <1>13
  DEF RunnerNext, DriverStep

(* A response that HotpatchProc.run parsed belongs to its own run, and a   *)
(* good one was computed by the plugins on disk when the run was sent (as  *)
(* long as no callback threw), for any number of stages, whatever hung,    *)
(* died, was killed by the watchdog or the OOM killer, or was started      *)
(* again: unless a stage of the process died with no run in hand.  Nothing *)
(* is assumed of the deaths.                                               *)
THEOREM RunnerAnswersItsOwn == RunnerSpec => []OwnUnlessLate
<1>1. RunnerInv => OwnUnlessLate
  BY DEF RunnerInv
<1> QED
  BY RunnerInitInv, RunnerStep, <1>1, PTL DEF RunnerSpec
---------------------------------------------------------------------------
(* The driver keeps the protocol.  Where it is and where run_parent is     *)
(* agree: a request is only sent to a process that waits for one, and what *)
(* select found is still there when it is read.                            *)
InRun == {"select", "enforce", "read"}

StepInv ==
  /\ call \in {"idle", "write", "closing"} \cup InRun /\ late \in BOOLEAN /\ killed \in BOOLEAN
  /\ reply.vers \in Value
  /\ call \in {"idle", "write"} => ppc \in {"recv", "gone", "dead"}
  /\ call = "closing" => ppc \in {"reap", "gone", "dead"}
  /\ call \in InRun => ppc # "reap"
  /\ ppc = "wait" => ~LineWritten
  /\ ready => call = "enforce"
  /\ ready \/ call = "read" => LineWritten \/ Over

DriverInv == RunnerInv /\ StepInv

(* The process goes on while the driver stays where it is.                 *)
LEMMA MoveInStep ==
  ASSUME DriverInv, Move, ~SendRun, ~SendTerminate, UNCHANGED <<call, ready, killed, late>>
  PROVE  StepInv' /\ (ppc' = ppc \/ Over' \/ (Reply /\ call \in InRun))
<1>1. VarTypes /\ UNCHANGED batch /\ (Reply \/ UNCHANGED reply) /\ (Over => Over')
  BY ReplyStays DEF DriverInv, RunnerInv, Always
<1>2. \/ UNCHANGED ppc
      \/ ppc = "wait" /\ ppc' = "dead"
      \/ ppc = "reap" /\ ppc' = "gone"
      \/ Reply /\ ppc = "wait" /\ ppc' = "recv" /\ reply'.of = batch
  <2>1. ASSUME NEW s \in Stages, StageStep(s) PROVE UNCHANGED ppc
    BY <1>1, <2>1, StageKeeps
  <2>2. ASSUME NEW s \in Stages, Publish(s) PROVE UNCHANGED ppc
    BY <2>2 DEF Publish, parentVars
  <2>3. CASE ParentStep
    BY <2>3 DEF ParentStep, ReadDone, ReadTrace, HangUp, Reply, ParentExits
  <2>4. CASE UNCHANGED vars
    BY <2>4 DEF vars, parentVars
  <2> QED
    BY <2>1, <2>2, <2>3, <2>4 DEF Move
<1>3. Reply => /\ ppc = "wait" /\ ppc' = "recv" /\ reply'.of = batch
               /\ reply'.vers \in Value
  BY <1>1 DEF Reply, VarTypes, TypeOK, Trace
<1>4. ppc = "wait" => call \in InRun
  BY DEF DriverInv, StepInv
<1> QED
  BY <1>1, <1>2, <1>3, <1>4 DEF DriverInv, StepInv, LineWritten, Over, InRun

LEMMA SameInStep ==
  ASSUME StepInv, UNCHANGED <<call, ready, killed, reply, batch>>, UNCHANGED ppc \/ ppc' = "dead",
         late' \in BOOLEAN
  PROVE  StepInv'
  BY DEF StepInv, LineWritten, Over, InRun

(* The steps of the driver.                                                *)
LEMMA CallInStep ==
  ASSUME DriverInv,
         \/ Start \/ Close \/ Write \/ Select \/ Watch \/ Expire \/ Read \/ Escalate \/ Closed
  PROVE  StepInv'
<1>a. /\ reply.of \in Nat /\ reply.of <= batch /\ batch \in Nat
      /\ ppc \in {"recv", "wait", "reap", "gone", "dead"}
  BY Bounds DEF DriverInv, RunnerInv, Always, ReplyPast, VarTypes, TypeOK, Batches
<1>b. NoReply.vers \in Value
  BY ValueTypes DEF NoReply
<1>1. CASE Start
  BY <1>1, <1>b DEF DriverInv, StepInv, Start, NewTree, Over, LineWritten, InRun, parentVars, driverVars
<1>2. CASE Close
  BY <1>2 DEF DriverInv, StepInv, Close, SendTerminate, Over, LineWritten, InRun, driverVars
<1>3. CASE Write
  BY <1>3, <1>a
  DEF DriverInv, StepInv, Write, SendRun, Over, LineWritten, InRun, vars, parentVars
<1>4. CASE Select
  BY <1>4
  DEF DriverInv, StepInv, Select, Over, LineWritten, InRun, vars, parentVars, driverVars
<1>5. CASE Watch
  BY <1>5
  DEF DriverInv, StepInv, Watch, AfterEnforce, Over, LineWritten, InRun, vars, parentVars,
      driverVars
<1>6. CASE Expire
  BY <1>6
  DEF DriverInv, StepInv, Expire, AfterEnforce, Over, LineWritten, InRun, parentVars, driverVars
<1>7. CASE Read
  <2>1. /\ call = "read" /\ call' = "idle"
        /\ killed' = FALSE /\ UNCHANGED <<ppc, reply, batch, ready, late>>
    BY <1>7 DEF Read, vars, parentVars, driverVars
  <2>2. ~ready /\ ~ready'
    BY <2>1 DEF DriverInv, StepInv
  <2> QED
    BY <2>1, <2>2, <1>a DEF DriverInv, StepInv, Over, LineWritten, InRun
<1>8. CASE Escalate
  BY <1>8 DEF DriverInv, StepInv, Escalate, TreeDies, Over, LineWritten, InRun
<1>9. CASE Closed
  BY <1>9 DEF DriverInv, StepInv, Closed, Over, LineWritten, InRun, vars, parentVars, driverVars
<1> QED
  BY <1>1, <1>2, <1>3, <1>4, <1>5, <1>6, <1>7, <1>8, <1>9

(* What the processes do while the driver stays where it is: the same      *)
(* three cases for the invariant and for the mapping.                      *)
TreeMoves == Move /\ ~SendRun /\ ~SendTerminate /\ UNCHANGED late
TreeFalls == TreeDies /\ faults'.threw = faults.threw /\ UNCHANGED late
StageFalls == UNCHANGED <<parentVars, driverVars>> /\ faults'.threw = faults.threw
              /\ late' \in {late, TRUE}

LEMMA TreeSteps ==
  ASSUME DriverInv, [RunnerNext]_allVars
  PROVE  \/ Start \/ Close \/ DriverStep
         \/ /\ TreeMoves \/ TreeFalls \/ StageFalls
            /\ UNCHANGED <<call, ready, killed, result>>
<1>a. /\ VarTypes /\ DriverTypes /\ late \in BOOLEAN
      /\ batch \in Nat /\ faults.threw \in Nat
      /\ faults \in [threw : 0..MaxThrow, nofork : 0..MaxNoFork, crash : 0..MaxCrash]
  BY Bounds
  DEF DriverInv, RunnerInv, StepInv, Always, VarTypes, TypeOK, DriverTypes, Batches
<1>b. /\ SendRun => batch' # batch /\ ppc = "recv" /\ ppc' \in {"wait", "dead"}
      /\ SendTerminate => ppc = "recv" /\ ppc' \in {"reap", "dead"}
  BY <1>a DEF SendRun, SendTerminate
<1>c. CASE UNCHANGED allVars \/ Rest \/ \E s \in Stages : Hang(s)
  <2>1. UNCHANGED <<vars, late, call, ready, killed, result>>
    BY <1>c DEF Rest, Hang, allVars, runnerVars
  <2>2. UNCHANGED <<batch, ppc>>
    BY <2>1 DEF vars, driverVars, parentVars
  <2> QED
    BY <2>1, <2>2, <1>b DEF TreeMoves, Move
<1>1. CASE ParentRuns
  <2>1. ParentStep /\ UNCHANGED <<late, call, ready, killed, result>>
    BY <1>1 DEF ParentRuns, Keep
  <2>2. ~SendRun /\ ~SendTerminate
    BY <2>1, <1>b DEF ParentStep, ReadDone, ReadTrace, HangUp, Reply, ParentExits
  <2> QED
    BY <2>1, <2>2 DEF TreeMoves, Move
<1>2. CASE OutOfMemory
  <2>1. /\ TreeDies /\ UNCHANGED <<late, call, ready, killed, result>>
        /\ faults' = [faults EXCEPT !.crash = @ + 1]
    BY <1>2 DEF OutOfMemory, Keep
  <2>2. faults'.threw = faults.threw
    BY <2>1, <1>a
  <2> QED
    BY <2>1, <2>2 DEF TreeFalls
<1>3. ASSUME NEW s \in Stages, StageRuns(s)
      PROVE  TreeMoves /\ UNCHANGED <<call, ready, killed, result>>
  <2>1. StageStep(s) /\ UNCHANGED <<late, call, ready, killed, result>>
    BY <1>3 DEF StageRuns, Keep
  <2>2. UNCHANGED <<batch, ppc>>
    BY <2>1, <1>a, StageKeeps
  <2> QED
    BY <2>1, <2>2, <1>b DEF TreeMoves, Move
<1>4. ASSUME NEW s \in Stages, StageDies(s)
      PROVE  StageFalls /\ UNCHANGED <<call, ready, killed, result>>
  <2>1. /\ Crash(s) /\ late' = (late \/ Untimely(s)) /\ UNCHANGED <<call, ready, killed, result>>
        /\ faults' = [faults EXCEPT !.crash = @ + 1]
    BY <1>4 DEF StageDies, Keep, Crash
  <2>2. UNCHANGED <<parentVars, driverVars>>
    BY <2>1 DEF Crash
  <2>3. faults'.threw = faults.threw
    BY <2>1, <1>a
  <2> QED
    BY <2>1, <2>2, <2>3, <1>a DEF StageFalls
<1>5. ASSUME NEW s \in Stages, Published(s)
      PROVE  TreeMoves /\ UNCHANGED <<call, ready, killed, result>>
  <2>1. Publish(s) /\ UNCHANGED <<late, call, ready, killed, result>>
    BY <1>5 DEF Published, Keep
  <2>2. UNCHANGED <<batch, ppc>>
    BY <2>1 DEF Publish, parentVars
  <2> QED
    BY <2>1, <2>2, <1>b DEF TreeMoves, Move
<1> QED
  BY <1>c, <1>1, <1>2, <1>3, <1>4, <1>5 DEF RunnerNext

LEMMA DriverStepInv == DriverInv /\ [RunnerNext]_allVars => DriverInv'
<1> SUFFICES ASSUME DriverInv, [RunnerNext]_allVars PROVE DriverInv'
  OBVIOUS
<1>1. RunnerInv'
  BY RunnerStep DEF DriverInv
<1>2. CASE Start \/ Close \/ DriverStep
  BY <1>1, <1>2, CallInStep DEF DriverInv, DriverStep
<1>3. CASE /\ TreeMoves \/ TreeFalls \/ StageFalls
           /\ UNCHANGED <<call, ready, killed, result>>
  <2>1. CASE TreeMoves
    BY <1>1, <1>3, <2>1, MoveInStep DEF DriverInv, TreeMoves
  <2>2. CASE TreeFalls
    BY <1>1, <1>3, <2>2, SameInStep DEF DriverInv, StepInv, TreeFalls, TreeDies, driverVars
  <2>3. CASE StageFalls
    BY <1>1, <1>3, <2>3, SameInStep DEF DriverInv, StepInv, StageFalls, parentVars, driverVars
  <2> QED
    BY <1>3, <2>1, <2>2, <2>3
<1> QED
  BY <1>2, <1>3, TreeSteps

LEMMA DriverInitInv == RunnerInit => DriverInv
<1> SUFFICES ASSUME RunnerInit PROVE DriverInv
  OBVIOUS
<1>1. RunnerInv
  BY RunnerInitInv
<1>2. /\ call = "idle" /\ ppc = "recv" /\ ready = FALSE /\ killed = FALSE /\ late = FALSE
      /\ reply.vers \in Value
  BY ValueTypes DEF RunnerInit, Init, NoReply
<1> QED
  BY <1>1, <1>2 DEF DriverInv, StepInv, InRun
---------------------------------------------------------------------------
(* The mapping.                                                            *)
LEMMA StartMaps == ASSUME DriverInv, Start PROVE Protocol!Ask
<1>a. NoResult.kind = "none"
  BY DEF NoResult
<1>1. /\ call = "idle" /\ call' = "write" /\ result'.kind = "none"
      /\ UNCHANGED <<file, batch, sentFile, faults, killed>>
      /\ Over => ppc' = "recv" /\ late' = FALSE
      /\ ~Over => UNCHANGED <<ppc, late>>
  BY <1>a DEF Start, NewTree, driverVars, parentVars
<1>2. Phase = "idle" /\ Phase' = "asked"
  BY <1>1 DEF Phase
<1>3. Process # "busy" /\ Process' = "free" /\ (Process = "down" <=> Over)
  BY <1>1 DEF Process, Over, DriverInv, StepInv
<1>4. late' = (Process # "down" /\ late)
  BY <1>1, <1>3 DEF DriverInv, StepInv
<1> QED
  BY <1>1, <1>2, <1>3, <1>4 DEF Protocol!Ask

LEMMA WriteMaps == ASSUME DriverInv, Write PROVE Protocol!Raised \/ Protocol!Send
<1>1. CASE Over
  <2>1. /\ call = "write" /\ call' = "idle" /\ result'.kind = "raised"
        /\ UNCHANGED <<file, batch, sentFile, faults, killed, late, ppc>>
    BY <1>1 DEF Write, NoResult, vars, driverVars, parentVars
  <2>2. Phase = "asked" /\ Phase' = "idle" /\ Process = "down" /\ UNCHANGED Process
    BY <2>1, <1>1 DEF Phase, Process, Over
  <2> QED
    BY <2>1, <2>2 DEF Protocol!Raised, Protocol!Returns
<1>2. CASE ~Over
  <2>1. /\ call = "write" /\ call' = "select" /\ ppc = "recv" /\ ppc' \in {"wait", "dead"}
        /\ batch' = batch + 1 /\ sentFile' = file
        /\ UNCHANGED <<file, faults, killed, late, result>>
    BY <1>2 DEF Write, SendRun
  <2>2. /\ Phase = "asked" /\ Phase' = "sent"
        /\ Process = "free" /\ Process' \in {"busy", "down"}
    BY <2>1 DEF Phase, Process, Over
  <2> QED
    BY <2>1, <2>2 DEF Protocol!Send
<1> QED
  BY <1>1, <1>2

LEMMA ReadMaps ==
  ASSUME DriverInv, Read PROVE Protocol!Answered \/ Protocol!TimedOut \/ Protocol!Exited
<1>1. /\ call = "read" /\ call' = "idle" /\ killed' = FALSE
      /\ UNCHANGED <<file, batch, sentFile, faults, late, ppc>>
      /\ ppc # "reap" /\ (LineWritten => ppc # "wait") /\ (LineWritten \/ Over)
      /\ ppc \in {"recv", "wait", "reap", "gone", "dead"}
  BY DEF Read, vars, driverVars, parentVars, DriverInv, StepInv, InRun, RunnerInv, Always,
         VarTypes, TypeOK
<1>2. Phase = "sent" /\ Phase' = "idle" /\ Process # "busy" /\ UNCHANGED Process
  BY <1>1 DEF Phase, Process, Over
<1>3. CASE ~LineWritten
  <2>1. result'.kind = "exited" /\ Process = "down"
    BY <1>1, <1>3 DEF Read, NoResult, Process
  <2> QED
    BY <1>1, <1>2, <2>1 DEF Protocol!Exited, Protocol!Returns
<1>4. CASE LineWritten /\ killed
  <2>1. result'.kind = "timeout"
    BY <1>4 DEF Read, NoResult
  <2> QED
    BY <1>1, <1>2, <1>4, <2>1 DEF Protocol!TimedOut, Protocol!Returns
<1>5. CASE LineWritten /\ ~killed
  <2>1. result'.kind = "line" /\ result'.line = reply /\ reply.of = batch
    BY <1>5 DEF Read, LineWritten
  <2>2. ASSUME ~late PROVE Protocol!Proper(reply)
    <3>1. ReplyFine /\ reply.of = batch
      BY <2>1, <2>2 DEF DriverInv, RunnerInv, Sound
    <3>2. Len(reply.vers) = N => DOMAIN reply.vers = Stages
      BY DEF DriverInv, StepInv, Value, Stages
    <3> QED
      BY <3>1, <3>2 DEF ReplyFine, ReplyOwn, AnswerIsFresh, Protocol!Proper
  <2>3. killed = FALSE
    BY <1>5 DEF DriverInv, StepInv
  <2> QED
    BY <1>1, <1>2, <1>5, <2>1, <2>2, <2>3 DEF Protocol!Answered, Protocol!Returns
<1> QED
  BY <1>3, <1>4, <1>5

LEMMA CloseMaps == ASSUME DriverInv, Close PROVE Protocol!Close
<1>1. /\ call = "idle" /\ call' = "closing" /\ ppc = "recv" /\ ppc' \in {"reap", "dead"}
      /\ UNCHANGED <<file, batch, sentFile, faults, killed, late, result>>
  BY DEF Close, SendTerminate, driverVars
<1>2. /\ Phase = "idle" /\ Phase' = "closing"
      /\ Process = "free" /\ Process' \in {"busy", "down"}
  BY <1>1 DEF Phase, Process, Over
<1> QED
  BY <1>1, <1>2 DEF Protocol!Close

LEMMA ClosedMaps == ASSUME Closed PROVE Protocol!Closed
<1>1. /\ call = "closing" /\ call' = "idle" /\ Over
      /\ UNCHANGED <<file, batch, sentFile, faults, killed, late, result, ppc>>
  BY DEF Closed, vars, driverVars, parentVars
<1>2. Phase = "closing" /\ Phase' = "idle" /\ Process = "down" /\ UNCHANGED Process
  BY <1>1 DEF Phase, Process, Over
<1> QED
  BY <1>1, <1>2 DEF Protocol!Closed

LEMMA LookMaps == ASSUME Select \/ Watch PROVE UNCHANGED Protocol!vars
<1>1. /\ {call, call'} \subseteq InRun
      /\ UNCHANGED <<file, batch, sentFile, faults, killed, late, result, ppc>>
  BY DEF Select, Watch, AfterEnforce, vars, driverVars, parentVars, InRun
<1>2. UNCHANGED Phase /\ UNCHANGED Process
  BY <1>1 DEF Phase, Process, Over, InRun
<1> QED
  BY <1>1, <1>2 DEF Protocol!vars

LEMMA ExpireMaps == ASSUME DriverInv, Expire PROVE Protocol!Kill
<1>1. /\ {call, call'} \subseteq InRun /\ ~killed /\ killed' = TRUE
      /\ late' \in {late, TRUE}
      /\ UNCHANGED <<file, batch, sentFile, faults, result, ppc>>
  BY DEF Expire, AfterEnforce, driverVars, parentVars, InRun, DriverInv, StepInv
<1>2. Phase = "sent" /\ UNCHANGED Phase /\ UNCHANGED Process
  BY <1>1 DEF Phase, Process, Over, InRun
<1> QED
  BY <1>1, <1>2 DEF Protocol!Kill

(* The processes, while the driver stays where it is.                      *)
LEMMA FallMaps ==
  ASSUME TreeDies, faults'.threw = faults.threw, UNCHANGED <<late, call, killed, result>>
  PROVE  Protocol!Die \/ UNCHANGED Protocol!vars
<1>1. /\ UNCHANGED <<file, batch, sentFile>> /\ UNCHANGED Phase
      /\ (faults'.threw # 0) = (faults.threw # 0)
  BY DEF TreeDies, driverVars, Phase
<1>2. Process' = "down"
  BY DEF TreeDies, Process, Over
<1> QED
  BY <1>1, <1>2 DEF Protocol!Die, Protocol!vars

LEMMA TroubleMaps ==
  ASSUME UNCHANGED <<ppc, driverVars, call, killed, result>>, late' \in {late, TRUE},
         faults'.threw = 0 => faults.threw = 0
  PROVE  Protocol!Trouble
<1>1. UNCHANGED Phase /\ UNCHANGED Process
  BY DEF Phase, Process, Over
<1>2. (faults'.threw # 0) \in {(faults.threw # 0), TRUE}
  OBVIOUS
<1> QED
  BY <1>1, <1>2 DEF Protocol!Trouble, driverVars

LEMMA ParentMaps ==
  ASSUME DriverInv, ParentStep, UNCHANGED <<late, call, killed, result>>
  PROVE  Protocol!Next \/ UNCHANGED Protocol!vars
<1>1. UNCHANGED driverVars /\ UNCHANGED faults /\ UNCHANGED Phase
  BY DEF ParentStep, ReadDone, ReadTrace, HangUp, Reply, ParentExits, Phase
<1>2. CASE Reply
  <2>1. ppc = "wait" /\ ppc' = "recv"
    BY <1>2 DEF Reply
  <2>2. Phase = "sent" /\ Process = "busy" /\ Process' = "free"
    BY <2>1 DEF DriverInv, StepInv, Phase, Process, Over, InRun
  <2> QED
    BY <1>1, <2>2 DEF Protocol!Next, Protocol!Finish, driverVars
<1>3. CASE HangUp \/ ParentExits
  <2>1. Process # "down" /\ Process' = "down"
    BY <1>3 DEF HangUp, ParentExits, Process, Over
  <2> QED
    BY <1>1, <2>1 DEF Protocol!Next, Protocol!Die, driverVars
<1>4. CASE ReadDone \/ ReadTrace
  <2>1. UNCHANGED ppc
    BY <1>4 DEF ReadDone, ReadTrace
  <2> QED
    BY <1>1, <2>1, TroubleMaps DEF Protocol!Next
<1> QED
  BY <1>2, <1>3, <1>4 DEF ParentStep

LEMMA MoveMaps ==
  ASSUME DriverInv, TreeMoves, UNCHANGED <<call, killed, result>>
  PROVE  Protocol!Next \/ UNCHANGED Protocol!vars
<1>1. ASSUME NEW s \in Stages, StageStep(s) PROVE Protocol!Trouble
  <2>1. UNCHANGED <<driverVars, ppc>> /\ (faults'.threw = 0 => faults.threw = 0)
    BY <1>1, StageKeeps DEF DriverInv, RunnerInv, Always, driverVars
  <2> QED
    BY <2>1, TroubleMaps DEF TreeMoves
<1>2. ASSUME NEW s \in Stages, Publish(s) PROVE Protocol!Publish
  <2>1. /\ file' = [file EXCEPT ![s] = @ + 1]
        /\ UNCHANGED <<batch, sentFile, faults, ppc, late>>
    BY <1>2 DEF Publish, parentVars, TreeMoves
  <2>2. UNCHANGED Phase /\ UNCHANGED Process
    BY <2>1 DEF Phase, Process, Over
  <2> QED
    BY <2>1, <2>2 DEF Protocol!Publish
<1>3. CASE ParentStep
  BY <1>3, ParentMaps DEF TreeMoves
<1>4. CASE UNCHANGED vars
  BY <1>4, TroubleMaps DEF vars, parentVars, TreeMoves, Protocol!Next
<1> QED
  BY <1>1, <1>2, <1>3, <1>4 DEF TreeMoves, Move, Protocol!Next

LEMMA RunnerMaps == DriverInv /\ [RunnerNext]_allVars => [Protocol!Next]_(Protocol!vars)
<1> SUFFICES ASSUME DriverInv, [RunnerNext]_allVars
             PROVE  Protocol!Next \/ UNCHANGED Protocol!vars
  OBVIOUS
<1>1. CASE Start \/ Close
  BY <1>1, StartMaps, CloseMaps DEF Protocol!Next
<1>2. CASE DriverStep
  <2>1. CASE Escalate
    BY <2>1, FallMaps DEF Escalate, Protocol!Next
  <2>2. CASE Write \/ Select \/ Watch \/ Expire \/ Read \/ Closed
    BY <2>2, WriteMaps, LookMaps, ExpireMaps, ReadMaps, ClosedMaps DEF Protocol!Next
  <2> QED
    BY <1>2, <2>1, <2>2 DEF DriverStep
<1>3. CASE TreeMoves /\ UNCHANGED <<call, ready, killed, result>>
  BY <1>3, MoveMaps
<1>4. CASE TreeFalls /\ UNCHANGED <<call, ready, killed, result>>
  BY <1>4, FallMaps DEF TreeFalls, Protocol!Next
<1>5. CASE StageFalls /\ UNCHANGED <<call, ready, killed, result>>
  BY <1>5, TroubleMaps DEF StageFalls, parentVars, Protocol!Next
<1> QED
  BY <1>1, <1>2, <1>3, <1>4, <1>5, TreeSteps

LEMMA RunnerInitMaps == RunnerInit => Protocol!Init
<1> SUFFICES ASSUME RunnerInit PROVE Protocol!Init
  OBVIOUS
<1>1. /\ call = "idle" /\ ppc = "recv" /\ killed = FALSE /\ late = FALSE /\ batch = 0
      /\ sentFile = file /\ faults.threw = 0 /\ result.kind = "none"
  BY DEF RunnerInit, Init, NoResult
<1>2. Phase = "idle" /\ Process = "free"
  BY <1>1 DEF Phase, Process, Over
<1> QED
  BY <1>1, <1>2 DEF Protocol!Init

(* HotpatchProc keeps the protocol of a request and its one answer, for    *)
(* any number of stages and any trouble: every step of the driver, of the  *)
(* processes and of the compiler is a step of RunProtocol or a stutter.    *)
THEOREM RunnerImplementsProtocol == RunnerSpec => KeepsProtocol
  BY DriverInitInv, DriverStepInv, RunnerInitMaps, RunnerMaps, PTL
  DEF RunnerSpec, KeepsProtocol, Protocol!Spec
===========================================================================
