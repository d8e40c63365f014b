--------------------------- MODULE HotpatchRunner ---------------------------
(***************************************************************************)
(* The process driver of cpp_runner composed with the process tree it      *)
(* drives: HotpatchProc (hotpatch/hotpatch_proc.py) and the watchdog of a  *)
(* run, ProcTreeTimeoutKiller (utils/proc_utils.py).  run() starts the     *)
(* process if there is none, writes a RUN, and loops over select, enforce  *)
(* and read until it has a response line or the end of the pipe.  The      *)
(* watchdog kills the deepest process of the tree when the stage it        *)
(* watches has overrun its deadline.                                       *)
(*                                                                         *)
(* The tree is that of HotpatchPipeline.  What is added to it here is the  *)
(* driver, plugin code that never returns, and the death of the whole      *)
(* process group.                                                          *)
(***************************************************************************)
EXTENDS HotpatchPipeline

CONSTANTS
  MaxTrouble, \* bound: hangs, deaths and OOM kills together
  HangAt,     \* the phases in which plugin code runs: "load", "reload", "compute"
  Republished \* bound: the stages whose plugin is published again

ASSUME RunnerAssumption ==
  /\ MaxTrouble \in Nat
  /\ HangAt \subseteq {"load", "reload", "compute"}
  /\ Republished \subseteq Stages

VARIABLES
  call,     \* where the driver is; "closing" is terminate, the rest run
  ready,    \* the last select returned the response pipe
  phase,    \* ProcTreeTimeoutKiller.phase, "none" while no timer runs
  killed,   \* ProcTreeTimeoutKiller.killed
  result,   \* what the last run() returned
  stuck,    \* live stages whose plugin code will not return
  hangs,    \* how many there have been
  late      \* history: a stage of this process died without a run in hand

runnerVars == <<call, ready, phase, killed, result, stuck, hangs, late>>
allVars    == <<vars, runnerVars>>

NoResult == [kind |-> "none", line |-> NoReply]

RunnerInit ==
  /\ Init
  /\ call = "idle" /\ ready = FALSE /\ phase = "none" /\ killed = FALSE
  /\ result = NoResult
  /\ stuck = {} /\ hangs = 0 /\ late = FALSE
---------------------------------------------------------------------------
(* The tree, seen from outside.                                            *)

\* _rightmost_descendant: every process has at most one child, a zombie
\* counts, so the deepest stage there is.
Deepest == CHOOSE d \in 0..N : /\ d # 0 => life[d] # "none"
                               /\ \A s \in Stages : s > d => life[s] = "none"

\* Bug variant of Observed: without a deadline for the build stages.
QueryOnly == IF Deepest >= N THEN "query" ELSE "none"

\* _active_stage with a query timeout set.
Observed == IF Deepest >= N THEN "query" ELSE IF Deepest >= 1 THEN "build" ELSE "none"

Over == ppc \in {"gone", "dead"}

\* The response line of this run is in the pipe.
LineWritten == reply.of = batch

\* A run is in the hands of stage s, or on its way to it.
InHand(s) == job[s] = batch \/ \E i \in DOMAIN inbox[s] : inbox[s][i] = Run(batch)

\* The death of s now is not that of a stage serving the run: its batch has
\* produced a token or a trace already, or has not come to s yet.
Untimely(s) ==
  \/ ppc # "wait" \/ token # NoToken \/ trace # NoTrace
  \/ doneQ # <<>> \/ traceQ # <<>>
  \/ ~InHand(s)

\* SIGKILL to the process group of db: killpg, or an OOM kill of the cgroup.
TreeDies ==
  /\ life' = [s \in Stages |-> "none"]
  /\ ppc' = "dead"
  /\ UNCHANGED <<status, pc, inbox, job, pluginVars, childVars, pipeVars, token, trace,
                 reply, driverVars>>

\* A stage that died is not stuck any more.
Unstick == stuck' = {s \in stuck : life'[s] = "live"}
---------------------------------------------------------------------------
(* run().                                                                  *)

\* A new db process: its first stage is forked and has read nothing.
NewTree ==
  /\ life'   = [s \in Stages |-> IF s = 1 THEN "live" ELSE "none"]
  /\ status' = [s \in Stages |-> "clean"]
  /\ pc'     = [s \in Stages |-> "load"]
  /\ inbox'  = [s \in Stages |-> <<>>]
  /\ job'    = [s \in Stages |-> 0]
  /\ loaded' = [s \in Stages |-> 0]
  /\ hasRun' = [s \in Stages |-> FALSE]
  /\ input'  = [s \in Stages |-> <<>>]
  /\ data'   = [s \in Stages |-> <<>>]
  /\ active' = [s \in Stages |-> FALSE]
  /\ handle' = [s \in Stages |-> FALSE]
  /\ lastId' = [s \in Stages |-> 0]
  /\ ppc' = "recv" /\ token' = NoToken /\ trace' = NoTrace /\ reply' = NoReply
  /\ late' = FALSE

\* Bug variant of Start: the answers of the old process stay readable.
StartOnOldPipes ==
  /\ call = "idle" /\ batch < MaxBatch
  /\ call' = "write" /\ result' = NoResult
  /\ IF Over THEN NewTree
     ELSE UNCHANGED <<procVars, pluginVars, childVars, parentVars, late>>
  /\ UNCHANGED <<pipeVars, driverVars, faults, ready, phase, killed, stuck, hangs>>

\* _start: nothing to do while the process runs; otherwise what is left of the
\* old one is dropped and a new one begins, on new pipes.  Batch ids go on.
Start ==
  /\ call = "idle" /\ batch < MaxBatch
  /\ call' = "write" /\ result' = NoResult
  /\ IF Over THEN NewTree /\ doneQ' = <<>> /\ traceQ' = <<>>
     ELSE UNCHANGED <<procVars, pluginVars, childVars, pipeVars, parentVars, late>>
  /\ UNCHANGED <<driverVars, faults, ready, phase, killed, stuck, hangs>>

\* The RUN is written, with a new watchdog; a process that died since _start
\* makes the write raise, and run() with it.
Write ==
  /\ call = "write"
  /\ IF Over
     THEN /\ call' = "idle" /\ result' = [NoResult EXCEPT !.kind = "raised"]
          /\ UNCHANGED vars
     ELSE SendRun /\ call' = "select" /\ UNCHANGED result
  /\ UNCHANGED <<ready, phase, killed, stuck, hangs, late>>

\* select returns when the response pipe is readable, when there is output on
\* stdout or stderr, and after a second in any case.
Select ==
  /\ call = "select"
  /\ ready' = (LineWritten \/ Over)
  /\ call' = "enforce"
  /\ UNCHANGED <<vars, phase, killed, result, stuck, hangs, late>>

\* Only the pipes of the last select are read.
AfterEnforce == call' = (IF ready THEN "read" ELSE "select") /\ ready' = FALSE

\* enforce without a kill: the timer starts again whenever the tree shows
\* another stage than the one it was started for.
Watch ==
  /\ call = "enforce"
  /\ phase' = IF killed THEN phase ELSE Observed
  /\ AfterEnforce
  /\ UNCHANGED <<vars, killed, result, stuck, hangs, late>>

\* enforce at the deadline: the deepest process is killed, once per run.  The
\* tree is read a moment before the kill, and what select saw is older still.
Expire ==
  /\ call = "enforce" /\ ~killed /\ phase # "none" /\ phase = Observed
  /\ killed' = TRUE
  /\ AfterEnforce
  /\ IF Live(Deepest)
     THEN Dies(Deepest, "sig") /\ late' = (late \/ Untimely(Deepest))
     ELSE UNCHANGED <<life, status, late>>
  /\ Unstick
  /\ UNCHANGED <<pc, inbox, job, pluginVars, childVars, pipeVars, parentVars, driverVars,
                 faults, phase, result, hangs>>

\* The line, or EOF.  A line of a run the watchdog has killed gets its text
\* appended and is not JSON any more.  The batch ids always agree: run_parent
\* echoes that of the request.
Read ==
  /\ call = "read"
  /\ result' = IF ~LineWritten THEN [NoResult EXCEPT !.kind = "exited"]
               ELSE IF killed THEN [NoResult EXCEPT !.kind = "timeout"]
               ELSE [kind |-> "line", line |-> reply]
  /\ call' = "idle" /\ phase' = "none" /\ killed' = FALSE
  /\ UNCHANGED <<vars, ready, stuck, hangs, late>>
---------------------------------------------------------------------------
(* terminate().                                                            *)

Close ==
  /\ call = "idle" /\ SendTerminate
  /\ call' = "closing"
  /\ UNCHANGED <<ready, phase, killed, result, stuck, hangs, late>>

\* The five seconds are over: SIGKILL on the process group.
Escalate ==
  /\ call = "closing" /\ ~Over
  /\ TreeDies /\ Unstick
  /\ UNCHANGED <<faults, call, ready, phase, killed, result, hangs, late>>

Closed ==
  /\ call = "closing" /\ Over
  /\ call' = "idle"
  /\ UNCHANGED <<vars, ready, phase, killed, result, stuck, hangs, late>>
---------------------------------------------------------------------------
(* The tree under the driver.                                              *)

TroubleLeft == hangs + faults.crash < MaxTrouble

Keep == UNCHANGED <<call, ready, phase, killed, result, hangs>>

\* A stage goes on unless its plugin has hung.
StageRuns(s) == s \notin stuck /\ StageStep(s) /\ Unstick /\ UNCHANGED late /\ Keep

ParentRuns == ParentStep /\ UNCHANGED <<stuck, late>> /\ Keep

Published(s) == s \in Republished /\ Publish(s) /\ UNCHANGED <<stuck, late>> /\ Keep

StageDies(s) == TroubleLeft /\ Crash(s) /\ late' = (late \/ Untimely(s)) /\ Unstick /\ Keep

\* A plugin does not return from its constructor, teardown or callback.
Hang(s) ==
  /\ Live(s) /\ pc[s] \in HangAt /\ s \notin stuck /\ TroubleLeft
  /\ stuck' = stuck \cup {s} /\ hangs' = hangs + 1
  /\ UNCHANGED <<vars, call, ready, phase, killed, result, late>>

\* A stage allocates more than its cgroup may have (memory.oom.group).
OutOfMemory ==
  /\ TroubleLeft /\ faults.crash < MaxCrash
  /\ \E s \in Stages : Live(s) /\ pc[s] \in CrashAt
  /\ TreeDies /\ Unstick
  /\ faults' = [faults EXCEPT !.crash = @ + 1]
  /\ UNCHANGED late /\ Keep

\* Nobody calls any more.
Rest == call = "idle" /\ UNCHANGED allVars

DriverStep == Write \/ Select \/ Watch \/ Expire \/ Read \/ Escalate \/ Closed

RunnerNext ==
  \/ Start \/ Close \/ DriverStep \/ ParentRuns \/ OutOfMemory \/ Rest
  \/ \E s \in Stages : StageRuns(s) \/ StageDies(s) \/ Published(s) \/ Hang(s)

\* Every process runs, a plugin that has not hung returns, and time passes: a
\* timer that is looked at again and again while its stage lasts expires.
RunnerFairness ==
  /\ WF_allVars(Write) /\ WF_allVars(Select) /\ WF_allVars(Watch \/ Expire)
  /\ WF_allVars(Read) /\ WF_allVars(Escalate) /\ WF_allVars(Closed)
  /\ SF_allVars(Expire)
  /\ WF_allVars(ParentRuns) /\ \A s \in Stages : WF_allVars(StageRuns(s))

RunnerSpec == RunnerInit /\ [][RunnerNext]_allVars /\ RunnerFairness
---------------------------------------------------------------------------
(* Properties.                                                             *)

(* A response that run() parsed is of its own run, and a good one was      *)
(* computed by the plugins on disk when it was sent, whatever hung, died,  *)
(* was killed or started again: unless a stage died while it had no run in *)
(* hand, or, of the plugins, a callback threw.                             *)
OwnUnlessLate ==
  (result.kind = "line" /\ ~late) =>
     LET l == result.line IN
     /\ l.tokenOf = l.of /\ l.traceOf \in {0, l.of}
     /\ l.how = "ok" => l.traceOf = l.of
     /\ (l.how = "ok" /\ l.of = batch /\ faults.threw = 0) =>
           Len(l.vers) = N /\ \A s \in Stages : l.vers[s] >= sentFile[s]

(* The refinement mapping to what a HotpatchProc promises.                 *)
Phase ==
  IF call = "idle" THEN "idle" ELSE IF call = "write" THEN "asked"
  ELSE IF call = "closing" THEN "closing" ELSE "sent"

Process == IF Over THEN "down" ELSE IF ppc = "recv" THEN "free" ELSE "busy"

Protocol == INSTANCE RunProtocol WITH
  Stage   <- Stages,
  phase   <- Phase,
  process <- Process,
  tainted <- late,
  threw   <- faults.threw # 0,
  disk    <- file,
  wanted  <- sentFile,
  answer  <- result

(* run() sends its request to a process that waits for one and returns     *)
(* once, with an answer of its own or a failure that says what happened;   *)
(* whatever hung, died, was killed or started again.                       *)
KeepsProtocol == Protocol!Spec

(* run() and terminate() return, although plugin code may hang, a stage    *)
(* may die and a RUN may be lost on the way to it: unless plugin code      *)
(* hangs when the watchdog of the run has spent its kill.                  *)
CallEnds ==
  (call # "idle") ~> (call = "idle" \/ (killed /\ stuck # {}))

(* A parsed response is of its own run, as the comparison of the batch ids *)
(* is there to ensure.                                                     *)
OwnAnswer == result.kind = "line" => result.line.tokenOf = result.line.of
============================================================================
