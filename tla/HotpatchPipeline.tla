------------------------- MODULE HotpatchPipeline -------------------------
(***************************************************************************)
(* The warm process tree of cpp_runner: run_parent (db.cpp) and the chain  *)
(* of stage processes it drives (hotpatch/pipeline.hpp).  Stage 1 is       *)
(* forked by main, every other stage is forked by the stage before it; the *)
(* OLAP pipeline is loader, builder, query.  A RUN travels down the        *)
(* control pipes; the answer comes back on two pipes every stage shares,   *)
(* one for done tokens and one for the trace payload, and run_parent turns *)
(* it into one response line.                                              *)
(*                                                                         *)
(* A plugin is its build id, a number that grows with every publication.   *)
(* What a stage holds in memory is the sequence of the build ids it was    *)
(* computed with: <<l>> is the tables of loader l, <<l, b>> the database   *)
(* builder b made of them, <<l, b, q>> a result.  <<>> is the null pointer *)
(* a teardown leaves, so a value of the wrong length was computed from     *)
(* input that was never produced.                                          *)
(***************************************************************************)
EXTENDS Integers, Sequences

CONSTANTS
  N,          \* number of stages; stage N is the terminal (query) stage
  Restarts,   \* stages built with restart_child_on_source_change
  Eager,      \* stages with RunPolicy::AlwaysReload; the others are OnChange
  Teardowns,  \* stages with a teardown callback
  MaxBuild,   \* bound: publications of a plugin
  MaxBatch,   \* bound: RUN messages
  MaxThrow,   \* bound: plugin callbacks that throw
  MaxNoFork,  \* bound: fork/pipe failures
  MaxCrash,   \* bound: stage processes that die without being asked to
  CrashAt,    \* the phases in which a stage may die
  CrashHow    \* how it may die: "sig", "exit" and "setup"

Stages == 1..N
Builds == 1..MaxBuild
BuildIds == 0..MaxBuild  \* 0 before there is one

Phases == {"load", "poll", "restart", "grace", "check", "stop", "reload",
           "compute", "record", "fork", "done", "notify", "final", "exit"}

\* How a process ends: by a signal, by exit(n), by the _exit of
\* rearm_pdeathsig_or_exit, or by _exit(0) on TERMINATE.
Statuses == {"sig", "exit", "setup", "clean"}

ASSUME PipelineAssumption ==
  /\ N \in Nat \ {0}
  /\ Restarts \subseteq 1..(N - 1)
  /\ Eager \subseteq Stages /\ N \in Eager
  /\ \A s \in Eager : \A t \in Stages : t > s => t \in Eager
  /\ Teardowns \subseteq Stages
  /\ MaxBuild \in Nat \ {0}
  /\ {MaxBatch, MaxThrow, MaxNoFork, MaxCrash} \subseteq Nat
  /\ CrashAt \subseteq Phases
  /\ CrashHow \subseteq {"sig", "exit", "setup"}

VARIABLES
  file,      \* build id of each stage's .so on disk
  life,      \* "none", "live" or "dead" (a zombie its parent has not reaped)
  status,    \* how a dead stage ended
  pc,        \* where each live stage is in stage_loop_impl
  inbox,     \* control pipe into each stage
  job,       \* the batch of the last RUN each stage took
  loaded,    \* build id each stage has dlopened, 0 before Plugin(so_path)
  hasRun,    \* has_run
  input,     \* what the stage inherited from its parent at fork
  data,      \* what the stage holds
  active,    \* child_active
  handle,    \* child.valid()
  lastId,    \* last_child_build_id
  doneQ,     \* the shared done pipe
  traceQ,    \* the shared trace pipe
  ppc,       \* run_parent: "recv", "wait", "reap", "gone" or "dead"
  token,     \* the last done token of read_done_and_trace
  trace,     \* the trace payload it drained
  reply,     \* the last response line
  batch,     \* the last batch id Python sent
  sentFile,  \* history: the plugins on disk when that batch was sent
  faults     \* how many throws, failed forks and deaths there have been

procVars   == <<life, status, pc, inbox, job>>
pluginVars == <<loaded, hasRun, input, data>>
childVars  == <<active, handle, lastId>>
pipeVars   == <<doneQ, traceQ>>
parentVars == <<ppc, token, trace, reply>>
driverVars == <<file, batch, sentFile>>
vars == <<procVars, pluginVars, childVars, pipeVars, parentVars, driverVars, faults>>

Batches == 0..MaxBatch
Value   == Seq(Builds)
Message == [act : {"RUN", "TERMINATE"}, of : Batches]
Outcome == Statuses \cup {"ok", "threw", "nochild"}
Token   == [of : Batches, how : Outcome]
Trace   == [of : Batches, vers : Value]
NoToken == [of |-> 0, how |-> "none"]
NoTrace == [of |-> 0, vers |-> <<>>]
NoReply == [of |-> 0, how |-> "none", tokenOf |-> 0, traceOf |-> 0, vers |-> <<>>]

Run(b)    == [act |-> "RUN", of |-> b]
Terminate == [act |-> "TERMINATE", of |-> 0]

\* The exit codes and signals after which read_done_and_trace returns without
\* a trace payload: term_signal # 0, kStageThrewExitCode and
\* kChildStartFailedExitCode.
TraceFree == {"sig", "threw", "nochild"}
---------------------------------------------------------------------------
(* Initially main has forked stage 1 and Python has sent nothing.          *)

Init ==
  /\ file    = [s \in Stages |-> 1]
  /\ life    = [s \in Stages |-> IF s = 1 THEN "live" ELSE "none"]
  /\ status  = [s \in Stages |-> "clean"]
  /\ pc      = [s \in Stages |-> "load"]
  /\ inbox   = [s \in Stages |-> <<>>]
  /\ job     = [s \in Stages |-> 0]
  /\ loaded  = [s \in Stages |-> 0]
  /\ hasRun  = [s \in Stages |-> FALSE]
  /\ input   = [s \in Stages |-> <<>>]
  /\ data    = [s \in Stages |-> <<>>]
  /\ active  = [s \in Stages |-> FALSE]
  /\ handle  = [s \in Stages |-> FALSE]
  /\ lastId  = [s \in Stages |-> 0]
  /\ doneQ = <<>> /\ traceQ = <<>>
  /\ ppc = "recv" /\ token = NoToken /\ trace = NoTrace /\ reply = NoReply
  /\ batch = 0
  /\ sentFile = file
  /\ faults = [threw |-> 0, nofork |-> 0, crash |-> 0]
---------------------------------------------------------------------------
(* The pieces stage_loop_impl is made of.                                  *)

Live(s) == life[s] = "live"
At(s, p) == Live(s) /\ pc[s] = p
Goto(s, p) == pc' = [pc EXCEPT ![s] = p]

\* A write to the control pipe of stage s; EPIPE is swallowed by the callers.
Tell(s, m) == inbox' = IF Live(s) THEN [inbox EXCEPT ![s] = Append(@, m)] ELSE inbox

WriteDone(s, how) == doneQ' = Append(doneQ, [of |-> job[s], how |-> how])

\* The child this stage has a handle on, running or waiting to be reaped.
HasChild(s) == s < N /\ active[s] /\ handle[s]
ChildDead(s) == HasChild(s) /\ life[s + 1] = "dead"

\* waitpid plus the handle reset of stop_child and bounded_stop_child.
Reap(s) ==
  /\ life'   = [life EXCEPT ![s + 1] = "none"]
  /\ handle' = [handle EXCEPT ![s] = FALSE]

\* reap_dead_child: nothing to do, or the child's status becomes a done token.
ReapDeadChild(s) ==
  IF ChildDead(s)
  THEN /\ WriteDone(s, status[s + 1])
       /\ Reap(s)
       /\ active' = [active EXCEPT ![s] = FALSE]
  ELSE UNCHANGED <<doneQ, life, handle, active>>

\* The death of stage s: its parent can reap it, and PR_SET_PDEATHSIG takes
\* the stages below with it (they have no parent left to reap them).
Dies(s, how) ==
  /\ life'   = [t \in Stages |-> IF t = s THEN "dead" ELSE IF t > s THEN "none" ELSE life[t]]
  /\ status' = [status EXCEPT ![s] = how]

\* Bug variant of NeedsReload: only the policy is looked at.
NeedsReloadByPolicy(s) == s \in Eager

NeedsReload(s) == loaded[s] # file[s] \/ s \in Eager

\* Plugin::file_build_id_for(next_so_path) differs from the recorded id.
ChildSourceChanged(s) == s \in Restarts /\ active[s] /\ file[s + 1] # lastId[s]
---------------------------------------------------------------------------
(* Bug variants of the steps below, one plausible slip each: they show that *)
(* the properties at the end can fail, and are not part of Next.           *)

ReloadBesideChild(s) ==     \* CheckReload: the child is forgotten, not stopped
  /\ At(s, "check")
  /\ IF NeedsReload(s)
     THEN active' = [active EXCEPT ![s] = FALSE] /\ Goto(s, "reload")
     ELSE /\ Goto(s, IF ~hasRun[s] THEN "compute"
                     ELSE IF s < N /\ ~active[s] THEN "record" ELSE "notify")
          /\ UNCHANGED active
  /\ UNCHANGED <<life, status, inbox, job, pluginVars, handle, lastId, pipeVars,
                 parentVars, driverVars, faults>>

ReloadWithoutRun(s) ==      \* Reload: a stage that has run does not run again
  /\ At(s, "reload")
  /\ loaded' = [loaded EXCEPT ![s] = file[s]]
  /\ data' = IF s \in Teardowns THEN [data EXCEPT ![s] = <<>>] ELSE data
  /\ Goto(s, IF hasRun[s] /\ s < N THEN "record" ELSE "compute")
  /\ UNCHANGED <<life, status, inbox, job, hasRun, input, childVars, pipeVars,
                 parentVars, driverVars, faults>>

ThrowFallsThrough(s) ==     \* Throw: the return after the report is missing
  /\ At(s, "compute") /\ faults.threw < MaxThrow
  /\ faults' = [faults EXCEPT !.threw = @ + 1]
  /\ WriteDone(s, "threw")
  /\ Goto(s, IF s < N THEN "record" ELSE "done")
  /\ UNCHANGED <<life, status, inbox, job, pluginVars, childVars, traceQ, parentVars,
                 driverVars>>

ForkFailsUnnoticed(s) ==    \* ForkFails: the invalid handle is not checked
  /\ At(s, "fork") /\ faults.nofork < MaxNoFork
  /\ faults' = [faults EXCEPT !.nofork = @ + 1]
  /\ handle' = [handle EXCEPT ![s] = FALSE]
  /\ active' = [active EXCEPT ![s] = TRUE]
  /\ Goto(s, "final")
  /\ UNCHANGED <<life, status, inbox, job, pluginVars, lastId, pipeVars, parentVars,
                 driverVars>>

FinishThenRecord(s) ==      \* Finish: the child's id is recorded again, late
  /\ At(s, "final")
  /\ ReapDeadChild(s)
  /\ lastId' = IF s \in Restarts THEN [lastId EXCEPT ![s] = file[s + 1]] ELSE lastId
  /\ Goto(s, "poll")
  /\ UNCHANGED <<status, inbox, job, pluginVars, traceQ, parentVars, driverVars, faults>>

TerminateAlone(s) ==        \* ReceiveTerminate: the child is not told
  /\ At(s, "poll") /\ inbox[s] # <<>> /\ Head(inbox[s]).act = "TERMINATE"
  /\ Goto(s, "exit")
  /\ UNCHANGED <<life, status, inbox, job, pluginVars, childVars, pipeVars, parentVars,
                 driverVars, faults>>
---------------------------------------------------------------------------
(* The life of one stage process.                                          *)

\* Plugin plugin(so_path), before the first message is read.
Load(s) ==
  /\ At(s, "load")
  /\ loaded' = [loaded EXCEPT ![s] = file[s]]
  /\ Goto(s, "poll")
  /\ UNCHANGED <<life, status, inbox, job, hasRun, input, data, childVars, pipeVars,
                 parentVars, driverVars, faults>>

\* RUN: reap a dead child first, then enter do_run.
ReceiveRun(s) ==
  /\ At(s, "poll") /\ inbox[s] # <<>> /\ Head(inbox[s]).act = "RUN"
  /\ inbox' = [inbox EXCEPT ![s] = Tail(@)]
  /\ ReapDeadChild(s)
  /\ job' = [job EXCEPT ![s] = Head(inbox[s]).of]
  /\ Goto(s, "restart")
  /\ UNCHANGED <<status, pluginVars, lastId, traceQ, parentVars, driverVars, faults>>

\* The child's pidfd became readable between two messages.
ReapIdle(s) ==
  /\ At(s, "poll") /\ ChildDead(s)
  /\ ReapDeadChild(s)
  /\ UNCHANGED <<status, pc, inbox, job, pluginVars, lastId, traceQ, parentVars,
                 driverVars, faults>>

\* Restart-on-source-change: TERMINATE the child and give it a grace period.
CheckRestart(s) ==
  /\ At(s, "restart")
  /\ \/ /\ ChildSourceChanged(s) /\ handle[s]
        /\ Tell(s + 1, Terminate)
        /\ Goto(s, "grace")
        /\ UNCHANGED active
     \/ /\ ~(ChildSourceChanged(s) /\ handle[s])
        /\ active' = [active EXCEPT ![s] = active[s] /\ ~ChildSourceChanged(s)]
        /\ Goto(s, "check")
        /\ UNCHANGED inbox
  /\ UNCHANGED <<life, status, job, pluginVars, handle, lastId, pipeVars, parentVars,
                 driverVars, faults>>

\* The grace period (kRestartChildTimeoutMs) is over: force_kill_child.
KillChild(s) ==
  /\ At(s, "grace") /\ Live(s + 1)
  /\ Dies(s + 1, "sig")
  /\ UNCHANGED <<pc, inbox, job, pluginVars, childVars, pipeVars, parentVars,
                 driverVars, faults>>

\* The child is gone: bounded_stop_child reaps it and drops its status.
Restarted(s) ==
  /\ At(s, "grace") /\ ~Live(s + 1)
  /\ Reap(s)
  /\ active' = [active EXCEPT ![s] = FALSE]
  /\ Goto(s, "check")
  /\ UNCHANGED <<status, inbox, job, pluginVars, lastId, pipeVars, parentVars,
                 driverVars, faults>>

\* The decision between reloading, running, restarting a missing child and
\* just passing the RUN on.
CheckReload(s) ==
  /\ At(s, "check")
  /\ IF NeedsReload(s)
     THEN IF HasChild(s)
          THEN Tell(s + 1, Terminate) /\ Goto(s, "stop") /\ UNCHANGED active
          ELSE /\ active' = [active EXCEPT ![s] = FALSE]
               /\ Goto(s, "reload")
               /\ UNCHANGED inbox
     ELSE /\ Goto(s, IF ~hasRun[s] THEN "compute"
                     ELSE IF s < N /\ ~active[s] THEN "record" ELSE "notify")
          /\ UNCHANGED <<inbox, active>>
  /\ UNCHANGED <<life, status, job, pluginVars, handle, lastId, pipeVars, parentVars,
                 driverVars, faults>>

\* stop_child before a reload: the wait for the child has no bound.
Stopped(s) ==
  /\ At(s, "stop") /\ ~Live(s + 1)
  /\ Reap(s)
  /\ active' = [active EXCEPT ![s] = FALSE]
  /\ Goto(s, "reload")
  /\ UNCHANGED <<status, inbox, job, pluginVars, lastId, pipeVars, parentVars,
                 driverVars, faults>>

\* teardown(plugin) with the old library, then plugin.reload().
Reload(s) ==
  /\ At(s, "reload")
  /\ loaded' = [loaded EXCEPT ![s] = file[s]]
  /\ data' = IF s \in Teardowns THEN [data EXCEPT ![s] = <<>>] ELSE data
  /\ Goto(s, "compute")
  /\ UNCHANGED <<life, status, inbox, job, hasRun, input, childVars, pipeVars,
                 parentVars, driverVars, faults>>

\* The compute callback returns.  The query stage also writes its payload to
\* the trace pipe, before its done token.
Compute(s) ==
  /\ At(s, "compute")
  /\ hasRun' = [hasRun EXCEPT ![s] = TRUE]
  /\ data' = [data EXCEPT ![s] = Append(input[s], loaded[s])]
  /\ IF s < N
     THEN Goto(s, "record") /\ UNCHANGED traceQ
     ELSE /\ Goto(s, "done")
          /\ traceQ' = Append(traceQ, [of |-> job[s], vers |-> Append(input[s], loaded[s])])
  /\ UNCHANGED <<life, status, inbox, job, loaded, input, childVars, doneQ, parentVars,
                 driverVars, faults>>

\* The callback throws: report kStageThrewExitCode and leave do_run.  (No
\* OnChange or AlwaysReload stage has a child at this point: NoChildAtCompute.)
Throw(s) ==
  /\ At(s, "compute") /\ faults.threw < MaxThrow
  /\ faults' = [faults EXCEPT !.threw = @ + 1]
  /\ WriteDone(s, "threw")
  /\ Goto(s, "final")
  /\ UNCHANGED <<life, status, inbox, job, pluginVars, childVars, traceQ, parentVars,
                 driverVars>>

\* last_child_build_id is read from disk before the fork.
RecordChildId(s) ==
  /\ At(s, "record")
  /\ lastId' = IF s \in Restarts THEN [lastId EXCEPT ![s] = file[s + 1]] ELSE lastId
  /\ Goto(s, "fork")
  /\ UNCHANGED <<life, status, inbox, job, pluginVars, active, handle, pipeVars,
                 parentVars, driverVars, faults>>

\* next_start: the child is a copy-on-write image of this process.
Fork(s) ==
  /\ At(s, "fork")
  /\ life'   = [life EXCEPT ![s + 1] = "live"]
  /\ pc'     = [pc EXCEPT ![s] = "notify", ![s + 1] = "load"]
  /\ inbox'  = [inbox EXCEPT ![s + 1] = <<>>]
  /\ job'    = [job EXCEPT ![s + 1] = 0]
  /\ loaded' = [loaded EXCEPT ![s + 1] = 0]
  /\ hasRun' = [hasRun EXCEPT ![s + 1] = FALSE]
  /\ input'  = [input EXCEPT ![s + 1] = data[s]]
  /\ data'   = [data EXCEPT ![s + 1] = <<>>]
  /\ active' = [active EXCEPT ![s] = TRUE, ![s + 1] = FALSE]
  /\ handle' = [handle EXCEPT ![s] = TRUE, ![s + 1] = FALSE]
  /\ lastId' = [lastId EXCEPT ![s + 1] = 0]
  /\ UNCHANGED <<status, pipeVars, parentVars, driverVars, faults>>

\* fork or pipe failed: the invalid handle, and kChildStartFailedExitCode.
ForkFails(s) ==
  /\ At(s, "fork") /\ faults.nofork < MaxNoFork
  /\ faults' = [faults EXCEPT !.nofork = @ + 1]
  /\ handle' = [handle EXCEPT ![s] = FALSE]
  /\ WriteDone(s, "nochild")
  /\ Goto(s, "final")
  /\ UNCHANGED <<life, status, inbox, job, pluginVars, active, lastId, traceQ,
                 parentVars, driverVars>>

\* The terminal stage reports its result.
Done(s) ==
  /\ At(s, "done")
  /\ WriteDone(s, "ok")
  /\ Goto(s, "final")
  /\ UNCHANGED <<life, status, inbox, job, pluginVars, childVars, traceQ, parentVars,
                 driverVars, faults>>

\* notify_child_run: pass the RUN on; on EPIPE wait for the child, report its
\* status and drop the handle.  The result is ignored: child_active stays set.
NotifyChild(s) ==
  /\ At(s, "notify")
  /\ IF ChildDead(s)
     THEN WriteDone(s, status[s + 1]) /\ Reap(s) /\ UNCHANGED inbox
     ELSE /\ IF HasChild(s) THEN Tell(s + 1, Run(job[s])) ELSE UNCHANGED inbox
          /\ UNCHANGED <<doneQ, life, handle>>
  /\ Goto(s, "final")
  /\ UNCHANGED <<status, job, pluginVars, active, lastId, traceQ, parentVars, driverVars,
                 faults>>

\* The reap after do_run, and back to poll.
Finish(s) ==
  /\ At(s, "final")
  /\ ReapDeadChild(s)
  /\ Goto(s, "poll")
  /\ UNCHANGED <<status, inbox, job, pluginVars, lastId, traceQ, parentVars, driverVars,
                 faults>>

\* TERMINATE: stop_child starts here and Exit ends it.
ReceiveTerminate(s) ==
  /\ At(s, "poll") /\ inbox[s] # <<>> /\ Head(inbox[s]).act = "TERMINATE"
  /\ IF HasChild(s) THEN Tell(s + 1, Terminate) ELSE UNCHANGED inbox
  /\ Goto(s, "exit")
  /\ UNCHANGED <<life, status, job, pluginVars, childVars, pipeVars, parentVars,
                 driverVars, faults>>

\* _exit(0), without the stage's teardown.
Exit(s) ==
  /\ At(s, "exit") /\ (HasChild(s) => ~Live(s + 1))
  /\ Dies(s, "clean")
  /\ UNCHANGED <<pc, inbox, job, pluginVars, childVars, pipeVars, parentVars, driverVars,
                 faults>>

\* A signal (a crash, the OOM killer, the timeout killer), an exit() in plugin
\* code, or a failure of prctl in rearm_pdeathsig_or_exit.
Crash(s) ==
  /\ Live(s) /\ pc[s] \in CrashAt /\ faults.crash < MaxCrash
  /\ \E how \in CrashHow :
        /\ how = "setup" => pc[s] = "load"
        /\ Dies(s, how)
  /\ faults' = [faults EXCEPT !.crash = @ + 1]
  /\ UNCHANGED <<pc, inbox, job, pluginVars, childVars, pipeVars, parentVars, driverVars>>

StageStep(s) ==
  \/ Load(s) \/ ReceiveRun(s) \/ ReapIdle(s) \/ CheckRestart(s) \/ KillChild(s)
  \/ Restarted(s) \/ CheckReload(s) \/ Stopped(s) \/ Reload(s) \/ Compute(s) \/ Throw(s)
  \/ RecordChildId(s) \/ Fork(s) \/ ForkFails(s) \/ Done(s) \/ NotifyChild(s) \/ Finish(s)
  \/ ReceiveTerminate(s) \/ Exit(s)
---------------------------------------------------------------------------
(* run_parent, and Python at the other end of its pipes.                   *)

\* Python sends the next RUN and run_parent forwards it; send_run throws when
\* stage 1 is gone, which ends the process.
SendRun ==
  /\ ppc = "recv" /\ batch < MaxBatch
  /\ batch' = batch + 1
  /\ sentFile' = file
  /\ token' = NoToken /\ trace' = NoTrace
  /\ Tell(1, Run(batch + 1))
  /\ ppc' = IF Live(1) THEN "wait" ELSE "dead"
  /\ UNCHANGED <<life, status, pc, job, pluginVars, childVars, pipeVars, reply, file, faults>>

ReadDone ==
  /\ ppc = "wait" /\ doneQ # <<>>
  /\ token' = Head(doneQ)
  /\ doneQ' = Tail(doneQ)
  /\ UNCHANGED <<procVars, pluginVars, childVars, traceQ, ppc, trace, reply, driverVars,
                 faults>>

ReadTrace ==
  /\ ppc = "wait" /\ trace = NoTrace /\ traceQ # <<>>
  /\ trace' = Head(traceQ)
  /\ traceQ' = Tail(traceQ)
  /\ UNCHANGED <<procVars, pluginVars, childVars, doneQ, ppc, token, reply, driverVars,
                 faults>>

\* The done pipe hung up before a token: the exception ends run_parent.
HangUp ==
  /\ ppc = "wait" /\ doneQ = <<>>
  /\ token = NoToken \/ (token.how \notin TraceFree /\ trace = NoTrace)
  /\ \A s \in Stages : ~Live(s)
  /\ ppc' = "dead"
  /\ UNCHANGED <<procVars, pluginVars, childVars, pipeVars, token, trace, reply,
                 driverVars, faults>>

\* The response line: the batch id is the one run_parent read, the rest is
\* what came out of the two pipes.
Reply ==
  /\ ppc = "wait" /\ token # NoToken
  /\ \/ token.how \in TraceFree
     \/ trace # NoTrace
     \/ traceQ = <<>> /\ \A s \in Stages : ~Live(s)   \* the trace pipe hung up
  /\ reply' = [of |-> batch, how |-> token.how, tokenOf |-> token.of,
               traceOf |-> trace.of, vers |-> trace.vers]
  /\ ppc' = "recv"
  /\ UNCHANGED <<procVars, pluginVars, childVars, pipeVars, token, trace, driverVars,
                 faults>>

\* TERMINATE from Python: send_terminate, then waitpid on stage 1.
SendTerminate ==
  /\ ppc = "recv"
  /\ Tell(1, Terminate)
  /\ ppc' = IF Live(1) THEN "reap" ELSE "dead"
  /\ UNCHANGED <<life, status, pc, job, pluginVars, childVars, pipeVars, token, trace, reply,
                 driverVars, faults>>

ParentExits ==
  /\ ppc = "reap" /\ ~Live(1)
  /\ ppc' = "gone"
  /\ UNCHANGED <<procVars, pluginVars, childVars, pipeVars, token, trace, reply,
                 driverVars, faults>>

\* The compiler replaces a plugin on disk.
Publish(s) ==
  /\ file[s] < MaxBuild
  /\ file' = [file EXCEPT ![s] = @ + 1]
  /\ UNCHANGED <<procVars, pluginVars, childVars, pipeVars, parentVars, batch, sentFile,
                 faults>>

ParentStep == ReadDone \/ ReadTrace \/ HangUp \/ Reply \/ ParentExits

\* Nothing is left to run.
Ended ==
  /\ ppc \in {"gone", "dead"} /\ \A s \in Stages : ~Live(s)
  /\ UNCHANGED vars

Next ==
  \/ \E s \in Stages : StageStep(s) \/ Crash(s) \/ Publish(s)
  \/ SendRun \/ SendTerminate \/ ParentStep \/ Ended

\* The scheduler runs every process and every plugin callback returns.
\* Nothing obliges Python to send, the compiler to publish or a stage to die.
Fairness == WF_vars(ParentStep) /\ \A s \in Stages : WF_vars(StageStep(s))

Spec     == Init /\ [][Next]_vars
FairSpec == Spec /\ Fairness
---------------------------------------------------------------------------
(* Properties.                                                             *)

(* Types: the pipes only carry well-formed messages, and a build id is one *)
(* that was published.                                                     *)
TypeOK ==
  /\ file \in [Stages -> Builds]
  /\ life \in [Stages -> {"none", "live", "dead"}]
  /\ status \in [Stages -> Statuses]
  /\ pc \in [Stages -> Phases]
  /\ inbox \in [Stages -> Seq(Message)]
  /\ job \in [Stages -> Batches]
  /\ loaded \in [Stages -> BuildIds]
  /\ hasRun \in [Stages -> BOOLEAN]
  /\ input \in [Stages -> Value]
  /\ data \in [Stages -> Value]
  /\ active \in [Stages -> BOOLEAN]
  /\ handle \in [Stages -> BOOLEAN]
  /\ lastId \in [Stages -> BuildIds]
  /\ doneQ \in Seq(Token)
  /\ traceQ \in Seq(Trace)
  /\ ppc \in {"recv", "wait", "reap", "gone", "dead"}
  /\ token \in Token \cup {NoToken}
  /\ trace \in Trace
  /\ batch \in Batches
  /\ sentFile \in [Stages -> Builds]
  /\ faults \in [threw : 0..MaxThrow, nofork : 0..MaxNoFork, crash : 0..MaxCrash]

(* When run_parent goes back to read the next request nothing is left in   *)
(* the pipes all stages share: every batch makes exactly one done token,   *)
(* whichever stage reports it, and its trace is drained with it.           *)
PipesDrained == ppc = "recv" => doneQ = <<>> /\ traceQ = <<>>

(* As long as no plugin callback threw, a successful answer was computed   *)
(* by plugins at least as new as those on disk when the batch was sent: a  *)
(* hotpatch is never missed, whether it is taken by a restart of the child *)
(* process or by an in-place reload.                                       *)
AnswerIsFresh ==
  (faults.threw = 0 /\ reply.how = "ok" /\ reply.of = batch) =>
     /\ Len(reply.vers) = N
     /\ \A s \in Stages : reply.vers[s] >= sentFile[s]

(* As long as no plugin callback threw, a stage process only ever starts   *)
(* on input its parent really produced, also across reloads and teardowns. *)
InputProduced ==
  faults.threw = 0 => \A s \in Stages : Live(s) => Len(input[s]) = s - 1

(* A live stage process is the child its live parent has a handle on, so   *)
(* no second child is ever forked beside it and every stop reaches it.     *)
ChildTracked ==
  \A s \in Stages : (s + 1 \in Stages /\ Live(s + 1)) => Live(s) /\ HasChild(s)

(* The recorded build id of a child is never newer than the one the child  *)
(* loaded, so a source change is never mistaken for the running version.   *)
RecordNeverNewer ==
  \A s \in Restarts :
     (Live(s + 1) /\ loaded[s + 1] # 0) => lastId[s] <= loaded[s + 1]

(* Every RUN is answered, or run_parent ends and Python reads EOF.         *)
RunAnswered == (ppc = "wait") ~> (ppc # "wait")

(* TERMINATE collapses the whole chain, whatever it was doing.             *)
TerminateEnds == (ppc = "reap") ~> (ppc = "gone")
===========================================================================
