---------------------------- MODULE RunProtocol ----------------------------
(***************************************************************************)
(* What a HotpatchProc promises to the tool that calls it                  *)
(* (hotpatch/hotpatch_proc.py): run() is answered once, by its own batch   *)
(* and by plugins no older than those on disk when it was sent, or it      *)
(* fails; a request is only ever sent to a process that waits for one; and *)
(* terminate() returns when there is no process left.  How the process     *)
(* works, and of how many it is made, is no part of this.                  *)
(***************************************************************************)
EXTENDS Naturals

CONSTANT Stage   \* the stages, each of which has a plugin on disk

VARIABLES
  phase,    \* of the caller: "idle", "asked", "sent" or "closing"
  process,  \* "free", "busy" or "down"
  batch,    \* the number of the last request sent
  killed,   \* the watchdog has spent its kill on this request
  tainted,  \* this process may have answered another request than it was sent
  threw,    \* a callback of a plugin has thrown
  disk,     \* the build of each stage's plugin on disk
  wanted,   \* those on disk when the request was sent
  answer    \* what the last run() returned: its kind, and a line if it is one

vars == <<phase, process, batch, killed, tainted, threw, disk, wanted, answer>>

Init ==
  /\ phase = "idle" /\ process = "free" /\ batch = 0
  /\ killed = FALSE /\ tainted = FALSE /\ threw = FALSE
  /\ wanted = disk /\ answer.kind = "none"
---------------------------------------------------------------------------
(* The caller.                                                             *)

\* run(): a process that is down is replaced, by one that owes nothing.
Ask ==
  /\ phase = "idle" /\ process # "busy"
  /\ phase' = "asked" /\ process' = "free" /\ answer'.kind = "none"
  /\ tainted' = (process # "down" /\ tainted)
  /\ UNCHANGED <<batch, killed, threw, disk, wanted>>

Send ==
  /\ phase = "asked" /\ process = "free"
  /\ phase' = "sent" /\ process' \in {"busy", "down"}
  /\ batch' = batch + 1 /\ wanted' = disk
  /\ UNCHANGED <<killed, tainted, threw, disk, answer>>

\* A line is of the batch it says it is, and a good one is of that batch all
\* through and by plugins that are new enough.
Proper(line) ==
  /\ line.tokenOf = batch /\ line.traceOf \in {0, batch}
  /\ line.how = "ok" => line.traceOf = batch
  /\ line.how = "ok" /\ ~threw =>
        DOMAIN line.vers = Stage /\ \A s \in Stage : line.vers[s] >= wanted[s]

Returns(kind) ==
  /\ phase' = "idle" /\ answer'.kind = kind
  /\ UNCHANGED <<process, batch, tainted, threw, disk, wanted>>

Answered ==
  /\ phase = "sent" /\ process # "busy" /\ ~killed
  /\ Returns("line") /\ UNCHANGED killed
  /\ answer'.line.of = batch /\ (~tainted => Proper(answer'.line))

\* The answer came, but the watchdog had given up.
TimedOut == phase = "sent" /\ process # "busy" /\ killed /\ killed' = FALSE /\ Returns("timeout")

\* There is none, and no process to give one.
Exited == phase = "sent" /\ process = "down" /\ killed' = FALSE /\ Returns("exited")

\* It died before the request was sent.
Raised == phase = "asked" /\ process = "down" /\ Returns("raised") /\ UNCHANGED killed

Close ==
  /\ phase = "idle" /\ process = "free"
  /\ phase' = "closing" /\ process' \in {"busy", "down"}
  /\ UNCHANGED <<batch, killed, tainted, threw, disk, wanted, answer>>

Closed ==
  /\ phase = "closing" /\ process = "down"
  /\ phase' = "idle"
  /\ UNCHANGED <<process, batch, killed, tainted, threw, disk, wanted, answer>>
---------------------------------------------------------------------------
(* The process, and those who replace its plugins.                         *)

Finish ==
  /\ phase = "sent" /\ process = "busy"
  /\ process' = "free"
  /\ UNCHANGED <<phase, batch, killed, tainted, threw, disk, wanted, answer>>

\* It ends, by itself or killed.
Die ==
  /\ process # "down"
  /\ process' = "down"
  /\ UNCHANGED <<phase, batch, killed, tainted, threw, disk, wanted, answer>>

\* The watchdog kills a part of it, at most once for a request.
Kill ==
  /\ phase = "sent" /\ ~killed
  /\ killed' = TRUE /\ tainted' \in {tainted, TRUE}
  /\ UNCHANGED <<phase, process, batch, threw, disk, wanted, answer>>

\* A part of it dies out of turn, or throws.
Trouble ==
  /\ tainted' \in {tainted, TRUE} /\ threw' \in {threw, TRUE}
  /\ UNCHANGED <<phase, process, batch, killed, disk, wanted, answer>>

Publish ==
  /\ \E s \in Stage : disk' = [disk EXCEPT ![s] = @ + 1]
  /\ UNCHANGED <<phase, process, batch, killed, tainted, threw, wanted, answer>>

Next ==
  \/ Ask \/ Send \/ Answered \/ TimedOut \/ Exited \/ Raised \/ Close \/ Closed
  \/ Finish \/ Die \/ Kill \/ Trouble \/ Publish

Spec == Init /\ [][Next]_vars
============================================================================
