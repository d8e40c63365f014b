# SynnoDB in TLA+

SynnoDB lets a language model write a query engine for one workload, runs it
beside DuckDB, and answers a query from the generated engine when it may and
from DuckDB otherwise. This directory holds TLA+ models of the parts of that
system whose correctness depends on the order in which things happen, the TLC
configurations that check them, and proofs that TLAPS checks.

Source paths below are relative to `src/src/synnodb/`; templates of the
generated engine are under `cpp_runner/prepare_repo/templates/`.

## 1. Inventory

### Execution of a generated engine

| component | state | operations | talks to |
|---|---|---|---|
| Hotpatch pipeline: `cpp_runner/hotpatch/pipeline.hpp`, `cpp_runner/db.cpp`, `olap/...` pipeline | a chain of processes (loader, builder, query), each with a dlopened plugin, its data, `has_run`, `child_active`, a child handle, `last_child_build_id`; one control pipe per stage, one done and one trace pipe for all | RUN, TERMINATE, reload of a changed plugin in place, restart of a child whose source changed, reap of a dead child, fork with `PR_SET_PDEATHSIG` | `run_parent` answers Python on a pipe; the compiler replaces the plugins on disk |
| Process driver: `hotpatch_proc.py`, `pool.py`, `cgroup.py`, `db_launch.*`, `runtime_reset.py`, `proc_utils.py` | the running process and its pipes, the batch counter, the watchdog of a run (phase, start, verdict), a cgroup per process, the pool's table of processes | start, run (send, select, enforce, read), timeout kill, terminate, reclaim of what a dead run left | the pipeline through pipes and signals; the run tool calls it |
| Engine runtime, worker pool: `thread_pool.hpp` | generation, `done_count`, `first_exception`, shutdown, the callable | `parallel_for`, the destructor, the workers' spin and sleep | queries of the engine call it |
| Engine runtime, buffer pool: `olap/ssd/buffer_pool.hpp`, `column_handle.hpp` | frames (page, pin count, reference bit, loading), page map, CLOCK hand | `pin_page`, `unpin_page`, `evict_locked`, `clear` | the worker pool's threads use it through column handles |
| Engine runtime, loaders and queries: `db_loader.cpp`, `parquet_reader.cpp`, `query_impl.cpp` | tables | load, build, run a query | plugins of the pipeline |
| Transport and crash handling: `cpp_runner/cpp_helpers/*` | result files, shared memory, trace buffer | write a result, load Arrow from shared memory, report a signal | the query stage; Python reads the results |

### Serving

| component | state | operations | talks to |
|---|---|---|---|
| Query router: `router/router.py`, `registry.py`, `policy.py`, `guards.py` | binding of each normalized query, quarantine, failure and execution counters | match, guards, run, cross-check, record failure/success, quarantine, register | engines; DuckDB as the reference; shared by a connection and its cursors without a lock |
| Connection: `duckdb_compat/connection.py`, `discovery.py`, `result.py` | registered packages, a shared count of users of the engines, throttles | execute, cursor, discover, promote to shared memory, close | the router, the registry, the engines |
| Engine processes and data planes: `router/process_engine.py`, `shm_transport.py` | an engine's process, its shm segments | start, run, close, ingest | the process driver, the kernel's shm namespace |
| SQL matching and comparison: `router/normalize.py`, `adapt.py`, `observe.py` | none | normalize, bind literals, compare results | the router |
| Capture proxy: `misc/router/pgrouter/*` | recorded queries | relay PostgreSQL messages | separate service |

### Synthesis

| component | state | operations | talks to |
|---|---|---|---|
| Run tool and validation: `tools/run.py`, `tools/validate/*` | cached outcomes, comparison with reference results | compile, reset, run, check | compiler, process driver |
| Compiler and compile cache: `cpp_runner/compiler/*` | artifacts by source hash | compile, look up, publish plugins | pipeline (through the disk) |
| Git snapshotter: `synth_framework/git_snapshotter.py` | one repository for several workspaces | commit, revert, throttled push | conversations, caches |
| Workspace preparation: `cpp_runner/prepare_repo/*` | files of a workspace | copy templates | - |
| Workloads and publication: `workloads/*` | receipts, query cache, engine packages | validate, stage, rename into place | connection (discovery scans the result) |
| Conversations: `conversations/*`, `synth_framework/handle_prompt.py` | the stage of a synthesis, its retries | prompt, check, revert, go on | every tool, the model |
| LLM sessions and caches: `llm/*` | a chain of recorded turns, compaction | record, replay, compact | the model service |
| Agent tools: `tools/workspace_editor.py`, `shell_executor.py`, ... | files of the workspace | edit, run | conversations |
| API and command line; observability | configuration; logs and plots | orchestration; output | all of the above |

### What is hard, and what correct means

- **Hotpatch pipeline.** Four processes, five pipes, a compiler that replaces
  files under them, and any stage may die, throw or fail to fork at any point.
  Correct: every request is answered once, with its own answer, by plugins no
  older than the request; a child is started only on data that exists; no
  process is left untracked; a request or TERMINATE always ends.
- **Process driver.** A timeout races the answer, a process dies while it is
  being read, a process is reused after an error. Correct: an answer is that of
  the request and by plugins no older than it; `run` and `terminate` return,
  whatever plugin code does; nothing of a dead run (process, cgroup, shared
  memory) outlives its reclaim.
- **Worker pool.** Atomics and a condition variable notified without its mutex.
  Correct: each invocation runs once, on a callable that exists; the call
  returns and rethrows exactly its own exceptions.
- **Buffer pool.** The lock is dropped around the read of a page. Correct: a
  pinned page is in the frame its pointer shows; counts balance; an unpinned
  frame is found.
- **Router.** Unlocked counters shared by threads, engines replaced while in
  use. Correct: nothing is served that failed its check, quarantine holds and
  comes neither early nor late, burn-in is checked, bound engines are open.
- **Connection, engines, data planes.** Shared ownership with explicit close,
  promotion while queries run. Correct: an engine is closed once, by its last
  user, and its segments with it.
- **Compiler, caches, snapshotter, publication.** State on disk that outlives
  the process, is written in several steps and shared by several processes.
  Correct: a build that succeeds is of the sources at hand, an entry of a cache
  tells the truth about the snapshot of its key, a restore leaves nothing of
  what was there, a package is visible only when complete and validated.
- **Conversations, LLM sessions.** What they do next is up to the model service;
  what they rely on is the replay of the caches above.

`PROJECT.json` lists each hazard at the line where it bites.

## 2. Modules

| module | models | proofs |
|---|---|---|
| `HotpatchPipeline` | `pipeline.hpp`, `run_parent` of `db.cpp`, and Python's requests | `HotpatchProofs`, 6 theorems |
| `HotpatchRunner` | `HotpatchProc.run` and `terminate` with `ProcTreeTimeoutKiller`, over `HotpatchPipeline`, which it extends | `HotpatchProofs`, 2 |
| `RunProtocol` | what a `HotpatchProc` promises to its caller (abstract), which `HotpatchRunner` implements | the second of these |
| `QueryRouter` | `SynnoRouter.route`, `TemplateRegistry`, discovery and promotion as the router sees them | `QueryRouterProofs`, 8 |
| `GuardedAnswers` | what a caller of `route` is promised (abstract), which `QueryRouter` implements | one of these |
| `EngineLifecycle` | who owns engines, db processes and `/dev/shm` segments: `connection.py`, `discovery.py`, `process_engine.py`, `shm_transport.py` | `EngineLifecycleProofs`, 5 |
| `EnginePublication` | `engine_publish.py`, `validation_receipt.py`, the publish gate, and a runtime that scans the directory | `EnginePublicationProofs`, 6 |
| `EngineCatalogue` | what the engines directory is to its readers (abstract), which `EnginePublication` implements | one of these |
| `ReplayChain` | git snapshots, the caches of edits, commands, compilations and validations, and the receipts of the publish gate | `ReplayChainProofs`, 7 |
| `DirectWork` | the same work without snapshots and caches (abstract), which `ReplayChain` implements | one of these |
| `IncrementalBuild` | `compiler.py` | `IncrementalBuildProofs`, 5 |
| `CleanBuild` | a build that compiles everything every time (abstract), which `IncrementalBuild` implements | one of these |
| `ThreadPool`, `ParallelFor` | `thread_pool.hpp`; what `parallel_for` promises (abstract), which `ThreadPool` implements | `ThreadPoolProofs`, 3 |
| `BufferPool` | `buffer_pool.hpp` under the threads of a query | `BufferPoolProofs`, 6 |
| `PinnedPages` | what the pool promises to a thread with a page (abstract), which `BufferPool` implements | one of these |
| `MCQueryRouter`, `MCEngineLifecycle`, `MCIncrementalBuild`, `MCReplayChain` | symmetry, and values of constants that are functions, for TLC | - |

`HotpatchRunner` composes the driver with the process tree it drives: its steps
are those of `HotpatchPipeline`, with the driver where the environment was. Each
other module is a component on its own. Where components meet, one module holds
both sides: the pipeline with the compiler that replaces its plugins, the
router with the discovery that replaces its engines, the handles with the
engines they share, publishers with the runtime that reads what they publish,
the workspaces with the caches they share. `IncrementalBuild` shows of `build`
what `ReplayChain` takes for granted: a build that succeeds is of the tree.
`ReplayChain` shows of a receipt what `EnginePublication` takes for granted: it
names what was validated. `EngineLifecycle` says of engines what `QueryRouter`
takes for granted: an engine in use has its process and its segments.

### What is left of the plan

1. The pool of processes and `runtime_reset`, as clients of `RunProtocol`.
2. Conversations: the retries and reverts of a stage, as a client of
   `DirectWork`.

## 3. The models and the code

### HotpatchPipeline

Stage `s` of `N` runs `stage_loop_impl`; `pc[s]` is where it is:
`load` (the constructor of `Plugin`), `poll` (the read of the control pipe and
the child's pidfd), `restart`/`grace` (restart-on-source-change with its bounded
stop), `check`/`stop`/`reload` (`needs_reload`, `stop_child`, teardown and
`plugin.reload`), `compute`, `record` (`last_child_build_id` read before the
fork), `fork`, `notify`, `done`, `final` (the reap after `do_run`), `exit`.
`ppc` is where `run_parent` is; `token` and `trace` are the two things
`read_done_and_trace` collects. `doneQ` and `traceQ` are the shared pipes.

A plugin is its build id. Data is the sequence of build ids that made it, so
"computed by which code, from which input" is part of the state: a query's
answer from loader 1, builder 2 and query 2 is `<<1, 2, 2>>`, and a torn-down
table is `<<>>`. `file` is the disk; `Publish` is the compiler's rename and may
happen between any two steps. `Throw`, `ForkFails` and `Crash` are the faults,
each capped (`MaxThrow`, `MaxNoFork`, `MaxCrash`); `CrashAt` names the phases in
which a stage may die and `CrashHow` how: by a signal, by `exit`, or by the
`_exit` of `rearm_pdeathsig_or_exit` ("setup"). No run uses the last two: an
exit code outside `TraceFree` makes `run_parent` wait for a trace that never
comes. `Dies` takes the stages below along, as `PR_SET_PDEATHSIG` does.

The whole handler is in the step, or in the steps it is cut into where another
process can come between; the reap that `do_run` and the poll loop share is
`ReapDeadChild`.

`RunPolicy::Always` is not modelled (nothing in the repository uses it), nor
`start_now` (never true), environments set for a run, and the text of errors.

### HotpatchRunner

`call` is where the driver is: in `run()` (`write`, `select`, `enforce`, `read`),
in `terminate()` (`closing`) or `idle`. `Start` is `_start`: a process that runs
is kept, otherwise a new tree begins on new pipes (`NewTree`). `ready` is what
`select` returned; the watchdog acts between it and the read, so a pipe that
became readable since then is read in the next round. `phase` and `killed` are
those of `ProcTreeTimeoutKiller`; a run has a watchdog of its own. It sees the
tree through `/proc` (`Deepest`, `Observed`), where a zombie is a child like any
other.

Time is abstract: when `enforce` finds the stage it found before, the deadline
may be over (`Expire`) or not (`Watch`). A query timeout is set, as the callers
in the repository do. `Escalate` is the SIGKILL on the process group after the
five seconds of `terminate`.

The tree may hang: plugin code does not return (`stuck`, in the phases of
`HangAt`), may die (`StageDies`), or fall to an OOM kill of its cgroup, which
takes all of it (`OutOfMemory`). `late` is history: a stage of this tree died
without a run in hand, so that its token is one too many; it is reset with the
pipes.

Batch ids are not compared: `run_parent` copies the id of the request, so they
agree always. A line the watchdog's text was appended to is no JSON any more
and gives `timeout`; the end of the pipe gives `exited`, whichever of the two
messages is made of it; a write to a process that died since `_start` raises
(`raised`).

`RunProtocol` is what the caller relies on: a request goes only to a process that
waits for one; `run` returns once, with a line or a failure that is true (no
process, or the watchdog has given up); a line is of its own batch and, while
nothing threw, by plugins no older than those on disk at the send; `terminate`
returns when the process is gone. Nothing in it says how many processes there
are. `Protocol` is the mapping: `Process` is "down" when the tree is gone, "free"
when `run_parent` reads its next command, "busy" otherwise; `Phase` is `call`
with the three places inside a run as one; `late` is `tainted`, the one thing a
caller has to know of the inside (finding 1). Every step of a stage, of the
watchdog and of the compiler is then a step of the protocol or a stutter.

### QueryRouter

A session is a connection or a cursor of it, on a thread of its own. `pc[c]`
walks through `route`: `guard`, `run`, `count`/`store` (`_exec_counts` read and
written back), `sample` (`_should_cross_check`), `check`, `fail`/`trip`
(`_record_failure`), `serve`; and through `promoting`/`closing` of
`_promote_to_shm`. There is one template; instances of its engine are numbered
in the order they are bound. An engine result is `right` when `results_equal`
would say so. `hist` holds what no variable of the code remembers: checks made
and passed, failures recorded, and who was inside `route` when the quarantine
began. A check after the burn-in is a free choice (SAMPLED with a rate strictly
between 0 and 1).

`GuardedAnswers` is what the caller of `execute` may count on: DuckDB answers, or
an engine that was trusted when the query came; of the results that were compared
only right ones are the engine's; trust ends at a difference, or after
`Threshold` failures at the earliest, and does not come back. It has neither
counters nor instances of engines. `Guarded` is the mapping: a session asks while
it is inside `route` (`Inside`), the engine is trusted while it is not
quarantined, and the failures are those recorded, not those counted.

### EngineLifecycle

A process is an incarnation of an application, `pid` its process id, which is
used again after it was killed; a handle is the connection or a cursor, in a
thread of its own; `refs` is `_engine_refcount`. `eng` holds the engine
objects: plane, `_closed`, `_loaded`, and whether there is a db process
(`up`). `dirs` are the ingest directories in `/dev/shm`; they outlive their
process. `bound` is the registry.

A handle binds a hot-load (`BindLive`, `Stage`, `WriteSegments`, `Register`,
`Bound`) or a snapshot (`BindSnapshot`), promotes a parquet binding
(`Promote` ... `Promoted`), or runs a query (`Match`, `GetRunner`, `Launch`,
`Return`). `Stage` sweeps orphans and asks the budget, which admits `Room`
directories; a refusal degrades a first binding to parquet (`Degrade`), is
recorded (`GiveUp`) or leaves `execute` (`PromotionRefused`, finding 3). A write
of segments may fail, and so may a registration, after some queries are bound.

An engine object that nothing refers to is closed by `__del__`; `Release` works
that out at the end of each step, from the registries and the calls in progress
as the step leaves them. An engine closed after another handle got its runner
is started again by that handle, which also makes its directory again: `cut` are
the handles this happened to, `stray` the db processes without an owner, `hurt`
the engines concerned, which `NothingLeaks` leaves out (section 5).

Left out: what a run answers and how long it takes; two threads on one
`HotpatchProc`; a second ingest on a warm process. The mount of a snapshot is
assumed to be on, and the schema of the package to match. Sweep, budget and
`mkdtemp` are one step: between two applications they are not, so a budget may
be overrun by as many as ask at once.

### EnginePublication

A publisher owns a workspace (`disk` is the build in it) and holds a receipt if
its last validation passed. `Publish` is the gate: the receipt is of the build
on disk and of the plane that is offered. A slot is a name or an engine id;
`entry` is the directory it shows, a real one or a version behind a link.

Under an engine id (`Dedup`, `Stage`, `Populate`, `Place`) the rename to the
slot fails if another was first. Under a name (`Lock`, `Stage`, `Populate`,
`Materialize`, `Migrate`, `Flip`, `Gc`, `Published`) the flock is held from
`Lock` on. A publisher may be killed at any step, which frees the flock and
leaves its directories; exceptions remove the staging directory
(`StagingFails`) or leave the version for the next collection (`FlipFails`).
The runtime reads a manifest it has not seen (`Bind`) and re-reads it to promote
(`Promote`); it keeps the directory it bound, and knows packages by engine id.

The queries and the scale factor of a receipt are compared like its planes and
add nothing to the state. `proven` is history: what has passed a validation.

`EngineCatalogue` is the directory as its readers see it: a slot shows a whole
package or none. `Shown` is the package behind a slot's `entry`; it would not be
`whole` if it were incomplete, or its directory collected. In the catalogue a
package under a name is put in, or replaced, by one step (`Flip`), under an
engine id once and for all (`Place`), and only one whose build has passed on
every plane it offers. `Migrate` is the one withdrawal it allows, of a real
directory (`Real`), once for a name. Whatever else publishers do is invisible in
it. The runtime's binding (`Serving`) is the build and the plane it took, so
`Bind` and `Promote` may only take what is shown at that moment.

### IncrementalBuild

Files have a text and a time, objects the texts and flags they were compiled
from and a time, targets the objects they were linked from and a time; every
write takes a new time (a build that writes several files at once writes them
at one time). `Stale` is `needs_rebuild_obj`, `Unlinked` is `needs_relink`;
`cmds` and `links` are `.build_state.json`, written at the end of a build that
succeeded, for all units. `CompileFails` leaves the objects of the commands
that succeeded beside a state file that does not know them, and so do
`KilledCompiling` and `Kill`. `loose` are the units compiled by builds that did
not finish, with flags the state file may not name.

The dependencies of a unit are constants: an edit changes the text of a file and
not which headers it includes. `force_rebuild` has no caller. The C++ compiler
is deterministic and external.

`CleanBuild` is what the callers of `build` think it does: compile everything, fail
if a file does not compile, then link everything, and leave nothing behind. It
has no objects, times or records. `FromScratch` is the mapping: a build has
compiled when it is past `CompileAll` (`stage`), and what it has made is what is
in the objects of its targets (`Product`).

### ReplayChain

Worktrees of one repository (`store`, `ref`) share the caches (`entry`, with
`tmp` the file an entry is written to before it is renamed). A snapshot is a
commit; a tree is the set of changes in it. An operation on snapshot `c` has
the key `<<operation, c>>`. An edit or a command that is found restores the
snapshot of its entry (`Hit`), one that is not is carried out (`Miss`) and
recorded by `Name`, `CommitTree`, `UpdateRef`, `Dump`, `Write`, `Replace`: one
step for each git command or file operation another process can see. A run
compiles (`Compile`), which its cache may answer, then validates (`Executed`, or
`Replayed` from the cache). `bin` is the tree the binaries on disk were built
from: a verdict from the cache leaves other binaries behind, and `Executed`
compiles again for that reason. `forced` is the publish gate, which always
builds, and `receipt` what it attests. A process may run only from the caches
(`replay`), be killed at any step, and start again on the empty snapshot.

Shell commands and patches are functions of the tree they are applied to; a
conversation makes its tool calls one after the other (`parallel_tool_calls` is
off), and an exception a tool does not catch ends the process. Two processes on
one worktree are not modelled: the repository starts one.

`DirectWork` is the same work without commits, keys and caches: an operation is
done to the files, a stage is taken back to files the workspace had, a receipt
names files that compile. `Direct` is the mapping: the files a workspace had
(`Past`) are those of its head's ancestors and those it has now. An operation
takes effect where the files change, at `Miss` or at `Hit`, whoever recorded
what is hit; the recording, a run and a cached verdict are stutters or the
attestation of a receipt; the start of a process, and its death, are `Begin` and
`Stop`.

### ThreadPool and ParallelFor

`mpc` is the caller in `parallel_for` or the destructor, `wpc[w]` a worker in
`worker_loop`. Each access to an atomic that another thread can see is a step;
the test in `idle_cv.wait` (`TestCondition`) and the block (`FallAsleep`) are
two, since the caller notifies without `idle_mutex`. `task_fn` and `task_ctx`
are the number of the call they belong to. `generation` wraps at `GenSize`.
`ParallelFor` is the promise: `Promise` in `ThreadPool` is the mapping to it.
The callable's effects, `num_threads == 1` (no pool at all) and the pinning of
threads to cores are left out.

### BufferPool

Everything under `mu_` is one step; the read of a page is outside it. A thread
holds pages with the frame whose pointer it got (`holds`), `buffer` is what is
in the frame's bytes, torn while a read is on. A thread that throws leaves its
pins behind (`leaked`): no guard releases them, `query()` goes on with the next
query, and only `clear` takes them back. Reads fail at any time. `evict_locked`
is a loop of at most 2N turns: `Try` is a turn, `Turns[k]` what `k` of them
have done, `Sweep` the result. The size of a page, the compaction of
columns, and handles of one thread that pin one page twice are left out.

`PinnedPages` is what a query relies on: a thread asks for a page and gets it, or
gets it at once; it reads that page at its pointer, whatever others do; to unpin
never fails; a pin is refused if `N` other pages are in use, or when its own read
fails. It has no frames. `Promised` is the mapping: what a thread sees (`Views`)
is what is in the bytes its pointers lead to, a page it asks for (`Asks`) is one
it reads or waits for, and a page is in use as well when pins of it were left
behind (`Left`). `spoiled` is `broken`: nothing is promised until the next clear.

## 4. Runs

Every run is exhaustive for its bounds.

| run | bounds | what it shows |
|---|---|---|
| `pipeline_faults` | 3 stages as `make_pipeline` builds them for OLAP (loader restarts its child, query always reloads, loader and builder tear down), 2 builds of each plugin, 2 batches, one throw, one failed fork, two crashes while a batch is handled (`CrashAt`) | every batch is answered, or `run_parent` ends, and leaves the answer pipes empty; each answer is no older than the plugins at its send and computed from input that exists; one tracked child per stage, whose recorded build id is never newer than its own; TERMINATE ends the chain |
| `runner` | the same stages and batches, 2 builds of the loader, one trouble: a hang while loading, reloading or computing, a death while loading or computing, or an OOM kill; deadlines that pass at any time | a response that is parsed is of its own run and fresh, if no stage died without a run in hand, and requests only go to a process that waits: it implements `RunProtocol`; `run` and `terminate` return |
| `runner_late_kill` | one build, 2 batches, no trouble | **violation**, finding 1 |
| `router_shared` | 2 sessions, burn-in 1, threshold 2, 4 queries, 3 instances, one failed reference, one comparison that raises | it implements `GuardedAnswers`: fail closed, one answer per query, a quarantine that holds and is not early; bound engines are open, exact counters for a session alone |
| `router_burn_in` | 2 sessions, 3 queries | **violation**, finding 2 |
| `engines` | 2 applications, a connection and a cursor each, 2 pids, 2 queries in the package, 3 engines at a time, room for one hot-load, one failed write or registration | a healthy hot-load has its segments; processes and segments belong to an engine in use; a close disturbs no other handle; only the living use up the budget |
| `engines_small_shm` | the same without failures | **violation**, finding 3 |
| `publication` | 2 publishers, names `n` (published before there were version directories) and `m`, 2 builds of one engine id, 3 directories, 2 validations that pass, one kill; a runtime that watches `n` | what is visible is whole and validated on every plane it offers, and a runtime serves such a plane; it implements `EngineCatalogue` |
| `build` | units over `{a, h}` and `{h}`, a plugin of both and `db` of the second; 2 texts that compile and one that does not, 2 flag sets, 7 times | it implements `CleanBuild`: a build ends as one from scratch, and makes the same; it uses the flags at hand and leaves nothing to do |
| `replay` | 2 worktrees, an edit that compiles and one that does not, 3 commits, 2 starts | it implements `DirectWork`; entries tell the truth and have a ref; a receipt names what was run; a replay writes nothing |
| `pool` | 3 workers, counter of 2 values, 3 calls, any of them throwing | implements `ParallelFor`; the callable is alive when used; a call and the destructor end unless a worker sleeps on |
| `buffer` | 2 threads with up to 2 pins, 3 pages, 2 frames, 2 queries between clears | it implements `PinnedPages`; counts and map exact as long as no read fails under waiters; the sweep is CLOCK; a waiter is served |

Why the bounds are enough:

- *Pipeline.* Three stages are what the code builds; they have every role (first,
  inner with restart above, terminal). Two builds make one change, which can come
  at any step of either batch, for each plugin on its own; two batches are the
  run in which something happened and the one that finds what it left. A stage
  may die in every phase between the receipt of a RUN and its end but `done`;
  left out are `load`, `done`, `final` and `poll`: a death there is that of
  finding 1, or the first two of the limits below, and would hide everything
  else; and `exit`, where the stage is about to go anyway. Deaths are by signal.
  Two crashes make a stage die while its parent recovers from the first.
- *Runner.* The tree under it is bounded as above. One trouble beside the kills
  of two watchdogs and the one of `terminate` is enough for a tree that is dead,
  half dead or stuck when the second run comes, and one change of the loader
  makes that run a reload or a restart of a warm tree. A death while loading is
  in these bounds, and with it the RUN that is lost (the second limit below): the
  deadline of the build stage ends it.
- *Router.* Two threads are enough for every lost update, since each is between
  one read and one write back; threshold 2 distinguishes "a failure" from
  "failures in a row". Three instances let two promotions race one discovery.
- *Engines.* A handle's steps touch the engines of its own process, so a
  connection and one cursor make every pair; two applications share only
  `/dev/shm`, where one is swept by the other. One pid can be used again. Two
  queries leave a registration half done. Three engines are one bound, one
  superseding it and one that was left by a killed process. Room 1 makes the
  second hot-load the refused one.
- *Publication.* Of one name, one publisher and its successor are all the lock
  admits, and with two names a second is at work beside it. Three directories
  are the migrated one, the version that is shown and the one that replaces it.
- *Build.* Two units that share one of their files have an object that is stale
  beside one that is not; a target of both and one of a single unit differ in
  what a relink waits for; seven times cover a build that fails, an edit, a
  restored text and a build that succeeds, with the ones between them killed.
- *Replay.* Two workspaces race for one key; a commit may fail to compile, be
  taken back and be made again; two starts are two workspaces or one that was
  killed. A third commit is a chain of operations, so that an entry is replayed
  on the result of another.
- *Pool.* A worker is at most one call behind, so two values of the counter
  already make the generation it slept through come back; three calls wrap it
  around. With three workers `done_count` counts a proper subset.
- *Buffer.* Three pages in two frames force an eviction, two threads with two
  pins each fill the pool and fail; pins left behind accumulate over two queries.

Each property of a passing run has a mutant in `PROJECT.json`: a slip in the
code's step (the "bug variants" in the modules) under which TLC finds the
property violated.

**Symmetry** is used where only invariants and action properties are checked
and nothing orders the values: sessions of the router; processes, pids and
engine names; worktrees.

**Fairness.** Pipeline: the scheduler runs each process, and plugin callbacks
return; nothing obliges Python to send, the compiler to publish, or a stage to
die, throw or fail to fork. A stage in its grace period may be killed or end on
its own. Runner: the same, but plugin code may hang; the driver runs its loop,
and a watchdog that looks again and again at a stage that stays finds its
deadline passed (strong fairness of `Expire`, which is enabled in one of the
driver's phases only). Pool: caller and workers are scheduled and callables
return; nothing obliges a spinning worker to give up, or a sleeping one to wake
spuriously. Buffer: a read ends, by success or failure, and a notified waiter
gets the lock. Router, engines, publication, build and replay have no liveness
property: a caller, a publisher or an agent may stop anywhere and for good, and
what they leave behind must be right then.

**Deadlock** is checked, with the states where everything has ended as explicit
stutters (`Ended`, `Gone`, `Resting`), but for `build`, `replay`, `engines` and
`engines_small_shm`, where the bounds end a behaviour (no time, commit, start,
process or engine name is left). A driver that calls no more is `Rest`.

## 5. Findings

1. `runner_late_kill`: `run` lets the watchdog act after `select` and before it
   reads what `select` found (`hotpatch_proc.py:529`). At its deadline it kills
   the query stage although the answer is there and the stage is idle: this run
   is reported as timed out, `reap_dead_child` (`pipeline.hpp:618`) writes a
   token for the death, nothing drains it, and the next run is answered by it
   under its own batch id, which the comparison of ids cannot notice. Any death
   of a stage after its batch was answered does the same, and a query stage that
   dies between its trace and its token (`done`) leaves its trace behind.
2. `router_burn_in`: the execution count is raised before the check is decided,
   so two sessions push each other past the burn-in, and an unverified result is
   served (`router.py:335`). The same order makes a failed reference count as
   one of the burn-in's executions: `BurnInChecked` therefore counts checks
   begun, `ProvenFirst` those that passed.
3. `engines_small_shm`: a promotion whose ingest is refused by the budget of
   `/dev/shm`, or fails, raises out of `execute`, although the parquet engine is
   bound and well and "a query never crashes over discovery"
   (`discovery.py:384`).

### Other limits met while modelling

These are in the models, or outside what they cover, and no run is made for
them. The passing properties are stated around the first group.

*Pipeline, driver, pools, router.*

- After a reload whose compute throws, `has_run` is still true, and the next RUN
  forks the child on torn-down data (`pipeline.hpp:891`): `InputProduced` and
  `AnswerIsFresh` are checked and proved as long as nothing threw.
- A child that dies before its first RUN leaves `child_active` over an invalid
  handle, and the next RUN is never answered (`pipeline.hpp:916`). Its parent is
  idle then, and the driver waits until the watchdog's build deadline, 40 minutes,
  kills that parent, which nothing is wrong with.
- The watchdog kills once in a run (`proc_utils.py:54`). If plugin code hangs
  after that, for instance when the kill hit a chain that is being stopped for a
  reload, `run` waits for ever: `CallEnds` leaves that out.
- The query deadline runs as soon as there is a process at the query's depth: in
  a warm tree from the send on, so a reload of the loader or the builder is
  charged to the query until it has stopped its children, whatever the comment
  at `hotpatch_proc.py:500` says of the builder.
- The notification of the worker pool can fall between the test of the condition
  and the sleep: the call never returns (`thread_pool.hpp:171`).
  `ReturnsIfRoused` and `ClosesIfRoused` hold when no worker sleeps through a
  raised generation for ever.
- A thread waiting for a page whose read fails gets the frame without the page
  and without a pin (`buffer_pool.hpp:125`). The invariants of `BufferPool` hold
  until then (`spoiled`, ended by the next clear).
- Registering an engine again does not lift the quarantine, as the log line says
  it does (`registry.py:94`, `router.py:214`).

*Engines.*

- `close()` called twice on a handle lowers the shared count twice
  (`connection.py:449`); the model closes a handle once.
- A registration that fails half way closes the engine and leaves the queries
  registered so far bound to it; a cursor has its own `_registered`, and its
  discovery binds again what was bound, also over a promoted engine. Such
  queries fall back to DuckDB.
- A run that got its runner before `close()` starts a db process nobody owns,
  and makes the removed ingest directory again (`hurt`).
- A package without a snapshot that the budget refused once is not tried again
  by that handle (`GiveUp`).

*Publication.*

- A publisher killed between the two renames of the one-time migration of a real
  directory leaves the name absent, where `_publish_named` says "never a
  missing engine" (`Migrate`): the catalogue has `Withdraw` for that step.
- A publication without a name finds its engine id taken and returns the older
  package, built by another compiler run or for other planes
  (`engine_publish.py:358`).
- Staging directories and links of killed publishers are never swept.
- A runtime that has a package bound may start the republished build on the
  plane chosen from the old manifest, and the collection of versions may remove
  one that a process is about to start from: `ServesProven` is about the
  package a slot still shows.

*Build and replay.*

- A failed or killed build leaves objects with flags the state file does not
  know; if the flags are changed back in between, a later build links them
  (`compiler.py:551`): `BuiltWithFlags` leaves out `loose` units.
- A process killed between `update-ref` and the dump of the entry leaves a ref
  that makes the same operation fail its assertion at the next run (`Name`;
  `misc/CAUGHT_ERRORS_IN_GENERATION.md` G4).
- The callback that compiles again before a validation does not look at the
  result (`tools/run.py:623`). In the model this is harmless, since a cached
  verdict "compiles" is that of the same tree and the compiler is deterministic.
- Two workspaces that record one key at once overwrite each other's ref, and one
  of them may find its temporary file moved away and fail. `EntryFaithful` and
  `EntryAnchored` hold nevertheless.

## 6. Proofs

All theorems are for every value of the constants the module's assumptions
admit (`PipelineAssumption`, `RouterAssumption`, `PoolAssumption`,
`BufferAssumption`, `PublicationAssumption`, `NoneAssumption`, and the named assumptions of
`IncrementalBuild`, `ReplayChain` and `EngineLifecycle`). They say of what kind
the constants are, that finite sets are finite and that `None` is no member of
what it stands beside. The `Max...` constants bound counters for TLC, and the
theorems hold for any natural number in their place. An invariant called `IInv`
is inductive; it is the type invariant and the parts named below, and the
theorems follow from it.

**Pipeline.** `TypeCorrect` needs, beside `TypeOK`, that a stage past its
constructor has loaded something (`VarTypes`): the terminal stage appends its
build id to its result. `OneTrackedChild` and `RecordIsConservative` come from
`TreeInv`: between the decision to recompute and the fork there is no child
(`NoChildWhileBuilding`), or `Fork` would start a second one; only a stage that
has run forks; the terminal stage has no child; the id recorded for a child was
on disk when it was read (`RecordWasOnDisk`), where ids only grow, so the child,
which loads later, loads at least that. `InputWithoutThrow` needs the extra
`InputInv`, of the states in which nothing has thrown: that is the assumption
`InputProduced` makes itself, and a throw after a reload shows that it is needed.

`OneAnswerPerRun` and `HotpatchTaken` assume `TimelyDeaths`: a stage may die
while it works on a batch, not before it took one or after it answered (the
limits of section 5 are what happens then). The batch in flight is a baton: with
the stage that works on it (`Serving`), in the control pipe of the stage that is
to take it (`Called`), or with a dead child whose parent will report it
(`Fallen`). `BatonInv` says that there is at most one, and that while there is
one nothing has been answered; every step keeps it, hands it on, or turns it into
a done token. Its keeping needs `OrderInv`: the live stages are the first ones,
and a stage is only told to end by a parent that waits for its end, so the death
of a stopped child drops no baton. `TraceInv` ties the trace pipe to the done
pipe: while `run_parent` waits, a trace is on its way exactly when a success is.
For freshness, `HeldInv` says that a stage holds its input and its own build id,
and was given what its parent still holds; `FreshInv` that the baton only gets
to a stage when all stages before it hold data new enough for the batch.

**Driver.** `RunnerAnswersItsOwn` (`OwnUnlessLate`) assumes nothing of the
deaths: `late` says in the model itself which of them count. Every step of the
driver is, for the tree, a step of the pipeline (`Move`), the death of one stage
(`Death`: the watchdog's victim, or one that dies by itself) or of all at once
(an OOM kill, the SIGKILL of `terminate`), or it begins a new tree, for which all
holds as at the start (`Begun`). So the invariants above carry over in
two groups. `Always` holds whatever happens. `Sound` holds while `late` is false
and the tree runs: a death that is not late is `Covered`, which is to say that
the batch is at or below the dying stage, or already with a dead child, and
nothing has been reported, so what is reported for it is the one answer. What
the pipeline's proof did not need is whose batch it is (`JobInv`): the baton
only goes down the chain (`GoesDown`), the stages above it took the last batch
(`Passed`), and what is on its way to the parent is of that batch (`OwnPipes`).
That the watchdog's victim exists (`Deepest`) needs that a set of stages has a
last one, from well-foundedness.

`RunnerImplementsProtocol` says the rest of what a caller relies on. It needs
that driver and `run_parent` are in step (`StepInv`): outside a run `run_parent`
reads its next command or is gone, inside `terminate` it reaps or is gone, and
what `select` found, a line or the end of the pipe, is still there when it is
read, whatever the watchdog did in between. The steps of the tree are then
sorted by what `run_parent` makes of them: it moves on by itself only when it
writes a line (`Finish`) or ends (`Die`), and a stage's death only shows in
`tainted`. That the line is its own and fresh is the invariant above.

**Router.** `RouterInv` has one part per theorem. `NeverFailsOpen`: a session
only gets past the check with a result found equal (`CheckedIsEqual`).
`QuarantineHolds`: who is inside `route` after the quarantine was inside when it
began and has served nothing since (`InsideIsCut`). `NoEarlyBreak`: the counter,
and the copy a session is about to write back, lag behind the failures recorded
(`CounterLags`), whatever updates are lost. `BoundStaysOpen`: what was closed, or
is about to be, is older than what is bound (`ClosedIsOlder`). `RouterTyped`
also needs that a fault never gets as far as the check or the answer.
`BreakerIsExact` and `BurnInHolds` are about a session alone (`AloneExact`): a
session that has entered `route` stays among those that have, so `Alone` later
is about the same session as `Alone` now, and for it the counters equal the
history.

`RouterGuardsAnswers` sorts the steps by what a caller sees of them: `Match` asks
the engine or answers from DuckDB, `ServeEngine`, `GuardsRefuse`,
`ReferenceFails`, `Diverged` and `TripBreaker` answer, and all counting, sampling,
discovery and promotion is a stutter (`OutsideMaps`). What it takes is that
nothing reaches `serve` but a result (`Served`), compared ones only if equal
(`CheckedIsEqual`), and that a count at the threshold means as many recorded
failures (`CounterLags`). `QuarantineHolds` is the older, weaker statement.

**Engines.** Most steps end in `Release`, and what it does to one engine is
stated once (`ReleaseFacts`). Then each resource has someone who gives it back:
a directory, the loaded engine or the handle that still writes it (`Segments`); a
db process, an engine in use (`Used`) or the history of engines closed under a
run (`Runners`). An engine under construction is one handle's (`Builders`), so a
failed write removes no other's directory. `Outlive` needs that the count is the
number of open handles, which is part of `TypeOK`; `Refused`, that a directory
of a dead owner is an orphan to every living process, whoever has its pid.

**Publication.** A publisher past the lock of a name is the only one
(`LockCovers`), and its directory is nobody else's (`OwnUnique`) and not yet
visible; a link leads to a version of its own name and no two slots share one
(`EntryPlaced`, `EntryUnique`), so the collection of one name takes nothing that
another shows. What passes the gate was validated and stays what it was while
it is copied (`JobProven`, `OwnProven`), and a binding stays proven because no
directory is written twice (`BoundProven`).

`DirectoryIsCatalogue` sorts the steps by what readers see. Whatever is done to a
directory that no slot leads to changes nothing (`HiddenStep`): that covers
staging, copying, the rename to a version, and the collection, which by
`EntryUnique` and `EntryPlaced` never meets a directory that is shown. `Place`,
`Flip` and `Migrate` are the catalogue's `PutOnce`, `Put` and `Withdraw`
(`OwnIsPackage` says that what is put in is whole and proven), and `EngineKept`
says that what is published under an engine id is of that engine from the gate
to the rename. `Stays` is the older, weaker statement about entries alone.

**Build.** Every write takes a new time. So an object that is not older than a
file was compiled from the text the file still has (`Fresh`), a target that is
not older than an object holds that object (`Held`), and the state file knows
the flags of every object that is not loose (`Known`). What a build does not
redo is right for these reasons, and what it redoes is right because it is new.

`BuildsFromScratch` adds the verdict. What was compiled did compile (`Wrought`),
so a unit that is not compiled again, whose files are what they were, compiles
still: a build may pass over it and fails exactly where one from scratch would.
Linking and the death of a build are stutters or leave nothing. `FromSources` is
the older, weaker statement.

**Replay.** `AtWork` says what a process knows at each step of an operation: the
tracked files are its effect on the snapshot of the key, then so is the commit,
then the commit has a ref. What is written to a temporary file is right for its
key (`Temporaries`), so it does not matter whose file a rename publishes
(`Entries`), nor which of two equal commits a ref names in the end (`Refs`).

`CachesAreTransparent` needs more of an entry than its files: the snapshot it
restores is the one of its key or a child of it (`Kin`), so a workspace that
takes a recorded operation over goes on from its own past, as if it had done the
operation itself. `KinInv` says that of entries, temporary files and work in
progress. `Ancestors` is a recursive function, so what it is (`Lineage`) has to
be derived from its definition: `UpExists` shows, by a least counterexample
(`Least`), that for every length of the store there is a function with its
equations. Then a new commit leaves the ancestors of the others alone
(`AncestorsStay`), and an ancestor's ancestors are among them
(`AncestorsDown`), which is what a revert to one needs. Each step of an
operation is mapped by a lemma of its own (`DoMaps`, `HitMaps`, `RevertMaps`,
...). `AtHead` is the part of the invariant that says that between operations
the files are those of the head.

**Worker pool.** `PoolInv` says for each step of the caller where each worker can
be: during a call it is unaware of the generation, on its way to the callable, or
behind it, and `done_count` is the number of those behind it (`DoneInv`). So the
caller leaves `wait` only when all are behind, and at the raise of the next
generation every worker has taken the last one: a counter of any size above one
can wrap around. `CallableOutlivesUse` and `PoolImplementsPromise` (every step
maps to a step of `ParallelFor` or to a stutter) follow.

**Buffer pool.** What `k` turns of the sweep have done (`SweptFor`) is shown for
all `k` by induction: which frames the hand has passed, that their bits are
cleared and that none of them could be taken. After `2N` turns this is
`SweepIsClock`. The induction theorem of the library takes an operator, so
`Induction` states the principle for a set, from the well-foundedness of finite
subsets. `IInv` says who may hold a pointer or wait (`Calls`), that pointers,
reads and loaded frames do not get into each other's way (`Sound`), and that map
and counts are exact; a failed read under waiters ends all but the types and
`Calls`, until a clear.

`PoolKeepsPins` maps each operation by a lemma of its own (`HitMaps`, `MissMaps`,
`FullMaps`, ...); `Untouched` is what most of them share: no step writes to bytes
that someone has a pointer to, nor moves a page whose pins were left behind. That
an unpin is not refused (`UnpinNotRefused`) is that a held page is still mapped
to its frame, which is pinned (`HeldIsMapped`). That a full pool means `N` other
pages in use (`FullMaps`) takes the sweep (all frames are pinned), the counts (a
pinned frame is used, held or was left), `LeftHavePages` (also a frame that was
left has a page), which is inductive on top of `IInv`, and the map (no page is in
two frames, so the `N` frames have `N` pages). That a failed read spoils the pool
exactly when others have asked for its page (`ReadFailsMaps`) is that waiters
wait for a frame with the page they want (`Pending`).

**Only model-checked.** Liveness (`RunAnswered`, `TerminateEnds`, `CallEnds`,
`ReturnsIfRoused`, `ClosesIfRoused`, `WaiterServed`): the provers at hand have
no rules for fairness.

## 7. Not modelled

- Of the process driver: the set-up of cgroups and its fallback, stdin, stdout
  and stderr, the pool's table and fingerprints, `runtime_reset`, the exception
  of `terminate` after a non-zero exit. Read from the code, not checked: threads
  that share an engine share an unlocked `_next_batch_id` and its pipes;
  `terminate_all`, and so `reset_warm_runtime`, stops at the first runner whose
  `terminate` raises; an answer with another batch id would leave the rest in
  the pipe.
- The sessions of the model service and the stages of a conversation: what they
  do next is not determined by this code. The cache of the sessions has the
  scheme of `ReplayChain` with the conversation for a key.
- Matching and comparing SQL results, result transport, the loaders and queries of
  an engine: functions of their input, without control of their own. A crash is a
  death of a stage in `HotpatchPipeline`.
- Of the router: the OFF and BESPOKE_ONLY modes, which skip what is modelled;
  `mark_tables_dirty`, `reset_quarantine` and `unregister`, which have no caller
  in the program.
- Of the run tool: workloads of several batches, the limits of resources, the
  message to the agent. Of the snapshotter: push and fetch, the set-up of
  repositories. Of the workloads: the derivation of templates, the generation of
  workloads, the cache of reference results. Of the agent's tools: how a patch is
  applied, the sandbox of the shell, and the inspection of data.
- The templates of a workspace, the API and the command line, logs, plots and
  dashboards: sequential, or without effect on the rest. The capture proxy is a
  separate service.
- git, the C++ compiler, DuckDB, the kernel and the model service are external.
