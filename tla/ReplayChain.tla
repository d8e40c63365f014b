---------------------------- MODULE ReplayChain ----------------------------
(***************************************************************************)
(* Record and replay of an agent's work on a workspace: the git snapshots, *)
(* and the caches of edits, shell commands, compilations and validations   *)
(* that are keyed by the current snapshot.  An operation looks up the key  *)
(* of its snapshot; a hit restores the snapshot the entry names, a miss    *)
(* does the work, snapshots the result under the key and stores an entry.  *)
(* Workspaces are worktrees of one repository and share the caches; each   *)
(* is worked on by one process, which may be killed at any step.           *)
(***************************************************************************)
EXTENDS Naturals, Sequences

CONSTANTS
  Workspace,
  Edit,       \* patches and commands: each makes or takes back one change
  Broken,     \* the changes that do not compile
  None,
  MaxCommit,  \* bound: snapshot commits made
  MaxStart    \* bound: processes started

ASSUME Changes == Broken \subseteq Edit
ASSUME Tools == {"build", "run"} \cap Edit = {}
ASSUME NoneIsNew == None \notin Nat
ASSUME Bounds == MaxCommit \in Nat \ {0} /\ MaxStart \in Nat

VARIABLES
  store,    \* the commits of the shared repository: tree and parent
  ref,      \* refs/snapshots: the commit named by a key, or None
  entry,    \* the caches: the entry of a key, or None
  tmp,      \* the temporary file an entry is written to
  pc,       \* where the process of a workspace is
  tree,     \* the tracked files of a workspace
  head,     \* its current_hash
  bin,      \* the tree its binaries were last built from
  replay,   \* whether its process runs with only_from_cache
  job,      \* what its process is doing
  starts,
  receipt   \* history: for each publish receipt, the tree built and the one run

shared == <<store, ref, entry, tmp>>
local == <<tree, head, bin, replay, job>>
vars == <<shared, pc, local, starts, receipt>>

Tree == SUBSET Edit
Commit == 1..MaxCommit
Base == 1                  \* create_empty_snapshot: the same commit for a name
Key == (Edit \cup {"build", "run"}) \X Commit

Contents(c) == store[c].tree
Compiles(t) == t \cap Broken = {}

\* What an operation does to the tracked files.
Effect(o, t) ==
  IF o = "run" THEN t ELSE (t \cup {o}) \ (t \cap {o})

Entry == [commit : Commit \cup {None}, of : Tree \cup {None}]

Job == [key : Key \cup {None}, commit : Commit \cup {None}, of : Tree \cup {None},
        runs : BOOLEAN, forced : BOOLEAN, cached : BOOLEAN]

Idle == [key |-> None, commit |-> None, of |-> None,
         runs |-> FALSE, forced |-> FALSE, cached |-> FALSE]

Init ==
  /\ store = <<[tree |-> {}, parent |-> None]>>
  /\ ref = [k \in Key |-> None]
  /\ entry = [k \in Key |-> None]
  /\ tmp = [k \in Key |-> None]
  /\ pc = [w \in Workspace |-> "off"]
  /\ tree = [w \in Workspace |-> {}]
  /\ head = [w \in Workspace |-> Base]
  /\ bin = [w \in Workspace |-> None]
  /\ replay = [w \in Workspace |-> FALSE]
  /\ job = [w \in Workspace |-> Idle]
  /\ starts = 0
  /\ receipt = {}

Goto(w, p) == pc' = [pc EXCEPT ![w] = p]

RestoreWithoutReset(w, c) ==
  /\ tree' = [tree EXCEPT ![w] = Contents(c) \cup (@ \ Contents(head[w]))]
  /\ head' = [head EXCEPT ![w] = c]

\* git switch and reset --hard; the build directory is ignored by git.
Restore(w, c) ==
  /\ tree' = [tree EXCEPT ![w] = Contents(c)]
  /\ head' = [head EXCEPT ![w] = c]

\* The process ends, killed or by an exception no tool catches.
Ends(w) ==
  /\ Goto(w, "off")
  /\ job' = [job EXCEPT ![w] = Idle]

-----------------------------------------------------------------------------
(* The process of a workspace. *)

\* prepare_repo_and_load_snapshot without a start snapshot: everything that is
\* not the empty snapshot goes, ignored build products too.
Start(w) ==
  /\ pc[w] = "off" /\ starts < MaxStart
  /\ starts' = starts + 1
  /\ Restore(w, Base)
  /\ bin' = [bin EXCEPT ![w] = None]
  /\ \E b \in BOOLEAN : replay' = [replay EXCEPT ![w] = b]
  /\ Goto(w, "idle")
  /\ UNCHANGED <<shared, job, receipt>>

Kill(w) ==
  /\ pc[w] # "off"
  /\ Ends(w)
  /\ UNCHANGED <<shared, tree, head, bin, replay, starts, receipt>>

Ancestors(c) ==
  LET up[d \in 1..Len(store)] ==
        {d} \cup (IF store[d].parent = None THEN {} ELSE up[store[d].parent])
  IN  up[c]

\* _revert_stage: back to the snapshot a stage started from.
Revert(w) ==
  /\ pc[w] = "idle"
  /\ \E c \in 1..Len(store) :
       c # head[w] /\ c \in Ancestors(head[w]) /\ Restore(w, c)
  /\ UNCHANGED <<shared, pc, bin, replay, job, starts, receipt>>

-----------------------------------------------------------------------------
(* Edits and commands: the lookup of WorkspaceEditor._run_cached and of    *)
(* ShellExecutor.__call__.                                                 *)

Hit(w, o) ==
  /\ pc[w] = "idle" /\ entry[<<o, head[w]>>] # None
  /\ Restore(w, entry[<<o, head[w]>>].commit)
  /\ UNCHANGED <<shared, pc, bin, replay, job, starts, receipt>>

Miss(w, o) ==
  /\ pc[w] = "idle" /\ entry[<<o, head[w]>>] = None
  /\ IF replay[w]
       THEN Ends(w) /\ UNCHANGED tree
       ELSE /\ job' = [job EXCEPT ![w] = [Idle EXCEPT !.key = <<o, head[w]>>]]
            /\ tree' = [tree EXCEPT ![w] = Effect(o, @)]
            /\ Goto(w, "name")
  /\ UNCHANGED <<shared, head, bin, replay, starts, receipt>>

-----------------------------------------------------------------------------
(* GitSnapshotter.snapshot, one step per git command that others can see.  *)

\* is_snapshot_name_unique, asserted.
Name(w) ==
  /\ pc[w] = "name"
  /\ IF ref[job[w].key] = None THEN Goto(w, "commit") /\ UNCHANGED job ELSE Ends(w)
  /\ UNCHANGED <<shared, tree, head, bin, replay, starts, receipt>>

CommitUnanchored(w) ==
  /\ pc[w] = "commit"
  /\ IF tree[w] = Contents(head[w])
       THEN /\ job' = [job EXCEPT ![w].commit = head[w]]
            /\ Goto(w, "dump")
            /\ UNCHANGED store
       ELSE /\ Len(store) < MaxCommit
            /\ store' = Append(store, [tree |-> tree[w], parent |-> head[w]])
            /\ job' = [job EXCEPT ![w].commit = Len(store')]
            /\ Goto(w, "ref")
  /\ UNCHANGED <<ref, entry, tmp, tree, head, bin, replay, starts, receipt>>

\* add -A and commit, or the parent again when nothing changed.
CommitTree(w) ==
  /\ pc[w] = "commit"
  /\ IF tree[w] = Contents(head[w])
       THEN /\ job' = [job EXCEPT ![w].commit = head[w]]
            /\ UNCHANGED store
       ELSE /\ Len(store) < MaxCommit
            /\ store' = Append(store, [tree |-> tree[w], parent |-> head[w]])
            /\ job' = [job EXCEPT ![w].commit = Len(store')]
  /\ Goto(w, "ref")
  /\ UNCHANGED <<ref, entry, tmp, tree, head, bin, replay, starts, receipt>>

\* update-ref, whatever the ref holds by now; then current_hash.
UpdateRef(w) ==
  /\ pc[w] = "ref"
  /\ ref' = [ref EXCEPT ![job[w].key] = job[w].commit]
  /\ head' = [head EXCEPT ![w] = job[w].commit]
  /\ Goto(w, "dump")
  /\ UNCHANGED <<store, entry, tmp, tree, bin, replay, job, starts, receipt>>

-----------------------------------------------------------------------------
(* utils.dump_pickle. *)

\* The guard: an entry that exists is never overwritten.
Dump(w) ==
  /\ pc[w] = "dump"
  /\ IF entry[job[w].key] = None THEN Goto(w, "write") /\ UNCHANGED job ELSE Ends(w)
  /\ UNCHANGED <<shared, tree, head, bin, replay, starts, receipt>>

\* atomic_write: the temporary file has the same name for every writer.
Write(w) ==
  /\ pc[w] = "write"
  /\ tmp' = [tmp EXCEPT ![job[w].key] = [commit |-> job[w].commit, of |-> job[w].of]]
  /\ Goto(w, "replace")
  /\ UNCHANGED <<store, ref, entry, local, starts, receipt>>

\* What a finished operation leaves of its job, and where it goes.  A run goes
\* on from its compilation to its validation, unless that gave an error.
Continue(w) ==
  IF job[w].key[1] = "build" /\ job[w].runs /\ Compiles(job[w].of)
    THEN Goto(w, "validate") /\ UNCHANGED job
    ELSE Goto(w, "idle") /\ job' = [job EXCEPT ![w] = Idle]

\* The receipt of the publish gate: the build ids on disk, the verdict given.
Attest(w, ran) ==
  receipt' = IF job[w].forced
               THEN receipt \cup {[built |-> bin[w], ran |-> ran]} ELSE receipt

\* os.replace: it publishes whatever the temporary file holds by now, and fails
\* when another writer has moved it away.
Replace(w) ==
  /\ pc[w] = "replace"
  /\ IF tmp[job[w].key] = None
       THEN Ends(w) /\ UNCHANGED <<entry, tmp, receipt>>
       ELSE /\ entry' = [entry EXCEPT ![job[w].key] = tmp[job[w].key]]
            /\ tmp' = [tmp EXCEPT ![job[w].key] = None]
            /\ IF job[w].key[1] = "run"
                 THEN Attest(w, job[w].of) ELSE UNCHANGED receipt
            /\ Continue(w)
  /\ UNCHANGED <<store, ref, tree, head, bin, replay, starts>>

-----------------------------------------------------------------------------
(* Compilation: CachedCompiler.build_cached.  An entry is a verdict; the   *)
(* binaries are only ever on disk.                                         *)

\* A build leaves the binaries of the last tree that compiled.
Built(w, t) == IF Compiles(t) THEN bin' = [bin EXCEPT ![w] = t] ELSE UNCHANGED bin

AnsweredForced(w, k, forced) == entry[k] # None
RecordedInReplay(w, k) == entry[k] = None

\* A recorded verdict answers, except the publish gate, which needs binaries.
Answered(w, k, forced) == entry[k] # None /\ ~forced

\* A recorded verdict stays, and a replay records none.
Recorded(w, k) == entry[k] = None /\ ~replay[w]

\* The compile tool (runs FALSE), the run tool, and the run tool of the publish
\* gate (forced).
Compile(w, runs, forced) ==
  /\ pc[w] = "idle" /\ (forced => runs)
  /\ LET k == <<"build", head[w]>>
         j(cached) == [key |-> k, commit |-> None, of |-> tree[w],
                       runs |-> runs, forced |-> forced, cached |-> cached]
     IN  \/ /\ Answered(w, k, forced)
            /\ IF runs /\ Compiles(entry[k].of)
                 THEN /\ Goto(w, "validate")
                      /\ job' = [job EXCEPT ![w] = j(TRUE)]
                 ELSE UNCHANGED <<pc, job>>
            /\ UNCHANGED bin
         \/ /\ ~Answered(w, k, forced) /\ replay[w] /\ ~forced
            /\ Ends(w) /\ UNCHANGED bin
         \/ /\ ~Answered(w, k, forced) /\ (forced \/ ~replay[w])
            /\ Built(w, tree[w])
            /\ CASE Recorded(w, k) -> Goto(w, "dump") /\ job' = [job EXCEPT ![w] = j(FALSE)]
                 [] ~Recorded(w, k) /\ Compiles(tree[w]) ->
                      Goto(w, "validate") /\ job' = [job EXCEPT ![w] = j(FALSE)]
                 [] OTHER -> UNCHANGED <<pc, job>>
  /\ UNCHANGED <<shared, tree, head, replay, starts, receipt>>

-----------------------------------------------------------------------------
(* Validation: QueryValidator.exec_and_validate, called by run_query_batch. *)

\* A recorded verdict is replayed and its snapshot restored.  A run that had to
\* compile expects none: that the caches are chained is asserted.
Replayed(w) ==
  LET e == entry[<<"run", head[w]>>] IN
  /\ pc[w] = "validate" /\ e # None
  /\ Restore(w, e.commit)
  /\ IF job[w].cached \/ job[w].forced
       THEN /\ Attest(w, e.of)
            /\ Goto(w, "idle") /\ job' = [job EXCEPT ![w] = Idle]
       ELSE Ends(w) /\ UNCHANGED receipt
  /\ UNCHANGED <<shared, bin, replay, starts>>

ExecutedAsIs(w) ==
  /\ pc[w] = "validate" /\ entry[<<"run", head[w]>>] = None
  /\ IF replay[w]
       THEN Ends(w)
       ELSE /\ job' = [job EXCEPT ![w].key = <<"run", head[w]>>, ![w].of = bin[w]]
            /\ Goto(w, "name")
  /\ UNCHANGED <<shared, tree, head, bin, replay, starts, receipt>>

\* The callback recompiles when the verdict came from the cache, and does not
\* look at the result; the queries then run on the binaries there are, and the
\* verdict is recorded under a snapshot of its own.
Executed(w) ==
  /\ pc[w] = "validate" /\ entry[<<"run", head[w]>>] = None
  /\ IF replay[w]
       THEN Ends(w) /\ UNCHANGED bin
       ELSE /\ IF job[w].cached THEN Built(w, tree[w]) ELSE UNCHANGED bin
            /\ job' = [job EXCEPT ![w].key = <<"run", head[w]>>, ![w].of = bin'[w]]
            /\ Goto(w, "name")
  /\ UNCHANGED <<shared, tree, head, replay, starts, receipt>>

Next ==
  \E w \in Workspace :
    \/ Start(w) \/ Kill(w) \/ Revert(w)
    \/ \E o \in Edit : Hit(w, o) \/ Miss(w, o)
    \/ Name(w) \/ CommitTree(w) \/ UpdateRef(w)
    \/ Dump(w) \/ Write(w) \/ Replace(w)
    \/ \E runs, forced \in BOOLEAN : Compile(w, runs, forced)
    \/ Replayed(w) \/ Executed(w)

Spec == Init /\ [][Next]_vars

-----------------------------------------------------------------------------
(* Properties. *)

(* The repository, the caches and the processes have their types; every commit
   has an earlier parent or none; a process that is off or idle has no job. *)
TypeOK ==
  /\ store \in Seq([tree : Tree, parent : Commit \cup {None}])
  /\ Len(store) \in Commit
  /\ \A c \in 1..Len(store) : store[c].parent \in 1..c-1 \cup {None}
  /\ ref \in [Key -> Commit \cup {None}]
  /\ entry \in [Key -> Entry \cup {None}]
  /\ tmp \in [Key -> Entry \cup {None}]
  /\ pc \in [Workspace -> {"off", "idle", "name", "commit", "ref", "dump", "write",
                           "replace", "validate"}]
  /\ tree \in [Workspace -> Tree]
  /\ head \in [Workspace -> Commit]
  /\ bin \in [Workspace -> Tree \cup {None}]
  /\ replay \in [Workspace -> BOOLEAN]
  /\ job \in [Workspace -> Job]
  /\ \A w \in Workspace : pc[w] \in {"off", "idle"} => job[w] = Idle
  /\ starts \in 0..MaxStart
  /\ receipt \subseteq [built : Tree \cup {None}, ran : Tree \cup {None}]

(* Between operations the tracked files are those of current_hash: every key is
   computed from current_hash alone, so a tree that drifted from it would file
   the next result under the wrong snapshot. *)
TreeIsHead ==
  \A w \in Workspace : pc[w] \in {"idle", "validate"} => tree[w] = Contents(head[w])

(* What EntryFaithful asks of one entry, with the ref that keeps its snapshot;
   x is an entry, a temporary file or a job about to write one. *)
Faithful(k, x) ==
  /\ k[2] \in 1..Len(store)
  /\ k[1] # "build" =>
       /\ x.commit \in 1..Len(store)
       /\ Contents(x.commit) = Effect(k[1], Contents(k[2]))
       /\ ref[k] # None
  /\ k[1] \in {"build", "run"} => x.of = Contents(k[2])

(* An entry says what doing the operation on the snapshot of its key does: the
   snapshot it restores is the effect of the operation, and what it reports was
   compiled from, or run with the binaries of, that snapshot - whoever recorded
   it, after however many kills, reverts and replays. *)
EntryFaithful ==
  \A k \in Key :
    entry[k] # None =>
      /\ k[2] <= Len(store)
      /\ k[1] # "build" =>
           Contents(entry[k].commit) = Effect(k[1], Contents(k[2]))
      /\ k[1] \in {"build", "run"} => entry[k].of = Contents(k[2])

(* An entry that restores a snapshot has a ref under its own name that keeps an
   equal tree in the repository: refs are pushed, fetched and kept by git's
   garbage collection, commits without one are not. *)
EntryAnchored ==
  \A k \in Key :
    entry[k] # None /\ k[1] # "build" =>
      /\ ref[k] # None
      /\ Contents(ref[k]) = Contents(entry[k].commit)

(* A publish receipt attests the binaries it names: the tree its forced build
   compiled is the tree the verdict was given for, even when that verdict was
   replayed from the cache. *)
ReceiptHonest == \A r \in receipt : r.built = r.ran

(* A process that runs only from the caches writes to none of them, and to no
   ref, whatever it forces to be built. *)
ReplayWritesNothing ==
  [][(\A w \in Workspace : pc[w] # "off" => replay[w]) => UNCHANGED shared]_vars

(* The refinement mapping to the same work done without snapshots and caches.
   The files a process had are those of the snapshots its own is made of, and
   those it has. *)
On == [w \in Workspace |-> pc[w] # "off"]

Line(c) == {Contents(d) : d \in Ancestors(c)}

Past == [w \in Workspace |-> IF pc[w] = "off" THEN {} ELSE {tree[w]} \cup Line(head[w])]

Direct == INSTANCE DirectWork WITH on <- On, past <- Past

(* Snapshots and caches are transparent: a workspace goes through the files it
   would go through if every operation were carried out on it and every stage
   taken back by hand, whoever recorded what is replayed, whoever was killed
   while it did, and wherever two record the same; and a publish receipt names
   files that were there, and that compile. *)
Transparent == Direct!Spec
=============================================================================
