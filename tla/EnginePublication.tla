-------------------------- MODULE EnginePublication --------------------------
(***************************************************************************)
(* Publishing a generated engine, and a runtime that finds it:             *)
(* validate_for_publish and the gate of publish_engine, the two ways of    *)
(* engine_publish.py to put a package into the engines directory, and the  *)
(* part of discovery.py and process_engine.py that reads it back.          *)
(*                                                                         *)
(* A publisher owns its workspace and does one thing at a time; several    *)
(* publish into one directory, and each may be killed at any step, which   *)
(* frees its flock and leaves its directories behind.  A package is a      *)
(* build, the data planes its manifest offers, and whether all of it is    *)
(* there.  Every rename, symlink flip and rmtree is one step.              *)
(***************************************************************************)
EXTENDS Naturals, FiniteSets

CONSTANTS
  Publisher,
  Name,       \* names an engine is published under
  Engine,     \* engine_ids: hashes of the sources of an engine
  Rev,        \* builds that one engine's sources may give
  Legacy,     \* names published before there were version directories
  Watched,    \* the slots the runtime looks at
  None,
  MaxDir,     \* bound: directories ever made
  MaxCheck,   \* bound: validations that pass
  MaxKill     \* bound: publishers killed

ASSUME PublicationAssumption ==
  /\ IsFiniteSet(Publisher) /\ IsFiniteSet(Name)
  /\ Name \cap Engine = {} /\ None \notin Name \cup Engine \cup Publisher
  /\ Engine # {} /\ Rev # {}
  /\ Legacy \subseteq Name /\ Watched \subseteq Name \cup Engine
  /\ \E f \in [Legacy -> 1..MaxDir] : \A m, n \in Legacy : f[m] = f[n] => m = n
  /\ {MaxDir, MaxCheck, MaxKill} \subseteq Nat
  /\ None \notin 1..MaxDir

Plane == {"parquet", "shm"}
Build == [engine: Engine, rev: Rev]
Slot == Name \cup Engine      \* the visible entries of the engines directory
Dir == 1..MaxDir
Package == [build: Build, planes: SUBSET Plane, complete: BOOLEAN]

\* None is none of the things that a reader may find.
ASSUME NoneAssumption ==
  None \notin [dir: Dir, plane: Plane] \cup [build: Build, plane: Plane]
               \cup [build: Build, planes: SUBSET Plane, whole: BOOLEAN]

VARIABLES
  disk,      \* the build in each publisher's workspace
  receipt,   \* the receipt it holds: a build, the plane it ran on; None if not passed
  pc, job,   \* what a publisher does, and the slot and planes it publishes
  own,       \* the directory it is filling
  place,     \* of each directory: free, staging, version, dest or removed
  version,   \* the name a version directory was made for
  package,   \* what is in the directory
  entry,     \* the directory each slot shows: a real one, or a version by its link
  lock,      \* the publisher that has the flock of each name
  bound,     \* the runtime: the manifest it registered for each slot
  proven,    \* history: builds and planes that passed a validation
  checks,    \* bound: validations passed so far
  kills      \* bound: publishers killed so far

publisherVars == <<disk, receipt, pc, job, own>>
dirVars == <<place, version, package, entry>>
history == <<proven, checks, kills>>
vars == <<publisherVars, dirVars, lock, bound, history>>

\* The directories of the packages that Legacy names show at the start.
LegacyDir == CHOOSE f \in [Legacy -> Dir] : \A m, n \in Legacy : f[m] = f[n] => m = n
Old == CHOOSE b \in Build : TRUE

Init ==
  /\ disk \in [Publisher -> Build]
  /\ receipt = [p \in Publisher |-> None]
  /\ pc = [p \in Publisher |-> "idle"]
  /\ job = [p \in Publisher |-> None]
  /\ own = [p \in Publisher |-> None]
  /\ place = [d \in Dir |-> IF \E n \in Legacy : LegacyDir[n] = d THEN "dest" ELSE "free"]
  /\ version = [d \in Dir |-> None]
  /\ package = [d \in Dir |-> [build |-> Old, planes |-> {"parquet"}, complete |-> TRUE]]
  /\ entry = [s \in Slot |-> IF s \in Legacy THEN LegacyDir[s] ELSE None]
  /\ lock = [n \in Name |-> None]
  /\ bound = [s \in Slot |-> None]
  /\ proven = {<<Old, "parquet">>}
  /\ checks = 0
  /\ kills = 0

Goto(p, to) == pc' = [pc EXCEPT ![p] = to]
Named(p) == job[p].slot \in Name
Put(d, where) == place' = [place EXCEPT ![d] = where]

\* Back in the caller of publish_engine, lock released.
Returns(p) ==
  /\ Goto(p, "idle")
  /\ job' = [job EXCEPT ![p] = None]
  /\ own' = [own EXCEPT ![p] = None]
  /\ lock' = [n \in Name |-> IF lock[n] = p THEN None ELSE lock[n]]

Room == Cardinality({d \in Dir : place[d] = "free"})
          > Cardinality({p \in Publisher : pc[p] \in {"begin", "stage"}})
---------------------------------------------------------------------------
(* The gate.                                                               *)

VerifiedOnly(p) == receipt[p] # None          \* bug variant of Verified

\* verify_receipt_for_publish.  The queries and the scale factor are compared
\* like the planes, and a request they refuse is one that is not made.
Verified(p) == receipt[p] # None /\ receipt[p].build = disk[p]

\* publish_engine: parquet cannot be withheld, shm is.
Offered(p, planes) ==
  IF receipt[p].plane = "shm" THEN planes ELSE planes \ {"shm"}
---------------------------------------------------------------------------
(* Bug variants of the steps below, for the properties to catch.           *)

LockAlways(p) ==            \* Lock: the publishers of a name do not wait
  /\ pc[p] = "begin" /\ Named(p)
  /\ lock' = [lock EXCEPT ![job[p].slot] = p]
  /\ Goto(p, "stage")
  /\ UNCHANGED <<disk, receipt, job, own, dirVars, bound, history>>

FlipTwice(p) ==             \* Flip: unlink, then link
  /\ pc[p] = "flip"
  /\ LET n == job[p].slot IN
       IF entry[n] # None
       THEN entry' = [entry EXCEPT ![n] = None] /\ UNCHANGED pc
       ELSE entry' = [entry EXCEPT ![n] = own[p]] /\ Goto(p, "gc")
  /\ UNCHANGED <<disk, receipt, job, own, place, version, package, lock, bound, history>>

PromoteStale(s) ==          \* Promote: whatever the manifest offers
  /\ bound[s] # None /\ bound[s].plane = "parquet"
  /\ entry[s] # None
  /\ bound' = [bound EXCEPT ![s] = [dir |-> entry[s], plane |-> "shm"]]
  /\ UNCHANGED <<publisherVars, dirVars, lock, history>>
---------------------------------------------------------------------------
(* A publisher.                                                            *)

\* The agent goes on, or the next run's engine takes the workspace.
Rebuild(p) ==
  /\ pc[p] = "idle"
  /\ \E b \in Build : disk' = [disk EXCEPT ![p] = b]
  /\ UNCHANGED <<receipt, pc, job, own, dirVars, lock, bound, history>>

\* validate_for_publish: builds what is in the workspace, runs it on the one
\* plane of the workload, and keeps a receipt if it passed.
Validate(p) ==
  /\ pc[p] = "idle"
  /\ \/ /\ checks < MaxCheck
        /\ \E plane \in Plane :
             /\ receipt' = [receipt EXCEPT ![p] = [build |-> disk[p], plane |-> plane]]
             /\ proven' = proven \cup {<<disk[p], plane>>}
        /\ checks' = checks + 1
     \/ receipt' = [receipt EXCEPT ![p] = None] /\ UNCHANGED <<proven, checks>>
  /\ UNCHANGED <<disk, pc, job, own, dirVars, lock, bound, kills>>

\* publish_engine, up to _atomic_publish, when the gate lets it pass.
Publish(p, slot, planes) ==
  /\ pc[p] = "idle" /\ Room
  /\ slot \in Name \cup {disk[p].engine}
  /\ planes # {} /\ Verified(p)
  /\ "parquet" \in planes => receipt[p].plane = "parquet"
  /\ job' = [job EXCEPT ![p] = [slot |-> slot, planes |-> Offered(p, planes)]]
  /\ Goto(p, "begin")
  /\ UNCHANGED <<disk, receipt, own, dirVars, lock, bound, history>>

\* _publish_lock.
Lock(p) ==
  /\ pc[p] = "begin" /\ Named(p)
  /\ lock[job[p].slot] = None
  /\ lock' = [lock EXCEPT ![job[p].slot] = p]
  /\ Goto(p, "stage")
  /\ UNCHANGED <<disk, receipt, job, own, dirVars, bound, history>>

\* _publish_content_addressed: an engine of these sources is there.
Dedup(p) ==
  /\ pc[p] = "begin" /\ ~Named(p)
  /\ IF entry[job[p].slot] # None
     THEN Returns(p)
     ELSE Goto(p, "stage") /\ UNCHANGED <<job, own, lock>>
  /\ UNCHANGED <<disk, receipt, dirVars, bound, history>>

\* mkdtemp, and _populate has begun.
Stage(p) ==
  /\ pc[p] = "stage"
  /\ \E d \in Dir :
       /\ place[d] = "free" /\ \A f \in 1..(d - 1) : place[f] # "free"
       /\ Put(d, "staging")
       /\ own' = [own EXCEPT ![p] = d]
       /\ package' = [package EXCEPT ![d] = [build |-> disk[p], planes |-> job[p].planes,
                                             complete |-> FALSE]]
  /\ Goto(p, "populate")
  /\ UNCHANGED <<disk, receipt, job, version, entry, lock, bound, history>>

\* _populate ends: the manifest is written last.
Populate(p) ==
  /\ pc[p] = "populate"
  /\ package' = [package EXCEPT ![own[p]].complete = TRUE]
  /\ Goto(p, "move")
  /\ UNCHANGED <<disk, receipt, job, own, place, version, entry, lock, bound, history>>

\* An exception while it copies or renames: the staging directory goes.
StagingFails(p) ==
  /\ pc[p] \in {"populate", "move"}
  /\ Put(own[p], "removed")
  /\ Returns(p)
  /\ UNCHANGED <<disk, receipt, version, package, entry, bound, history>>

\* The rename to <engine_id>, which fails if another came first.
Place(p) ==
  /\ pc[p] = "move" /\ ~Named(p)
  /\ IF entry[job[p].slot] = None
     THEN Put(own[p], "dest") /\ entry' = [entry EXCEPT ![job[p].slot] = own[p]]
     ELSE Put(own[p], "removed") /\ UNCHANGED entry
  /\ Returns(p)
  /\ UNCHANGED <<disk, receipt, version, package, bound, history>>

\* _publish_named, 1: the rename to .versions/<name>@<id>.
Materialize(p) ==
  /\ pc[p] = "move" /\ Named(p)
  /\ Put(own[p], "version")
  /\ version' = [version EXCEPT ![own[p]] = job[p].slot]
  /\ Goto(p, "flip")
  /\ UNCHANGED <<disk, receipt, job, own, package, entry, lock, bound, history>>

\* 2, for a real directory: it becomes a version, and the name is absent.
Migrate(p) ==
  /\ pc[p] = "flip"
  /\ LET n == job[p].slot IN
       /\ entry[n] # None /\ place[entry[n]] = "dest"
       /\ Put(entry[n], "version")
       /\ version' = [version EXCEPT ![entry[n]] = n]
       /\ entry' = [entry EXCEPT ![n] = None]
  /\ UNCHANGED <<publisherVars, package, lock, bound, history>>

\* 2: the rename over <name>, which is absent or a link.
Flip(p) ==
  /\ pc[p] = "flip"
  /\ LET n == job[p].slot IN
       /\ entry[n] # None => place[entry[n]] # "dest"
       /\ entry' = [entry EXCEPT ![n] = own[p]]
  /\ Goto(p, "gc")
  /\ UNCHANGED <<disk, receipt, job, own, place, version, package, lock, bound, history>>

\* An exception at the flip: the version stays for the next publisher's gc.
FlipFails(p) ==
  /\ pc[p] = "flip"
  /\ Returns(p)
  /\ UNCHANGED <<disk, receipt, dirVars, bound, history>>

\* The versions that _gc_versions removes.
Superseded(p) ==
  {d \in Dir : place[d] = "version" /\ version[d] = job[p].slot /\ d # own[p]}

\* 3: one rmtree of _gc_versions.
Gc(p) ==
  /\ pc[p] = "gc"
  /\ \E d \in Superseded(p) : Put(d, "removed")
  /\ UNCHANGED <<publisherVars, version, package, entry, lock, bound, history>>

Published(p) ==
  /\ pc[p] = "gc" /\ Superseded(p) = {}
  /\ Returns(p)
  /\ UNCHANGED <<disk, receipt, dirVars, bound, history>>

\* The process dies, and another takes over its workspace.
Kill(p) ==
  /\ pc[p] # "idle" /\ kills < MaxKill
  /\ kills' = kills + 1
  /\ receipt' = [receipt EXCEPT ![p] = None]
  /\ Returns(p)
  /\ UNCHANGED <<disk, dirVars, bound, proven, checks>>

PublisherStep(p) ==
  \/ Lock(p) \/ Dedup(p) \/ Stage(p) \/ Populate(p) \/ StagingFails(p) \/ Place(p)
  \/ Materialize(p) \/ Migrate(p) \/ Flip(p) \/ FlipFails(p) \/ Gc(p) \/ Published(p)
---------------------------------------------------------------------------
(* The runtime.                                                            *)

Manifest(s) == package[entry[s]]

\* The engine_id of the key under which discover_engines remembers a package.
EngineOf(binding) == package[binding.dir].build.engine

\* discover_engines reads a manifest it has not seen, and _bind_engine picks
\* a plane it offers.
Bind(s) ==
  /\ entry[s] # None
  /\ Manifest(s).complete
  /\ bound[s] # None => EngineOf(bound[s]) # Manifest(s).build.engine
  /\ \E plane \in Manifest(s).planes :
       bound' = [bound EXCEPT ![s] = [dir |-> entry[s], plane |-> plane]]
  /\ UNCHANGED <<publisherVars, dirVars, lock, history>>

\* A scan finds the package registered, and _promote_to_shm rebinds it.
Promote(s) ==
  /\ entry[s] # None
  /\ bound[s] # None /\ EngineOf(bound[s]) = Manifest(s).build.engine
  /\ bound[s].plane = "parquet" /\ "shm" \in Manifest(s).planes
  /\ bound' = [bound EXCEPT ![s] = [dir |-> entry[s], plane |-> "shm"]]
  /\ UNCHANGED <<publisherVars, dirVars, lock, history>>

---------------------------------------------------------------------------
Next ==
  \/ \E p \in Publisher :
       \/ Rebuild(p) \/ Validate(p) \/ PublisherStep(p) \/ Kill(p)
       \/ \E slot \in Slot, planes \in SUBSET Plane : Publish(p, slot, planes)
  \/ \E s \in Watched : Bind(s) \/ Promote(s)

Spec == Init /\ [][Next]_vars
---------------------------------------------------------------------------
PublisherStates == {"idle", "begin", "stage", "populate", "move", "flip", "gc"}

\* The types of the variables, and which of them a publisher's pc says are set.
TypeOK ==
  /\ disk \in [Publisher -> Build]
  /\ receipt \in [Publisher -> [build: Build, plane: Plane] \cup {None}]
  /\ pc \in [Publisher -> PublisherStates]
  /\ job \in [Publisher -> [slot: Slot, planes: SUBSET Plane] \cup {None}]
  /\ own \in [Publisher -> Dir \cup {None}]
  /\ place \in [Dir -> {"free", "staging", "version", "dest", "removed"}]
  /\ version \in [Dir -> Name \cup {None}]
  /\ package \in [Dir -> Package]
  /\ entry \in [Slot -> Dir \cup {None}]
  /\ lock \in [Name -> Publisher \cup {None}]
  /\ bound \in [Slot -> [dir: Dir, plane: Plane] \cup {None}]
  /\ proven \subseteq Build \X Plane
  /\ \A p \in Publisher :
       /\ pc[p] # "idle" => job[p] \in [slot: Slot, planes: SUBSET Plane]
       /\ pc[p] \in {"populate", "move", "flip", "gc"} <=> own[p] # None
       /\ pc[p] \in {"flip", "gc"} => Named(p)
  /\ checks \in 0..MaxCheck /\ kills \in 0..MaxKill

\* Whatever is visible is there and complete: no reader of the directory ever
\* meets a link whose version was collected or a package without its last
\* file, whichever publishers work on the name and wherever they are killed
\* (_populate, _publish_named, _gc_versions).
VisibleIsWhole ==
  \A s \in Slot : entry[s] # None =>
    /\ package[entry[s]].complete
    /\ place[entry[s]] \in {"dest", "version"}

\* Every build that is visible was validated, on every plane it offers, by the
\* publisher that put it there (verify_receipt_for_publish, publish_engine).
VisibleIsProven ==
  \A s \in Slot : entry[s] # None =>
    \A plane \in package[entry[s]].planes : <<package[entry[s]].build, plane>> \in proven

\* A binding serves a plane that was validated for the build its process will
\* start from, as long as the slot shows the package whose manifest it read.
\* After a republish it may start a build that was not (see the README).
ServesProven ==
  \A s \in Slot :
    bound[s] # None /\ bound[s].dir = entry[s] =>
      <<package[entry[s]].build, bound[s].plane>> \in proven

\* What a slot shows is replaced in one step: once there it never goes
\* missing, except while a legacy directory migrates, whoever is killed or
\* fails meanwhile (_publish_named), and under an engine id it never changes,
\* whoever else publishes that engine (_publish_content_addressed).
EntryStays ==
  [][\A s \in Slot :
       /\ entry[s] # None /\ place[entry[s]] # "dest" => entry'[s] # None
       /\ entry[s] # None /\ s \in Engine => entry'[s] = entry[s]]_vars

\* The refinement mapping to the catalogue that readers see.  A directory that
\* is incomplete, or is no longer where its slot leads, is not whole.
Shown ==
  [s \in Slot |->
     IF entry[s] = None THEN None
     ELSE [build  |-> package[entry[s]].build,
           planes |-> package[entry[s]].planes,
           whole  |-> package[entry[s]].complete /\ place[entry[s]] \in {"dest", "version"}]]

Real == {n \in Name : entry[n] # None /\ place[entry[n]] = "dest"}

Serving ==
  [s \in Slot |->
     IF bound[s] = None THEN None
     ELSE [build |-> package[bound[s].dir].build, plane |-> bound[s].plane]]

Catalogue == INSTANCE EngineCatalogue WITH shown <- Shown, real <- Real, serves <- Serving

\* To its readers the engines directory is a catalogue in which whole, proven
\* packages appear and are replaced in one step, however many renames, links
\* and removals that takes, whoever publishes meanwhile and wherever publishers
\* are killed; what is bound was shown when it was bound.
IsCatalogue == Catalogue!Spec
=============================================================================
