-------------------------- MODULE IncrementalBuild --------------------------
(***************************************************************************)
(* The compiler of a workspace (cpp_runner/compiler/compiler.py).  A build *)
(* compiles every unit whose object looks out of date, links every target  *)
(* that looks older than its objects, and records the commands it used in  *)
(* build/.build_state.json - but only when all of it succeeded.  What      *)
(* looks out of date is decided from file times and from that record, so   *)
(* the objects a failed build leaves behind are judged by a record that    *)
(* does not know them.                                                     *)
(***************************************************************************)
EXTENDS Naturals

CONSTANTS
  File,        \* the source files and headers of the workspace
  Unit,        \* the translation units, one object each
  Deps,        \* the files an object of a unit depends on (its .d file)
  Target,      \* the plugins and the db executable, linked from objects
  Inputs,      \* the units a target is linked from
  FlagLinked,  \* the targets whose link command holds the compile flags: db
  Good,        \* the contents of a file that compile
  Bad,         \* the contents that do not
  Flag,        \* the option sets of set_compile_options
  None,
  MaxClock     \* bound: the file times a behaviour uses

ASSUME Sources == Deps \in [Unit -> SUBSET File]
ASSUME Links == Inputs \in [Target -> SUBSET Unit] /\ FlagLinked \subseteq Target
ASSUME Texts == Good \cap Bad = {} /\ Good # {}
ASSUME Bound == MaxClock \in Nat

Text == Good \cup Bad

ASSUME NoneIsNothing == None \notin Flag \cup Text \cup {"ok", "error"}

VARIABLES
  text,     \* what is in a file
  time,     \* when it was last written
  obj,      \* the objects in build/: what each was compiled from, how and when
  lib,      \* the linked targets there: the objects in each and when
  cmds,     \* "objects" of the state file: the flags a unit is recorded with
  links,    \* "links" of the state file: the flags a target is recorded with
  flags,    \* the options in force
  stage,    \* where the build is
  result,   \* of the last build: None before, and once a file or option changed
  clock,    \* the time of the last write
  loose     \* history: units compiled since by builds that did not finish

vars == <<text, time, obj, lib, cmds, links, flags, stage, result, clock, loose>>
disk == <<text, time, flags>>
state == <<cmds, links>>

Init ==
  /\ text \in [File -> Good]
  /\ time = [f \in File |-> 0]
  /\ obj = [u \in {} |-> None]
  /\ lib = [t \in {} |-> None]
  /\ cmds = [u \in Unit |-> None]
  /\ links = [t \in Target |-> None]
  /\ flags \in Flag
  /\ stage = "idle"
  /\ result = None
  /\ clock = 0
  /\ loose = {}

-----------------------------------------------------------------------------
(* What the compiler sees. *)

\* Mutant of Stale: the commands are compared, the times are not.
StaleByCommand(u) == u \notin DOMAIN obj \/ cmds[u] # flags

\* Mutant of Stale: the times are compared, the commands are not.
StaleByTime(u) ==
  u \notin DOMAIN obj \/ \E f \in Deps[u] : time[f] > obj[u].time

\* needs_rebuild_obj: no object, a file newer than it, or another command.
Stale(u) ==
  \/ u \notin DOMAIN obj
  \/ \E f \in Deps[u] : time[f] > obj[u].time
  \/ cmds[u] # flags

Pending == {u \in Unit : Stale(u)}

\* The link command of db holds the flags, a plugin's does not.
LinkFlags(t) == IF t \in FlagLinked THEN flags ELSE None

\* needs_relink: no output, an object newer than it, or another command.
Unlinked(t) ==
  \/ t \notin DOMAIN lib
  \/ \E u \in Inputs[t] : obj[u].time > lib[t].time
  \/ links[t] # <<LinkFlags(t)>>

Compiles(u) == \A f \in Deps[u] : text[f] \in Good

\* What a compilation of u at this point writes.
Object(u, now) ==
  [from |-> [f \in Deps[u] |-> text[f]], flags |-> flags, time |-> now]

Output(t, now) == [of |-> [u \in Inputs[t] |-> obj[u]], time |-> now]

\* The objects once the units of `done` are compiled and those of `lost` removed.
Compiled(done, lost, now) ==
  [u \in (DOMAIN obj \cup done) \ lost |->
     IF u \in done THEN Object(u, now) ELSE obj[u]]

Linked(done, now) ==
  [t \in DOMAIN lib \cup done |-> IF t \in done THEN Output(t, now) ELSE lib[t]]

Tick == clock < MaxClock /\ clock' = clock + 1

-----------------------------------------------------------------------------
(* Between builds: the agent edits, git restores an older text (with a new *)
(* time), the tools choose other options, a run starts from a cleaned tree.*)

Edit(f, x) ==
  /\ stage = "idle" /\ text[f] # x
  /\ Tick
  /\ text' = [text EXCEPT ![f] = x]
  /\ time' = [time EXCEPT ![f] = clock']
  /\ result' = None
  /\ UNCHANGED <<obj, lib, state, flags, stage, loose>>

SetOptions(g) ==
  /\ stage = "idle" /\ g # flags
  /\ flags' = g
  /\ result' = None
  /\ UNCHANGED <<text, time, obj, lib, state, stage, clock, loose>>

\* clear_untracked(include_ignored): build/ goes, its state file with it.
Clean ==
  /\ stage = "idle" /\ obj # [u \in {} |-> None]
  /\ obj' = [u \in {} |-> None]
  /\ lib' = [t \in {} |-> None]
  /\ cmds' = [u \in Unit |-> None]
  /\ links' = [t \in Target |-> None]
  /\ result' = None
  /\ loose' = {}
  /\ UNCHANGED <<disk, stage, clock>>

-----------------------------------------------------------------------------
(* A build. *)

\* _maybe_compile_objects, every command succeeding.
CompileAll ==
  /\ stage = "idle"
  /\ \A u \in Pending : Compiles(u)
  /\ IF Pending = {} THEN UNCHANGED clock ELSE Tick
  /\ obj' = Compiled(Pending, {}, clock')
  /\ loose' = loose \cup Pending
  /\ result' = None
  /\ stage' = "link"
  /\ UNCHANGED <<disk, lib, state>>

\* A command fails.  The commands already running still write their objects,
\* the others are cancelled; the compiler removes what a failed command wrote.
CompileFails ==
  /\ stage = "idle"
  /\ \E broken \in SUBSET Pending, done \in SUBSET Pending :
       /\ broken # {} /\ broken \cap done = {}
       /\ \A u \in broken : ~Compiles(u)
       /\ \A u \in done : Compiles(u)
       /\ IF done = {} THEN UNCHANGED clock ELSE Tick
       /\ obj' = Compiled(done, broken, clock')
       /\ loose' = (loose \cup done) \ broken
  /\ result' = "error"
  /\ UNCHANGED <<disk, lib, state, stage>>

\* The process is killed while it compiles: the compilers it started finish.
KilledCompiling ==
  /\ stage = "idle"
  /\ \E done \in SUBSET {u \in Pending : Compiles(u)} :
       /\ done # {}
       /\ Tick
       /\ obj' = Compiled(done, {}, clock')
       /\ loose' = loose \cup done
  /\ result' = None
  /\ UNCHANGED <<disk, lib, state, stage>>

\* The targets that look out of date are linked, the executable last.
Link ==
  /\ stage = "link"
  /\ LET out == {t \in Target : Unlinked(t)} IN
       /\ IF out = {} THEN UNCHANGED clock ELSE Tick
       /\ lib' = Linked(out, clock')
  /\ stage' = "save"
  /\ UNCHANGED <<disk, obj, state, result, loose>>

\* A link fails (an undefined symbol): the targets before it are linked.
LinkFails ==
  /\ stage = "link"
  /\ \E done \in SUBSET {t \in Target : Unlinked(t)} :
       /\ done # {t \in Target : Unlinked(t)}
       /\ IF done = {} THEN UNCHANGED clock ELSE Tick
       /\ lib' = Linked(done, clock')
  /\ stage' = "idle"
  /\ result' = "error"
  /\ UNCHANGED <<disk, obj, state, loose>>

\* Mutant of Save: only the units are recorded.
SaveUnits ==
  /\ stage = "save"
  /\ cmds' = [u \in Unit |-> flags]
  /\ loose' = {u \in loose : obj[u].flags # flags}
  /\ result' = "ok"
  /\ stage' = "idle"
  /\ UNCHANGED <<disk, obj, lib, links, clock>>

\* Every unit and target is recorded with the command of this build, whether
\* or not it was run: mark_obj_state and mark_link_state, then save_state.
Save ==
  /\ stage = "save"
  /\ cmds' = [u \in Unit |-> flags]
  /\ links' = [t \in Target |-> <<LinkFlags(t)>>]
  /\ loose' = {u \in loose : obj[u].flags # flags}
  /\ result' = "ok"
  /\ stage' = "idle"
  /\ UNCHANGED <<disk, obj, lib, clock>>

\* The process is killed on the way.
Kill ==
  /\ stage # "idle"
  /\ stage' = "idle"
  /\ UNCHANGED <<disk, obj, lib, state, result, clock, loose>>

Next ==
  \/ \E f \in File, x \in Text : Edit(f, x)
  \/ \E g \in Flag : SetOptions(g)
  \/ Clean
  \/ CompileAll \/ CompileFails \/ KilledCompiling
  \/ Link \/ LinkFails \/ Save \/ Kill

Spec == Init /\ [][Next]_vars
-----------------------------------------------------------------------------
(* Properties. *)

(* The files of build/ and the state file hold what a build can have written;
   an object depends on the files of its unit, a target on its objects; a loose
   unit has an object; nothing is newer than the clock. *)
TypeOK ==
  /\ text \in [File -> Text]
  /\ clock \in Nat
  /\ time \in [File -> 0..clock]
  /\ flags \in Flag
  /\ cmds \in [Unit -> Flag \cup {None}]
  /\ DOMAIN obj \subseteq Unit
  /\ \A u \in DOMAIN obj :
       obj[u] \in [from : [Deps[u] -> Text], flags : Flag, time : 1..clock]
  /\ DOMAIN lib \subseteq Target
  /\ \A t \in DOMAIN lib : DOMAIN lib[t].of = Inputs[t] /\ lib[t].time \in 1..clock
  /\ loose \subseteq DOMAIN obj
  /\ stage \in {"idle", "link", "save"}
  /\ result \in {None, "ok", "error"}

(* A build that reports success leaves every target linked from the objects on
   disk, and every one of those compiled from the texts on disk - whatever was
   edited, reverted, half built or killed before it: the times that build reads
   never hide a change of a file.  This is what the compile cache and the
   publish gate take for granted of build(). *)
BuiltFromSources ==
  result = "ok" =>
    \A t \in Target : \A u \in Inputs[t] :
      /\ lib[t].of[u] = obj[u]
      /\ obj[u].from = [f \in Deps[u] |-> text[f]]

(* It is also built with the options in force, except for the objects that a
   build which did not finish left behind and no finished one has recompiled:
   a build that fails before save_state is the only way to mix options. *)
BuiltWithFlags ==
  result = "ok" => \A u \in Unit \ loose : obj[u].flags = flags

(* Nothing is out of date right after a successful build: a second one of the
   same tree does no work, which is what makes build() incremental. *)
NothingLeft ==
  result = "ok" => Pending = {} /\ \A t \in Target : ~Unlinked(t)

(* The refinement mapping to a build from scratch: what a build has made is
   what is in the objects of its targets. *)
Product ==
  IF result = "ok" THEN [t \in Target |-> [u \in Inputs[t] |-> lib[t].of[u].from]] ELSE None

FromScratch == INSTANCE CleanBuild WITH compiled <- stage # "idle", product <- Product

(* An incremental build ends as one from scratch does: it fails to compile only
   if a file at hand does not compile, it succeeds only if all of them do, and
   then has made the same of them - whatever was edited, reverted, half built
   or killed before, and however little it has compiled itself. *)
AsIfFromScratch == FromScratch!Spec
=============================================================================
