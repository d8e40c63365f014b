----------------------- MODULE IncrementalBuildProofs -----------------------
(***************************************************************************)
(* For every workspace, every set of options and every order of edits,     *)
(* builds and failures: a build that reports success has built the texts   *)
(* on disk, with the options in force unless an unfinished build left an   *)
(* object behind, and leaves nothing to do.                                *)
(*                                                                         *)
(* The argument is about times.  Every write takes a new time, so an       *)
(* object that is not older than a file it depends on was compiled from    *)
(* the text the file still has (Fresh), and a target that is not older     *)
(* than an object holds that object (Held).  What a build does not redo    *)
(* is therefore right, and what it redoes is right because it is new.      *)
(* At the end, a build is mapped to one from scratch (CleanBuild).         *)
(***************************************************************************)
EXTENDS IncrementalBuild, TLAPS

\* An object not older than its files was compiled from their present texts.
Fresh ==
  \A u \in DOMAIN obj :
    (\A f \in Deps[u] : time[f] <= obj[u].time) =>
      obj[u].from = [f \in Deps[u] |-> text[f]]

\* A target not older than an object of its inputs holds that object.
Held ==
  \A t \in DOMAIN lib : \A u \in Inputs[t] :
    (u \in DOMAIN obj /\ obj[u].time <= lib[t].time) => lib[t].of[u] = obj[u]

\* The state file knows the options of every object that is not loose.
Known == \A u \in DOMAIN obj \ loose : obj[u].flags = cmds[u]

Current(u) ==
  /\ u \in DOMAIN obj
  /\ \A f \in Deps[u] : time[f] <= obj[u].time
  /\ obj[u].from = [f \in Deps[u] |-> text[f]]

Holds(t) ==
  /\ t \in DOMAIN lib
  /\ \A u \in Inputs[t] : obj[u].time <= lib[t].time /\ lib[t].of[u] = obj[u]

Building ==
  stage # "idle" =>
    /\ result = None
    /\ \A u \in Unit : Current(u) /\ (u \in loose \/ cmds[u] = flags)

Linking == stage = "save" => \A t \in Target : Holds(t)

Finished ==
  result = "ok" =>
    /\ \A u \in Unit : Current(u) /\ cmds[u] = flags
    /\ \A t \in Target : Holds(t) /\ links[t] = <<LinkFlags(t)>>

IInv == TypeOK /\ Fresh /\ Held /\ Known /\ Building /\ Linking /\ Finished

-----------------------------------------------------------------------------
(* In the initial state there is no object, no target and no build. *)
LEMMA InitIInv == Init => IInv
BY NoneIsNothing, Sources, Links
   DEF Init, IInv, TypeOK, Fresh, Held, Known, Building, Linking, Finished, Text

(* A tick takes a time no file, object or target has. *)
LEMMA TickIsNew ==
  ASSUME TypeOK, Tick
  PROVE  /\ clock' = clock + 1 /\ clock' \in Nat
         /\ \A f \in File : time[f] \in Nat /\ time[f] < clock'
         /\ \A u \in DOMAIN obj : obj[u].time \in Nat /\ obj[u].time < clock'
         /\ \A t \in DOMAIN lib : lib[t].time \in Nat /\ lib[t].time < clock'
<1>1. \A u \in DOMAIN obj : obj[u].time \in 1..clock
  BY DEF TypeOK
<1>. QED  BY <1>1 DEF TypeOK, Tick

(* An edit is newer than every object that depends on the file. *)
LEMMA EditIInv == ASSUME IInv, NEW f \in File, NEW x \in Text, Edit(f, x) PROVE IInv'
<1>. USE DEF IInv
<1>1. clock' = clock + 1 /\ clock \in Nat
  BY DEF Edit, Tick, TypeOK
<1>2. /\ DOMAIN obj' = DOMAIN obj /\ obj' = obj /\ lib' = lib
      /\ UNCHANGED <<cmds, links, flags, stage, loose>> /\ result' = None
  BY DEF Edit, state
<1>3. text' = [text EXCEPT ![f] = x] /\ time' = [time EXCEPT ![f] = clock']
  BY DEF Edit
<1>4. TypeOK'
  <2>1. time' \in [File -> 0..clock'] /\ text' \in [File -> Text]
    BY <1>1, <1>3 DEF TypeOK
  <2>2. \A u \in DOMAIN obj :
          obj[u] \in [from : [Deps[u] -> Text], flags : Flag, time : 1..clock']
    BY <1>1 DEF TypeOK
  <2>3. \A t \in DOMAIN lib : lib[t].time \in 1..clock'
    BY <1>1 DEF TypeOK
  <2>. QED  BY <1>1, <1>2, <2>1, <2>2, <2>3 DEF TypeOK
<1>5. Fresh'
  <2>. SUFFICES ASSUME NEW u \in DOMAIN obj,
                       \A g \in Deps[u] : time'[g] <= obj[u].time
                PROVE  obj[u].from = [g \in Deps[u] |-> text'[g]]
    BY <1>2 DEF Fresh
  <2>1. u \in Unit /\ obj[u].time \in 1..clock /\ Deps[u] \subseteq File
    BY Sources DEF TypeOK
  <2>2. f \notin Deps[u]
    BY <1>1, <1>3, <2>1 DEF TypeOK
  <2>3. \A g \in Deps[u] : time'[g] = time[g] /\ text'[g] = text[g]
    BY <1>3, <2>1, <2>2 DEF TypeOK
  <2>. QED  BY <2>3 DEF Fresh
<1>. QED
  BY <1>2, <1>4, <1>5, NoneIsNothing DEF Edit, Held, Known, Building, Linking, Finished

(* Other options change no file; they end the claim about the last build. *)
LEMMA SetOptionsIInv == ASSUME IInv, NEW g \in Flag, SetOptions(g) PROVE IInv'
BY NoneIsNothing
   DEF IInv, SetOptions, state, TypeOK, Fresh, Held, Known, Building, Linking, Finished

(* A cleaned tree has no object, no target and no record. *)
LEMMA CleanIInv == ASSUME IInv, Clean PROVE IInv'
BY NoneIsNothing
   DEF IInv, Clean, disk, TypeOK, Fresh, Held, Known, Building, Linking, Finished

-----------------------------------------------------------------------------
(* Compiling.  What is compiled is new; what is kept was up to date. *)

LEMMA PendingTypes ==
  ASSUME IInv
  PROVE  /\ Pending \subseteq Unit
         /\ \A u \in Unit \ Pending : Current(u) /\ cmds[u] = flags
<1>. SUFFICES ASSUME NEW u \in Unit, ~Stale(u)
              PROVE  Current(u) /\ cmds[u] = flags
  BY DEF Pending
<1>1. u \in DOMAIN obj /\ cmds[u] = flags
  BY DEF Stale
<1>2. obj[u].time \in 1..clock /\ \A f \in Deps[u] : time[f] \in 0..clock
  BY <1>1, Sources DEF IInv, TypeOK
<1>3. \A f \in Deps[u] : time[f] <= obj[u].time
  BY <1>2 DEF Stale, IInv, TypeOK
<1>. QED  BY <1>1, <1>3 DEF Current, IInv, Fresh

(* What a set of compilations, and of removals, does to the invariant. *)
LEMMA CompiledIInv ==
  ASSUME IInv, NEW done, NEW lost,
         done \subseteq Pending, lost \subseteq Pending, done \cap lost = {},
         done = {} => clock' = clock, done # {} => Tick,
         obj' = Compiled(done, lost, clock'),
         loose' = (loose \cup done) \ lost,
         UNCHANGED <<disk, lib, state>>
  PROVE  /\ Fresh' /\ Held' /\ Known'
         /\ clock' \in Nat
         /\ time' \in [File -> 0..clock']
         /\ DOMAIN obj' \subseteq Unit /\ loose' \subseteq DOMAIN obj'
         /\ \A u \in DOMAIN obj' :
              obj'[u] \in [from : [Deps[u] -> Text], flags : Flag, time : 1..clock']
         /\ \A t \in DOMAIN lib' : lib'[t].time \in 1..clock'
         /\ \A u \in done : Current(u)'
<1>. USE DEF IInv
<1>1. done \subseteq Unit /\ lost \subseteq Unit
  BY DEF Pending
<1>2. /\ text' = text /\ time' = time /\ flags' = flags /\ lib' = lib
      /\ cmds' = cmds /\ links' = links
  BY DEF disk, state
<1>3. /\ DOMAIN obj' = (DOMAIN obj \cup done) \ lost
      /\ \A u \in done : obj'[u] = Object(u, clock')
      /\ \A u \in DOMAIN obj' \ done : u \in DOMAIN obj /\ obj'[u] = obj[u]
  BY DEF Compiled
<1>4. /\ clock' \in Nat /\ clock <= clock' /\ clock \in Nat
      /\ done # {} => clock' = clock + 1
  BY DEF Tick, TypeOK
<1>5. \A u \in done : /\ obj'[u].time = clock' /\ obj'[u].flags = flags
                      /\ obj'[u].from = [f \in Deps[u] |-> text[f]]
                      /\ clock' = clock + 1 /\ Deps[u] \subseteq File
  <2>. SUFFICES ASSUME NEW u \in done
                PROVE  /\ obj'[u].time = clock' /\ obj'[u].flags = flags
                       /\ obj'[u].from = [f \in Deps[u] |-> text[f]]
                       /\ clock' = clock + 1 /\ Deps[u] \subseteq File
    OBVIOUS
  <2>1. done # {} /\ u \in Unit
    BY <1>1
  <2>2. obj'[u] = Object(u, clock')
    BY <1>3
  <2>. QED  BY <1>4, <2>1, <2>2, Sources DEF Object
<1>6. \A u \in DOMAIN obj :
        obj[u] \in [from : [Deps[u] -> Text], flags : Flag, time : 1..clock']
  BY <1>4 DEF TypeOK
<1>7. \A u \in done :
        obj'[u] \in [from : [Deps[u] -> Text], flags : Flag, time : 1..clock']
  <2>. SUFFICES ASSUME NEW u \in done
                PROVE  obj'[u] \in
                         [from : [Deps[u] -> Text], flags : Flag, time : 1..clock']
    OBVIOUS
  <2>1. obj'[u] = Object(u, clock')
    BY <1>3
  <2>2. clock' \in 1..clock' /\ flags \in Flag
    BY <1>4, <1>5 DEF TypeOK
  <2>3. [f \in Deps[u] |-> text[f]] \in [Deps[u] -> Text]
    BY <1>5 DEF TypeOK
  <2>. QED  BY <2>1, <2>2, <2>3 DEF Object
<1>8. time' \in [File -> 0..clock']
  BY <1>2, <1>4 DEF TypeOK
<1>9. \A t \in DOMAIN lib' : lib'[t].time \in 1..clock /\ lib'[t].time \in 1..clock'
  BY <1>2, <1>4 DEF TypeOK
<1>10. \A u \in done : Current(u)'
  BY <1>1, <1>2, <1>3, <1>5, <1>8, <1>4 DEF Current
<1>11. Fresh'
  BY <1>2, <1>3, <1>5 DEF Fresh
<1>12. Held'
  <2>. SUFFICES ASSUME NEW t \in DOMAIN lib, NEW u \in Inputs[t],
                       u \in DOMAIN obj', obj'[u].time <= lib[t].time
                PROVE  lib[t].of[u] = obj'[u]
    BY <1>2 DEF Held
  <2>1. lib[t].time \in 1..clock
    BY <1>2, <1>9
  <2>2. u \notin done
    <3>. SUFFICES ASSUME u \in done  PROVE FALSE
      OBVIOUS
    <3>1. obj'[u].time = clock + 1
      BY <1>5
    <3>. QED  BY <1>4, <2>1, <3>1
  <2>. QED  BY <1>3, <2>2 DEF Held
<1>13. Known'
  BY <1>2, <1>3 DEF Known
<1>14. DOMAIN obj' \subseteq Unit /\ loose' \subseteq DOMAIN obj'
  BY <1>1, <1>3 DEF TypeOK
<1>. QED
  BY <1>3, <1>4, <1>6, <1>7, <1>8, <1>9, <1>10, <1>11, <1>12, <1>13, <1>14

LEMMA CompileAllIInv == ASSUME IInv, CompileAll PROVE IInv'
<1>1. /\ Pending = {} => clock' = clock
      /\ Pending # {} => Tick
      /\ obj' = Compiled(Pending, {}, clock')
      /\ loose' = (loose \cup Pending) \ {}
      /\ UNCHANGED <<disk, lib, state>>
      /\ stage' = "link" /\ result' = None
  BY DEF CompileAll
<1>2. /\ Fresh' /\ Held' /\ Known'
      /\ clock' \in Nat
      /\ time' \in [File -> 0..clock']
      /\ DOMAIN obj' \subseteq Unit /\ loose' \subseteq DOMAIN obj'
      /\ \A u \in DOMAIN obj' :
           obj'[u] \in [from : [Deps[u] -> Text], flags : Flag, time : 1..clock']
      /\ \A t \in DOMAIN lib' : lib'[t].time \in 1..clock'
      /\ \A u \in Pending : Current(u)'
  BY <1>1, CompiledIInv
<1>3. TypeOK'
  BY <1>1, <1>2 DEF IInv, TypeOK, disk, state
<1>4. \A u \in Unit : Current(u)' /\ (u \in loose \/ cmds[u] = flags)'
  <2>. SUFFICES ASSUME NEW u \in Unit \ Pending
                PROVE  Current(u)' /\ (u \in loose \/ cmds[u] = flags)'
    BY <1>1, <1>2
  <2>1. Current(u) /\ cmds[u] = flags
    BY PendingTypes
  <2>2. u \in DOMAIN obj' /\ obj'[u] = obj[u]
    BY <1>1, <2>1 DEF Compiled, Current
  <2>. QED  BY <1>1, <2>1, <2>2 DEF Current, disk, state
<1>. QED  BY <1>1, <1>2, <1>3, <1>4, NoneIsNothing DEF IInv, Building, Linking, Finished

LEMMA CompileFailsIInv == ASSUME IInv, CompileFails PROVE IInv'
<1>. PICK broken \in SUBSET Pending, done \in SUBSET Pending :
       /\ broken \cap done = {}
       /\ IF done = {} THEN UNCHANGED clock ELSE Tick
       /\ obj' = Compiled(done, broken, clock')
       /\ loose' = (loose \cup done) \ broken
  BY DEF CompileFails
<1>1. UNCHANGED <<disk, lib, state, stage>> /\ result' = "error" /\ stage = "idle"
  BY DEF CompileFails
<1>2. /\ Fresh' /\ Held' /\ Known'
      /\ clock' \in Nat
      /\ time' \in [File -> 0..clock']
      /\ DOMAIN obj' \subseteq Unit /\ loose' \subseteq DOMAIN obj'
      /\ \A u \in DOMAIN obj' :
           obj'[u] \in [from : [Deps[u] -> Text], flags : Flag, time : 1..clock']
      /\ \A t \in DOMAIN lib' : lib'[t].time \in 1..clock'
  BY <1>1, CompiledIInv
<1>3. TypeOK'
  BY <1>1, <1>2 DEF IInv, TypeOK, disk, state
<1>. QED  BY <1>1, <1>2, <1>3, NoneIsNothing DEF IInv, Building, Linking, Finished

LEMMA KilledCompilingIInv == ASSUME IInv, KilledCompiling PROVE IInv'
<1>. PICK done \in SUBSET {u \in Pending : Compiles(u)} :
       /\ done # {} /\ Tick
       /\ obj' = Compiled(done, {}, clock')
       /\ loose' = loose \cup done
  BY DEF KilledCompiling
<1>1. UNCHANGED <<disk, lib, state, stage>> /\ result' = None /\ stage = "idle"
  BY DEF KilledCompiling
<1>2. loose' = (loose \cup done) \ {} /\ done \subseteq Pending
  OBVIOUS
<1>3. /\ Fresh' /\ Held' /\ Known'
      /\ clock' \in Nat
      /\ time' \in [File -> 0..clock']
      /\ DOMAIN obj' \subseteq Unit /\ loose' \subseteq DOMAIN obj'
      /\ \A u \in DOMAIN obj' :
           obj'[u] \in [from : [Deps[u] -> Text], flags : Flag, time : 1..clock']
      /\ \A t \in DOMAIN lib' : lib'[t].time \in 1..clock'
  BY <1>1, <1>2, CompiledIInv
<1>4. TypeOK'
  BY <1>1, <1>3 DEF IInv, TypeOK, disk, state
<1>. QED  BY <1>1, <1>3, <1>4, NoneIsNothing DEF IInv, Building, Linking, Finished

-----------------------------------------------------------------------------
(* Linking.  What is linked is new; what is kept held its objects already. *)

LEMMA LinkedIInv ==
  ASSUME IInv, stage = "link", NEW done,
         done \subseteq {t \in Target : Unlinked(t)},
         done = {} => clock' = clock, done # {} => Tick,
         lib' = Linked(done, clock'),
         UNCHANGED <<disk, obj, state, loose>>
  PROVE  /\ Fresh' /\ Held' /\ Known'
         /\ clock' \in Nat
         /\ time' \in [File -> 0..clock']
         /\ \A u \in DOMAIN obj' :
              obj'[u] \in [from : [Deps[u] -> Text], flags : Flag, time : 1..clock']
         /\ DOMAIN lib' \subseteq Target
         /\ \A t \in DOMAIN lib' : DOMAIN lib'[t].of = Inputs[t] /\ lib'[t].time \in 1..clock'
         /\ \A t \in done : Holds(t)'
<1>. USE DEF IInv
<1>1. /\ text' = text /\ time' = time /\ flags' = flags /\ obj' = obj
      /\ cmds' = cmds /\ links' = links /\ loose' = loose
  BY DEF disk, state
<1>2. /\ DOMAIN lib' = DOMAIN lib \cup done
      /\ \A t \in done : lib'[t] = Output(t, clock')
      /\ \A t \in DOMAIN lib' \ done : t \in DOMAIN lib /\ lib'[t] = lib[t]
  BY DEF Linked
<1>3. /\ clock' \in Nat /\ clock <= clock' /\ clock \in Nat
      /\ done # {} => clock' = clock + 1
  BY DEF Tick, TypeOK
<1>4. \A t \in done : /\ t \in Target /\ Inputs[t] \subseteq Unit
                      /\ lib'[t].time = clock' /\ clock' = clock + 1
                      /\ lib'[t].of = [u \in Inputs[t] |-> obj[u]]
  <2>. SUFFICES ASSUME NEW t \in done
                PROVE  /\ t \in Target /\ Inputs[t] \subseteq Unit
                       /\ lib'[t].time = clock' /\ clock' = clock + 1
                       /\ lib'[t].of = [u \in Inputs[t] |-> obj[u]]
    OBVIOUS
  <2>1. done # {} /\ lib'[t] = Output(t, clock')
    BY <1>2
  <2>. QED  BY <1>3, <2>1, Links DEF Output
<1>5. \A u \in Unit : u \in DOMAIN obj /\ obj[u].time \in 1..clock
  BY DEF Building, Current, TypeOK
<1>6. \A t \in done : Holds(t)'
  <2>. SUFFICES ASSUME NEW t \in done, NEW u \in Inputs[t]
                PROVE  obj[u].time <= lib'[t].time /\ lib'[t].of[u] = obj[u]
    BY <1>1, <1>2 DEF Holds
  <2>1. u \in Unit /\ lib'[t].time = clock + 1 /\ lib'[t].of[u] = obj[u]
    BY <1>4
  <2>2. obj[u].time \in 1..clock
    BY <1>5, <2>1
  <2>. QED  BY <1>3, <2>1, <2>2
<1>7. Held'
  <2>. SUFFICES ASSUME NEW t \in DOMAIN lib', NEW u \in Inputs[t],
                       u \in DOMAIN obj, obj[u].time <= lib'[t].time
                PROVE  lib'[t].of[u] = obj[u]
    BY <1>1 DEF Held
  <2>1. CASE t \in done
    BY <1>4, <2>1
  <2>2. CASE t \notin done
    BY <1>2, <2>2 DEF Held
  <2>. QED  BY <2>1, <2>2
<1>8. \A t \in DOMAIN lib : DOMAIN lib[t].of = Inputs[t] /\ lib[t].time \in 1..clock'
  BY <1>3 DEF TypeOK
<1>9. \A t \in done : DOMAIN lib'[t].of = Inputs[t] /\ lib'[t].time \in 1..clock'
  <2>. SUFFICES ASSUME NEW t \in done
                PROVE  DOMAIN lib'[t].of = Inputs[t] /\ lib'[t].time \in 1..clock'
    OBVIOUS
  <2>1. DOMAIN lib'[t].of = Inputs[t]
    BY <1>4
  <2>2. lib'[t].time = clock' /\ clock' = clock + 1
    BY <1>4
  <2>. QED  BY <1>3, <2>1, <2>2
<1>10. \A u \in DOMAIN obj' :
         obj'[u] \in [from : [Deps[u] -> Text], flags : Flag, time : 1..clock']
  BY <1>1, <1>3 DEF TypeOK
<1>11. time' \in [File -> 0..clock'] /\ DOMAIN lib' \subseteq Target
  BY <1>1, <1>2, <1>3 DEF TypeOK
<1>. QED
  BY <1>1, <1>2, <1>3, <1>6, <1>7, <1>8, <1>9, <1>10, <1>11 DEF Fresh, Known

LEMMA LinkIInv == ASSUME IInv, Link PROVE IInv'
<1>. DEFINE out == {t \in Target : Unlinked(t)}
<1>1. /\ stage = "link" /\ stage' = "save"
      /\ out = {} => clock' = clock
      /\ out # {} => Tick
      /\ lib' = Linked(out, clock')
      /\ UNCHANGED <<disk, obj, state, result, loose>>
  BY DEF Link
<1>2. /\ Fresh' /\ Held' /\ Known'
      /\ clock' \in Nat
      /\ time' \in [File -> 0..clock']
      /\ \A u \in DOMAIN obj' :
           obj'[u] \in [from : [Deps[u] -> Text], flags : Flag, time : 1..clock']
      /\ DOMAIN lib' \subseteq Target
      /\ \A t \in DOMAIN lib' : DOMAIN lib'[t].of = Inputs[t] /\ lib'[t].time \in 1..clock'
      /\ \A t \in out : Holds(t)'
  BY <1>1, LinkedIInv
<1>3. TypeOK'
  BY <1>1, <1>2 DEF IInv, TypeOK, disk, state
<1>4. Building'
  BY <1>1 DEF IInv, Building, Current, disk, state
<1>5. Linking'
  <2>. SUFFICES ASSUME NEW t \in Target, ~Unlinked(t)  PROVE Holds(t)'
    BY <1>2 DEF Linking
  <2>1. t \in DOMAIN lib /\ lib'[t] = lib[t] /\ t \in DOMAIN lib'
    BY <1>1 DEF Unlinked, Linked
  <2>2. \A u \in Inputs[t] : u \in Unit /\ u \in DOMAIN obj /\ obj[u].time \in 1..clock
    BY <1>1, Links DEF IInv, Building, Current, TypeOK
  <2>3. \A u \in Inputs[t] : obj[u].time <= lib[t].time
    BY <2>1, <2>2 DEF Unlinked, IInv, TypeOK
  <2>4. \A u \in Inputs[t] : lib[t].of[u] = obj[u]
    BY <2>1, <2>2, <2>3 DEF IInv, Held
  <2>. QED  BY <1>1, <2>1, <2>3, <2>4 DEF Holds
<1>6. result' # "ok"
  BY <1>1, NoneIsNothing DEF IInv, Building
<1>. QED  BY <1>2, <1>3, <1>4, <1>5, <1>6 DEF IInv, Finished

LEMMA LinkFailsIInv == ASSUME IInv, LinkFails PROVE IInv'
<1>. PICK done \in SUBSET {t \in Target : Unlinked(t)} :
       /\ IF done = {} THEN UNCHANGED clock ELSE Tick
       /\ lib' = Linked(done, clock')
  BY DEF LinkFails
<1>1. /\ stage = "link" /\ stage' = "idle" /\ result' = "error"
      /\ UNCHANGED <<disk, obj, state, loose>>
  BY DEF LinkFails
<1>2. /\ Fresh' /\ Held' /\ Known'
      /\ clock' \in Nat
      /\ time' \in [File -> 0..clock']
      /\ \A u \in DOMAIN obj' :
           obj'[u] \in [from : [Deps[u] -> Text], flags : Flag, time : 1..clock']
      /\ DOMAIN lib' \subseteq Target
      /\ \A t \in DOMAIN lib' : DOMAIN lib'[t].of = Inputs[t] /\ lib'[t].time \in 1..clock'
  BY <1>1, LinkedIInv
<1>3. TypeOK'
  BY <1>1, <1>2 DEF IInv, TypeOK, disk, state
<1>. QED  BY <1>1, <1>2, <1>3 DEF IInv, Building, Linking, Finished

(* The record of a finished build names the options of every object but those
   an unfinished one compiled with others. *)
LEMMA SaveIInv == ASSUME IInv, Save PROVE IInv'
<1>. USE DEF IInv
<1>1. /\ stage = "save" /\ stage' = "idle" /\ result' = "ok"
      /\ cmds' = [u \in Unit |-> flags]
      /\ links' = [t \in Target |-> <<LinkFlags(t)>>]
      /\ loose' = {u \in loose : obj[u].flags # flags}
      /\ text' = text /\ time' = time /\ flags' = flags /\ obj' = obj
      /\ lib' = lib /\ clock' = clock
  BY DEF Save, disk
<1>2. TypeOK'
  BY <1>1 DEF TypeOK
<1>3. Known'
  <2>. SUFFICES ASSUME NEW u \in DOMAIN obj, u \notin loose'
                PROVE  obj[u].flags = flags
    BY <1>1 DEF Known, TypeOK
  <2>1. CASE u \in loose
    BY <1>1, <2>1
  <2>2. CASE u \notin loose
    BY <1>1, <2>2 DEF Building, Known, TypeOK
  <2>. QED  BY <2>1, <2>2
<1>4. Finished'
  <2>1. \A u \in Unit : Current(u)' /\ cmds'[u] = flags'
    BY <1>1 DEF Building, Current
  <2>2. \A t \in Target : Holds(t)' /\ links'[t] = <<LinkFlags(t)>>'
    BY <1>1 DEF Linking, Holds, LinkFlags
  <2>. QED  BY <2>1, <2>2 DEF Finished
<1>. QED  BY <1>1, <1>2, <1>3, <1>4 DEF Fresh, Held, Building, Linking

LEMMA KillIInv == ASSUME IInv, Kill PROVE IInv'
BY NoneIsNothing
   DEF IInv, Kill, disk, state, TypeOK, Fresh, Held, Known, Building, Linking, Finished

LEMMA StepIInv == ASSUME IInv, [Next]_vars PROVE IInv'
<1>1. CASE Next
  BY <1>1, EditIInv, SetOptionsIInv, CleanIInv, CompileAllIInv, CompileFailsIInv,
     KilledCompilingIInv, LinkIInv, LinkFailsIInv, SaveIInv, KillIInv DEF Next
<1>2. CASE UNCHANGED vars
  <2>1. /\ text' = text /\ time' = time /\ obj' = obj /\ lib' = lib
        /\ cmds' = cmds /\ links' = links /\ flags' = flags /\ stage' = stage
        /\ result' = result /\ clock' = clock /\ loose' = loose
    BY <1>2 DEF vars
  <2>2. TypeOK' /\ Fresh' /\ Held' /\ Known'
    BY <2>1 DEF IInv, TypeOK, Fresh, Held, Known
  <2>3. \A u : Current(u)' <=> Current(u)
    BY <2>1 DEF Current
  <2>4. \A t : (Holds(t)' <=> Holds(t)) /\ LinkFlags(t)' = LinkFlags(t)
    BY <2>1 DEF Holds, LinkFlags
  <2>. QED  BY <2>1, <2>2, <2>3, <2>4 DEF IInv, Building, Linking, Finished
<1>. QED  BY <1>1, <1>2

LEMMA Inductive == Spec => []IInv
BY InitIInv, StepIInv, PTL DEF Spec

-----------------------------------------------------------------------------
(* The files and the state file have their types. *)
THEOREM Typed == Spec => []TypeOK
<1>1. IInv => TypeOK
  BY DEF IInv
<1>. QED  BY <1>1, Inductive, PTL

(* A build that reports success has built the texts on disk. *)
THEOREM FromSources == Spec => []BuiltFromSources
<1>1. IInv => BuiltFromSources
  BY Links DEF IInv, Finished, BuiltFromSources, Current, Holds
<1>. QED  BY <1>1, Inductive, PTL

(* Only an object of an unfinished build can have other options. *)
THEOREM WithFlags == Spec => []BuiltWithFlags
<1>1. IInv => BuiltWithFlags
  BY DEF IInv, Finished, BuiltWithFlags, Known, Current
<1>. QED  BY <1>1, Inductive, PTL

(* A build that reports success leaves nothing to do. *)
THEOREM Incremental == Spec => []NothingLeft
<1>. SUFFICES ASSUME IInv, result = "ok"
              PROVE  Pending = {} /\ \A t \in Target : ~Unlinked(t)
  BY Inductive, PTL DEF NothingLeft
<1>1. \A u \in Unit : Current(u) /\ cmds[u] = flags
  BY DEF IInv, Finished
<1>2. \A u \in Unit : ~Stale(u)
  <2>. SUFFICES ASSUME NEW u \in Unit  PROVE ~Stale(u)
    OBVIOUS
  <2>1. u \in DOMAIN obj /\ obj[u].time \in 1..clock
    BY <1>1 DEF Current, IInv, TypeOK
  <2>2. \A f \in Deps[u] : time[f] \in 0..clock
    BY Sources DEF IInv, TypeOK
  <2>3. \A f \in Deps[u] : ~(time[f] > obj[u].time)
    <3>1. clock \in Nat /\ \A f \in Deps[u] : time[f] <= obj[u].time
      BY <1>1 DEF Current, IInv, TypeOK
    <3>. QED  BY <2>1, <2>2, <3>1
  <2>. QED  BY <1>1, <2>1, <2>3 DEF Stale
<1>3. \A t \in Target : ~Unlinked(t)
  <2>. SUFFICES ASSUME NEW t \in Target  PROVE ~Unlinked(t)
    OBVIOUS
  <2>1. Holds(t) /\ links[t] = <<LinkFlags(t)>>
    BY DEF IInv, Finished
  <2>2. lib[t].time \in 1..clock
    BY <2>1 DEF Holds, IInv, TypeOK
  <2>3. \A u \in Inputs[t] : obj[u].time \in 1..clock
    BY <1>1, Links DEF Current, IInv, TypeOK
  <2>. QED  BY <2>1, <2>2, <2>3 DEF Unlinked, Holds, IInv, TypeOK
<1>. QED  BY <1>2, <1>3 DEF Pending
-----------------------------------------------------------------------------
(* The build does as one from scratch. *)

\* What a unit was compiled from did compile.
Wrought == \A u \in DOMAIN obj : \A f \in Deps[u] : obj[u].from[f] \in Good

LEMMA InitWrought == Init => Wrought
BY DEF Init, Wrought

\* Compilations keep that, if what they compile does.
LEMMA CompiledWrought ==
  ASSUME Wrought, NEW done, NEW lost, NEW now, obj' = Compiled(done, lost, now),
         \A u \in done : Compiles(u)
  PROVE  Wrought'
<1>. SUFFICES ASSUME NEW u \in DOMAIN obj', NEW f \in Deps[u]
              PROVE  obj'[u].from[f] \in Good
  BY DEF Wrought
<1>1. CASE u \in done
  BY <1>1 DEF Compiled, Object, Compiles
<1>2. CASE u \notin done
  <2>1. u \in DOMAIN obj /\ obj'[u] = obj[u]
    BY <1>2 DEF Compiled
  <2>. QED  BY <2>1 DEF Wrought
<1>. QED  BY <1>1, <1>2

LEMMA StepWrought == ASSUME IInv, Wrought, [Next]_vars PROVE Wrought'
<1>1. CASE CompileAll
  BY <1>1, CompiledWrought DEF CompileAll
<1>2. CASE CompileFails
  BY <1>2, CompiledWrought DEF CompileFails
<1>3. CASE KilledCompiling
  BY <1>3, CompiledWrought DEF KilledCompiling
<1>4. CASE Clean
  BY <1>4 DEF Clean, Wrought
<1>5. ASSUME \/ \E f \in File, x \in Text : Edit(f, x)
             \/ \E g \in Flag : SetOptions(g)
             \/ Link \/ LinkFails \/ Save \/ Kill \/ UNCHANGED vars
      PROVE  UNCHANGED obj
  BY <1>5 DEF Edit, SetOptions, Link, LinkFails, Save, Kill, vars
<1>. QED  BY <1>1, <1>2, <1>3, <1>4, <1>5 DEF Next, Wrought

\* A unit that is not compiled again compiles.
LEMMA CurrentCompiles ==
  ASSUME Wrought, NEW u, Current(u)
  PROVE  Compiles(u)
BY DEF Wrought, Current, Compiles

LEMMA ChangeMaps ==
  ASSUME IInv, stage = "idle", stage' = "idle", text' \in [File -> Text], flags' \in Flag,
         result' = None
  PROVE  FromScratch!Change
<1>1. Product' = None
  BY NoneIsNothing DEF Product
<1>. QED  BY <1>1 DEF FromScratch!Change, Text

\* A build that has compiled what was out of date has all it needs.
LEMMA CompileAllMaps ==
  ASSUME IInv, Wrought, CompileAll
  PROVE  FromScratch!Compile
<1>1. \A u \in Unit : Compiles(u)
  BY PendingTypes, CurrentCompiles DEF CompileAll
<1>2. Product' = None
  BY NoneIsNothing DEF CompileAll, Product
<1>. QED  BY <1>1, <1>2 DEF FromScratch!Compile, FromScratch!Compiles, Compiles, CompileAll, disk

LEMMA CompileFailsMaps ==
  ASSUME IInv, CompileFails
  PROVE  FromScratch!CompileFails
<1>1. /\ \E u \in Unit : ~Compiles(u)
      /\ stage = "idle" /\ stage' = "idle" /\ result' = "error" /\ UNCHANGED <<text, flags>>
  <2>1. PICK broken \in SUBSET Pending : broken # {} /\ \A u \in broken : ~Compiles(u)
    BY DEF CompileFails
  <2>. QED  BY <2>1 DEF CompileFails, Pending, disk
<1>2. Product' = None
  BY <1>1 DEF Product
<1>. QED  BY <1>1, <1>2 DEF FromScratch!CompileFails, FromScratch!Compiles, Compiles

\* Every target of a build that is about to succeed holds what is on disk.
LEMMA SaveMaps ==
  ASSUME IInv, Save
  PROVE  FromScratch!Succeed
<1>1. stage = "save" /\ stage' = "idle" /\ result' = "ok" /\ UNCHANGED <<text, flags, lib, obj>>
  BY DEF Save, disk
<1>2. \A t \in Target : \A u \in Inputs[t] : lib[t].of[u].from = [f \in Deps[u] |-> text[f]]
  <2>1. \A u \in Unit : Current(u)
    BY <1>1 DEF IInv, Building
  <2>2. \A t \in Target : Holds(t)
    BY <1>1 DEF IInv, Linking
  <2>. QED  BY <2>1, <2>2, Links DEF Current, Holds
<1>3. Product' = FromScratch!Whole
  BY <1>1, <1>2 DEF Product, FromScratch!Whole
<1>. QED  BY <1>1, <1>3 DEF FromScratch!Succeed

LEMMA BuildStepMaps ==
  ASSUME IInv, Wrought, [Next]_vars
  PROVE  [FromScratch!Next]_(FromScratch!vars)
<1>0. TypeOK
  BY DEF IInv
<1>1. ASSUME NEW f \in File, NEW x \in Text, Edit(f, x) PROVE FromScratch!Change
  BY <1>0, <1>1, ChangeMaps DEF Edit, TypeOK
<1>2. ASSUME NEW g \in Flag, SetOptions(g) PROVE FromScratch!Change
  BY <1>0, <1>2, ChangeMaps DEF SetOptions, TypeOK
<1>3. ASSUME Clean \/ KilledCompiling PROVE FromScratch!Change
  BY <1>0, <1>3, ChangeMaps DEF Clean, KilledCompiling, TypeOK, disk
<1>4. ASSUME Link PROVE UNCHANGED FromScratch!vars
  <2>1. stage # "idle" /\ stage' # "idle" /\ result = None /\ UNCHANGED <<text, flags, result>>
    BY <1>4 DEF Link, disk, IInv, Building
  <2>2. Product = None /\ Product' = None
    BY <2>1, NoneIsNothing DEF Product
  <2>. QED  BY <2>1, <2>2 DEF FromScratch!vars
<1>5. ASSUME LinkFails PROVE FromScratch!LinkFails
  <2>1. /\ stage = "link" /\ stage' = "idle" /\ result' = "error"
        /\ UNCHANGED <<text, flags>>
    BY <1>5 DEF LinkFails, disk
  <2>2. Product' = None
    BY <2>1 DEF Product
  <2>. QED  BY <2>1, <2>2 DEF FromScratch!LinkFails
<1>6. ASSUME Kill PROVE FromScratch!Killed
  <2>1. /\ stage # "idle" /\ stage' = "idle" /\ result' = None /\ UNCHANGED <<text, flags>>
    BY <1>6 DEF Kill, disk, IInv, Building
  <2>2. Product' = None
    BY <2>1, NoneIsNothing DEF Product
  <2>. QED  BY <2>1, <2>2 DEF FromScratch!Killed
<1>7. ASSUME UNCHANGED vars PROVE UNCHANGED FromScratch!vars
  BY <1>7 DEF vars, FromScratch!vars, Product
<1>. QED
  BY <1>1, <1>2, <1>3, <1>4, <1>5, <1>6, <1>7, CompileAllMaps, CompileFailsMaps, SaveMaps
     DEF Next, FromScratch!Next

LEMMA BuildInitMaps == Init => FromScratch!Init
<1>. SUFFICES ASSUME Init PROVE FromScratch!Init
  OBVIOUS
<1>1. Product = None
  BY NoneIsNothing DEF Init, Product
<1>. QED  BY <1>1 DEF Init, FromScratch!Init

(* For every workspace, an incremental build ends as one from scratch does. *)
THEOREM BuildsFromScratch == Spec => AsIfFromScratch
<1>1. IInv /\ Wrought /\ [Next]_vars => Wrought'
  BY StepWrought
<1>2. IInv /\ Wrought /\ [Next]_vars => [FromScratch!Next]_(FromScratch!vars)
  BY BuildStepMaps
<1>. QED
  BY BuildInitMaps, InitWrought, Inductive, <1>1, <1>2, PTL
     DEF Spec, AsIfFromScratch, FromScratch!Spec
=============================================================================
