--------------------------- MODULE EngineCatalogue ---------------------------
(***************************************************************************)
(* What the engines directory is to those who read it (engine_publish.py): *)
(* a catalogue that shows a whole package under a slot or none.  A package *)
(* is put in by one step, and its build has passed on each plane it        *)
(* offers; under an engine id there is at most one, ever, and it is of     *)
(* that engine; under a name it is only ever replaced.  A name that was    *)
(* published as a real directory may be withdrawn once.                    *)
(***************************************************************************)
CONSTANTS Name, Engine, Build, Plane, None

VARIABLES
  shown,    \* the package of each slot: build, planes, and whether it is whole
  real,     \* the names that show a real directory
  serves,   \* the runtime: the build and the plane it bound for each slot
  proven    \* the builds and planes that passed a validation

vars == <<shown, real, serves, proven>>

Slot == Name \cup Engine

Proven(package) == \A plane \in package.planes : <<package.build, plane>> \in proven

Init ==
  /\ \A s \in Slot : shown[s] # None => shown[s].whole /\ Proven(shown[s])
  /\ \A e \in Engine : shown[e] = None
  /\ real = {n \in Name : shown[n] # None}
  /\ serves = [s \in Slot |-> None]

\* A validation passes.
Pass ==
  /\ proven \subseteq proven'
  /\ UNCHANGED <<shown, real, serves>>

Packages == {package \in [build : Build, planes : SUBSET Plane, whole : {TRUE}] : Proven(package)}

\* Under a name: a package replaces another, or none.
Put(n) ==
  /\ n \notin real
  /\ \E package \in Packages : shown' = [shown EXCEPT ![n] = package]
  /\ UNCHANGED <<real, serves, proven>>

\* Under an engine id: the first one stays.
PutOnce(e) ==
  /\ shown[e] = None
  /\ \E package \in Packages :
       package.build.engine = e /\ shown' = [shown EXCEPT ![e] = package]
  /\ UNCHANGED <<real, serves, proven>>

\* The one-time migration of a name.
Withdraw(n) ==
  /\ n \in real
  /\ real' = real \ {n}
  /\ shown' = [shown EXCEPT ![n] = None]
  /\ UNCHANGED <<serves, proven>>

\* The runtime binds a package it does not have on any plane it offers.
Bind(s) ==
  /\ shown[s] # None
  /\ serves[s] # None => serves[s].build.engine # shown[s].build.engine
  /\ \E plane \in shown[s].planes :
       serves' = [serves EXCEPT ![s] = [build |-> shown[s].build, plane |-> plane]]
  /\ UNCHANGED <<shown, real, proven>>

\* One that it has it promotes, if the package of that engine offers shm now.
Promote(s) ==
  /\ shown[s] # None /\ "shm" \in shown[s].planes
  /\ serves[s] # None /\ serves[s].plane = "parquet"
  /\ serves[s].build.engine = shown[s].build.engine
  /\ serves' = [serves EXCEPT ![s] = [build |-> shown[s].build, plane |-> "shm"]]
  /\ UNCHANGED <<shown, real, proven>>

Next ==
  \/ Pass
  \/ \E n \in Name : Put(n) \/ Withdraw(n)
  \/ \E e \in Engine : PutOnce(e)
  \/ \E s \in Slot : Bind(s) \/ Promote(s)

Spec == Init /\ [][Next]_vars
==============================================================================
