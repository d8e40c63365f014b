----------------------------- MODULE CleanBuild -----------------------------
(***************************************************************************)
(* The build of a workspace as its callers think of it: everything is      *)
(* compiled every time.  Nothing is left over from an earlier build, so    *)
(* there are no objects, no file times and no record of commands here.     *)
(***************************************************************************)
CONSTANTS
  File, Unit, Deps,  \* the files an object of a unit depends on
  Target, Inputs,    \* the units a target is linked from
  Good, Bad,         \* the texts that compile, and the others
  Flag, None

VARIABLES
  text,      \* what is in a file
  flags,     \* the options in force
  compiled,  \* a build has compiled every unit, and is to link
  result,    \* of the last build: None before, and once a file or option changed
  product    \* what a successful one has made: the texts in each target

vars == <<text, flags, compiled, result, product>>

Compiles(u) == \A f \in Deps[u] : text[f] \in Good

\* Every target of what is in the files now.
Whole == [t \in Target |-> [u \in Inputs[t] |-> [f \in Deps[u] |-> text[f]]]]

Init ==
  /\ text \in [File -> Good] /\ flags \in Flag
  /\ compiled = FALSE /\ result = None /\ product = None

\* Somebody edits or restores a file, or sets options; or a build starts or
\* dies, of which nothing remains.
Change ==
  /\ compiled = FALSE /\ compiled' = FALSE
  /\ text' \in [File -> Good \cup Bad] /\ flags' \in Flag
  /\ result' = None /\ product' = None

Compile ==
  /\ compiled = FALSE /\ compiled' = TRUE
  /\ \A u \in Unit : Compiles(u)
  /\ result' = None /\ product' = None
  /\ UNCHANGED <<text, flags>>

\* Errors of the compiler are those of the files.
CompileFails ==
  /\ compiled = FALSE
  /\ \E u \in Unit : ~Compiles(u)
  /\ result' = "error" /\ product' = None
  /\ UNCHANGED <<text, flags, compiled>>

LinkFails ==
  /\ compiled = TRUE /\ compiled' = FALSE
  /\ result' = "error" /\ product' = None
  /\ UNCHANGED <<text, flags>>

Succeed ==
  /\ compiled = TRUE /\ compiled' = FALSE
  /\ result' = "ok" /\ product' = Whole
  /\ UNCHANGED <<text, flags>>

Killed ==
  /\ compiled = TRUE /\ compiled' = FALSE
  /\ result' = None /\ product' = None
  /\ UNCHANGED <<text, flags>>

Next == Change \/ Compile \/ CompileFails \/ LinkFails \/ Succeed \/ Killed

Spec == Init /\ [][Next]_vars
=============================================================================
