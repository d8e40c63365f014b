----------------------------- MODULE DirectWork -----------------------------
(***************************************************************************)
(* What an agent's work on workspaces is, without snapshots and caches     *)
(* (what git_snapshotter.py and the caches keyed by it are to be           *)
(* transparent to): an operation is done to the files there are, a stage   *)
(* is taken back to files it had, and a receipt names the files it was     *)
(* given for.                                                              *)
(***************************************************************************)
CONSTANTS
  Workspace,
  Edit,          \* patches and commands
  Effect(_, _),  \* what one does to the files
  Compiles(_)

VARIABLES
  on,       \* a process works on the workspace
  tree,     \* its files
  past,     \* the files it had since it was started, but for what was taken back
  receipt   \* what was attested: the files built and the files that were run

vars == <<on, tree, past, receipt>>

Init ==
  /\ on = [w \in Workspace |-> FALSE]
  /\ past = [w \in Workspace |-> {}]
  /\ tree = [w \in Workspace |-> {}]
  /\ receipt = {}

\* A process starts on empty files, whatever the last one left.
Begin(w) ==
  /\ ~on[w]
  /\ on' = [on EXCEPT ![w] = TRUE]
  /\ tree' = [tree EXCEPT ![w] = {}]
  /\ past' = [past EXCEPT ![w] = {{}}]
  /\ UNCHANGED receipt

\* It ends anywhere, and leaves its files as they are.
Stop(w) ==
  /\ on[w]
  /\ on' = [on EXCEPT ![w] = FALSE]
  /\ past' = [past EXCEPT ![w] = {}]
  /\ UNCHANGED <<tree, receipt>>

Do(w, o) ==
  /\ on[w]
  /\ tree' = [tree EXCEPT ![w] = Effect(o, @)]
  /\ past' = [past EXCEPT ![w] = @ \cup {tree'[w]}]
  /\ UNCHANGED <<on, receipt>>

\* Back to files it had, and to what led to them.
Back(w) ==
  /\ on[w]
  /\ \E p \in SUBSET past[w] :
       /\ past' = [past EXCEPT ![w] = p]
       /\ \E t \in p : tree' = [tree EXCEPT ![w] = t]
  /\ UNCHANGED <<on, receipt>>

\* The files that are there were built and run.
Attest(w) ==
  /\ on[w] /\ Compiles(tree[w])
  /\ receipt' = receipt \cup {[built |-> tree[w], ran |-> tree[w]]}
  /\ UNCHANGED <<on, tree, past>>

Next ==
  \E w \in Workspace :
    Begin(w) \/ Stop(w) \/ Back(w) \/ Attest(w) \/ \E o \in Edit : Do(w, o)

Spec == Init /\ [][Next]_vars
=============================================================================
