------------------------- MODULE MCIncrementalBuild -------------------------
(***************************************************************************)
(* A workspace of two units that share a header, a plugin of both and a db *)
(* executable of one.                                                      *)
(***************************************************************************)
EXTENDS IncrementalBuild

CONSTANTS a, h, ua, uh, plugin, db

MCDeps == [u \in {ua, uh} |-> IF u = ua THEN {a, h} ELSE {h}]
MCInputs == [t \in {plugin, db} |-> IF t = plugin THEN {ua, uh} ELSE {uh}]
=============================================================================
