--------------------------- MODULE MCQueryRouter ---------------------------
(***************************************************************************)
(* QueryRouter for TLC.  The sessions are interchangeable: a cursor differs*)
(* from the connection it came from in nothing that route reads, and every *)
(* property of the runs is an invariant that names no session.             *)
(***************************************************************************)
EXTENDS QueryRouter, TLC

AnyOrder == Permutations(Sessions)
===========================================================================
