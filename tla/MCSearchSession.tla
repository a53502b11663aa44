--------------------------- MODULE MCSearchSession ---------------------------
(***************************************************************************)
(* SearchSession on small instances.                                       *)
(***************************************************************************)
EXTENDS SearchSession, TLC

Symmetry == Permutations(Workers)
=============================================================================
