---------------------------- MODULE MCBrainWriters ----------------------------
(***************************************************************************)
(* BrainWriters on small instances.                                        *)
(***************************************************************************)
EXTENDS BrainWriters, TLC

Symmetry == Permutations(Ids) \cup Permutations(Facts)
===============================================================================
