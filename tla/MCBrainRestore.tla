---------------------------- MODULE MCBrainRestore ----------------------------
(***************************************************************************)
(* BrainRestore on small instances.                                        *)
(***************************************************************************)
EXTENDS BrainRestore, TLC

Symmetry == Permutations(Txs)
=============================================================================
