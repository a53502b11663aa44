------------------------- MODULE MCBootstrapSession -------------------------
(***************************************************************************)
(* BootstrapSession on small instances.                                    *)
(***************************************************************************)
EXTENDS BootstrapSession, TLC

Symmetry == Permutations(Sessions) \cup Permutations(Facts) \cup Permutations(Keys)
=============================================================================
