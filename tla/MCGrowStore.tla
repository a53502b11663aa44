---------------------------- MODULE MCGrowStore -----------------------------
(***************************************************************************)
(* GrowStore on small instances. Investigation ids, clients and answers    *)
(* are interchangeable in it.                                              *)
(***************************************************************************)
EXTENDS GrowStore, TLC

Symmetry == Permutations(Ids) \cup Permutations(Clients)
              \cup Permutations(Answers) \cup Permutations(Facts)
=============================================================================
