---------------------------- MODULE MCMasterKey ----------------------------
(* MasterKey on small instances. *)
EXTENDS MasterKey, TLC

\* Keys, calls and rows are interchangeable.
Symmetry == Permutations(Keys) \cup Permutations(Calls) \cup Permutations(Rows)
=============================================================================
