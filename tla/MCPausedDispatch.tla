-------------------------- MODULE MCPausedDispatch --------------------------
(* PausedDispatch on small instances. *)
EXTENDS PausedDispatch, TLC

\* Resumers are interchangeable.
ResumerSymmetry == Permutations(Resumers)
=============================================================================
