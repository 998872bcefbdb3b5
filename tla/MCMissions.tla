----------------------------- MODULE MCMissions -----------------------------
(* Missions on small instances. *)
EXTENDS Missions, TLC

\* Coordinator processes are interchangeable.
TickSymmetry == Permutations(Ticks)
=============================================================================
