---------------------------- MODULE MCActiveRuns ----------------------------
(* ActiveRuns on small instances. *)
EXTENDS ActiveRuns
=============================================================================
