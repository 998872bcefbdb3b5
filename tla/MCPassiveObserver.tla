-------------------------- MODULE MCPassiveObserver --------------------------
(* PassiveObserver on small instances. *)
EXTENDS PassiveObserver
=============================================================================
