--------------------------- MODULE PauseLifecycle ---------------------------
(***************************************************************************)
(* What a paused dispatch promises to the rest of the program: it is       *)
(* handed to one resumer at a time, it is woken at most MaxWakes times,    *)
(* and it is given up only when that many wakes failed.                    *)
(***************************************************************************)
EXTENDS Naturals

CONSTANT MaxWakes

VARIABLES status, wakes

PauseStatuses == {"none", "paused", "resuming", "resumed", "abandoned"}

Init == status = "none" /\ wakes = 0

Move(from, to) == status = from /\ status' = to

Pause == Move("none", "paused") /\ UNCHANGED wakes

Claim == Move("paused", "resuming") /\ wakes < MaxWakes /\ wakes' = wakes + 1

Resume == Move("resuming", "resumed") /\ UNCHANGED wakes

RePause == Move("resuming", "paused") /\ wakes < MaxWakes /\ UNCHANGED wakes

Abandon == Move("resuming", "abandoned") /\ wakes = MaxWakes /\ UNCHANGED wakes

Next == Pause \/ Claim \/ Resume \/ RePause \/ Abandon

Spec == Init /\ [][Next]_<<status, wakes>>
=============================================================================
