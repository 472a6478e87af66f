---------------------------- MODULE ExitOpportunity ----------------------------
(***************************************************************************)
(* What the rest of the experiment may rely on about the one exit          *)
(* opportunity of a module: it is presented at most once, and resolved at  *)
(* most once, physically and only after it was presented.  The hazard of   *)
(* module 2 waits for exactly this (exit_before_hazard.py).                *)
(***************************************************************************)
VARIABLE phase

Init == phase = "not_presented"

Present == phase = "not_presented" /\ phase' = "presented"
Resolve == phase = "presented" /\ phase' = "resolved"

Next == Present \/ Resolve
Spec == Init /\ [][Next]_phase
=============================================================================
