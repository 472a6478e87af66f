------------------------------ MODULE MCM2Hazard ------------------------------
(***************************************************************************)
(* The two parts of OperatorM2Hazard that its clear-road subclass does not *)
(* replace or share: the log of raw inputs and the scene behind a moving   *)
(* lead.  They share no state, so a behaviour belongs to one of them.      *)
(***************************************************************************)
EXTENDS RawSamples, MovingHazard

VARIABLE part

M2Init ==
    /\ part \in {"samples", "moving"}
    /\ Init /\ MovingInit
    /\ part = "moving" => ~nonfatal
    /\ part = "samples" => registry = "none"

M2Next ==
    /\ UNCHANGED part
    /\ \/ part = "samples" /\ Next /\ UNCHANGED movingVars
       \/ part = "moving" /\ MovingNext /\ UNCHANGED vars

M2Spec == M2Init /\ [][M2Next]_<<vars, movingVars, part>>
=============================================================================
