----------------------------- MODULE MCHazardLoop -----------------------------
(***************************************************************************)
(* The p7 scenario under the two loops that call it.  A behaviour belongs  *)
(* to one of them; the other rests in its initial state.                   *)
(***************************************************************************)
EXTENDS OperatorHazardLoop, StaticHazardDrive, TLC

VARIABLE caller

Init ==
    /\ caller \in {"operator", "static"}
    /\ ScenarioInit /\ OperatorInit /\ StaticInit
    /\ caller = "static" => ~policy

Next ==
    /\ UNCHANGED caller
    /\ \/ caller = "operator" /\ OperatorNext /\ UNCHANGED staticVars
       \/ caller = "static" /\ StaticNext /\ UNCHANGED operatorVars

vars == <<scenarioVars, operatorVars, staticVars, caller>>

Spec == Init /\ [][Next]_vars
=============================================================================
