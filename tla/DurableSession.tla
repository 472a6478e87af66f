--------------------------- MODULE DurableSession ---------------------------
(***************************************************************************)
(* What the run directory promises to whoever reads it, whatever happens   *)
(* to the process that writes it: src/p8/orchestrator.py and               *)
(* src/p8/crash_recovery.py as seen through session_manifest.json alone.   *)
(*                                                                         *)
(* The manifest has an outcome and a history of the stages that ended.     *)
(* The history only grows, the outcome is decided once, and a complete     *)
(* flow is all of the stages.                                              *)
(***************************************************************************)
EXTENDS Naturals, Sequences

CONSTANTS AllStages,   \* the ordered stages
          Outcome      \* the final outcomes

VARIABLES outcome, history

Extends(old, new) ==
  /\ Len(old) <= Len(new)
  /\ \A i \in 1..Len(old) : new[i] = old[i]

\* A history that went through every stage and completed each of them.
Complete(h) ==
  /\ Len(h) = Len(AllStages)
  /\ \A i \in 1..Len(h) : h[i] = << AllStages[i], "DEV_COMPLETED" >>

Init == outcome = "NONE" /\ history = << >>

\* A save on the way.
Save == /\ outcome \in {"NONE", "RUNNING"}
        /\ outcome' = "RUNNING"
        /\ Extends(history, history')

\* The one save that decides the run.
Decide == /\ outcome \in {"NONE", "RUNNING"}
          /\ outcome' \in Outcome
          /\ Extends(history, history')
          /\ outcome' = "DEV_FLOW_COMPLETE" => Complete(history')

Next == Save \/ Decide

Spec == Init /\ [][Next]_<< outcome, history >>
=============================================================================
