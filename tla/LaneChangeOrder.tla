---------------------------- MODULE LaneChangeOrder ----------------------------
(* What one requested lane change may become.  The order is given to the        *)
(* automation once, and only while the automation that the driver asked has     *)
(* driven ever since; it is completed only under the same condition.            *)

VARIABLES order,   \* where the latest request is
          kept     \* the automation has driven since it was made

vars == <<order, kept>>

Open == order \in {"asked", "sent"}

Init == order = "none" /\ kept = FALSE

\* One request at a time: an open one is never replaced.
Ask == ~Open /\ order' = "asked" /\ kept' = TRUE

Send == order = "asked" /\ kept /\ order' = "sent" /\ UNCHANGED kept

Complete == order = "sent" /\ kept /\ order' = "completed" /\ UNCHANGED kept

GiveUp == Open /\ order' = "given up" /\ UNCHANGED kept

Release == kept /\ kept' = FALSE /\ UNCHANGED order

Next == Ask \/ Send \/ Complete \/ GiveUp \/ Release

Spec == Init /\ [][Next]_vars
================================================================================
