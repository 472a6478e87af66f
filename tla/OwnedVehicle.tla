---- MODULE OwnedVehicle ----
(* What a drive promises about the vehicle it spawned: it is driven only while it   *)
(* is owned, it is told to brake after the last driving command before it is given  *)
(* up, and it is given up, whatever fails.                                          *)
VARIABLE vehicle

States == {"absent", "held", "driven", "braked", "gone"}

TypeOK == vehicle \in States

Init == vehicle = "absent"

Spawn == vehicle = "absent" /\ vehicle' = "held"

Drive == vehicle \in {"held", "braked"} /\ vehicle' = "driven"

Brake == vehicle \in {"held", "driven"} /\ vehicle' = "braked"

Destroy == vehicle \in {"held", "braked"} /\ vehicle' = "gone"

Next == Spawn \/ Drive \/ Brake \/ Destroy

Owned == vehicle \in {"held", "driven", "braked"}

Safety == Init /\ [][Next]_vehicle

Spec == Safety /\ (Owned ~> vehicle = "gone")
====
