-------------------------- MODULE StaticHazardDrive --------------------------
(***************************************************************************)
(* The development drive of the hazard in a running simulation: p7.live's  *)
(* execute, with the actors it spawns and moves (CarlaHazardActors,        *)
(* CarlaTraffic, OwnedActors), the collision sensor whose callback thread  *)
(* fills a bounded queue (CollisionObserver), and the closing of its       *)
(* session.  The ego is parked and nobody steers it.                       *)
(***************************************************************************)
EXTENDS HazardScenario

CONSTANT Queue    \* the collision queue's capacity, 256

ASSUME QueueAssumption == Queue \in Nat

VARIABLES
    spc,        \* where execute is
    owned,      \* the roles OwnedActors holds; one vehicle stands for the traffic
    stuck,      \* those whose destruction failed (history)
    viewer,     \* the cameras: "none", "open", "closed" or "failed"
    listening,  \* the collision sensor calls back
    queued,     \* records in the queue
    overflow,
    status,     \* execute's status
    failures,   \* its list of failures is not empty
    log         \* the session's log: "open", "closed"

contactVars == <<listening, queued, overflow>>
resultVars  == <<status, failures, log>>
staticVars  == <<spc, owned, stuck, viewer, contactVars, resultVars>>

StaticInit ==
    /\ spc = "new" /\ owned = {} /\ stuck = {}
    /\ viewer = "none"
    /\ listening = FALSE /\ queued = 0 /\ overflow = FALSE
    /\ status = "ABORTED" /\ failures = FALSE /\ log = "open"

Fail == faults' = faults + 1 /\ faults' <= MaxFaults

Still == UNCHANGED <<h, settings, disk, prepared, now, err, rested, struck>>

\* What leaves the try block is kept as a failure.
Caught == spc' = "ending" /\ failures' = TRUE

\* The observation made before anything stands on the road.
Initially == [contact |-> "none", sound |-> TRUE, reached |-> FALSE, onset |-> FALSE,
              clear |-> FALSE, complete |-> FALSE, input |-> NoInput]

-----------------------------------------------------------------------------
(* Preparation                                                             *)

\* The world is synchronous, the ego is missing, moves or is off its lane, or
\* there is no straight corridor: nothing was made and nothing is undone.
PreflightFails ==
    /\ spc = "new" /\ spc' = "closing"
    /\ failures' = TRUE
    /\ Fail /\ Still
    /\ UNCHANGED <<owned, stuck, viewer, contactVars, status, log>>

Preflight ==
    /\ spc = "new" /\ spc' = "traffic"
    /\ UNCHANGED <<scenarioVars, owned, stuck, viewer, contactVars, resultVars>>

\* CarlaHazardActors.spawn: an actor is owned before anything else is done to
\* it, so that what fails afterwards leaves it to the clean-up.
Spawned(role) == owned' = owned \cup {role}

SpawnFails(role) == owned' \in {owned, owned \cup {role}}

\* The corridor is occupied, or there are too few places, or a spawn fails.
TrafficFails ==
    /\ spc = "traffic" /\ Caught
    /\ SpawnFails("traffic")
    /\ Fail /\ Still
    /\ UNCHANGED <<stuck, viewer, contactVars, status, log>>

PrepareTraffic ==
    /\ spc = "traffic"
    /\ owned' = owned \/ Spawned("traffic")
    /\ spc' = IF enabled THEN "arm" ELSE "viewer"
    /\ UNCHANGED <<scenarioVars, stuck, viewer, contactVars, resultVars>>

StaticArm ==
    /\ spc = "arm"
    /\ BeginArm(Initially)
    /\ IF err' = "none" THEN spc' = "cargo" /\ UNCHANGED failures ELSE Caught
    /\ UNCHANGED <<owned, stuck, viewer, contactVars, status, log>>

SpawnCargo ==
    /\ spc = "cargo" /\ spc' = "lead" /\ Spawned("cargo")
    /\ UNCHANGED <<scenarioVars, stuck, viewer, contactVars, resultVars>>

\* The lead hides the cargo: the actors are ready and the scenario is armed.
SpawnLead ==
    /\ spc = "lead" /\ Spawned("lead")
    /\ EndArm(Initially)
    /\ IF err' = "none" THEN spc' = "observer" /\ UNCHANGED failures ELSE Caught
    /\ UNCHANGED <<stuck, viewer, contactVars, status, log>>

\* A blueprint is missing, a spawn fails, or the lead does not hide the cargo.
ActorsFail ==
    /\ spc \in {"cargo", "lead"} /\ Caught
    /\ SpawnFails(spc)
    /\ \E e \in Raised : PrepareFails(e)
    /\ UNCHANGED <<stuck, viewer, contactVars, status, log>>

\* CollisionObserver: the sensor is owned before it is listened to.
ObserveCollisions ==
    /\ spc = "observer" /\ spc' = "viewer"
    /\ Spawned("sensor")
    /\ listening' = TRUE
    /\ UNCHANGED <<scenarioVars, stuck, viewer, queued, overflow, resultVars>>

ObserverFails ==
    /\ spc = "observer" /\ Caught
    /\ SpawnFails("sensor")
    /\ Fail /\ Still
    /\ UNCHANGED <<stuck, viewer, contactVars, status, log>>

OpenViewer ==
    /\ spc = "viewer" /\ spc' = "loop"
    /\ viewer' = "open"
    /\ UNCHANGED <<scenarioVars, owned, stuck, contactVars, resultVars>>

\* Cameras that were attached before one failed are the viewer's to close.
ViewerFails ==
    /\ spc = "viewer" /\ Caught
    /\ viewer' = "open"
    /\ Fail /\ Still
    /\ UNCHANGED <<owned, stuck, contactVars, status, log>>

-----------------------------------------------------------------------------
(* The loop and the sensor's callback                                      *)

\* The simulator reports a contact, on a thread of its own.
Capture ==
    /\ listening /\ ~overflow
    /\ IF queued < Queue THEN queued' = queued + 1 /\ UNCHANGED overflow
       ELSE overflow' = TRUE /\ UNCHANGED queued
    /\ UNCHANGED <<scenarioVars, spc, owned, stuck, viewer, listening, resultVars>>

\* The ego moved, a camera is late, or the simulator's time jumps or stalls.
LoopFails ==
    /\ spc = "loop" /\ Caught
    /\ Fail /\ Still
    /\ UNCHANGED <<owned, stuck, viewer, contactVars, status, log>>

\* Contacts came faster than they were taken: no observation is made of them.
Overflowed ==
    /\ spc = "loop" /\ enabled /\ overflow /\ Caught
    /\ UNCHANGED <<scenarioVars, owned, stuck, viewer, contactVars, status, log>>

\* What the geometry can say of a frame, with the first contact that waits.
Seen == {o \in Observations :
            o.contact \in IF queued > 0 THEN {"collision", "both"}
                          ELSE {"none", "departure"}}

\* A new frame: one contact is taken, the scenario updated, and the lead moved
\* unless the scene has ended.
Frame ==
    /\ spc = "loop" /\ enabled /\ ~overflow
    /\ queued' = IF queued > 0 THEN queued - 1 ELSE 0
    /\ \E o \in Seen : Update(o)
    /\ IF err' # "none" THEN Caught /\ UNCHANGED status
       ELSE IF h'.state \in Terminal
       THEN spc' = "ending" /\ status' = h'.state /\ UNCHANGED failures
       ELSE UNCHANGED <<spc, status, failures>>
    /\ UNCHANGED <<owned, stuck, viewer, listening, overflow, log>>

TimeIsUp ==
    /\ spc = "loop" /\ spc' = "ending"
    /\ status' = IF enabled THEN "TIME_CAP" ELSE "TRAFFIC_ONLY_COMPLETE"
    /\ UNCHANGED <<scenarioVars, owned, stuck, viewer, contactVars, failures, log>>

\* The user closes the window, or interrupts the program wherever it is.
UserAbort ==
    /\ spc \in {"traffic", "arm", "cargo", "lead", "observer", "viewer", "loop"}
    /\ spc' = "ending"
    /\ status' = "USER_ABORT"
    /\ UNCHANGED <<scenarioVars, owned, stuck, viewer, contactVars, failures, log>>

-----------------------------------------------------------------------------
(* The end                                                                 *)

\* A scene that has not ended is aborted, armed or not.  The row is written
\* inside the finally clause: if that raises, nothing below it is done.
EndScene ==
    /\ spc = "ending"
    /\ IF enabled /\ h.state \notin Terminal THEN AbortWith("NONE")
       ELSE err' = "none" /\ UNCHANGED <<h, settings, disk, prepared, now, rested,
                                         struck, faults>>
    /\ spc' = IF err' = "none" THEN "sensors" ELSE "closing"
    /\ failures' = (failures \/ err' # "none")
    /\ UNCHANGED <<owned, stuck, viewer, contactVars, status, log>>

\* slip: a sensor that will not stop ends the clean-up.
BrittleCloseSensors ==
    /\ spc = "sensors"
    /\ \E quiet, closed \in BOOLEAN :
          /\ spc' = IF quiet /\ closed THEN "actors" ELSE "closing"
          /\ listening' = (listening /\ ~quiet)
          /\ viewer' = IF viewer = "none" THEN viewer
                       ELSE IF closed THEN "closed" ELSE "failed"
          /\ failures' = (failures \/ ~quiet \/ ~closed)
    /\ UNCHANGED <<scenarioVars, owned, stuck, queued, overflow, status, log>>

\* The sensor is stopped and the cameras closed, each whatever the other does.
CloseSensors ==
    /\ spc = "sensors" /\ spc' = "actors"
    /\ \E quiet, closed \in BOOLEAN :
          /\ ~quiet => listening
          /\ ~closed => viewer = "open"
          /\ IF quiet /\ closed THEN UNCHANGED faults ELSE Fail
          /\ listening' = (listening /\ ~quiet)
          /\ viewer' = IF viewer = "none" THEN viewer
                       ELSE IF closed THEN "closed" ELSE "failed"
          /\ failures' = (failures \/ ~quiet \/ ~closed)
    /\ Still
    /\ UNCHANGED <<owned, stuck, queued, overflow, status, log>>

\* OwnedActors.close: every actor is tried; the row that says so may fail.
CloseActors ==
    /\ spc = "actors" /\ spc' = "closing"
    /\ \E left \in SUBSET owned, written \in BOOLEAN :
          /\ IF left = {} /\ written THEN UNCHANGED faults ELSE Fail
          /\ owned' = left /\ stuck' = left
          /\ listening' = (listening /\ "sensor" \in left)
          /\ failures' = (failures \/ left # {} \/ ~written)
    /\ Still
    /\ UNCHANGED <<viewer, queued, overflow, status, log>>

\* The tool around it: an error is written once more, the summary is written,
\* and the log is closed whether they could be or not.
CloseSession ==
    /\ spc = "closing" /\ spc' = "closed"
    /\ log' = "closed"
    /\ status' = IF failures THEN "ABORTED" ELSE status
    /\ UNCHANGED <<scenarioVars, owned, stuck, viewer, contactVars, failures>>

StaticNext ==
    \/ PreflightFails \/ Preflight \/ TrafficFails \/ PrepareTraffic
    \/ StaticArm \/ SpawnCargo \/ SpawnLead \/ ActorsFail
    \/ ObserveCollisions \/ ObserverFails \/ OpenViewer \/ ViewerFails
    \/ Capture \/ LoopFails \/ Overflowed \/ Frame \/ TimeIsUp \/ UserAbort
    \/ EndScene \/ CloseSensors \/ CloseActors \/ CloseSession

-----------------------------------------------------------------------------
(* Properties                                                              *)

\* Whatever fails, every actor spawned is destroyed or was tried, and the
\* cameras are closed: unless the row of the scene's own end cannot be written,
\* which leaves them all on the road.
ActorsAreReturned ==
    spc = "closed" /\ err = "none" =>
        owned = stuck /\ viewer # "open" /\ (listening => "sensor" \in stuck)
=============================================================================
