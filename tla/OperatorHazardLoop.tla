-------------------------- MODULE OperatorHazardLoop --------------------------
(***************************************************************************)
(* The hazard bound to the operator's drive: OperatorHazardLoop, called by *)
(* the view loop once after control and once after the flip of a frame,    *)
(* and finalized when it ends the drive, when an error leaves the loop or  *)
(* when the driver does.  Its backend, its safety owner and the sink of    *)
(* its record are the caller's: any call of them may raise.                *)
(***************************************************************************)
EXTENDS HazardScenario

VARIABLES
    opc,       \* where the view loop is
    active,    \* what after_control_applied returned
    observed,  \* _last is set
    shown,     \* _display_candidate is set
    backend,   \* "none", "held", "released", or "stuck" with actors left
    rescue,    \* _rescue_status
    requests,  \* calls of request_safe_shutdown (history)
    error,     \* an error travels through the end of the drive
    record,    \* the last record given to the sink
    recorded,  \* how often one was (history)
    stageEnd   \* the reason end_stage was given

bindingVars == <<active, observed, shown>>
endVars     == <<record, recorded, stageEnd>>
safetyVars  == <<rescue, requests>>
operatorVars ==
    <<opc, bindingVars, backend, safetyVars, error, endVars>>

NoRecord == [status |-> "NONE", reserved |-> FALSE, rescue |-> "NONE", left |-> FALSE,
             outcome |-> "NONE"]

OperatorInit ==
    /\ opc = "new"
    /\ active = FALSE /\ observed = FALSE /\ shown = FALSE
    /\ backend = "none"
    /\ rescue = "NOT_REQUESTED" /\ requests = 0
    /\ error = FALSE
    /\ record = NoRecord /\ recorded = 0 /\ stageEnd = "NONE"

Fault == faults' = faults + 1 /\ faults' <= MaxFaults

Quiet == UNCHANGED <<h, settings, disk, prepared, now, err, rested, struck>>

\* An exception leaves the loop: the view calls finalize with it.
Escape == /\ Fault /\ Quiet
          /\ error' = TRUE /\ opc' = "ending"

-----------------------------------------------------------------------------
(* start                                                                   *)

\* begin_segment raises, before there is anything to give back.
SegmentFails == /\ opc = "new" /\ Escape
                /\ UNCHANGED <<bindingVars, backend, safetyVars, endVars>>

Acquire ==
    /\ opc = "new" /\ opc' = "frame"
    /\ backend' = "held"
    /\ UNCHANGED <<scenarioVars, bindingVars, safetyVars, error, endVars>>

\* What was acquired before the failure is given back here, or not; there will
\* be no second clean-up.
AcquireFails ==
    /\ opc = "new" /\ opc' = "finishing"
    /\ backend' \in {"released", "stuck"}
    /\ error' = TRUE
    /\ Fault /\ Quiet
    /\ UNCHANGED <<bindingVars, safetyVars, endVars>>

-----------------------------------------------------------------------------
(* after_control_applied                                                   *)

\* No sample, a geometry that raises or belongs to another sample.
ObservationFails ==
    /\ opc = "frame" /\ Escape
    /\ UNCHANGED <<bindingVars, backend, safetyVars, endVars>>

\* The backend has no more geometry.
StreamEnds ==
    /\ opc = "frame"
    /\ active' = FALSE
    /\ IF observed THEN AbortWith("UNOBSERVABLE")
       ELSE err' = "none" /\ UNCHANGED <<h, settings, disk, prepared, now, rested,
                                         struck, faults>>
    /\ error' = (err' # "none")
    /\ opc' = IF error' THEN "ending" ELSE "display"
    /\ UNCHANGED <<observed, shown, backend, safetyVars, endVars>>

OperatorArm ==
    /\ opc = "frame" /\ h.state = "IDLE"
    /\ observed' = TRUE
    /\ \/ /\ ArmDisabled
          /\ opc' = "ending" /\ error' = TRUE
       \/ \E o \in Observations :
             /\ BeginArm(o)
             /\ opc' = IF err' = "none" THEN "actors" ELSE "called"
             /\ UNCHANGED error
    /\ UNCHANGED <<active, shown, backend, safetyVars, endVars>>

\* The backend's actors, wherever they come from.
OperatorActors ==
    /\ opc = "actors" /\ opc' = "called"
    /\ \/ \E o \in Observations : EndArm(o)
       \/ \E e \in Raised : PrepareFails(e)
    /\ UNCHANGED <<bindingVars, backend, safetyVars, error, endVars>>

OperatorUpdate ==
    /\ opc = "frame" /\ opc' = "called"
    /\ observed' = TRUE
    /\ \E o \in Observations : Update(o)
    /\ UNCHANGED <<active, shown, backend, safetyVars, error, endVars>>

Wanted == h.terminated /\ rescue = "NOT_REQUESTED"

\* The call came back, or raised; nothing asks for a safe shutdown.
Return ==
    /\ opc = "called" /\ ~Wanted
    /\ error' = (err # "none")
    /\ active' = (h.state \notin Terminal)
    /\ opc' = IF error' THEN "ending" ELSE "display"
    /\ UNCHANGED <<scenarioVars, observed, shown, backend, safetyVars, endVars>>

\* _request_safe_shutdown: the owner is asked whatever the rows before and
\* after do, and whatever the scenario raised is raised again.
RequestSafeShutdown ==
    /\ opc = "called" /\ Wanted
    /\ requests' = requests + 1
    /\ rescue' \in {"FAILED", "RETURNED"}
    /\ \E unwritten \in BOOLEAN :
          LET failing == unwritten \/ rescue' = "FAILED"
          IN  /\ IF failing THEN Fault ELSE UNCHANGED faults
              /\ error' = (failing \/ err # "none")
    /\ active' = (h.state \notin Terminal)
    /\ opc' = IF error' THEN "ending" ELSE "display"
    /\ Quiet
    /\ UNCHANGED <<observed, shown, backend, endVars>>

-----------------------------------------------------------------------------
(* after_display_completed                                                 *)

\* A flip that cannot be one of this scene, or evidence of another frame.
DisplayFails ==
    /\ opc = "display" /\ active /\ ~shown /\ Escape
    /\ UNCHANGED <<bindingVars, backend, safetyVars, endVars>>

\* The obstacle is on the screen before it was triggered: the scene is void.
SeenTooEarly ==
    /\ opc = "display" /\ active /\ ~shown /\ h.trigger = Never
    /\ shown' = TRUE
    /\ AbortWith("UNOBSERVABLE")
    /\ error' = (err' # "none")
    /\ opc' = "ending"
    /\ UNCHANGED <<active, observed, backend, safetyVars, endVars>>

Displayed ==
    /\ opc = "display"
    /\ \/ shown' = shown
       \/ active /\ h.trigger # Never /\ shown' = TRUE
    /\ opc' = IF active THEN "frame" ELSE "ending"
    /\ UNCHANGED <<scenarioVars, active, observed, backend, safetyVars, error, endVars>>

\* The driver leaves before the frame.
OperatorExit ==
    /\ opc = "frame" /\ opc' = "ending"
    /\ UNCHANGED <<scenarioVars, bindingVars, backend, safetyVars, error, endVars>>

-----------------------------------------------------------------------------
(* finalize                                                                *)

\* slip: what the drive's end says replaces what the scene met.
BlindFinalize ==
    /\ opc = "ending" /\ opc' = "cleaning"
    /\ IF observed /\ h.state \notin Terminal THEN AbortWith("UNOBSERVABLE")
       ELSE err' = "none" /\ UNCHANGED <<h, settings, disk, prepared, now, rested,
                                         struck, faults>>
    /\ error' = (error \/ err' # "none")
    /\ UNCHANGED <<bindingVars, backend, safetyVars, endVars>>

\* A scene still open is aborted, with the outcome it has if it has one.
Finalize ==
    /\ opc = "ending" /\ opc' = "cleaning"
    /\ IF observed /\ h.state \notin Terminal
       THEN AbortWith(IF h.outcome = "NONE" THEN "UNOBSERVABLE" ELSE h.outcome)
       ELSE err' = "none" /\ UNCHANGED <<h, settings, disk, prepared, now, rested,
                                         struck, faults>>
    /\ error' = (error \/ err' # "none")
    /\ UNCHANGED <<bindingVars, backend, safetyVars, endVars>>

Clean ==
    /\ opc = "cleaning" /\ opc' = "finishing"
    /\ IF backend = "held"
       THEN \/ /\ backend' = "released" /\ UNCHANGED faults
            \/ /\ backend' = "stuck" /\ Fault
       ELSE UNCHANGED <<backend, faults>>
    /\ Quiet
    /\ UNCHANGED <<bindingVars, safetyVars, error, endVars>>

\* _finish: one record, of what is known by then; the clock may fail before it
\* is written, the sink and the persistence after.
Finish ==
    /\ opc = "finishing" /\ opc' = "closed"
    /\ \E early, late \in BOOLEAN :
          LET broken == error \/ backend = "stuck" \/ early
          IN  /\ record' = [status   |-> IF broken THEN "FAILED"
                                         ELSE IF h.state = "COMPLETED" THEN "EXECUTED"
                                         ELSE "ABORTED",
                            reserved |-> h.claimed,
                            rescue   |-> rescue,
                            left     |-> backend = "stuck",
                            outcome  |-> h.outcome]
              /\ error' = (broken \/ late)
              /\ IF early \/ late THEN Fault ELSE UNCHANGED faults
    /\ recorded' = recorded + 1
    /\ stageEnd' = IF error' THEN "FAILURE"
                   ELSE IF h.state = "COMPLETED" THEN "NORMAL_COMPLETION"
                   ELSE "HAZARD_ABORTED"
    /\ Quiet
    /\ UNCHANGED <<bindingVars, backend, safetyVars>>

OperatorNext ==
    \/ SegmentFails \/ Acquire \/ AcquireFails
    \/ ObservationFails \/ StreamEnds \/ OperatorArm \/ OperatorActors
    \/ OperatorUpdate \/ Return \/ RequestSafeShutdown
    \/ DisplayFails \/ SeenTooEarly \/ Displayed \/ OperatorExit
    \/ Finalize \/ Clean \/ Finish

-----------------------------------------------------------------------------
(* Properties                                                              *)

\* A contact asks the safety owner for a stop once and no more, before the next
\* frame and before the drive ends, whatever could not be written about it.
RescueFollowsContact ==
    /\ requests <= 1
    /\ h.terminated /\ opc \notin {"new", "called"} => requests = 1

\* The record of a hazard that was executed is of one that ended by itself,
\* met nothing and gave its actors back; a contact is the outcome however many
\* writes fail while it ends the scene (both kinds at once leave none); there
\* is one record, and what it says of the rescue and of the actors left is so.
RecordIsHonest ==
    /\ recorded = (IF opc = "closed" THEN 1 ELSE 0)
    /\ opc = "closed" =>
          /\ record.status = "EXECUTED" =>
                h.state = "COMPLETED" /\ struck = "none" /\ backend # "stuck"
          /\ stageEnd = "NORMAL_COMPLETION" => record.status = "EXECUTED"
          /\ record.rescue = rescue /\ record.left = (backend = "stuck")
          /\ record.outcome = h.outcome
          /\ struck = "collision" => record.outcome = "COLLISION"
          /\ struck = "departure" => record.outcome = "ROAD_DEPARTURE"
          /\ record.reserved => disk = "ours"
          /\ backend # "held"

\* The operator's record of the hazard is true: of its outcome, of the rescue that a
\* contact asked for, and of responses that came after the reveal.
HazardIsRecordedAsMet == RescueFollowsContact /\ RecordIsHonest /\ ResponseIsAfterReveal
=============================================================================
