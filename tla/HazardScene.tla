------------------------------ MODULE HazardScene ------------------------------
(***************************************************************************)
(* The production hazard of module 2: ClearRoadM2Hazard, which inherits    *)
(* ContinuingM2Hazard and OperatorM2Hazard, with its backend, the registry *)
(* of occurrences on disk, the collision stop, and the iteration of the    *)
(* drive's view loop that calls them.                                      *)
(*                                                                         *)
(* Three things move on their own: the view loop (one thread, cut here at  *)
(* every point where something else can be seen or left behind), the       *)
(* callback thread of the collision sensor (Contact), and the exit         *)
(* coordinator that decides when the hazard may begin.  The process may    *)
(* die (Die) and the participant be driven again (Restart): only the       *)
(* registry's file survives.  A scene's failure ends the scene and never   *)
(* the drive, which is why every step below has an Invalidate branch.      *)
(*                                                                         *)
(* Time is counted in the ticks of a short clock whose landmarks are the   *)
(* constants; samples, geometry and road checks are choices.  The raw      *)
(* input log that finalize flushes is module RawSamples.                   *)
(***************************************************************************)
EXTENDS Naturals, FiniteSets

CONSTANTS
    Runs,          \* process starts for this participant: 1..Runs
    PrepareAt,     \* planned - config.preparation_s
    Planned,       \* the drawn exposure time
    WindowEnd,     \* WINDOW[1], 600 s
    DriveEnd,      \* the drive's duration, 780 s
    Placement,     \* config.placement_timeout_s
    MaxFaults,     \* calls that raise although nothing asked them to
    MaxContacts    \* collisions the sensor reports, of each kind

ASSUME TimesAssumption ==
    /\ {Runs, PrepareAt, Planned, WindowEnd, DriveEnd} \subseteq Nat \ {0}
    /\ {Placement, MaxFaults, MaxContacts} \subseteq Nat
    /\ PrepareAt < Planned /\ Planned <= WindowEnd /\ WindowEnd < DriveEnd

Nothing == 0

\* What a contact can be with: the obstacle this scene owns, or anything else.
Kinds == {"cargo", "other"}

\* What the backend has to give back, and may fail to.
Obligations == {"pair", "sensor", "cargo"}

VARIABLES
    \* --- on disk, over all runs ---
    claim,      \* the run whose file occupies the registry, or Nothing
    reveals,    \* obstacles placed in front of this participant (history)
    \* --- the view loop ---
    run, pc, t,
    exit,       \* the exit opportunity of this module, as the coordinator shows it
    reason,     \* why the view loop ended
    \* --- the scene ---
    state, failed, claimed, since, revealAt,
    first,      \* first_geometry is set
    display,    \* first_display: "none", "valid" or "invalid"
    passed, warned,
    stop,       \* HazardCollisionStop: "none", "detected", "awaiting", "confirmed"
    \* --- the backend ---
    cargo,      \* "none", "hidden", "placed", "gone"
    pairOff,    \* the Traffic Manager ignores the cargo
    listening,  \* the collision sensor calls back
    left,       \* what the clean-up failed to give back; {"open"} before it ran
    \* --- collisions ---
    happened,   \* reported by the simulator (history)
    pending,    \* in the callback's queue
    held,       \* returned by the clean-up, until finalize counts them
    counted,    \* in _driving_event_counts
    seen,       \* a collision was drained in this iteration
    \* --- the outcome ---
    record,     \* the last record given to the sink
    faults

diskVars    == <<claim, reveals>>
loopVars    == <<run, t, exit>>
sceneVars   == <<since, revealAt, first, display, passed, warned>>
actorVars   == <<cargo, pairOff, listening, left>>
contactVars == <<happened, pending, held, counted, seen>>
vars == <<diskVars, loopVars, pc, reason, state, failed, claimed, sceneVars,
          stop, actorVars, contactVars, record, faults>>

NoRecord == [status |-> "NONE", result |-> "NONE", partial |-> TRUE,
             final |-> FALSE, collision |-> FALSE, count |-> 0]
None == [k \in Kinds |-> 0]
Total(q) == q["cargo"] + q["other"]
Plus(p, q) == [k \in Kinds |-> p[k] + q[k]]

Cleaned == left # {"open"}
Driving == pc \notin {"closed", "dead"}

-----------------------------------------------------------------------------
(* Failing and cleaning up                                                 *)

Spend(n) == /\ faults' = faults + n
            /\ faults' <= MaxFaults

SpendIfRaising == Spend(IF pc' = "raise" THEN 1 ELSE 0)

\* backend.cleanup: every step is tried, whatever the others did, and the
\* collisions still in the queue are handed back.  The first answer is kept.
\* `n' is what the calling step has already spent.
CleanUp(n) ==
    \/ /\ Cleaned
       /\ Spend(n)
       /\ UNCHANGED <<actorVars, pending, held>>
    \/ /\ ~Cleaned
       /\ \E lost \in SUBSET Obligations :
             /\ Spend(n + IF lost = {} THEN 0 ELSE 1)
             /\ "cargo" \in lost => cargo \in {"hidden", "placed"}
             /\ "pair" \in lost => pairOff
             /\ left' = lost
             /\ cargo' = IF cargo = "none" \/ "cargo" \in lost THEN cargo ELSE "gone"
             /\ pairOff' = (pairOff /\ "pair" \in lost)
             /\ listening' = (listening /\ "sensor" \in lost)
       /\ held' = pending
       /\ pending' = None

\* What a failed scene shows, whatever it had become before.  Only the final
\* record says anything of collisions.
FailedRecord(final) == [status    |-> "FAILED",
                        result    |-> "INVALID",
                        partial   |-> TRUE,
                        final     |-> final,
                        collision |-> final /\ stop # "none",
                        count     |-> IF final THEN Total(counted) ELSE 0]

\* ContinuingM2Hazard.invalidate: only the first failure counts, the actors go,
\* and the failure is published.  The sink may fail: then no record changes.
Invalidate(n) ==
    IF failed
    THEN /\ Spend(n)
         /\ UNCHANGED <<state, failed, record, actorVars, pending, held>>
    ELSE /\ failed' = TRUE
         /\ state' = "FAILED"
         /\ \/ CleanUp(n) /\ record' = FailedRecord(FALSE)
            \/ CleanUp(n + 1) /\ UNCHANGED record

Alive == UNCHANGED <<state, failed, record, actorVars, pending, held, faults>>

-----------------------------------------------------------------------------
Init ==
    /\ claim = Nothing /\ reveals = 0
    /\ run = 1 /\ pc = "setup" /\ t = 0 /\ exit = "not_presented" /\ reason = "none"
    /\ state = "SCHEDULED" /\ failed = FALSE /\ claimed = FALSE
    /\ since = Nothing /\ revealAt = Nothing
    /\ first = FALSE /\ display = "none" /\ passed = FALSE /\ warned = FALSE
    /\ stop = "none"
    /\ cargo = "none" /\ pairOff = FALSE /\ listening = FALSE /\ left = {"open"}
    /\ happened = None /\ pending = None /\ held = None /\ counted = None
    /\ seen = FALSE
    /\ record = NoRecord
    /\ faults = 0

\* __init__: the observation starts, or the scene has failed before the drive
\* begins; the drive begins either way.
Setup ==
    /\ pc = "setup"
    /\ pc' = "input"
    /\ UNCHANGED <<diskVars, loopVars, reason, claimed, sceneVars, stop,
                   happened, counted, seen>>
    /\ \/ /\ listening' = TRUE
          /\ UNCHANGED <<state, failed, record, cargo, pairOff, left, pending,
                         held, faults>>
       \/ Invalidate(1)

\* The exit coordinator (module ExitAssistance): presented, then physically
\* resolved, never back.
ExitMoves ==
    /\ Driving
    /\ exit' = IF exit = "not_presented" THEN "presented" ELSE "resolved"
    /\ UNCHANGED <<diskVars, run, t, pc, reason, state, failed, claimed,
                   sceneVars, stop, actorVars, contactVars, record, faults>>

\* MovingHazardBackend._collision, on the sensor's callback thread.
Contact(k) ==
    /\ listening /\ pc # "dead"
    /\ k = "cargo" => cargo = "placed"
    /\ happened[k] < MaxContacts
    /\ happened' = [happened EXCEPT ![k] = @ + 1]
    /\ pending' = [pending EXCEPT ![k] = @ + 1]
    /\ UNCHANGED <<diskVars, loopVars, pc, reason, state, failed, claimed,
                   sceneVars, stop, actorVars, held, counted, seen, record, faults>>

-----------------------------------------------------------------------------
(* after_control                                                           *)

\* The loop's next iteration: time has passed.  A failed scene only records its
\* input and shows its failure again.
AfterControl ==
    /\ pc = "input"
    /\ t' \in {t, t + 1} /\ t' <= DriveEnd
    /\ seen' = FALSE
    /\ UNCHANGED <<diskVars, run, exit, reason, claimed, sceneVars, stop,
                   happened, counted>>
    /\ IF failed
       THEN /\ pc' = IF stop # "none" THEN "wait" ELSE "display"
            /\ record' \in {FailedRecord(FALSE), record}
            /\ UNCHANGED <<state, failed, actorVars, pending, held, faults>>
       ELSE \/ /\ pc' = "collect"
               /\ Alive
            \* capture_raw_input raises: no snapshot yet, or a failed flush.
            \/ /\ pc' = "display"
               /\ Invalidate(1)

\* backend.failures and _record_driving_event: the queue is emptied under its
\* lock and counted.  Contact with the owned obstacle is remembered as a stop
\* before the event is written, so a failing write cannot forget it.
CollectContacts ==
    /\ pc = "collect"
    /\ counted' = Plus(counted, pending)
    /\ seen' = (Total(pending) > 0)
    /\ stop' = IF pending["cargo"] > 0 /\ stop = "none" THEN "detected" ELSE stop
    /\ UNCHANGED <<diskVars, loopVars, reason, claimed, sceneVars, happened>>
    /\ state' = IF stop' # stop THEN "COLLISION" ELSE state
    /\ pending' = None
    /\ pc' \in {"raise", IF stop' # "none" THEN "wait" ELSE "advance"}
    /\ SpendIfRaising
    /\ UNCHANGED <<failed, record, actorVars, held>>

\* What a step left half-done when it raised: the scene's failure.
Raise ==
    /\ pc = "raise"
    /\ pc' = IF stop # "none" THEN "wait" ELSE "display"
    /\ Invalidate(0)
    /\ UNCHANGED <<diskVars, loopVars, reason, claimed, sceneVars, stop,
                   happened, counted, seen>>

\* The sample brings nothing new: an old frame, or the drive's time is over.
SkipScene ==
    /\ pc = "advance"
    /\ pc' = "display"
    /\ Alive
    /\ UNCHANGED <<diskVars, loopVars, reason, claimed, sceneVars, stop,
                   happened, counted, seen>>

Waiting == state \in {"SCHEDULED", "READY_HIDDEN"}

\* The window closed with nothing revealed: the scene is taken down early.
WindowExpires ==
    /\ pc = "advance" /\ t < DriveEnd /\ Waiting /\ t > WindowEnd
    /\ state' = "NOT_OCCURRED"
    /\ pc' = "display"
    /\ CleanUp(0)
    /\ UNCHANGED <<diskVars, loopVars, reason, failed, claimed, sceneVars, stop,
                   happened, counted, seen, record>>

Attempting == /\ pc = "advance" /\ t < DriveEnd /\ Waiting
              /\ t >= PrepareAt /\ t <= WindowEnd

\* slip: any exit will do
BlockedByLane(busy) == seen \/ busy

\* _p5_blocker: the exit opportunity first, then whatever else holds the lane.
Blocked(busy) == seen \/ busy \/ exit # "resolved"

\* Not ready: blocked, a road check refused, or the speed was not held.
Defer ==
    /\ Attempting
    /\ pc' = "display"
    /\ since' = Nothing
    /\ Alive
    /\ UNCHANGED <<diskVars, loopVars, reason, claimed, revealAt, first, display,
                   passed, warned, stop, happened, counted, seen>>

\* A road check raised something that is not a refusal.
AttemptFails ==
    /\ Attempting /\ \E busy \in BOOLEAN : ~Blocked(busy)
    /\ pc' = "raise"
    /\ since' = Nothing
    /\ Spend(1)
    /\ UNCHANGED <<state, failed, record, actorVars, pending, held>>
    /\ UNCHANGED <<diskVars, loopVars, reason, claimed, revealAt, first, display,
                   passed, warned, stop, happened, counted, seen>>

\* preflight passes: the cargo is spawned below the road and hidden from the
\* Traffic Manager, unless an earlier attempt did it; the steady time starts.
\* The spawn may raise between the two.
Prepare ==
    /\ Attempting /\ \E busy \in BOOLEAN : ~Blocked(busy)
    /\ since = Nothing \/ t < Planned \/ t <= since
    /\ since' = IF since = Nothing THEN t ELSE since
    /\ UNCHANGED <<diskVars, loopVars, reason, failed, claimed, revealAt, first,
                   display, passed, warned, stop, listening, left, contactVars,
                   record>>
    /\ \/ /\ cargo = "none" /\ cargo' = "hidden"
          /\ \/ pairOff' = TRUE /\ state' = "READY_HIDDEN" /\ pc' = "display"
             \/ pairOff' \in BOOLEAN /\ state' = state /\ pc' = "raise"
       \/ /\ cargo = "hidden"
          /\ pc' = "display"
          /\ UNCHANGED <<cargo, pairOff, state>>
    /\ SpendIfRaising

\* slip: the file is overwritten
ClaimOver ==
    /\ Attempting /\ \E busy \in BOOLEAN : ~Blocked(busy)
    /\ since # Nothing /\ t >= Planned /\ t > since
    /\ UNCHANGED <<loopVars, reason, sceneVars, stop, reveals,
                   happened, counted, seen>>
    /\ claim' = run /\ claimed' = TRUE
    /\ pc' = "reveal"
    /\ Alive

\* OccurrenceRegistry.claim, by exclusive creation of the participant's file:
\* it comes before the obstacle moves, and a file that is there is a failure.
Claim ==
    /\ Attempting /\ \E busy \in BOOLEAN : ~Blocked(busy)
    /\ since # Nothing /\ t >= Planned /\ t > since
    /\ UNCHANGED <<loopVars, reason, sceneVars, stop, reveals,
                   happened, counted, seen>>
    /\ \/ /\ claim = Nothing
          /\ claim' = run /\ claimed' = TRUE
          /\ pc' = "reveal"
          /\ Alive
       \/ /\ claim # Nothing
          /\ pc' = "display"
          /\ Invalidate(0)
          /\ UNCHANGED <<claim, claimed>>

\* backend.reveal runs the checks again: a refusal now is the scene's failure,
\* and the claim stays.  It may also raise once the obstacle is in place.
RevealRefused ==
    /\ pc = "reveal"
    /\ pc' = "display"
    /\ Invalidate(0)
    /\ UNCHANGED <<diskVars, loopVars, reason, claimed, sceneVars, stop,
                   happened, counted, seen>>

Reveal ==
    /\ pc = "reveal"
    /\ cargo' = "placed"
    /\ reveals' = reveals + 1
    /\ revealAt' = t
    /\ state' = "REVEAL_REQUESTED"
    /\ pc' \in {"geometry", "raise"}
    /\ SpendIfRaising
    /\ UNCHANGED <<claim, loopVars, reason, failed, claimed, since, first, display,
                   passed, warned, stop, pairOff, listening, left, contactVars,
                   record>>

\* A scene that has been revealed goes straight to its geometry.
Observe ==
    /\ pc = "advance" /\ t < DriveEnd
    /\ state \in {"REVEAL_REQUESTED", "EXPOSED", "SCENE_RETIRED"}
    /\ pc' = "geometry"
    /\ Alive
    /\ UNCHANGED <<diskVars, loopVars, reason, claimed, sceneVars, stop,
                   happened, counted, seen>>

\* No geometry yet: patience until the placement time-out.
NoGeometry ==
    /\ pc = "geometry"
    /\ first \/ t - revealAt <= Placement
    /\ pc' = "display"
    /\ Alive
    /\ UNCHANGED <<diskVars, loopVars, reason, claimed, sceneVars, stop,
                   happened, counted, seen>>

PlacementFails ==
    /\ pc = "geometry"
    /\ ~first /\ t - revealAt > Placement
    /\ pc' = "display"
    /\ Invalidate(0)
    /\ UNCHANGED <<diskVars, loopVars, reason, claimed, sceneVars, stop,
                   happened, counted, seen>>

\* The first geometry counts when its frame lies in the window (`at' is the
\* frame's own time, not the loop's) and the obstacle is in the way and visible.
Expose ==
    /\ pc = "geometry" /\ cargo = "placed" /\ ~first
    /\ pc' = "display"
    /\ UNCHANGED <<diskVars, loopVars, reason, claimed, since, revealAt, display,
                   passed, warned, stop, happened, counted, seen>>
    /\ \E at \in revealAt..t, suitable \in BOOLEAN :
          IF at <= WindowEnd /\ suitable
          THEN /\ first' = TRUE
               /\ \/ /\ state' = "EXPOSED"
                     /\ UNCHANGED <<failed, record, actorVars, pending, held, faults>>
                  \/ Invalidate(1)
          ELSE /\ first' = first
               /\ Invalidate(0)

\* Later geometry: the obstacle must not move; it is passed once, and taken away
\* when it is far behind.
Advance ==
    /\ pc = "geometry" /\ cargo = "placed" /\ first
    /\ pc' = "display"
    /\ UNCHANGED <<diskVars, loopVars, reason, claimed, since, revealAt, first,
                   display, warned, stop, happened, counted, seen>>
    /\ \/ /\ passed' = TRUE
          /\ Alive
       \/ /\ passed /\ UNCHANGED passed
          /\ state' = "SCENE_RETIRED" /\ cargo' = "gone" /\ pairOff' = FALSE
          /\ UNCHANGED <<failed, record, listening, left, pending, held, faults>>
       \/ /\ passed' \in {passed, TRUE}      \* CARGO_MOVED, or the event fails
          /\ Invalidate(1)

-----------------------------------------------------------------------------
(* The collision stop, the display and the end of the loop                 *)

\* HazardCollisionStop.wait up to the notice: every step is tried and only
\* noted when it fails; the sensor is stopped so that nothing piles up.
BeginWait ==
    /\ pc = "wait"
    /\ stop = "detected"
    /\ stop' = "awaiting"
    /\ \/ listening' = FALSE /\ UNCHANGED faults
       \/ Spend(1) /\ UNCHANGED listening
    /\ UNCHANGED <<diskVars, loopVars, pc, reason, state, failed, claimed,
                   sceneVars, cargo, pairOff, left, contactVars, record>>

\* slip: only a valid scene is confirmed
ConfirmValid ==
    /\ pc = "wait" /\ ~failed
    /\ stop = "awaiting"
    /\ stop' = "confirmed"
    /\ pc' = "finish" /\ reason' = "M2_END"
    /\ UNCHANGED <<diskVars, loopVars, state, failed, claimed, sceneVars,
                   actorVars, contactVars, record, faults>>

\* A fresh SPACE, ESC or the window's close button.
Confirm ==
    /\ pc = "wait"
    /\ stop = "awaiting"
    /\ stop' = "confirmed"
    /\ pc' = "finish" /\ reason' = "M2_END"
    /\ UNCHANGED <<diskVars, loopVars, state, failed, claimed, sceneVars,
                   actorVars, contactVars, record, faults>>

\* draw_warning before the flip, after_display_completed after it: the first
\* frame that shows the obstacle is judged by its own time.  It is remembered
\* before it is judged, and judged before the next warning is drawn.
ShowFrame ==
    /\ pc = "display"
    /\ pc' = "loop"
    /\ warned' = \/ warned
                 \/ ~failed /\ stop = "none" /\ display # "none" /\ ~passed
    /\ UNCHANGED <<diskVars, loopVars, reason, claimed, since, revealAt, first,
                   passed, stop, happened, counted, seen>>
    /\ \/ UNCHANGED display /\ Alive
       \/ /\ ~failed /\ stop = "none" /\ display = "none" /\ cargo = "placed"
          /\ \E at \in revealAt..t, suitable \in BOOLEAN :
                IF at <= WindowEnd /\ suitable
                THEN display' = "valid" /\ (Alive \/ Invalidate(1))
                ELSE display' = "invalid" /\ Invalidate(0)

NextIteration ==
    /\ pc = "loop" /\ t < DriveEnd
    /\ pc' = "input"
    /\ UNCHANGED <<diskVars, loopVars, reason, state, failed, claimed, sceneVars,
                   stop, actorVars, contactVars, record, faults>>

TimeLimit ==
    /\ pc = "loop" /\ t = DriveEnd
    /\ pc' = "finish" /\ reason' = "M2_END"
    /\ UNCHANGED <<diskVars, loopVars, state, failed, claimed, sceneVars, stop,
                   actorVars, contactVars, record, faults>>

UserExit ==
    /\ pc \in {"loop", "input"}
    /\ pc' = "finish" /\ reason' = "USER_EXIT"
    /\ UNCHANGED <<diskVars, loopVars, state, failed, claimed, sceneVars, stop,
                   actorVars, contactVars, record, faults>>

\* OperatorRecovery.guard: anything else in the iteration that raises pauses the
\* drive, fails the scene and asks the operator.
LoopError ==
    /\ pc \in {"input", "display", "wait", "loop"}
    /\ pc' = "paused"
    /\ Invalidate(1)
    /\ UNCHANGED <<diskVars, loopVars, reason, claimed, sceneVars, stop,
                   happened, counted, seen>>

\* The operator goes on with the drive or ends it.
Resume ==
    /\ pc = "paused"
    /\ \/ pc' = "input" /\ UNCHANGED reason
       \/ pc' = "finish" /\ reason' = "USER_EXIT"
    /\ UNCHANGED <<diskVars, loopVars, state, failed, claimed, sceneVars, stop,
                   actorVars, contactVars, record, faults>>

\* Ctrl+C is not guarded: the drive ends with an error.
Looping == {"input", "collect", "advance", "reveal", "geometry", "raise",
            "display", "wait", "loop", "paused"}

Interrupt ==
    /\ pc \in Looping
    /\ pc' = "finish" /\ reason' = "ERROR"
    /\ Spend(1)
    /\ UNCHANGED <<diskVars, loopVars, state, failed, claimed, sceneVars, stop,
                   actorVars, contactVars, record>>

\* ContinuingM2Hazard.finalize: an error of the drive is first the scene's.
DriveError ==
    /\ pc = "finish"
    /\ reason = "ERROR" /\ ~failed
    /\ Invalidate(0)
    /\ UNCHANGED <<diskVars, loopVars, pc, reason, claimed, sceneVars, stop,
                   happened, counted, seen>>

\* slip: what the clean-up handed back is lost
CloseSceneDrops ==
    /\ pc = "finish"
    /\ reason = "ERROR" => failed
    /\ state' = IF state = "SCHEDULED" THEN "NOT_OCCURRED" ELSE state
    /\ CleanUp(0)
    /\ counted' = counted
    /\ pc' = "record"
    /\ UNCHANGED <<diskVars, loopVars, reason, failed, claimed, sceneVars, stop,
                   happened, seen, record>>

\* OperatorM2Hazard.finalize up to the clean-up, and the collisions it returns.
CloseScene ==
    /\ pc = "finish"
    /\ reason = "ERROR" => failed
    /\ state' = IF state = "SCHEDULED" THEN "NOT_OCCURRED" ELSE state
    /\ CleanUp(0)
    /\ counted' = Plus(counted, held')
    /\ pc' = "record"
    /\ UNCHANGED <<diskVars, loopVars, reason, failed, claimed, sceneVars, stop,
                   happened, seen, record>>

EndRecord == [status    |-> IF stop # "none" THEN "COLLISION_STOP" ELSE "ENDED",
              result    |-> IF first \/ display # "none" THEN "EXPOSURE_CANDIDATE"
                            ELSE "NOT_OCCURRED",
              partial   |-> reason # "M2_END" \/ stop # "none",
              final     |-> TRUE,
              collision |-> stop # "none",
              count     |-> Total(counted)]

\* ... and its record.  What fails here (the clean-up above, the raw flush, the
\* end event) makes it a failed scene; the record is published in every case,
\* except when the sink itself refuses it.
WriteRecord ==
    /\ pc = "record"
    /\ pc' = "closed"
    /\ \E broken \in BOOLEAN :
          LET bad == broken \/ failed \/ left # {} IN
          /\ Spend(IF broken THEN 1 ELSE 0)
          /\ failed' = bad
          /\ state' = IF bad THEN "FAILED" ELSE state
          /\ \/ broken /\ UNCHANGED record
             \/ record' = IF bad THEN FailedRecord(TRUE) ELSE EndRecord
    /\ UNCHANGED <<diskVars, loopVars, reason, claimed, sceneVars, stop,
                   actorVars, contactVars>>

Die ==
    /\ Driving /\ run < Runs
    /\ pc' = "dead"
    /\ UNCHANGED <<diskVars, loopVars, reason, state, failed, claimed, sceneVars,
                   stop, actorVars, contactVars, record, faults>>

\* The participant's module 2 is driven again by a new process.
Restart ==
    /\ pc \in {"dead", "closed"} /\ run < Runs
    /\ run' = run + 1
    /\ pc' = "setup" /\ t' = 0 /\ exit' = "not_presented" /\ reason' = "none"
    /\ state' = "SCHEDULED" /\ failed' = FALSE /\ claimed' = FALSE
    /\ since' = Nothing /\ revealAt' = Nothing
    /\ first' = FALSE /\ display' = "none" /\ passed' = FALSE /\ warned' = FALSE
    /\ stop' = "none"
    /\ cargo' = "none" /\ pairOff' = FALSE /\ listening' = FALSE /\ left' = {"open"}
    /\ happened' = None /\ pending' = None /\ held' = None /\ counted' = None
    /\ seen' = FALSE
    /\ record' = NoRecord
    /\ UNCHANGED <<diskVars, faults>>

Loop == \/ Setup \/ AfterControl \/ CollectContacts \/ Raise \/ SkipScene
        \/ WindowExpires \/ Defer \/ AttemptFails \/ Prepare \/ Claim
        \/ RevealRefused \/ Reveal \/ Observe \/ NoGeometry \/ PlacementFails
        \/ Expose \/ Advance \/ BeginWait \/ ShowFrame \/ NextIteration
        \/ TimeLimit \/ DriveError \/ CloseScene \/ WriteRecord

Next == \/ Loop \/ Confirm \/ LoopError \/ Resume \/ Interrupt \/ UserExit \/ ExitMoves \/ Die \/ Restart
        \/ \E k \in Kinds : Contact(k)

Spec == Init /\ [][Next]_vars

\* The view loop runs by itself and its clock moves on; the operator who sees the
\* notice of a collision, or of a pause, eventually answers it.
Fairness == /\ WF_vars(Loop)
            /\ SF_vars(AfterControl /\ t' = t + 1)
            /\ WF_vars(Confirm)
            /\ WF_vars(Resume)

LiveSpec == Spec /\ Fairness

-----------------------------------------------------------------------------
(* What the scene promises                                                 *)

TypeOK ==
    /\ claim \in 0..Runs /\ reveals \in Nat /\ run \in 1..Runs
    /\ pc \in Looping \cup {"setup", "finish", "record", "closed", "dead"}
    /\ t \in 0..DriveEnd
    /\ exit \in {"not_presented", "presented", "resolved"}
    /\ reason \in {"none", "M2_END", "USER_EXIT", "ERROR"}
    /\ state \in {"SCHEDULED", "READY_HIDDEN", "REVEAL_REQUESTED", "EXPOSED",
                  "SCENE_RETIRED", "NOT_OCCURRED", "COLLISION", "FAILED"}
    /\ {failed, claimed, first, passed, warned, pairOff, listening, seen} \subseteq BOOLEAN
    /\ since \in 0..DriveEnd /\ revealAt \in 0..DriveEnd
    /\ display \in {"none", "valid", "invalid"}
    /\ stop \in {"none", "detected", "awaiting", "confirmed"}
    /\ cargo \in {"none", "hidden", "placed", "gone"}
    /\ left = {"open"} \/ left \subseteq Obligations
    /\ {happened, pending, held, counted} \subseteq [Kinds -> 0..MaxContacts]
    /\ faults \in 0..MaxFaults

\* No participant meets the obstacle twice, over every run and every crash: the
\* registry's file is there before the obstacle moves, and is never given up.
OneReveal == reveals <= 1 /\ (reveals = 1 => claim # Nothing)

\* The obstacle appears only after the exit opportunity of this module was shown
\* and resolved, inside the planned window, by the run that holds the claim, in a
\* scene that has not failed and met nothing.
RevealIsInOrder ==
    [][cargo' = "placed" /\ cargo # "placed" =>
         /\ exit = "resolved" /\ Planned <= t /\ t <= WindowEnd
         /\ claim = run /\ ~failed /\ stop = "none"]_vars

\* A record that does not say FAILED is the record of a run whose obstacle is
\* away, whose pair is restored and whose sensor is silent, and in which nothing
\* was judged an invalid exposure, or warned of before it was seen to be a valid one.
CleanEnd ==
    record.status \in {"ENDED", "COLLISION_STOP"} =>
        /\ ~failed /\ cargo \in {"none", "gone"} /\ ~pairOff /\ ~listening
        /\ display # "invalid" /\ (warned => display = "valid")
        /\ record.result = "EXPOSURE_CANDIDATE" => claim = run /\ reveals = 1

\* A failed scene stays failed, shows nothing new to the driver and never
\* reveals, expires or retires anything; the drive goes on around it.
FailureIsFinal ==
    [][failed /\ run' = run =>
         /\ failed' /\ state' = "FAILED" /\ warned' = warned /\ display' = display
         /\ reveals' = reveals /\ record'.status \in {record.status, "FAILED"}]_vars

\* Every collision the sensor reported is counted once, wherever it was when the
\* scene closed: drained by the loop, or handed back by the clean-up.  A sensor
\* that could not be stopped may report more.
ContactsConserved ==
    "sensor" \notin left /\ pc # "dead" =>
        /\ happened = Plus(Plus(counted, pending),
                           IF pc \in {"record", "closed"} THEN None ELSE held)
        /\ record.final => record.count = Total(happened)

\* Touching the owned obstacle is the last thing that happens to the scene: the
\* contact is remembered although its event may fail, nothing is revealed, shown
\* or warned of afterwards, and the final record says so.
ContactEndsTheScene ==
    /\ pc \notin {"record", "closed", "dead"} /\ counted["cargo"] > 0 => stop # "none"
    /\ stop # "none" => state \in {"COLLISION", "FAILED"}
    /\ stop # "none" => pc \in {"wait", "raise", "paused", "input", "loop", "finish", "record", "closed", "dead"}
    /\ record.final => record.collision = (stop # "none")

\* The drive ends, whatever the scene does: by its time, by the driver, by a
\* confirmed collision or by an error, and then the scene is closed.
DriveEnds == pc = "setup" ~> pc \in {"closed", "dead"}

\* The scene keeps what its record promises: a valid end left nothing of it in the world
\* or on the display, a collision once counted stops it, the obstacle appears in its
\* order only, and what has failed does nothing more.
SceneIsHonest ==
    [](TypeOK /\ CleanEnd /\ ContactEndsTheScene) /\ RevealIsInOrder /\ FailureIsFinal
=============================================================================
