------------------------------ MODULE MovingHazard ------------------------------
(***************************************************************************)
(* The hazard behind a moving lead: OperatorM2Hazard's own _advance_scene  *)
(* with MovingHazardBackend.  A lead and a hidden cargo are spawned ahead  *)
(* of the ego, the lead moves aside at a planned time, and the scene is    *)
(* retired when the ego has passed.  The clear-road scene of module        *)
(* HazardScene is the other subclass of the same classes.                  *)
(*                                                                         *)
(* Beside the loop move the simulator, which makes frames; its callback,   *)
(* which stamps them and may lag behind what the loop already read; the    *)
(* collision sensor; and the clock.  They are let in where the loop reads  *)
(* what they change; elsewhere their steps commute with the loop's.        *)
(***************************************************************************)
EXTENDS Naturals, FiniteSets

CONSTANTS
    WindowStart, WindowEnd,  \* WINDOW: 400 s and 600 s
    SceneEnd,                \* 780 s
    PlannedAt,               \* the drawn exposure time
    Preparation, LaneChange, \* config.preparation_s, config.lane_change_s
    Retry,                   \* config.retry_s
    MaxFrames,               \* frames of the simulator
    Stamped,                 \* the frames the callback remembers, 256
    MaxFailures              \* calls that raise although nothing asked them to

ASSUME WindowAssumption ==
    /\ {WindowStart, WindowEnd, SceneEnd, PlannedAt, Preparation, LaneChange,
        Retry, MaxFrames, Stamped, MaxFailures} \subseteq Nat
    /\ Preparation < PlannedAt
    /\ WindowStart <= PlannedAt /\ PlannedAt <= WindowEnd /\ WindowEnd < SceneEnd
    /\ LaneChange <= Preparation

Unset == 0
Frames == 1..MaxFrames
Unexposed == [frame |-> Unset, at |-> Unset, valid |-> FALSE]

VARIABLES
    mpc, clock,
    world,      \* the simulator's last frame
    stamp,      \* _frames: when the callback saw a frame, or Unset
    stamped,    \* the last frame it saw
    elapsed, sample, lastFrame, nextTry,
    state,
    command,    \* command_at
    registry,   \* the participant's file: "none", "earlier" or "ours"
    owned,      \* of "sensor", "lead" and "cargo"
    requested, placement, motion,   \* frames: asked for, confirmed (placement_observed), revealed
    previous,   \* previous_sim
    steered,    \* the frame of the lead's last command (history)
    handed, retired,
    pairOff,    \* the Traffic Manager ignores the cargo
    pairChanged,
    listening, pending,
    stopped,    \* a collision stop ends the scene
    first, shown,
    raised,     \* an exception left the loop
    ended,      \* the record
    failures

timeVars  == <<clock, world, stamp, stamped>>
frameVars == <<elapsed, sample, lastFrame>>
planVars  == <<nextTry, command, registry>>
placeVars == <<requested, placement, motion>>
leadVars  == <<previous, steered, handed>>
pairVars  == <<pairOff, pairChanged>>
senseVars == <<listening, pending, stopped>>
seenVars  == <<first, shown>>
movingVars ==
    <<mpc, timeVars, frameVars, planVars, state, owned, placeVars, leadVars, retired,
      pairVars, senseVars, seenVars, raised, ended, failures>>

NotEnded == [status |-> "NONE", result |-> "NONE", left |-> {}]

MovingInit ==
    /\ mpc = "new" /\ clock = 1
    /\ world = 1 /\ stamp = [f \in Frames |-> Unset] /\ stamped = 1
    /\ elapsed = Unset /\ sample = Unset /\ lastFrame = Unset
    /\ nextTry = PlannedAt - Preparation
    /\ state = "SCHEDULED" /\ command = Unset
    /\ registry \in {"none", "earlier"}
    /\ owned = {}
    /\ requested = Unset /\ placement = Unset /\ motion = Unset
    /\ previous = Unset /\ steered = Unset /\ handed = FALSE
    /\ retired = FALSE /\ pairOff = FALSE /\ pairChanged = FALSE
    /\ listening = FALSE /\ pending = {} /\ stopped = FALSE
    /\ first = Unexposed /\ shown = Unexposed
    /\ raised = FALSE /\ ended = NotEnded /\ failures = 0

Larger(a, b) == IF a > b THEN a ELSE b
Smaller(a, b) == IF a < b THEN a ELSE b

Raising == mpc' = "ending" /\ raised' = TRUE

Fails == Raising /\ failures' = failures + 1 /\ failures' <= MaxFailures

\* What was changed is changed; then a row is written, or raises.
Emit(place) ==
    \/ mpc' = place /\ UNCHANGED <<raised, failures>>
    \/ Fails

-----------------------------------------------------------------------------
(* Around the loop                                                         *)

Tick ==
    /\ mpc \in {"frame", "geometry"} /\ clock < SceneEnd /\ clock' = clock + 1
    /\ UNCHANGED <<mpc, world, stamp, stamped, frameVars, planVars, state, owned, placeVars,
                   leadVars, retired, pairVars, senseVars, seenVars, raised, ended, failures>>

WorldTick ==
    /\ mpc \in {"cargo", "display"} /\ world < MaxFrames /\ world' = world + 1
    /\ UNCHANGED <<mpc, clock, stamp, stamped, frameVars, planVars, state, owned, placeVars,
                   leadVars, retired, pairVars, senseVars, seenVars, raised, ended, failures>>

\* _capture: the oldest stamp goes when there are too many.
Capture ==
    /\ mpc \in {"geometry", "display"} /\ stamped < world /\ stamped' = stamped + 1
    /\ stamp' = [f \in Frames |-> IF f = stamped' THEN clock
                                  ELSE IF f + Stamped <= stamped' THEN Unset
                                  ELSE stamp[f]]
    /\ UNCHANGED <<mpc, clock, world, frameVars, planVars, state, owned, placeVars,
                   leadVars, retired, pairVars, senseVars, seenVars, raised, ended, failures>>

Collide(kind) ==
    /\ mpc = "frame" /\ listening /\ kind \notin pending
    /\ kind = "cargo" => "cargo" \in owned
    /\ pending' = pending \cup {kind}
    /\ UNCHANGED <<mpc, timeVars, frameVars, planVars, state, owned, placeVars, leadVars,
                   retired, pairVars, listening, stopped, seenVars, raised, ended, failures>>

-----------------------------------------------------------------------------
(* Before the scene                                                        *)

StartObservation ==
    /\ mpc = "new"
    /\ \/ /\ owned' = {"sensor"} /\ listening' = TRUE
          /\ mpc' = "frame" /\ UNCHANGED <<raised, failures>>
       \/ /\ owned' \in {{}, {"sensor"}} /\ UNCHANGED listening
          /\ Fails
    /\ UNCHANGED <<timeVars, frameVars, planVars, state, placeVars, leadVars, retired,
                   pairVars, pending, stopped, seenVars, ended>>

\* The clock and the sample are read once for the frame; the collisions are
\* drained, and one with the cargo ends the scene at once.  A frame already
\* seen is not looked at again.
Control ==
    /\ mpc = "frame"
    /\ elapsed' = clock /\ sample' = world
    /\ pending' = {}
    /\ stopped' = ("cargo" \in pending)
    /\ state' = IF stopped' THEN "COLLISION" ELSE state
    /\ lastFrame' = IF stopped' THEN lastFrame ELSE world
    /\ LET place == IF stopped' THEN "ending"
                    ELSE IF world <= lastFrame \/ clock >= SceneEnd THEN "display"
                    ELSE IF pending # {} THEN "hit" ELSE "window"
       IN  IF pending # {} THEN Emit(place)
           ELSE mpc' = place /\ UNCHANGED <<raised, failures>>
    /\ UNCHANGED <<timeVars, planVars, owned, placeVars, leadVars, retired, pairVars,
                   listening, seenVars, ended>>

\* The drive's time is up, or its driver leaves.
Leave ==
    /\ mpc = "frame" /\ mpc' = "ending"
    /\ UNCHANGED <<timeVars, frameVars, planVars, state, owned, placeVars, leadVars,
                   retired, pairVars, senseVars, seenVars, raised, ended, failures>>

Looking == mpc \in {"window", "hit"}

InWindow == UNCHANGED <<timeVars, frameVars, owned, placeVars, leadVars, retired,
                        pairVars, senseVars, seenVars, ended>>

\* The lead has moved and nothing was seen by the end of the window, or there
\* was no chance to move it.
WindowCloses ==
    /\ Looking /\ elapsed > WindowEnd
    /\ \/ state = "LEAD_MOVING_ASIDE" /\ first = Unexposed
       \/ state = "SCHEDULED"
    /\ state' = "NOT_OCCURRED"
    /\ Emit("geometry")
    /\ InWindow /\ UNCHANGED planVars

Attempting == Looking /\ state = "SCHEDULED" /\ elapsed \in nextTry..WindowEnd

NothingToDo ==
    /\ Looking /\ mpc' = "geometry"
    /\ ~Attempting
    /\ ~(elapsed > WindowEnd /\ \/ state = "LEAD_MOVING_ASIDE" /\ first = Unexposed
                                \/ state = "SCHEDULED")
    /\ InWindow /\ UNCHANGED <<planVars, state, raised, failures>>

PreparationTime == Smaller(Preparation, IF PlannedAt > elapsed
                                        THEN Larger(LaneChange, PlannedAt - elapsed)
                                        ELSE LaneChange)

\* A collision seen in this frame, a departure, or the exit's own lane change.
Defer ==
    /\ Attempting
    /\ nextTry' = elapsed + Retry
    /\ Emit("geometry")
    /\ InWindow /\ UNCHANGED <<state, command, registry>>

\* preflight: a slow ego, no route, an occupied one, or one where the lead would
\* not hide the cargo; the camera's row may have been written.
Unsuitable == mpc = "window" /\ Defer

TooLate ==
    /\ mpc = "window" /\ Attempting /\ elapsed + PreparationTime > WindowEnd
    /\ nextTry' = elapsed + Retry
    /\ state' = "NOT_OCCURRED"
    /\ Emit("geometry")
    /\ InWindow /\ UNCHANGED <<command, registry>>

Claim ==
    /\ mpc = "window" /\ Attempting /\ elapsed + PreparationTime <= WindowEnd
    /\ nextTry' = elapsed + Retry
    /\ IF registry = "none"
       THEN registry' = "ours" /\ state' = "PREPARING" /\ Emit("lead")
       ELSE Raising /\ UNCHANGED <<registry, state, failures>>
    /\ InWindow /\ UNCHANGED command

-----------------------------------------------------------------------------
(* Preparation                                                             *)

SpawnLead ==
    /\ mpc = "lead" /\ mpc' = "cargo"
    /\ owned' = owned \cup {"lead"}
    /\ UNCHANGED <<timeVars, frameVars, planVars, state, placeVars, leadVars, retired,
                   pairVars, senseVars, seenVars, raised, ended, failures>>

\* The cargo is spawned and moved to its place; the frame of the request is the
\* simulator's last, which may be later than the sample.
SpawnCargo ==
    /\ mpc = "cargo"
    /\ owned' = owned \cup {"cargo"}
    /\ requested' = world
    /\ Emit("pair")
    /\ UNCHANGED <<timeVars, frameVars, planVars, state, placement, motion, leadVars,
                   retired, pairVars, senseVars, seenVars, ended>>

\* The Traffic Manager, if there is one, is told not to avoid the cargo.
PlanExposure ==
    /\ mpc = "pair"
    /\ pairChanged' \in BOOLEAN /\ pairOff' = pairChanged'
    /\ \E delay \in 1..LaneChange :
          command' = Larger(PlannedAt, elapsed + PreparationTime) - delay
    /\ state' = "OCCLUDED"
    /\ Emit("geometry")
    /\ UNCHANGED <<timeVars, frameVars, nextTry, registry, owned, placeVars, leadVars,
                   retired, senseVars, seenVars, ended>>

\* A spawn fails or the lead does not hide the cargo; the pair is marked as
\* changed before the Traffic Manager is told.
PreparationFails ==
    /\ mpc \in {"lead", "cargo", "pair"}
    /\ owned' \in {owned, owned \cup ({mpc} \ {"pair"})}
    /\ IF mpc = "pair" THEN pairChanged' = TRUE /\ pairOff' \in BOOLEAN
       ELSE UNCHANGED pairVars
    /\ Fails
    /\ UNCHANGED <<timeVars, frameVars, planVars, state, placeVars, leadVars, retired,
                   senseVars, seenVars, ended>>

-----------------------------------------------------------------------------
(* The geometry of a frame                                                 *)

Observing == UNCHANGED <<timeVars, frameVars, planVars, owned, leadVars, retired,
                         pairVars, senseVars, ended>>

OnTheRoad == "cargo" \in owned /\ ~retired

\* No cargo, none in this snapshot, or none in its place: a scene whose time has
\* come is given up.
NoGeometry ==
    /\ mpc = "geometry"
    /\ IF state = "OCCLUDED" /\ placement = Unset /\ elapsed >= command
       THEN state' = "ABORTED" /\ Raising
       ELSE mpc' = "display" /\ UNCHANGED <<state, raised>>
    /\ Observing /\ UNCHANGED <<placeVars, seenVars, failures>>

ActorLost ==
    /\ mpc = "geometry" /\ OnTheRoad
    /\ Fails
    /\ Observing /\ UNCHANGED <<state, placeVars, seenVars>>

\* _confirm_cargo_placement: by a snapshot later than the request.
ConfirmPlacement ==
    /\ mpc = "geometry" /\ OnTheRoad /\ placement = Unset
    /\ sample > requested
    /\ placement' = sample
    /\ Emit("seen")
    /\ Observing /\ UNCHANGED <<state, requested, motion, seenVars>>

Placed ==
    /\ mpc = "geometry" /\ mpc' = "seen"
    /\ OnTheRoad /\ placement # Unset
    /\ Observing /\ UNCHANGED <<state, placeVars, seenVars, raised, failures>>

CargoMoved ==
    /\ mpc = "seen" /\ Fails
    /\ state' = "ABORTED"
    /\ Observing /\ UNCHANGED <<placeVars, seenVars>>

Within(at) == at \in WindowStart..WindowEnd

\* The cargo is partly seen for the first time, at the callback's time of the
\* frame if it has one.
Expose ==
    /\ mpc = "seen" /\ first = Unexposed
    /\ LET at == IF stamp[sample] # Unset THEN stamp[sample] ELSE elapsed
       IN  first' = [frame |-> sample, at |-> at,
                     valid |-> Within(at) /\ motion # Unset]
    /\ state' = IF first'.valid THEN "EXPOSED" ELSE "INVALID_EXPOSURE"
    /\ IF first'.valid THEN Emit("reveal") ELSE Raising /\ UNCHANGED failures
    /\ Observing /\ UNCHANGED <<placeVars, shown>>

NothingNew ==
    /\ mpc = "seen" /\ mpc' = "reveal"
    /\ Observing /\ UNCHANGED <<state, placeVars, seenVars, raised, failures>>

Due == mpc = "reveal" /\ state = "OCCLUDED" /\ elapsed >= command

Reveal ==
    /\ Due /\ elapsed <= WindowEnd
    /\ motion' = sample
    /\ state' = "LEAD_MOVING_ASIDE"
    /\ Emit("advance")
    /\ Observing /\ UNCHANGED <<requested, placement, seenVars>>

RevealTooLate ==
    /\ Due /\ elapsed > WindowEnd
    /\ state' = "NOT_OCCURRED"
    /\ Raising
    /\ Observing /\ UNCHANGED <<placeVars, seenVars, failures>>

\* Not yet, no longer, or another lane change is in the way.
NoReveal ==
    /\ mpc = "reveal" /\ mpc' = "advance"
    /\ ~(Due /\ elapsed > WindowEnd)
    /\ Observing /\ UNCHANGED <<state, placeVars, seenVars, raised, failures>>

-----------------------------------------------------------------------------
(* The lead                                                                *)

Lead == UNCHANGED <<timeVars, frameVars, planVars, state, owned, placeVars, senseVars,
                    seenVars, ended>>

\* slip: a lead that was handed over is still steered.
KeepSteering ==
    /\ mpc = "advance" /\ sample > previous
    /\ previous' = sample /\ steered' = sample
    /\ Emit("retire")
    /\ Lead /\ UNCHANGED <<handed, retired, pairVars>>

Steer ==
    /\ mpc = "advance" /\ sample > previous /\ ~handed
    /\ previous' = sample /\ steered' = sample
    /\ Emit("retire")
    /\ Lead /\ UNCHANGED <<handed, retired, pairVars>>

SameFrame ==
    /\ mpc = "advance" /\ (sample <= previous \/ handed)
    /\ mpc' = "retire"
    /\ previous' = Larger(previous, sample)
    /\ Lead /\ UNCHANGED <<steered, handed, retired, pairVars, raised, failures>>

\* The route ends before the lead: the Traffic Manager drives it from here.
HandOver ==
    /\ mpc = "advance" /\ sample > previous /\ ~handed
    /\ previous' = sample
    /\ \/ handed' = TRUE /\ Emit("retire")
       \/ UNCHANGED handed /\ Fails
    /\ Lead /\ UNCHANGED <<steered, retired, pairVars>>

Stay ==
    /\ mpc = "retire" /\ Emit("display")
    /\ Lead /\ UNCHANGED <<leadVars, retired, pairVars>>

\* retire_if_behind: the pair is restored, the cargo destroyed, and a lead that
\* has no route any more is handed over, each after the other; `done' of them
\* are before one raises.
RetireScene ==
    /\ mpc = "retire"
    /\ \E done \in 0..4 :
          /\ done = 0 => pairChanged
          /\ done = 2 => ~handed
          /\ pairChanged' = (pairChanged /\ done = 0)
          /\ pairOff' = (pairOff /\ done = 0)
          /\ owned' = IF done >= 2 THEN owned \ {"cargo"} ELSE owned
          /\ retired' = (done >= 2)
          /\ handed' = (handed \/ done >= 3)
          /\ state' = IF done = 4 THEN "SCENE_RETIRED" ELSE state
          /\ IF done = 4 THEN mpc' = "display" /\ UNCHANGED <<raised, failures>> ELSE Fails
    /\ UNCHANGED <<timeVars, frameVars, planVars, placeVars, previous, steered, senseVars,
                   seenVars, ended>>

-----------------------------------------------------------------------------
(* The display and the end                                                 *)

\* A camera's image may be of any frame the callback remembers; it is matched with that
\* frame's snapshot, and counts only once the cargo stands.  Its row is written before an
\* invalid one ends the scene: when the row raises the state is as it was.
Show(f) ==
    /\ mpc = "display" /\ shown = Unexposed
    /\ stamp[f] # Unset
    /\ OnTheRoad /\ placement # Unset /\ f >= placement
    /\ shown' = [frame |-> f, at |-> stamp[f],
                 valid |-> Within(stamp[f]) /\ motion # Unset /\ f >= motion]
    /\ \/ shown'.valid /\ mpc' = "frame" /\ UNCHANGED <<state, raised, failures>>
       \/ ~shown'.valid /\ state' = "INVALID_EXPOSURE" /\ Raising /\ UNCHANGED failures
       \/ Fails /\ UNCHANGED state
    /\ Observing /\ UNCHANGED <<placeVars, first>>

ShowNothing ==
    /\ mpc = "display" /\ mpc' = "frame"
    /\ Observing /\ UNCHANGED <<state, placeVars, seenVars, raised, failures>>

Result(s) ==
    IF s = "INVALID_EXPOSURE" THEN "INVALID_EXPOSURE"
    ELSE IF first # Unexposed \/ shown # Unexposed THEN "EXPOSURE_CANDIDATE"
    ELSE "NOT_OCCURRED"

\* cleanup: every step is tried, whatever the others did.
CleanUp(lost, left) ==
    /\ pairOff' = (pairOff /\ (pairChanged => "pair" \in lost))
    /\ pairChanged' = (pairChanged /\ "pair" \in lost)
    /\ owned' = left
    /\ listening' = (listening /\ "sensor" \in left \cap lost)
    /\ pending' = {}

\* finalize: what the clean-up or a row could not do is a failure of the record.
EndScene ==
    /\ mpc = "ending" /\ mpc' = "closed"
    /\ state' = IF state = "SCHEDULED" THEN "NOT_OCCURRED" ELSE state
    /\ \E lost \in SUBSET {"pair", "callback", "sensor", "row"}, left \in SUBSET owned :
          /\ "pair" \in lost => pairChanged
          /\ CleanUp(lost, left)
          /\ IF lost \cup left = {} THEN UNCHANGED failures
             ELSE failures' = failures + 1 /\ failures' <= MaxFailures
          /\ ended' = [status |-> IF raised \/ lost \cup left # {} THEN "FAILED"
                                  ELSE IF stopped THEN "CONTROLLED_COLLISION_STOP"
                                  ELSE "DEVELOPMENT_RUN_ENDED",
                       result |-> Result(state'),
                       left   |-> left]
    /\ UNCHANGED <<timeVars, frameVars, planVars, placeVars, leadVars, retired, stopped,
                   seenVars, raised>>

MovingNext ==
    \/ Tick \/ WorldTick \/ Capture \/ (\E kind \in {"cargo", "other"} : Collide(kind))
    \/ StartObservation \/ Control \/ Leave
    \/ WindowCloses \/ NothingToDo \/ Defer \/ Unsuitable \/ TooLate \/ Claim
    \/ SpawnLead \/ SpawnCargo \/ PlanExposure \/ PreparationFails
    \/ NoGeometry \/ ActorLost \/ ConfirmPlacement \/ Placed
    \/ CargoMoved \/ Expose \/ NothingNew \/ Reveal \/ RevealTooLate \/ NoReveal
    \/ Steer \/ SameFrame \/ HandOver \/ Stay \/ RetireScene
    \/ (\E f \in Frames : Show(f)) \/ ShowNothing \/ EndScene

MovingSpec == MovingInit /\ [][MovingNext]_movingVars

-----------------------------------------------------------------------------
(* Properties                                                              *)

\* An exposure that counts came after the command that made it, and the command
\* after the cargo was seen to stand in its place, in the simulator's own frames
\* and whatever the callback or the camera lags behind.
ExposureIsCommanded ==
    /\ first.valid => /\ requested < placement /\ placement <= motion
                      /\ motion < first.frame
    /\ shown.valid => /\ requested < placement /\ placement <= motion
                      /\ motion <= shown.frame

\* A candidate in the record is of a scene that holds the participant's occurrence, and
\* is made of exposures that all count, but for a display whose own row raised: that one
\* is in the record as not counting, and the record has failed.  A scene that did not
\* occur showed nothing.
CandidateIsSound ==
    mpc = "closed" =>
        /\ ended.result = "EXPOSURE_CANDIDATE" =>
              /\ registry = "ours"
              /\ first = Unexposed \/ first.valid
              /\ shown = Unexposed \/ shown.valid \/ ended.status = "FAILED"
        /\ ended.result = "NOT_OCCURRED" => first = Unexposed /\ shown = Unexposed

\* The lead is steered by the scene or driven by the Traffic Manager, never by
\* both, and a scene without its cargo leaves no lead to nobody.
LeadHasOneDriver ==
    [][/\ steered' # steered => ~handed /\ ~retired
       /\ retired' /\ mpc' # "ending" /\ mpc' # "closed" => handed']_movingVars

\* Nothing of a scene outlives it unsaid: an actor left on the road is in the
\* record, and a pair left off, or a sensor left on, makes it a failed one; a
\* pair that is off is remembered, so that the clean-up tries it again.
NothingOutlivesTheScene ==
    /\ pairOff => pairChanged
    /\ mpc = "closed" =>
        /\ owned = ended.left
        /\ pairOff \/ listening \/ owned # {} => ended.status = "FAILED"
        /\ ended.status = "DEVELOPMENT_RUN_ENDED" => pending = {} /\ ~stopped

\* The scene's evidence and its world agree with its record: an exposure follows its
\* command, placement and motion, a candidate is sound, the lead vehicle has one driver
\* at a time, and nothing outlives the scene unless the record says that it failed.
SceneIsSound ==
    /\ [](ExposureIsCommanded /\ CandidateIsSound /\ NothingOutlivesTheScene)
    /\ LeadHasOneDriver
=============================================================================
