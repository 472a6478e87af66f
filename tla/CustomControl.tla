--------------------------- MODULE CustomControl ---------------------------
(***************************************************************************)
(* The development drives' own NoA controller: the frame loop of the       *)
(* driver view asks the interaction for a mode, the mode decides whether   *)
(* the proportional-integral backend or the driver commands the vehicle,   *)
(* and the backend keeps effort, target, steering override and timeline    *)
(* from one engagement to the next only as far as its resets let it.       *)
(*                                                                         *)
(* Speeds, times, efforts and steering are small integers.  The world goes *)
(* on beside the loop, so that a frame may be seen twice, a frame may be   *)
(* missed, and the speed held at an activation is the one of that moment.  *)
(***************************************************************************)
EXTENDS Integers

CONSTANTS
    SpeedLimit,        \* RESEARCH_MAX_ALLOWED_SPEED_KMH
    LegacyGuard,       \* RESEARCH_LEGACY_OPERATIONAL_GUARD_KMH
    TopSpeed,          \* the fastest the vehicle is seen to go
    MaxThrottle, MaxBrake, MaxSteering,
    AccelerationGain, BrakingGain, IntegralGain, Deadband,
    WheelAngles,       \* where the driver may hold the wheel
    LaneAnswers,       \* what the lateral law may ask for before its limit
    MaxWorldFrame,          \* bound: frames of the world
    MaxEngagements     \* bound: activations of NoA

ASSUME ControlAssumption ==
    /\ SpeedLimit \in Nat /\ LegacyGuard \in Nat /\ TopSpeed \in Nat
    /\ MaxThrottle \in Nat /\ MaxBrake \in Nat /\ MaxSteering \in Nat
    /\ AccelerationGain \in Nat /\ BrakingGain \in Nat
    /\ IntegralGain \in Nat /\ Deadband \in Nat
    /\ WheelAngles \subseteq Int \ {-100}   \* -100 is None below
    /\ LaneAnswers \subseteq Int
    /\ MaxWorldFrame \in Nat /\ MaxEngagements \in Nat

VARIABLES
    policy,     \* the effective speed policy and the interaction's switches
    world,      \* the snapshot the simulator would answer with
    stage,      \* where the frame loop is
    mode,       \* AutomationState.control_mode
    backend,    \* the backend's activity, driver steering and timeline
    pi,         \* the longitudinal controller: target, effort, control time
    wheel,      \* the driver's input of this frame
    applied,    \* the command the vehicle was last given
    engagement  \* ghost: what belongs to the present engagement

controlVars ==
    <<policy, world, stage, mode, backend, pi, wheel, applied, engagement>>

\* The absence of a number: a target, a time, a frame, a driver's steering.
None == -100

Clamp(x, low, high) == IF x < low THEN low ELSE IF x > high THEN high ELSE x
Size(x) == IF x < 0 THEN -x ELSE x
Over(x) == IF x > 0 THEN x ELSE 0
Under(x) == IF x < 0 THEN x ELSE 0

(***************************************************************************)
(* The speed policy.                                                       *)
(***************************************************************************)
\* An explicit policy is either for NoA alone, at the limit itself, or below
\* the limit and acknowledged exactly when it is above the legacy guard.
GivenPolicies ==
    {[guard |-> SpeedLimit, noaOnly |-> TRUE]}
        \cup {[guard |-> g, noaOnly |-> FALSE] : g \in 1..(SpeedLimit - 1)}

\* The policies a configuration may resolve to.
Policies ==
    {[desired |-> None, guard |-> p.guard, noaOnly |-> TRUE, hold |-> TRUE] :
        p \in {q \in GivenPolicies : q.noaOnly}}
    \cup {[desired |-> d, guard |-> LegacyGuard, noaOnly |-> FALSE, hold |-> FALSE] :
            d \in {x \in 1..SpeedLimit : x <= LegacyGuard}}
    \cup UNION {{[desired |-> d, guard |-> p.guard, noaOnly |-> p.noaOnly, hold |-> FALSE] :
            d \in {x \in 1..SpeedLimit : x < p.guard}} : p \in GivenPolicies}

TooFast(speed) ==
    /\ mode = "MANUAL" => ~policy.speed.noaOnly
    /\ speed > policy.speed.guard

(***************************************************************************)
(* The longitudinal law.                                                   *)
(***************************************************************************)
Proportional(error) ==
    IF IntegralGain > 0
    THEN AccelerationGain * Over(error - Deadband)
            + BrakingGain * Under(error + Deadband)
    ELSE IF Size(error) <= Deadband THEN 0
    ELSE IF error > 0 THEN AccelerationGain * error ELSE BrakingGain * error

\* slip: the first step counts the time since the clock began.
SinceTheBeginning(now) == IF pi.at = None THEN now ELSE now - pi.at

SinceLast(now) == IF pi.at = None THEN 0 ELSE now - pi.at

\* The effort the controller would keep, and whether a limit stops it.
Candidate(error, now) ==
    Clamp(pi.integral + IntegralGain * error * SinceLast(now), -MaxBrake, MaxThrottle)

Saturated(error, now) ==
    LET wanted == Proportional(error) + Candidate(error, now)
    IN  \/ wanted > MaxThrottle /\ error > 0
        \/ wanted < -MaxBrake /\ error < 0

Kept(error, now) ==
    IF Saturated(error, now) THEN pi.integral ELSE Candidate(error, now)

Effort(error, integral) ==
    Clamp(Proportional(error) + integral, -MaxBrake, MaxThrottle)

Reset(target) == [target |-> target, integral |-> 0, at |-> None]

(***************************************************************************)
(* The backend.                                                            *)
(***************************************************************************)
Idle == [active |-> FALSE, override |-> None, last |-> None, lastTime |-> None]

\* What entering NoA leaves of the backend: a backend that is active already
\* keeps its timeline and its effort.
Entered ==
    IF backend.active THEN backend
    ELSE [backend EXCEPT !.active = TRUE, !.last = None, !.lastTime = None]

EnteredController == IF backend.active THEN pi ELSE Reset(pi.target)

\* Once set_autopilot(False) has returned, leaving NoA clears the backend, and
\* the mode is committed after it.
EnterManual ==
    /\ backend' = Idle
    /\ pi' = Reset(pi.target)
    /\ mode' = "MANUAL"
    /\ engagement' = [count |-> engagement.count, target |-> None, earned |-> 0,
                      seen |-> None]

Override(input) == IF input.engaged THEN input.steer ELSE None

Merged(lane) ==
    Clamp(IF backend.override = None THEN lane ELSE backend.override,
          -MaxSteering, MaxSteering)

(***************************************************************************)
(* The frame loop.                                                         *)
(***************************************************************************)
\* "ends" stands for the brake past its threshold and for the button of a
\* session that lets the button end NoA.
DriverInputs ==
    [activate : BOOLEAN, ends : BOOLEAN, engaged : BOOLEAN, steer : WheelAngles]

NothingApplied == [by |-> "none", steer |-> 0, effort |-> 0, target |-> None]

ControlInit ==
    /\ policy \in [speed : Policies, steeringEnds : BOOLEAN]
    /\ world \in [frame : {0}, time : {0}, speed : 0..TopSpeed]
    /\ stage = "input"
    /\ mode = "MANUAL"
    /\ backend = Idle
    /\ pi = Reset(policy.speed.desired)
    /\ wheel \in [engaged : {FALSE}, steer : WheelAngles]
    /\ applied = NothingApplied
    /\ engagement = [count |-> 0, target |-> None, earned |-> 0, seen |-> None]

\* The simulator goes on: a frame, or several that the loop never sees.
WorldAdvances ==
    /\ world.frame < MaxWorldFrame
    /\ \E dt \in 1..2, speed \in 0..TopSpeed :
        world' = [frame |-> world.frame + 1, time |-> world.time + dt, speed |-> speed]
    /\ UNCHANGED <<policy, stage, mode, backend, pi, wheel, applied, engagement>>

\* The simulator's clock starts again: its time is before the last one.
WorldStartsAgain ==
    /\ world.frame < MaxWorldFrame
    /\ world.time > 0
    /\ world' = [frame |-> world.frame + 1, time |-> 0, speed |-> world.speed]
    /\ UNCHANGED <<policy, stage, mode, backend, pi, wheel, applied, engagement>>

\* The driver wants the wheel back, for a reason the session has enabled.
Reason(input) ==
    \/ input.ends
    \/ input.engaged /\ policy.steeringEnds

\* The interaction in MANUAL: no request, or one that the gate refuses.
StayManual(input) ==
    /\ mode = "MANUAL"
    /\ backend' = [backend EXCEPT !.override = None]
    /\ stage' = "control"
    /\ UNCHANGED <<mode, pi, engagement>>

\* slip: a target that is set already is not held anew.
FirstTarget ==
    IF ~policy.speed.hold THEN pi.target
    ELSE IF pi.target = None THEN world.speed ELSE pi.target

\* The target of the engagement that begins: the configured one, or the speed
\* observed at the activation.
HeldTarget == IF policy.speed.hold THEN world.speed ELSE pi.target

\* The request passed the gate and set_autopilot(False): NoA takes over.  The
\* transition's event is recorded before the target is held; a record that
\* cannot be written, or a speed above the guard, leaves the loop with NoA
\* active.
Engage(input) ==
    /\ mode = "MANUAL" /\ input.activate
    /\ engagement.count < MaxEngagements
    /\ mode' = "NOA"
    /\ engagement' = [count |-> engagement.count + 1, earned |-> 0, seen |-> None,
                      target |-> IF policy.speed.hold THEN world.speed
                                                      ELSE policy.speed.desired]
    /\ \/ \* a record fails, the captured speed is refused, or giving back raises
          /\ stage' = "raised"
          /\ pi' \in {EnteredController, Reset(HeldTarget)}
          /\ backend' = Entered
       \/ \* the drive goes on
          /\ policy.speed.hold => world.speed <= policy.speed.guard
          /\ ~(input.engaged /\ policy.steeringEnds)
          /\ pi' = Reset(HeldTarget)
          /\ backend' = [Entered EXCEPT !.override = Override(input)]
          /\ stage' = "control"

\* The wheel is held while NoA is requested: NoA is taken and given back.
EngageAndGiveBack(input) ==
    /\ mode = "MANUAL" /\ input.activate
    /\ engagement.count < MaxEngagements
    /\ input.engaged /\ policy.steeringEnds
    /\ policy.speed.hold => world.speed <= policy.speed.guard
    /\ mode' = "MANUAL"
    /\ backend' = Idle
    /\ pi' = Reset(HeldTarget)
    /\ engagement' = [engagement EXCEPT !.count = @ + 1]
    /\ stage' = "control"

\* slip: the mode is committed before the backend has left.
EagerTransitionRaises(input) ==
    /\ IF mode = "MANUAL" THEN input.activate ELSE Reason(input)
    /\ stage' = "raised"
    /\ mode' = "MANUAL"
    /\ UNCHANGED <<backend, pi, engagement>>

\* set_autopilot(False) raises before anything of a transition is committed.
TransitionRaises(input) ==
    /\ IF mode = "MANUAL" THEN input.activate ELSE Reason(input)
    /\ stage' = "raised"
    /\ UNCHANGED <<mode, backend, pi, engagement>>

TakeOver(input) ==
    /\ mode = "NOA" /\ Reason(input)
    /\ EnterManual
    /\ stage' = "control"

\* NoA goes on, with the driver's steering of this frame or none.
StayActive(input) ==
    /\ mode = "NOA" /\ ~Reason(input)
    /\ backend' = [backend EXCEPT !.override = Override(input)]
    /\ stage' = "control"
    /\ UNCHANGED <<mode, pi, engagement>>

Interact ==
    /\ stage = "input"
    /\ \E input \in DriverInputs :
        /\ wheel' = [engaged |-> input.engaged, steer |-> input.steer]
        /\ \/ StayManual(input)
           \/ Engage(input)
           \/ EngageAndGiveBack(input)
           \/ TransitionRaises(input)
           \/ TakeOver(input)
           \/ StayActive(input)
    /\ UNCHANGED <<policy, world, applied>>

\* The snapshot of a step, and the time the controller takes it for.
MovedBack ==
    /\ backend.last # None
    /\ world.frame < backend.last \/ world.time < backend.lastTime

ControlTime ==
    IF world.frame = backend.last THEN backend.lastTime ELSE world.time

StepRefused ==
    \/ TooFast(world.speed)
    \/ ~backend.active
    \/ MovedBack
    \/ pi.target = None

\* One step of the backend on one snapshot: the effort is kept before the
\* command is given, the timeline after it.
Step ==
    /\ stage = "control" /\ mode = "NOA" /\ ~StepRefused
    /\ LET error    == pi.target - world.speed
           integral == Kept(error, ControlTime)
           span     == IF engagement.seen = None THEN 0
                       ELSE world.time - engagement.seen
       IN  /\ pi' = [pi EXCEPT !.integral = integral, !.at = ControlTime]
           /\ engagement' = [engagement EXCEPT
                    !.earned = @ + Size(IntegralGain * error * span),
                    !.seen = world.time]
           /\ \/ \* apply_control raises
                 /\ stage' = "raised"
                 /\ UNCHANGED <<backend, applied>>
              \/ /\ \E lane \in LaneAnswers :
                    applied' = [by |-> "NOA", steer |-> Merged(lane),
                                effort |-> Effort(error, integral),
                                target |-> pi.target]
                 /\ backend' = [backend EXCEPT !.last = world.frame,
                                               !.lastTime = ControlTime]
                 /\ stage' = "input"
    /\ UNCHANGED <<policy, world, mode, wheel>>

\* The guard, the timeline, the vehicle or the lane's geometry stop the step.
StepRaises ==
    /\ stage = "control" /\ mode = "NOA"
    /\ stage' = "raised"
    /\ UNCHANGED <<policy, world, mode, backend, pi, wheel, applied, engagement>>

\* In MANUAL the scheduler only watches the speed, and the driver commands.
Drive ==
    /\ stage = "control" /\ mode = "MANUAL"
    /\ \/ TooFast(world.speed) /\ stage' = "raised" /\ UNCHANGED applied
       \/ /\ ~TooFast(world.speed)
          /\ stage' = "input"
          /\ applied' = [NothingApplied EXCEPT !.by = "driver", !.steer = wheel.steer]
    /\ UNCHANGED <<policy, world, mode, backend, pi, wheel, engagement>>

\* The window is closed or the drive's time is over.
EndFrameLoop ==
    /\ stage = "input"
    /\ stage' = "raised"
    /\ UNCHANGED <<policy, world, mode, backend, pi, wheel, applied, engagement>>

\* However the loop ended, control goes back to the driver, unless that raises,
\* and then the vehicle is braked, unless that raises too.
Deactivate ==
    /\ stage = "raised"
    /\ stage' = "closed"
    /\ \/ mode = "NOA" /\ EnterManual
       \/ UNCHANGED <<mode, backend, pi, engagement>>
    /\ \/ applied' = [NothingApplied EXCEPT !.by = "brake", !.effort = -MaxBrake]
       \/ UNCHANGED applied
    /\ UNCHANGED <<policy, world, wheel>>

ControlNext ==
    \/ WorldAdvances \/ WorldStartsAgain
    \/ Interact
    \/ Step \/ StepRaises \/ Drive
    \/ EndFrameLoop \/ Deactivate

ControlSpec == ControlInit /\ [][ControlNext]_controlVars

(***************************************************************************)
(* What the control loop promises.                                         *)
(***************************************************************************)

\* The committed mode and the backend's activity agree, also after a transition
\* that raised, and while the driver has the wheel the backend keeps nothing of
\* an earlier engagement: no effort, no control time, no timeline, no steering.
HandOverIsClean ==
    /\ mode = "NOA" <=> backend.active
    /\ mode = "MANUAL" => backend = Idle /\ pi = Reset(pi.target)

\* The integral effort is earned in this engagement: it is no larger than what
\* the speed errors seen since the engagement's first step add up to, however
\* long the driver had the wheel before and however often a frame is repeated.
EffortIsEarned ==
    /\ -engagement.earned <= pi.integral
    /\ pi.integral <= engagement.earned

\* A command of the backend aims at the target of this very engagement (the
\* speed captured when it began, when the session holds it); it steers with the
\* driver's wheel of this frame while the driver holds it, and with the lane law's
\* own answer when not: an override of an earlier frame is never left.
CommandIsOfThisEngagement ==
    stage = "input" /\ applied.by = "NOA" =>
        /\ applied.target = engagement.target
        /\ applied.steer \in {Clamp(answer, -MaxSteering, MaxSteering) :
                                answer \in IF wheel.engaged THEN {wheel.steer} ELSE LaneAnswers}

\* What the backend holds and commands is this engagement's: the three above.
BackendIsSound == HandOverIsClean /\ EffortIsEarned /\ CommandIsOfThisEngagement
=============================================================================
