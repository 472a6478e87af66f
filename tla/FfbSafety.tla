------------------------------ MODULE FfbSafety ------------------------------
(***************************************************************************)
(* The force-feedback evaluator (src/p8/ffb_safety.py), the coefficients   *)
(* it limits (ffb_model.py) and the dispatcher that carries its commands   *)
(* to an output (ffb_protocol.py).  One strength stands for the spring and *)
(* for the damper, which are limited alike; time and strength are whole    *)
(* units.  The output itself is external: it accepts a command by          *)
(* validate_simulated_command, and may be offered an earlier one again.    *)
(***************************************************************************)
EXTENDS Integers

CONSTANTS
    Contexts,       \* (session, stage, actor, device generation)
    EffectTargets,  \* the strengths the curve may ask for
    MaxStrength, Rise, Fall,            \* FfbLimits
    WheelAge, VehicleAge, FfbGap,
    MaxTime, MaxCalls                   \* bounds of the exploration

ASSUME FfbAssumption ==
    /\ MaxStrength \in Nat /\ Rise \in Nat /\ Fall \in Nat
    /\ WheelAge \in Nat /\ VehicleAge \in Nat /\ FfbGap \in Nat
    /\ MaxTime \in Nat /\ MaxCalls \in Nat /\ EffectTargets \subseteq Nat
    /\ "NONE" \notin Contexts

VARIABLES
    ffb,            \* FfbSafety: state, context, mode, the three stamps, limited, sequence
    command,        \* the command the evaluator returned last
    dispatcher,     \* "idle", "output" or "closed"
    output,         \* the receiver: previous sequence, the command in force, its context
    held,           \* an earlier command that may reach the receiver again
    clock, enabled  \* the host's time; when and where evaluation was enabled last

ffbVars == <<ffb, command, dispatcher, output, held, clock, enabled>>

Nothing == [state |-> "NONE"]
Unset == -1
NotEnabled == [at |-> Unset, context |-> "NONE"]
Times == 0 .. MaxTime
Requests == {"HOLD", "ENABLE", "DISABLE", "ACKNOWLEDGE"}
Observations ==
    [context : Contexts, mode : {"MANUAL", "NOA_ACTIVE"}, active : BOOLEAN,
     wheelAt : Times, vehicleAt : Times]

Min2(a, b) == IF a < b THEN a ELSE b
Max2(a, b) == IF a > b THEN a ELSE b

FfbInit ==
    /\ ffb = [state |-> "DISABLED", context |-> "NONE", mode |-> "NONE", lastAt |-> Unset,
              wheelAt |-> Unset, vehicleAt |-> Unset, limited |-> 0, sequence |-> 0]
    /\ command = Nothing /\ held = Nothing
    /\ dispatcher = "idle" /\ clock = 0
    /\ output \in [previous : {0}, force : {Nothing}, context : Contexts]
    /\ enabled = NotEnabled

(***************************************************************************)
(* What every path of the evaluator ends with: a numbered command that     *)
(* carries the limited strength only while evaluation is permitted.        *)
(***************************************************************************)
Command(f, now, until) ==
    [state |-> f.state, sequence |-> f.sequence, context |-> f.context, issuedAt |-> now,
     validUntil |-> IF f.state = "EVALUATING" THEN until ELSE now,
     strength |-> IF f.state = "EVALUATING" THEN f.limited ELSE 0,
     wheelAt |-> f.wheelAt, vehicleAt |-> f.vehicleAt]

Return(f, now, until) ==
    LET numbered == [f EXCEPT !.sequence = @ + 1]
    IN  /\ ffb' = numbered
        /\ command' = Command(numbered, now, until)
        /\ enabled' = IF f.state # "EVALUATING" THEN NotEnabled
                      ELSE IF ffb.state = "EVALUATING" THEN enabled
                      ELSE [at |-> now, context |-> f.context]
        /\ dispatcher' = "output"

Disabled(f) ==
    [f EXCEPT !.state = IF @ = "FAULT" THEN @ ELSE "DISABLED", !.limited = 0]

Faulted(f, now) ==
    [f EXCEPT !.state = IF @ \in {"FAULT", "CLOSED"} THEN @ ELSE "FAULT",
              !.limited = 0,
              !.lastAt = IF now >= Max2(@, 0) THEN now ELSE @]

\* A faulted evaluator stamps its command with the last time it believed.
ReturnFault(f, now) == Return(Faulted(f, now), Max2(Faulted(f, now).lastAt, 0), 0)

Sound(o, now) ==
    /\ o.wheelAt <= now /\ now - o.wheelAt <= WheelAge
    /\ o.vehicleAt <= now /\ now - o.vehicleAt <= VehicleAge

\* slip: another session, stage, actor or device is no boundary
ModeBoundary(o) == ffb.mode # "NONE" /\ o.mode # ffb.mode

Boundary(o) ==
    \/ ffb.context # "NONE" /\ o.context # ffb.context
    \/ ffb.mode # "NONE" /\ o.mode # ffb.mode

Regressed(o) ==
    /\ ~Boundary(o)
    /\ \/ o.wheelAt < ffb.wheelAt
       \/ o.vehicleAt < ffb.vehicleAt

Adopted(o, now) ==
    [ffb EXCEPT !.lastAt = now, !.context = o.context, !.mode = o.mode,
                !.wheelAt = o.wheelAt, !.vehicleAt = o.vehicleAt]

Elapsed(now) == IF ffb.lastAt = Unset THEN 0 ELSE now - ffb.lastAt

Slew(current, desired, dt) ==
    IF desired > current THEN Min2(desired, current + Rise * dt)
    ELSE Max2(desired, current - Fall * dt)

(***************************************************************************)
(* FfbSafety.step: the clock first, then the observation, then the         *)
(* boundary, then the request.                                             *)
(***************************************************************************)
Ready == dispatcher = "idle" /\ ffb.sequence < MaxCalls

BadClock ==
    /\ Ready /\ ffb.lastAt # Unset
    /\ \E now \in Times : now < ffb.lastAt /\ ReturnFault(ffb, now)
    /\ UNCHANGED <<output, held, clock>>

Gap == ffb.state = "EVALUATING" /\ Elapsed(clock) > FfbGap

UpdateGap ==
    /\ Ready /\ Gap
    /\ ReturnFault([ffb EXCEPT !.lastAt = clock], clock)
    /\ UNCHANGED <<output, held, clock>>

NoObservation ==
    /\ Ready /\ ~Gap
    /\ Return(Disabled([ffb EXCEPT !.lastAt = clock]), clock, clock)
    /\ UNCHANGED <<output, held, clock>>

\* Malformed, disconnected, too old, of the future, or older than the last.
BadObservation ==
    /\ Ready /\ ~Gap
    /\ ReturnFault([ffb EXCEPT !.lastAt = clock], clock)
    /\ UNCHANGED <<output, held, clock>>

\* An acknowledgement leaves the fault and permits nothing.
InFault(o) ==
    /\ ffb.state = "FAULT"
    /\ \E acknowledged \in BOOLEAN :
          LET f == Adopted(o, clock)
          IN  Return(IF acknowledged /\ o.active
                     THEN [f EXCEPT !.state = "DISABLED"] ELSE f, clock, clock)

Unavailable(o) == Boundary(o) \/ ~o.active \/ o.mode # "MANUAL"

Refuse(o) ==
    /\ ffb.state # "FAULT" /\ Unavailable(o)
    /\ Return(Disabled(Adopted(o, clock)), clock, clock)

NextState(request) ==
    CASE request = "DISABLE" -> "DISABLED"
      [] request = "ENABLE" /\ ffb.state = "DISABLED" -> "EVALUATING"
      [] OTHER -> ffb.state

Enabling(request) == request = "ENABLE" /\ ffb.state = "DISABLED"

Start(request) == IF Enabling(request) THEN 0 ELSE ffb.limited

ValidUntil(o) == Min2(clock + FfbGap, Min2(o.wheelAt + WheelAge, o.vehicleAt + VehicleAge))

DecideEffect(o) ==
    /\ ffb.state # "FAULT" /\ ~Unavailable(o)
    /\ \E request \in Requests, target \in EffectTargets :
       LET dt == IF Enabling(request) THEN 0 ELSE Elapsed(clock)
           desired == IF NextState(request) = "EVALUATING" THEN Min2(target, MaxStrength) ELSE 0
       IN  Return([Adopted(o, clock) EXCEPT !.state = NextState(request),
                                            !.limited = Slew(Start(request), desired, dt)],
                  clock, ValidUntil(o))

Observe ==
    /\ Ready /\ ~Gap
    /\ \E o \in Observations :
          /\ Sound(o, clock) /\ ~Regressed(o)
          /\ InFault(o) \/ Refuse(o) \/ DecideEffect(o)
    /\ UNCHANGED <<output, held, clock>>

(***************************************************************************)
(* The dispatcher.  A failing output ends the permission: the failure is   *)
(* recorded and a stop is attempted, whatever the recording does.          *)
(***************************************************************************)
Accepts(c, now) ==
    /\ c.state = "EVALUATING" /\ c.context = output.context
    /\ c.sequence > output.previous
    /\ c.issuedAt <= now /\ now <= c.validUntil
    /\ c.validUntil - c.issuedAt <= FfbGap
    /\ c.strength <= MaxStrength

Applied(c) == [output EXCEPT !.previous = c.sequence, !.force = c]
Stopped(c) == [output EXCEPT !.previous = Max2(@, c.sequence), !.force = Nothing]

Dispatched == dispatcher' = "idle" /\ command' = Nothing

Apply ==
    /\ dispatcher = "output" /\ command.state = "EVALUATING" /\ Accepts(command, clock)
    /\ output' = Applied(command)
    /\ held' \in {held, command}
    /\ Dispatched
    /\ UNCHANGED <<ffb, clock, enabled>>

Disable ==
    /\ dispatcher = "output" /\ command.state # "EVALUATING"
    /\ output' = Stopped(command)
    /\ Dispatched
    /\ UNCHANGED <<ffb, held, clock, enabled>>

Failure == [Faulted(ffb, command.issuedAt) EXCEPT !.sequence = @ + 1]

OutputFails ==
    /\ dispatcher = "output"
    /\ ffb' = Failure
    /\ output' = Stopped(Command(Failure, command.issuedAt, 0))
    /\ held' \in {held, command}
    /\ enabled' = NotEnabled
    /\ Dispatched
    /\ UNCHANGED clock

CloseDispatcher ==
    /\ dispatcher = "idle"
    /\ LET f == Faulted([ffb EXCEPT !.state = "CLOSED"], clock)
           closing == [f EXCEPT !.sequence = @ + 1]
       IN  /\ ffb' = closing
           /\ output' = Stopped(Command(closing, clock, 0))
    /\ dispatcher' = "closed"
    /\ enabled' = NotEnabled
    /\ UNCHANGED <<command, held, clock>>

\* A copy of an earlier command reaches the receiver.
Replay ==
    /\ held # Nothing /\ dispatcher # "output" /\ Accepts(held, clock)
    /\ output' = Applied(held)
    /\ UNCHANGED <<ffb, command, dispatcher, held, clock, enabled>>

\* The receiver's side is moved to another device or stage.
Rebind ==
    /\ dispatcher = "idle"
    /\ \E c \in Contexts : output' = [output EXCEPT !.context = c, !.force = Nothing]
    /\ UNCHANGED <<ffb, command, dispatcher, held, clock, enabled>>

HostTick ==
    /\ clock < MaxTime /\ dispatcher # "output"
    /\ clock' = clock + 1
    /\ UNCHANGED <<ffb, command, dispatcher, output, held, enabled>>

FfbNext ==
    \/ BadClock \/ UpdateGap \/ NoObservation \/ BadObservation \/ Observe
    \/ Apply \/ Disable \/ OutputFails \/ CloseDispatcher \/ Replay \/ Rebind \/ HostTick

FfbSpec == FfbInit /\ [][FfbNext]_ffbVars

-----------------------------------------------------------------------------
InForce == output.force # Nothing /\ clock <= output.force.validUntil

(***************************************************************************)
(* A strength is in force only while what it was computed from is fresh.   *)
(***************************************************************************)
EffectIsFresh ==
    InForce => /\ clock - output.force.wheelAt <= WheelAge
               /\ clock - output.force.vehicleAt <= VehicleAge

(***************************************************************************)
(* However often evaluation was stopped and enabled again, the strength    *)
(* has grown from nothing since it was enabled last, at the limited rate.  *)
(***************************************************************************)
SoftStart ==
    ffb.state = "EVALUATING" =>
        ffb.limited <= Min2(MaxStrength, Rise * (ffb.lastAt - enabled.at))

(***************************************************************************)
(* Evaluation runs only in the context it was enabled in, with the         *)
(* participant driving: no permission crosses a boundary.                  *)
(***************************************************************************)
PermissionIsLocal ==
    ffb.state = "EVALUATING" => ffb.context = enabled.context /\ ffb.mode = "MANUAL"

\* A force in effect was computed from fresh input, has grown softly since evaluation
\* was enabled, and belongs to the context it was enabled in.
EffectsAreLawful == EffectIsFresh /\ SoftStart /\ PermissionIsLocal

(***************************************************************************)
(* The inductive invariant behind it (PartsProofs).                         *)
(***************************************************************************)
Evaluator ==
    [state : {"DISABLED", "EVALUATING", "FAULT", "CLOSED"}, context : Contexts \cup {"NONE"},
     mode : {"MANUAL", "NOA_ACTIVE", "NONE"}, lastAt : Nat \cup {Unset},
     wheelAt : Nat \cup {Unset}, vehicleAt : Nat \cup {Unset}, limited : Nat, sequence : Nat]

\* A command that permits a strength is valid no longer than its input is fresh.
Lawful(c) ==
    c.state = "EVALUATING" =>
        /\ c.validUntil \in Int /\ c.wheelAt \in Int /\ c.vehicleAt \in Int
        /\ c.validUntil <= c.wheelAt + WheelAge /\ c.validUntil <= c.vehicleAt + VehicleAge
CommandsInv ==
    /\ Lawful(command) /\ Lawful(held) /\ Lawful(output.force)
    /\ output.force # Nothing => output.force.state = "EVALUATING"
    /\ dispatcher = "output" => command.issuedAt \in Nat /\ command.issuedAt <= clock
    /\ dispatcher \in {"idle", "output", "closed"}
    /\ output \in [previous : {output.previous}, force : {output.force}, context : Contexts]

\* While evaluation runs, it was enabled here, and what it has grown to is due since.
EvaluationInv ==
    /\ ffb \in Evaluator /\ clock \in Nat /\ ffb.lastAt <= clock
    /\ ffb.state = "EVALUATING" =>
          /\ ffb.lastAt \in Nat /\ enabled.at \in Nat /\ enabled.at <= ffb.lastAt
          /\ ffb.context \in Contexts

FfbInv == CommandsInv /\ EvaluationInv /\ SoftStart /\ PermissionIsLocal
=============================================================================
