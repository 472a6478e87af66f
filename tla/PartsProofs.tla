----------------------------- MODULE PartsProofs -----------------------------
(***************************************************************************)
(* Proofs about the parts that share no state: the force-feedback          *)
(* evaluator, the view's measurements, the native trace, the custom        *)
(* controller, the identity of the starts of the program, the wheel's       *)
(* presses and the raw samples of module 2.                                *)
(***************************************************************************)
EXTENDS FfbSafety, ViewMeasurement, NativeTrace, CustomControl, RunIdentity, WheelInput,
        RawSamples, FiniteSetTheorems, SequenceTheorems, WellFoundedInduction, TLAPS

(* The force-feedback evaluator. *)

\* Two waits together let the strength grow by what each of them lets it grow.
LEMMA GrowthAdds ==
    ASSUME NEW a \in Nat, NEW b \in Nat, NEW c \in Nat, NEW r \in Nat, a <= b, b <= c
    PROVE  /\ r * (b - a) + r * (c - b) = r * (c - a)
           /\ r * (b - a) \in Nat /\ r * (c - b) \in Nat /\ r * (c - a) \in Nat
  <1> DEFINE x == b - a
             y == c - b
  <1>1. x \in Nat /\ y \in Nat /\ c - a = x + y  OBVIOUS
  <1> HIDE DEF x, y
  <1>2. r * (x + y) = r * x + r * y /\ r * x \in Nat /\ r * y \in Nat  BY <1>1, SMT
  <1> QED  BY <1>1, <1>2 DEF x, y

\* The slew grows by no more than the rate allows and stays within the target.
LEMMA SlewIsSoft ==
    ASSUME NEW current \in Nat, NEW desired \in Nat, NEW dt \in Nat,
           NEW bound \in Nat, current <= bound
    PROVE  /\ Slew(current, desired, dt) \in Nat
           /\ Slew(current, desired, dt) <= current + Rise * dt
           /\ desired <= bound => Slew(current, desired, dt) <= bound
  <1>1. Rise * dt \in Nat /\ Fall * dt \in Nat  BY FfbAssumption
  <1> QED  BY <1>1 DEF Slew, Min2, Max2

\* What the evaluator returns leaves the invariant, if what it may permit is lawful.
LEMMA ReturnKeeps ==
    ASSUME FfbInv, NEW f \in Evaluator, NEW now \in Nat, NEW until \in Int,
           Return(f, now, until), UNCHANGED <<output, held, clock>>,
           now <= clock, f.lastAt <= clock,
           f.state = "EVALUATING" =>
              /\ f.lastAt = now /\ f.context \in Contexts /\ f.mode = "MANUAL"
              /\ until <= f.wheelAt + WheelAge /\ until <= f.vehicleAt + VehicleAge
              /\ f.wheelAt \in Nat /\ f.vehicleAt \in Nat /\ f.limited <= MaxStrength
              /\ ffb.state # "EVALUATING" => f.limited = 0
              /\ ffb.state = "EVALUATING" =>
                    /\ f.context = ffb.context /\ ffb.lastAt <= now
                    /\ f.limited <= Rise * (now - enabled.at)
    PROVE  FfbInv'
  <1> DEFINE g == [f EXCEPT !.sequence = @ + 1]
  <1>1. /\ g \in Evaluator /\ g.state = f.state /\ g.context = f.context /\ g.mode = f.mode
        /\ g.lastAt = f.lastAt /\ g.wheelAt = f.wheelAt /\ g.vehicleAt = f.vehicleAt
        /\ g.limited = f.limited
    BY DEF Evaluator
  <1>2. /\ ffb' = g /\ command' = Command(g, now, until) /\ dispatcher' = "output"
        /\ enabled' = IF f.state # "EVALUATING" THEN NotEnabled
                      ELSE IF ffb.state = "EVALUATING" THEN enabled
                      ELSE [at |-> now, context |-> f.context]
    BY DEF Return
  <1> HIDE DEF g
  <1>3. CommandsInv'
    <2>1. Lawful(command)'
      <3>1. CASE f.state = "EVALUATING"
        <4>1. /\ command'.validUntil = until /\ command'.wheelAt = f.wheelAt
              /\ command'.vehicleAt = f.vehicleAt
          BY <3>1, <1>1, <1>2 DEF Command
        <4> QED  BY <3>1, <4>1 DEF Lawful
      <3>2. CASE f.state # "EVALUATING"  BY <3>2, <1>1, <1>2 DEF Command, Lawful
      <3> QED  BY <3>1, <3>2
    <2>2. command'.issuedAt = now  BY <1>2 DEF Command
    <2>3. Lawful(held)' /\ Lawful(output.force)'  BY DEF FfbInv, CommandsInv, Lawful
    <2> QED  BY <2>1, <2>2, <2>3, <1>2 DEF FfbInv, CommandsInv
  <1>4. ffb'.state = "EVALUATING" =>
           /\ enabled'.at \in Nat /\ enabled'.at <= now /\ ffb'.context = enabled'.context
           /\ ffb'.limited <= Min2(MaxStrength, Rise * (now - enabled'.at))
    <2> SUFFICES ASSUME f.state = "EVALUATING"
                 PROVE  /\ enabled'.at \in Nat /\ enabled'.at <= now /\ f.context = enabled'.context
                        /\ f.limited <= Min2(MaxStrength, Rise * (now - enabled'.at))
      BY <1>1, <1>2
    <2>1. CASE ffb.state = "EVALUATING"
      <3>1. enabled' = enabled  BY <2>1, <1>2
      <3>2. enabled.at \in Nat /\ enabled.at <= ffb.lastAt /\ ffb.lastAt \in Nat
            /\ ffb.context = enabled.context
        BY <2>1 DEF FfbInv, EvaluationInv, PermissionIsLocal
      <3>3. f.limited <= Min2(MaxStrength, Rise * (now - enabled.at))  BY <2>1 DEF Min2
      <3> QED  BY <2>1, <3>1, <3>2, <3>3
    <2>2. CASE ffb.state # "EVALUATING"
      <3>1. enabled'.at = now /\ enabled'.context = f.context  BY <2>2, <1>2
      <3>2. Rise * (now - now) = 0  BY FfbAssumption
      <3>3. f.limited = 0  BY <2>2
      <3> QED  BY <3>1, <3>2, <3>3, FfbAssumption DEF Min2
    <2> QED  BY <2>1, <2>2
  <1>5. EvaluationInv'  BY <1>1, <1>2, <1>4 DEF FfbInv, EvaluationInv
  <1>6. SoftStart' /\ PermissionIsLocal'  BY <1>1, <1>2, <1>4 DEF SoftStart, PermissionIsLocal
  <1> QED  BY <1>3, <1>5, <1>6 DEF FfbInv

\* A command that permits nothing keeps the invariant, whatever else it carries.
LEMMA RefusalKeeps ==
    ASSUME FfbInv, NEW f \in Evaluator, NEW now \in Nat, NEW until \in Int,
           Return(f, now, until), UNCHANGED <<output, held, clock>>,
           now <= clock, f.lastAt <= clock, f.state # "EVALUATING"
    PROVE  FfbInv'
  BY ReturnKeeps

\* A fault, numbered or not, permits nothing and believes no time to come.
LEMMA FaultedFields ==
    ASSUME NEW f \in Evaluator, NEW now \in Nat, now <= clock, f.lastAt <= clock
    PROVE  \A g \in {Faulted(f, now), [Faulted(f, now) EXCEPT !.sequence = @ + 1]} :
             g \in Evaluator /\ g.lastAt <= clock /\ g.state # "EVALUATING"
  <1> DEFINE g == Faulted(f, now)
  <1>1. g \in Evaluator /\ g.lastAt <= clock /\ g.state # "EVALUATING"
    BY DEF Faulted, Evaluator, Max2, Unset
  <1> HIDE DEF g
  <1>2. LET h == [g EXCEPT !.sequence = @ + 1]
        IN  h \in Evaluator /\ h.lastAt = g.lastAt /\ h.state = g.state
    BY <1>1 DEF Evaluator
  <1> QED  BY <1>1, <1>2 DEF g

\* A fault permits nothing, and is stamped no later than now.
LEMMA FaultKeeps ==
    ASSUME FfbInv, NEW f \in Evaluator, NEW now \in Nat, now <= clock, f.lastAt <= clock,
           ReturnFault(f, now), UNCHANGED <<output, held, clock>>
    PROVE  FfbInv'
  <1> DEFINE g == Faulted(f, now)
  <1>1. g \in Evaluator /\ g.lastAt <= clock /\ g.state # "EVALUATING"  BY FaultedFields
  <1>2. Max2(g.lastAt, 0) \in Nat /\ Max2(g.lastAt, 0) <= clock
    BY <1>1 DEF Max2, Evaluator, FfbInv, EvaluationInv, Unset
  <1>3. Return(g, Max2(g.lastAt, 0), 0)  BY DEF ReturnFault
  <1> HIDE DEF g
  <1> QED  BY <1>1, <1>2, <1>3, RefusalKeeps

\* What is observed is adopted as it is.
LEMMA AdoptedFields ==
    ASSUME FfbInv, NEW o \in Observations
    PROVE  /\ Adopted(o, clock) \in Evaluator
           /\ Adopted(o, clock).state = ffb.state /\ Adopted(o, clock).limited = ffb.limited
           /\ Adopted(o, clock).lastAt = clock /\ Adopted(o, clock).context = o.context
           /\ Adopted(o, clock).mode = o.mode /\ Adopted(o, clock).wheelAt = o.wheelAt
           /\ Adopted(o, clock).vehicleAt = o.vehicleAt
           /\ Disabled(Adopted(o, clock)) \in Evaluator
           /\ Disabled(Adopted(o, clock)).state # "EVALUATING"
           /\ Disabled(Adopted(o, clock)).lastAt = clock
  <1>1. ffb \in Evaluator /\ clock \in Nat  BY DEF FfbInv, EvaluationInv
  <1>2. /\ o.wheelAt \in Nat /\ o.vehicleAt \in Nat /\ o.context \in Contexts
        /\ o.mode \in {"MANUAL", "NOA_ACTIVE"}
    BY FfbAssumption DEF Observations, Times
  <1>3. /\ Adopted(o, clock) \in Evaluator
        /\ Adopted(o, clock).state = ffb.state /\ Adopted(o, clock).limited = ffb.limited
        /\ Adopted(o, clock).lastAt = clock /\ Adopted(o, clock).context = o.context
        /\ Adopted(o, clock).mode = o.mode /\ Adopted(o, clock).wheelAt = o.wheelAt
        /\ Adopted(o, clock).vehicleAt = o.vehicleAt
    BY <1>1, <1>2 DEF Adopted, Evaluator
  <1> DEFINE f == Adopted(o, clock)
  <1>4. f \in Evaluator /\ f.lastAt = clock  BY <1>3
  <1> HIDE DEF f
  <1>5. /\ Disabled(f) \in Evaluator /\ Disabled(f).state # "EVALUATING"
        /\ Disabled(f).lastAt = f.lastAt
    BY <1>4 DEF Disabled, Evaluator
  <1> QED  BY <1>3, <1>4, <1>5 DEF f

\* The decision: what runs on has grown at the limited rate in the context it was
\* enabled in, and what is enabled begins with nothing.
LEMMA DecisionKeeps ==
    ASSUME FfbInv, NEW o \in Observations, DecideEffect(o), UNCHANGED <<output, held, clock>>
    PROVE  FfbInv'
  <1>1. PICK request \in Requests, target \in EffectTargets :
          LET dt == IF Enabling(request) THEN 0 ELSE Elapsed(clock)
              desired == IF NextState(request) = "EVALUATING"
                         THEN Min2(target, MaxStrength) ELSE 0
          IN  Return([Adopted(o, clock) EXCEPT !.state = NextState(request),
                                               !.limited = Slew(Start(request), desired, dt)],
                     clock, ValidUntil(o))
    BY DEF DecideEffect
  <1> DEFINE dt == IF Enabling(request) THEN 0 ELSE Elapsed(clock)
             desired == IF NextState(request) = "EVALUATING"
                        THEN Min2(target, MaxStrength) ELSE 0
             limited == Slew(Start(request), desired, dt)
             f == [Adopted(o, clock) EXCEPT !.state = NextState(request), !.limited = limited]
  <1>2. /\ ffb \in Evaluator /\ clock \in Nat /\ ffb.lastAt <= clock
        /\ o.wheelAt \in Nat /\ o.vehicleAt \in Nat /\ o.context \in Contexts
        /\ ~Boundary(o) /\ o.mode = "MANUAL" /\ target \in Nat
    BY FfbAssumption DEF Observations, Times, DecideEffect, Unavailable, FfbInv, EvaluationInv
  <1>3. dt \in Nat /\ desired \in Nat /\ Start(request) \in Nat /\ desired <= MaxStrength
        /\ NextState(request) \in {"DISABLED", "EVALUATING", "FAULT", "CLOSED"}
    BY <1>2, FfbAssumption
       DEF Elapsed, Min2, Start, Evaluator, Unset, NextState
  <1>4. limited \in Nat /\ limited <= Start(request) + Rise * dt
    <2> DEFINE current == Start(request)
    <2>1. current <= current /\ current \in Nat  BY <1>3
    <2> HIDE DEF dt, desired, current
    <2>2. /\ Slew(current, desired, dt) \in Nat
          /\ Slew(current, desired, dt) <= current + Rise * dt
      BY <1>3, <2>1, SlewIsSoft
    <2> QED  BY <2>2 DEF current
  <1>5. /\ f \in Evaluator /\ f.state = NextState(request) /\ f.limited = limited
        /\ f.lastAt = clock /\ f.context = o.context /\ f.mode = "MANUAL"
        /\ f.wheelAt = o.wheelAt /\ f.vehicleAt = o.vehicleAt
    <2> HIDE DEF limited
    <2> DEFINE a == Adopted(o, clock)
    <2>1. /\ a \in Evaluator /\ a.lastAt = clock /\ a.context = o.context
          /\ a.mode = "MANUAL" /\ a.wheelAt = o.wheelAt /\ a.vehicleAt = o.vehicleAt
      BY <1>2, AdoptedFields
    <2> HIDE DEF a
    <2>2. LET g == [a EXCEPT !.state = NextState(request), !.limited = limited]
          IN  /\ g \in Evaluator /\ g.state = NextState(request) /\ g.limited = limited
              /\ g.lastAt = a.lastAt /\ g.context = a.context /\ g.mode = a.mode
              /\ g.wheelAt = a.wheelAt /\ g.vehicleAt = a.vehicleAt
      BY <1>3, <1>4, <2>1 DEF Evaluator
    <2> QED  BY <2>1, <2>2 DEF a
  <1>6. /\ ValidUntil(o) \in Int /\ ValidUntil(o) <= o.wheelAt + WheelAge
        /\ ValidUntil(o) <= o.vehicleAt + VehicleAge
    BY <1>2, FfbAssumption DEF ValidUntil, Min2
  <1>7. NextState(request) = "EVALUATING" =>
          \/ ffb.state # "EVALUATING" /\ Enabling(request)
          \/ ffb.state = "EVALUATING" /\ ~Enabling(request)
    BY DEF NextState, Enabling
  <1>8. ASSUME NextState(request) = "EVALUATING", Enabling(request)
        PROVE  limited = 0
    <2>1. dt = 0 /\ Start(request) = 0 /\ Rise * 0 = 0 /\ Fall * 0 = 0
      BY <1>8, FfbAssumption DEF Start
    <2> QED  BY <2>1, <1>3 DEF Slew, Min2, Max2
  <1>9. ASSUME NextState(request) = "EVALUATING", ffb.state = "EVALUATING"
        PROVE  /\ o.context = ffb.context
               /\ limited <= MaxStrength /\ limited <= Rise * (clock - enabled.at)
    <2>1. /\ ~Enabling(request) /\ ffb.lastAt \in Nat /\ enabled.at \in Nat
          /\ enabled.at <= ffb.lastAt /\ ffb.context \in Contexts
      BY <1>7, <1>9 DEF FfbInv, EvaluationInv
    <2>2. dt = clock - ffb.lastAt /\ Start(request) = ffb.limited  BY <2>1 DEF Elapsed, Start, Unset
    <2>3. /\ Rise * (ffb.lastAt - enabled.at) + Rise * (clock - ffb.lastAt)
                = Rise * (clock - enabled.at)
          /\ Rise * (ffb.lastAt - enabled.at) \in Nat
      BY <2>1, <1>2, GrowthAdds, FfbAssumption
    <2>4. /\ ffb.limited <= MaxStrength /\ ffb.limited <= Rise * (ffb.lastAt - enabled.at)
          /\ ffb.limited \in Nat
      BY <1>9, <2>3, FfbAssumption DEF FfbInv, SoftStart, Min2, EvaluationInv, Evaluator
    <2>5. limited <= MaxStrength  BY <2>4, <2>2, <1>3, SlewIsSoft, FfbAssumption
    <2>6. Rise * dt = Rise * (clock - ffb.lastAt) /\ Rise * (clock - ffb.lastAt) \in Nat
      BY <2>2, <2>1, <1>2, FfbAssumption, GrowthAdds
    <2>7. limited <= Rise * (clock - enabled.at)
      <3> HIDE DEF limited, dt
      <3> QED  BY <2>6, <2>4, <2>3, <2>2, <1>4, <2>1, <1>2
    <2>8. o.context = ffb.context  BY <1>2, <2>1, FfbAssumption DEF Boundary
    <2> QED  BY <2>5, <2>7, <2>8
  <1>10. Return(f, clock, ValidUntil(o))  BY <1>1
  <1> HIDE DEF f, limited
  <1>11. f.state = "EVALUATING" =>
              /\ f.lastAt = clock /\ f.context \in Contexts /\ f.mode = "MANUAL"
              /\ ValidUntil(o) <= f.wheelAt + WheelAge
              /\ ValidUntil(o) <= f.vehicleAt + VehicleAge
              /\ f.wheelAt \in Nat /\ f.vehicleAt \in Nat /\ f.limited <= MaxStrength
              /\ ffb.state # "EVALUATING" => f.limited = 0
              /\ ffb.state = "EVALUATING" =>
                    /\ f.context = ffb.context /\ ffb.lastAt <= clock
                    /\ f.limited <= Rise * (clock - enabled.at)
    BY <1>2, <1>5, <1>6, <1>7, <1>8, <1>9, FfbAssumption
  <1> QED  BY <1>2, <1>5, <1>6, <1>10, <1>11, ReturnKeeps

\* While the evaluator rests, time alone takes no permission beyond its bounds.
LEMMA PermissionRests ==
    ASSUME FfbInv, ffb' = ffb, enabled' = enabled, clock' \in Nat, clock <= clock'
    PROVE  EvaluationInv' /\ SoftStart' /\ PermissionIsLocal'
  <1>1. ffb.lastAt \in Int /\ clock \in Nat /\ ffb.lastAt <= clock
    BY DEF FfbInv, EvaluationInv, Evaluator, Unset
  <1>2. ffb'.lastAt <= clock'  BY <1>1
  <1>3. EvaluationInv'  BY <1>2 DEF FfbInv, EvaluationInv
  <1> QED  BY <1>3 DEF FfbInv, SoftStart, PermissionIsLocal

\* Once evaluation has ended nothing is asked of where it was enabled.
LEMMA PermissionEnds ==
    ASSUME FfbInv, ffb' \in Evaluator, ffb'.state # "EVALUATING", clock' = clock,
           ffb'.lastAt <= clock
    PROVE  EvaluationInv' /\ SoftStart' /\ PermissionIsLocal'
  BY DEF FfbInv, EvaluationInv, SoftStart, PermissionIsLocal

\* What the output holds after it accepted a command, and after it was stopped.
LEMMA AppliedOutput ==
    ASSUME FfbInv, NEW c
    PROVE  /\ Applied(c) \in [previous : {c.sequence}, force : {c}, context : Contexts]
           /\ Stopped(c) \in [previous : {Max2(output.previous, c.sequence)},
                              force : {Nothing}, context : Contexts]
  BY DEF FfbInv, CommandsInv, Applied, Stopped

\* Every step of the evaluator, its dispatcher and its output keeps the invariant.
LEMMA FfbStep == FfbInv /\ [FfbNext]_ffbVars => FfbInv'
  <1> SUFFICES ASSUME FfbInv, [FfbNext]_ffbVars  PROVE FfbInv'  OBVIOUS
  <1>0. /\ ffb \in Evaluator /\ clock \in Nat /\ ffb.lastAt <= clock
        /\ ffb.lastAt \in Int /\ clock <= clock
    BY DEF FfbInv, EvaluationInv, Evaluator, Unset
  <1> DEFINE Now == [ffb EXCEPT !.lastAt = clock]
  <1>n. Now \in Evaluator /\ Now.lastAt = clock /\ Now.lastAt <= clock  BY <1>0 DEF Evaluator
  <1>l. Lawful(Nothing) /\ Nothing.state # "EVALUATING"  BY DEF Lawful, Nothing
  <1>c. /\ Lawful(command) /\ Lawful(held) /\ Lawful(output.force)
        /\ output.force # Nothing => output.force.state = "EVALUATING"
        /\ dispatcher = "output" => command.issuedAt \in Nat /\ command.issuedAt <= clock
        /\ output \in [previous : {output.previous}, force : {output.force}, context : Contexts]
    BY DEF FfbInv, CommandsInv
  <1>1. CASE BadClock
    <2>1. PICK now \in Times : now < ffb.lastAt /\ ReturnFault(ffb, now)  BY <1>1 DEF BadClock
    <2>2. now \in Nat /\ now <= clock  BY <2>1, <1>0, FfbAssumption DEF Times
    <2> QED  BY <1>0, <1>1, <2>1, <2>2, FaultKeeps DEF BadClock
  <1>2. CASE UpdateGap
    <2>1. ReturnFault(Now, clock) /\ UNCHANGED <<output, held, clock>>  BY <1>2 DEF UpdateGap
    <2> HIDE DEF Now
    <2> QED  BY <1>0, <1>n, <2>1, FaultKeeps
  <1>3. CASE NoObservation
    <2>1. Disabled(Now) \in Evaluator /\ Disabled(Now).lastAt = clock
          /\ Disabled(Now).state # "EVALUATING"
      <3> HIDE DEF Now
      <3> QED  BY <1>n DEF Disabled, Evaluator
    <2>2. Return(Disabled(Now), clock, clock)  BY <1>3 DEF NoObservation
    <2> HIDE DEF Now
    <2> QED  BY <1>0, <1>3, <2>1, <2>2, RefusalKeeps DEF NoObservation
  <1>4. CASE BadObservation
    <2>1. ReturnFault(Now, clock) /\ UNCHANGED <<output, held, clock>>  BY <1>4 DEF BadObservation
    <2> HIDE DEF Now
    <2> QED  BY <1>0, <1>n, <2>1, FaultKeeps
  <1>5. CASE Observe
    <2>1. PICK o \in Observations : InFault(o) \/ Refuse(o) \/ DecideEffect(o)  BY <1>5 DEF Observe
    <2>2. CASE InFault(o)
      <3>1. PICK acknowledged \in BOOLEAN :
              Return(IF acknowledged /\ o.active
                     THEN [Adopted(o, clock) EXCEPT !.state = "DISABLED"]
                     ELSE Adopted(o, clock), clock, clock)
        BY <2>2 DEF InFault
      <3> DEFINE f == IF acknowledged /\ o.active
                      THEN [Adopted(o, clock) EXCEPT !.state = "DISABLED"] ELSE Adopted(o, clock)
      <3>2. f \in Evaluator /\ f.lastAt = clock /\ f.state # "EVALUATING"
        BY <2>2, AdoptedFields DEF InFault, Evaluator
      <3>3. Return(f, clock, clock)  BY <3>1
      <3> HIDE DEF f
      <3> QED  BY <1>0, <1>5, <3>2, <3>3, RefusalKeeps DEF Observe
    <2>3. CASE Refuse(o)  BY <1>0, <1>5, <2>3, AdoptedFields, RefusalKeeps DEF Observe, Refuse
    <2>4. CASE DecideEffect(o)  BY <1>5, <2>4, DecisionKeeps DEF Observe
    <2> QED  BY <2>1, <2>2, <2>3, <2>4
  <1>6. CASE Apply
    <2>1. /\ output' \in [previous : {command.sequence}, force : {command}, context : Contexts]
          /\ held' \in {held, command} /\ command' = Nothing /\ dispatcher' = "idle"
          /\ command.state = "EVALUATING"
      BY <1>6, AppliedOutput DEF Apply, Dispatched
    <2>2. CommandsInv'  BY <1>c, <1>l, <2>1 DEF CommandsInv, Lawful
    <2> QED  BY <1>6, <1>0, <2>2, PermissionRests DEF Apply, FfbInv
  <1>7. CASE Disable
    <2>1. /\ output' \in [previous : {output'.previous}, force : {Nothing}, context : Contexts]
          /\ held' = held /\ command' = Nothing /\ dispatcher' = "idle"
      BY <1>7, AppliedOutput DEF Disable, Dispatched
    <2>2. CommandsInv'  BY <1>c, <1>l, <2>1 DEF CommandsInv, Lawful
    <2> QED  BY <1>7, <1>0, <2>2, PermissionRests DEF Disable, FfbInv
  <1>8. CASE OutputFails
    <2>1. /\ output' \in [previous : {output'.previous}, force : {Nothing}, context : Contexts]
          /\ held' \in {held, command} /\ command' = Nothing /\ dispatcher' = "idle"
      BY <1>8, AppliedOutput DEF OutputFails, Dispatched
    <2>2. CommandsInv'  BY <1>c, <1>l, <2>1 DEF CommandsInv, Lawful
    <2>3. ffb' \in Evaluator /\ ffb'.state # "EVALUATING" /\ ffb'.lastAt <= clock
      BY <1>0, <1>c, <1>8, FaultedFields DEF OutputFails, Failure
    <2> QED  BY <1>8, <2>2, <2>3, PermissionEnds DEF OutputFails, FfbInv
  <1>9. CASE CloseDispatcher
    <2>1. /\ output' \in [previous : {output'.previous}, force : {Nothing}, context : Contexts]
          /\ held' = held /\ command' = command /\ dispatcher' = "closed"
      BY <1>9, AppliedOutput DEF CloseDispatcher
    <2>2. CommandsInv'  BY <1>c, <1>l, <2>1 DEF CommandsInv, Lawful
    <2>3. ffb' \in Evaluator /\ ffb'.state # "EVALUATING" /\ ffb'.lastAt <= clock
      <3> DEFINE f == [ffb EXCEPT !.state = "CLOSED"]
      <3>1. f \in Evaluator /\ f.lastAt <= clock  BY <1>0 DEF Evaluator
      <3>2. ffb' = [Faulted(f, clock) EXCEPT !.sequence = @ + 1]  BY <1>9 DEF CloseDispatcher
      <3> HIDE DEF f
      <3> QED  BY <1>0, <3>1, <3>2, FaultedFields
    <2> QED  BY <1>9, <2>2, <2>3, PermissionEnds DEF CloseDispatcher, FfbInv
  <1>10. CASE Replay
    <2>1. /\ output' \in [previous : {held.sequence}, force : {held}, context : Contexts]
          /\ held.state = "EVALUATING"
      BY <1>10, AppliedOutput DEF Replay, Accepts
    <2>2. CommandsInv'  BY <1>10, <1>c, <1>l, <2>1 DEF FfbInv, CommandsInv, Lawful, Replay
    <2> QED  BY <1>10, <1>0, <2>2, PermissionRests DEF Replay, FfbInv
  <1>11. CASE Rebind
    <2>1. output' \in [previous : {output.previous}, force : {Nothing}, context : Contexts]
      BY <1>11, <1>c DEF Rebind
    <2>2. CommandsInv'  BY <1>11, <1>c, <1>l, <2>1 DEF FfbInv, CommandsInv, Lawful, Rebind
    <2> QED  BY <1>11, <1>0, <2>2, PermissionRests DEF Rebind, FfbInv
  <1>12. CASE HostTick
    <2>1. CommandsInv'  BY <1>12, <1>0, <1>c DEF FfbInv, CommandsInv, Lawful, HostTick
    <2>2. clock' \in Nat /\ clock <= clock' BY <1>12, <1>0 DEF HostTick
    <2> QED  BY <1>12, <2>1, <2>2, PermissionRests DEF HostTick, FfbInv
  <1>13. CASE UNCHANGED ffbVars
    <2>1. CommandsInv'  BY <1>13, <1>0, <1>c DEF FfbInv, CommandsInv, Lawful, ffbVars
    <2> QED  BY <1>13, <1>0, <2>1, PermissionRests DEF ffbVars, FfbInv
  <1> QED  BY <1>1, <1>2, <1>3, <1>4, <1>5, <1>6, <1>7, <1>8, <1>9, <1>10, <1>11, <1>12,
              <1>13 DEF FfbNext

\* In every state of the evaluator the inductive invariant holds.
THEOREM FfbInvariance == FfbSpec => []FfbInv
  <1>1. FfbInit => FfbInv
    BY FfbAssumption
       DEF FfbInit, FfbInv, CommandsInv, EvaluationInv, SoftStart, PermissionIsLocal, Lawful,
           Nothing, Evaluator, Unset
  <1>2. FfbInv /\ [FfbNext]_ffbVars => FfbInv'  BY FfbStep
  <1> QED  BY <1>1, <1>2, PTL DEF FfbSpec

\* A force in effect was computed from fresh input, has grown softly since evaluation
\* was enabled last and belongs to the context it was enabled in, whatever the limits,
\* the contexts and the copies of earlier commands that reach the output again.
THEOREM EffectsStayLawful == FfbSpec => []EffectsAreLawful
  <1>1. FfbInv => EffectsAreLawful
    <2> SUFFICES ASSUME FfbInv PROVE EffectsAreLawful  OBVIOUS
    <2>1. InForce => /\ output.force.validUntil \in Int /\ clock <= output.force.validUntil
                     /\ output.force.wheelAt \in Int /\ output.force.vehicleAt \in Int
                     /\ output.force.validUntil <= output.force.wheelAt + WheelAge
                     /\ output.force.validUntil <= output.force.vehicleAt + VehicleAge
      BY DEF FfbInv, CommandsInv, Lawful, InForce
    <2>2. EffectIsFresh  BY <2>1, FfbAssumption DEF EffectIsFresh, FfbInv, EvaluationInv
    <2> QED  BY <2>2 DEF FfbInv, EffectsAreLawful
  <1> QED  BY <1>1, FfbInvariance, PTL

(* The view's measurements. *)

\* What the diagnostics' operations leave as it is, and what they add to the spans.
LEMMA SpannedFields ==
    ASSUME MeasuredInv, NEW t \in Measurements
    PROVE  /\ Spanned(t) \in Measurements
           /\ Spanned(t).start = t.start /\ Spanned(t).end = t.end
           /\ Spanned(t).frozen = t.frozen /\ Spanned(t).counts = t.counts
           /\ Spanned(t).loops = t.loops /\ Spanned(t).slowest = t.slowest
           /\ Spanned(t).pending.open = t.pending.open
           /\ Spanned(t).pending.of \subseteq t.pending.of \cup {view.iteration}
           /\ t.frozen => Spanned(t) = t
  <1>1. CASE t.pending.open /\ ~t.frozen
    <2> DEFINE p == [t.pending EXCEPT !.of = @ \cup {view.iteration}]
    <2>1. t.pending \in [open : BOOLEAN, of : SUBSET Nat] /\ view.iteration \in Nat
      <3>1. t.pending \in [open : BOOLEAN, of : SUBSET Nat]  BY DEF Measurements
      <3>2. view.iteration \in Nat  BY DEF MeasuredInv, Views
      <3> QED  BY <3>1, <3>2
    <2>2. /\ p \in [open : BOOLEAN, of : SUBSET Nat] /\ p.open = t.pending.open
          /\ p.of = t.pending.of \cup {view.iteration}
      BY <2>1
    <2>3. Spanned(t) = [t EXCEPT !.pending = p]  BY <1>1 DEF Spanned
    <2> HIDE DEF p
    <2> QED  BY <1>1, <2>2, <2>3 DEF Measurements
  <1>2. CASE ~(t.pending.open /\ ~t.frozen)  BY <1>2 DEF Spanned
  <1> QED  BY <1>1, <1>2

LEMMA FollowedFields ==
    ASSUME NEW t \in Measurements
    PROVE  /\ Followed(t) \in Measurements
           /\ Followed(t).start = t.start /\ Followed(t).end = t.end
           /\ Followed(t).frozen = t.frozen /\ Followed(t).counts = t.counts
           /\ Followed(t).loops = t.loops /\ Followed(t).slowest = t.slowest
           /\ IF ~t.frozen /\ t.start # 0 /\ t.end = 0
              THEN Followed(t).pending = [open |-> TRUE, of |-> {}]
              ELSE Followed(t) = t
  BY DEF Followed, Measurements

LEMMA RecordedFields ==
    ASSUME NEW t \in Measurements, NEW length \in Nat
    PROVE  /\ LoopRecorded(t, length) \in Measurements
           /\ LoopRecorded(t, length).start = t.start /\ LoopRecorded(t, length).end = t.end
           /\ LoopRecorded(t, length).frozen = t.frozen
           /\ LoopRecorded(t, length).counts = t.counts
           /\ IF t.frozen \/ ~t.pending.open THEN LoopRecorded(t, length) = t
              ELSE /\ LoopRecorded(t, length).loops = t.loops + 1
                   /\ LoopRecorded(t, length).pending = NoLoop
                   /\ LoopRecorded(t, length).slowest.of \in {t.slowest.of, t.pending.of}
  <1>1. CASE t.frozen \/ ~t.pending.open  BY <1>1 DEF LoopRecorded
  <1>2. CASE ~(t.frozen \/ ~t.pending.open)
    <2> DEFINE worst == IF length > t.slowest.length
                        THEN [length |-> length, of |-> t.pending.of] ELSE t.slowest
    <2>1. /\ worst \in [length : Nat, of : SUBSET Nat]
          /\ worst.of \in {t.slowest.of, t.pending.of}
      BY DEF Measurements
    <2>2. NoLoop \in [open : BOOLEAN, of : SUBSET Nat]  BY DEF NoLoop
    <2>3. LoopRecorded(t, length)
            = [t EXCEPT !.loops = t.loops + 1, !.pending = NoLoop, !.slowest = worst]
      BY <1>2 DEF LoopRecorded
    <2> HIDE DEF worst
    <2>4. t.loops + 1 \in Nat  BY DEF Measurements
    <2> DEFINE u == LoopRecorded(t, length)
    <2>5. u \in Measurements  BY <2>1, <2>2, <2>3, <2>4 DEF Measurements
    <2>6. /\ u.start = t.start /\ u.end = t.end /\ u.frozen = t.frozen /\ u.counts = t.counts
          /\ u.loops = t.loops + 1 /\ u.pending = NoLoop /\ u.slowest = worst
      BY <2>3 DEF Measurements
    <2> QED  BY <1>2, <2>1, <2>5, <2>6
  <1> QED  BY <1>1, <1>2

LEMMA PreparedFields ==
    ASSUME NEW t \in Measurements, NEW role \in Roles, NEW image \in Images
    PROVE  /\ Prepared(t, role, image) \in Measurements
           /\ Prepared(t, role, image).start = t.start /\ Prepared(t, role, image).end = t.end
           /\ Prepared(t, role, image).frozen = t.frozen
           /\ Prepared(t, role, image).counts = t.counts
           /\ Prepared(t, role, image).loops = t.loops
           /\ Prepared(t, role, image).slowest = t.slowest
           /\ Prepared(t, role, image).pending = t.pending
  <1>1. [t.updated EXCEPT ![role] = @ + 1] \in [Roles -> Nat]  BY DEF Measurements
  <1>2. [t.drawn EXCEPT ![role] = image] \in [Roles -> Images]  BY DEF Measurements
  <1> QED  BY <1>1, <1>2 DEF Prepared, Measurements

\* While no callback steps, time only moves on beyond every receipt.
LEMMA ReceiptsRest ==
    ASSUME ReceiptsInv, UNCHANGED <<callbacks, receipts>>, reading \in Nat,
           reading' \in {reading, reading + 1}
    PROVE  ReceiptsInv'
  <1>1. \A e \in receipts : e.receipt \in Nat  BY DEF ReceiptsInv
  <1> QED  BY <1>1 DEF ReceiptsInv

\* What the window has counted depends on its bounds and on the callbacks alone.
LEMMA CountsRest ==
    ASSUME CountsInv, UNCHANGED <<callbacks, receipts>>,
           times'.start = times.start, times'.end = times.end, times'.counts = times.counts
    PROVE  CountsInv'
  <1>1. Outstanding' = Outstanding  BY DEF Outstanding
  <1>2. \A e \in receipts : InWindow(e.receipt)' <=> InWindow(e.receipt)  BY DEF InWindow
  <1>3. \A r \in Roles : Reported(r)' = Reported(r)  BY <1>1, <1>2 DEF Reported, InWindow
  <1> QED  BY <1>3 DEF CountsInv

\* A callback that starts is counted by nobody yet.
LEMMA ReceiveKeeps ==
    ASSUME MeasuredInv, ReceiptsInv, CountsInv, NEW c \in Cameras, Receive(c)
    PROVE  MeasuredInv' /\ ReceiptsInv' /\ CountsInv'
  <1> DEFINE image == [frame |-> Cardinality(receipts) + 1, receipt |-> reading + 1]
             e0 == [role |-> RoleOf(c), receipt |-> reading + 1]
             busy == [at |-> "received", image |-> image]
  <1>1. /\ reading \in Nat /\ reading' = reading + 1 /\ receipts' = receipts \cup {e0}
        /\ callbacks' = [callbacks EXCEPT ![c] = busy] /\ callbacks[c] = Quiet
        /\ UNCHANGED <<feeds, listening, times, loops, view>>
    BY DEF Receive, MeasuredInv
  <1>2. Cardinality(receipts) \in Nat  BY FS_CardinalityType DEF ReceiptsInv
  <1>3. /\ e0 \in [role : Roles, receipt : Nat] /\ e0.receipt = reading + 1
        /\ e0.role = RoleOf(c)
    BY <1>1 DEF RoleOf, Roles
  <1>4. /\ busy \in [at : {"idle", "received", "updated"}, image : Images]
        /\ busy # Quiet /\ busy.at = "received" /\ busy.image.receipt = reading + 1
    BY <1>1, <1>2 DEF Images, Quiet
  <1>5. \A d \in Cameras : callbacks'[d] = IF d = c THEN busy ELSE callbacks[d]
    BY <1>1 DEF MeasuredInv
  <1> HIDE DEF busy, image
  <1>6. MeasuredInv'  BY <1>1, <1>4 DEF MeasuredInv
  <1>7. \A e \in receipts : e.receipt \in Nat /\ e.receipt <= reading /\ e # e0
    BY <1>1, <1>3 DEF ReceiptsInv
  <1>8. \A d \in Cameras : callbacks[d] # Quiet =>
           /\ callbacks[d].image.receipt \in Nat /\ callbacks[d].image.receipt <= reading
           /\ callbacks[d].image.receipt # reading + 1
    <2> TAKE d \in Cameras
    <2> HAVE callbacks[d] # Quiet
    <2>1. [role |-> RoleOf(d), receipt |-> callbacks[d].image.receipt] \in receipts
      BY DEF ReceiptsInv
    <2> QED  BY <2>1, <1>7, <1>1
  <1> HIDE DEF e0
  <1>9. ReceiptsInv'
    <2>1. IsFiniteSet(receipts') /\ receipts' \subseteq [role : Roles, receipt : Nat]
      BY <1>1, <1>3, FS_AddElement DEF ReceiptsInv
    <2>2. \A e \in receipts' : 0 < e.receipt /\ e.receipt <= reading'
      BY <1>1, <1>3, <1>7 DEF ReceiptsInv
    <2>3. \A e, f \in receipts' : e.receipt = f.receipt => e = f
      BY <1>1, <1>3, <1>7 DEF ReceiptsInv
    <2>4. \A d \in Cameras : callbacks'[d] # Quiet =>
             /\ callbacks'[d].at \in {"received", "updated"}
             /\ [role |-> RoleOf(d), receipt |-> callbacks'[d].image.receipt] \in receipts'
      <3>1. [role |-> RoleOf(c), receipt |-> busy.image.receipt] \in receipts'  BY <1>1, <1>4 DEF e0
      <3> QED  BY <1>1, <1>4, <1>5, <3>1 DEF ReceiptsInv
    <2>5. \A d, f \in Cameras :
             callbacks'[d] # Quiet /\ callbacks'[f] # Quiet
                /\ callbacks'[d].image.receipt = callbacks'[f].image.receipt => d = f
      BY <1>4, <1>5, <1>8 DEF ReceiptsInv
    <2> QED  BY <2>1, <2>2, <2>3, <2>4, <2>5 DEF ReceiptsInv
  <1>10. Outstanding' = Outstanding \cup {reading + 1}
    <2>1. \A d \in Cameras : callbacks'[d] # Quiet <=> d = c \/ callbacks[d] # Quiet  BY <1>4, <1>5
    <2>2. \A d \in Cameras : callbacks'[d].image.receipt
              = IF d = c THEN reading + 1 ELSE callbacks[d].image.receipt
      BY <1>4, <1>5
    <2> QED  BY <1>1, <2>1, <2>2 DEF Outstanding
  <1>11. ASSUME NEW r \in Roles  PROVE Reported(r)' = Reported(r)
    <2>1. \A e \in receipts : InWindow(e.receipt)' <=> InWindow(e.receipt)  BY <1>1 DEF InWindow
    <2>2. \A e \in receipts : e.receipt \notin Outstanding' <=> e.receipt \notin Outstanding
      BY <1>1, <1>7, <1>10
    <2>3. e0.receipt \in Outstanding'  BY <1>3, <1>10
    <2> QED  BY <1>1, <2>1, <2>2, <2>3 DEF Reported, InWindow
  <1>12. CountsInv'  BY <1>1, <1>11 DEF CountsInv
  <1> QED  BY <1>6, <1>9, <1>12

\* The image changes under the feed's lock; the callback is still on its way.
LEMMA UpdateKeeps ==
    ASSUME MeasuredInv, ReceiptsInv, CountsInv, NEW c \in Cameras, Update(c)
    PROVE  /\ MeasuredInv' /\ ReceiptsInv' /\ CountsInv'
           /\ feeds["front"].image # NoImage => feeds'["front"].image # NoImage
  <1> DEFINE role == RoleOf(c)
             image == callbacks[c].image
             feed == [feeds[role] EXCEPT !.image = image, !.count = @ + 1]
             busy == [callbacks[c] EXCEPT !.at = "updated"]
  <1>1. /\ callbacks[c].at = "received" /\ role \in Roles
        /\ UNCHANGED <<reading, listening, times, loops, view, receipts>>
    BY DEF Update, RoleOf, Roles
  <1>2. callbacks[c] \in [at : {"idle", "received", "updated"}, image : Images]  BY DEF MeasuredInv
  <1>3. /\ busy \in [at : {"idle", "received", "updated"}, image : Images]
        /\ busy.at = "updated" /\ busy.image = image /\ busy # Quiet /\ callbacks[c] # Quiet
    BY <1>1, <1>2 DEF Quiet
  <1>4. callbacks' = [callbacks EXCEPT ![c] = busy]  BY <1>1, <1>2 DEF Update, MeasuredInv
  <1>5. \A d \in Cameras : callbacks'[d] = IF d = c THEN busy ELSE callbacks[d]
    BY <1>4 DEF MeasuredInv
  <1>6. /\ \A d \in Cameras : callbacks'[d] # Quiet <=> callbacks[d] # Quiet
        /\ \A d \in Cameras : callbacks'[d].image = callbacks[d].image
    BY <1>3, <1>5
  <1>7. feeds' = [feeds EXCEPT ![role] = feed]  BY <1>1 DEF Update, MeasuredInv
  <1>8. feeds[role] \in [camera : Nat, image : Images, count : Nat] /\ image \in Images
    BY <1>1, <1>2 DEF MeasuredInv
  <1>9. feed \in [camera : Nat, image : Images, count : Nat] /\ feed.image = image
    <2> DEFINE old == feeds[role]
    <2>1. old \in [camera : Nat, image : Images, count : Nat]  BY <1>8
    <2>2. old.count + 1 \in Nat  BY <2>1
    <2> HIDE DEF image, old
    <2>3. LET new == [old EXCEPT !.image = image, !.count = old.count + 1]
          IN  new \in [camera : Nat, image : Images, count : Nat] /\ new.image = image
      BY <1>8, <2>1, <2>2
    <2> QED  BY <2>3 DEF old
  <1>10. image # NoImage
    <2>1. [role |-> RoleOf(c), receipt |-> image.receipt] \in receipts  BY <1>3 DEF ReceiptsInv
    <2>2. 0 < image.receipt  BY <2>1 DEF ReceiptsInv
    <2> QED  BY <2>2 DEF NoImage
  <1>11. feeds["front"].image # NoImage => feeds'["front"].image # NoImage
    <2> HIDE DEF feed, role, image
    <2> QED  BY <1>1, <1>7, <1>9, <1>10 DEF MeasuredInv, Roles
  <1> HIDE DEF feed, role, busy, image
  <1>12. MeasuredInv'  BY <1>1, <1>3, <1>4, <1>7, <1>9 DEF MeasuredInv
  <1>13. ReceiptsInv'
    <2>1. \A d \in Cameras : callbacks'[d] # Quiet =>
             callbacks'[d].at \in {"received", "updated"}
      BY <1>3, <1>5 DEF ReceiptsInv
    <2> QED  BY <1>1, <1>6, <2>1 DEF ReceiptsInv
  <1>14. CountsInv'
    <2>1. Outstanding' = Outstanding  BY <1>6 DEF Outstanding
    <2>2. \A e \in receipts : InWindow(e.receipt)' <=> InWindow(e.receipt)  BY <1>1 DEF InWindow
    <2>3. \A r \in Roles : Reported(r)' = Reported(r)  BY <1>1, <2>1, <2>2 DEF Reported, InWindow
    <2> QED  BY <1>1, <2>3 DEF CountsInv
  <1> QED  BY <1>11, <1>12, <1>13, <1>14

\* A callback that reports is counted once, by its role, if the window held its receipt.
LEMMA ReportKeeps ==
    ASSUME MeasuredInv, ReceiptsInv, CountsInv, NEW c \in Cameras, ReportCallback(c)
    PROVE  /\ MeasuredInv' /\ ReceiptsInv' /\ CountsInv'
           /\ times' \in Measurements
           /\ times'.start = times.start /\ times'.end = times.end
           /\ times'.frozen = times.frozen /\ times'.pending = times.pending
           /\ times'.loops = times.loops /\ times'.slowest = times.slowest
  <1> DEFINE role == RoleOf(c)
             x == callbacks[c].image.receipt
             e0 == [role |-> role, receipt |-> x]
             counted == [times.counts EXCEPT ![role] = @ + 1]
  <1>1. /\ callbacks[c].at = "updated" /\ role \in Roles
        /\ callbacks' = [callbacks EXCEPT ![c] = Quiet]
        /\ times' = IF InWindow(x) THEN [times EXCEPT !.counts = counted] ELSE times
        /\ UNCHANGED <<reading, feeds, listening, loops, view, receipts>>
    BY DEF ReportCallback, RoleOf, Roles
  <1>2. callbacks[c] # Quiet  BY <1>1 DEF Quiet
  <1>3. Quiet \in [at : {"idle", "received", "updated"}, image : Images]
    BY DEF Quiet, Images, NoImage
  <1>4. counted \in [Roles -> Nat] /\ counted[role] = times.counts[role] + 1
        /\ \A r \in Roles : r # role => counted[r] = times.counts[r]
    BY <1>1 DEF MeasuredInv, Measurements
  <1>5. \A d \in Cameras : callbacks'[d] = IF d = c THEN Quiet ELSE callbacks[d]
    BY <1>1 DEF MeasuredInv
  <1> HIDE DEF counted
  <1>6. /\ times' \in Measurements
        /\ times'.start = times.start /\ times'.end = times.end
        /\ times'.frozen = times.frozen /\ times'.pending = times.pending
        /\ times'.loops = times.loops /\ times'.slowest = times.slowest
        /\ times'.counts = IF InWindow(x) THEN counted ELSE times.counts
    BY <1>1, <1>4 DEF MeasuredInv, Measurements
  <1>7. MeasuredInv'  BY <1>1, <1>3, <1>6 DEF MeasuredInv
  <1>8. e0 \in receipts /\ e0.role = role /\ e0.receipt = x  BY <1>2 DEF ReceiptsInv
  <1> HIDE DEF e0, x
  <1>9. ReceiptsInv'  BY <1>1, <1>5 DEF ReceiptsInv
  <1>10. Outstanding' = Outstanding \ {x}
    <2>1. \A d \in Cameras : callbacks'[d] # Quiet <=> d # c /\ callbacks[d] # Quiet  BY <1>5
    <2>2. \A d \in Cameras : d # c => callbacks'[d].image.receipt = callbacks[d].image.receipt
      BY <1>5
    <2>3. \A d \in Cameras : d # c /\ callbacks[d] # Quiet => callbacks[d].image.receipt # x
      BY <1>2 DEF ReceiptsInv, x
    <2> QED  BY <2>1, <2>2, <2>3 DEF Outstanding, x
  <1>11. x \in Outstanding  BY <1>2 DEF Outstanding, x
  <1>12. ASSUME NEW r \in Roles
         PROVE  Reported(r)' = IF r = role /\ InWindow(x) THEN Reported(r) \cup {e0}
                               ELSE Reported(r)
    <2>1. \A e \in receipts : InWindow(e.receipt)' <=> InWindow(e.receipt)  BY <1>6 DEF InWindow
    <2>2. \A e \in receipts : e # e0 => e.receipt # x  BY <1>8 DEF ReceiptsInv
    <2>3. Reported(r)' = {e \in receipts : e.role = r /\ InWindow(e.receipt)
                                             /\ e.receipt \notin Outstanding'}
      BY <1>1, <2>1 DEF Reported, InWindow
    <2> QED  BY <1>8, <1>10, <1>11, <2>2, <2>3 DEF Reported
  <1>13. \A r \in Roles : IsFiniteSet(Reported(r)) /\ e0 \notin Reported(r)
    BY <1>8, <1>11, FS_Subset DEF Reported, ReceiptsInv
  <1>14. CountsInv'
    <2> SUFFICES ASSUME times.start # 0, NEW r \in Roles
                 PROVE  times'.counts[r] = Cardinality(Reported(r)')
      BY <1>6 DEF CountsInv
    <2>1. times.counts[r] = Cardinality(Reported(r))  BY DEF CountsInv
    <2>2. Cardinality(Reported(r) \cup {e0}) = Cardinality(Reported(r)) + 1  BY <1>13, FS_AddElement
    <2> QED  BY <1>4, <1>6, <1>12, <2>1, <2>2
  <1> QED  BY <1>6, <1>7, <1>9, <1>14

\* The callbacks of the cameras keep the invariant of the view.
LEMMA CallbackStep ==
    ASSUME ViewInv, NEW c \in Cameras, Receive(c) \/ Update(c) \/ ReportCallback(c)
    PROVE  ViewInv'
  <1> USE DEF ViewInv
  <1>1. CASE Receive(c)
    <2>1. MeasuredInv' /\ ReceiptsInv' /\ CountsInv'  BY <1>1, ReceiveKeeps
    <2>2. UNCHANGED <<feeds, times, loops, view>>  BY <1>1 DEF Receive
    <2>3. WindowInv'  BY <2>2 DEF WindowInv
    <2>4. IterationsInv'  BY <2>2 DEF IterationsInv
    <2>5. ShownInv'  BY <2>2 DEF ShownInv, ShownIsDrawn
    <2> QED  BY <2>1, <2>3, <2>4, <2>5
  <1>2. CASE Update(c)
    <2>1. /\ MeasuredInv' /\ ReceiptsInv' /\ CountsInv'
          /\ feeds["front"].image # NoImage => feeds'["front"].image # NoImage
      BY <1>2, UpdateKeeps
    <2>2. UNCHANGED <<times, loops, view>>  BY <1>2 DEF Update
    <2>3. WindowInv'  BY <2>2 DEF WindowInv
    <2>4. IterationsInv'  BY <2>2 DEF IterationsInv
    <2>5. ShownInv'  BY <2>1, <2>2 DEF ShownInv, ShownIsDrawn
    <2> QED  BY <2>1, <2>3, <2>4, <2>5
  <1>3. CASE ReportCallback(c)
    <2>1. /\ MeasuredInv' /\ ReceiptsInv' /\ CountsInv'
          /\ times'.start = times.start /\ times'.end = times.end
          /\ times'.frozen = times.frozen /\ times'.pending = times.pending
          /\ times'.loops = times.loops /\ times'.slowest = times.slowest
      BY <1>3, ReportKeeps
    <2>2. UNCHANGED <<feeds, loops, view>>  BY <1>3 DEF ReportCallback
    <2>3. WindowInv'  BY <2>1, <2>2 DEF WindowInv
    <2>4. IterationsInv'  BY <2>1, <2>2 DEF IterationsInv
    <2>5. ShownInv'  BY <2>2 DEF ShownInv, ShownIsDrawn
    <2> QED  BY <2>1, <2>3, <2>4, <2>5
  <1> QED  BY <1>1, <1>2, <1>3

\* Within an iteration the window stands still and the spans are the iteration's own.
LEMMA IterationRuns ==
    ASSUME ViewInv, UNCHANGED <<reading, callbacks, loops, receipts>>,
           feeds' \in [Roles -> [camera : Nat, image : Images, count : Nat]],
           feeds'["front"].image = feeds["front"].image,
           times' \in Measurements, view' \in Views,
           times'.start = times.start, times'.end = times.end,
           times'.frozen = times.frozen, times'.counts = times.counts,
           times'.loops = times.loops, times'.slowest = times.slowest,
           times'.pending.open = times.pending.open,
           times'.pending.of \subseteq times.pending.of \cup {view.iteration},
           times.frozen => times'.pending = times.pending,
           view.stage \in Iterating,
           view'.stage \in Iterating \cup {"top", "failed"},
           view'.stage = "failed" => view.way = "continuation",
           view'.way = view.way, view'.iteration = view.iteration,
           view'.capture = view.capture, ShownInv'
    PROVE  ViewInv'
  <1>1. MeasuredInv'  BY DEF ViewInv, MeasuredInv
  <1>2. ReceiptsInv'  BY ReceiptsRest DEF ViewInv, MeasuredInv
  <1>3. CountsInv'  BY CountsRest DEF ViewInv
  <1>4. WindowInv'  BY DEF ViewInv, WindowInv, Iterating
  <1>5. IterationsInv'  BY DEF ViewInv, IterationsInv, Iterating
  <1> QED  BY <1>1, <1>2, <1>3, <1>4, <1>5 DEF ViewInv

\* Every step within an iteration keeps the invariant, also one that raises.
LEMMA IterationStep ==
    ASSUME ViewInv,
           \/ Handle \/ ChangeView \/ Snapshot \/ Blit \/ Mirror \/ Flip
           \/ \E spawning \in BOOLEAN : Raises(spawning)
    PROVE  ViewInv'
  <1> DEFINE Feeds == [Roles -> [camera : Nat, image : Images, count : Nat]]
  <1>0. /\ view \in Views /\ times \in Measurements /\ loops \in Counters /\ feeds \in Feeds
        /\ feeds["front"].image \in Images /\ feeds["left"].image \in Images
        /\ NoImage \in Images /\ "front" \in Roles /\ "left" \in Roles
    BY DEF ViewInv, MeasuredInv, NoImage, Images, Roles
  <1>s. /\ Spanned(times) \in Measurements
        /\ Spanned(times).start = times.start /\ Spanned(times).end = times.end
        /\ Spanned(times).frozen = times.frozen /\ Spanned(times).counts = times.counts
        /\ Spanned(times).loops = times.loops /\ Spanned(times).slowest = times.slowest
        /\ Spanned(times).pending.open = times.pending.open
        /\ Spanned(times).pending.of \subseteq times.pending.of \cup {view.iteration}
        /\ times.frozen => Spanned(times).pending = times.pending
    BY <1>0, SpannedFields DEF ViewInv
  <1>i. ShownInv  BY DEF ViewInv
  <1>1. CASE Handle
    <2>1. /\ view' = [view EXCEPT !.stage = "control"] /\ times' = Spanned(times)
          /\ view.stage = "events" /\ UNCHANGED <<reading, feeds, callbacks, loops, receipts>>
      BY <1>1 DEF Handle
    <2>2. /\ view' \in Views /\ view'.stage = "control" /\ view'.way = view.way
          /\ view'.iteration = view.iteration /\ view'.capture = view.capture
          /\ view'.canvas = view.canvas
      BY <1>0, <2>1 DEF Views, Iterating
    <2>3. ShownInv'  BY <1>i, <2>1, <2>2 DEF ShownInv, ShownIsDrawn
    <2> QED  BY <1>0, <1>s, <2>1, <2>2, <2>3, IterationRuns DEF Iterating
  <1>2. CASE ChangeView
    <2>1. /\ view' = [view EXCEPT !.stage = "control"] /\ times' = Spanned(times)
          /\ feeds' = [feeds EXCEPT !["front"].camera = Replacement]
          /\ view.stage = "events" /\ UNCHANGED <<reading, callbacks, loops, receipts>>
      BY <1>2 DEF ChangeView
    <2>2. /\ view' \in Views /\ view'.stage = "control" /\ view'.way = view.way
          /\ view'.iteration = view.iteration /\ view'.capture = view.capture
          /\ view'.canvas = view.canvas
      BY <1>0, <2>1 DEF Views, Iterating
    <2>3. Replacement \in Nat  BY <1>0 DEF Replacement
    <2>4. feeds' \in Feeds /\ feeds'["front"].image = feeds["front"].image  BY <1>0, <2>1, <2>3
    <2>5. ShownInv'  BY <1>i, <2>2, <2>4 DEF ShownInv, ShownIsDrawn
    <2> QED  BY <1>0, <1>s, <2>1, <2>2, <2>4, <2>5, IterationRuns DEF Iterating
  <1>3. CASE Snapshot
    <2>1. /\ view' = [view EXCEPT !.stage = "blit", !.snapshot = feeds["front"].image,
                        !.remembered = IF view.capture THEN NoImage ELSE view.remembered]
          /\ times' = Prepared(Spanned(times), "front", feeds["front"].image)
          /\ view.stage = "control" /\ UNCHANGED <<reading, feeds, callbacks, loops, receipts>>
      BY <1>3, <1>0 DEF Snapshot, Views
    <2>2. /\ view' \in Views /\ view'.stage = "blit" /\ view'.way = view.way
          /\ view'.iteration = view.iteration /\ view'.capture = view.capture
          /\ view'.canvas = view.canvas /\ view'.snapshot = feeds["front"].image
          /\ view.capture => view'.remembered = NoImage
      BY <1>0, <2>1 DEF Views, Iterating
    <2>3. ShownInv'  BY <1>i, <2>1, <2>2 DEF ShownInv, ShownIsDrawn
    <2>4. /\ times' \in Measurements
          /\ times'.start = times.start /\ times'.end = times.end
          /\ times'.frozen = times.frozen /\ times'.counts = times.counts
          /\ times'.loops = times.loops /\ times'.slowest = times.slowest
          /\ times'.pending = Spanned(times).pending
      BY <1>0, <1>s, <2>1, PreparedFields
    <2> QED  BY <1>0, <1>s, <2>1, <2>2, <2>3, <2>4, IterationRuns DEF Iterating
  <1>4. CASE Blit
    <2>1. /\ view' = [view EXCEPT !.stage = "mirror",
                        !.canvas = IF view.snapshot = NoImage THEN view.canvas ELSE view.snapshot,
                        !.remembered = IF view.capture /\ view.snapshot # NoImage
                                       THEN view.snapshot ELSE view.remembered]
          /\ times' = Spanned(times)
          /\ view.stage = "blit" /\ UNCHANGED <<reading, feeds, callbacks, loops, receipts>>
      BY <1>4, <1>0 DEF Blit, Views, RememberedFront
    <2>2. /\ view' \in Views /\ view'.stage = "mirror" /\ view'.way = view.way
          /\ view'.iteration = view.iteration /\ view'.capture = view.capture
          /\ view'.canvas = IF view.snapshot = NoImage THEN view.canvas ELSE view.snapshot
          /\ view'.remembered = IF view.capture /\ view.snapshot # NoImage
                                THEN view.snapshot ELSE view.remembered
      BY <1>0, <2>1 DEF Views, Iterating
    <2>3. ShownInv'  BY <1>i, <2>1, <2>2 DEF ShownInv, ShownIsDrawn
    <2> QED  BY <1>0, <1>s, <2>1, <2>2, <2>3, IterationRuns DEF Iterating
  <1>5. CASE Mirror
    <2>1. /\ view' = [view EXCEPT !.stage = "flip", !.remembered = view.remembered]
          /\ times' = Prepared(Spanned(times), "left", feeds["left"].image)
          /\ view.stage = "mirror" /\ UNCHANGED <<reading, feeds, callbacks, loops, receipts>>
      BY <1>5, <1>0 DEF Mirror, Views, RememberedFront
    <2>2. /\ view' \in Views /\ view'.stage = "flip" /\ view'.way = view.way
          /\ view'.iteration = view.iteration /\ view'.capture = view.capture
          /\ view'.canvas = view.canvas /\ view'.remembered = view.remembered
      BY <1>0, <2>1 DEF Views, Iterating
    <2>3. ShownInv'  BY <1>i, <2>1, <2>2 DEF ShownInv, ShownIsDrawn
    <2>4. /\ times' \in Measurements
          /\ times'.start = times.start /\ times'.end = times.end
          /\ times'.frozen = times.frozen /\ times'.counts = times.counts
          /\ times'.loops = times.loops /\ times'.slowest = times.slowest
          /\ times'.pending = Spanned(times).pending
      BY <1>0, <1>s, <2>1, PreparedFields
    <2> QED  BY <1>0, <1>s, <2>1, <2>2, <2>3, <2>4, IterationRuns DEF Iterating
  <1>6. CASE Flip
    <2>1. /\ view' = [view EXCEPT !.stage = "tick",
                        !.shown = IF view.capture THEN view.remembered ELSE view.shown]
          /\ times' = Spanned(times)
          /\ view.stage = "flip" /\ UNCHANGED <<reading, feeds, callbacks, loops, receipts>>
      BY <1>6, <1>0 DEF Flip, Views
    <2>2. /\ view' \in Views /\ view'.stage = "tick" /\ view'.way = view.way
          /\ view'.iteration = view.iteration /\ view'.capture = view.capture
          /\ view'.canvas = view.canvas
          /\ view.capture => view'.shown = view.remembered
      BY <1>0, <2>1 DEF Views, Iterating
    <2>3. ShownInv'  BY <1>i, <2>1, <2>2 DEF ShownInv, ShownIsDrawn
    <2> QED  BY <1>0, <1>s, <2>1, <2>2, <2>3, IterationRuns DEF Iterating
  <1>7. CASE \E spawning \in BOOLEAN : Raises(spawning)
    <2>1. /\ view' = [view EXCEPT !.raises = view.raises + 1,
                        !.stage = IF view.way = "scene" THEN "top" ELSE "failed"]
          /\ times' = Spanned(times)
          /\ view.stage \in Iterating /\ UNCHANGED <<reading, feeds, callbacks, loops, receipts>>
      BY <1>7, <1>0 DEF Raises, Views, Iterating
    <2>2. /\ view' \in Views /\ view'.way = view.way
          /\ view'.stage = IF view.way = "scene" THEN "top" ELSE "failed"
          /\ view'.iteration = view.iteration /\ view'.capture = view.capture
          /\ view'.canvas = view.canvas
      <3> DEFINE next == IF view.way = "scene" THEN "top" ELSE "failed"
                 raises == view.raises + 1
      <3>1. next \in {"top", "failed"} /\ raises \in Nat  BY <1>0 DEF Views
      <3>2. view' = [view EXCEPT !.raises = raises, !.stage = next]  BY <2>1
      <3> HIDE DEF next, raises
      <3>3. /\ view' \in Views /\ view'.way = view.way /\ view'.stage = next
            /\ view'.iteration = view.iteration /\ view'.capture = view.capture
            /\ view'.canvas = view.canvas
        BY <1>0, <3>1, <3>2 DEF Views
      <3> QED  BY <3>3 DEF next
    <2>3. ShownInv'  BY <1>i, <2>1, <2>2 DEF ShownInv, ShownIsDrawn
    <2> QED  BY <1>0, <1>s, <2>1, <2>2, <2>3, IterationRuns DEF Views
  <1> QED  BY <1>1, <1>2, <1>3, <1>4, <1>5, <1>6, <1>7

\* An iteration that is over is counted by both diagnostics or by neither.
LEMMA IterationEnds ==
    ASSUME ViewInv, NEW length \in Nat, view.stage \in Iterating,
           times' = LoopRecorded(Spanned(times), length), loops' = LoopCompleted(loops),
           UNCHANGED <<reading, feeds, callbacks, receipts>>,
           \/ view' = [view EXCEPT !.stage = "top"]
           \/ view' = [view EXCEPT !.stage = "freeze"] /\ view.way = "scene"
    PROVE  ViewInv'
  <1> DEFINE u == Spanned(times)
  <1>0. view \in Views /\ times \in Measurements /\ loops \in Counters  BY DEF ViewInv, MeasuredInv
  <1>1. /\ u \in Measurements /\ u.start = times.start /\ u.end = times.end
        /\ u.frozen = times.frozen /\ u.counts = times.counts
        /\ u.loops = times.loops /\ u.slowest = times.slowest
        /\ u.pending.open = times.pending.open
        /\ u.pending.of \subseteq times.pending.of \cup {view.iteration}
        /\ times.frozen => u = times
    BY <1>0, SpannedFields DEF ViewInv
  <1> HIDE DEF u
  <1>2. /\ times' \in Measurements
        /\ times'.start = times.start /\ times'.end = times.end
        /\ times'.frozen = times.frozen /\ times'.counts = times.counts
        /\ IF times.frozen \/ ~times.pending.open THEN times' = u
           ELSE /\ times'.loops = times.loops + 1 /\ times'.pending = NoLoop
                /\ times'.slowest.of \in {times.slowest.of, u.pending.of}
    BY <1>1, RecordedFields DEF u
  <1>3. /\ loops' \in Counters /\ loops'.frozen = loops.frozen
        /\ loops'.count = IF loops.frozen \/ ~loops.started THEN loops.count
                          ELSE loops.count + 1
    <2>1. loops.count + 1 \in Nat  BY <1>0 DEF Counters
    <2>2. \/ loops' = loops /\ (loops.frozen \/ ~loops.started)
          \/ /\ loops' = [loops EXCEPT !.started = FALSE, !.count = loops.count + 1]
             /\ ~(loops.frozen \/ ~loops.started)
      BY DEF LoopCompleted
    <2> QED  BY <1>0, <2>1, <2>2 DEF Counters
  <1>4. /\ view' \in Views /\ view'.way = view.way /\ view'.iteration = view.iteration
        /\ view'.capture = view.capture /\ view'.canvas = view.canvas
        /\ view'.stage \in {"top", "freeze"}
        /\ view'.stage = "freeze" => view.way = "scene"
    BY <1>0 DEF Views
  <1>5. MeasuredInv'  BY <1>2, <1>3, <1>4 DEF ViewInv, MeasuredInv
  <1>6. ReceiptsInv'  BY ReceiptsRest DEF ViewInv, MeasuredInv
  <1>7. CountsInv'  BY <1>2, CountsRest DEF ViewInv
  <1>8. WindowInv'  BY <1>2, <1>4 DEF ViewInv, WindowInv, Iterating
  <1>9. IterationsInv'
    <2>1. view.iteration \in Nat  BY <1>0 DEF Views
    <2>2. CASE times.frozen
      <3>1. times' = times /\ loops'.count = loops.count
        BY <1>1, <1>2, <1>3, <2>2 DEF ViewInv, IterationsInv
      <3> QED  BY <1>2, <1>3, <1>4, <2>2, <3>1 DEF ViewInv, IterationsInv, Iterating
    <2>3. CASE ~times.frozen
      <3>1. /\ times'.loops = times.loops + 1 /\ times'.pending = NoLoop
            /\ times'.slowest.of \in {times.slowest.of, u.pending.of}
            /\ loops'.count = loops.count + 1
        BY <1>2, <1>3, <2>3 DEF ViewInv, IterationsInv
      <3>2. u.pending.of \subseteq {view.iteration}  BY <1>1 DEF ViewInv, IterationsInv
      <3>3. \E i \in Nat : times'.slowest.of \subseteq {i}
        BY <2>1, <3>1, <3>2 DEF ViewInv, IterationsInv
      <3> QED  BY <1>2, <1>3, <1>4, <2>3, <3>1, <3>3 DEF ViewInv, IterationsInv, Iterating, NoLoop
    <2> QED  BY <2>2, <2>3
  <1>10. ShownInv'  BY <1>4 DEF ViewInv, ShownInv, ShownIsDrawn
  <1> QED  BY <1>5, <1>6, <1>7, <1>8, <1>9, <1>10 DEF ViewInv

\* The window begins after every receipt and counts from nothing.
LEMMA RunKeeps ==
    ASSUME ViewInv, Run
    PROVE  ViewInv'
  <1> DEFINE zero == [r \in Roles |-> 0]
  <1>0. /\ view \in Views /\ times \in Measurements /\ loops \in Counters /\ reading \in Nat
        /\ view.stage = "attached" /\ reading' = reading + 1
        /\ UNCHANGED <<feeds, callbacks, listening, loops, receipts>>
    BY DEF ViewInv, MeasuredInv, Run
  <1>1. /\ view' \in Views /\ view'.stage = "top" /\ view'.way = view.way
        /\ view'.iteration = view.iteration /\ view'.canvas = view.canvas
    <2> DEFINE capture == view.way = "scene"
    <2>1. capture \in BOOLEAN  OBVIOUS
    <2>2. view' = [view EXCEPT !.stage = "top", !.capture = capture]  BY DEF Run
    <2> HIDE DEF capture
    <2> QED  BY <1>0, <2>1, <2>2 DEF Views
  <1>2. /\ times' \in Measurements /\ times'.start = reading + 1 /\ times'.end = 0
        /\ times'.frozen = times.frozen /\ times'.counts = zero /\ times'.pending = NoLoop
        /\ times'.loops = 0 /\ times'.slowest.of = {}
    <2> DEFINE none == [length |-> 0, of |-> {}]
    <2>1. /\ zero \in [Roles -> Nat] /\ NoLoop \in [open : BOOLEAN, of : SUBSET Nat]
          /\ none \in [length : Nat, of : SUBSET Nat] /\ none.of = {} /\ reading + 1 \in Nat
      BY <1>0 DEF NoLoop
    <2>2. times' = [times EXCEPT !.start = reading + 1, !.end = 0, !.status = "PARTIAL",
                      !.counts = zero, !.pending = NoLoop, !.loops = 0, !.slowest = none]
      BY <1>0 DEF Run
    <2> HIDE DEF zero, none
    <2>3. times' \in Measurements  BY <1>0, <2>1, <2>2 DEF Measurements
    <2>4. /\ times'.start = reading + 1 /\ times'.end = 0
          /\ times'.frozen = times.frozen /\ times'.counts = zero /\ times'.pending = NoLoop
          /\ times'.loops = 0 /\ times'.slowest = none
      BY <1>0, <2>2 DEF Measurements
    <2> QED  BY <2>1, <2>3, <2>4
  <1>3. MeasuredInv'  BY <1>0, <1>1, <1>2 DEF ViewInv, MeasuredInv
  <1>4. ReceiptsInv'  BY <1>0, ReceiptsRest DEF ViewInv
  <1>5. CountsInv'
    <2>1. \A e \in receipts : e.receipt \in Nat /\ e.receipt <= reading  BY DEF ViewInv, ReceiptsInv
    <2>2. \A e \in receipts : ~InWindow(e.receipt)'  BY <1>0, <1>2, <2>1 DEF InWindow
    <2>3. \A r \in Roles : Reported(r)' = {}  BY <1>0, <2>2 DEF Reported, InWindow
    <2> QED  BY <1>2, <2>3, FS_EmptySet DEF CountsInv
  <1>6. WindowInv'  BY <1>0, <1>1, <1>2 DEF ViewInv, WindowInv
  <1>7. IterationsInv'
    <2>1. times'.slowest.of \subseteq {0}  BY <1>2
    <2>2. times'.pending.of \subseteq {view'.iteration}  BY <1>2 DEF NoLoop
    <2>3. ~loops.frozen /\ loops.count = 0 /\ ~times.frozen
      BY <1>0 DEF ViewInv, IterationsInv, WindowInv
    <2>4. ~times'.frozen /\ times'.loops = loops'.count /\ ~loops'.frozen  BY <1>0, <1>2, <2>3
    <2>5. loops'.frozen = times'.frozen  BY <1>0, <1>2, <2>4 DEF Counters, Measurements
    <2>6. \E i \in Nat : times'.slowest.of \subseteq {i}  BY <2>1
    <2> QED  BY <1>1, <2>2, <2>4, <2>5, <2>6 DEF IterationsInv, Iterating
  <1>8. ShownInv'  BY <1>0, <1>1 DEF ViewInv, ShownInv, ShownIsDrawn
  <1> QED  BY <1>3, <1>4, <1>5, <1>6, <1>7, <1>8 DEF ViewInv

\* Between two iterations nothing is counted; a new one starts its own spans.
LEMMA TopKeeps ==
    ASSUME ViewInv, EndModule \/ Begin \/ Break
    PROVE  ViewInv'
  <1>0. view \in Views /\ times \in Measurements /\ loops \in Counters /\ reading \in Nat
    BY DEF ViewInv, MeasuredInv
  <1>1. CASE EndModule \/ Break
    <2>1. /\ loops' \in Counters /\ loops'.count = loops.count
          /\ UNCHANGED <<reading, feeds, callbacks, times, receipts>>
      BY <1>0, <1>1 DEF EndModule, Break, Counters
    <2>2. /\ view' \in Views /\ view'.way = view.way /\ view'.iteration = view.iteration
          /\ view'.capture = view.capture /\ view'.canvas = view.canvas
          /\ view.stage \in {"top", "events"} /\ view'.stage \in {"freeze", "leave"}
          /\ view'.stage = "freeze" => ~view.capture
      BY <1>0, <1>1 DEF EndModule, Break, Views
    <2>3. MeasuredInv'  BY <2>1, <2>2 DEF ViewInv, MeasuredInv
    <2>4. ReceiptsInv'  BY <1>0, <2>1, ReceiptsRest DEF ViewInv
    <2>5. CountsInv'  BY <2>1, CountsRest DEF ViewInv
    <2>6. WindowInv'  BY <2>1, <2>2 DEF ViewInv, WindowInv
    <2>7. IterationsInv'  BY <2>1, <2>2 DEF ViewInv, IterationsInv, Iterating
    <2>8. ShownInv'  BY <2>1, <2>2 DEF ViewInv, ShownInv, ShownIsDrawn
    <2> QED  BY <2>3, <2>4, <2>5, <2>6, <2>7, <2>8 DEF ViewInv
  <1>2. CASE Begin
    <2>1. UNCHANGED <<reading, feeds, callbacks, receipts>> /\ view.stage = "top"  BY <1>2 DEF Begin
    <2>2. /\ loops' \in Counters /\ loops'.count = loops.count /\ loops'.frozen = loops.frozen
          /\ ~loops.frozen => loops'.started
      BY <1>0, <1>2 DEF Begin, LoopBegun, Counters
    <2>3. /\ view' \in Views /\ view'.stage = "events" /\ view'.way = view.way
          /\ view'.iteration = view.iteration + 1
          /\ view'.capture = view.capture /\ view'.canvas = view.canvas
      <3>1. view.iteration + 1 \in Nat  BY <1>0 DEF Views
      <3>2. view' = [view EXCEPT !.stage = "events", !.iteration = view.iteration + 1]
        BY <1>0, <1>2 DEF Begin, Views
      <3> QED  BY <1>0, <3>1, <3>2 DEF Views, Iterating
    <2>4. /\ times' \in Measurements
          /\ times'.start = times.start /\ times'.end = times.end
          /\ times'.frozen = times.frozen /\ times'.counts = times.counts
          /\ times'.loops = times.loops /\ times'.slowest = times.slowest
          /\ IF ~times.frozen /\ times.start # 0 /\ times.end = 0
             THEN times'.pending = [open |-> TRUE, of |-> {}]
             ELSE times' = times
      BY <1>0, <1>2, FollowedFields DEF Begin
    <2>5. MeasuredInv'  BY <2>1, <2>2, <2>3, <2>4 DEF ViewInv, MeasuredInv
    <2>6. ReceiptsInv'  BY <1>0, <2>1, ReceiptsRest DEF ViewInv
    <2>7. CountsInv'  BY <2>1, <2>4, CountsRest DEF ViewInv
    <2>8. WindowInv'  BY <2>1, <2>3, <2>4 DEF ViewInv, WindowInv
    <2>9. IterationsInv'
      <3>1. times.frozen => times' = times /\ times.pending.of = {}
        BY <2>4 DEF ViewInv, IterationsInv, NoLoop
      <3>2. ~times.frozen => times'.pending.open /\ times'.pending.of = {}
        BY <2>1, <2>4 DEF ViewInv, WindowInv
      <3>3. times'.pending.of = {}  BY <3>1, <3>2
      <3> QED  BY <2>1, <2>2, <2>3, <2>4, <3>1, <3>2, <3>3 DEF ViewInv, IterationsInv, Iterating
    <2>10. ShownInv'  BY <2>1, <2>3 DEF ViewInv, ShownInv, ShownIsDrawn
    <2> QED  BY <2>5, <2>6, <2>7, <2>8, <2>9, <2>10 DEF ViewInv
  <1> QED  BY <1>1, <1>2

\* The window ends after every receipt, once, and then nothing is measured.
LEMMA WindowEnds ==
    ASSUME ViewInv, Freeze \/ Frozen \/ Leave \/ \E r \in Roles : KeepFeed(r)
    PROVE  ViewInv'
  <1>0. /\ view \in Views /\ times \in Measurements /\ loops \in Counters
        /\ reading \in Nat /\ reading + 1 \in Nat /\ NoImage \in Images
        /\ NoLoop \in [open : BOOLEAN, of : SUBSET Nat] /\ NoLoop.of = {}
        /\ feeds \in [Roles -> [camera : Nat, image : Images, count : Nat]]
    BY DEF ViewInv, MeasuredInv, NoImage, Images, NoLoop
  <1>r. \A e \in receipts : e.receipt \in Nat /\ e.receipt <= reading  BY DEF ViewInv, ReceiptsInv
  \* an end that comes after every receipt takes none of them out of the window
  <1>c. ASSUME UNCHANGED <<callbacks, receipts>>, times'.start = times.start,
               times'.counts = times.counts, times.end = 0, times'.end = reading + 1
        PROVE  CountsInv'
    <2>1. Outstanding' = Outstanding  BY <1>c DEF Outstanding
    <2>2. \A e \in receipts : InWindow(e.receipt)' <=> InWindow(e.receipt)
      BY <1>0, <1>r, <1>c DEF InWindow
    <2>3. \A r \in Roles : Reported(r)' = Reported(r)  BY <1>c, <2>1, <2>2 DEF Reported, InWindow
    <2> QED  BY <1>c, <2>3 DEF CountsInv, ViewInv
  <1>1. CASE Freeze
    <2>1. /\ view' \in Views /\ view.stage = "freeze" /\ view'.stage = "frozen"
          /\ view'.way = view.way /\ view'.iteration = view.iteration
          /\ view'.capture = view.capture /\ view'.canvas = view.canvas
      BY <1>0, <1>1 DEF Freeze, Views
    <2>2. /\ times' \in Measurements /\ times'.start = times.start /\ times'.end = reading + 1
          /\ times'.frozen = times.frozen /\ times'.counts = times.counts
          /\ times'.pending = times.pending
          /\ times'.loops = times.loops /\ times'.slowest = times.slowest
      BY <1>0, <1>1 DEF Freeze, Measurements
    <2>3. UNCHANGED <<feeds, callbacks, loops, receipts>> /\ reading' = reading + 1
      BY <1>1 DEF Freeze
    <2>4. MeasuredInv'  BY <1>0, <2>1, <2>2, <2>3 DEF ViewInv, MeasuredInv
    <2>5. ReceiptsInv'  BY <1>0, <2>3, ReceiptsRest DEF ViewInv
    <2>6. CountsInv'  BY <1>c, <2>1, <2>2, <2>3 DEF ViewInv, WindowInv
    <2>7. WindowInv'  BY <2>1, <2>2 DEF ViewInv, WindowInv
    <2>8. IterationsInv'  BY <2>1, <2>2, <2>3 DEF ViewInv, IterationsInv, Iterating
    <2>9. ShownInv'  BY <2>1, <2>3 DEF ViewInv, ShownInv, ShownIsDrawn
    <2> QED  BY <2>4, <2>5, <2>6, <2>7, <2>8, <2>9 DEF ViewInv
  <1>2. ASSUME NEW r \in Roles, KeepFeed(r)  PROVE ViewInv'
    <2>1. UNCHANGED <<reading, feeds, callbacks, loops, view, receipts>>  BY <1>2 DEF KeepFeed
    <2>2. /\ times' \in Measurements /\ times'.start = times.start /\ times'.end = times.end
          /\ times'.frozen = times.frozen /\ times'.counts = times.counts
          /\ times'.pending = times.pending
          /\ times'.loops = times.loops /\ times'.slowest = times.slowest
      <3> DEFINE k == [role |-> r, count |-> feeds[r].count]
                 kept == times.kept \cup {k}
      <3>1. k \in [role : Roles, count : Nat]  BY <1>0
      <3> HIDE DEF k
      <3>2. kept \in SUBSET [role : Roles, count : Nat]  BY <1>0, <3>1 DEF Measurements
      <3>3. times' = [times EXCEPT !.kept = kept]  BY <1>0, <1>2 DEF KeepFeed, k, Measurements
      <3> HIDE DEF kept
      <3> QED  BY <1>0, <3>2, <3>3 DEF Measurements
    <2>3. MeasuredInv'  BY <1>0, <2>1, <2>2 DEF ViewInv, MeasuredInv
    <2>4. ReceiptsInv'  BY <1>0, <2>1, ReceiptsRest DEF ViewInv
    <2>5. CountsInv'  BY <2>1, <2>2, CountsRest DEF ViewInv
    <2>6. WindowInv'  BY <2>1, <2>2 DEF ViewInv, WindowInv
    <2>7. IterationsInv'  BY <2>1, <2>2 DEF ViewInv, IterationsInv, Iterating
    <2>8. ShownInv'  BY <2>1 DEF ViewInv, ShownInv, ShownIsDrawn
    <2> QED  BY <2>3, <2>4, <2>5, <2>6, <2>7, <2>8 DEF ViewInv
  <1>3. CASE Frozen
    <2>1. /\ view' \in Views /\ view.stage = "frozen"
          /\ view'.stage = IF view.way = "scene" THEN "leave" ELSE "top"
          /\ view'.way = view.way /\ view'.iteration = view.iteration
          /\ view'.capture = TRUE /\ view'.canvas = view.canvas
      <3> DEFINE next == IF view.way = "scene" THEN "leave" ELSE "top"
      <3>1. view' = [view EXCEPT !.stage = next, !.capture = TRUE]  BY <1>3 DEF Frozen
      <3>2. next \in {"leave", "top"} /\ view.stage = "frozen"  BY <1>3 DEF Frozen
      <3> HIDE DEF next
      <3>3. /\ view' \in Views /\ view'.stage = next
            /\ view'.way = view.way /\ view'.iteration = view.iteration
            /\ view'.capture = TRUE /\ view'.canvas = view.canvas
        BY <1>0, <3>1, <3>2 DEF Views
      <3> QED  BY <3>2, <3>3 DEF next
    <2>2. /\ times' \in Measurements /\ times'.start = times.start /\ times'.end = times.end
          /\ times'.frozen = TRUE /\ times'.counts = times.counts /\ times'.pending = NoLoop
          /\ times'.loops = times.loops /\ times'.slowest = times.slowest
      BY <1>0, <1>3 DEF Frozen, Measurements
    <2>3. /\ UNCHANGED <<reading, feeds, callbacks, receipts>>
          /\ loops' \in Counters /\ loops'.frozen = TRUE /\ loops'.count = loops.count
      BY <1>0, <1>3 DEF Frozen, Counters
    <2>4. MeasuredInv'  BY <1>0, <2>1, <2>2, <2>3 DEF ViewInv, MeasuredInv
    <2>5. ReceiptsInv'  BY <1>0, <2>3, ReceiptsRest DEF ViewInv
    <2>6. CountsInv'  BY <2>2, <2>3, CountsRest DEF ViewInv
    <2>7. WindowInv'  BY <1>0, <2>1, <2>2 DEF ViewInv, WindowInv, Views
    <2>8. IterationsInv'
      <3>1. times'.pending.of \subseteq {view'.iteration}  BY <1>0, <2>2
      <3> QED  BY <2>1, <2>2, <2>3, <3>1 DEF ViewInv, IterationsInv, Iterating
    <2>9. ShownInv'  BY <2>1, <2>3 DEF ViewInv, ShownInv, ShownIsDrawn
    <2> QED  BY <2>4, <2>5, <2>6, <2>7, <2>8, <2>9 DEF ViewInv
  <1>4. CASE Leave
    <2>1. /\ view' \in Views /\ view.stage \in {"leave", "failed"} /\ view'.stage = "ended"
          /\ view'.way = view.way /\ view'.iteration = view.iteration
          /\ view'.capture = FALSE /\ view'.canvas = view.canvas
      BY <1>0, <1>4 DEF Leave, Views
    <2>2. /\ UNCHANGED <<feeds, callbacks, receipts>> /\ reading' = reading + 1
          /\ loops' \in Counters /\ loops'.count = loops.count
      BY <1>0, <1>4 DEF Leave, Counters
    <2>3. /\ times' \in Measurements /\ times'.start = times.start
          /\ times'.frozen = times.frozen /\ times'.counts = times.counts
          /\ times'.loops = times.loops /\ times'.slowest = times.slowest
          /\ IF times.frozen THEN times' = times
             ELSE times'.end = reading + 1 /\ times'.pending = NoLoop
      <3> DEFINE standing == IF view.stage = "failed" THEN "PARTIAL" ELSE "COMPLETE"
      <3>1. standing \in {"PARTIAL", "COMPLETE"}  OBVIOUS
      <3>2. times' = IF times.frozen THEN times
                     ELSE [times EXCEPT !.end = reading + 1, !.pending = NoLoop, !.status = standing]
        BY <1>4 DEF Leave
      <3> HIDE DEF standing
      <3>3. CASE times.frozen  BY <1>0, <3>2, <3>3
      <3>4. CASE ~times.frozen
        <4>1. times' = [times EXCEPT !.end = reading + 1, !.pending = NoLoop, !.status = standing]
          BY <3>2, <3>4
        <4>2. times' \in Measurements  BY <1>0, <3>1, <4>1 DEF Measurements
        <4>3. /\ times'.start = times.start
              /\ times'.frozen = times.frozen /\ times'.counts = times.counts
              /\ times'.loops = times.loops /\ times'.slowest = times.slowest
              /\ times'.end = reading + 1 /\ times'.pending = NoLoop
          BY <1>0, <4>1 DEF Measurements
        <4> QED  BY <3>4, <4>2, <4>3
      <3> QED  BY <3>3, <3>4
    <2>4. MeasuredInv'  BY <1>0, <2>1, <2>2, <2>3 DEF ViewInv, MeasuredInv
    <2>5. ReceiptsInv'  BY <1>0, <2>2, ReceiptsRest DEF ViewInv
    <2>6. CountsInv'
      <3>1. CASE times.frozen  BY <2>2, <2>3, <3>1, CountsRest DEF ViewInv
      <3>2. CASE ~times.frozen
        <4>1. times.end = 0  BY <2>1, <3>2 DEF ViewInv, WindowInv
        <4> QED  BY <1>c, <2>2, <2>3, <3>2, <4>1
      <3> QED  BY <3>1, <3>2
    <2>7. WindowInv'  BY <2>1, <2>3 DEF ViewInv, WindowInv
    <2>8. IterationsInv'
      <3>1. times'.pending.of \subseteq {view'.iteration} /\ (times'.frozen => times'.pending = NoLoop)
        BY <1>0, <2>1, <2>3 DEF ViewInv, IterationsInv
      <3> QED  BY <2>1, <2>2, <2>3, <3>1 DEF ViewInv, IterationsInv, Iterating
    <2>9. ShownInv'  BY <2>1, <2>2 DEF ViewInv, ShownInv, ShownIsDrawn
    <2> QED  BY <2>4, <2>5, <2>6, <2>7, <2>8, <2>9 DEF ViewInv
  <1> QED  BY <1>1, <1>2, <1>3, <1>4

\* In every state of the view the inductive invariant holds.
THEOREM ViewInvariance == ViewSpec => []ViewInv
  <1>1. ViewInit => ViewInv
    <2> SUFFICES ASSUME ViewInit PROVE ViewInv  OBVIOUS
    <2> DEFINE zero == [r \in Roles |-> 0]
    <2>0. /\ NoImage \in Images /\ NoLoop \in [open : BOOLEAN, of : SUBSET Nat]
          /\ NoLoop.of = {} /\ zero \in [Roles -> Nat]
          /\ [r \in Roles |-> NoImage] \in [Roles -> Images]
          /\ Quiet \in [at : {"idle", "received", "updated"}, image : Images]
      BY DEF NoImage, Images, NoLoop, Quiet
    <2>1. /\ times \in Measurements /\ times.start = 0 /\ times.end = 0 /\ ~times.frozen
          /\ times.loops = 0 /\ times.pending = NoLoop /\ times.slowest.of = {}
      <3> HIDE DEF zero
      <3>1. [length |-> 0, of |-> {}] \in [length : Nat, of : SUBSET Nat]  OBVIOUS
      <3> QED  BY <2>0, <3>1 DEF ViewInit, Measurements, zero
    <2>2. /\ view \in Views /\ view.stage = "attached" /\ view.canvas = NoImage
      <3>1. PICK way \in {"scene", "continuation"} :
              view = [stage |-> "attached", way |-> way, iteration |-> 0, raises |-> 0,
                      capture |-> FALSE, snapshot |-> NoImage, remembered |-> NoImage,
                      canvas |-> NoImage, shown |-> NoImage]
        BY DEF ViewInit
      <3>2. view \in Views  BY <2>0, <3>1 DEF Views
      <3> QED  BY <3>1, <3>2
    <2>3. loops \in Counters /\ loops.count = 0 /\ ~loops.frozen  BY DEF ViewInit, Counters
    <2>4. feeds \in [Roles -> [camera : Nat, image : Images, count : Nat]]  BY <2>0 DEF ViewInit
    <2>5. MeasuredInv  BY <2>0, <2>1, <2>2, <2>3, <2>4 DEF ViewInit, MeasuredInv
    <2>6. ReceiptsInv  BY FS_EmptySet DEF ViewInit, ReceiptsInv
    <2>7. CountsInv  BY <2>1 DEF CountsInv
    <2>8. WindowInv  BY <2>1, <2>2 DEF WindowInv
    <2>9. IterationsInv
      <3>1. times.slowest.of \subseteq {0} /\ times.pending.of \subseteq {view.iteration}
        BY <2>0, <2>1
      <3> QED  BY <2>1, <2>2, <2>3, <3>1 DEF IterationsInv, Iterating
    <2>10. ShownInv  BY <2>2 DEF ShownInv, ShownIsDrawn
    <2> QED  BY <2>5, <2>6, <2>7, <2>8, <2>9, <2>10 DEF ViewInv
  <1>2. ViewInv /\ [ViewNext]_viewVars => ViewInv'
    <2> SUFFICES ASSUME ViewInv, [ViewNext]_viewVars PROVE ViewInv'  OBVIOUS
    <2>1. CASE \E c \in Cameras : Receive(c) \/ Update(c) \/ ReportCallback(c)
      BY <2>1, CallbackStep
    <2>2. CASE Handle \/ ChangeView \/ Snapshot \/ Blit \/ Mirror \/ Flip
                 \/ \E spawning \in BOOLEAN : Raises(spawning)
      BY <2>2, IterationStep
    <2>3. ASSUME NEW length \in {1, 2}, Complete(length)  PROVE ViewInv'
      BY <2>3, IterationEnds DEF Complete, Iterating
    <2>4. CASE Contact  BY <2>4, IterationEnds DEF Contact, Iterating
    <2>5. CASE Run  BY <2>5, RunKeeps
    <2>6. CASE EndModule \/ Begin \/ Break  BY <2>6, TopKeeps
    <2>7. CASE Freeze \/ Frozen \/ Leave \/ \E r \in Roles : KeepFeed(r)  BY <2>7, WindowEnds
    <2>8. CASE UNCHANGED viewVars
      <3>1. UNCHANGED <<reading, feeds, callbacks, listening, times, loops, view, receipts>>
        BY <2>8 DEF viewVars
      <3>2. MeasuredInv'  BY <3>1 DEF ViewInv, MeasuredInv
      <3>3. ReceiptsInv'  BY <3>1, ReceiptsRest DEF ViewInv, MeasuredInv
      <3>4. CountsInv'  BY <3>1, CountsRest DEF ViewInv
      <3>5. WindowInv'  BY <3>1 DEF ViewInv, WindowInv
      <3>6. IterationsInv'  BY <3>1 DEF ViewInv, IterationsInv
      <3>7. ShownInv'  BY <3>1 DEF ViewInv, ShownInv, ShownIsDrawn
      <3> QED  BY <3>2, <3>3, <3>4, <3>5, <3>6, <3>7 DEF ViewInv
    <2> QED  BY <2>1, <2>2, <2>3, <2>4, <2>5, <2>6, <2>7, <2>8 DEF ViewNext
  <1> QED  BY <1>1, <1>2, PTL DEF ViewSpec

\* The frame handed to the scene is the one on the display, the window counts what was
\* received in it and both diagnostics count the same iterations, for any number of
\* images, cameras, iterations and errors.
THEOREM ViewStaysTrue == ViewSpec => []ViewReportsTruly
  <1>1. ViewInv => ViewReportsTruly
    <2> SUFFICES ASSUME ViewInv PROVE ViewReportsTruly  OBVIOUS
    <2>1. ShownIsDrawn  BY DEF ViewInv, ShownInv
    <2>2. WindowCountsReceipts
      <3> SUFFICES ASSUME times.start # 0, \A c \in Cameras : callbacks[c] = Quiet, NEW r \in Roles
                   PROVE  times.counts[r]
                            = Cardinality({e \in receipts : e.role = r /\ InWindow(e.receipt)})
        BY DEF WindowCountsReceipts
      <3>1. Outstanding = {}  BY DEF Outstanding
      <3>2. Reported(r) = {e \in receipts : e.role = r /\ InWindow(e.receipt)}  BY <3>1 DEF Reported
      <3> QED  BY <3>2 DEF ViewInv, CountsInv
    <2>3. LoopsAreCounted
      <3>1. PICK i \in Nat : times.slowest.of \subseteq {i}  BY DEF ViewInv, IterationsInv
      <3>2. IsFiniteSet({i}) /\ Cardinality({i}) = 1  BY FS_Singleton
      <3>3. Cardinality(times.slowest.of) <= 1  BY <3>1, <3>2, FS_Subset
      <3> QED  BY <3>3 DEF ViewInv, IterationsInv, LoopsAreCounted
    <2> QED  BY <2>1, <2>2, <2>3 DEF ViewReportsTruly
  <1> QED  BY <1>1, ViewInvariance, PTL

(* The native trace. *)

\* A set of naturals has a least member: the intervals up to its members are finite
\* sets, which strict inclusion orders well.
LEMMA LeastNatural ==
    ASSUME NEW T \in SUBSET Nat, T # {}
    PROVE  \E x \in T : \A y \in T : x <= y
  <1> DEFINE U == {0 .. t : t \in T}
  <1>1. U \subseteq FiniteSubsetsOf(Nat) /\ U # {}
    <2>1. \A t \in T : IsFiniteSet(0 .. t) /\ (0 .. t) \in SUBSET Nat  BY FS_Interval
    <2> QED  BY <2>1 DEF FiniteSubsetsOf
  <1>2. IsWellFoundedOn(StrictSubsetOrdering(Nat), FiniteSubsetsOf(Nat))
    BY FS_StrictSubsetOrderingWellFounded
  <1>3. PICK u \in U : \A v \in U : ~ (<<v, u>> \in StrictSubsetOrdering(Nat))
    BY <1>1, <1>2, WFMin, Zenon
  <1>4. PICK x \in T : u = 0 .. x  BY <1>3
  <1>5. \A y \in T : x <= y
    <2> SUFFICES ASSUME NEW y \in T, y < x PROVE FALSE  OBVIOUS
    <2>1. (0 .. y) \in U  OBVIOUS
    <2>2. (0 .. y) \subseteq (0 .. x) /\ x \in 0 .. x /\ x \notin 0 .. y  OBVIOUS
    <2>3. <<0 .. y, 0 .. x>> \in StrictSubsetOrdering(Nat)  BY <2>2 DEF StrictSubsetOrdering
    <2> QED  BY <1>3, <1>4, <2>1, <2>3
  <1> QED  BY <1>5

\* The shape of what the collector has written and of what it remembers.
LEMMA SeenShape ==
    ASSUME SeenInv
    PROVE  /\ RowsWritten \in Seq(Nat) /\ Seen \in Seq(Nat)
           /\ Len(RowsWritten) \in Nat /\ Len(Seen) \in Nat
           /\ Len(Seen) <= Len(RowsWritten) /\ Len(Seen) <= Capacity
           /\ Len(Seen) \in {Len(RowsWritten), Capacity} /\ Capacity \in Nat \ {0}
           /\ DOMAIN RowsWritten = 1..Len(RowsWritten) /\ DOMAIN Seen = 1..Len(Seen)
  <1>1. RowsWritten \in Seq(Nat) /\ Seen \in Seq(Nat)  BY DEF SeenInv, Collectors, RowsWritten, Seen
  <1>2. /\ Len(Seen) <= Len(RowsWritten) /\ Len(Seen) <= Capacity
        /\ Len(Seen) \in {Len(RowsWritten), Capacity}
    BY DEF SeenInv
  <1>3. \A s \in Seq(Nat) : Len(s) \in Nat /\ DOMAIN s = 1..Len(s)  OBVIOUS
  <1> QED  BY <1>1, <1>2, <1>3, TraceAssumption

\* The records of a ring that a reader remembers are those no later than its last row,
\* although it remembers no more than the ring holds: an older one that is still in the
\* ring would share it with as many later ones as the ring has room for.
LEMMA KnownIsWritten ==
    ASSUME RingInv, SeenInv, WrittenInv, NEW j \in DOMAIN trace.ring
    PROVE  Known(trace.ring[j]) <=> \E i \in DOMAIN RowsWritten : RowsWritten[i] >= trace.ring[j]
  <1> DEFINE ring == trace.ring
             R == Len(RowsWritten)
             S == Len(Seen)
  <1>0. /\ ring \in Seq(Nat) /\ RowsWritten \in Seq(Nat) /\ Seen \in Seq(Nat)
        /\ R \in Nat /\ S \in Nat /\ S <= R /\ S \in {R, Capacity} /\ Len(ring) \in Nat
        /\ Len(ring) <= Capacity /\ Capacity \in Nat
        /\ DOMAIN ring = 1..Len(ring) /\ DOMAIN RowsWritten = 1..R /\ DOMAIN Seen = 1..S
    <2>1. ring \in Seq(Nat) /\ Len(ring) <= Capacity  BY DEF RingInv, Traces
    <2>2. Len(ring) \in Nat /\ DOMAIN ring = 1..Len(ring)
      <3> HIDE DEF ring
      <3> QED  BY <2>1
    <2> QED  BY <2>1, <2>2, SeenShape
  <1>1. \A m \in 1..S : Seen[m] = RowsWritten[R - S + m]  BY <1>0 DEF SeenInv
  <1>2. \A i, k \in 1..R : i < k => RowsWritten[i] < RowsWritten[k]  BY <1>0 DEF SeenInv, Increasing
  <1>3. \A i \in 1..R : RowsWritten[i] \in Nat  BY <1>0, ElementOfSeq
  <1> HIDE DEF R, S
  <1>4. \A m \in 1..S : R - S + m \in 1..R  BY <1>0
  <1>5. ASSUME Known(ring[j])
        PROVE  \E i \in 1..R : RowsWritten[i] >= ring[j]
    <2>1. PICK m \in 1..S : Seen[m] = ring[j]  BY <1>0, <1>5 DEF Known
    <2> QED  BY <1>1, <1>3, <1>4, <2>1
  <1>6. ASSUME NEW i \in 1..R, RowsWritten[i] >= ring[j], ~Known(ring[j])
        PROVE  FALSE
    <2>1. PICK k \in 1..R : RowsWritten[k] = ring[j]  BY <1>0, <1>6 DEF WrittenInv
    <2>2. k <= R - S
      <3> SUFFICES ASSUME k > R - S  PROVE FALSE  BY <1>0
      <3>1. k - (R - S) \in 1..S /\ R - S + (k - (R - S)) = k  BY <1>0
      <3>2. Seen[k - (R - S)] = ring[j]  BY <1>1, <2>1, <3>1
      <3> QED  BY <1>0, <1>6, <3>1, <3>2 DEF Known
    <2>3. S = Capacity  BY <1>0, <2>2
    <2>a. R \in Nat /\ S \in Nat /\ S <= R /\ k \in Nat  BY <1>0
    <2> DEFINE at(m) == IF m = 0 THEN k ELSE R - S + m
               f == [m \in 0..S |-> CHOOSE p \in DOMAIN ring : ring[p] = RowsWritten[at(m)]]
    <2>4. \A m \in 0..S : at(m) \in 1..R /\ RowsWritten[at(m)] >= ring[j]
      <3> SUFFICES ASSUME NEW m \in 0..S
                   PROVE  at(m) \in 1..R /\ RowsWritten[at(m)] >= ring[j]
        OBVIOUS
      <3>1. CASE m = 0  BY <3>1, <1>0, <1>3, <2>1
      <3>2. CASE m # 0
        <4>1. at(m) \in 1..R /\ k < at(m)
          <5>1. at(m) = R - S + m  BY <3>2
          <5>2. m \in Nat /\ 1 <= m /\ m <= S  BY <3>2, <1>0
          <5> HIDE DEF at
          <5> QED  BY <5>1, <5>2, <2>a, <2>2
        <4>2. RowsWritten[k] < RowsWritten[at(m)]  BY <4>1, <1>2
        <4> HIDE DEF at
        <4> QED  BY <4>1, <4>2, <1>3, <2>1
      <3> QED  BY <3>1, <3>2
    <2>5. \A m, n \in 0..S : m < n => at(m) < at(n)
      <3> SUFFICES ASSUME NEW m \in 0..S, NEW n \in 0..S, m < n  PROVE at(m) < at(n)  OBVIOUS
      <3>1. m \in Nat /\ n \in Nat /\ n # 0  BY <2>a
      <3>2. at(n) = R - S + n /\ at(m) \in {k, R - S + m}  BY <3>1
      <3> HIDE DEF at
      <3> QED  BY <3>1, <3>2, <2>a, <2>2
    <2> HIDE DEF at
    <2>6. \A m \in 0..S : f[m] \in DOMAIN ring /\ ring[f[m]] = RowsWritten[at(m)]
      <3> SUFFICES ASSUME NEW m \in 0..S
                   PROVE  \E p \in DOMAIN ring : ring[p] = RowsWritten[at(m)]
        OBVIOUS
      <3>1. j \in DOMAIN ring /\ at(m) \in DOMAIN RowsWritten /\ RowsWritten[at(m)] >= ring[j]
        BY <1>0, <2>4
      <3> QED  BY <3>1 DEF WrittenInv
    <2>7. f \in [0..S -> 1..Len(ring)]  BY <1>0, <2>6
    <2>8. /\ IsFiniteSet(0..S) /\ IsFiniteSet(1..Len(ring))
          /\ Cardinality(0..S) = S + 1 /\ Cardinality(1..Len(ring)) = Len(ring)
      <3>1. S \in Nat /\ Len(ring) \in Nat  BY <1>0
      <3>a. \A s \in Nat : IsFiniteSet(0..s) /\ Cardinality(0..s) = s + 1
        <4> TAKE s \in Nat
        <4>1. 0 \in Int /\ s \in Int /\ ~ (0 > s) /\ s - 0 + 1 = s + 1  OBVIOUS
        <4>2. Cardinality(0..s) = IF 0 > s THEN 0 ELSE s - 0 + 1  BY <4>1, FS_Interval
        <4> QED  BY <4>1, <4>2, FS_Interval
      <3>b. \A s \in Nat : IsFiniteSet(1..s) /\ Cardinality(1..s) = s
        <4> TAKE s \in Nat
        <4>1. 1 \in Int /\ s \in Int /\ (1 > s => s = 0) /\ s - 1 + 1 = s  OBVIOUS
        <4>2. Cardinality(1..s) = IF 1 > s THEN 0 ELSE s - 1 + 1  BY <4>1, FS_Interval
        <4> QED  BY <4>1, <4>2, FS_Interval
      <3>2. IsFiniteSet(0..S) /\ Cardinality(0..S) = S + 1  BY <3>1, <3>a
      <3>3. IsFiniteSet(1..Len(ring)) /\ Cardinality(1..Len(ring)) = Len(ring)  BY <3>1, <3>b
      <3> QED  BY <3>2, <3>3
    <2>9. Cardinality(1..Len(ring)) < Cardinality(0..S)  BY <1>0, <2>3, <2>8
    <2> HIDE DEF f
    <2>10. PICK x, y \in 0..S : x # y /\ f[x] = f[y]  BY <2>7, <2>8, <2>9, FS_PigeonHole
    <2>11. RowsWritten[at(x)] = RowsWritten[at(y)]  BY <2>6, <2>10
    <2>12. at(x) < at(y) \/ at(y) < at(x)
      <3>1. x < y \/ y < x  BY <1>0, <2>10
      <3> QED  BY <3>1, <2>5
    <2> QED  BY <2>4, <2>11, <2>12, <1>2, <1>3
  <1> QED  BY <1>0, <1>5, <1>6

\* The places after one place select what a sequence holds from there on.
LEMMA SelectedSuffix ==
    ASSUME NEW s, NEW n \in Nat, NEW k \in 0..n
    PROVE  Selected(s, (k + 1)..n) = [i \in 1..(n - k) |-> s[k + i]]
  <1> DEFINE places == (k + 1)..n
             place(m) == CHOOSE i \in places : Cardinality({j \in places : j <= i}) = m
  <1>1. Cardinality(places) = n - k
    <2>1. k + 1 \in Int /\ n \in Int /\ (k + 1 > n => n - k = 0)  OBVIOUS
    <2>2. Cardinality(places) = IF k + 1 > n THEN 0 ELSE n - (k + 1) + 1  BY <2>1, FS_Interval
    <2> QED  BY <2>1, <2>2
  <1>2. ASSUME NEW m \in 1..(n - k)
        PROVE  place(m) = k + m
    <2>1. \A i \in places : Cardinality({j \in places : j <= i}) = i - k
      <3> TAKE i \in places
      <3>1. {j \in places : j <= i} = (k + 1)..i  OBVIOUS
      <3>2. Cardinality((k + 1)..i) = i - k  BY FS_Interval
      <3> HIDE DEF places
      <3> QED  BY <3>1, <3>2
    <2>2. k + m \in places /\ (k + m) - k = m  OBVIOUS
    <2>3. \A i \in places : i - k = m => i = k + m  OBVIOUS
    <2> HIDE DEF places
    <2>4. \A i \in places : Cardinality({j \in places : j <= i}) = m <=> i = k + m
      BY <2>1, <2>2, <2>3
    <2> QED  BY <2>2, <2>4
  <1> HIDE DEF places
  <1>3. Selected(s, places) = [m \in 1..Cardinality(places) |-> s[place(m)]]  BY DEF Selected
  <1> HIDE DEF place
  <1>4. Selected(s, places) = [m \in 1..(n - k) |-> s[k + m]]  BY <1>1, <1>2, <1>3
  <1> QED  BY <1>4 DEF places

\* The news of a snapshot are its records from one place on: what is known comes first.
LEMMA NewsAreLatest ==
    ASSUME RingInv, SeenInv, WrittenInv
    PROVE  \E k \in 0..Len(trace.ring) :
             /\ Unseen = (k + 1)..Len(trace.ring)
             /\ News = [i \in 1..(Len(trace.ring) - k) |-> trace.ring[k + i]]
  <1> DEFINE ring == trace.ring
             L == Len(ring)
             T == {k \in 0..L : \A j \in (k + 1)..L : ~Known(ring[j])}
  <1>0. /\ ring \in Seq(Nat) /\ L \in Nat /\ DOMAIN ring = 1..L
        /\ RowsWritten \in Seq(Nat) /\ DOMAIN RowsWritten = 1..Len(RowsWritten)
    BY DEF RingInv, Traces, SeenInv, Collectors, RowsWritten
  <1>n. /\ \A j \in 1..L : ring[j] \in Nat
        /\ \A i \in DOMAIN RowsWritten : RowsWritten[i] \in Nat
    BY <1>0, ElementOfSeq
  <1>1. T \in SUBSET Nat /\ L \in T  BY <1>0
  <1>2. PICK k \in T : \A y \in T : k <= y
    <2> HIDE DEF T
    <2> QED  BY <1>1, LeastNatural
  <1>k. k \in 0..L /\ \A j \in (k + 1)..L : ~Known(ring[j])  OBVIOUS
  <1>3. ASSUME NEW j \in 1..k  PROVE Known(ring[j])
    <2>0. k \in 1..L /\ k - 1 \in 0..L /\ j \in 1..L /\ ~ (k <= k - 1)  BY <1>0, <1>k
    <2>1. k - 1 \notin T /\ k \in 1..L /\ k - 1 \in 0..L /\ j \in 1..L
      <3> HIDE DEF T
      <3> QED  BY <1>2, <2>0
    <2>2. PICK p \in k..L : Known(ring[p])  BY <2>1
    <2>3. p = k  BY <1>k, <2>1, <2>2, <1>0
    <2> HIDE DEF T
    <2>4. PICK i \in DOMAIN RowsWritten : RowsWritten[i] >= ring[k]
      BY <1>0, <2>1, <2>2, <2>3, KnownIsWritten
    <2>5. j = k \/ ring[j] < ring[k]
      <3>1. j \in 1..L /\ k \in 1..L /\ (j = k \/ j < k)  BY <2>1
      <3> QED  BY <1>0, <3>1 DEF RingInv, Increasing
    <2>6. RowsWritten[i] >= ring[j]  BY <1>n, <2>1, <2>4, <2>5
    <2> QED  BY <1>0, <2>1, <2>6, KnownIsWritten
  <1> HIDE DEF T
  <1>4. Unseen = (k + 1)..L  BY <1>0, <1>k, <1>3 DEF Unseen
  <1>5. News = [i \in 1..(L - k) |-> ring[k + i]]  BY <1>0, <1>k, <1>4, SelectedSuffix DEF News
  <1> QED  BY <1>k, <1>4, <1>5

\* Rows that are followed by a ring's records from one place on, as far as they go.
Follows(L, R, k, n, ring, table, rows2) ==
    /\ L \in Nat /\ R \in Nat /\ k \in 0..L /\ n \in 0..(L - k)
    /\ \A j \in 1..L : ring[j] \in Nat
    /\ \A i \in 1..R : table[i] \in Nat
    /\ \A i, j \in 1..L : i < j => ring[i] < ring[j]
    /\ \A i, j \in 1..R : i < j => table[i] < table[j]
    /\ \A i \in 1..R : rows2[i] = table[i]
    /\ \A m \in 1..n : rows2[R + m] = ring[k + m]
    /\ \A m \in 1..(L - k) : \A i \in 1..R : table[i] < ring[k + m]
    /\ \A j \in 1..k : \E i \in 1..R : table[i] >= ring[j]

\* Rows reach no further than a ring whose records up to there they hold.
NoGap(L, R, ring, table) ==
    \A i \in 1..R : \A j \in 1..L : table[i] >= ring[j] =>
        /\ \E p \in 1..L : ring[p] = table[i]
        /\ \E p \in 1..R : table[p] = ring[j]

\* They stay in order and without a gap that the ring could fill.
LEMMA RowsFollow ==
    ASSUME NEW L, NEW R, NEW k, NEW n, NEW ring, NEW table, NEW rows2,
           Follows(L, R, k, n, ring, table, rows2), NoGap(L, R, ring, table)
    PROVE  /\ \A i, j \in 1..(R + n) : i < j => rows2[i] < rows2[j]
           /\ NoGap(L, R + n, ring, rows2)
  <1> USE DEF Follows, NoGap
  <1>1. \A i \in 1..(R + n) : i \in 1..R \/ \E m \in 1..n : i = R + m
    <2> SUFFICES ASSUME NEW i \in 1..(R + n), ~ (i \in 1..R)
                 PROVE  \E m \in 1..n : i = R + m
      OBVIOUS
    <2> WITNESS i - R \in 1..n
    <2> QED  OBVIOUS
  <1>2. \A m \in 1..n : k + m \in 1..L /\ R + m \in 1..(R + n)  OBVIOUS
  <1>3. \A i \in 1..R : i \in 1..(R + n)  OBVIOUS
  <1>4. ASSUME NEW i \in 1..(R + n), NEW j \in 1..(R + n), i < j
        PROVE  rows2[i] < rows2[j]
    <2>1. CASE i \in 1..R /\ j \in 1..R  BY <1>4, <2>1
    <2>2. ASSUME i \in 1..R, NEW m \in 1..n, j = R + m  PROVE rows2[i] < rows2[j]  BY <2>2
    <2>3. ASSUME NEW p \in 1..n, i = R + p, NEW m \in 1..n, j = R + m
          PROVE  rows2[i] < rows2[j]
      <3>1. k + p < k + m  BY <1>4, <2>3
      <3>2. k + p \in 1..L /\ k + m \in 1..L  BY <1>2
      <3>3. ring[k + p] < ring[k + m]  BY <3>1, <3>2
      <3> QED  BY <3>3, <2>3
    <2>4. ~ (j \in 1..R /\ ~ (i \in 1..R))  BY <1>4
    <2> QED  BY <1>1, <2>1, <2>2, <2>3, <2>4
  <1>5. ASSUME NEW j \in 1..L
        PROVE  j \in 1..k \/ \E m \in 1..(L - k) : j = k + m
    <2> SUFFICES ASSUME ~ (j \in 1..k)  PROVE \E m \in 1..(L - k) : j = k + m  OBVIOUS
    <2> WITNESS j - k \in 1..(L - k)
    <2> QED  OBVIOUS
  <1>6. ASSUME NEW i \in 1..(R + n), NEW j \in 1..L, rows2[i] >= ring[j]
        PROVE  /\ \E p \in 1..L : ring[p] = rows2[i]
               /\ \E p \in 1..(R + n) : rows2[p] = ring[j]
    <2>1. CASE i \in 1..R  BY <1>3, <1>6, <2>1
    <2>2. ASSUME NEW m \in 1..n, i = R + m
          PROVE  /\ \E p \in 1..L : ring[p] = rows2[i]
                 /\ \E p \in 1..(R + n) : rows2[p] = ring[j]
      <3>1. rows2[i] = ring[k + m] /\ k + m \in 1..L  BY <1>2, <2>2
      <3>2. j <= k + m
        <4> SUFFICES ASSUME j > k + m  PROVE FALSE  OBVIOUS
        <4>1. ring[k + m] < ring[j]  BY <3>1
        <4> QED  BY <4>1, <3>1, <1>6
      <3>3. CASE j \in 1..k  BY <1>3, <3>1, <3>3
      <3>4. ASSUME NEW q \in 1..(L - k), j = k + q
            PROVE  \E p \in 1..(R + n) : rows2[p] = ring[j]
        <4>1. q \in 1..n  BY <3>2, <3>4
        <4> QED  BY <1>2, <3>4, <4>1
      <3> QED  BY <1>5, <3>1, <3>3, <3>4
    <2> QED  BY <1>1, <2>1, <2>2
  <1> QED  BY <1>4, <1>6

\* Without a loss the ring and the rows both begin with the first record, and so do the
\* rows that follow them.
LEMMA RowsFollowFromFirst ==
    ASSUME NEW L, NEW R, NEW k, NEW n, NEW ring, NEW table, NEW rows2,
           Follows(L, R, k, n, ring, table, rows2), R <= L,
           \A j \in 1..L : ring[j] = j,
           \A i \in 1..R : table[i] = i
    PROVE  k = R /\ \A i \in 1..(R + n) : rows2[i] = i
  <1> USE DEF Follows
  <1>1. k <= R
    <2> SUFFICES ASSUME k > R  PROVE FALSE  OBVIOUS
    <2>1. k \in 1..k /\ k \in 1..L  OBVIOUS
    <2>2. PICK i \in 1..R : table[i] >= ring[k]  BY <2>1
    <2> QED  BY <2>1, <2>2
  <1>2. k >= R
    <2> SUFFICES ASSUME k < R  PROVE FALSE  OBVIOUS
    <2>1. 1 \in 1..(L - k) /\ R \in 1..R /\ k + 1 \in 1..L  OBVIOUS
    <2>2. table[R] < ring[k + 1]  BY <2>1
    <2> QED  BY <2>1, <2>2
  <1>3. k = R  BY <1>1, <1>2
  <1>4. ASSUME NEW i \in 1..(R + n)  PROVE rows2[i] = i
    <2>1. CASE i \in 1..R  BY <2>1
    <2>2. CASE ~ (i \in 1..R)
      <3>1. i - R \in 1..n /\ R + (i - R) = i /\ k + (i - R) = i /\ i \in 1..L  BY <2>2, <1>3
      <3>2. rows2[R + (i - R)] = ring[k + (i - R)]  BY <3>1
      <3> QED  BY <3>1, <3>2
    <2> QED  BY <2>1, <2>2
  <1> QED  BY <1>3, <1>4

LEMMA FunctionIsSequence ==
    ASSUME NEW n \in Nat, NEW f \in [1..n -> Nat]
    PROVE  f \in Seq(Nat) /\ Len(f) = n
  OBVIOUS

\* A sequence ends another one, in full or as far as it may reach.
Ends(seen2, rows2) ==
    /\ seen2 \in Seq(Nat)
    /\ Len(seen2) <= Len(rows2) /\ Len(seen2) <= Capacity
    /\ Len(seen2) \in {Len(rows2), Capacity}
    /\ \A i \in DOMAIN seen2 : seen2[i] = rows2[Len(rows2) - Len(seen2) + i]

\* What is remembered of a sequence that ends another one still ends it when both grow.
LEMMA RememberedEnds ==
    ASSUME SeenInv, NEW w \in Seq(Nat),
           NEW rows2, rows2 = RowsWritten \o w, NEW seen2, seen2 = Remembered(w)
    PROVE  Ends(seen2, rows2)
  <1> DEFINE R == Len(RowsWritten)
             S == Len(Seen)
             n == Len(w)
             all == Seen \o w
             cut == IF Len(all) > Capacity THEN Len(all) - Capacity ELSE 0
  <1>0. /\ RowsWritten \in Seq(Nat) /\ Seen \in Seq(Nat) /\ R \in Nat /\ S \in Nat /\ n \in Nat
          /\ S <= R /\ S <= Capacity /\ S \in {R, Capacity} /\ Capacity \in Nat \ {0}
    <2>1. n \in Nat  OBVIOUS
    <2> QED  BY <2>1, SeenShape
  <1>1. /\ all \in Seq(Nat) /\ Len(all) = S + n
        /\ \A p \in 1..(S + n) : all[p] = IF p <= S THEN Seen[p] ELSE w[p - S]
    BY <1>0, ConcatProperties
  <1>2. /\ Len(rows2) = R + n
        /\ \A p \in 1..(R + n) : rows2[p] = IF p <= R THEN RowsWritten[p] ELSE w[p - R]
    BY <1>0, ConcatProperties
  <1>3. \A i \in 1..S : Seen[i] = RowsWritten[R - S + i]
    <2>1. DOMAIN Seen = 1..S  BY SeenShape
    <2> QED  BY <2>1 DEF SeenInv
  <1>4. seen2 = SubSeq(all, cut + 1, Len(all))  BY DEF Remembered
  <1> HIDE DEF R, S, n, all
  <1>5. cut \in Nat /\ cut <= S + n /\ cut + 1 \in 1..(Len(all) + 1)  BY <1>0, <1>1
  <1>6. /\ S + n - cut <= Capacity /\ S + n - cut <= R + n
        /\ S + n - cut \in {R + n, Capacity}
    BY <1>0, <1>1
  <1> HIDE DEF cut
  <1>7. ASSUME NEW p \in 1..(S + n)  PROVE all[p] = rows2[R - S + p]
    <2>0. S <= R  BY <1>0
    <2>1. R - S + p \in 1..(R + n)  BY <1>0, <2>0
    <2>2. CASE p <= S
      <3>1. R - S + p <= R /\ p \in 1..S  BY <2>2, <1>0
      <3>2. all[p] = Seen[p]  BY <1>1, <2>2
      <3>3. rows2[R - S + p] = RowsWritten[R - S + p]  BY <1>2, <2>1, <3>1
      <3> QED  BY <3>1, <3>2, <3>3, <1>3
    <2>3. CASE ~ (p <= S)
      <3>1. ~ (R - S + p <= R) /\ (R - S + p) - R = p - S  BY <2>3, <1>0
      <3> QED  BY <3>1, <2>1, <2>3, <1>1, <1>2
    <2> QED  BY <2>2, <2>3
  <1>8. /\ seen2 \in Seq(Nat) /\ Len(seen2) = S + n - cut
        /\ \A i \in 1..(S + n - cut) : seen2[i] = all[cut + i]
    <2>1. cut + 1 \in 1..(Len(all) + 1) /\ Len(all) \in (cut + 1) - 1 .. Len(all)
      BY <1>0, <1>1, <1>5
    <2>2. \A j \in (cut + 1)..Len(all) : all[j] \in Nat
      <3>1. \A j \in (cut + 1)..Len(all) : j \in 1..Len(all)  BY <1>0, <1>1, <1>5
      <3> QED  BY <1>1, <3>1, ElementOfSeq
    <2>3. \A i \in 1..(S + n - cut) : (cut + 1) + i - 1 = cut + i  BY <1>0, <1>5
    <2> QED  BY <1>0, <1>1, <1>4, <1>5, <2>1, <2>2, <2>3, SubSeqProperties
  <1>9. DOMAIN seen2 = 1..(S + n - cut)  BY <1>8
  <1>10. ASSUME NEW i \in 1..(S + n - cut)
         PROVE  seen2[i] = rows2[Len(rows2) - Len(seen2) + i]
    <2>1. cut + i \in 1..(S + n)  BY <1>0, <1>5
    <2>2. R - S + (cut + i) = Len(rows2) - Len(seen2) + i  BY <1>0, <1>2, <1>5, <1>8
    <2> QED  BY <1>7, <1>8, <2>1, <2>2
  <1> QED  BY <1>2, <1>6, <1>8, <1>9, <1>10 DEF Ends

\* A read that writes the first so many of its news keeps what the collector promises.
LEMMA WriteKeeps ==
    ASSUME TraceInv, trace'.ring = trace.ring, trace'.made = trace.made,
           NEW k \in 0..Len(trace.ring), NEW n \in 0..(Len(trace.ring) - k),
           Unseen = (k + 1)..Len(trace.ring),
           NEW w, w = [i \in 1..n |-> trace.ring[k + i]],
           collector' \in Collectors, RowsWritten' = RowsWritten \o w, Seen' = Remembered(w)
    PROVE  /\ SeenInv' /\ WrittenInv'
           /\ trace.over = 0 /\ trace.dropped = 0 =>
                 /\ FromFirst(RowsWritten')
                 /\ n = Len(trace.ring) - k => Len(RowsWritten') = trace.made
  <1> DEFINE ring == trace.ring
             L == Len(ring)
             table == RowsWritten
             R == Len(table)
             rows2 == RowsWritten'
             seen2 == Seen'
  <1>0. /\ ring \in Seq(Nat) /\ L \in Nat /\ DOMAIN ring = 1..L /\ trace.made \in Nat
        /\ table \in Seq(Nat) /\ DOMAIN table = 1..R /\ R \in Nat
        /\ k \in 0..L /\ n \in 0..(L - k) /\ n \in Nat
    <2>1. ring \in Seq(Nat) /\ trace.made \in Nat  BY DEF TraceInv, RingInv, Traces
    <2>2. L \in Nat /\ DOMAIN ring = 1..L
      <3> HIDE DEF ring
      <3> QED  BY <2>1
    <2>3. table \in Seq(Nat) /\ DOMAIN table = 1..R /\ R \in Nat  BY SeenShape DEF TraceInv
    <2>4. k \in 0..L /\ n \in 0..(L - k) /\ n \in Nat
      <3> HIDE DEF L
      <3> QED  BY <2>2 DEF L
    <2> QED  BY <2>1, <2>2, <2>3, <2>4
  <1>1. (\A j \in 1..L : ring[j] \in Nat) /\ (\A i \in 1..R : table[i] \in Nat)
    BY <1>0, ElementOfSeq
  <1>p. \A m \in 1..(L - k) : k + m \in (k + 1)..L /\ k + m \in 1..L  BY <1>0
  <1>q. \A m \in 1..n : m \in 1..(L - k)  BY <1>0
  <1>2. w \in Seq(Nat) /\ Len(w) = n /\ \A i \in 1..n : w[i] = ring[k + i]
    <2>1. \A i \in 1..n : ring[k + i] \in Nat  BY <1>1, <1>p, <1>q
    <2>2. w \in [1..n -> Nat] /\ n \in Nat  BY <2>1, <1>0
    <2>3. w \in Seq(Nat) /\ Len(w) = n  BY <2>2, FunctionIsSequence
    <2> QED  BY <2>3
  <1>3. /\ rows2 \in Seq(Nat) /\ Len(rows2) = R + n /\ DOMAIN rows2 = 1..(R + n)
        /\ \A i \in 1..R : rows2[i] = table[i]
        /\ \A m \in 1..n : rows2[R + m] = ring[k + m]
    <2>1. /\ table \o w \in Seq(Nat) /\ Len(table \o w) = R + n
          /\ \A i \in 1..(R + n) : (table \o w)[i] = IF i <= R THEN table[i] ELSE w[i - R]
      BY <1>0, <1>2, ConcatProperties
    <2>2. \A m \in 1..n : R + m \in 1..(R + n) /\ ~ (R + m <= R) /\ (R + m) - R = m  BY <1>0
    <2>3. \A i \in 1..R : i \in 1..(R + n) /\ i <= R  BY <1>0
    <2>4. rows2 = table \o w  OBVIOUS
    <2> HIDE DEF rows2, table, R, ring
    <2>5. \A i \in 1..R : rows2[i] = table[i]  BY <2>1, <2>3, <2>4
    <2>6. ASSUME NEW m \in 1..n  PROVE rows2[R + m] = ring[k + m]
      <3>1. R + m \in 1..(R + n) /\ ~ (R + m <= R) /\ (R + m) - R = m  BY <2>2
      <3>2. rows2[R + m] = w[m]  BY <2>1, <2>4, <3>1
      <3> QED  BY <3>2, <1>2
    <2>7. Len(rows2) = R + n /\ rows2 \in Seq(Nat) /\ DOMAIN rows2 = 1..(R + n)  BY <2>1, <2>4
    <2> QED  BY <2>5, <2>6, <2>7
  <1>4. \A m \in 1..(L - k) : \A i \in 1..R : table[i] < ring[k + m]
    <2> SUFFICES ASSUME NEW m \in 1..(L - k), NEW i \in 1..R
                 PROVE  table[i] < ring[k + m]
      OBVIOUS
    <2>1. k + m \in Unseen /\ k + m \in DOMAIN ring  BY <1>0, <1>p
    <2>2. ~Known(ring[k + m])  BY <2>1 DEF Unseen
    <2>3. ~ (table[i] >= ring[k + m])
      <3>1. RingInv /\ SeenInv /\ WrittenInv  BY DEF TraceInv
      <3>2. i \in DOMAIN table  BY <1>0
      <3> QED  BY <2>1, <2>2, <3>1, <3>2, KnownIsWritten
    <2>4. table[i] \in Nat /\ ring[k + m] \in Nat  BY <1>1, <1>p
    <2> HIDE DEF table, ring, L, R
    <2> QED  BY <2>3, <2>4
  <1>5. \A j \in 1..k : \E i \in 1..R : table[i] >= ring[j]
    <2> SUFFICES ASSUME NEW j \in 1..k  PROVE \E i \in 1..R : table[i] >= ring[j]  OBVIOUS
    <2>1. j \in DOMAIN ring /\ j \notin (k + 1)..L  BY <1>0
    <2>2. Known(ring[j])  BY <2>1 DEF Unseen
    <2> QED  BY <1>0, <2>1, <2>2, KnownIsWritten DEF TraceInv
  <1>6. \A i, j \in 1..L : i < j => ring[i] < ring[j]  BY <1>0 DEF TraceInv, RingInv, Increasing
  <1>7. \A i, j \in 1..R : i < j => table[i] < table[j]  BY <1>0 DEF TraceInv, SeenInv, Increasing
  <1>8. NoGap(L, R, ring, table)  BY <1>0 DEF TraceInv, WrittenInv, NoGap
  <1>9. /\ \A j \in 1..L : 1 <= ring[j] /\ ring[j] <= trace.made
        /\ \A i \in 1..R : 1 <= table[i] /\ table[i] <= trace.made
    BY <1>0 DEF TraceInv, RingInv, SeenInv, Within
  <1>10. \A i \in 1..(R + n) : i \in 1..R \/ \E m \in 1..n : i = R + m
    <2> SUFFICES ASSUME NEW i \in 1..(R + n), ~ (i \in 1..R)
                 PROVE  \E m \in 1..n : i = R + m
      OBVIOUS
    <2> WITNESS i - R \in 1..n
    <2> QED  BY <1>0
  <1>11. Ends(seen2, rows2)
    <2>1. w \in Seq(Nat) /\ rows2 = RowsWritten \o w /\ seen2 = Remembered(w) /\ SeenInv
      BY <1>2 DEF TraceInv
    <2> HIDE DEF rows2, seen2
    <2> QED  BY <2>1, RememberedEnds, Zenon
  <1>12. trace.over = 0 /\ trace.dropped = 0 =>
            /\ L = trace.made /\ \A j \in 1..L : ring[j] = j
            /\ \A i \in 1..R : table[i] = i
    BY <1>0 DEF TraceInv, RingInv, ClosedInv, FromFirst
  <1> HIDE DEF rows2, R, L, table, ring, seen2
  <1>f. Follows(L, R, k, n, ring, table, rows2)
    BY <1>0, <1>1, <1>3, <1>4, <1>5, <1>6, <1>7 DEF Follows
  <1>13. /\ \A i, j \in 1..(R + n) : i < j => rows2[i] < rows2[j]
         /\ NoGap(L, R + n, ring, rows2)
    BY <1>8, <1>f, RowsFollow
  <1>14. \A i \in 1..(R + n) : 1 <= rows2[i] /\ rows2[i] <= trace.made
    <2>1. \A m \in 1..n : 1 <= rows2[R + m] /\ rows2[R + m] <= trace.made  BY <1>3, <1>9, <1>p, <1>q
    <2>2. \A i \in 1..R : 1 <= rows2[i] /\ rows2[i] <= trace.made  BY <1>3, <1>9
    <2> QED  BY <2>1, <2>2, <1>10
  <1>15. ASSUME trace.over = 0, trace.dropped = 0
         PROVE  /\ \A i \in 1..(R + n) : rows2[i] = i
                /\ n = L - k => R + n = trace.made
    <2>1. R <= L
      <3> SUFFICES ASSUME R > L  PROVE FALSE  BY <1>0
      <3>0. R \in Nat /\ L \in Nat  BY <1>0
      <3>1. R \in 1..R  BY <3>0
      <3>2. table[R] = R /\ L = trace.made  BY <3>1, <1>12, <1>15
      <3>3. table[R] <= trace.made  BY <3>1, <1>9
      <3>4. R <= L  BY <3>2, <3>3
      <3> QED  BY <3>0, <3>4
    <2>2. (\A j \in 1..L : ring[j] = j) /\ (\A i \in 1..R : table[i] = i)  BY <1>12, <1>15
    <2>3. k = R /\ \A i \in 1..(R + n) : rows2[i] = i  BY <1>f, <2>1, <2>2, RowsFollowFromFirst
    <2>4. L = trace.made /\ L \in Nat  BY <1>0, <1>12, <1>15
    <2>5. n = L - k => R + n = L  BY <1>0, <2>3
    <2> QED  BY <2>3, <2>4, <2>5
  <1>16. SeenInv'
    <2>1. Increasing(rows2) /\ Within(rows2, trace.made)
      BY <1>3, <1>13, <1>14 DEF Increasing, Within
    <2> QED  BY <1>11, <2>1 DEF SeenInv, Ends, rows2, seen2
  <1>17. WrittenInv'
    <2>1. /\ \A i \in DOMAIN rows2, j \in DOMAIN ring :
               rows2[i] >= ring[j] => \E p \in DOMAIN ring : ring[p] = rows2[i]
          /\ \A i \in DOMAIN rows2, j \in DOMAIN ring :
               rows2[i] >= ring[j] => \E p \in DOMAIN rows2 : rows2[p] = ring[j]
      BY <1>0, <1>3, <1>13 DEF NoGap
    <2>2. ring' = ring  BY DEF ring
    <2> QED  BY <2>1, <2>2 DEF WrittenInv, rows2, ring, RowsWritten
  <1>18. trace.over = 0 /\ trace.dropped = 0 =>
            /\ FromFirst(rows2)
            /\ n = L - k => Len(rows2) = trace.made
    BY <1>3, <1>15 DEF FromFirst
  <1> QED  BY <1>16, <1>17, <1>18 DEF rows2, L, ring

LEMMA WriteFields ==
    ASSUME TraceInv, NEW w \in Seq(Nat), NEW g \in Seq(Nat), NEW fails \in BOOLEAN,
           collector' = [Write(w, g) EXCEPT !.failed = fails]
    PROVE  /\ collector' \in Collectors /\ File' = File \o g
           /\ RowsWritten' = RowsWritten \o w /\ Seen' = Remembered(w)
           /\ collector'.over = trace.over /\ collector'.dropped = trace.dropped
           /\ collector'.failed = fails
  <1>1. Ends(Remembered(w), RowsWritten \o w)  BY RememberedEnds DEF TraceInv
  <1>2. RowsWritten \o w \in Seq(Nat) /\ Remembered(w) \in Seq(Nat)
    BY <1>1, ConcatProperties DEF Ends, TraceInv, SeenInv, Collectors, RowsWritten
  <1> DEFINE seen2 == Remembered(w)
  <1> HIDE DEF seen2
  <1> DEFINE file2 == collector.file \o g
  <1>f. file2 \in Seq(Nat)  BY ConcatProperties DEF TraceInv, SeenInv, Collectors
  <1>g. file2 = collector.file \o g  OBVIOUS
  <1> HIDE DEF file2
  <1>3. collector' = [collector EXCEPT !.rows = collector.rows \o w, !.seen = seen2, !.file = file2,
                        !.over = trace.over, !.dropped = trace.dropped, !.failed = fails]
    BY <1>g DEF Write, seen2, TraceInv, SeenInv, Collectors
  <1>4. collector' = [rows |-> collector.rows \o w, seen |-> seen2, file |-> file2,
                      over |-> trace.over, dropped |-> trace.dropped, failed |-> fails]
    BY <1>3 DEF TraceInv, SeenInv, Collectors
  <1>5. /\ seen2 \in Seq(Nat) /\ collector.rows \o w \in Seq(Nat)
        /\ trace.over \in Nat /\ trace.dropped \in Nat
    BY <1>2 DEF seen2, RowsWritten, TraceInv, RingInv, Traces
  <1> DEFINE rows2 == collector.rows \o w
  <1>6. rows2 = RowsWritten \o w /\ seen2 = Remembered(w) /\ rows2 \in Seq(Nat)
    BY <1>5 DEF RowsWritten, seen2
  <1> HIDE DEF rows2
  <1>7. collector' = [rows |-> rows2, seen |-> seen2, file |-> file2, over |-> trace.over,
                      dropped |-> trace.dropped, failed |-> fails]
    BY <1>4 DEF rows2
  <1>8. /\ collector'.rows = rows2 /\ collector'.seen = seen2 /\ collector'.file = file2
        /\ collector'.over = trace.over /\ collector'.dropped = trace.dropped
        /\ collector'.failed = fails
    BY <1>7
  <1>9. collector' \in Collectors
    <2>1. [rows |-> rows2, seen |-> seen2, file |-> file2, over |-> trace.over,
           dropped |-> trace.dropped, failed |-> fails] \in Collectors
      BY <1>5, <1>6, <1>f DEF Collectors
    <2> QED  BY <1>7, <2>1
  <1> QED  BY <1>6, <1>8, <1>9, <1>g DEF RowsWritten, Seen, File

\* Where the entries of a joined sequence come from.
LEMMA Joined ==
    ASSUME NEW s \in Seq(Nat), NEW u \in Seq(Nat)
    PROVE  /\ \A i \in 1..Len(s) : i \in DOMAIN (s \o u) /\ (s \o u)[i] = s[i]
           /\ \A i \in 1..Len(u) :
                 Len(s) + i \in DOMAIN (s \o u) /\ (s \o u)[Len(s) + i] = u[i]
           /\ \A i \in DOMAIN (s \o u) :
                 i \in 1..Len(s) \/ \E p \in 1..Len(u) : i = Len(s) + p
  <1> DEFINE A == Len(s)
             B == Len(u)
             c == s \o u
  <1>1. A \in Nat /\ B \in Nat  BY LenProperties
  <1>2. c \in Seq(Nat) /\ Len(c) = A + B /\ DOMAIN c = 1..(A + B)
    BY ConcatProperties, LenProperties
  <1>3. \A i \in 1..(A + B) : c[i] = IF i <= A THEN s[i] ELSE u[i - A]  BY ConcatProperties
  <1> HIDE DEF A, B, c
  <1>4. ASSUME NEW i \in 1..A  PROVE i \in DOMAIN c /\ c[i] = s[i]
    <2>1. i \in 1..(A + B) /\ i <= A  BY <1>1
    <2> QED  BY <1>2, <1>3, <2>1
  <1>5. ASSUME NEW i \in 1..B  PROVE A + i \in DOMAIN c /\ c[A + i] = u[i]
    <2>1. A + i \in 1..(A + B) /\ ~(A + i <= A) /\ (A + i) - A = i  BY <1>1
    <2> QED  BY <1>2, <1>3, <2>1
  <1>6. ASSUME NEW i \in DOMAIN c  PROVE i \in 1..A \/ \E p \in 1..B : i = A + p
    <2>1. CASE i <= A  BY <1>1, <1>2, <2>1
    <2>2. CASE ~(i <= A)
      <3>1. i - A \in 1..B /\ i = A + (i - A)  BY <1>1, <1>2, <2>2
      <3> QED  BY <3>1
    <2> QED  BY <2>1, <2>2
  <1> QED  BY <1>4, <1>5, <1>6 DEF A, B, c

\* A sequence of the records behind a place of the ring.
LEMMA NewsSpelled ==
    ASSUME NEW n \in Nat, NEW k, NEW w \in Seq(Nat), w = [i \in 1..n |-> trace.ring[k + i]]
    PROVE  Len(w) = n /\ \A i \in 1..n : w[i] = trace.ring[k + i]
  <1>1. DOMAIN w = 1..n /\ \A i \in 1..n : w[i] = trace.ring[k + i]  OBVIOUS
  <1>2. DOMAIN w = 1..Len(w) /\ Len(w) \in Nat  BY LenProperties
  <1>3. Len(w) = n
    <2> DEFINE A == Len(w)
    <2>1. 1..A = 1..n /\ A \in Nat  BY <1>1, <1>2
    <2> HIDE DEF A
    <2>2. A = n  BY <2>1
    <2> QED  BY <2>2 DEF A
  <1> QED  BY <1>1, <1>3

\* The file and what a read gives it: the first m of its news, of which n are remembered.
LEMMA FileKeeps ==
    ASSUME TraceInv, trace'.ring = trace.ring, trace'.made = trace.made,
           NEW k \in 0..Len(trace.ring), Unseen = (k + 1)..Len(trace.ring),
           NEW n \in Nat, NEW m \in Nat, n <= m, m <= n + 1, m <= Len(trace.ring) - k,
           NEW w \in Seq(Nat), Len(w) = n, \A i \in 1..n : w[i] = trace.ring[k + i],
           NEW g \in Seq(Nat), Len(g) = m, \A i \in 1..m : g[i] = trace.ring[k + i],
           RowsWritten' = RowsWritten \o w, File' = File \o g,
           collector'.failed \/ (w = g /\ collector'.failed = collector.failed)
    PROVE  FileInv'
  <1> DEFINE ring == trace.ring
             L == Len(ring)
             table == RowsWritten
             R == Len(table)
             file == File
             F == Len(file)
             made == trace.made
             table2 == RowsWritten'
             file2 == File'
  <1>1. /\ ring \in Seq(Nat) /\ table \in Seq(Nat) /\ file \in Seq(Nat) /\ made \in Nat
        /\ Len(w) = n /\ Len(g) = m /\ n \in Nat /\ m \in Nat /\ n <= m /\ m <= n + 1
        /\ L \in Nat /\ k \in Nat /\ k <= L /\ m <= L - k
    <2>1. ring \in Seq(Nat) /\ table \in Seq(Nat) /\ file \in Seq(Nat) /\ made \in Nat
      BY DEF TraceInv, RingInv, SeenInv, Traces, Collectors, File, RowsWritten
    <2>2. L \in Nat  BY <2>1, LenProperties
    <2> HIDE DEF L
    <2>3. k \in Nat /\ k <= L /\ m <= L - k  BY <2>2 DEF L
    <2> QED  BY <2>1, <2>2, <2>3
  <1>2. /\ DOMAIN ring = 1..L /\ \A j \in 1..L : ring[j] \in Nat
        /\ R \in Nat /\ DOMAIN table = 1..R /\ \A i \in 1..R : table[i] \in Nat
        /\ F \in Nat /\ DOMAIN file = 1..F /\ \A i \in 1..F : file[i] \in Nat
    BY <1>1, LenProperties, ElementOfSeq
  <1>4. \A i \in 1..m : g[i] = ring[k + i] /\ k + i \in 1..L /\ k + i \in Unseen
    <2>1. Unseen = (k + 1)..L  OBVIOUS
    <2> HIDE DEF L
    <2>2. \A i \in 1..m : k + i \in 1..L /\ k + i \in (k + 1)..L  BY <1>1
    <2> QED  BY <2>1, <2>2
  <1>5. \A i \in 1..n : w[i] = ring[k + i] /\ w[i] = g[i] /\ i \in 1..m
    <2>1. \A i \in 1..n : i \in 1..m  BY <1>1
    <2> QED  BY <1>4, <2>1
  <1>6. \A i, j \in 1..L : i < j => ring[i] < ring[j]  BY <1>2 DEF TraceInv, RingInv, Increasing
  <1>7. /\ \A i, j \in 1..F : i < j => file[i] <= file[j]
        /\ \A i \in 1..F : 1 <= file[i] /\ file[i] <= made
        /\ \A i \in 1..R : \E j \in 1..F : file[j] = table[i]
        /\ \A i \in 1..F, j \in 1..L :
             ring[j] < file[i] => \E p \in 1..R : table[p] >= ring[j]
        /\ ~collector.failed => file = table
    BY <1>2 DEF TraceInv, FileInv, Within
  <1>8. \A j \in 1..L : 1 <= ring[j] /\ ring[j] <= made  BY <1>2 DEF TraceInv, RingInv, Within
  <1>9. \A i \in 1..m, p \in 1..R : ~ (table[p] >= ring[k + i])
    <2> SUFFICES ASSUME NEW i \in 1..m, NEW p \in 1..R, table[p] >= ring[k + i]  PROVE FALSE
      OBVIOUS
    <2>1. k + i \in DOMAIN ring /\ ~Known(ring[k + i])  BY <1>2, <1>4 DEF Unseen
    <2>2. p \in DOMAIN RowsWritten  BY <1>2
    <2> QED  BY <2>1, <2>2, KnownIsWritten DEF TraceInv
  <1>10. ASSUME NEW i \in 1..F, NEW j \in 1..m  PROVE file[i] <= ring[k + j]
    <2>1. file[i] \in Nat /\ ring[k + j] \in Nat  BY <1>2, <1>4
    <2>2. ~(ring[k + j] < file[i])
      <3> SUFFICES ASSUME ring[k + j] < file[i]  PROVE FALSE  OBVIOUS
      <3>1. PICK p \in 1..R : table[p] >= ring[k + j]  BY <1>4, <1>7
      <3> QED  BY <1>9, <3>1
    <2> HIDE DEF file, ring
    <2> QED  BY <2>1, <2>2
  <1>11. /\ \A i \in 1..F : i \in DOMAIN file2 /\ file2[i] = file[i]
         /\ \A i \in 1..m : F + i \in DOMAIN file2 /\ file2[F + i] = g[i]
         /\ \A i \in DOMAIN file2 : i \in 1..F \/ \E p \in 1..m : i = F + p
    <2>1. file2 = file \o g /\ file \in Seq(Nat) /\ g \in Seq(Nat) /\ Len(g) = m  BY <1>1
    <2> HIDE DEF file2, file
    <2>2. /\ \A i \in 1..F : i \in DOMAIN (file \o g) /\ (file \o g)[i] = file[i]
          /\ \A i \in 1..Len(g) :
                F + i \in DOMAIN (file \o g) /\ (file \o g)[F + i] = g[i]
          /\ \A i \in DOMAIN (file \o g) :
                i \in 1..F \/ \E p \in 1..Len(g) : i = F + p
      BY <2>1, Joined
    <2> QED  BY <2>1, <2>2
  <1>12. /\ \A i \in 1..R : i \in DOMAIN table2 /\ table2[i] = table[i]
         /\ \A i \in 1..n : R + i \in DOMAIN table2 /\ table2[R + i] = w[i]
         /\ \A i \in DOMAIN table2 : i \in 1..R \/ \E p \in 1..n : i = R + p
    <2>1. table2 = table \o w /\ table \in Seq(Nat) /\ w \in Seq(Nat) /\ Len(w) = n  BY <1>1
    <2> HIDE DEF table2, table
    <2>2. /\ \A i \in 1..R : i \in DOMAIN (table \o w) /\ (table \o w)[i] = table[i]
          /\ \A i \in 1..Len(w) :
                R + i \in DOMAIN (table \o w) /\ (table \o w)[R + i] = w[i]
          /\ \A i \in DOMAIN (table \o w) :
                i \in 1..R \/ \E p \in 1..Len(w) : i = R + p
      BY <2>1, Joined
    <2> QED  BY <2>1, <2>2
  <1>t. trace'.ring = ring /\ trace'.made = made  OBVIOUS
  <1>u. \A j \in 1..L : j \notin Unseen => \E p \in 1..R : table[p] >= ring[j]
    BY <1>2, KnownIsWritten DEF TraceInv, Unseen
  <1>v. \A j \in 1..L : j \in Unseen => \E p \in 1..(L - k) : j = k + p
    <2> SUFFICES ASSUME NEW j \in (k + 1)..L  PROVE \E p \in 1..(L - k) : j = k + p  OBVIOUS
    <2> WITNESS j - k \in 1..(L - k)
    <2> QED  BY <1>1
  <1>w. m <= L - k /\ (n = m \/ m = n + 1)  BY <1>1
  <1>x. \A j \in 1..L, q \in 1..R : j \in Unseen => ~(table[q] >= ring[j])
    <2> SUFFICES ASSUME NEW j \in 1..L, NEW q \in 1..R, j \in Unseen, table[q] >= ring[j]
                 PROVE  FALSE
      OBVIOUS
    <2>1. j \in DOMAIN ring /\ ~Known(ring[j]) /\ q \in DOMAIN RowsWritten  BY <1>2 DEF Unseen
    <2> QED  BY <2>1, KnownIsWritten DEF TraceInv
  <1> HIDE DEF ring, L, table, R, file, F, made, table2, file2
  <1>13. \A i \in 1..m : file2[F + i] = ring[k + i]  BY <1>4, <1>11
  <1>14. \A i \in 1..n : table2[R + i] = ring[k + i] /\ table2[R + i] = g[i]  BY <1>5, <1>12
  <1>15. ASSUME NEW i \in DOMAIN file2, NEW j \in DOMAIN file2, i < j
         PROVE  file2[i] <= file2[j]
    <2>1. CASE j \in 1..F
      <3>1. i \in 1..F
        <4>1. CASE i \in 1..F  BY <4>1
        <4>2. CASE \E p \in 1..m : i = F + p
          <5>1. PICK p \in 1..m : i = F + p  BY <4>2
          <5> QED  BY <1>1, <1>2, <1>15, <2>1, <5>1
        <4> QED  BY <1>11, <4>1, <4>2
      <3> QED  BY <1>7, <1>11, <1>15, <2>1, <3>1
    <2>2. ASSUME NEW q \in 1..m, j = F + q  PROVE file2[i] <= file2[j]
      <3>1. CASE i \in 1..F
        <4>1. file2[i] = file[i] /\ file2[j] = ring[k + q]  BY <1>11, <1>13, <2>2, <3>1
        <4> QED  BY <1>10, <3>1, <4>1
      <3>2. ASSUME NEW p \in 1..m, i = F + p  PROVE file2[i] <= file2[j]
        <4>1. k + p < k + q  BY <1>1, <1>2, <1>15, <2>2, <3>2
        <4>2. file2[i] = ring[k + p] /\ file2[j] = ring[k + q]  BY <1>13, <2>2, <3>2
        <4>3. ring[k + p] < ring[k + q]  BY <1>4, <1>6, <4>1
        <4> DEFINE a == ring[k + p]
                   b == ring[k + q]
        <4>4. a \in Nat /\ b \in Nat /\ a < b  BY <1>2, <1>4, <4>3
        <4> HIDE DEF a, b
        <4>5. a <= b  BY <4>4
        <4> QED  BY <4>2, <4>5 DEF a, b
      <3> QED  BY <1>11, <3>1, <3>2
    <2> QED  BY <1>11, <2>1, <2>2
  <1>16. Within(file2, made)
    <2> SUFFICES ASSUME NEW i \in DOMAIN file2  PROVE 1 <= file2[i] /\ file2[i] <= made
      BY DEF Within
    <2>1. CASE i \in 1..F  BY <1>7, <1>11, <2>1
    <2>2. ASSUME NEW p \in 1..m, i = F + p  PROVE 1 <= file2[i] /\ file2[i] <= made
      <3>1. file2[i] = ring[k + p]  BY <1>13, <2>2
      <3> QED  BY <1>4, <1>8, <3>1
    <2> QED  BY <1>11, <2>1, <2>2
  <1>17. ASSUME NEW i \in DOMAIN table2
         PROVE  \E j \in DOMAIN file2 : file2[j] = table2[i]
    <2>1. CASE i \in 1..R
      <3>1. PICK j \in 1..F : file[j] = table[i]  BY <1>7, <2>1
      <3> QED  BY <1>11, <1>12, <2>1, <3>1
    <2>2. ASSUME NEW p \in 1..n, i = R + p
          PROVE  \E j \in DOMAIN file2 : file2[j] = table2[i]
      <3>1. p \in 1..m /\ table2[i] = g[p]  BY <1>5, <1>14, <2>2
      <3>2. F + p \in DOMAIN file2 /\ file2[F + p] = g[p]  BY <1>11, <3>1
      <3> QED  BY <3>1, <3>2
    <2> QED  BY <1>12, <2>1, <2>2
  <1>20. ASSUME NEW i \in DOMAIN file2, NEW j \in 1..L, ring[j] < file2[i]
         PROVE  \E p \in DOMAIN table2 : table2[p] >= ring[j]
    <2>1. CASE j \notin Unseen
      <3>1. PICK p \in 1..R : table[p] >= ring[j]  BY <1>u, <2>1
      <3> QED  BY <1>12, <3>1
    <2>2. CASE j \in Unseen
      <3>1. PICK p \in 1..(L - k) : j = k + p  BY <1>v, <2>2
      <3>2. p \in 1..n
        <4> SUFFICES ASSUME ~(p \in 1..n)  PROVE FALSE  OBVIOUS
        <4>1. m <= p /\ 1 <= p /\ p \in Nat  BY <1>1, <1>2, <1>w, <3>1
        <4>2. ASSUME NEW q \in 1..m, i = F + q  PROVE FALSE
          <5>1. file2[i] = ring[k + q] /\ k + q \in 1..L  BY <1>4, <1>13, <4>2
          <5>2. k + q = j \/ k + q < j  BY <1>1, <1>2, <3>1, <4>1
          <5> DEFINE a == ring[k + q]
                     b == ring[j]
          <5>3. a \in Nat /\ b \in Nat /\ (a = b \/ a < b)  BY <1>2, <1>6, <5>1, <5>2
          <5>4. b < a  BY <1>20, <5>1
          <5> HIDE DEF a, b
          <5> QED  BY <5>3, <5>4
        <4>3. CASE i \in 1..F
          <5>1. PICK q \in 1..R : table[q] >= ring[j]  BY <1>7, <1>11, <1>20, <4>3
          <5> QED  BY <1>x, <2>2, <5>1
        <4> QED  BY <1>11, <4>2, <4>3
      <3>3. table2[R + p] = ring[j] /\ R + p \in DOMAIN table2  BY <1>12, <1>14, <3>1, <3>2
      <3>4. ring[j] \in Nat /\ ring[j] >= ring[j]  BY <1>2
      <3> QED  BY <3>3, <3>4
    <2> QED  BY <2>1, <2>2
  <1>21. ~collector'.failed => file2 = table2
    <2>1. ASSUME w = g, file = table  PROVE file2 = table2  BY <2>1 DEF file2, table2, file, table
    <2> QED  BY <1>7, <2>1
  <1>22. DOMAIN ring = 1..L  BY <1>2
  <1>23. /\ trace'.ring = ring /\ trace'.made = made
         /\ File' = file2 /\ RowsWritten' = table2
    BY <1>t DEF file2, table2
  <1> QED  BY <1>15, <1>16, <1>17, <1>20, <1>21, <1>22, <1>23 DEF FileInv

\* A read in full writes all that is new.
LEMMA CaptureKeeps ==
    ASSUME TraceInv, trace'.ring = trace.ring, trace'.made = trace.made, Capture
    PROVE  /\ SeenInv' /\ WrittenInv' /\ FileInv'
           /\ collector'.over = trace.over /\ collector'.dropped = trace.dropped
           /\ trace.over = 0 /\ trace.dropped = 0 =>
                 /\ FromFirst(RowsWritten')
                 /\ Len(RowsWritten') = trace.made
  <1>1. PICK k \in 0..Len(trace.ring) :
          /\ Unseen = (k + 1)..Len(trace.ring)
          /\ News = [i \in 1..(Len(trace.ring) - k) |-> trace.ring[k + i]]
    BY NewsAreLatest DEF TraceInv
  <1> DEFINE L == Len(trace.ring)
             n == L - k
             w == News
  <1>2. /\ trace.ring \in Seq(Nat) /\ L \in Nat /\ DOMAIN trace.ring = 1..L
        /\ n \in 0..(L - k) /\ n \in Nat
    BY DEF TraceInv, RingInv, Traces
  <1>3. w \in Seq(Nat)
    <2>1. \A i \in 1..n : k + i \in 1..L  BY <1>2
    <2>2. \A i \in 1..n : trace.ring[k + i] \in Nat  BY <1>2, <2>1, ElementOfSeq
    <2>3. w \in [1..n -> Nat]  BY <1>1, <2>2
    <2> HIDE DEF w, n
    <2> QED  BY <1>2, <2>3, FunctionIsSequence
  <1>4. collector' = [Write(w, w) EXCEPT !.failed = collector.failed]
    BY DEF Capture, Write, TraceInv, SeenInv, Collectors
  <1>5. collector.failed \in BOOLEAN  BY DEF TraceInv, SeenInv, Collectors
  <1>6. /\ collector' \in Collectors /\ File' = File \o w
        /\ RowsWritten' = RowsWritten \o w /\ Seen' = Remembered(w)
        /\ collector'.over = trace.over /\ collector'.dropped = trace.dropped
        /\ collector'.failed = collector.failed
    BY <1>3, <1>4, <1>5, WriteFields
  <1>7. Len(w) = n /\ \A i \in 1..n : w[i] = trace.ring[k + i]  BY <1>1, <1>2, <1>3, NewsSpelled
  <1>8. n \in Nat /\ n <= n /\ n <= n + 1 /\ n <= Len(trace.ring) - k  BY <1>2
  <1>w. w = [i \in 1..n |-> trace.ring[k + i]]  BY <1>1
  <1> HIDE DEF w
  <1>9. FileInv'
    <2> HIDE DEF n
    <2> QED  BY <1>1, <1>2, <1>3, <1>6, <1>7, <1>8, FileKeeps
  <1> QED  BY <1>1, <1>2, <1>6, <1>w, <1>9, WriteKeeps

\* The first so many of the news.
LEMMA FirstNews ==
    ASSUME TraceInv, NEW k \in 0..Len(trace.ring),
           News = [i \in 1..(Len(trace.ring) - k) |-> trace.ring[k + i]]
    PROVE  /\ Len(News) = Len(trace.ring) - k /\ Len(News) \in Nat
           /\ \A n \in 0..Len(News) :
                /\ SubSeq(News, 1, n) \in Seq(Nat)
                /\ SubSeq(News, 1, n) = [i \in 1..n |-> trace.ring[k + i]]
  <1> DEFINE L == Len(trace.ring)
             news == News
  <1>2. trace.ring \in Seq(Nat) /\ L \in Nat /\ DOMAIN trace.ring = 1..L
    BY DEF TraceInv, RingInv, Traces
  <1>3. \A i \in 1..(L - k) : k + i \in 1..L  BY <1>2
  <1>4. \A i \in 1..(L - k) : trace.ring[k + i] \in Nat  BY <1>2, <1>3, ElementOfSeq
  <1>5. news \in [1..(L - k) -> Nat] /\ L - k \in Nat
    <2>1. L - k \in Nat  BY <1>2
    <2>2. News \in [1..(L - k) -> Nat]  BY <1>4
    <2> QED  BY <2>1, <2>2
  <1>6. news \in Seq(Nat) /\ Len(news) = L - k
    <2> HIDE DEF news
    <2> QED  BY <1>5, FunctionIsSequence
  <1>7. ASSUME NEW n \in 0..Len(News)
        PROVE  /\ SubSeq(News, 1, n) \in Seq(Nat)
               /\ SubSeq(News, 1, n) = [i \in 1..n |-> trace.ring[k + i]]
    <2> DEFINE w == SubSeq(News, 1, n)
    <2>7. n \in 0..(L - k) /\ n \in Nat /\ n <= L - k  BY <1>2, <1>6
    <2>8. \A i \in 1..n : i \in 1..(L - k)  BY <1>2, <2>7
    <2>9. \A i \in 1..(L - k) : news[i] = trace.ring[k + i]  OBVIOUS
    <2> HIDE DEF news
    <2>10. w = SubSeq(news, 1, n)  BY DEF news
    <2>11. /\ w \in Seq(Nat) /\ Len(w) = n
           /\ \A i \in 1..n : w[i] = news[i]
      <3>1. /\ SubSeq(news, 1, n) \in Seq(Nat)
            /\ Len(SubSeq(news, 1, n)) = IF 1 <= n THEN n - 1 + 1 ELSE 0
            /\ \A i \in 1..(n - 1 + 1) : SubSeq(news, 1, n)[i] = news[1 + i - 1]
        <4>1. \A i \in 1..n : news[i] \in Nat  BY <1>4, <2>8, <2>9
        <4> QED  BY <2>7, <4>1, SubSeqProperties
      <3>2. \A i \in 1..n : i \in 1..(n - 1 + 1) /\ 1 + i - 1 = i  BY <2>7
      <3> HIDE DEF w
      <3> QED  BY <2>7, <2>10, <3>1, <3>2
    <2> HIDE DEF w
    <2>12. w = [i \in 1..n |-> trace.ring[k + i]]
      <3>1. \A i \in 1..n : w[i] = trace.ring[k + i]  BY <2>8, <2>9, <2>11
      <3>2. DOMAIN w = 1..n /\ w = [i \in DOMAIN w |-> w[i]]  BY <2>11
      <3> QED  BY <3>1, <3>2
    <2> QED  BY <2>11, <2>12 DEF w
  <1> QED  BY <1>5, <1>6, <1>7

\* A read that raises leaves what it had written, and remembers all of it or all but one.
LEMMA CaptureRaisesKeeps ==
    ASSUME TraceInv, trace'.ring = trace.ring, trace'.made = trace.made, CaptureRaises
    PROVE  /\ SeenInv' /\ WrittenInv' /\ FileInv' /\ collector'.failed
           /\ trace.over = 0 /\ trace.dropped = 0 => FromFirst(RowsWritten')
  <1>1. CASE collector' = [collector EXCEPT !.failed = TRUE]
    <2>1. /\ collector' \in Collectors /\ RowsWritten' = RowsWritten /\ Seen' = Seen
          /\ collector'.failed /\ File' = File
      BY <1>1 DEF TraceInv, SeenInv, Collectors, RowsWritten, Seen, File
    <2>2. SeenInv'  BY <2>1 DEF TraceInv, SeenInv
    <2>3. WrittenInv'  BY <2>1 DEF TraceInv, WrittenInv, RowsWritten
    <2>4. FileInv'  BY <2>1 DEF TraceInv, FileInv
    <2> QED  BY <2>1, <2>2, <2>3, <2>4 DEF TraceInv, ClosedInv
  <1>2. ASSUME NEW n \in 0..Len(News), NEW m \in 0..Len(News), m \in {n, n + 1},
               collector' = [Write(SubSeq(News, 1, n), SubSeq(News, 1, m)) EXCEPT !.failed = TRUE]
        PROVE  /\ SeenInv' /\ WrittenInv' /\ FileInv' /\ collector'.failed
               /\ trace.over = 0 /\ trace.dropped = 0 => FromFirst(RowsWritten')
    <2>1. PICK k \in 0..Len(trace.ring) :
            /\ Unseen = (k + 1)..Len(trace.ring)
            /\ News = [i \in 1..(Len(trace.ring) - k) |-> trace.ring[k + i]]
      BY NewsAreLatest DEF TraceInv
    <2> DEFINE w == SubSeq(News, 1, n)
               g == SubSeq(News, 1, m)
    <2>2. /\ Len(News) = Len(trace.ring) - k
          /\ w \in Seq(Nat) /\ w = [i \in 1..n |-> trace.ring[k + i]]
          /\ g \in Seq(Nat) /\ g = [i \in 1..m |-> trace.ring[k + i]]
      BY <2>1, FirstNews
    <2>3. n \in 0..(Len(trace.ring) - k) /\ m <= Len(trace.ring) - k  BY <2>2
    <2>4. collector' = [Write(w, g) EXCEPT !.failed = TRUE]  BY <1>2
    <2> HIDE DEF w, g
    <2>5. /\ collector' \in Collectors /\ collector'.failed /\ File' = File \o g
          /\ RowsWritten' = RowsWritten \o w /\ Seen' = Remembered(w)
      BY <2>2, <2>4, WriteFields
    <2>6. FileInv'
      <3>1. n \in Nat /\ m \in Nat /\ n <= m /\ m <= n + 1 /\ m <= Len(trace.ring) - k
        BY <1>2, <2>3
      <3>2. Len(w) = n /\ \A i \in 1..n : w[i] = trace.ring[k + i]  BY <2>2, <3>1, NewsSpelled
      <3>3. Len(g) = m /\ \A i \in 1..m : g[i] = trace.ring[k + i]  BY <2>2, <3>1, NewsSpelled
      <3> QED  BY <2>1, <2>2, <2>5, <3>1, <3>2, <3>3, FileKeeps
    <2> QED  BY <2>1, <2>2, <2>3, <2>5, <2>6, WriteKeeps
  <1> QED  BY <1>1, <1>2 DEF CaptureRaises

\* The latest members of a sequence, followed by a later one.
Shifted(K, d, made, s, s2) ==
    /\ K \in Nat /\ d \in {0, 1} /\ made \in Nat
    /\ DOMAIN s = 1..(K + d) /\ DOMAIN s2 = 1..(K + 1)
    /\ \A p \in 1..(K + d) : s[p] \in Nat
    /\ \A i \in 1..K : s2[i] = s[i + d]
    /\ s2[K + 1] = made + 1
    /\ Increasing(s) /\ Within(s, made)

\* They stay in order, and only the first one may go.
Renewed(d, made, s, s2) ==
    /\ Increasing(s2) /\ Within(s2, made + 1)
    /\ \A j \in DOMAIN s2 : s2[j] = made + 1 \/ \E p \in DOMAIN s : s2[j] = s[p] /\ p > d
    /\ \A p \in DOMAIN s : p > d => \E j \in DOMAIN s2 : s2[j] = s[p]

LEMMA ShiftedMembers ==
    ASSUME NEW K, NEW d, NEW made, NEW s, NEW s2, Shifted(K, d, made, s, s2)
    PROVE  Renewed(d, made, s, s2)
  <1> USE DEF Shifted
  <1>1. \A i \in 1..K : i + d \in 1..(K + d) /\ i + d > d /\ i \in 1..(K + 1)  OBVIOUS
  <1>2. \A p \in 1..(K + d) : p > d => p - d \in 1..K /\ (p - d) + d = p  OBVIOUS
  <1>3. \A j \in 1..(K + 1) : j \in 1..K \/ j = K + 1  OBVIOUS
  <1>4. \A p \in 1..(K + d) : 1 <= s[p] /\ s[p] <= made  BY DEF Within
  <1>5. \A i, j \in 1..(K + d) : i < j => s[i] < s[j]  BY DEF Increasing
  <1>6. \A i, j \in 1..K : i < j => i + d < j + d  OBVIOUS
  <1>7. \A i \in 1..K : 1 <= s2[i] /\ s2[i] < made + 1 /\ s2[i] <= made + 1
    <2> SUFFICES ASSUME NEW i \in 1..K
                 PROVE  1 <= s2[i] /\ s2[i] < made + 1 /\ s2[i] <= made + 1
      OBVIOUS
    <2>1. i + d \in 1..(K + d) /\ s2[i] = s[i + d]  BY <1>1
    <2>2. s[i + d] \in Nat /\ made \in Nat /\ 1 <= s[i + d] /\ s[i + d] <= made  BY <1>4, <2>1
    <2> HIDE DEF Shifted
    <2>3. \A x \in Nat : x <= made => x < made + 1 /\ x <= made + 1  BY <2>2
    <2> QED  BY <2>1, <2>2, <2>3, Zenon
  <1>8. Within(s2, made + 1)  BY <1>3, <1>7 DEF Within
  <1>9. Increasing(s2)
    <2> SUFFICES ASSUME NEW i \in 1..(K + 1), NEW j \in 1..(K + 1), i < j
                 PROVE  s2[i] < s2[j]
      BY DEF Increasing
    <2>0. i \in 1..K  OBVIOUS
    <2>1. CASE j \in 1..K  BY <1>1, <1>5, <1>6, <2>0, <2>1
    <2>2. CASE j = K + 1  BY <1>7, <2>0, <2>2
    <2> QED  BY <1>3, <2>1, <2>2
  <1>10. \A j \in 1..(K + 1) : s2[j] = made + 1 \/ \E p \in 1..(K + d) : s2[j] = s[p] /\ p > d
    BY <1>1, <1>3
  <1>11. \A p \in 1..(K + d) : p > d => \E j \in 1..(K + 1) : s2[j] = s[p]
    <2> SUFFICES ASSUME NEW p \in 1..(K + d), p > d
                 PROVE  \E j \in 1..(K + 1) : s2[j] = s[p]
      OBVIOUS
    <2>1. p - d \in 1..K /\ p - d \in 1..(K + 1) /\ s2[p - d] = s[p]  BY <1>1, <1>2
    <2> QED  BY <2>1
  <1> QED  BY <1>8, <1>9, <1>10, <1>11 DEF Renewed

LEMMA AppendedFields ==
    ASSUME NEW s \in Seq(Nat), NEW x \in Nat
    PROVE  /\ Append(s, x) \in Seq(Nat) /\ Len(Append(s, x)) = Len(s) + 1
           /\ DOMAIN Append(s, x) = 1..(Len(s) + 1)
           /\ \A i \in 1..Len(s) : Append(s, x)[i] = s[i]
           /\ Append(s, x)[Len(s) + 1] = x
  OBVIOUS

LEMMA TailFields ==
    ASSUME NEW s \in Seq(Nat), Len(s) > 0
    PROVE  /\ Tail(s) \in Seq(Nat) /\ Len(Tail(s)) = Len(s) - 1
           /\ \A i \in 1..(Len(s) - 1) : Tail(s)[i] = s[i + 1]
  <1>1. s # << >>  OBVIOUS
  <1> QED  BY <1>1, HeadTailProperties

\* A ring that is given one record more, over its oldest one when it is full.
Pushed(d, made, s) == Append(IF d = 1 THEN Tail(s) ELSE s, made + 1)

PushedInto(d, made, s, s2) ==
    /\ s2 \in Seq(Nat) /\ Len(s2) = Len(s) - d + 1
    /\ s2[Len(s2)] = made + 1
    /\ d = 0 => \A i \in 1..Len(s) : s2[i] = s[i]
    /\ Renewed(d, made, s, s2)

LEMMA AppendedRing ==
    ASSUME NEW s \in Seq(Nat), NEW made \in Nat, NEW d \in {0, 1}, d <= Len(s),
           Increasing(s), Within(s, made)
    PROVE  PushedInto(d, made, s, Pushed(d, made, s))
  <1> DEFINE kept == IF d = 1 THEN Tail(s) ELSE s
             K == Len(s) - d
             s2 == Pushed(d, made, s)
  <1>1. kept \in Seq(Nat) /\ Len(kept) = K /\ \A i \in 1..K : kept[i] = s[i + d]
    <2>1. CASE d = 0
      <3>1. \A i \in 1..K : i + d = i  BY <2>1
      <3> QED  BY <2>1, <3>1
    <2>2. CASE d = 1  BY <2>2, TailFields
    <2> QED  BY <2>1, <2>2
  <1>2. s2 = Append(kept, made + 1) /\ made + 1 \in Nat  BY DEF Pushed
  <1>3. K \in Nat /\ DOMAIN s = 1..(K + d) /\ \A p \in 1..(K + d) : s[p] \in Nat  BY ElementOfSeq
  <1>4. d = 0 => K = Len(s) /\ \A i \in 1..K : i + d = i  OBVIOUS
  <1> HIDE DEF kept, K, s2
  <1>5. /\ s2 \in Seq(Nat) /\ Len(s2) = K + 1 /\ DOMAIN s2 = 1..(K + 1)
        /\ \A i \in 1..K : s2[i] = s[i + d]
        /\ s2[K + 1] = made + 1
    BY <1>1, <1>2, AppendedFields
  <1>6. Renewed(d, made, s, s2)
    <2>1. Shifted(K, d, made, s, s2)  BY <1>3, <1>5 DEF Shifted
    <2> QED  BY <2>1, ShiftedMembers
  <1>7. Len(s2) = Len(s) - d + 1 /\ s2[Len(s2)] = made + 1  BY <1>5 DEF K
  <1>8. d = 0 => \A i \in 1..Len(s) : s2[i] = s[i]  BY <1>4, <1>5
  <1>9. PushedInto(d, made, s, s2)  BY <1>5, <1>6, <1>7, <1>8 DEF PushedInto
  <1> QED  BY <1>9 DEF s2

\* A record reaches the ring or is counted as lost, and no row is behind it.
LEMMA RecordKeeps == TraceInv /\ Record => TraceInv'
  <1> SUFFICES ASSUME TraceInv, Record  PROVE TraceInv'  OBVIOUS
  <1> DEFINE ring == trace.ring
             table == RowsWritten
             made == trace.made
  <1>0. /\ ring \in Seq(Nat) /\ made \in Nat /\ trace.over \in Nat /\ trace.dropped \in Nat
        /\ trace.on /\ Len(ring) \in Nat /\ Len(ring) <= Capacity /\ Capacity > 0
        /\ Capacity \in Nat /\ DOMAIN ring = 1..Len(ring)
        /\ Increasing(ring) /\ Within(ring, made)
        /\ table \in Seq(Nat)
    <2>1. /\ ring \in Seq(Nat) /\ made \in Nat /\ trace.over \in Nat /\ trace.dropped \in Nat
          /\ Len(ring) <= Capacity /\ Increasing(ring) /\ Within(ring, made)
      BY DEF TraceInv, RingInv, Traces
    <2>2. Len(ring) \in Nat /\ DOMAIN ring = 1..Len(ring)
      <3> HIDE DEF ring
      <3> QED  BY <2>1
    <2>3. table \in Seq(Nat)  BY SeenShape DEF TraceInv
    <2>4. trace.on /\ Capacity > 0 /\ Capacity \in Nat  BY TraceAssumption DEF Record
    <2> QED  BY <2>1, <2>2, <2>3, <2>4
  <1>r. /\ \A i \in DOMAIN table : table[i] \in Nat /\ 1 <= table[i] /\ table[i] <= made
        /\ \A j \in DOMAIN ring : ring[j] \in Nat
    <2>1. \A i \in DOMAIN table : 1 <= table[i] /\ table[i] <= made
      BY DEF TraceInv, SeenInv, Within
    <2>2. DOMAIN table = 1..Len(table)  BY SeenShape DEF TraceInv
    <2> HIDE DEF table, ring, made
    <2>3. \A i \in DOMAIN table : table[i] \in Nat  BY <1>0, <2>2, ElementOfSeq
    <2>4. \A j \in DOMAIN ring : ring[j] \in Nat  BY <1>0, ElementOfSeq
    <2> QED  BY <2>1, <2>3, <2>4
  <1>1. /\ UNCHANGED <<step, port, collector>> /\ RowsWritten' = table /\ Seen' = Seen
        /\ File' = File
    BY DEF Record, RowsWritten, Seen, File
  <1>f. /\ \A i \in DOMAIN File : File[i] \in Nat /\ 1 <= File[i] /\ File[i] <= made
        /\ Within(File, made + 1)
    <2>1. File \in Seq(Nat) /\ \A i \in DOMAIN File : 1 <= File[i] /\ File[i] <= made
      BY DEF TraceInv, FileInv, Within, SeenInv, Collectors, File
    <2> HIDE DEF made
    <2>2. \A i \in DOMAIN File : File[i] \in Nat  BY <2>1, ElementOfSeq
    <2> QED  BY <1>0, <2>1, <2>2 DEF Within
  <1>2. AttestInv'  BY <1>1 DEF TraceInv, AttestInv, AttestedIsLocal
  <1>3. SeenInv' \/ ~ (trace'.made = made + 1)
    <2> SUFFICES ASSUME trace'.made = made + 1  PROVE SeenInv'  OBVIOUS
    <2>1. Within(table, made + 1)
      <3>1. \A i \in DOMAIN table : 1 <= table[i] /\ table[i] <= made + 1  BY <1>0, <1>r
      <3> QED  BY <3>1 DEF Within
    <2> QED  BY <1>1, <2>1 DEF TraceInv, SeenInv
  <1>4. ASSUME NEW d \in {0, 1}, d = 1 <=> Len(ring) = Capacity,
               trace' = [trace EXCEPT !.made = made + 1,
                            !.ring = Append(IF d = 1 THEN Tail(ring) ELSE ring, made + 1),
                            !.over = IF d = 1 THEN @ + 1 ELSE @]
        PROVE  TraceInv'
    <2> DEFINE ring2 == Append(IF d = 1 THEN Tail(ring) ELSE ring, made + 1)
    <2>1. /\ ring2 \in Seq(Nat) /\ Len(ring2) = Len(ring) - d + 1
          /\ ring2[Len(ring2)] = made + 1
          /\ d = 0 => \A i \in 1..Len(ring) : ring2[i] = ring[i]
          /\ Renewed(d, made, ring, ring2)
      <3>1. d <= Len(ring)  BY <1>0, <1>4
      <3>2. ring2 = Pushed(d, made, ring)  BY DEF Pushed
      <3> HIDE DEF ring, made, ring2
      <3>3. PushedInto(d, made, ring, Pushed(d, made, ring))  BY <1>0, <3>1, AppendedRing
      <3> QED  BY <3>2, <3>3 DEF PushedInto
    <2> HIDE DEF ring2
    <2> DEFINE over2 == IF d = 1 THEN trace.over + 1 ELSE trace.over
    <2>2. over2 \in Nat /\ (over2 = 0 => d = 0 /\ trace.over = 0) /\ made + 1 \in Nat  BY <1>0
    <2> HIDE DEF over2
    <2>3. trace' = [trace EXCEPT !.made = made + 1, !.ring = ring2, !.over = over2]
      BY <1>4 DEF TraceInv, RingInv, Traces, ring2, over2
    <2>4. /\ trace'.made = made + 1 /\ trace'.ring = ring2 /\ trace'.over = over2
          /\ trace'.dropped = trace.dropped /\ trace'.on = trace.on
      BY <2>3 DEF TraceInv, RingInv, Traces
    <2>5. trace' \in Traces  BY <2>1, <2>2, <2>3 DEF TraceInv, RingInv, Traces
    <2>6. RingInv'
      <3>1. Increasing(ring2) /\ Within(ring2, made + 1)  BY <2>1 DEF Renewed
      <3>2. Len(ring2) <= Capacity  BY <1>0, <1>4, <2>1
      <3>3. ASSUME over2 = 0, trace.dropped = 0
            PROVE  Len(ring2) = made + 1 /\ FromFirst(ring2)
        <4>1. d = 0 /\ Len(ring) = made /\ \A i \in 1..Len(ring) : ring[i] = i
          BY <1>0, <2>2, <3>3 DEF TraceInv, RingInv, FromFirst
        <4>2. Len(ring2) = made + 1  BY <1>0, <2>1, <4>1
        <4>3. \A i \in 1..made : ring2[i] = i  BY <2>1, <4>1
        <4>4. \A i \in DOMAIN ring2 : i \in 1..made \/ i = made + 1
          <5>1. DOMAIN ring2 = 1..Len(ring2)  BY <2>1
          <5>2. DOMAIN ring2 = 1..(made + 1)  BY <4>2, <5>1
          <5> QED  BY <1>0, <5>2
        <4> QED  BY <2>1, <4>2, <4>3, <4>4 DEF FromFirst
      <3> QED  BY <2>4, <2>5, <3>1, <3>2, <3>3 DEF RingInv
    <2>7. SeenInv'  BY <1>3, <2>4
    <2>8. ASSUME NEW i \in DOMAIN table, NEW j \in DOMAIN ring2, table[i] >= ring2[j]
          PROVE  /\ \E k \in DOMAIN ring2 : ring2[k] = table[i]
                 /\ \E k \in DOMAIN table : table[k] = ring2[j]
      <3>1. ring2[j] # made + 1  BY <1>0, <1>r, <2>8
      <3>2. PICK p \in DOMAIN ring : ring2[j] = ring[p] /\ p > d  BY <2>1, <3>1 DEF Renewed
      <3>3. PICK k \in DOMAIN ring : ring[k] = table[i]  BY <2>8, <3>2 DEF TraceInv, WrittenInv
      <3>4. k > d
        <4> SUFFICES ASSUME k <= d  PROVE FALSE  BY <1>0
        <4>1. k < p  BY <1>0, <3>2
        <4>2. ring[k] < ring[p]  BY <1>0, <4>1 DEF Increasing
        <4> QED  BY <1>r, <2>8, <3>2, <3>3, <4>2
      <3>5. \E m \in DOMAIN ring2 : ring2[m] = ring[k]  BY <2>1, <3>4 DEF Renewed
      <3>6. \E m \in DOMAIN table : table[m] = ring[p]  BY <2>8, <3>2 DEF TraceInv, WrittenInv
      <3> QED  BY <3>2, <3>3, <3>5, <3>6
    <2>9. WrittenInv'  BY <1>1, <2>4, <2>8 DEF WrittenInv
    <2>10. ClosedInv'
      <3>1. trace'.over = 0 /\ trace'.dropped = 0 => FromFirst(table)
        BY <2>2, <2>4 DEF TraceInv, ClosedInv
      <3> QED  BY <1>0, <1>1, <3>1 DEF TraceInv, ClosedInv
    <2>11. ASSUME NEW i \in DOMAIN File, NEW j \in DOMAIN ring2, ring2[j] < File[i]
           PROVE  \E k \in DOMAIN table : table[k] >= ring2[j]
      <3>1. ring2[j] # made + 1  BY <1>0, <1>f, <2>11
      <3>2. PICK p \in DOMAIN ring : ring2[j] = ring[p]  BY <2>1, <3>1 DEF Renewed
      <3> QED  BY <2>11, <3>2 DEF TraceInv, FileInv
    <2>12. FileInv'  BY <1>1, <1>f, <2>4, <2>11 DEF TraceInv, FileInv
    <2> QED  BY <1>2, <2>6, <2>7, <2>9, <2>10, <2>12 DEF TraceInv
  <1>5. ASSUME trace' = [trace EXCEPT !.made = made + 1, !.dropped = @ + 1]
        PROVE  TraceInv'
    <2> DEFINE made2 == made + 1
               dropped2 == trace.dropped + 1
    <2>0. made2 \in Nat /\ dropped2 \in Nat  BY <1>0
    <2>a. trace' = [trace EXCEPT !.made = made2, !.dropped = dropped2] /\ trace \in Traces
      BY <1>5 DEF TraceInv, RingInv
    <2>1. /\ trace'.made = made + 1 /\ trace'.ring = ring /\ trace'.over = trace.over
          /\ trace'.dropped = trace.dropped + 1 /\ trace'.on = trace.on /\ trace' \in Traces
      <3>1. made2 = made + 1 /\ dropped2 = trace.dropped + 1  OBVIOUS
      <3> HIDE DEF made2, dropped2
      <3> QED  BY <2>0, <2>a, <3>1 DEF Traces
    <2>2. trace'.dropped # 0  BY <1>0, <2>1
    <2>3. RingInv'
      <3>1. Within(ring, made + 1)
        <4>1. \A j \in DOMAIN ring : 1 <= ring[j] /\ ring[j] <= made + 1  BY <1>0, <1>r DEF Within
        <4> QED  BY <4>1 DEF Within
      <3> QED  BY <1>0, <2>1, <2>2, <3>1 DEF RingInv
    <2>4. SeenInv'  BY <1>3, <2>1
    <2>5. WrittenInv'  BY <1>1, <2>1 DEF TraceInv, WrittenInv
    <2>6. ClosedInv'  BY <1>0, <1>1, <2>2 DEF TraceInv, ClosedInv
    <2>7. FileInv'  BY <1>1, <1>f, <2>1 DEF TraceInv, FileInv
    <2> QED  BY <1>2, <2>3, <2>4, <2>5, <2>6, <2>7 DEF TraceInv
  <1>6. \/ trace' = [trace EXCEPT !.made = made + 1, !.dropped = @ + 1]
        \/ \E d \in {0, 1} :
             /\ d = 1 <=> Len(ring) = Capacity
             /\ trace' = [trace EXCEPT !.made = made + 1,
                            !.ring = Append(IF d = 1 THEN Tail(ring) ELSE ring, made + 1),
                            !.over = IF d = 1 THEN @ + 1 ELSE @]
    <2>1. CASE Len(ring) = Capacity  BY <2>1 DEF Record
    <2>2. CASE Len(ring) # Capacity  BY <2>2 DEF Record
    <2> QED  BY <2>1, <2>2
  <1> QED  BY <1>4, <1>5, <1>6

\* A step that leaves the ring and the table alone keeps what relates them.
LEMMA TraceRests ==
    ASSUME TraceInv, trace' \in Traces, trace'.ring = trace.ring, trace'.made = trace.made,
           trace'.over = trace.over, trace'.dropped = trace.dropped,
           collector' \in Collectors, RowsWritten' = RowsWritten, Seen' = Seen,
           File' = File, collector'.failed \/ collector'.failed = collector.failed
    PROVE  RingInv' /\ SeenInv' /\ WrittenInv' /\ FileInv'
           /\ (trace'.over = 0 /\ trace'.dropped = 0 => FromFirst(RowsWritten'))
  <1>1. RingInv'  BY DEF TraceInv, RingInv
  <1>2. SeenInv'  BY DEF TraceInv, SeenInv
  <1>3. WrittenInv'  BY DEF TraceInv, WrittenInv
  <1>4. FileInv'  BY DEF TraceInv, FileInv
  <1> QED  BY <1>1, <1>2, <1>3, <1>4 DEF TraceInv, ClosedInv

\* Nobody is attested before the port is, and then the port is this process's alone.
LEMMA AttestKeeps ==
    ASSUME AttestInv,
           \/ OtherListens \/ VerifyBeforeCreation \/ CreateManager \/ AttestAfterCreation
           \/ UNCHANGED port /\ step' \notin {"verify", "verify again", "create", "attest"}
           \/ UNCHANGED <<port, step>>
    PROVE  AttestInv'
  <1> DEFINE Ports == [owners : SUBSET {"me", "other"}, local : BOOLEAN, attested : BOOLEAN]
  <1>0. port \in Ports  BY DEF AttestInv
  <1>1. CASE OtherListens
    <2>1. PICK owners \in SUBSET {"me", "other"} :
            /\ "me" \in owners <=> "me" \in port.owners
            /\ port' = [port EXCEPT !.owners = owners]
      BY <1>0, <1>1 DEF OtherListens
    <2>2. /\ port' \in Ports /\ port'.owners = owners
          /\ port'.local = port.local /\ port'.attested = port.attested /\ step' = step
      BY <1>0, <1>1, <2>1 DEF OtherListens
    <2> QED  BY <2>1, <2>2 DEF AttestInv, AttestedIsLocal
  <1>2. CASE VerifyBeforeCreation  BY <1>2 DEF VerifyBeforeCreation, AttestInv, AttestedIsLocal
  <1>3. CASE CreateManager
    <2>1. PICK owners \in SUBSET {"me", "other"}, local \in BOOLEAN :
            /\ "me" \in owners => local
            /\ port' = [port EXCEPT !.local = local, !.owners = owners]
      BY <1>0, <1>3 DEF CreateManager
    <2>2. /\ port' \in Ports /\ port'.owners = owners
          /\ port'.local = local /\ port'.attested = port.attested
      BY <1>0, <2>1
    <2>3. ~port.attested /\ step' = "attest"  BY <1>3 DEF CreateManager, AttestInv
    <2> QED  BY <2>1, <2>2, <2>3 DEF AttestInv, AttestedIsLocal
  <1>4. CASE AttestAfterCreation
    <2>1. step = "attest" /\ step' \in {"look", "refused"}  BY <1>4 DEF AttestAfterCreation
    <2>2. CASE port.owners = {"me"}
      <3>1. port' \in Ports /\ port'.local = port.local /\ port.local
        BY <1>0, <1>4, <2>1, <2>2 DEF AttestAfterCreation, AttestInv
      <3> QED  BY <2>1, <3>1 DEF AttestInv, AttestedIsLocal
    <2>3. CASE port.owners # {"me"}
      BY <1>4, <2>1, <2>3 DEF AttestAfterCreation, AttestInv, AttestedIsLocal
    <2> QED  BY <2>2, <2>3
  <1>5. CASE UNCHANGED port /\ step' \notin {"verify", "verify again", "create", "attest"}
    BY <1>5 DEF AttestInv, AttestedIsLocal
  <1>6. CASE UNCHANGED <<port, step>>  BY <1>6 DEF AttestInv, AttestedIsLocal
  <1> QED  BY <1>1, <1>2, <1>3, <1>4, <1>5, <1>6

LEMMA TraceStep == TraceInv /\ [TraceNext]_traceVars => TraceInv'
  <1> SUFFICES ASSUME TraceInv, [TraceNext]_traceVars  PROVE TraceInv'  OBVIOUS
  <1> USE DEF TraceInv
  <1>0. /\ trace \in Traces /\ collector \in Collectors /\ AttestInv
        /\ collector.failed \in BOOLEAN
    BY DEF RingInv, SeenInv, Collectors
  <1>a. ASSUME collector' = [collector EXCEPT !.failed = TRUE]
        PROVE  /\ collector' \in Collectors /\ RowsWritten' = RowsWritten /\ Seen' = Seen
               /\ collector'.failed /\ File' = File
    BY <1>0, <1>a DEF Collectors, RowsWritten, Seen, File
  <1>b. ASSUME collector' = collector
        PROVE  /\ collector' \in Collectors /\ RowsWritten' = RowsWritten /\ Seen' = Seen
               /\ File' = File /\ collector'.failed = collector.failed
    BY <1>0, <1>b DEF RowsWritten, Seen, File
  <1>c. ASSUME trace' = trace
        PROVE  /\ trace' \in Traces /\ trace'.ring = trace.ring /\ trace'.made = trace.made
               /\ trace'.over = trace.over /\ trace'.dropped = trace.dropped
    BY <1>0, <1>c
  <1>d. ASSUME NEW on \in BOOLEAN, trace' = [trace EXCEPT !.on = on]
        PROVE  /\ trace' \in Traces /\ trace'.ring = trace.ring /\ trace'.made = trace.made
               /\ trace'.over = trace.over /\ trace'.dropped = trace.dropped
               /\ trace'.on = on
    BY <1>0, <1>d DEF Traces
  <1>e. ASSUME trace' \in Traces, trace'.ring = trace.ring, trace'.made = trace.made,
               trace'.over = trace.over, trace'.dropped = trace.dropped
        PROVE  RingInv'
    BY <1>e DEF RingInv
  <1>1. CASE UNCHANGED <<trace, collector>> /\ step' \notin {"summary", "closed"} /\ AttestInv'
    <2>1. RingInv' /\ SeenInv' /\ WrittenInv' /\ FileInv'
          /\ (trace'.over = 0 /\ trace'.dropped = 0 => FromFirst(RowsWritten'))
      BY <1>1, <1>b, <1>c, TraceRests
    <2> QED  BY <1>1, <2>1 DEF ClosedInv
  <1>2. CASE OtherListens \/ VerifyBeforeCreation \/ CreateManager \/ AttestAfterCreation
    <2>1. AttestInv'  BY <1>0, <1>2, AttestKeeps
    <2>2. UNCHANGED <<trace, collector>> /\ step' \notin {"summary", "closed"}
      BY <1>2 DEF OtherListens, VerifyBeforeCreation, CreateManager, AttestAfterCreation, Preparing
    <2> QED  BY <1>1, <2>1, <2>2
  <1>3. CASE WorldMoves \/ TakeLook \/ Judge \/ WaitForTick \/ VerifyOwned \/ OpenRaises
    <2>1. /\ UNCHANGED <<port, trace, collector>>
          /\ step' \in {"look", "judge", "wait", "owned", "refused", "open"}
      BY <1>3 DEF WorldMoves, TakeLook, Judge, WaitForTick, VerifyOwned, OpenRaises
    <2>2. AttestInv'  BY <1>0, <2>1, AttestKeeps
    <2> QED  BY <1>1, <2>1, <2>2
  <1>4. CASE Record  BY <1>4, RecordKeeps
  <1>5. CASE Enable
    <2>1. /\ UNCHANGED <<port, collector>> /\ step' = "initial"
          /\ trace' = [trace EXCEPT !.on = TRUE]
      BY <1>5 DEF Enable
    <2>2. AttestInv'  BY <1>0, <2>1, AttestKeeps
    <2>3. RingInv' /\ SeenInv' /\ WrittenInv' /\ FileInv'
          /\ (trace'.over = 0 /\ trace'.dropped = 0 => FromFirst(RowsWritten'))
      BY <1>b, <1>d, <2>1, TraceRests
    <2> QED  BY <2>1, <2>2, <2>3 DEF ClosedInv
  <1>6. CASE EnableRaises \/ EndDrive
    <2>1. /\ UNCHANGED <<port, trace>> /\ step' \in {"refused", "final enabled"}
          /\ collector' = collector \/ collector' = [collector EXCEPT !.failed = TRUE]
      BY <1>6 DEF EnableRaises, EndDrive, ObserverFailed
    <2>2. AttestInv'  BY <1>0, <2>1, AttestKeeps
    <2>3. RingInv' /\ SeenInv' /\ WrittenInv' /\ FileInv'
          /\ (trace'.over = 0 /\ trace'.dropped = 0 => FromFirst(RowsWritten'))
      BY <1>a, <1>b, <1>c, <2>1, TraceRests
    <2> QED  BY <2>1, <2>2, <2>3 DEF ClosedInv
  <1>7. ASSUME Capture, UNCHANGED port,
               trace' \in Traces, trace'.ring = trace.ring, trace'.made = trace.made,
               trace'.over = trace.over, trace'.dropped = trace.dropped,
               step' \in {"running", "disable", "summary"}, step' = "summary" => ~trace'.on
        PROVE  TraceInv'
    <2>1. AttestInv'  BY <1>0, <1>7, AttestKeeps
    <2>2. /\ SeenInv' /\ WrittenInv' /\ FileInv'
          /\ collector'.over = trace.over /\ collector'.dropped = trace.dropped
          /\ trace.over = 0 /\ trace.dropped = 0 =>
               FromFirst(RowsWritten') /\ Len(RowsWritten') = trace.made
      BY <1>7, CaptureKeeps
    <2>3. RingInv'  BY <1>7, <1>e
    <2>4. ClosedInv'  BY <1>7, <2>2 DEF ClosedInv
    <2> QED  BY <2>1, <2>2, <2>3, <2>4
  <1>8. ASSUME CaptureRaises, UNCHANGED port,
               trace' \in Traces, trace'.ring = trace.ring, trace'.made = trace.made,
               trace'.over = trace.over, trace'.dropped = trace.dropped,
               step' \in {"refused", "final enabled", "disable", "summary"}
        PROVE  TraceInv'
    <2>1. AttestInv'  BY <1>0, <1>8, AttestKeeps
    <2>2. /\ SeenInv' /\ WrittenInv' /\ FileInv' /\ collector'.failed
          /\ trace.over = 0 /\ trace.dropped = 0 => FromFirst(RowsWritten')
      BY <1>8, CaptureRaisesKeeps
    <2>3. RingInv'  BY <1>8, <1>e
    <2>4. ClosedInv'  BY <1>8, <2>2 DEF ClosedInv
    <2> QED  BY <2>1, <2>2, <2>3, <2>4
  <1>9. CASE Initial
    <2>1. CASE Capture /\ step' = "running" /\ UNCHANGED trace
      BY <1>9, <1>7, <1>c, <2>1 DEF Initial
    <2>2. CASE CaptureRaises /\ step' = "refused"
               /\ \E on \in BOOLEAN : trace' = [trace EXCEPT !.on = on]
      BY <1>9, <1>8, <1>d, <2>2 DEF Initial
    <2> QED  BY <1>9, <2>1, <2>2 DEF Initial
  <1>10. CASE Poll
    <2>1. CASE Capture /\ UNCHANGED step  BY <1>10, <1>7, <1>c, <2>1 DEF Poll
    <2>2. CASE CaptureRaises /\ step' = "final enabled"  BY <1>10, <1>8, <1>c, <2>2 DEF Poll
    <2> QED  BY <1>10, <2>1, <2>2 DEF Poll
  <1>11. CASE FinalEnabled  BY <1>11, <1>7, <1>8, <1>c DEF FinalEnabled
  <1>12. CASE SwitchOff
    <2>1. UNCHANGED port /\ step' = "final disabled"  BY <1>12 DEF SwitchOff
    <2>2. AttestInv'  BY <1>0, <2>1, AttestKeeps
    <2>3. \/ trace' = [trace EXCEPT !.on = FALSE] /\ collector' = collector
          \/ trace' = trace /\ collector' = [collector EXCEPT !.failed = TRUE]
      BY <1>12 DEF SwitchOff, ObserverFailed
    <2>4. RingInv' /\ SeenInv' /\ WrittenInv' /\ FileInv'
          /\ (trace'.over = 0 /\ trace'.dropped = 0 => FromFirst(RowsWritten'))
      BY <1>a, <1>b, <1>c, <1>d, <2>3, TraceRests
    <2> QED  BY <2>1, <2>2, <2>4 DEF ClosedInv
  <1>13. CASE FinalDisabled
    <2>1. UNCHANGED <<port, trace>> /\ step' = "summary"  BY <1>13 DEF FinalDisabled
    <2>2. CASE trace.on
      <3>1. collector' = [collector EXCEPT !.failed = TRUE]
        BY <1>13, <2>2 DEF FinalDisabled, ObserverFailed
      <3>2. AttestInv'  BY <1>0, <2>1, AttestKeeps
      <3>3. RingInv' /\ SeenInv' /\ WrittenInv' /\ FileInv'
            /\ (trace'.over = 0 /\ trace'.dropped = 0 => FromFirst(RowsWritten'))
        BY <1>a, <1>c, <2>1, <3>1, TraceRests
      <3> QED  BY <1>a, <3>1, <3>2, <3>3 DEF ClosedInv
    <2>3. CASE ~trace.on
      <3>1. Capture \/ CaptureRaises  BY <1>13, <2>3 DEF FinalDisabled
      <3> QED  BY <1>7, <1>8, <1>c, <2>1, <2>3, <3>1
    <2> QED  BY <2>2, <2>3
  <1>14. CASE WriteSummary
    <2>1. /\ UNCHANGED <<port, trace>> /\ step = "summary" /\ step' = "closed"
          /\ collector' = collector \/ collector' = [collector EXCEPT !.failed = TRUE]
      BY <1>14 DEF WriteSummary, ObserverFailed
    <2>2. AttestInv'  BY <1>0, <2>1, AttestKeeps
    <2>3. RingInv' /\ SeenInv' /\ WrittenInv' /\ FileInv'
          /\ (trace'.over = 0 /\ trace'.dropped = 0 => FromFirst(RowsWritten'))
      BY <1>a, <1>b, <1>c, <2>1, TraceRests
    <2>4. ClosedInv'
      <3>1. CASE collector' = collector  BY <2>1, <2>3, <3>1, <1>b DEF ClosedInv
      <3>2. CASE collector' = [collector EXCEPT !.failed = TRUE]  BY <2>3, <3>2, <1>a DEF ClosedInv
      <3> QED  BY <2>1, <3>1, <3>2
    <2> QED  BY <2>2, <2>3, <2>4
  <1>15. CASE UNCHANGED traceVars
    <2>1. UNCHANGED <<step, port, trace, collector>>  BY <1>15 DEF traceVars
    <2>2. AttestInv'  BY <1>0, <2>1, AttestKeeps
    <2>3. RingInv' /\ SeenInv' /\ WrittenInv' /\ FileInv'
          /\ (trace'.over = 0 /\ trace'.dropped = 0 => FromFirst(RowsWritten'))
      BY <1>b, <1>c, <2>1, TraceRests
    <2> QED  BY <2>1, <2>2, <2>3, <1>b DEF ClosedInv
  <1> QED
    BY <1>2, <1>3, <1>4, <1>5, <1>6, <1>9, <1>10, <1>11, <1>12, <1>13, <1>14, <1>15
       DEF TraceNext

\* The native trace keeps its inductive invariant for every ring and every run of faults.
THEOREM TraceInvariance == TraceSpec => []TraceInv
  <1>1. TraceInit => TraceInv
    <2> SUFFICES ASSUME TraceInit  PROVE TraceInv  OBVIOUS
    <2>1. AttestInv  BY DEF TraceInit, AttestInv, AttestedIsLocal
    <2>2. RingInv  BY TraceAssumption DEF TraceInit, RingInv, Traces, Increasing, Within, FromFirst
    <2>3. SeenInv
      BY TraceAssumption
         DEF TraceInit, SeenInv, Collectors, Increasing, Within, RowsWritten, Seen
    <2>4. WrittenInv /\ ClosedInv /\ FileInv
      BY DEF TraceInit, WrittenInv, ClosedInv, FileInv, FromFirst, Within, RowsWritten, File
    <2> QED  BY <2>1, <2>2, <2>3, <2>4 DEF TraceInv
  <1> QED  BY <1>1, TraceStep, PTL DEF TraceSpec

\* The file of a drive that reports COMPLETE coverage holds every record of its own manager
\* once, for a ring of any size, and no record is counted twice in any drive: that as many
\* are remembered as the ring holds is enough to recognise the ones that it still holds.
\* After a flush that raised a row may be in the file again, next to its copy.
THEOREM TraceStaysTrue == TraceSpec => []TraceIsTrue
  <1>1. TraceInv => TraceIsTrue
    <2> SUFFICES ASSUME TraceInv  PROVE TraceIsTrue  OBVIOUS
    <2>1. AttestedIsLocal  BY DEF TraceInv, AttestInv
    <2>2. RowsWritten \in Seq(Nat) /\ \A i \in DOMAIN RowsWritten : RowsWritten[i] \in Nat
      BY ElementOfSeq DEF TraceInv, SeenInv, Collectors, RowsWritten
    <2>3. NothingTwice
      <3>1. ASSUME NEW i \in DOMAIN RowsWritten, NEW j \in DOMAIN RowsWritten,
                   RowsWritten[i] = RowsWritten[j]
            PROVE  i = j
        <4>1. ~ (i < j) /\ ~ (j < i)  BY <2>2, <3>1 DEF TraceInv, SeenInv, Increasing
        <4>2. i \in Nat /\ j \in Nat  BY <2>2
        <4> QED  BY <4>1, <4>2
      <3>2. File \in Seq(Nat) /\ \A i \in DOMAIN File : File[i] \in Nat
        BY ElementOfSeq DEF TraceInv, SeenInv, Collectors, File
      <3>3. ASSUME NEW i \in DOMAIN File, NEW j \in DOMAIN File, i < j
            PROVE  File[i] < File[j] \/ (collector.failed /\ File[i] = File[j])
        <4>1. File[i] <= File[j]  BY <3>3 DEF TraceInv, FileInv
        <4>2. ~collector.failed => File[i] < File[j]
          BY <3>3 DEF TraceInv, FileInv, SeenInv, Increasing
        <4>3. collector.failed \in BOOLEAN  BY DEF TraceInv, SeenInv, Collectors
        <4> QED  BY <3>2, <4>1, <4>2, <4>3
      <3>4. \A i \in DOMAIN RowsWritten : \E j \in DOMAIN File : File[j] = RowsWritten[i]
        BY DEF TraceInv, FileInv
      <3> QED  BY <3>1, <3>3, <3>4 DEF NothingTwice
    <2>4. CompleteIsComplete
      <3> SUFFICES ASSUME step = "closed", Coverage = "COMPLETE"
                   PROVE  File = [i \in 1..trace.made |-> i]
        BY DEF CompleteIsComplete
      <3>1. ~collector.failed /\ ~ (collector.dropped > 0) /\ ~ (collector.over > 0)
        BY DEF Coverage
      <3>2. collector.dropped = trace.dropped /\ collector.over = trace.over
        BY <3>1 DEF TraceInv, ClosedInv
      <3>3. trace.over \in Nat /\ trace.dropped \in Nat  BY DEF TraceInv, RingInv, Traces
      <3>4. trace.over = 0 /\ trace.dropped = 0  BY <3>1, <3>2, <3>3
      <3>5. FromFirst(RowsWritten) /\ Len(RowsWritten) = trace.made
        BY <3>1, <3>4 DEF TraceInv, ClosedInv
      <3>6. File = RowsWritten  BY <3>1 DEF TraceInv, FileInv
      <3> QED  BY <2>2, <3>5, <3>6 DEF FromFirst
    <2> QED  BY <2>1, <2>3, <2>4 DEF TraceIsTrue
  <1> QED  BY <1>1, TraceInvariance, PTL

(* The custom controller: its hand-over is clean, and its integral effort *)
(* is earned in the engagement it acts in, whatever the gains, the limits, *)
(* the speeds and the length of the drive. *)

ControlType ==
    /\ policy.speed.desired \in Nat \cup {None}
    /\ policy.speed.guard \in Nat
    /\ world \in [frame : Nat, time : Nat, speed : Nat]
    /\ mode \in {"MANUAL", "NOA"}
    /\ backend \in [active : BOOLEAN, override : Int, last : Nat \cup {None},
                    lastTime : Nat \cup {None}]
    /\ pi \in [target : Nat \cup {None}, integral : Int, at : Nat \cup {None}]
    /\ engagement \in [count : Nat, target : Nat \cup {None}, earned : Nat,
                       seen : Nat \cup {None}]

\* The backend's last frame is the world's, seen at the world's time, or older.
Timeline ==
    backend.last # None =>
        /\ backend.last <= world.frame
        /\ backend.last = world.frame => backend.lastTime = world.time

\* The controller's time is the engagement's last step.
OneTime == mode = "NOA" => pi.at = engagement.seen

ControlInv ==
    ControlType /\ Timeline /\ OneTime /\ HandOverIsClean /\ EffortIsEarned

\* Adding to an effort and limiting the sum moves it by no more than was added.
LEMMA ClampEarns ==
  ASSUME NEW i \in Int, NEW x \in Int, NEW e \in Nat, NEW low \in Nat, NEW high \in Nat,
         -e <= i, i <= e
  PROVE  /\ Size(x) \in Nat
         /\ e + Size(x) \in Nat
         /\ Clamp(i + x, -low, high) \in Int
         /\ -(e + Size(x)) <= Clamp(i + x, -low, high)
         /\ Clamp(i + x, -low, high) <= e + Size(x)
  BY DEF Size, Clamp

\* A policy that resolves has a guard, and a desired speed or none.
LEMMA PolicyType ==
  ASSUME NEW p \in Policies
  PROVE  p.desired \in Nat \cup {None} /\ p.guard \in Nat
  BY ControlAssumption DEF Policies, GivenPolicies, None

\* The first state is in the invariant.
LEMMA ControlStarts == ControlInit => ControlInv
<1> SUFFICES ASSUME ControlInit PROVE ControlInv  OBVIOUS
<1> USE DEF ControlInit
<1>1. policy.speed.desired \in Nat \cup {None} /\ policy.speed.guard \in Nat  BY PolicyType
<1>2. world \in [frame : Nat, time : Nat, speed : Nat]  BY ControlAssumption
<1>3. ControlType  BY <1>1, <1>2 DEF ControlType, Idle, Reset, None
<1>4. Timeline /\ OneTime /\ HandOverIsClean  BY DEF Timeline, OneTime, HandOverIsClean, Idle, Reset
<1>5. EffortIsEarned  BY DEF EffortIsEarned, Reset
<1> QED  BY <1>3, <1>4, <1>5 DEF ControlInv

\* A newer frame of the world is no frame that the backend has seen.
LEMMA WorldKeeps ==
  ASSUME ControlInv, world' \in [frame : Nat, time : Nat, speed : Nat],
         world'.frame = world.frame + 1,
         UNCHANGED <<policy, stage, mode, backend, pi, wheel, applied, engagement>>
  PROVE  ControlInv'
<1> USE DEF ControlInv
<1>1. ControlType'  BY DEF ControlType
<1>2. Timeline'  BY DEF Timeline, ControlType, None
<1>3. OneTime' /\ HandOverIsClean' /\ EffortIsEarned'
  BY DEF OneTime, HandOverIsClean, EffortIsEarned
<1> QED  BY <1>1, <1>2, <1>3

\* Leaving NoA clears the backend.
LEMMA ManualKeeps ==
  ASSUME ControlInv, EnterManual, UNCHANGED <<policy, world>>
  PROVE  ControlInv'
<1> USE DEF ControlInv, EnterManual
<1>1. pi.target \in Nat \cup {None} /\ engagement.count \in Nat  BY DEF ControlType
<1>2. backend' \in [active : BOOLEAN, override : Int, last : Nat \cup {None},
                     lastTime : Nat \cup {None}]
  BY DEF Idle, None
<1>3. pi' \in [target : Nat \cup {None}, integral : Int, at : Nat \cup {None}]  BY <1>1 DEF Reset
<1>4. engagement' \in [count : Nat, target : Nat \cup {None}, earned : Nat,
                        seen : Nat \cup {None}]
  BY <1>1
<1>5. ControlType'  BY <1>2, <1>3, <1>4 DEF ControlType
<1>6. Timeline' /\ OneTime' /\ HandOverIsClean'
  BY DEF Timeline, OneTime, HandOverIsClean, Idle, Reset
<1>7. EffortIsEarned'  BY DEF EffortIsEarned, Reset
<1> QED  BY <1>5, <1>6, <1>7

\* Whatever the interaction decides, the hand-over is clean.
LEMMA InteractKeeps == ControlInv /\ Interact => ControlInv'
<1> SUFFICES ASSUME ControlInv, NEW input \in DriverInputs,
                    \/ StayManual(input)
                    \/ Engage(input)
                    \/ EngageAndGiveBack(input)
                    \/ TransitionRaises(input)
                    \/ TakeOver(input)
                    \/ StayActive(input),
                    UNCHANGED <<policy, world, applied>>
             PROVE  ControlInv'
  BY DEF Interact
<1> USE DEF ControlInv
<1>1. Override(input) \in Int
  <2>1. input.steer \in Int  BY ControlAssumption DEF DriverInputs
  <2>2. None \in Int  BY DEF None
  <2> QED  BY <2>1, <2>2 DEF Override
<1>2. world.frame \in Nat /\ world.time \in Nat /\ world.speed \in Nat  BY DEF ControlType
<1>3. CASE StayManual(input)
  <2>1. backend' = backend  BY <1>3 DEF StayManual, HandOverIsClean, ControlType, Idle
  <2> QED
    BY <1>3, <2>1 DEF StayManual, ControlType, Timeline, OneTime, HandOverIsClean,
                      EffortIsEarned
<1>4. CASE Engage(input)
  <2> USE <1>4 DEF Engage
  <2>1. backend = Idle /\ pi = Reset(pi.target)  BY DEF HandOverIsClean
  <2>2. Entered = [active |-> TRUE, override |-> None, last |-> None, lastTime |-> None]
    BY <2>1 DEF Entered, Idle
  <2>3. EnteredController = Reset(pi.target)  BY <2>1 DEF EnteredController, Idle
  <2>4. HeldTarget \in Nat \cup {None} /\ pi.target \in Nat \cup {None}
    BY <1>2 DEF HeldTarget, ControlType
  <2>5. \E target \in Nat \cup {None} : pi' = Reset(target)  BY <2>3, <2>4
  <2>6. \E o \in Int : backend' = [active |-> TRUE, override |-> o, last |-> None,
                                   lastTime |-> None]
    BY <1>1, <2>2 DEF None
  <2>7. /\ engagement' \in [count : Nat, target : Nat \cup {None}, earned : Nat,
                            seen : Nat \cup {None}]
        /\ engagement'.earned = 0 /\ engagement'.seen = None
    BY <1>2 DEF ControlType
  <2>8. ControlType'  BY <2>5, <2>6, <2>7 DEF ControlType, Reset, None
  <2>9. Timeline' /\ OneTime' /\ HandOverIsClean' /\ EffortIsEarned'
    BY <2>5, <2>6, <2>7 DEF Timeline, OneTime, HandOverIsClean, EffortIsEarned, Reset
  <2> QED  BY <2>8, <2>9
<1>5. CASE EngageAndGiveBack(input)
  <2> USE <1>5 DEF EngageAndGiveBack
  <2>1. HeldTarget \in Nat \cup {None}  BY <1>2 DEF HeldTarget, ControlType
  <2>2. ControlType'  BY <2>1 DEF ControlType, Reset, Idle, None
  <2>3. Timeline' /\ OneTime' /\ HandOverIsClean'
    BY DEF Timeline, OneTime, HandOverIsClean, Idle, Reset
  <2>4. EffortIsEarned'  BY <2>2 DEF EffortIsEarned, ControlType, Reset
  <2> QED  BY <2>2, <2>3, <2>4
<1>6. CASE TransitionRaises(input)
  BY <1>6 DEF TransitionRaises, ControlType, Timeline, OneTime, HandOverIsClean,
              EffortIsEarned
<1>7. CASE TakeOver(input)  BY <1>7, ManualKeeps DEF TakeOver, ControlInv
<1>8. CASE StayActive(input)
  BY <1>1, <1>8 DEF StayActive, ControlType, Timeline, OneTime, HandOverIsClean,
                    EffortIsEarned
<1> QED  BY <1>3, <1>4, <1>5, <1>6, <1>7, <1>8

\* A step earns the effort it keeps.
LEMMA StepKeeps == ControlInv /\ Step => ControlInv'
<1> SUFFICES ASSUME ControlInv, Step PROVE ControlInv'  OBVIOUS
<1> USE DEF ControlInv
<1> DEFINE error == pi.target - world.speed
           span  == IF engagement.seen = None THEN 0 ELSE world.time - engagement.seen
           gain  == IntegralGain * error * span
<1>1. /\ mode = "NOA" /\ pi.target \in Nat
      /\ world.frame \in Nat /\ world.time \in Nat /\ world.speed \in Nat
  BY DEF Step, StepRefused, ControlType
<1>2. ControlTime = world.time  BY <1>1 DEF ControlTime, Timeline, ControlType, None
<1>3. SinceLast(ControlTime) = span  BY <1>1, <1>2 DEF SinceLast, OneTime
<1>4. error \in Int /\ span \in Int  BY <1>1 DEF ControlType, None
<1>5. gain \in Int  BY <1>4, ControlAssumption
<1>6. /\ pi' = [pi EXCEPT !.integral = Kept(error, ControlTime), !.at = world.time]
      /\ engagement' = [engagement EXCEPT !.earned = @ + Size(gain), !.seen = world.time]
  BY <1>2 DEF Step
<1>7. Candidate(error, ControlTime) = Clamp(pi.integral + gain, -MaxBrake, MaxThrottle)
  BY <1>3 DEF Candidate
<1>8. /\ pi.integral \in Int /\ engagement.earned \in Nat
      /\ -engagement.earned <= pi.integral /\ pi.integral <= engagement.earned
  BY DEF ControlType, EffortIsEarned
<1>9. /\ Size(gain) \in Nat /\ engagement.earned + Size(gain) \in Nat
      /\ Kept(error, ControlTime) \in Int
      /\ -(engagement.earned + Size(gain)) <= Kept(error, ControlTime)
      /\ Kept(error, ControlTime) <= engagement.earned + Size(gain)
  <2> HIDE DEF gain, error
  <2> DEFINE kept == Clamp(pi.integral + gain, -MaxBrake, MaxThrottle)
  <2>1. MaxBrake \in Nat /\ MaxThrottle \in Nat  BY ControlAssumption
  <2>2. /\ Size(gain) \in Nat /\ engagement.earned + Size(gain) \in Nat
        /\ kept \in Int
        /\ -(engagement.earned + Size(gain)) <= kept
        /\ kept <= engagement.earned + Size(gain)
    BY <1>5, <1>8, <2>1, ClampEarns
  <2>3. Kept(error, ControlTime) \in {pi.integral, kept}  BY <1>7 DEF Kept
  <2> HIDE DEF kept
  <2> QED  BY <1>8, <2>2, <2>3
<1> HIDE DEF gain, error, span
<1>10. UNCHANGED <<policy, world, mode>>  BY DEF Step
<1>11. \/ backend' = backend
       \/ backend' = [backend EXCEPT !.last = world.frame, !.lastTime = world.time]
  BY <1>2 DEF Step
<1>12. ControlType'
  <2>1. pi' \in [target : Nat \cup {None}, integral : Int, at : Nat \cup {None}]
    BY <1>1, <1>6, <1>9 DEF ControlType
  <2>2. engagement' \in [count : Nat, target : Nat \cup {None}, earned : Nat,
                         seen : Nat \cup {None}]
    BY <1>1, <1>6, <1>9 DEF ControlType
  <2>3. backend' \in [active : BOOLEAN, override : Int, last : Nat \cup {None},
                      lastTime : Nat \cup {None}]
    BY <1>1, <1>11 DEF ControlType
  <2> QED  BY <1>10, <2>1, <2>2, <2>3 DEF ControlType
<1>13. Timeline'
  <2>1. CASE backend' = backend  BY <1>10, <2>1 DEF Timeline
  <2>2. CASE backend' = [backend EXCEPT !.last = world.frame, !.lastTime = world.time]
    <3>1. backend'.last = world.frame /\ backend'.lastTime = world.time  BY <2>2 DEF ControlType
    <3> QED  BY <1>1, <1>10, <3>1 DEF Timeline
  <2> QED  BY <1>11, <2>1, <2>2
<1>14. OneTime'  BY <1>6 DEF OneTime, ControlType
<1>15. HandOverIsClean'  BY <1>1, <1>10, <1>11 DEF HandOverIsClean, ControlType
<1>16. EffortIsEarned'  BY <1>6, <1>9 DEF EffortIsEarned, ControlType
<1> QED  BY <1>12, <1>13, <1>14, <1>15, <1>16

\* Every other step leaves the backend as it is, or leaves NoA.
LEMMA NextKeeps == ControlInv /\ [ControlNext]_controlVars => ControlInv'
<1> SUFFICES ASSUME ControlInv, [ControlNext]_controlVars PROVE ControlInv'  OBVIOUS
<1>1. CASE WorldAdvances
  <2>1. /\ world' \in [frame : Nat, time : Nat, speed : Nat]
        /\ world'.frame = world.frame + 1
    BY <1>1, ControlAssumption DEF WorldAdvances, ControlInv, ControlType
  <2> QED  BY <1>1, <2>1, WorldKeeps DEF WorldAdvances
<1>2. CASE WorldStartsAgain
  <2>1. /\ world' \in [frame : Nat, time : Nat, speed : Nat]
        /\ world'.frame = world.frame + 1
    BY <1>2 DEF WorldStartsAgain, ControlInv, ControlType
  <2> QED  BY <1>2, <2>1, WorldKeeps DEF WorldStartsAgain
<1>3. CASE Interact  BY <1>3, InteractKeeps
<1>4. CASE Step  BY <1>4, StepKeeps
<1>5. CASE StepRaises \/ Drive \/ EndFrameLoop
  <2>1. UNCHANGED <<policy, world, mode, backend, pi, engagement>>
    BY <1>5 DEF StepRaises, Drive, EndFrameLoop
  <2> QED  BY <2>1 DEF ControlInv, ControlType, Timeline, OneTime, HandOverIsClean, EffortIsEarned
<1>6. CASE Deactivate
  <2>1. UNCHANGED <<policy, world>>  BY <1>6 DEF Deactivate
  <2>2. EnterManual \/ UNCHANGED <<mode, backend, pi, engagement>>  BY <1>6 DEF Deactivate
  <2> QED
    BY <2>1, <2>2, ManualKeeps DEF ControlInv, ControlType, Timeline, OneTime,
                                  HandOverIsClean, EffortIsEarned
<1>7. CASE UNCHANGED controlVars
  BY <1>7 DEF controlVars, ControlInv, ControlType, Timeline, OneTime, HandOverIsClean,
              EffortIsEarned
<1> QED  BY <1>1, <1>2, <1>3, <1>4, <1>5, <1>6, <1>7 DEF ControlNext

\* Every state of a drive is in the invariant.
LEMMA ControlHolds == ControlSpec => []ControlInv
  BY ControlStarts, NextKeeps, PTL DEF ControlSpec

\* The mode and the backend agree through every transition that raised, and an
\* engagement leaves nothing in the backend: automation_runtime's commit after
\* the transition, and the resets of the backend's three layers.
THEOREM HandsOverCleanly == ControlSpec => []HandOverIsClean
<1>1. ControlInv => HandOverIsClean  BY DEF ControlInv
<1> QED  BY <1>1, ControlHolds, PTL

\* The effort kept by the longitudinal controller was earned in its engagement,
\* for every gain, limit and deadband and every sequence of frames.
THEOREM EarnsItsEffort == ControlSpec => []EffortIsEarned
<1>1. ControlInv => EffortIsEarned  BY DEF ControlInv
<1> QED  BY <1>1, ControlHolds, PTL

\* What the command is made of: the controller's target is the engagement's while
\* the loop runs, and the backend's override is the driver's wheel of this frame or none.
Aimed ==
    /\ ~policy.speed.hold => pi.target = policy.speed.desired
    /\ mode = "NOA" /\ stage \in {"input", "control"} => pi.target = engagement.target
    /\ mode = "NOA" /\ stage = "control" => backend.override = Override(wheel)
    /\ wheel.steer # None

CommandInv == ControlInv /\ Aimed /\ CommandIsOfThisEngagement

\* No command has been given when the drive starts.
LEMMA CommandStarts == ControlInit => CommandInv
<1> SUFFICES ASSUME ControlInit PROVE CommandInv  OBVIOUS
<1>1. Aimed /\ CommandIsOfThisEngagement
  BY ControlAssumption DEF ControlInit, Aimed, CommandIsOfThisEngagement, Reset, NothingApplied,
     None
<1> QED  BY <1>1, ControlStarts DEF CommandInv

\* An interaction aims what it engages and gives no command.
LEMMA InteractAims == CommandInv /\ Interact => Aimed' /\ CommandIsOfThisEngagement'
<1> SUFFICES ASSUME CommandInv, NEW input \in DriverInputs,
                    wheel' = [engaged |-> input.engaged, steer |-> input.steer],
                    \/ StayManual(input)
                    \/ Engage(input)
                    \/ EngageAndGiveBack(input)
                    \/ TransitionRaises(input)
                    \/ TakeOver(input)
                    \/ StayActive(input),
                    stage = "input", UNCHANGED <<policy, world, applied>>
             PROVE  Aimed' /\ CommandIsOfThisEngagement'
  BY DEF Interact
<1> USE DEF CommandInv, ControlInv, Aimed
<1>1. wheel'.steer # None /\ Override(input) = Override(wheel')
  BY ControlAssumption DEF DriverInputs, Override, None
<1>2. stage' \in {"control", "raised"}
  BY DEF StayManual, Engage, EngageAndGiveBack, TransitionRaises, TakeOver, StayActive
<1>3. CommandIsOfThisEngagement'  BY <1>2 DEF CommandIsOfThisEngagement
<1>4. CASE StayManual(input)  BY <1>1, <1>3, <1>4 DEF StayManual
<1>5. CASE Engage(input)
  <2>1. backend = Idle /\ pi = Reset(pi.target)  BY <1>5 DEF Engage, HandOverIsClean
  <2>2. EnteredController = Reset(pi.target)  BY <2>1 DEF EnteredController, Idle
  <2>3. pi'.target \in {pi.target, HeldTarget}  BY <1>5, <2>2 DEF Engage, Reset
  <2>4. ~policy'.speed.hold => pi'.target = policy'.speed.desired  BY <2>3 DEF HeldTarget
  <2>5. stage' = "control" => pi'.target = engagement'.target
    BY <1>5, <2>4 DEF Engage, Reset, HeldTarget
  <2>6. stage' = "control" => backend'.override = Override(input)
    BY <1>5, <2>1 DEF Engage, Entered, Idle
  <2> QED  BY <1>1, <1>2, <1>3, <2>4, <2>5, <2>6
<1>6. CASE EngageAndGiveBack(input)  BY <1>1, <1>3, <1>6 DEF EngageAndGiveBack, Reset, HeldTarget
<1>7. CASE TransitionRaises(input)  BY <1>1, <1>3, <1>7 DEF TransitionRaises
<1>8. CASE TakeOver(input)  BY <1>1, <1>3, <1>8 DEF TakeOver, EnterManual, Reset
<1>9. CASE StayActive(input)  BY <1>1, <1>3, <1>9 DEF StayActive, ControlType
<1> QED  BY <1>3, <1>4, <1>5, <1>6, <1>7, <1>8, <1>9

\* A step commands what the engagement aims at.
LEMMA StepAims == CommandInv /\ Step => Aimed' /\ CommandIsOfThisEngagement'
<1> SUFFICES ASSUME CommandInv, Step PROVE Aimed' /\ CommandIsOfThisEngagement'  OBVIOUS
<1> USE DEF CommandInv, ControlInv, Aimed
<1>1. /\ mode = "NOA" /\ stage = "control" /\ stage' \in {"input", "raised"}
      /\ UNCHANGED <<policy, world, mode, wheel>>
  BY DEF Step
<1>2. pi'.target = pi.target /\ engagement'.target = engagement.target  BY DEF Step, ControlType
<1>3. Aimed'  BY <1>1, <1>2
<1>4. ASSUME stage' = "input"
      PROVE  \E lane \in LaneAnswers :
               applied'.steer = Merged(lane) /\ applied'.target = pi.target
  BY <1>4 DEF Step
<1>5. \A lane \in LaneAnswers :
        Merged(lane) = Clamp(IF wheel.engaged THEN wheel.steer ELSE lane,
                             -MaxSteering, MaxSteering)
  BY <1>1 DEF Merged, Override
<1>6. CommandIsOfThisEngagement'  BY <1>1, <1>2, <1>4, <1>5 DEF CommandIsOfThisEngagement
<1> QED  BY <1>3, <1>6

\* Every command of a drive is of its engagement.
LEMMA CommandKeeps == CommandInv /\ [ControlNext]_controlVars => CommandInv'
<1> SUFFICES ASSUME CommandInv, [ControlNext]_controlVars PROVE CommandInv'  OBVIOUS
<1>1. ControlInv'  BY NextKeeps DEF CommandInv
<1> SUFFICES Aimed' /\ CommandIsOfThisEngagement'  BY <1>1 DEF CommandInv
<1>2. CASE WorldAdvances \/ WorldStartsAgain
  BY <1>2 DEF WorldAdvances, WorldStartsAgain, CommandInv, Aimed, CommandIsOfThisEngagement
<1>3. CASE Interact  BY <1>3, InteractAims
<1>4. CASE Step  BY <1>4, StepAims
<1>5. CASE StepRaises \/ EndFrameLoop
  BY <1>5 DEF StepRaises, EndFrameLoop, CommandInv, Aimed, CommandIsOfThisEngagement
<1>6. CASE Drive
  <2>1. stage' = "raised" \/ applied'.by = "driver"  BY <1>6 DEF Drive, NothingApplied
  <2> QED  BY <1>6, <2>1 DEF Drive, CommandInv, Aimed, CommandIsOfThisEngagement
<1>7. CASE Deactivate
  <2>1. stage' = "closed" /\ pi'.target = pi.target /\ UNCHANGED <<policy, wheel>>
    BY <1>7 DEF Deactivate, EnterManual, Reset
  <2> QED  BY <2>1 DEF CommandInv, Aimed, CommandIsOfThisEngagement
<1>8. CASE UNCHANGED controlVars
  BY <1>8 DEF controlVars, CommandInv, Aimed, CommandIsOfThisEngagement
<1> QED  BY <1>2, <1>3, <1>4, <1>5, <1>6, <1>7, <1>8 DEF ControlNext

LEMMA CommandHolds == ControlSpec => []CommandInv
  BY CommandStarts, CommandKeeps, PTL DEF ControlSpec

\* Whatever speed the driver was at when an engagement began and however the wheel moves,
\* a command of the backend has this engagement's target, this frame's wheel while it is
\* held, and the lane law's answer when not: HeldTarget's capture, and the override that
\* the interaction writes before every step.
THEOREM CommandsItsEngagement == ControlSpec => []CommandIsOfThisEngagement
<1>1. CommandInv => CommandIsOfThisEngagement  BY DEF CommandInv
<1> QED  BY <1>1, CommandHolds, PTL

\* What the backend holds and commands belongs to the engagement in force: the
\* three theorems together, for every drive.
THEOREM BackendStaysSound == ControlSpec => []BackendIsSound
<1>1. CommandInv => BackendIsSound  BY DEF CommandInv, ControlInv, BackendIsSound
<1> QED  BY <1>1, CommandHolds, PTL

(* The starts of the program: however many of them meet, and wherever each *)
(* of them dies, they keep apart. *)

\* What is known of a start that has a name.
LEMMA IdentifiedFacts ==
  ASSUME StartsInv, NEW s \in Starts, Identified(s)
  PROVE  /\ starts[s] \in StartRecord
         /\ starts[s].pc \in Places /\ NameOf(s) \in Names /\ starts[s].participant \in Participants
         /\ starts[s].kind \in Launches \cup {"typed", "untyped"}
         /\ starts[s].kind \in Launches => NameOf(s) \in PilotNames
         /\ starts[s].pc \in Choosing \cup {"reserved"} => starts[s].kind = "pilot"
<1>1. starts[s] \in StartRecord
  <2>1. New.pc = "new" /\ [pc |-> "over"].pc = "over"  BY DEF New
  <2>2. starts[s] # New /\ starts[s] # [pc |-> "over"]  BY <2>1, Zenon DEF Identified, At
  <2> QED  BY <2>2 DEF StartsInv
<1> QED  BY <1>1 DEF StartRecord, NameOf, HasType

\* A start that goes on keeps its name and its kind.
LEMMA GoFacts ==
  ASSUME StartsInv, NEW s \in Starts, Identified(s), NEW place \in Places \ Choosing,
         Go(s, place), place = "reserved" => starts[s].kind = "pilot"
  PROVE  /\ starts' \in [Starts -> StartRecord \cup {New, [pc |-> "over"]}]
         /\ starts'[s].pc = place /\ starts'[s].kind = starts[s].kind
         /\ starts'[s].participant = starts[s].participant
         /\ starts'[s].name = starts[s].name
         /\ \A t \in Starts \ {s} : starts'[t] = starts[t]
<1> DEFINE r == [starts[s] EXCEPT !.pc = place]
<1>1. starts[s] \in StartRecord /\ starts \in [Starts -> StartRecord \cup {New, [pc |-> "over"]}]
  BY IdentifiedFacts DEF StartsInv
<1>2. /\ r \in StartRecord /\ r.pc = place /\ r.kind = starts[s].kind
      /\ r.participant = starts[s].participant /\ r.name = starts[s].name
  BY <1>1 DEF StartRecord
<1>3. starts' = [starts EXCEPT ![s] = r]  BY DEF Go
<1> HIDE DEF r
<1> QED  BY <1>1, <1>2, <1>3

\* Whoever a name on disk comes from, other than the start that reserved it, was given
\* it by hand: two launches never reserve one name.
LEMMA OthersByHand ==
  ASSUME StartsInv, ReservationInv, NEW s \in Starts, Reserved(s),
         NEW t \in Starts, t # s, Owns(t, NameOf(s))
  PROVE  ByHand(s, t)
<1>1. PICK r \in reservations : r.by = s  BY DEF Reserved
<1>2. r = Reservation(s) /\ Identified(s) /\ starts[s].kind \in Launches
  BY <1>1 DEF ReservationInv, Reservation
<1>4. Identified(t) /\ NameOf(t) = NameOf(s)  BY DEF Owns
<1>5. CASE starts[t].kind \in {"typed", "untyped"}  BY <1>4, <1>5 DEF ByHand, IsByHand
<1>7. CASE starts[t].kind \in Launches
  <2>1. PICK q \in reservations : q.by = t  BY <1>7 DEF Owns, Reserved
  <2>2. q = Reservation(t)  BY <2>1 DEF ReservationInv, Reservation
  <2>3. q.name = r.name  BY <1>2, <1>4, <2>2 DEF Reservation
  <2> QED  BY <1>1, <2>1, <2>3 DEF ReservationInv
<1> QED  BY <1>4, <1>5, <1>7, IdentifiedFacts

\* Sessions that hold what they claimed differ in it.
LEMMA HoldersApart ==
  ASSUME StartsInv', HoldersInv', NEW s \in sessions', NEW t \in sessions', s # t
  PROVE  /\ HasType(s)' /\ HasType(t)' => NameOf(s)' # NameOf(t)'
         /\ ~HasType(s)' /\ ~HasType(t)' => starts'[s].participant # starts'[t].participant
<1>1. s \in Starts /\ t \in Starts /\ Holds(s)' /\ Holds(t)'  BY DEF StartsInv, Holds
<1>2. Hazard(s)' # Hazard(t)' /\ (HasType(s)' /\ HasType(t)' => NameOf(s)' # NameOf(t)')
  BY <1>1 DEF HoldersInv
<1> QED  BY <1>2 DEF Hazard, Registry

\* Two launches never go by one name: what a supervisor finds under its own name is of its
\* own start, or of one that was given the name by hand.
LEMMA SupervisorsOwn ==
  ASSUME StartsInv', ReservationInv', NEW s \in Starts, NEW t \in sessions', s # t,
         Recoverable(s)', NameOf(s)' = NameOf(t)'
  PROVE  ByHand(s, t)'
<1>1. /\ starts'[s].pc \in Ended /\ starts'[s].kind = "supervised"
      /\ t \in Starts /\ starts'[t].pc \in Made
  BY DEF Recoverable, StartsInv
<1>2. Ended \cap Choosing = {} /\ Made \cap Choosing = {}
      /\ {"new", "over"} \cap (Made \cup Ended) = {}
  BY DEF Ended, Choosing, Made
<1>3. Identified(s)' /\ Identified(t)' /\ Reserved(s)'
  BY <1>1, <1>2 DEF Identified, At, ReservationInv, Launches
<1>4. starts'[t].kind \in Launches \cup {"typed", "untyped"}
  <2>1. New.pc = "new" /\ [pc |-> "over"].pc = "over"  BY DEF New
  <2>2. starts'[t] # New /\ starts'[t] # [pc |-> "over"]  BY <1>1, <1>2, <2>1
  <2>3. starts'[t] \in StartRecord  BY <1>1, <2>2 DEF StartsInv
  <2> QED  BY <2>3 DEF StartRecord
<1>5. CASE starts'[t].kind \in {"typed", "untyped"}  BY <1>3, <1>5 DEF ByHand, IsByHand
<1>6. CASE starts'[t].kind \in Launches
  <2>1. Reserved(t)'  BY <1>1, <1>2, <1>3, <1>6 DEF ReservationInv
  <2>2. PICK q \in reservations' : q.by = s  BY <1>3 DEF Reserved
  <2>3. PICK r \in reservations' : r.by = t  BY <2>1 DEF Reserved
  <2>4. q.name = NameOf(s)' /\ r.name = NameOf(t)'  BY <2>2, <2>3 DEF ReservationInv, Reservation
  <2> QED  BY <2>2, <2>3, <2>4 DEF ReservationInv
<1> QED  BY <1>4, <1>5, <1>6

\* What is left to show of a step that keeps the rest.
LEMMA ApartFrom ==
  ASSUME StartsInv', ReservationInv', HoldersInv', HazardIsAvailable',
         \A s, t \in Live' : s # t => NameOf(s)' # NameOf(t)',
         \A s \in Starts : Reserved(s)' /\ At(s, "refused")' => \E t \in Starts : ByHand(s, t)'
  PROVE  StartsKeepApart'
  BY HoldersApart, SupervisorsOwn DEF StartsKeepApart, RunsAreDistinct

LEMMA IdentityStart == IdentityInit => IdentityInv
<1> SUFFICES ASSUME IdentityInit PROVE IdentityInv  OBVIOUS
<1>1. /\ starts \in [Starts -> {New}] /\ \A s \in Starts : starts[s].pc = "new"
      /\ reservations = {} /\ folders = {} /\ occurrences = {} /\ sessions = {}
      /\ registrations = [runs |-> {}, people |-> {}]
  BY DEF IdentityInit, New
<1>2. StartsInv  BY <1>1 DEF StartsInv, Live
<1> QED
  BY <1>1, <1>2
     DEF IdentityInv, ReservationInv, OwnersInv, HoldersInv, OccurrenceInv, Holds,
         Identified, At, StartsKeepApart, RunsAreDistinct, HazardIsAvailable, Reserved, Live

(* A start before it has its name for good. *)
disks == << reservations, registrations, folders, occurrences, sessions >>

\* Nothing on disk knows of a start that still chooses.
LEMMA ChoosingStep ==
  ASSUME IdentityInv, NEW s \in Starts, UNCHANGED disks,
         starts[s].pc \in {"new"} \cup Choosing,
         starts' \in [Starts -> StartRecord \cup {New, [pc |-> "over"]}],
         \A t \in Starts \ {s} : starts'[t] = starts[t],
         starts'[s].pc \in {"over", "started"} \cup Choosing,
         starts'[s].pc = "started" => starts'[s].kind \notin Launches
  PROVE  IdentityInv'
<1> USE DEF IdentityInv
<1>1. /\ s \notin sessions /\ ~Reserved(s) /\ ~Holds(s)
      /\ Identified(s) => starts[s].kind = "pilot"
  <2>1. s \notin sessions  BY DEF StartsInv, Choosing, Made
  <2>2. ~Reserved(s)
    <3> SUFFICES ASSUME NEW r \in reservations, r.by = s PROVE FALSE  BY DEF Reserved
    <3>1. \E t \in Starts : Identified(t) /\ r = [name |-> NameOf(t), by |-> t]
      BY DEF ReservationInv, Reservation
    <3>2. Identified(s)  BY <3>1
    <3> QED  BY <3>2 DEF ReservationInv, Identified, At, Choosing
  <2>3. Identified(s) => starts[s].kind = "pilot"  BY IdentifiedFacts DEF Identified, At
  <2> QED  BY <2>1, <2>2, <2>3 DEF Holds, At, Choosing
<1>2. \A t \in Starts \ {s} :
         /\ Identified(t)' = Identified(t) /\ NameOf(t)' = NameOf(t)
         /\ HasType(t)' = HasType(t) /\ Hazard(t)' = Hazard(t) /\ Holds(t)' = Holds(t)
         /\ Reservation(t)' = Reservation(t) /\ Claimed(t)' = Claimed(t)
         /\ Reserved(t)' = Reserved(t)
  BY DEF Identified, At, NameOf, HasType, Hazard, Registry, Holds, Reservation, Claimed,
         Reserved, disks
<1>3. starts'[s].pc \notin Made /\ starts'[s].pc # "registered"
      /\ starts'[s].pc # "refused" /\ starts'[s].pc # "reserved"
  BY DEF Made, Choosing
<1>4. ~Reserved(s)' /\ ~Holds(s)'  BY <1>1, <1>3 DEF Reserved, Holds, At, disks
<1>l. Live' = Live
  <2>1. s \notin Live /\ s \notin Live'  BY <1>3 DEF Live, Choosing, Made
  <2> QED  BY <2>1 DEF Live
<1>5. StartsInv'  BY <1>1, <1>3, <1>l DEF StartsInv, disks, Made
<1>6. ReservationInv'
  <2>1. \A r \in reservations : r.by \in Starts \ {s} /\ Identified(r.by) /\ r = Reservation(r.by)
    <3> TAKE r \in reservations
    <3>1. \E t \in Starts : Identified(t) /\ r = Reservation(t)  BY DEF ReservationInv
    <3> QED  BY <1>1, <3>1 DEF Reserved, Reservation
  <2>2. reservations' = reservations  BY DEF disks
  <2>3. reservations' \subseteq {Reservation(t)' : t \in {u \in Starts : Identified(u)'}}
    BY <1>2, <2>1, <2>2
  <2>4. \A r \in reservations' : starts'[r.by].kind \in Launches /\ starts'[r.by].pc \notin Choosing
    BY <2>1, <2>2 DEF ReservationInv
  <2>5. \A q, r \in reservations' : q.name = r.name => q = r  BY <2>2 DEF ReservationInv
  <2>6. ASSUME NEW t \in Starts, Identified(t)', starts'[t].kind \in Launches,
               starts'[t].pc \notin Choosing
        PROVE  Reserved(t)'
    <3>1. CASE t # s  BY <1>2, <2>6, <3>1 DEF ReservationInv
    <3>2. CASE t = s  BY <2>6, <3>2 DEF Identified, At
    <3> QED  BY <3>1, <3>2
  <2> QED  BY <2>3, <2>4, <2>5, <2>6 DEF ReservationInv
<1>7. OwnersInv'
  <2>1. \A n : Owns(s, n) => starts[s].pc \notin Made \cup {"registered", "refused"}
    BY DEF Choosing, Made
  <2>2. \A t \in Starts : \A n : Owns(t, n) /\ starts[t].pc \in Made \cup {"registered", "refused"}
           => Owns(t, n)' /\ starts'[t].pc = starts[t].pc
    BY <1>2, <2>1 DEF Owns
  <2>3. \A t \in Live : t \in Starts \ {s}  BY DEF Live, Choosing
  <2> QED  BY <1>2, <1>l, <2>2, <2>3 DEF OwnersInv, disks
<1>8. HoldersInv'  BY <1>2, <1>4 DEF HoldersInv
<1>9. OccurrenceInv'
  <2>1. \A t \in sessions : t \in Starts \ {s}  BY <1>1 DEF StartsInv
  <2>2. \A t \in sessions : Hazard(t)' = Hazard(t) /\ At(t, "running")' = At(t, "running")
    BY <1>2, <2>1 DEF At
  <2> QED  BY <2>2 DEF OccurrenceInv, disks
<1>10. StartsKeepApart'
  <2>1. HazardIsAvailable'  BY <1>3 DEF StartsKeepApart, HazardIsAvailable, At, Made
  <2>2. ASSUME NEW t \in Live', NEW u \in Live', t # u
        PROVE  NameOf(t)' # NameOf(u)'
    <3>1. t \in Starts \ {s} /\ u \in Starts \ {s} /\ t \in sessions /\ u \in sessions
      BY <1>1, <1>l DEF StartsInv
    <3> QED  BY <1>2, <1>l, <2>2, <3>1 DEF StartsKeepApart, RunsAreDistinct
  <2>3. ASSUME NEW t \in Starts, Reserved(t)', At(t, "refused")'
        PROVE  \E u \in Starts : ByHand(t, u)'
    <3>1. t # s  BY <1>4, <2>3
    <3>2. Reserved(t) /\ At(t, "refused")  BY <1>2, <2>3, <3>1 DEF At
    <3>3. PICK u \in Starts : ByHand(t, u)  BY <3>2 DEF StartsKeepApart, RunsAreDistinct
    <3>4. u # s  BY <1>1, <3>3 DEF ByHand, IsByHand
    <3> QED  BY <1>2, <3>1, <3>3, <3>4 DEF ByHand, IsByHand
  <2> QED  BY <1>5, <1>6, <1>8, <2>1, <2>2, <2>3, ApartFrom
<1> QED  BY <1>5, <1>6, <1>7, <1>8, <1>9, <1>10

(* A start that has its name. *)

\* It goes on under it: its place changes, and a supervisor may be put in charge.
Moves(s) ==
  /\ Identified(s) /\ starts[s].pc \notin Choosing
  /\ starts' \in [Starts -> StartRecord \cup {New, [pc |-> "over"]}]
  /\ starts'[s].pc \in Places \ Choosing
  /\ NameOf(s)' = NameOf(s) /\ starts'[s].participant = starts[s].participant
  /\ \/ starts'[s].kind = starts[s].kind
     \/ starts[s].kind \in Launches /\ starts'[s].kind \in Launches
  /\ \A t \in Starts \ {s} : starts'[t] = starts[t]

\* Nobody's name, and nothing that follows from it, changes by that.
LEMMA MovesFacts ==
  ASSUME NEW s \in Starts, Moves(s)
  PROVE  \A t \in Starts :
           /\ Identified(t)' = Identified(t) /\ NameOf(t)' = NameOf(t)
           /\ HasType(t)' = HasType(t) /\ Hazard(t)' = Hazard(t)
           /\ Reservation(t)' = Reservation(t)
           /\ starts'[t].participant = starts[t].participant
           /\ starts'[t].kind \in Launches <=> starts[t].kind \in Launches
           /\ starts[t].kind \in {"typed", "untyped"} => starts'[t].kind = starts[t].kind
<1>1. Identified(s)' /\ Identified(s)  BY DEF Moves, Identified, At, Places, Choosing, Made, Ended
<1> QED  BY <1>1 DEF Moves, Identified, At, NameOf, HasType, Hazard, Registry, Reservation, Launches

LEMMA MovesReservation ==
  ASSUME ReservationInv, NEW s \in Starts, Moves(s), UNCHANGED reservations
  PROVE  ReservationInv' /\ \A t \in Starts : Reserved(t)' = Reserved(t)
<1>1. \A t \in Starts : Reserved(t)' = Reserved(t)  BY DEF Reserved
<1>2. reservations' \subseteq {Reservation(t)' : t \in {u \in Starts : Identified(u)'}}
  BY MovesFacts DEF ReservationInv
<1>3. ASSUME NEW r \in reservations
      PROVE  starts'[r.by].kind \in Launches /\ starts'[r.by].pc \notin Choosing
  <2>1. r.by \in Starts  BY <1>3 DEF ReservationInv, Reservation
  <2> QED  BY <1>3, <2>1, MovesFacts DEF ReservationInv, Moves
<1>4. \A q, r \in reservations' : q.name = r.name => q = r  BY DEF ReservationInv
<1>5. ASSUME NEW t \in Starts, Identified(t)', starts'[t].kind \in Launches,
             starts'[t].pc \notin Choosing
      PROVE  Reserved(t)'
  <2>1. CASE t # s  BY <1>1, <1>5, <2>1 DEF Moves, ReservationInv, Identified, At
  <2>2. CASE t = s  BY <1>1, <1>5, <2>2, MovesFacts DEF Moves, ReservationInv
  <2> QED  BY <2>1, <2>2
<1> QED  BY <1>1, <1>2, <1>3, <1>4, <1>5 DEF ReservationInv

\* A folder or a registration it makes is its own.
LEMMA MovesOwners ==
  ASSUME IdentityInv, NEW s \in Starts, Moves(s), UNCHANGED reservations,
         folders \subseteq folders', folders' \subseteq folders \cup {NameOf(s)},
         NameOf(s) \in folders' \ folders => starts'[s].pc \in Made,
         s \in Live' => s \in Live \/ NameOf(s) \in folders',
         registrations'.runs \subseteq registrations.runs \cup {NameOf(s)},
         NameOf(s) \in registrations'.runs \ registrations.runs
            => starts'[s].pc = "registered",
         starts[s].pc \in Made => starts'[s].pc \in Made,
         starts[s].pc \in {"registered", "refused"} => starts'[s].pc \in Made \cup {"refused"}
  PROVE  OwnersInv'
<1>1. \A t \in Starts : Reserved(t)' = Reserved(t)  BY MovesReservation DEF IdentityInv
<1>2. \A t \in Starts : \A n : Owns(t, n)' <=> Owns(t, n)  BY <1>1, MovesFacts DEF Owns
<1>3. Owns(s, NameOf(s))  BY DEF Owns, Moves, IdentityInv, ReservationInv
<1>4. \A t \in Starts : /\ starts[t].pc \in Made => starts'[t].pc \in Made
                        /\ starts[t].pc \in {"registered", "refused"}
                             => starts'[t].pc \in Made \cup {"registered", "refused"}
  BY DEF Moves
<1>5. ASSUME NEW n \in folders' PROVE \E t \in Starts : Owns(t, n)' /\ starts'[t].pc \in Made
  <2>1. CASE n \in folders  BY <1>2, <1>4, <2>1 DEF IdentityInv, OwnersInv
  <2>2. CASE n \notin folders  BY <1>2, <1>3, <1>5, <2>2
  <2> QED  BY <2>1, <2>2
<1>6. ASSUME NEW n \in registrations'.runs
      PROVE  \E t \in Starts : Owns(t, n)' /\ starts'[t].pc \in Made \cup {"registered", "refused"}
  <2>1. CASE n \in registrations.runs  BY <1>2, <1>4, <2>1 DEF IdentityInv, OwnersInv
  <2>2. CASE n \notin registrations.runs  BY <1>2, <1>3, <1>6, <2>2
  <2> QED  BY <2>1, <2>2
<1>7. ASSUME NEW t \in Live' PROVE NameOf(t)' \in folders'
  <2>1. t \in Starts /\ (t # s => t \in Live)  BY DEF Live, Moves
  <2> QED  BY <1>7, <2>1, MovesFacts DEF IdentityInv, OwnersInv
<1> QED  BY <1>5, <1>6, <1>7 DEF OwnersInv

\* What the sessions share, when none is added and no registration is.
LEMMA MovesHolders ==
  ASSUME IdentityInv, NEW s \in Starts, Moves(s), UNCHANGED << registrations, sessions >>,
         starts'[s].pc # "registered"
  PROVE  HoldersInv'
<1>1. \A t \in Starts : /\ Holds(t)' => Holds(t)
                        /\ Claimed(t)' <=> Claimed(t)
  BY MovesFacts DEF Holds, At, Claimed, Moves
<1> QED  BY <1>1, MovesFacts DEF IdentityInv, HoldersInv

\* The sessions that hold something are distinct, and a refused reservation was a name
\* that was also given by hand.
LEMMA MovesApart ==
  ASSUME IdentityInv, NEW s \in Starts, Moves(s), UNCHANGED reservations,
         StartsInv', HoldersInv',
         s \in Live' => s \in Live \/ NameOf(s) \notin folders,
         starts'[s].pc = "refused" /\ starts[s].pc # "refused" /\ Reserved(s) =>
            \E t \in Starts \ {s} : Owns(t, NameOf(s)),
         starts'[s].pc # "hazard refused"
  PROVE  StartsKeepApart'
<1> USE DEF IdentityInv
<1>1. HazardIsAvailable'  BY DEF StartsKeepApart, HazardIsAvailable, At, Moves
<1>2. ASSUME NEW t \in Live', NEW u \in Live', t # u
      PROVE  NameOf(t)' # NameOf(u)'
  <2>1. t \in Starts /\ u \in Starts /\ (t # s => t \in Live) /\ (u # s => u \in Live)
    BY DEF Live, Moves
  <2>m. \A v \in {t, u} : NameOf(v)' = NameOf(v)  BY <2>1, MovesFacts
  <2>2. CASE t \in Live /\ u \in Live
    <3>1. t \in sessions /\ u \in sessions  BY <2>2 DEF StartsInv
    <3>2. NameOf(t) # NameOf(u)  BY <1>2, <2>2, <3>1 DEF StartsKeepApart, RunsAreDistinct
    <3> QED  BY <2>m, <3>2
  <2>3. CASE ~(t \in Live /\ u \in Live)
    <3>1. NameOf(s) \notin folders /\ s \in {t, u}  BY <2>1, <2>3
    <3>2. \A v \in {t, u} \ {s} : NameOf(v) \in folders  BY <2>1 DEF OwnersInv
    <3>3. NameOf(t) # NameOf(u)  BY <1>2, <3>1, <3>2
    <3> QED  BY <2>m, <3>3
  <2> QED  BY <2>2, <2>3
<1>3. ASSUME NEW t \in Starts, Reserved(t)', At(t, "refused")'
      PROVE  \E u \in Starts : ByHand(t, u)'
  <2>1. Reserved(t)  BY <1>3 DEF Reserved
  <2>2. \E u \in Starts : ByHand(t, u)
    <3>1. CASE At(t, "refused")  BY <2>1, <3>1 DEF StartsKeepApart, RunsAreDistinct
    <3>2. CASE ~At(t, "refused")
      <4>1. t = s  BY <1>3, <3>2 DEF At, Moves
      <4>2. PICK u \in Starts \ {s} : Owns(u, NameOf(s))  BY <1>3, <2>1, <3>2, <4>1 DEF At
      <4> QED  BY <2>1, <4>1, <4>2, OthersByHand
    <3> QED  BY <3>1, <3>2
  <2> QED  BY <2>2, MovesFacts DEF ByHand, IsByHand
<1>4. ReservationInv'  BY MovesReservation
<1> QED  BY <1>1, <1>2, <1>3, <1>4, ApartFrom

\* The hazards that were reserved stay those of the sessions that ran them.
LEMMA MovesOccurrences ==
  ASSUME IdentityInv, NEW s \in Starts, Moves(s), UNCHANGED occurrences,
         sessions \subseteq sessions', s \in sessions => starts'[s].pc # "running"
  PROVE  OccurrenceInv'
<1>1. \A t \in sessions : t \in Starts  BY DEF IdentityInv, StartsInv
<1> QED  BY <1>1, MovesFacts DEF IdentityInv, OccurrenceInv, At, Moves

\* A step within a run: no registration, no session and no hazard is added.
LEMMA QuietMove ==
  ASSUME IdentityInv, NEW s \in Starts, Moves(s),
         UNCHANGED << reservations, registrations, occurrences, sessions >>,
         folders \subseteq folders', folders' \subseteq folders \cup {NameOf(s)},
         NameOf(s) \in folders' \ folders => starts'[s].pc \in Made,
         starts[s].pc \in Made => starts'[s].pc \in Made,
         starts[s].pc \in {"registered", "refused"} => starts'[s].pc \in Made \cup {"refused"},
         starts'[s].pc \notin {"registered", "running", "hazard run", "hazard refused"},
         starts'[s].pc = "refused" => \/ starts[s].pc = "refused" \/ ~Reserved(s)
                                      \/ \E t \in Starts \ {s} : Owns(t, NameOf(s))
  PROVE  IdentityInv'
<1> USE DEF IdentityInv
<1>0. s \notin Live' /\ Live' \subseteq Live  BY DEF Live, Moves
<1>1. StartsInv'  BY <1>0 DEF StartsInv, Moves
<1>2. ReservationInv'  BY MovesReservation
<1>3. OwnersInv'  BY <1>0, MovesOwners
<1>4. HoldersInv'  BY MovesHolders
<1>5. OccurrenceInv'  BY MovesOccurrences
<1>6. StartsKeepApart'  BY <1>0, <1>1, <1>4, MovesApart
<1> QED  BY <1>1, <1>2, <1>3, <1>4, <1>5, <1>6

\* Going on is a move.
LEMMA GoMoves ==
  ASSUME StartsInv, NEW s \in Starts, Identified(s), NEW place \in Places \ Choosing,
         place # "reserved", Go(s, place), starts[s].pc \notin Choosing
  PROVE  Moves(s) /\ starts'[s].pc = place
  BY GoFacts DEF Moves, NameOf

\* The places are told apart.
LEMMA PlaceFacts ==
  /\ {"reserved", "started", "assigned", "registered", "refused", "ended", "running",
      "hazard run", "hazard refused", "finished", "dead", "recovered"} \cap Choosing = {}
  /\ {"reserved", "started", "assigned", "registered", "refused", "ended", "running",
      "hazard run", "hazard refused", "finished", "dead", "recovered"} \subseteq Places
  /\ {"reserved", "started", "assigned", "registered", "refused", "ended", "new", "over"}
       \cap Made = {}
  /\ {"running", "hazard run", "hazard refused", "finished", "dead", "recovered"} = Made
  BY DEF Choosing, Made, Places, Ended

LEMMA SuperviseInv ==
  ASSUME IdentityInv, NEW s \in Starts, Supervise(s) PROVE IdentityInv'
<1> DEFINE r == [starts[s] EXCEPT !.pc = "started", !.kind = "supervised"]
<1>1. /\ starts[s].pc = "reserved" /\ Identified(s) /\ starts' = [starts EXCEPT ![s] = r]
      /\ UNCHANGED << diskVars, sessions >>
  <2>1. /\ starts[s].pc = "reserved" /\ Identified(s)
        /\ starts' = [starts EXCEPT ![s].pc = "started", ![s].kind = "supervised"]
        /\ UNCHANGED << diskVars, sessions >>
    BY DEF Supervise, At, Identified
  <2>2. starts \in [Starts -> StartRecord \cup {New, [pc |-> "over"]}]
    BY DEF IdentityInv, StartsInv
  <2> QED  BY <2>1, <2>2
<1>2. /\ starts[s] \in StartRecord /\ starts[s].kind = "pilot"
      /\ starts \in [Starts -> StartRecord \cup {New, [pc |-> "over"]}]
  BY <1>1, IdentifiedFacts DEF IdentityInv, StartsInv
<1>3. /\ r \in StartRecord /\ r.pc = "started" /\ r.kind = "supervised"
      /\ r.name = starts[s].name /\ r.participant = starts[s].participant
  BY <1>2, PlaceFacts DEF StartRecord, Launches
<1> HIDE DEF r
<1>4. Moves(s) /\ starts'[s].pc = "started"
  BY <1>1, <1>2, <1>3, PlaceFacts DEF Moves, NameOf, Launches
<1> QED  BY <1>1, <1>4, PlaceFacts, QuietMove DEF diskVars

\* The name of a start that was assigned it was free, that of a refused one is taken.
LEMMA AssignedInv ==
  ASSUME IdentityInv, NEW s \in Starts, Assigned(s) PROVE IdentityInv'
<1>1. /\ starts[s].pc = "started" /\ Identified(s)
      /\ Go(s, IF NameOf(s) \in folders THEN "refused" ELSE "assigned")
      /\ UNCHANGED << diskVars, sessions >>
  BY DEF Assigned, At, Identified
<1>2. Moves(s) /\ starts'[s].pc = IF NameOf(s) \in folders THEN "refused" ELSE "assigned"
  BY <1>1, GoMoves, PlaceFacts DEF IdentityInv
<1>3. NameOf(s) \in folders => \E t \in Starts \ {s} : Owns(t, NameOf(s))
  BY <1>1, PlaceFacts DEF IdentityInv, OwnersInv
<1> QED  BY <1>1, <1>2, <1>3, PlaceFacts, QuietMove DEF diskVars

LEMMA UnassignedInv ==
  ASSUME IdentityInv, NEW s \in Starts, Unassigned(s) PROVE IdentityInv'
<1>1. /\ starts[s].pc = "started" /\ Identified(s) /\ Go(s, "ended")
      /\ UNCHANGED << diskVars, sessions >>
  BY DEF Unassigned, At, Identified
<1>2. Moves(s) /\ starts'[s].pc = "ended"  BY <1>1, GoMoves, PlaceFacts DEF IdentityInv
<1> QED  BY <1>1, <1>2, PlaceFacts, QuietMove DEF diskVars

LEMMA FinishRunInv ==
  ASSUME IdentityInv, NEW s \in Starts, FinishRun(s) PROVE IdentityInv'
<1>1. /\ starts[s].pc \in {"running", "hazard run", "hazard refused"} /\ Identified(s)
      /\ Go(s, "finished")
      /\ UNCHANGED << reservations, registrations, folders, occurrences, sessions >>
  BY DEF FinishRun, At, Identified, Live
<1>2. Moves(s) /\ starts'[s].pc = "finished"  BY <1>1, GoMoves, PlaceFacts DEF IdentityInv
<1> QED  BY <1>1, <1>2, PlaceFacts, QuietMove

LEMMA RecoverInv ==
  ASSUME IdentityInv, NEW s \in Starts, Recover(s) PROVE IdentityInv'
<1>1. /\ starts[s].pc \in {"ended", "finished", "refused", "dead"} /\ Identified(s)
      /\ Go(s, "recovered") /\ folders' = folders \cup {NameOf(s)}
      /\ UNCHANGED << reservations, registrations, occurrences, sessions >>
  BY DEF Recover, Recoverable, At, Identified, Ended
<1>2. Moves(s) /\ starts'[s].pc = "recovered"  BY <1>1, GoMoves, PlaceFacts DEF IdentityInv
<1> QED  BY <1>1, <1>2, PlaceFacts, QuietMove

\* A start that has its name may die wherever it is.
LEMMA CrashInv ==
  ASSUME IdentityInv, NEW s \in Starts, Crash(s) PROVE IdentityInv'
<1>1. /\ Identified(s) /\ starts[s].pc \notin Choosing /\ Go(s, "dead")
      /\ UNCHANGED << diskVars, sessions >>
  BY DEF Crash, At, Identified
<1>2. Moves(s) /\ starts'[s].pc = "dead"  BY <1>1, GoMoves, PlaceFacts DEF IdentityInv
<1> QED  BY <1>1, <1>2, PlaceFacts, QuietMove DEF diskVars

(* The steps that add to what the starts hold. *)

\* A reservation is written under a name that nobody reserved.
LEMMA ReserveSucceeds ==
  ASSUME IdentityInv, NEW s \in Starts, At(s, "reserve"), Go(s, "reserved"),
         \A r \in reservations : r.name # NameOf(s),
         reservations' = reservations \cup {Reservation(s)},
         UNCHANGED << registrations, folders, occurrences, sessions >>
  PROVE  IdentityInv'
<1> USE DEF IdentityInv
<1>1. starts[s].pc = "reserve" /\ Identified(s)  BY DEF At, Identified
<1>2. starts[s].kind = "pilot"  BY <1>1, IdentifiedFacts DEF Choosing
<1>3. /\ starts' \in [Starts -> StartRecord \cup {New, [pc |-> "over"]}]
      /\ starts'[s].pc = "reserved" /\ starts'[s].kind = "pilot"
      /\ starts'[s].participant = starts[s].participant
      /\ starts'[s].name = starts[s].name
      /\ \A t \in Starts \ {s} : starts'[t] = starts[t]
  BY <1>1, <1>2, GoFacts, PlaceFacts
<1>4. Identified(s)'  BY <1>3 DEF Identified, At
<1>5. \A t \in Starts :
         /\ Identified(t)' = Identified(t) /\ NameOf(t)' = NameOf(t)
         /\ HasType(t)' = HasType(t) /\ Hazard(t)' = Hazard(t)
         /\ Reservation(t)' = Reservation(t)
         /\ starts'[t].participant = starts[t].participant
         /\ starts'[t].kind = starts[t].kind
  BY <1>1, <1>2, <1>3, <1>4
     DEF Identified, At, NameOf, HasType, Hazard, Registry, Reservation
<1>6. s \notin sessions /\ ~Reserved(s) /\ Reserved(s)' /\ ~Holds(s) /\ ~Holds(s)'
  <2>1. s \notin sessions  BY <1>1 DEF StartsInv, Made
  <2>2. ~Reserved(s)  BY <1>1 DEF Reserved, ReservationInv, Choosing
  <2>3. Reservation(s) \in reservations' /\ Reservation(s).by = s  BY DEF Reservation
  <2>4. Reserved(s)'  BY <2>3 DEF Reserved
  <2> QED  BY <1>1, <1>3, <2>1, <2>2, <2>4 DEF Holds, At
<1>7. \A t \in Starts \ {s} : Reserved(t)' = Reserved(t) /\ Holds(t)' = Holds(t)
                              /\ Claimed(t)' = Claimed(t)
  <2>1. Reservation(s).by = s  BY DEF Reservation
  <2>2. \A t \in Starts \ {s} : Reserved(t)' = Reserved(t)  BY <2>1 DEF Reserved
  <2>3. \A t \in Starts \ {s} : Holds(t)' = Holds(t) /\ Claimed(t)' = Claimed(t)
    BY <1>3, <1>5 DEF Holds, At, Claimed
  <2> QED  BY <2>2, <2>3
<1>l. Live' = Live  BY <1>1, <1>3 DEF Live
<1>8. StartsInv'  BY <1>1, <1>3, <1>6, <1>l DEF StartsInv, Made
<1>9. ReservationInv'
  <2>1. reservations' \subseteq {Reservation(t)' : t \in {u \in Starts : Identified(u)'}}
    BY <1>1, <1>5 DEF ReservationInv
  <2>2. ASSUME NEW r \in reservations'
        PROVE  starts'[r.by].kind \in Launches /\ starts'[r.by].pc \notin Choosing
    <3>1. CASE r \in reservations
      <4>1. r.by \in Starts /\ r.by # s  BY <1>6, <3>1 DEF ReservationInv, Reservation, Reserved
      <4> QED  BY <1>3, <3>1, <4>1 DEF ReservationInv
    <3>2. CASE r = Reservation(s)  BY <1>3, <3>2 DEF Reservation, Launches, Choosing
    <3> QED  BY <3>1, <3>2
  <2>3. \A q, r \in reservations' : q.name = r.name => q = r
    <3>1. Reservation(s).name = NameOf(s)  BY DEF Reservation
    <3> QED  BY <3>1 DEF ReservationInv
  <2>4. ASSUME NEW t \in Starts, Identified(t)', starts'[t].kind \in Launches,
               starts'[t].pc \notin Choosing
        PROVE  Reserved(t)'
    <3>1. CASE t # s  BY <1>3, <1>5, <1>7, <2>4, <3>1 DEF ReservationInv
    <3>2. CASE t = s  BY <1>6, <3>2
    <3> QED  BY <3>1, <3>2
  <2> QED  BY <2>1, <2>2, <2>3, <2>4 DEF ReservationInv
<1>10. OwnersInv'
  <2>1. \A t \in Starts : \A n :
           /\ Owns(t, n) /\ starts[t].pc \in Made \cup {"registered", "refused"}
           => Owns(t, n)' /\ starts'[t].pc = starts[t].pc
    BY <1>1, <1>3, <1>5, <1>7 DEF Owns, Made
  <2>2. \A t \in Live : t \in Starts  BY DEF Live
  <2> QED  BY <1>5, <1>l, <2>1, <2>2 DEF OwnersInv
<1>11. HoldersInv'  BY <1>5, <1>6, <1>7 DEF HoldersInv
<1>12. OccurrenceInv'
  <2>1. \A t \in sessions : t \in Starts \ {s}  BY <1>6 DEF StartsInv
  <2>2. \A t \in sessions : Hazard(t)' = Hazard(t) /\ At(t, "running")' = At(t, "running")
    BY <1>3, <1>5, <2>1 DEF At
  <2> QED  BY <2>2 DEF OccurrenceInv
<1>13. StartsKeepApart'
  <2>1. HazardIsAvailable'  BY <1>3 DEF StartsKeepApart, HazardIsAvailable, At
  <2>2. ASSUME NEW t \in Live', NEW u \in Live', t # u
        PROVE  NameOf(t)' # NameOf(u)'
    <3>1. t \in Starts /\ u \in Starts /\ t \in sessions /\ u \in sessions  BY <1>l DEF StartsInv
    <3> QED  BY <1>5, <1>l, <2>2, <3>1 DEF StartsKeepApart, RunsAreDistinct
  <2>3. ASSUME NEW t \in Starts, Reserved(t)', At(t, "refused")'
        PROVE  \E u \in Starts : ByHand(t, u)'
    <3>1. t # s  BY <1>3, <2>3 DEF At
    <3>2. Reserved(t) /\ At(t, "refused")  BY <1>3, <1>7, <2>3, <3>1 DEF At
    <3>3. PICK u \in Starts : ByHand(t, u)  BY <3>2 DEF StartsKeepApart, RunsAreDistinct
    <3> QED  BY <1>5, <3>3 DEF ByHand, IsByHand
  <2> QED  BY <1>8, <1>9, <1>11, <2>1, <2>2, <2>3, ApartFrom
<1> QED  BY <1>8, <1>9, <1>10, <1>11, <1>12, <1>13

\* A claim is of what nobody holds.
LEMMA ClaimInv ==
  ASSUME IdentityInv, NEW s \in Starts, Claim(s) PROVE IdentityInv'
<1> USE DEF IdentityInv
<1>1. /\ starts[s].pc = "assigned" /\ Identified(s)
      /\ UNCHANGED << reservations, folders, occurrences, sessions >>
  BY DEF Claim, At, Identified
<1>2. CASE Claimed(s)
  <2>1. Go(s, "refused") /\ UNCHANGED registrations  BY <1>2 DEF Claim
  <2>2. Moves(s) /\ starts'[s].pc = "refused"  BY <1>1, <2>1, GoMoves, PlaceFacts
  <2>3. Reserved(s) => \E t \in Starts \ {s} : Owns(t, NameOf(s))
    <3> SUFFICES ASSUME Reserved(s) PROVE \E t \in Starts \ {s} : Owns(t, NameOf(s))  OBVIOUS
    <3>1. starts[s].kind \in Launches  BY DEF Reserved, ReservationInv
    <3>2. NameOf(s) \in registrations.runs  BY <1>2, <3>1 DEF Claimed, HasType, Launches
    <3> QED  BY <1>1, <3>2, PlaceFacts DEF OwnersInv
  <2> QED  BY <1>1, <2>1, <2>2, <2>3, PlaceFacts, QuietMove
<1>3. CASE ~Claimed(s)
  <2>1. Go(s, "registered")  BY <1>3 DEF Claim
  <2>2. Moves(s) /\ starts'[s].pc = "registered"  BY <1>1, <2>1, GoMoves, PlaceFacts
  <2>3. /\ HasType(s) => /\ registrations'.runs = registrations.runs \cup {NameOf(s)}
                         /\ registrations'.people = registrations.people
        /\ ~HasType(s) => /\ registrations'.runs = registrations.runs
                          /\ registrations'.people = registrations.people \cup {starts[s].participant}
    BY <1>3 DEF Claim, StartsInv
  <2>4. s \notin sessions /\ s \notin Live' /\ Live' \subseteq Live
    BY <1>1, <2>2, PlaceFacts DEF StartsInv, Live, Moves
  <2>5. StartsInv'
    <3>1. starts[s].participant \in Participants /\ NameOf(s) \in Names  BY <1>1, IdentifiedFacts
    <3>2. registrations' \in [runs : SUBSET Names, people : SUBSET Participants]
      <4>1. registrations \in [runs : SUBSET Names, people : SUBSET Participants]  BY DEF StartsInv
      <4>2. CASE HasType(s)
        <5>1. registrations' = [registrations EXCEPT !.runs = @ \cup {NameOf(s)}]
          BY <1>3, <4>2 DEF Claim
        <5> QED  BY <3>1, <4>1, <4>2, <5>1
      <4>3. CASE ~HasType(s)
        <5>1. registrations' = [registrations EXCEPT !.people = @ \cup {starts[s].participant}]
          BY <1>3, <4>3 DEF Claim
        <5> QED  BY <3>1, <4>1, <4>3, <5>1
      <4> QED  BY <4>2, <4>3
    <3> QED  BY <1>1, <2>2, <2>4, <3>2, PlaceFacts DEF StartsInv, Moves
  <2>6. ReservationInv'  BY <1>1, <2>2, MovesReservation
  <2>7. OwnersInv'  BY <1>1, <2>2, <2>3, <2>4, PlaceFacts, MovesOwners
  <2>8. HoldersInv'
    <3>1. \A t \in Starts : /\ Holds(t)' => t = s \/ Holds(t)
                            /\ Claimed(t) => Claimed(t)'
      BY <1>1, <2>2, <2>3, MovesFacts DEF Holds, At, Moves, Claimed
    <3>2. Claimed(s)'  BY <2>2, <2>3, MovesFacts DEF Claimed
    <3>3. ASSUME NEW t \in Starts, t # s, Holds(t)
          PROVE  /\ Hazard(t) # Hazard(s)
                 /\ HasType(s) /\ HasType(t) => NameOf(s) # NameOf(t)
      <4>1. Claimed(t)  BY <3>3 DEF HoldersInv
      <4>2. CASE HasType(s) /\ HasType(t)  BY <1>3, <4>1, <4>2 DEF Claimed, Hazard, Registry
      <4>3. CASE HasType(s) /\ ~HasType(t)  BY <4>3 DEF Hazard, Registry
      <4>4. CASE ~HasType(s) /\ HasType(t)  BY <4>4 DEF Hazard, Registry
      <4>5. CASE ~HasType(s) /\ ~HasType(t)  BY <1>3, <4>1, <4>5 DEF Claimed, Hazard
      <4> QED  BY <4>2, <4>3, <4>4, <4>5
    <3>4. \A t, u \in Starts : Holds(t)' /\ Holds(u)' /\ t # u =>
              /\ Hazard(t) # Hazard(u)
              /\ HasType(t) /\ HasType(u) => NameOf(t) # NameOf(u)
      BY <3>1, <3>3 DEF HoldersInv
    <3> QED  BY <2>2, <3>1, <3>2, <3>4, MovesFacts DEF HoldersInv
  <2>9. OccurrenceInv'  BY <1>1, <2>2, <2>4, MovesOccurrences
  <2>10. StartsKeepApart'  BY <1>1, <2>2, <2>4, <2>5, <2>8, MovesApart
  <2> QED  BY <2>5, <2>6, <2>7, <2>8, <2>9, <2>10
<1> QED  BY <1>2, <1>3

\* A session begins where its name was registered and no folder had come into being.
LEMMA MakeFolderInv ==
  ASSUME IdentityInv, NEW s \in Starts, MakeFolder(s) PROVE IdentityInv'
<1> USE DEF IdentityInv
<1>1. /\ starts[s].pc = "registered" /\ Identified(s)
      /\ UNCHANGED << reservations, registrations, occurrences >>
  BY DEF MakeFolder, At, Identified
<1>2. CASE NameOf(s) \in folders
  <2>1. Go(s, "refused") /\ UNCHANGED << folders, sessions >>  BY <1>2 DEF MakeFolder
  <2>2. Moves(s) /\ starts'[s].pc = "refused"  BY <1>1, <2>1, GoMoves, PlaceFacts
  <2>3. \E t \in Starts \ {s} : Owns(t, NameOf(s))  BY <1>1, <1>2, PlaceFacts DEF OwnersInv
  <2> QED  BY <1>1, <2>1, <2>2, <2>3, PlaceFacts, QuietMove
<1>3. CASE NameOf(s) \notin folders
  <2>1. Go(s, "running") /\ folders' = folders \cup {NameOf(s)} /\ sessions' = sessions \cup {s}
    BY <1>3 DEF MakeFolder
  <2>2. Moves(s) /\ starts'[s].pc = "running"  BY <1>1, <2>1, GoMoves, PlaceFacts
  <2>3. StartsInv'
    <3>1. Live' \subseteq Live \cup {s}  BY <2>2 DEF Live, Moves
    <3> QED  BY <1>1, <2>1, <2>2, <3>1, PlaceFacts DEF StartsInv, Moves
  <2>4. ReservationInv'  BY <1>1, <2>2, MovesReservation
  <2>5. OwnersInv'  BY <1>1, <2>1, <2>2, PlaceFacts, MovesOwners
  <2>6. HoldersInv'
    <3>1. Holds(s)  BY <1>1 DEF Holds, At
    <3>2. \A t \in Starts : /\ Holds(t)' => Holds(t)
                            /\ Claimed(t)' <=> Claimed(t)
      BY <1>1, <2>1, <2>2, <3>1, MovesFacts DEF Holds, At, Claimed, Moves
    <3> QED  BY <2>2, <3>2, MovesFacts DEF HoldersInv
  <2>7. s \notin sessions  BY <1>1, PlaceFacts DEF StartsInv
  <2>8. OccurrenceInv'  BY <1>1, <2>1, <2>2, <2>7, MovesOccurrences
  <2>9. StartsKeepApart'  BY <1>1, <1>3, <2>2, <2>3, <2>6, MovesApart
  <2> QED  BY <2>3, <2>4, <2>5, <2>6, <2>8, <2>9
<1> QED  BY <1>2, <1>3

\* The hazard of a session is its own: no other can have reserved it.
LEMMA ReachHazardInv ==
  ASSUME IdentityInv, NEW s \in Starts, ReachHazard(s) PROVE IdentityInv'
<1> USE DEF IdentityInv
<1>1. /\ starts[s].pc = "running" /\ Identified(s)
      /\ UNCHANGED << reservations, registrations, folders, sessions >>
  BY DEF ReachHazard, At, Identified
<1>2. s \in sessions /\ s \in Live  BY <1>1 DEF StartsInv, Live
<1>3. Hazard(s) \notin occurrences
  <2> SUFFICES ASSUME Hazard(s) \in occurrences PROVE FALSE  OBVIOUS
  <2>1. PICK t \in sessions : Hazard(t) = Hazard(s) /\ ~At(t, "running")  BY DEF OccurrenceInv
  <2>2. t # s /\ t \in Starts  BY <1>1, <2>1 DEF At, StartsInv
  <2> QED  BY <1>2, <2>1, <2>2 DEF HoldersInv, Holds
<1>4. Go(s, "hazard run") /\ occurrences' = occurrences \cup {Hazard(s)}  BY <1>3 DEF ReachHazard
<1>5. Moves(s) /\ starts'[s].pc = "hazard run"  BY <1>1, <1>4, GoMoves, PlaceFacts
<1>6. StartsInv'
  <2>1. Live' \subseteq Live  BY <1>2, <1>5 DEF Live, Moves
  <2> QED  BY <1>1, <1>2, <1>5, <2>1, PlaceFacts DEF StartsInv, Moves
<1>7. ReservationInv'  BY <1>1, <1>5, MovesReservation
<1>8. OwnersInv'  BY <1>1, <1>2, <1>5, PlaceFacts, MovesOwners
<1>9. HoldersInv'  BY <1>1, <1>5, MovesHolders
<1>10. OccurrenceInv'
  <2>1. \A t \in sessions : t \in Starts  BY DEF StartsInv
  <2>2. ASSUME NEW o \in occurrences'
        PROVE  \E t \in sessions : Hazard(t)' = o /\ starts'[t].pc # "running"
    <3>1. CASE o \in occurrences  BY <1>5, <2>1, <3>1, MovesFacts DEF OccurrenceInv, At, Moves
    <3>2. CASE o = Hazard(s)  BY <1>2, <1>5, <2>1, <3>2, MovesFacts
    <3> QED  BY <1>4, <2>2, <3>1, <3>2
  <2> QED  BY <1>1, <2>2 DEF OccurrenceInv, At
<1>11. StartsKeepApart'  BY <1>1, <1>2, <1>5, <1>6, <1>9, MovesApart
<1> QED  BY <1>6, <1>7, <1>8, <1>9, <1>10, <1>11

(* The steps of a start that chooses, and those of nobody's start. *)

\* A step of the search for a free name, whatever it found.
LEMMA SearchStep ==
  ASSUME IdentityInv, NEW s \in Starts, starts[s].pc \in Choosing, UNCHANGED disks,
         NextNumber(s) \/ \E place \in Choosing : Go(s, place)
  PROVE  IdentityInv'
<1> USE DEF IdentityInv
<1>1. Identified(s)  BY DEF Identified, At, Choosing
<1>2. /\ starts[s] \in StartRecord /\ starts[s].kind = "pilot" /\ NameOf(s) \in PilotNames
      /\ starts \in [Starts -> StartRecord \cup {New, [pc |-> "over"]}]
  BY <1>1, IdentifiedFacts DEF StartsInv, Launches
<1>3. \E r \in StartRecord : r.pc \in Choosing /\ starts' = [starts EXCEPT ![s] = r]
  <2>1. CASE NextNumber(s)
    <3> DEFINE name == [starts[s].name EXCEPT !.number = @ + 1]
               r == [starts[s] EXCEPT !.pc = "folder", !.name = name]
    <3>1. name \in PilotNames  BY <1>2, <2>1, IdentityAssumption DEF NextNumber, NameOf, PilotNames
    <3>2. starts' = [starts EXCEPT ![s] = r]  BY <1>2, <2>1 DEF NextNumber, StartRecord
    <3> HIDE DEF name
    <3>3. r \in StartRecord /\ r.pc = "folder"
      BY <1>2, <3>1 DEF StartRecord, Names, Places, Choosing
    <3> QED  BY <3>2, <3>3 DEF Choosing
  <2>2. ASSUME NEW place \in Choosing, Go(s, place)
        PROVE  \E r \in StartRecord : r.pc \in Choosing /\ starts' = [starts EXCEPT ![s] = r]
    <3> DEFINE r == [starts[s] EXCEPT !.pc = place]
    <3>1. r \in StartRecord /\ r.pc = place  BY <1>2, <2>2 DEF StartRecord, Places
    <3>2. starts' = [starts EXCEPT ![s] = r]  BY <2>2 DEF Go
    <3> QED  BY <2>2, <3>1, <3>2
  <2> QED  BY <2>1, <2>2
<1>4. PICK r \in StartRecord : r.pc \in Choosing /\ starts' = [starts EXCEPT ![s] = r]  BY <1>3
<1>5. /\ starts' \in [Starts -> StartRecord \cup {New, [pc |-> "over"]}] /\ starts'[s] = r
      /\ \A t \in Starts \ {s} : starts'[t] = starts[t]
  BY <1>2, <1>4
<1>6. r.pc \notin {"over", "started"}  BY <1>4 DEF Choosing
<1> QED  BY <1>4, <1>5, <1>6, ChoosingStep

LEMMA LookInv ==
  ASSUME IdentityInv, NEW s \in Starts,
         LookForFolder(s) \/ LookForArchive(s) \/ LookForRegistration(s)
  PROVE  IdentityInv'
<1>1. starts[s].pc \in Choosing /\ UNCHANGED << diskVars, sessions >>
  BY DEF LookForFolder, LookForArchive, LookForRegistration, Look, At, Choosing
<1>2. NextNumber(s) \/ Go(s, "archive") \/ Go(s, "registration") \/ Go(s, "reserve")
  BY DEF LookForFolder, LookForArchive, LookForRegistration, Look
<1> QED  BY <1>1, <1>2, SearchStep DEF disks, diskVars, Choosing

LEMMA ReserveInv == ASSUME IdentityInv, NEW s \in Starts, Reserve(s) PROVE IdentityInv'
<1>1. CASE \E r \in reservations : r.name = NameOf(s)
  <2>1. /\ starts[s].pc \in Choosing /\ NextNumber(s)
        /\ UNCHANGED << reservations, registrations, folders, occurrences, sessions >>
    BY <1>1 DEF Reserve, At, Choosing
  <2> QED  BY <2>1, SearchStep DEF disks
<1>2. CASE ~ \E r \in reservations : r.name = NameOf(s)  BY <1>2, ReserveSucceeds DEF Reserve
<1> QED  BY <1>1, <1>2

\* A start is given its name, or gives up.
LEMMA ChooseInv ==
  ASSUME IdentityInv, NEW s \in Starts, GiveUp(s) \/ ChoosePilot(s) \/ ChooseDirect(s)
  PROVE  IdentityInv'
<1> DEFINE given(place, kind, p, n) == [pc |-> place, kind |-> kind, participant |-> p, name |-> n]
<1>1. starts[s].pc = "new" /\ UNCHANGED disks
  BY DEF GiveUp, ChoosePilot, ChooseDirect, At, disks, diskVars
<1>2. starts \in [Starts -> StartRecord \cup {New, [pc |-> "over"]}]  BY DEF IdentityInv, StartsInv
<1>3. ASSUME NEW r \in StartRecord \cup {[pc |-> "over"]}, starts' = [starts EXCEPT ![s] = r],
             r.pc \in {"over", "started", "folder"},
             r.pc = "started" => r.kind \notin Launches
      PROVE  IdentityInv'
  <2>1. /\ starts' \in [Starts -> StartRecord \cup {New, [pc |-> "over"]}] /\ starts'[s] = r
        /\ \A t \in Starts \ {s} : starts'[t] = starts[t]
    BY <1>2, <1>3
  <2>2. r.pc \in {"over", "started"} \cup Choosing  BY <1>3 DEF Choosing
  <2> QED  BY <1>1, <1>3, <2>1, <2>2, ChoosingStep
<1>4. CASE GiveUp(s)
  <2>1. starts' = [starts EXCEPT ![s] = [pc |-> "over"]]  BY <1>4 DEF GiveUp
  <2> QED  BY <1>3, <2>1
<1>5. CASE ChoosePilot(s)
  <2>1. PICK p \in Participants :
           starts' = [starts EXCEPT ![s] =
              given("folder", "pilot", p, [participant |-> p, number |-> 1])]
    BY <1>5 DEF ChoosePilot
  <2>2. [participant |-> p, number |-> 1] \in PilotNames  BY IdentityAssumption DEF PilotNames
  <2>3. given("folder", "pilot", p, [participant |-> p, number |-> 1]) \in StartRecord
    BY <2>2 DEF StartRecord, Places, Choosing, Launches, Names
  <2> QED  BY <1>3, <2>1, <2>3
<1>6. CASE ChooseDirect(s)
  <2>1. PICK p \in Participants, k \in {"typed", "untyped"}, n \in Names :
          starts' = [starts EXCEPT ![s] = given("started", k, p, n)]
    BY <1>6 DEF ChooseDirect
  <2>2. given("started", k, p, n) \in StartRecord /\ k \notin Launches
    BY PlaceFacts DEF StartRecord, Choosing, Launches
  <2> QED  BY <1>3, <2>1, <2>2
<1> QED  BY <1>4, <1>5, <1>6

\* Of a run that is over the folder may go; nothing but folders is said of folders.
LEMMA NobodyInv ==
  ASSUME IdentityInv, AskForWindows \/ MoveAway \/ UNCHANGED identityVars
  PROVE  IdentityInv'
<1>1. /\ UNCHANGED << starts, reservations, registrations, occurrences, sessions >>
      /\ folders' \subseteq folders /\ \A s \in Live : NameOf(s) \in folders => NameOf(s) \in folders'
  BY DEF AskForWindows, MoveAway, identityVars, diskVars
<1> USE <1>1
<1>2. \A s \in Starts : /\ Identified(s)' = Identified(s) /\ Reserved(s)' = Reserved(s)
                        /\ Reservation(s)' = Reservation(s) /\ Hazard(s)' = Hazard(s)
                        /\ NameOf(s)' = NameOf(s) /\ HasType(s)' = HasType(s)
                        /\ Holds(s)' = Holds(s) /\ Claimed(s)' = Claimed(s)
  BY DEF Identified, At, Reserved, Reservation, Hazard, Registry, NameOf, HasType, Holds, Claimed
<1>3. StartsInv' /\ HoldersInv' /\ OccurrenceInv'
  <2>1. StartsInv' /\ (\A t \in sessions : t \in Starts)  BY DEF IdentityInv, StartsInv, Live
  <2>2. HoldersInv'  BY <1>2 DEF IdentityInv, HoldersInv
  <2>3. OccurrenceInv'  BY <1>2, <2>1 DEF IdentityInv, OccurrenceInv, At
  <2> QED  BY <2>1, <2>2, <2>3
<1>4. ReservationInv'  BY <1>2 DEF IdentityInv, ReservationInv
<1>l. Live' = Live /\ Live \subseteq Starts  BY DEF Live
<1>5. OwnersInv'  BY <1>2, <1>l DEF IdentityInv, OwnersInv, Owns
<1>6. StartsKeepApart'
  <2>1. \A t \in sessions : t \in Starts  BY DEF IdentityInv, StartsInv
  <2>2. \A s, t \in Starts : ByHand(s, t)' = ByHand(s, t)  BY <1>2 DEF ByHand, IsByHand
  <2>3. HazardIsAvailable' /\ (\A s \in Starts : At(s, "refused")' = At(s, "refused"))
    BY DEF IdentityInv, StartsKeepApart, HazardIsAvailable, At
  <2>4. \A s, t \in Live' : s # t => NameOf(s)' # NameOf(t)'
    BY <1>2, <1>l DEF IdentityInv, StartsInv, StartsKeepApart, RunsAreDistinct
  <2>5. \A s \in Starts : Reserved(s)' /\ At(s, "refused")' => \E t \in Starts : ByHand(s, t)'
    BY <1>2, <2>2, <2>3 DEF IdentityInv, StartsKeepApart, RunsAreDistinct
  <2> QED  BY <1>3, <1>4, <2>3, <2>4, <2>5, ApartFrom
<1> QED  BY <1>3, <1>4, <1>5, <1>6 DEF IdentityInv

LEMMA IdentityStep == ASSUME IdentityInv, [IdentityNext]_identityVars PROVE IdentityInv'
<1>1. ASSUME NEW s \in Starts,
             \/ GiveUp(s) \/ ChoosePilot(s) \/ LookForFolder(s) \/ LookForArchive(s)
             \/ LookForRegistration(s) \/ Reserve(s) \/ Supervise(s)
             \/ ChooseDirect(s) \/ Assigned(s) \/ Unassigned(s)
             \/ Claim(s) \/ MakeFolder(s) \/ ReachHazard(s) \/ FinishRun(s)
             \/ Crash(s) \/ Recover(s)
      PROVE  IdentityInv'
  BY <1>1, ChooseInv, LookInv, ReserveInv, SuperviseInv, AssignedInv,
     UnassignedInv, ClaimInv, MakeFolderInv, ReachHazardInv, FinishRunInv, CrashInv, RecoverInv
<1> QED  BY <1>1, NobodyInv DEF IdentityNext

\* For every number of starts, participants and numbers: no two live sessions share a name,
\* no two typed ones ever, no two untyped ones a participant; a reserved name is refused only
\* for one that was given by hand, a supervisor recovers no other launch's session, and a
\* session that reaches the hazard finds its occurrence free (pilot_identity.py,
\* operator_registration.py, services.py, occurrence.py, run_pilot_supervised.py).
THEOREM StartsAreKeptApart == IdentitySpec => []StartsKeepApart
<1>1. IdentityInit => IdentityInv  BY IdentityStart
<1>2. IdentityInv /\ [IdentityNext]_identityVars => IdentityInv'  BY IdentityStep
<1>3. IdentityInv => StartsKeepApart  BY DEF IdentityInv
<1> QED  BY <1>1, <1>2, <1>3, PTL DEF IdentitySpec

(* What a go makes of a sequence, item by item. *)

\* A set of numbers with zero and with the successor of each of its numbers has them all.
LEMMA NumbersFollow ==
    ASSUME NEW S, 0 \in S, \A n \in Nat : n \in S => n + 1 \in S
    PROVE  Nat \subseteq S
  <1> SUFFICES ASSUME Nat \ S # {} PROVE FALSE  OBVIOUS
  <1>1. PICK n \in Nat \ S : \A m \in Nat \ S : n <= m  BY LeastNatural
  <1>2. n # 0 /\ n - 1 \in Nat  BY <1>1
  <1>3. n - 1 \in S  BY <1>1, <1>2
  <1> QED  BY <1>1, <1>2, <1>3

\* The states that a step makes of an item after the other.
Unfolds(f, n, go, a, s) ==
    f = [i \in 0 .. n |-> IF i = 0 THEN a ELSE go[<<f[i - 1], s[i]>>]]

\* What a step makes of a state and an item can be followed through any sequence.
LEMMA FoldExists ==
    ASSUME NEW A, NEW B, NEW go \in [A \X B -> A], NEW a \in A, NEW s \in Seq(B)
    PROVE  \E f \in [0 .. Len(s) -> A] : Unfolds(f, Len(s), go, a, s)
  <1> DEFINE K == {n \in Nat : n <= Len(s) =>
                     \E f \in [0 .. n -> A] : Unfolds(f, n, go, a, s)}
  <1>1. 0 \in K
    <2> DEFINE f == [i \in 0 .. 0 |-> a]
    <2>1. f \in [0 .. 0 -> A] /\ Unfolds(f, 0, go, a, s)  BY DEF Unfolds
    <2> QED BY <2>1
  <1>2. ASSUME NEW n \in Nat, n \in K
        PROVE  n + 1 \in K
    <2> SUFFICES ASSUME n + 1 <= Len(s)
                 PROVE  \E f \in [0 .. n + 1 -> A] : Unfolds(f, n + 1, go, a, s)
      OBVIOUS
    <2>1. Len(s) \in Nat  OBVIOUS
    <2>2. PICK f \in [0 .. n -> A] : Unfolds(f, n, go, a, s)  BY <1>2, <2>1
    <2>3. s[n + 1] \in B  OBVIOUS
    <2>4. f[n] \in A /\ go[<<f[n], s[n + 1]>>] \in A  BY <2>2, <2>3
    <2> DEFINE g == [i \in 0 .. n + 1 |-> IF i = n + 1 THEN go[<<f[n], s[n + 1]>>] ELSE f[i]]
    <2>5. g \in [0 .. n + 1 -> A]  BY <2>2, <2>4
    <2>6. ASSUME NEW i \in 0 .. n + 1
          PROVE  g[i] = IF i = 0 THEN a ELSE go[<<g[i - 1], s[i]>>]
      <3>1. CASE i = n + 1
        <4>1. i # 0 /\ i - 1 = n /\ s[i] = s[n + 1]  BY <3>1
        <4>2. g[i] = go[<<f[n], s[n + 1]>>]  BY <3>1
        <4>3. g[i - 1] = f[n]  BY <4>1
        <4>4. go[<<g[i - 1], s[i]>>] = go[<<f[n], s[n + 1]>>]  BY <4>1, <4>3, Zenon
        <4> QED BY <4>1, <4>2, <4>4, Zenon
      <3>2. CASE i \in 0 .. n
        <4>1. g[i] = f[i]  BY <3>2
        <4>2. i # 0 => g[i - 1] = f[i - 1]  BY <3>2
        <4>3. f[i] = IF i = 0 THEN a ELSE go[<<f[i - 1], s[i]>>]  BY <3>2, <2>2 DEF Unfolds
        <4>4. CASE i = 0  BY <4>1, <4>3, <4>4
        <4>5. CASE i # 0
          <5>1. g[i - 1] = f[i - 1]  BY <4>2, <4>5
          <5>2. f[i] = go[<<f[i - 1], s[i]>>]  BY <4>3, <4>5
          <5>3. go[<<g[i - 1], s[i]>>] = go[<<f[i - 1], s[i]>>]  BY <5>1, Zenon
          <5> QED BY <4>1, <4>5, <5>2, <5>3, Zenon
        <4> QED BY <4>4, <4>5
      <3>3. i = n + 1 \/ i \in 0 .. n  OBVIOUS
      <3> QED BY <3>1, <3>2, <3>3, Zenon
    <2>7. Unfolds(g, n + 1, go, a, s)  BY <2>5, <2>6 DEF Unfolds
    <2> QED BY <2>5, <2>7
  <1> HIDE DEF K
  <1>3. Nat \subseteq K  BY <1>1, <1>2, NumbersFollow
  <1>4. Len(s) \in K  BY <1>3
  <1> QED  BY <1>4 DEF K

\* What holds of the first and passes from each to the next holds of all.
LEMMA StaysIn ==
    ASSUME NEW A, NEW n \in Nat, NEW f, f[0] \in A,
           \A i \in 1 .. n : f[i - 1] \in A => f[i] \in A
    PROVE  \A i \in 0 .. n : f[i] \in A
  <1> DEFINE K == {i \in Nat : i <= n => f[i] \in A}
  <1>1. 0 \in K  OBVIOUS
  <1>2. ASSUME NEW i \in Nat, i \in K
        PROVE  i + 1 \in K
    <2> SUFFICES ASSUME i + 1 <= n PROVE f[i + 1] \in A  OBVIOUS
    <2>1. i + 1 \in 1 .. n /\ (i + 1) - 1 = i  OBVIOUS
    <2> QED BY <1>2, <2>1
  <1> HIDE DEF K
  <1>3. Nat \subseteq K  BY <1>1, <1>2, NumbersFollow
  <1> QED  BY <1>3 DEF K

Keys == [keyboard : BOOLEAN, logical : BOOLEAN, press : BOOLEAN]

\* The commands' key through a frame.
LEMMA KnownKeysFollow ==
    ASSUME NEW events \in Seq(Events), commands.keyboard \in BOOLEAN
    PROVE  /\ KnownKeys(events) \in [0 .. Len(events) -> BOOLEAN]
           /\ KnownKeys(events)[0] = commands.keyboard
           /\ \A i \in 1 .. Len(events) :
                KnownKeys(events)[i] = Keyboard(KnownKeys(events)[i - 1], events[i])
  <1> DEFINE go == [x \in BOOLEAN \X Events |-> Keyboard(x[1], x[2])]
  <1>1. /\ go \in [BOOLEAN \X Events -> BOOLEAN]
        /\ \A d \in BOOLEAN, e \in Events : go[<<d, e>>] = Keyboard(d, e)
    BY DEF Keyboard
  <1> HIDE DEF go
  <1>2. PICK f \in [0 .. Len(events) -> BOOLEAN] :
          f = [i \in 0 .. Len(events) |->
                 IF i = 0 THEN commands.keyboard ELSE go[<<f[i - 1], events[i]>>]]
    <2>1. PICK d : d = commands.keyboard  BY Zenon
    <2>2. PICK D : D = BOOLEAN  BY Zenon
    <2>3. d \in D /\ go \in [D \X Events -> D]  BY <1>1, <2>1, <2>2, Zenon
    <2>4. \E f \in [0 .. Len(events) -> D] : Unfolds(f, Len(events), go, d, events)
      BY <2>3, FoldExists
    <2> QED BY <2>1, <2>2, <2>4, Zenon DEF Unfolds
  <1>3. \A i \in 1 .. Len(events) : i - 1 \in 0 .. Len(events) /\ events[i] \in Events  OBVIOUS
  <1>4. \A i \in 0 .. Len(events) : i # 0 => go[<<f[i - 1], events[i]>>] = Keyboard(f[i - 1], events[i])
    <2> TAKE i \in 0 .. Len(events)
    <2> HAVE i # 0
    <2>1. i \in 1 .. Len(events) /\ i - 1 \in 0 .. Len(events)  OBVIOUS
    <2>2. f[i - 1] \in BOOLEAN /\ events[i] \in Events  BY <2>1, <1>2, <1>3, Zenon
    <2> QED BY <2>2, <1>1, Zenon
  <1>5. f = [i \in 0 .. Len(events) |->
              IF i = 0 THEN commands.keyboard ELSE Keyboard(f[i - 1], events[i])]
    BY <1>2, <1>4
  <1>6. KnownKeys(events) = [i \in 0 .. Len(events) |->
              IF i = 0 THEN commands.keyboard ELSE Keyboard(KnownKeys(events)[i - 1], events[i])]
    BY <1>5 DEF KnownKeys
  <1> DEFINE k == KnownKeys(events)
  <1>7. /\ DOMAIN k = 0 .. Len(events) /\ k = [i \in DOMAIN k |-> k[i]]
        /\ k[0] = commands.keyboard
        /\ \A i \in 1 .. Len(events) : k[i] = Keyboard(k[i - 1], events[i])
    BY <1>6
  <1>8. \A i \in 1 .. Len(events) : k[i - 1] \in BOOLEAN => k[i] \in BOOLEAN  BY <1>7 DEF Keyboard
  <1> HIDE DEF k
  <1>9. Len(events) \in Nat  OBVIOUS
  <1>10. \A i \in 0 .. Len(events) : k[i] \in BOOLEAN  BY <1>7, <1>8, <1>9, StaysIn
  <1> QED BY <1>7, <1>10 DEF k

\* What has been made of the events, through a frame.
LEMMA HeardFollows ==
    ASSUME NEW events \in Seq(Events), commands.keyboard \in BOOLEAN,
           commands.wheel \in BOOLEAN, button \in BOOLEAN
    PROVE  /\ \A i \in 0 .. Len(events) : Heard(events)[i] \in Keys
           /\ Heard(events)[0] = [keyboard |-> commands.keyboard, logical |-> KnownDown,
                                  press |-> FALSE]
           /\ \A i \in 1 .. Len(events) :
                Heard(events)[i] = Event(Heard(events)[i - 1], events[i])
  <1> DEFINE go == [x \in Keys \X Events |-> Event(x[1], x[2])]
             first == [keyboard |-> commands.keyboard, logical |-> KnownDown, press |-> FALSE]
  <1>0. \A acc \in Keys, e \in Events : Event(acc, e) \in Keys
    <2> TAKE acc \in Keys, e \in Events
    <2>1. Keyboard(acc.keyboard, e) \in BOOLEAN  BY DEF Keyboard, Keys
    <2>2. Level(Keyboard(acc.keyboard, e)) \in BOOLEAN  BY DEF Level
    <2>3. PICK k : k = Keyboard(acc.keyboard, e)  BY Zenon
    <2>4. PICK l : l = Level(Keyboard(acc.keyboard, e))  BY Zenon
    <2>5. [acc EXCEPT !.keyboard = k] \in Keys  BY <2>1, <2>3 DEF Keys
    <2>6. PICK p : p = (acc.press \/ l)  BY Zenon
    <2>7. p \in BOOLEAN  BY <2>6, Zenon
    <2>8. [keyboard |-> k, logical |-> l, press |-> p] \in Keys
      BY <2>1, <2>2, <2>3, <2>4, <2>7 DEF Keys
    <2>9. Event(acc, e) = [acc EXCEPT !.keyboard = k]
          \/ Event(acc, e) = [keyboard |-> k, logical |-> l, press |-> p]
      BY <2>3, <2>4, <2>6, Zenon DEF Event
    <2> QED BY <2>5, <2>8, <2>9
  <1>1. /\ go \in [Keys \X Events -> Keys]
        /\ \A d \in Keys, e \in Events : go[<<d, e>>] = Event(d, e)
    BY <1>0
  <1>2. first \in Keys  BY Zenon DEF Keys, KnownDown
  <1> HIDE DEF go, first
  <1>3. PICK f \in [0 .. Len(events) -> Keys] : Unfolds(f, Len(events), go, first, events)
    BY <1>1, <1>2, FoldExists
  <1>4. \A i \in 1 .. Len(events) : i - 1 \in 0 .. Len(events) /\ events[i] \in Events  OBVIOUS
  <1>5. \A i \in 0 .. Len(events) : i # 0 => go[<<f[i - 1], events[i]>>] = Event(f[i - 1], events[i])
    <2> TAKE i \in 0 .. Len(events)
    <2> HAVE i # 0
    <2>1. i \in 1 .. Len(events) /\ i - 1 \in 0 .. Len(events)  OBVIOUS
    <2>2. f[i - 1] \in Keys /\ events[i] \in Events  BY <2>1, <1>3, <1>4, Zenon
    <2> QED BY <2>2, <1>1, Zenon
  <1>6. f = [i \in 0 .. Len(events) |-> IF i = 0 THEN first ELSE Event(f[i - 1], events[i])]
    BY <1>3, <1>5 DEF Unfolds
  <1>7. Heard(events) = [i \in 0 .. Len(events) |->
                           IF i = 0 THEN first ELSE Event(Heard(events)[i - 1], events[i])]
    BY <1>6 DEF Heard, first
  <1> DEFINE k == Heard(events)
  <1>8. /\ k[0] = first
        /\ \A i \in 1 .. Len(events) : k[i] = Event(k[i - 1], events[i])
    BY <1>7
  <1>9. \A i \in 1 .. Len(events) : k[i - 1] \in Keys => k[i] \in Keys  BY <1>8, <1>0, <1>4, Zenon
  <1> HIDE DEF k
  <1>10. Len(events) \in Nat  OBVIOUS
  <1>11. \A i \in 0 .. Len(events) : k[i] \in Keys  BY <1>8, <1>2, <1>9, <1>10, StaysIn
  <1> QED BY <1>8, <1>11 DEF k, first

\* Rising(events, n): the logical key was free and then held, within the first n events.
Rising(events, n) ==
    \E a, b \in 0 .. n : a < b /\ ~Levels(events)[a] /\ Levels(events)[b]

\* What has been made of the first n events agrees with the key's levels: the logical key
\* is at a level it was at, a press is a rise, and a rise from a free start is a press.
Heeded(events, n) ==
    LET h == Heard(events)[n]
    IN  /\ h.keyboard = KnownKeys(events)[n]
        /\ \E m \in 0 .. n : h.logical = Levels(events)[m]
        /\ h.press => Rising(events, n)
        /\ h.logical /\ ~KnownDown => h.press

\* The levels of a frame are where they are said to be.
LEMMA LevelsFacts ==
    ASSUME NEW events \in Seq(Events)
    PROVE  /\ DOMAIN Levels(events) = 0 .. Len(events) + 1
           /\ Levels(events)[0] = KnownDown
           /\ \A i \in 1 .. Len(events) : Levels(events)[i] = Level(KnownKeys(events)[i])
           /\ Len(events) # 0 =>
                Levels(events)[Len(events) + 1] = Level(KnownKeys(events)[Len(events)])
           /\ Len(events) = 0 => Levels(events)[1] = Level(KnownKeys(events)[0])
  BY DEF Levels

\* Each event keeps that agreement.
LEMMA EventHeeded ==
    ASSUME NEW events \in Seq(Events), commands.keyboard \in BOOLEAN,
           commands.wheel \in BOOLEAN, button \in BOOLEAN,
           NEW n \in Nat, n + 1 <= Len(events), Heeded(events, n)
    PROVE  Heeded(events, n + 1)
  <1> DEFINE h == Heard(events)[n]
             g == Heard(events)[n + 1]
             e == events[n + 1]
             l == Levels(events)[n + 1]
  <1>1. n + 1 \in 1 .. Len(events) /\ n \in 0 .. Len(events) /\ (n + 1) - 1 = n  OBVIOUS
  <1>2. h \in Keys /\ g = Event(h, e) /\ KnownKeys(events)[n + 1] = Keyboard(KnownKeys(events)[n], e)
    BY <1>1, HeardFollows, KnownKeysFollow
  <1>3. l = Level(KnownKeys(events)[n + 1])  BY <1>1, LevelsFacts
  <1>4. h.keyboard = KnownKeys(events)[n]  BY DEF Heeded
  <1>5. PICK m \in 0 .. n : h.logical = Levels(events)[m]  BY DEF Heeded
  <1>6. m \in 0 .. n + 1 /\ n + 1 \in 0 .. n + 1 /\ m < n + 1  BY <1>5
  <1>7. Rising(events, n) => Rising(events, n + 1)  BY DEF Rising
  <1>8. (h.press => Rising(events, n)) /\ (h.logical /\ ~KnownDown => h.press)  BY DEF Heeded
  <1>9. l = Level(Keyboard(h.keyboard, e))  BY <1>2, <1>3, <1>4
  <1>10. CASE e # "repeat" /\ Transition(h, l)
    <2>1. g = [keyboard |-> Keyboard(h.keyboard, e), logical |-> l, press |-> h.press \/ l]
      BY <1>2, <1>9, <1>10, Zenon DEF Event
    <2>2. g.keyboard = Keyboard(h.keyboard, e) /\ g.logical = l /\ g.press = (h.press \/ l)  BY <2>1
    <2>3. g.press => Rising(events, n + 1)
      <3>1. CASE h.press  BY <1>7, <1>8, <3>1
      <3>2. CASE ~h.press /\ l
        <4>1. ~h.logical  BY <1>10, <3>2, <1>2, Zenon DEF Transition, Keys
        <4>2. ~Levels(events)[m] /\ Levels(events)[n + 1]  BY <4>1, <1>5, <3>2
        <4> QED BY <4>2, <1>6 DEF Rising
      <3> QED BY <2>2, <3>1, <3>2, Zenon
    <2>4. g.logical /\ ~KnownDown => g.press  BY <2>2, Zenon
    <2>5. g.keyboard = KnownKeys(events)[n + 1]  BY <2>2, <1>2, <1>4
    <2>6. \E i \in 0 .. n + 1 : g.logical = Levels(events)[i]  BY <2>2, <1>6
    <2> QED BY <2>3, <2>4, <2>5, <2>6 DEF Heeded
  <1>11. CASE ~(e # "repeat" /\ Transition(h, l))
    <2>1. g = [h EXCEPT !.keyboard = Keyboard(h.keyboard, e)]  BY <1>2, <1>9, <1>11, Zenon DEF Event
    <2>2. g.keyboard = Keyboard(h.keyboard, e) /\ g.logical = h.logical /\ g.press = h.press
      BY <2>1, <1>2 DEF Keys
    <2>3. g.keyboard = KnownKeys(events)[n + 1]  BY <2>2, <1>2, <1>4
    <2>4. \E i \in 0 .. n + 1 : g.logical = Levels(events)[i]  BY <2>2, <1>5, <1>6
    <2>5. (g.press => Rising(events, n + 1)) /\ (g.logical /\ ~KnownDown => g.press)
      BY <2>2, <1>7, <1>8
    <2> QED BY <2>3, <2>4, <2>5 DEF Heeded
  <1> QED BY <1>10, <1>11

\* And so does a frame.
LEMMA FrameHeeded ==
    ASSUME NEW events \in Seq(Events), commands.keyboard \in BOOLEAN,
           commands.wheel \in BOOLEAN, button \in BOOLEAN
    PROVE  Heeded(events, Len(events))
  <1> DEFINE K == {n \in Nat : n <= Len(events) => Heeded(events, n)}
  <1>1. 0 \in K
    <2>1. Heard(events)[0] = [keyboard |-> commands.keyboard, logical |-> KnownDown,
                              press |-> FALSE]
      BY HeardFollows
    <2>2. /\ Heard(events)[0].keyboard = commands.keyboard
          /\ Heard(events)[0].logical = KnownDown /\ ~Heard(events)[0].press
      BY <2>1
    <2>3. KnownKeys(events)[0] = commands.keyboard /\ Levels(events)[0] = KnownDown
      BY KnownKeysFollow, LevelsFacts
    <2>4. Heard(events)[0].logical = Levels(events)[0] /\ 0 \in 0 .. 0  BY <2>2, <2>3
    <2>5. Heeded(events, 0)  BY <2>2, <2>3, <2>4 DEF Heeded
    <2> QED BY <2>5
  <1>2. ASSUME NEW n \in Nat, n \in K
        PROVE  n + 1 \in K
    <2> SUFFICES ASSUME n + 1 <= Len(events) PROVE Heeded(events, n + 1)  OBVIOUS
    <2>1. n <= Len(events)  OBVIOUS
    <2>2. Heeded(events, n)  BY <1>2, <2>1
    <2> QED BY <2>2, EventHeeded
  <1> HIDE DEF K
  <1>3. Nat \subseteq K  BY <1>1, <1>2, NumbersFollow
  <1>4. Len(events) \in K  BY <1>3
  <1> QED BY <1>4 DEF K

\* A frame that gives its command saw the logical key rise, and one that began free and
\* ends held gives it.
LEMMA FrameCounts ==
    ASSUME NEW events \in Seq(Events), commands.keyboard \in BOOLEAN,
           commands.wheel \in BOOLEAN, button \in BOOLEAN
    PROVE  /\ Coalesced(events) =>
                \E i, j \in 0 .. Len(events) + 1 :
                   i < j /\ ~Levels(events)[i] /\ Levels(events)[j]
           /\ ~KnownDown /\ (KeyboardAfter(events) \/ button) => Coalesced(events)
  <1> DEFINE n == Len(events)
             h == Heard(events)[n]
             k == KeyboardAfter(events)
  <1>1. n \in Nat /\ n \in 0 .. n  OBVIOUS
  <1>2. h \in Keys /\ k \in BOOLEAN /\ h.keyboard = k
    BY <1>1, HeardFollows, KnownKeysFollow, FrameHeeded DEF Heeded, KeyboardAfter
  <1>3. PICK m \in 0 .. n : h.logical = Levels(events)[m]  BY FrameHeeded DEF Heeded
  <1>4. (h.press => Rising(events, n)) /\ (h.logical /\ ~KnownDown => h.press)
    BY FrameHeeded DEF Heeded
  <1>5. Levels(events)[n + 1] = Level(k)  BY <1>1, LevelsFacts DEF KeyboardAfter
  <1>6. Coalesced(events) = (~HandedOver(events) /\ (h.press \/ (Level(k) /\ ~h.logical)))
    BY <1>2, Zenon DEF Coalesced
  <1>7. ASSUME Coalesced(events)
        PROVE  \E i, j \in 0 .. n + 1 : i < j /\ ~Levels(events)[i] /\ Levels(events)[j]
    <2>1. CASE h.press
      <3>1. PICK a, b \in 0 .. n : a < b /\ ~Levels(events)[a] /\ Levels(events)[b]
        BY <1>4, <2>1 DEF Rising
      <3>2. a \in 0 .. n + 1 /\ b \in 0 .. n + 1  OBVIOUS
      <3> QED BY <3>1, <3>2
    <2>2. CASE Level(k) /\ ~h.logical
      <3>1. ~Levels(events)[m] /\ Levels(events)[n + 1]  BY <2>2, <1>3, <1>5
      <3>2. m \in 0 .. n + 1 /\ n + 1 \in 0 .. n + 1 /\ m < n + 1  BY <1>1, <1>3
      <3> QED BY <3>1, <3>2
    <2> QED BY <1>6, <1>7, <2>1, <2>2, Zenon
  <1>8. ASSUME ~KnownDown, k \/ button
        PROVE  Coalesced(events)
    <2>1. ~HandedOver(events)  BY <1>8, Zenon DEF HandedOver, KnownDown
    <2>2. h.press \/ (Level(k) /\ ~h.logical)  BY <1>4, <1>8, Zenon DEF Level
    <2> QED BY <1>6, <2>1, <2>2, Zenon
  <1> QED BY <1>7, <1>8

\* The commands and the button are of their types, and every press is counted.
WheelInv ==
    /\ commands \in [keyboard : BOOLEAN, wheel : BOOLEAN] /\ button \in BOOLEAN
    /\ PressesAreCounted

\* A frame of any number of events keeps the presses counted.
LEMMA FrameKeeps == WheelInv /\ Frame => WheelInv'
  <1> SUFFICES ASSUME WheelInv, Frame PROVE WheelInv'  OBVIOUS
  <1>1. PICK events \in EventSeqs :
          /\ frame' = [command |-> Coalesced(events), levels |-> Levels(events)]
          /\ commands' = [keyboard |-> KeyboardAfter(events), wheel |-> button]
    BY DEF Frame
  <1>2. events \in Seq(Events)  BY DEF EventSeqs
  <1>3. commands.keyboard \in BOOLEAN /\ commands.wheel \in BOOLEAN /\ button \in BOOLEAN
    BY DEF WheelInv
  <1>4. KeyboardAfter(events) \in BOOLEAN  BY <1>2, <1>3, KnownKeysFollow DEF KeyboardAfter
  <1>5. commands' \in [keyboard : BOOLEAN, wheel : BOOLEAN] /\ button' \in BOOLEAN
    BY <1>1, <1>3, <1>4 DEF Frame
  <1>6. /\ frame'.command = Coalesced(events) /\ frame'.levels = Levels(events)
        /\ DOMAIN frame'.levels = 0 .. Len(events) + 1
        /\ frame'.levels[0] = KnownDown
    BY <1>1, <1>2, LevelsFacts
  <1>7. ASSUME ~KnownDown, commands' # Cleared
        PROVE  Coalesced(events)
    <2>1. KeyboardAfter(events) \/ button  BY <1>1, <1>3, <1>4, <1>7, Zenon DEF Cleared
    <2> QED BY <1>2, <1>3, <1>7, <2>1, FrameCounts
  <1>8. ASSUME Coalesced(events)
        PROVE  \E i, j \in DOMAIN frame'.levels : i < j /\ ~frame'.levels[i] /\ frame'.levels[j]
    <2>1. \E i, j \in 0 .. Len(events) + 1 :
             i < j /\ ~Levels(events)[i] /\ Levels(events)[j]
      BY <1>2, <1>3, <1>8, FrameCounts
    <2> QED BY <2>1, <1>6
  <1>9. PressesAreCounted'  BY <1>6, <1>7, <1>8, Zenon DEF PressesAreCounted
  <1> QED BY <1>5, <1>9 DEF WheelInv

\* Each step of the wheel keeps them.
LEMMA WheelKeeps == WheelInv /\ [WheelNext]_wheelVars => WheelInv'
  <1> SUFFICES ASSUME WheelInv, [WheelNext]_wheelVars PROVE WheelInv'  OBVIOUS
  <1>0. Cleared \in [keyboard : BOOLEAN, wheel : BOOLEAN]  BY DEF Cleared
  <1>1. ASSUME button' \in BOOLEAN, UNCHANGED <<commands, frame>>
        PROVE  WheelInv'
    BY <1>1 DEF WheelInv, PressesAreCounted
  <1>2. ASSUME button' = button, frame' = NoFrame, commands' \in {commands, Cleared}
        PROVE  WheelInv'
    BY <1>0, <1>2 DEF WheelInv, PressesAreCounted
  <1>3. button \in BOOLEAN  BY DEF WheelInv
  <1>4. CASE OpenDevice  BY <1>1, <1>2, <1>3, <1>4 DEF OpenDevice, OpenSucceeds, OpenFails, Fresh
  <1>5. CASE PrepareWheel  BY <1>2, <1>5 DEF PrepareWheel, Fresh
  <1>6. CASE CloseDevice \/ PollFails \/ UnseenKey \/ Refocus
    BY <1>1, <1>3, <1>6 DEF CloseDevice, PollFails, UnseenKey, Refocus
  <1>7. CASE RecoverInput  BY <1>1, <1>2, <1>3, <1>7 DEF RecoverInput, Fresh
  <1>8. CASE Notice  BY <1>2, <1>8 DEF Notice
  <1>9. CASE Hand  BY <1>1, <1>3, <1>9 DEF Hand
  <1>10. CASE Frame  BY <1>10, FrameKeeps
  <1>11. CASE UNCHANGED wheelVars  BY <1>1, <1>3, <1>11 DEF wheelVars
  <1> QED  BY <1>4, <1>5, <1>6, <1>7, <1>8, <1>9, <1>10, <1>11 DEF WheelNext

\* PressesAreCounted: a logical key that rose over a frame gave its command, and a command
\* came of a rise, for frames of any length.
THEOREM EveryPressIsCounted == WheelSpec => []PressesAreCounted
  <1>1. WheelInit => WheelInv  BY DEF WheelInit, WheelInv, PressesAreCounted, Cleared
  <1>2. WheelInv => PressesAreCounted  BY DEF WheelInv
  <1> QED  BY <1>1, <1>2, WheelKeeps, PTL DEF WheelSpec

(* The raw samples of module 2. *)

Taken == [poll : 1 .. MaxPolls, geo : BOOLEAN]
LogRows == [id : Nat, samples : Seq(Taken)]
Gots == [names : SUBSET Nat, samples : Seq(Taken)]
Unread == [names |-> {}, samples |-> <<>>]

\* A row more leaves a reader with names and samples.
LEMMA FirstTyped ==
    ASSUME NEW got \in Gots, NEW row \in LogRows
    PROVE  FirstOfName(got, row) \in Gots
  <1>1. got.names \in SUBSET Nat /\ got.samples \in Seq(Taken)
        /\ row.id \in Nat /\ row.samples \in Seq(Taken)
    BY DEF Gots, LogRows
  <1>2. got.samples \o row.samples \in Seq(Taken)  BY <1>1, ConcatProperties
  <1>3. got.names \cup {row.id} \in SUBSET Nat  BY <1>1
  <1> QED BY <1>2, <1>3 DEF FirstOfName, Gots

\* What the reader has after each row of a file.
LEMMA GotFollows ==
    ASSUME NEW log \in Seq(LogRows)
    PROVE  /\ \A i \in 0 .. Len(log) : Got(log)[i] \in Gots
           /\ Got(log)[0] = Unread
           /\ \A i \in 1 .. Len(log) : Got(log)[i] = FirstOfName(Got(log)[i - 1], log[i])
  <1> DEFINE go == [x \in Gots \X LogRows |-> FirstOfName(x[1], x[2])]
  <1>1. /\ go \in [Gots \X LogRows -> Gots]
        /\ \A d \in Gots, e \in LogRows : go[<<d, e>>] = FirstOfName(d, e)
    BY FirstTyped
  <1>2. Unread \in Gots  BY DEF Gots, Unread
  <1> HIDE DEF go
  <1>3. PICK f \in [0 .. Len(log) -> Gots] : Unfolds(f, Len(log), go, Unread, log)
    BY <1>1, <1>2, FoldExists
  <1>4. \A i \in 1 .. Len(log) : i - 1 \in 0 .. Len(log) /\ log[i] \in LogRows  OBVIOUS
  <1>5. \A i \in 0 .. Len(log) : i # 0 => go[<<f[i - 1], log[i]>>] = FirstOfName(f[i - 1], log[i])
    BY <1>1, <1>3, <1>4
  <1>6. f = [i \in 0 .. Len(log) |-> IF i = 0 THEN Unread ELSE FirstOfName(f[i - 1], log[i])]
    BY <1>3, <1>5 DEF Unfolds
  <1>7. Got(log) = [i \in 0 .. Len(log) |->
                      IF i = 0 THEN Unread ELSE FirstOfName(Got(log)[i - 1], log[i])]
    BY <1>6 DEF Got, Unread
  <1> DEFINE k == Got(log)
  <1>8. k[0] = Unread /\ \A i \in 1 .. Len(log) : k[i] = FirstOfName(k[i - 1], log[i])  BY <1>7
  <1>9. \A i \in 1 .. Len(log) : k[i - 1] \in Gots => k[i] \in Gots  BY <1>8, <1>4, FirstTyped
  <1> HIDE DEF k
  <1>10. Len(log) \in Nat  OBVIOUS
  <1>11. \A i \in 0 .. Len(log) : k[i] \in Gots  BY <1>8, <1>2, <1>9, <1>10, StaysIn
  <1> QED BY <1>8, <1>11 DEF k

\* Reading is typed, begins with nothing, and goes row by row.
LEMMA ReadFollows ==
    ASSUME NEW log \in Seq(LogRows), NEW row \in LogRows
    PROVE  /\ Read(log) \in Gots
           /\ Read(Append(log, row)) = FirstOfName(Read(log), row)
  <1> DEFINE n == Len(log)
             m == Append(log, row)
  <1>1. /\ n \in Nat /\ m \in Seq(LogRows) /\ Len(m) = n + 1 /\ m[n + 1] = row
        /\ \A i \in 1 .. n : m[i] = log[i]
    BY AppendProperties
  <1>2. Read(log) \in Gots  BY <1>1, GotFollows DEF Read
  <1> DEFINE K == {i \in Nat : i <= n => Got(m)[i] = Got(log)[i]}
  <1>3. 0 \in K  BY <1>1, GotFollows
  <1>4. ASSUME NEW i \in Nat, i \in K
        PROVE  i + 1 \in K
    <2> SUFFICES ASSUME i + 1 <= n PROVE Got(m)[i + 1] = Got(log)[i + 1]  OBVIOUS
    <2>1. i + 1 \in 1 .. n /\ i + 1 \in 1 .. Len(m) /\ (i + 1) - 1 = i /\ i <= n  BY <1>1
    <2>2. Got(m)[i] = Got(log)[i]  BY <1>4, <2>1
    <2>3. Got(m)[i + 1] = FirstOfName(Got(m)[i], m[i + 1])  BY <1>1, <2>1, GotFollows
    <2>4. Got(log)[i + 1] = FirstOfName(Got(log)[i], log[i + 1])  BY <1>1, <2>1, GotFollows
    <2>5. m[i + 1] = log[i + 1]  BY <1>1, <2>1
    <2> QED BY <2>2, <2>3, <2>4, <2>5
  <1> HIDE DEF K
  <1>5. Nat \subseteq K  BY <1>3, <1>4, NumbersFollow
  <1>6. Got(m)[n] = Got(log)[n]  BY <1>1, <1>5 DEF K
  <1>7. n + 1 \in 1 .. Len(m) /\ (n + 1) - 1 = n  BY <1>1
  <1>8. Got(m)[n + 1] = FirstOfName(Got(m)[n], m[n + 1])  BY <1>1, <1>7, GotFollows
  <1> QED BY <1>1, <1>2, <1>6, <1>8 DEF Read

(* Sequences. *)

\* What was taken is cut anywhere and put together again.
LEMMA CutFacts ==
    ASSUME NEW S, NEW s \in Seq(S), NEW t \in Seq(S), NEW b \in 0 .. Len(t)
    PROVE  /\ SubSeq(t, 1, b) \in Seq(S) /\ Len(SubSeq(t, 1, b)) = b
           /\ SubSeq(t, b + 1, Len(t)) \in Seq(S)
           /\ Len(SubSeq(t, b + 1, Len(t))) = Len(t) - b
           /\ s \o SubSeq(t, 1, b) \in Seq(S)
           /\ Len(s \o SubSeq(t, 1, b)) = Len(s) + b
           /\ SubSeq(t, 1, b) \o SubSeq(t, b + 1, Len(t)) = t
  <1> DEFINE u == SubSeq(t, 1, b)
             v == SubSeq(t, b + 1, Len(t))
  <1>1. Len(t) \in Nat /\ b \in Nat /\ b <= Len(t)  BY LenProperties
  <1>2. (\A i \in 1 .. b : t[i] \in S) /\ (\A i \in b + 1 .. Len(t) : t[i] \in S)
    BY <1>1, ElementOfSeq
  <1>3. u \in Seq(S) /\ Len(u) = b  BY <1>1, <1>2, SubSeqProperties
  <1>4. v \in Seq(S) /\ Len(v) = Len(t) - b  BY <1>1, <1>2, SubSeqProperties
  <1>5. u \o v = SubSeq(t, 1, Len(t))
    <2>1. 1 \in 1 .. Len(t) + 1 /\ b \in 1 - 1 .. Len(t) /\ Len(t) \in b .. Len(t)  BY <1>1
    <2> QED BY <2>1, ConcatAdjacentSubSeq
  <1>6. u \o v = t  BY <1>5, SubSeqFull
  <1> HIDE DEF u, v
  <1>7. s \o u \in Seq(S) /\ Len(s \o u) = Len(s) + b  BY <1>3, ConcatProperties
  <1> QED BY <1>3, <1>4, <1>6, <1>7 DEF u, v

\* A prefix of a longer whole begins it.
LEMMA PrefixOfConcat ==
    ASSUME NEW S, NEW s \in Seq(S), NEW t \in Seq(S)
    PROVE  IsPrefix(s, s \o t) /\ SubSeq(s \o t, 1, Len(s)) = s
  <1>1. Len(s) \in Nat /\ Len(t) \in Nat /\ Len(s \o t) = Len(s) + Len(t) /\ s \o t \in Seq(S)
    BY ConcatProperties, LenProperties
  <1>2. SubSeq(s, 1, Len(s)) = s  BY SubSeqFull
  <1>3. CASE Len(s) = 0
    <2>1. s = <<>>  BY <1>3, EmptySeq
    <2>2. SubSeq(s \o t, 1, Len(s)) = <<>>  BY <1>3, SubSeqEmpty
    <2> QED BY <1>1, <1>2, <2>1, <2>2 DEF IsPrefix
  <1>4. CASE Len(s) # 0
    <2>1. SubSeq(s \o t, 1, Len(s)) = SubSeq(s, 1, Len(s))  BY <1>1, <1>4, SubSeqOfConcat1
    <2> QED BY <1>1, <1>2, <2>1 DEF IsPrefix
  <1> QED BY <1>3, <1>4

\* A longer tail does not move what is before it.
LEMMA AppendFacts ==
    ASSUME NEW S, NEW s \in Seq(S), NEW t \in Seq(S), NEW e \in S, NEW b \in 0 .. Len(t)
    PROVE  /\ Append(t, e) \in Seq(S) /\ Len(Append(t, e)) = Len(t) + 1
           /\ s \o Append(t, e) = Append(s \o t, e)
           /\ SubSeq(Append(t, e), 1, b) = SubSeq(t, 1, b)
  <1>1. Len(t) \in Nat /\ Append(t, e) \in Seq(S) /\ Len(Append(t, e)) = Len(t) + 1
    BY AppendProperties, LenProperties
  <1>2. Append(t, e) = t \o <<e>> /\ <<e>> \in Seq(S) /\ Len(<<e>>) = 1  BY AppendIsConcat
  <1>3. s \o t \in Seq(S)  BY ConcatProperties
  <1>4. s \o Append(t, e) = (s \o t) \o <<e>>  BY <1>2, ConcatAssociative
  <1>5. Append(s \o t, e) = (s \o t) \o <<e>>  BY <1>3, AppendIsConcat
  <1>6. SubSeq(Append(t, e), 1, b) = SubSeq(t, 1, b)
    <2>1. CASE b = 0  BY <2>1, SubSeqEmpty
    <2>2. CASE b # 0  BY <1>1, <1>2, <2>2, SubSeqOfConcat1
    <2> QED BY <2>1, <2>2
  <1> QED BY <1>1, <1>4, <1>5, <1>6

(* The invariant. *)

RawTypes ==
    /\ nonfatal \in BOOLEAN /\ polls \in 0 .. MaxPolls
    /\ raw \in Seq(Taken) /\ Len(raw) <= FlushAt
    /\ batch \in 0 .. Len(raw) /\ batch <= RowLimit
    /\ confirmed \in Nat /\ errors \in Nat /\ losses \in Nat
    /\ faults \in 0 .. MaxWriteFaults /\ errors + losses <= faults
    /\ rows \in Seq(LogRows) /\ acked \in Seq(Taken) /\ failed \in BOOLEAN
    /\ pc \in {"idle", "capture", "final", "closed", "dead"}
    /\ status \in {"none", "ACKNOWLEDGED", "ACKNOWLEDGED_AFTER_RETRY",
                   "WRITE_UNCONFIRMED", "UNCONFIRMED_LOG_STORAGE_FAILURE"}

\* A batch survives a flush only in a scene that failed; the status is the last word.
FlushInv ==
    /\ pc = "capture" => polls > 0
    /\ pc = "idle" /\ batch # 0 => failed
    /\ losses > 0 => nonfatal
    /\ status # "none" => pc = "closed"
    /\ status \in {"ACKNOWLEDGED", "ACKNOWLEDGED_AFTER_RETRY"} => raw = <<>> /\ losses = 0
    /\ status = "ACKNOWLEDGED" => errors = 0

\* The polls whose samples are taken: during a flush that is due not the latest.
Due == IF pc = "capture" THEN polls - 1 ELSE polls

\* OrderedUpTo(s, n): samples of ever later polls, up to the n-th; Complete(s, n): of each.
OrderedUpTo(s, n) ==
    /\ \A i \in 1 .. Len(s) : s[i].poll <= n
    /\ \A i, j \in 1 .. Len(s) : i < j => s[i].poll < s[j].poll

CompleteUpTo(s, n) == Len(s) = n /\ \A i \in 1 .. n : s[i].poll = i

TakenInv ==
    /\ OrderedUpTo(acked \o raw, Due)
    /\ ~failed /\ pc # "dead" => CompleteUpTo(acked \o raw, Due)

\* What the reader gets is what was acknowledged, or one batch more: the one that is retried.
Held == Read(rows).names = 0 .. confirmed - 1 /\ Reader = acked
Ahead ==
    /\ batch # 0 /\ failed
    /\ Read(rows).names = 0 .. confirmed /\ Reader = acked \o SubSeq(raw, 1, batch)

StoredInv ==
    /\ \A i \in 1 .. Len(rows) : rows[i].id <= confirmed
    /\ errors = 0 /\ losses = 0 =>
         /\ \A i \in 1 .. Len(rows) : rows[i].id < confirmed
         /\ \A i, j \in 1 .. Len(rows) : rows[i].id = rows[j].id => i = j
    /\ losses = 0 => Held \/ Ahead

RawInv == RawTypes /\ FlushInv /\ TakenInv /\ StoredInv

\* The log begins with it.
LEMMA RawInit == Init => RawInv
  <1> SUFFICES ASSUME Init PROVE RawInv  OBVIOUS
  <1> USE DEF Init
  <1>0. <<>> \in Seq(Taken) /\ <<>> \in Seq(LogRows) /\ Len(<<>>) = 0  OBVIOUS
  <1>1. RawTypes
    <2>1. /\ MaxPolls \in Nat /\ MaxWriteFaults \in Nat
          /\ FlushAt \in Nat /\ RowLimit \in Nat
      BY BoundsAssumption
    <2>2. 0 \in 0 .. MaxPolls /\ 0 \in 0 .. MaxWriteFaults /\ 0 \in 0 .. Len(raw)
          /\ 0 <= RowLimit /\ Len(raw) <= FlushAt
      BY <2>1, <1>0
    <2>3. nonfatal \in BOOLEAN /\ failed \in BOOLEAN  OBVIOUS
    <2>4. raw \in Seq(Taken) /\ rows \in Seq(LogRows) /\ acked \in Seq(Taken)  BY <1>0
    <2>5. /\ polls \in 0 .. MaxPolls /\ batch \in 0 .. Len(raw) /\ faults \in 0 .. MaxWriteFaults
          /\ confirmed \in Nat /\ errors \in Nat /\ losses \in Nat /\ errors + losses <= faults
          /\ Len(raw) <= FlushAt /\ batch <= RowLimit
      BY <2>2
    <2> QED BY <2>3, <2>4, <2>5 DEF RawTypes
  <1>2. FlushInv  BY DEF FlushInv
  <1>3. acked \o raw = <<>>  BY <1>0, ConcatEmptySeq
  <1>4. TakenInv  BY <1>3, <1>0 DEF TakenInv, Due, OrderedUpTo, CompleteUpTo
  <1>5. Read(rows) = Unread  BY <1>0, GotFollows DEF Read
  <1>6. Held  BY <1>5 DEF Held, Reader, Unread
  <1>7. StoredInv  BY <1>6, <1>0 DEF StoredInv
  <1> QED BY <1>1, <1>2, <1>4, <1>7 DEF RawInv

Statuses == {"ACKNOWLEDGED", "ACKNOWLEDGED_AFTER_RETRY", "WRITE_UNCONFIRMED",
          "UNCONFIRMED_LOG_STORAGE_FAILURE"}

\* A sample of a poll that has been made is one.
LEMMA SampleTyped ==
    ASSUME NEW p \in 1 .. MaxPolls
    PROVE  Sample(p) \in Taken /\ Sample(p).poll = p
  BY DEF Sample, Taken

\* What a row says, and that the file takes it.
LEMMA RowFacts ==
    ASSUME RawTypes
    PROVE  /\ Row \in LogRows /\ Row.id = confirmed /\ Row.samples = SubSeq(raw, 1, batch)
           /\ Append(rows, Row) \in Seq(LogRows)
           /\ Len(Append(rows, Row)) = Len(rows) + 1
           /\ Append(rows, Row)[Len(rows) + 1] = Row
           /\ \A i \in 1 .. Len(rows) : Append(rows, Row)[i] = rows[i]
           /\ Len(rows) \in Nat
  <1>1. raw \in Seq(Taken) /\ acked \in Seq(Taken) /\ batch \in 0 .. Len(raw)
        /\ confirmed \in Nat /\ rows \in Seq(LogRows)
    BY DEF RawTypes
  <1>2. SubSeq(raw, 1, batch) \in Seq(Taken)  BY <1>1, CutFacts
  <1>3. Row \in LogRows /\ Row.id = confirmed /\ Row.samples = SubSeq(raw, 1, batch)
    BY <1>1, <1>2 DEF Row, LogRows
  <1> QED BY <1>1, <1>3, AppendProperties, LenProperties

\* A batch is acknowledged: it goes from what is held to what is stored.
LEMMA AcknowledgeFacts ==
    ASSUME RawTypes, Acknowledge
    PROVE  /\ acked' \in Seq(Taken) /\ raw' \in Seq(Taken)
           /\ Len(raw') <= FlushAt /\ batch' \in 0 .. Len(raw') /\ batch' <= RowLimit
           /\ confirmed' \in Nat /\ acked' \o raw' = acked \o raw
  <1>1. raw \in Seq(Taken) /\ acked \in Seq(Taken) /\ batch \in 0 .. Len(raw)
        /\ confirmed \in Nat /\ Len(raw) <= FlushAt /\ FlushAt \in Nat /\ RowLimit \in Nat
        /\ Len(raw) \in Nat
    BY BoundsAssumption, LenProperties DEF RawTypes
  <1>2. /\ SubSeq(raw, batch + 1, Len(raw)) \in Seq(Taken)
        /\ Len(SubSeq(raw, batch + 1, Len(raw))) = Len(raw) - batch
        /\ acked \o SubSeq(raw, 1, batch) \in Seq(Taken)
        /\ (acked \o SubSeq(raw, 1, batch)) \o SubSeq(raw, batch + 1, Len(raw)) = acked \o raw
    <2>1. raw \in Seq(Taken)  BY <1>1
    <2>2. acked \in Seq(Taken)  BY <1>1
    <2>3. batch \in 0 .. Len(raw)  BY <1>1
    <2>4. SubSeq(raw, batch + 1, Len(raw)) \in Seq(Taken)  BY <2>1, <2>2, <2>3, CutFacts
    <2>5. Len(SubSeq(raw, batch + 1, Len(raw))) = Len(raw) - batch  BY <2>1, <2>2, <2>3, CutFacts
    <2>6. acked \o SubSeq(raw, 1, batch) \in Seq(Taken)  BY <2>1, <2>2, <2>3, CutFacts
    <2>7. (acked \o SubSeq(raw, 1, batch)) \o SubSeq(raw, batch + 1, Len(raw)) = acked \o raw
      <3>1. PICK u : u = SubSeq(raw, 1, batch)  OBVIOUS
      <3>2. PICK v : v = SubSeq(raw, batch + 1, Len(raw))  OBVIOUS
      <3>3. u \in Seq(Taken) /\ v \in Seq(Taken)  BY <2>1, <2>2, <2>3, <3>1, <3>2, CutFacts
      <3>4. u \o v = raw  BY <2>1, <2>2, <2>3, <3>1, <3>2, CutFacts
      <3>5. (acked \o u) \o v = acked \o (u \o v)  BY <2>2, <3>3, ConcatAssociative
      <3> QED BY <3>1, <3>2, <3>4, <3>5, Zenon
    <2> QED BY <2>4, <2>5, <2>6, <2>7, Zenon
  <1>3. /\ acked' = acked \o SubSeq(raw, 1, batch) /\ raw' = SubSeq(raw, batch + 1, Len(raw))
        /\ confirmed' = confirmed + 1 /\ batch' = 0
    BY DEF Acknowledge
  <1>4. Len(raw') = Len(raw) - batch  BY <1>2, <1>3
  <1>5. Len(raw') <= FlushAt /\ batch' \in 0 .. Len(raw') /\ batch' <= RowLimit  BY <1>1, <1>3, <1>4
  <1>6. acked' \o raw' = acked \o raw  BY <1>2, <1>3
  <1>7. confirmed' \in Nat  BY <1>1, <1>3
  <1>8. acked' \in Seq(Taken) /\ raw' \in Seq(Taken)  BY <1>2, <1>3, Zenon
  <1> QED BY <1>5, <1>6, <1>7, <1>8, Zenon

\* How a flush ends that has something left: the status says so.
LEMMA RaiseFacts ==
    ASSUME RawTypes, Flushing, FlushRaises, raw # <<>>
    PROVE  /\ failed' = TRUE /\ pc' \in {"idle", "closed"}
           /\ UNCHANGED <<polls, raw, batch, confirmed, losses, acked>>
           /\ \/ pc' = "idle" /\ status' = status
              \/ pc' = "closed" /\ status' \in {"WRITE_UNCONFIRMED", "UNCONFIRMED_LOG_STORAGE_FAILURE"}
  BY DEF FlushRaises, Storage, Flushing

\* Every step keeps the kinds of values.
LEMMA TypesKeep ==
    ASSUME RawInv, Next
    PROVE  RawTypes'
  <1> USE DEF RawInv
  <1>0. nonfatal' = nonfatal  BY DEF Next
  <1>b. /\ MaxPolls \in Nat /\ MaxWriteFaults \in Nat /\ FlushAt \in Nat \ {0}
        /\ RowLimit \in Nat \ {0}
    BY BoundsAssumption
  <1>c. CASE PollInput
    <2>1. polls' = polls + 1 /\ polls' \in 1 .. MaxPolls  BY <1>b, <1>c DEF PollInput, RawTypes
    <2>2. Sample(polls') \in Taken  BY <2>1, SampleTyped
    <2>3. /\ Append(raw, Sample(polls')) \in Seq(Taken)
          /\ Len(Append(raw, Sample(polls'))) = Len(raw) + 1 /\ Len(raw) \in Nat
      BY <2>2, AppendProperties, LenProperties DEF RawTypes
    <2>4. raw' \in Seq(Taken) /\ Len(raw') <= FlushAt /\ Len(raw) <= Len(raw')
      <3>1. raw \in Seq(Taken) /\ Len(raw) <= FlushAt /\ Len(raw) \in Nat  BY <2>3 DEF RawTypes
      <3>2. CASE raw' = raw  BY <3>1, <3>2
      <3>3. CASE Len(raw) < FlushAt /\ raw' = Append(raw, Sample(polls'))  BY <1>b, <3>1, <3>3, <2>3
      <3> QED BY <1>c, <3>2, <3>3 DEF PollInput
    <2> QED BY <1>0, <1>b, <1>c, <2>1, <2>3, <2>4 DEF PollInput, RawTypes
  <1>d. CASE Geometry
    <2>1. Len(raw) \in 1 .. Len(raw) /\ raw[Len(raw)] \in Taken
      BY <1>d, EmptySeq, ElementOfSeq DEF Geometry, RawTypes
    <2>2. [raw[Len(raw)] EXCEPT !.geo = TRUE] \in Taken  BY <2>1 DEF Taken
    <2>3. raw' = [raw EXCEPT ![Len(raw)] = [raw[Len(raw)] EXCEPT !.geo = TRUE]]
      BY <1>d DEF Geometry
    <2>4. raw' \in Seq(Taken) /\ Len(raw') = Len(raw)  BY <2>1, <2>2, <2>3, ExceptSeq DEF RawTypes
    <2> QED BY <1>0, <1>d, <2>4 DEF Geometry, RawTypes
  <1>e. CASE SceneFails  BY <1>0, <1>b, <1>e DEF SceneFails, RawTypes
  <1>f. CASE Finalize  BY <1>0, <1>f DEF Finalize, RawTypes
  <1>g. CASE NextBatch  BY <1>0, <1>g DEF NextBatch, RawTypes
  <1>h. CASE WriteOk
    <2>1. rows' \in Seq(LogRows)  BY <1>h, RowFacts DEF WriteOk
    <2>2. UNCHANGED <<polls, losses, faults, errors, pc, failed, status>>
      BY <1>h DEF WriteOk, Acknowledge
    <2>3. Acknowledge  BY <1>h DEF WriteOk
    <2> QED BY <1>0, <2>1, <2>2, <2>3, AcknowledgeFacts DEF RawTypes
  <1>i. CASE WriteUnnoticed
    <2>1. rows' \in Seq(LogRows)  BY <1>i, RowFacts DEF WriteUnnoticed, RawTypes
    <2>2. UNCHANGED <<polls, errors, pc, failed, status>>  BY <1>i DEF WriteUnnoticed, Acknowledge
    <2>3. Acknowledge  BY <1>i DEF WriteUnnoticed
    <2>4. /\ losses' \in Nat /\ faults' \in 0 .. MaxWriteFaults /\ errors' \in Nat
          /\ errors' + losses' <= faults'
      BY <1>b, <1>i, <2>2 DEF WriteUnnoticed, RawTypes
    <2> QED BY <1>0, <2>1, <2>2, <2>3, <2>4, AcknowledgeFacts DEF RawTypes
  <1>j. CASE WriteFails
    <2>1. rows' \in Seq(LogRows)  BY <1>j, RowFacts DEF WriteFails, RawTypes
    <2>2. raw # <<>> /\ Flushing /\ FlushRaises  BY <1>j DEF WriteFails, RawTypes
    <2>3. /\ losses' \in Nat /\ faults' \in 0 .. MaxWriteFaults /\ errors' \in Nat
          /\ errors' + losses' <= faults'
      <3>1. faults < MaxWriteFaults /\ faults' = faults + 1 /\ errors' = errors + 1
        BY <1>j DEF WriteFails
      <3>2. losses' = losses  BY <2>2, RaiseFacts
      <3> QED BY <1>b, <3>1, <3>2 DEF RawTypes
    <2> QED BY <1>0, <2>1, <2>2, <2>3, RaiseFacts DEF RawTypes
  <1>k. CASE SampleTooLarge
    <2>1. raw # <<>> /\ Flushing /\ FlushRaises /\ UNCHANGED <<errors, rows, faults>>
      BY <1>k DEF SampleTooLarge
    <2> QED BY <1>0, <2>1, RaiseFacts DEF RawTypes
  <1>l. CASE Flushed
    <2>1. batch = 0 /\ Len(raw) = 0  BY <1>l DEF Flushed, RawTypes
    <2>2. CASE pc = "capture"
      <3>1. polls \in 1 .. MaxPolls  BY <2>2 DEF RawTypes, FlushInv
      <3>2. Sample(polls) \in Taken  BY <3>1, SampleTyped
      <3>3. raw' \in Seq(Taken) /\ Len(raw') = 1 /\ pc' = "idle" /\ status' = status
        <4>1. raw' = <<Sample(polls)>> /\ pc' = "idle" /\ status' = status
          BY <1>l, <2>2 DEF Flushed
        <4> QED BY <3>2, <4>1
      <3> QED BY <1>0, <1>b, <1>l, <2>1, <3>3 DEF Flushed, RawTypes
    <2>3. CASE pc # "capture"
      <3>1. raw' = raw /\ pc' = "closed" /\ status' \in Statuses
        BY <1>l, <2>3 DEF Flushed, Storage, Statuses
      <3> QED BY <1>0, <1>l, <3>1 DEF Flushed, RawTypes, Statuses
    <2> QED BY <2>2, <2>3
  <1>m. CASE Die  BY <1>0, <1>m DEF Die, RawTypes
  <1> QED  BY <1>c, <1>d, <1>e, <1>f, <1>g, <1>h, <1>i, <1>j, <1>k, <1>l, <1>m DEF Next

\* Every step keeps what is known of a flush and of the status.
LEMMA FlushKeeps ==
    ASSUME RawInv, Next
    PROVE  FlushInv'
  <1> USE DEF RawInv
  <1>0. nonfatal' = nonfatal /\ (nonfatal \in BOOLEAN)  BY DEF Next, RawTypes
  <1>c. CASE PollInput  BY <1>0, <1>c DEF PollInput, FlushInv, RawTypes
  <1>d. CASE Geometry  BY <1>0, <1>d DEF Geometry, FlushInv
  <1>e. CASE SceneFails  BY <1>0, <1>e DEF SceneFails, FlushInv
  <1>f. CASE Finalize  BY <1>0, <1>f DEF Finalize, FlushInv
  <1>g. CASE NextBatch  BY <1>0, <1>g DEF NextBatch, FlushInv, Flushing
  <1>h. CASE WriteOk  BY <1>0, <1>h DEF WriteOk, Acknowledge, Flushing, FlushInv
  <1>i. CASE WriteUnnoticed  BY <1>0, <1>i DEF WriteUnnoticed, Acknowledge, Flushing, FlushInv
  <1>j. CASE WriteFails
    <2>1. raw # <<>> /\ Flushing /\ FlushRaises  BY <1>j DEF WriteFails, RawTypes
    <2> QED BY <1>0, <2>1, RaiseFacts DEF FlushInv, Flushing
  <1>k. CASE SampleTooLarge
    <2>1. raw # <<>> /\ Flushing /\ FlushRaises  BY <1>k DEF SampleTooLarge
    <2> QED BY <1>0, <2>1, RaiseFacts DEF FlushInv, Flushing
  <1>l. CASE Flushed
    <2>1. batch = 0 /\ raw = <<>> /\ UNCHANGED <<batch, polls, losses, errors, failed>>
      BY <1>l DEF Flushed, RawTypes
    <2>2. CASE pc = "capture"  BY <1>0, <1>l, <2>1, <2>2 DEF Flushed, FlushInv
    <2>3. CASE pc # "capture"
      <3>1. raw' = raw /\ pc' = "closed" /\ status' = Storage  BY <1>l, <2>3 DEF Flushed
      <3>2. status' \in {"ACKNOWLEDGED", "ACKNOWLEDGED_AFTER_RETRY"} => ~(losses > 0)
        BY <3>1 DEF Storage
      <3>3. status' = "ACKNOWLEDGED" => ~(errors > 0)  BY <3>1, <2>1 DEF Storage
      <3>4. losses \in Nat /\ errors \in Nat  BY DEF RawTypes
      <3> QED BY <1>0, <2>1, <3>1, <3>2, <3>3, <3>4 DEF FlushInv
    <2> QED BY <2>2, <2>3
  <1>m. CASE Die  BY <1>0, <1>m DEF Die, FlushInv
  <1> QED  BY <1>c, <1>d, <1>e, <1>f, <1>g, <1>h, <1>i, <1>j, <1>k, <1>l, <1>m DEF Next

\* One sample more, of a later poll.
LEMMA AppendOrdered ==
    ASSUME NEW s \in Seq(Taken), NEW p \in 1 .. MaxPolls, OrderedUpTo(s, p - 1)
    PROVE  /\ OrderedUpTo(Append(s, Sample(p)), p)
           /\ CompleteUpTo(s, p - 1) => CompleteUpTo(Append(s, Sample(p)), p)
  <1> DEFINE t == Append(s, Sample(p))
  <1>1. /\ Len(t) = Len(s) + 1 /\ t[Len(s) + 1] = Sample(p) /\ Len(s) \in Nat
        /\ \A i \in 1 .. Len(s) : t[i] = s[i]
    BY SampleTyped, AppendProperties, LenProperties
  <1>2. Sample(p).poll = p /\ p \in Nat  BY SampleTyped, BoundsAssumption
  <1>3. \A i \in 1 .. Len(s) : s[i].poll \in Nat
    <2>1. \A i \in 1 .. Len(s) : s[i] \in Taken  BY ElementOfSeq
    <2>2. \A x \in Taken : x.poll \in Nat  BY BoundsAssumption DEF Taken
    <2> QED BY <2>1, <2>2
  <1> HIDE DEF t
  <1>4. \A i \in 1 .. Len(t) : i \in 1 .. Len(s) \/ i = Len(s) + 1  BY <1>1
  <1>5. \A i \in 1 .. Len(s) : s[i].poll <= p - 1  BY DEF OrderedUpTo
  <1>6. \A i \in 1 .. Len(t) : t[i].poll <= p  BY <1>1, <1>2, <1>3, <1>4, <1>5
  <1>7. ASSUME NEW i \in 1 .. Len(t), NEW j \in 1 .. Len(t), i < j
        PROVE  t[i].poll < t[j].poll
    <2>1. i \in 1 .. Len(s)  BY <1>1, <1>7
    <2>2. CASE j \in 1 .. Len(s)  BY <1>1, <1>7, <2>1, <2>2 DEF OrderedUpTo
    <2>3. CASE j = Len(s) + 1  BY <1>1, <1>2, <1>3, <1>5, <2>1, <2>3
    <2> QED BY <1>4, <2>2, <2>3
  <1>8. ASSUME CompleteUpTo(s, p - 1)
        PROVE  CompleteUpTo(t, p)
    <2>1. Len(s) = p - 1 /\ \A i \in 1 .. p - 1 : s[i].poll = i  BY <1>8 DEF CompleteUpTo
    <2>2. \A i \in 1 .. p : t[i].poll = i  BY <1>1, <1>2, <2>1
    <2> QED BY <1>1, <1>2, <2>1, <2>2 DEF CompleteUpTo
  <1> QED BY <1>6, <1>7, <1>8 DEF t, OrderedUpTo

\* What holds up to a poll holds up to a later one.
LEMMA OrderedLater ==
    ASSUME NEW s \in Seq(Taken), NEW m \in Nat, NEW n \in Nat, m <= n, OrderedUpTo(s, m)
    PROVE  OrderedUpTo(s, n)
  <1>1. \A i \in 1 .. Len(s) : s[i].poll \in Nat
    <2>1. \A i \in 1 .. Len(s) : s[i] \in Taken  BY ElementOfSeq
    <2>2. \A x \in Taken : x.poll \in Nat  BY BoundsAssumption DEF Taken
    <2> QED BY <2>1, <2>2
  <1> QED BY <1>1 DEF OrderedUpTo

\* The geometry of the newest sample is part of no order.
LEMMA GeometryFacts ==
    ASSUME RawTypes, Geometry
    PROVE  LET s == acked \o raw
               t == acked' \o raw'
           IN  /\ s \in Seq(Taken) /\ t \in Seq(Taken) /\ Len(t) = Len(s)
               /\ Len(s) \in Nat \ {0} /\ Len(s) > Len(acked)
               /\ t = [s EXCEPT ![Len(s)].geo = TRUE]
               /\ \A i \in 1 .. Len(s) : t[i].poll = s[i].poll
  <1> DEFINE n == Len(raw)
             e == [raw[n] EXCEPT !.geo = TRUE]
             s == acked \o raw
             m == Len(s)
             t == acked' \o raw'
  <1>1. n \in 1 .. Len(raw) /\ n \in Nat /\ raw[n] \in Taken /\ raw \in Seq(Taken) /\ acked \in Seq(Taken)
    BY EmptySeq, ElementOfSeq DEF Geometry, RawTypes
  <1>2. e \in Taken /\ e.poll = raw[n].poll  BY <1>1 DEF Taken
  <1>3. raw' = [raw EXCEPT ![n] = e] /\ acked' = acked  BY DEF Geometry
  <1> HIDE DEF e
  <1>4. /\ raw' \in Seq(Taken) /\ Len(raw') = Len(raw)
        /\ \A j \in 1 .. Len(raw) : raw'[j] = IF j = n THEN e ELSE raw[j]
    BY <1>1, <1>2, <1>3, ExceptSeq
  <1>5. /\ s \in Seq(Taken) /\ m = Len(acked) + n /\ Len(acked) \in Nat
        /\ \A i \in 1 .. m : s[i] = IF i <= Len(acked) THEN acked[i] ELSE raw[i - Len(acked)]
    BY <1>1, ConcatProperties, LenProperties
  <1>6. /\ t \in Seq(Taken) /\ Len(t) = m
        /\ \A i \in 1 .. m : t[i] = IF i <= Len(acked) THEN acked[i] ELSE raw'[i - Len(acked)]
    BY <1>1, <1>3, <1>4, <1>5, ConcatProperties
  <1> HIDE DEF s, t, n, m
  <1>7. m \in 1 .. m /\ m \in Nat \ {0} /\ m > Len(acked) /\ s[m] = raw[n]
    <2>1. n > 0 /\ n \in Nat /\ m = Len(acked) + n /\ Len(acked) \in Nat  BY <1>1, <1>5 DEF n
    <2>2. m \in 1 .. m /\ m > Len(acked) /\ ~(m <= Len(acked)) /\ m - Len(acked) = n  BY <2>1
    <2> QED BY <1>5, <2>1, <2>2
  <1>8. \A i \in 1 .. m : t[i] = IF i = m THEN e ELSE s[i]
    <2> TAKE i \in 1 .. m
    <2>1. m = Len(acked) + n /\ Len(acked) \in Nat /\ n = Len(raw) /\ n \in Nat  BY <1>1, <1>5 DEF n
    <2>2. CASE i <= Len(acked)
      <3>1. t[i] = acked[i] /\ s[i] = acked[i] /\ i # m  BY <1>5, <1>6, <1>7, <2>1, <2>2
      <3> QED BY <3>1
    <2>3. CASE ~(i <= Len(acked))
      <3>1. i - Len(acked) \in 1 .. Len(raw) /\ (i - Len(acked) = n <=> i = m)  BY <2>1, <2>3
      <3>2. t[i] = raw'[i - Len(acked)] /\ s[i] = raw[i - Len(acked)]  BY <1>5, <1>6, <2>3
      <3>3. raw'[i - Len(acked)] = IF i - Len(acked) = n THEN e ELSE raw[i - Len(acked)]
        BY <1>4, <3>1
      <3> QED BY <3>1, <3>2, <3>3
    <2> QED BY <2>2, <2>3
  <1>9. /\ [s EXCEPT ![m] = e] \in Seq(Taken) /\ Len([s EXCEPT ![m] = e]) = m
        /\ \A i \in 1 .. m : [s EXCEPT ![m] = e][i] = IF i = m THEN e ELSE s[i]
    BY <1>2, <1>5, <1>7, ExceptSeq DEF m
  <1>10. t = [s EXCEPT ![m] = e]
    <2>1. PICK r : r = [s EXCEPT ![m] = e]  OBVIOUS
    <2>2. r \in Seq(Taken) /\ Len(r) = Len(t) /\ \A i \in 1 .. Len(t) : t[i] = r[i]
      BY <1>6, <1>8, <1>9, <2>1
    <2> QED BY <1>6, <2>1, <2>2, SeqEqual
  <1>11. t = [s EXCEPT ![Len(s)].geo = TRUE]
    <2>1. e = [s[m] EXCEPT !.geo = TRUE]  BY <1>7 DEF e
    <2> QED BY <1>10, <2>1 DEF m
  <1>12. \A i \in 1 .. m : t[i].poll = s[i].poll  BY <1>2, <1>7, <1>8
  <1> QED BY <1>5, <1>6, <1>7, <1>11, <1>12 DEF s, t, m

\* Every step keeps the samples in the order of the polls, without a hole in a valid scene.
LEMMA TakenKeeps ==
    ASSUME RawInv, Next
    PROVE  TakenInv'
  <1> USE DEF RawInv
  <1>1. /\ raw \in Seq(Taken) /\ acked \in Seq(Taken) /\ acked \o raw \in Seq(Taken)
        /\ failed \in BOOLEAN /\ polls \in Nat /\ Due \in Int
    BY BoundsAssumption, ConcatProperties DEF RawTypes, Due
  <1>2. /\ OrderedUpTo(acked \o raw, Due)
        /\ ~failed /\ pc # "dead" => CompleteUpTo(acked \o raw, Due)
    BY DEF TakenInv
  <1>3. Due \in Nat  BY <1>1 DEF Due, FlushInv
  <1>4. ASSUME acked' \o raw' = acked \o raw, Due' \in Nat, Due <= Due',
               failed' \/ pc' = "dead" \/ (~failed /\ pc # "dead" /\ Due' = Due)
        PROVE  TakenInv'
    <2>1. OrderedUpTo(acked \o raw, Due')  BY <1>1, <1>2, <1>3, <1>4, OrderedLater
    <2>2. ~failed' /\ pc' # "dead" => CompleteUpTo(acked \o raw, Due')  BY <1>2, <1>4
    <2> QED BY <2>1, <2>2, <1>4 DEF TakenInv
  <1>5. ASSUME NEW p \in 1 .. MaxPolls, acked' \o raw' = Append(acked \o raw, Sample(p)),
               Due = p - 1, Due' = p, failed' = failed, pc # "dead"
        PROVE  TakenInv'
    <2>1. OrderedUpTo(acked \o raw, p - 1)  BY <1>2, <1>5
    <2>2. ~failed' => CompleteUpTo(acked \o raw, p - 1)  BY <1>2, <1>5
    <2>3. /\ OrderedUpTo(Append(acked \o raw, Sample(p)), p)
          /\ CompleteUpTo(acked \o raw, p - 1) => CompleteUpTo(Append(acked \o raw, Sample(p)), p)
      BY <1>1, <2>1, AppendOrdered
    <2> QED BY <1>5, <2>2, <2>3 DEF TakenInv
  <1>c. CASE PollInput
    <2>1. polls' = polls + 1 /\ polls' \in 1 .. MaxPolls /\ acked' = acked /\ failed' = failed
      BY <1>1, <1>c, BoundsAssumption DEF PollInput, RawTypes
    <2>2. Due = polls /\ pc = "idle"  BY <1>c DEF PollInput, Due
    <2>3. CASE raw' = Append(raw, Sample(polls')) /\ pc' = pc
      <3>1. Sample(polls') \in Taken  BY <2>1, SampleTyped
      <3>2. acked' \o raw' = Append(acked \o raw, Sample(polls'))
        <4>1. 0 \in 0 .. Len(raw)  BY <1>1
        <4> QED BY <1>1, <2>1, <2>3, <3>1, <4>1, AppendFacts
      <3>3. Due' = polls' /\ Due = polls' - 1  BY <1>1, <2>1, <2>2, <2>3 DEF Due
      <3> QED BY <1>5, <2>1, <2>2, <3>2, <3>3
    <2>4. CASE raw' = raw /\ pc' = "capture"
      <3>1. Due' = Due  BY <1>1, <2>1, <2>2, <2>4 DEF Due
      <3> QED BY <1>1, <1>3, <1>4, <2>1, <2>2, <2>4, <3>1
    <2> QED BY <1>c, <2>3, <2>4 DEF PollInput
  <1>d. CASE Geometry
    <2>1. Due' = Due /\ failed' = failed /\ pc' = pc  BY <1>d DEF Geometry, Due
    <2>2. PICK s : s = acked \o raw  OBVIOUS
    <2>3. PICK t : t = acked' \o raw'  OBVIOUS
    <2>4. /\ s \in Seq(Taken) /\ Len(t) = Len(s) /\ Len(s) \in Nat
          /\ \A i \in 1 .. Len(s) : t[i].poll = s[i].poll
      BY <1>d, <2>2, <2>3, GeometryFacts
    <2>5. OrderedUpTo(t, Due)  BY <1>2, <2>2, <2>4 DEF OrderedUpTo
    <2>6. CompleteUpTo(s, Due) => CompleteUpTo(t, Due)  BY <1>3, <2>4 DEF CompleteUpTo
    <2> QED BY <1>2, <2>1, <2>2, <2>3, <2>5, <2>6 DEF TakenInv
  <1>e. CASE SceneFails  BY <1>3, <1>4, <1>e DEF SceneFails, Due
  <1>f. CASE Finalize
    <2>1. Due' = Due  BY <1>f DEF Finalize, Due
    <2>2. failed' = failed /\ pc = "idle" /\ acked' = acked /\ raw' = raw  BY <1>f DEF Finalize
    <2> QED BY <1>1, <1>3, <1>4, <2>1, <2>2
  <1>g. CASE NextBatch
    <2>1. Due' = Due /\ failed' = failed /\ pc # "dead" /\ acked' = acked /\ raw' = raw
      BY <1>g DEF NextBatch, Due, Flushing
    <2> QED BY <1>1, <1>3, <1>4, <2>1
  <1>h. CASE WriteOk \/ WriteUnnoticed
    <2>1. Acknowledge /\ polls' = polls /\ Flushing  BY <1>h DEF WriteOk, WriteUnnoticed
    <2>2. Due' = Due /\ failed' = failed /\ pc # "dead"  BY <2>1 DEF Acknowledge, Due, Flushing
    <2>3. acked' \o raw' = acked \o raw  BY <2>1, AcknowledgeFacts
    <2> QED BY <1>1, <1>3, <1>4, <2>2, <2>3
  <1>j. CASE WriteFails \/ SampleTooLarge
    <2>1. raw # <<>> /\ Flushing /\ FlushRaises  BY <1>j DEF WriteFails, SampleTooLarge, RawTypes
    <2>2. failed' = TRUE /\ pc' \in {"idle", "closed"} /\ UNCHANGED <<polls, raw, acked>>
      BY <2>1, RaiseFacts
    <2>3. Due' = polls /\ Due <= polls  BY <1>1, <2>2 DEF Due
    <2> QED BY <1>1, <1>4, <2>2, <2>3
  <1>l. CASE Flushed
    <2>1. raw = <<>> /\ acked' = acked /\ failed' = failed /\ polls' = polls  BY <1>l DEF Flushed
    <2>2. CASE pc = "capture"
      <3>1. polls \in 1 .. MaxPolls  BY <2>2 DEF RawTypes, FlushInv
      <3>2. Sample(polls) \in Taken  BY <3>1, SampleTyped
      <3>3. raw' = <<Sample(polls)>> /\ pc' = "idle"  BY <1>l, <2>2 DEF Flushed
      <3>4. acked \o raw = acked  BY <1>1, <2>1, ConcatEmptySeq
      <3>5. acked' \o raw' = Append(acked \o raw, Sample(polls))
        BY <1>1, <2>1, <3>2, <3>3, <3>4, AppendIsConcat
      <3>6. Due = polls - 1 /\ Due' = polls  BY <2>1, <2>2, <3>3 DEF Due
      <3> QED BY <1>5, <2>1, <2>2, <3>1, <3>5, <3>6
    <2>3. CASE pc # "capture"
      <3>1. raw' = raw /\ pc' = "closed" /\ pc # "dead"  BY <1>l, <2>3 DEF Flushed, Flushing
      <3>2. Due' = Due  BY <2>1, <2>3, <3>1 DEF Due
      <3> QED BY <1>1, <1>3, <1>4, <2>1, <3>1, <3>2
    <2> QED BY <2>2, <2>3
  <1>m. CASE Die
    <2>1. pc' = "dead" /\ acked' = acked /\ raw' = raw /\ polls' = polls  BY <1>m DEF Die
    <2>2. Due' = polls /\ Due <= polls  BY <1>1, <2>1 DEF Due
    <2> QED BY <1>1, <1>4, <2>1, <2>2
  <1> QED  BY <1>c, <1>d, <1>e, <1>f, <1>g, <1>h, <1>j, <1>l, <1>m DEF Next

\* A row in the file gives the reader its batch, once.
LEMMA RowReads ==
    ASSUME RawTypes, Held \/ Ahead
    PROVE  /\ Read(Append(rows, Row)).names = 0 .. confirmed
           /\ Read(Append(rows, Row)).samples = acked \o SubSeq(raw, 1, batch)
  <1>1. /\ rows \in Seq(LogRows) /\ Row \in LogRows /\ Row.id = confirmed
        /\ Row.samples = SubSeq(raw, 1, batch) /\ confirmed \in Nat
    BY RowFacts DEF RawTypes
  <1>2. Read(Append(rows, Row)) = FirstOfName(Read(rows), Row) /\ Read(rows) \in Gots
    BY <1>1, ReadFollows
  <1>3. CASE Held
    <2>1. Read(rows).names = 0 .. confirmed - 1 /\ Read(rows).samples = acked
      BY <1>3 DEF Held, Reader
    <2>2. ~(confirmed \in Read(rows).names)  BY <1>1, <2>1
    <2>3. Read(Append(rows, Row)) = [names |-> Read(rows).names \cup {Row.id},
                                     samples |-> Read(rows).samples \o Row.samples]
      BY <1>1, <1>2, <2>2 DEF FirstOfName
    <2>4. (0 .. confirmed - 1) \cup {confirmed} = 0 .. confirmed  BY <1>1
    <2>5. /\ Read(Append(rows, Row)).names = Read(rows).names \cup {Row.id}
          /\ Read(Append(rows, Row)).samples = Read(rows).samples \o Row.samples
      <3>1. PICK a : a = Read(rows).names \cup {Row.id}  OBVIOUS
      <3>2. PICK b : b = Read(rows).samples \o Row.samples  OBVIOUS
      <3>3. Read(Append(rows, Row)) = [names |-> a, samples |-> b]  BY <2>3, <3>1, <3>2, Zenon
      <3>4. Read(Append(rows, Row)).names = a /\ Read(Append(rows, Row)).samples = b  BY <3>3
      <3> QED BY <3>1, <3>2, <3>4, Zenon
    <2>6. Read(Append(rows, Row)).samples = acked \o SubSeq(raw, 1, batch)
      BY <1>1, <2>1, <2>5, Zenon
    <2>7. Read(Append(rows, Row)).names = 0 .. confirmed  BY <1>1, <2>1, <2>4, <2>5
    <2> QED BY <2>6, <2>7
  <1>4. CASE Ahead
    <2>1. confirmed \in Read(rows).names  BY <1>1, <1>4 DEF Ahead
    <2>2. Read(Append(rows, Row)) = Read(rows)  BY <1>1, <1>2, <2>1 DEF FirstOfName
    <2> QED BY <1>4, <2>2 DEF Ahead, Reader
  <1> QED BY <1>3, <1>4

\* When a batch is acknowledged that is in the file, the reader has what was acknowledged.
LEMMA AcknowledgeReads ==
    ASSUME RawTypes, Held \/ Ahead, Acknowledge, rows' = Append(rows, Row)
    PROVE  Held'
  <1>1. /\ Read(rows').names = 0 .. confirmed
        /\ Read(rows').samples = acked \o SubSeq(raw, 1, batch)
    BY RowReads
  <1>2. confirmed' = confirmed + 1 /\ acked' = acked \o SubSeq(raw, 1, batch)  BY DEF Acknowledge
  <1>3. confirmed' - 1 = confirmed  BY <1>2 DEF RawTypes
  <1> QED BY <1>1, <1>2, <1>3 DEF Held, Reader

\* Every step keeps the file ahead of what was acknowledged by one batch at most.
LEMMA StoredKeeps ==
    ASSUME RawInv, Next
    PROVE  StoredInv'
  <1> USE DEF RawInv
  <1>1. /\ raw \in Seq(Taken) /\ acked \in Seq(Taken) /\ rows \in Seq(LogRows)
        /\ confirmed \in Nat /\ errors \in Nat /\ losses \in Nat /\ Len(raw) \in Nat
        /\ batch \in 0 .. Len(raw)
    BY LenProperties DEF RawTypes
  <1>2. ASSUME UNCHANGED <<rows, confirmed, losses, acked>>, errors' \in {errors, errors + 1},
               Ahead => Ahead'
        PROVE  StoredInv'
    <2>1. losses' = 0 => Held' \/ Ahead'  BY <1>2 DEF StoredInv, Held, Reader
    <2>2. errors' = 0 => errors = 0  BY <1>1, <1>2
    <2> QED BY <1>2, <2>1, <2>2 DEF StoredInv
  <1>3. ASSUME UNCHANGED <<rows, batch, confirmed, acked>>, failed => failed',
               SubSeq(raw', 1, batch) = SubSeq(raw, 1, batch), Ahead
        PROVE  Ahead'
    BY <1>3 DEF Ahead, Reader
  <1>4. ASSUME NEW r, r \in {rows, Append(rows, Row)}, rows' = r, confirmed' \in {confirmed, confirmed + 1}
        PROVE  \A i \in 1 .. Len(rows') : rows'[i].id <= confirmed'
    <2>1. CASE r = rows
      <3>1. \A i \in 1 .. Len(rows) : rows[i].id \in Nat
        <4>1. \A i \in 1 .. Len(rows) : rows[i] \in LogRows  BY <1>1, ElementOfSeq
        <4> QED BY <4>1 DEF LogRows
      <3> QED BY <1>1, <1>4, <2>1, <3>1 DEF StoredInv
    <2>2. CASE r = Append(rows, Row)
      <3>1. \A i \in 1 .. Len(rows) : rows[i].id \in Nat
        <4>1. \A i \in 1 .. Len(rows) : rows[i] \in LogRows  BY <1>1, ElementOfSeq
        <4> QED BY <4>1 DEF LogRows
      <3>2. /\ Len(rows') = Len(rows) + 1 /\ rows'[Len(rows) + 1] = Row /\ Row.id = confirmed
            /\ \A i \in 1 .. Len(rows) : rows'[i] = rows[i]
            /\ Len(rows) \in Nat
        BY <1>4, <2>2, RowFacts
      <3>3. ASSUME NEW i \in 1 .. Len(rows')
            PROVE  rows'[i].id <= confirmed'
        <4>1. CASE i \in 1 .. Len(rows)  BY <1>1, <1>4, <3>1, <3>2, <4>1 DEF StoredInv
        <4>2. CASE i = Len(rows) + 1  BY <1>1, <1>4, <3>2, <4>2
        <4> QED BY <3>2, <4>1, <4>2
      <3> QED BY <3>3
    <2> QED BY <1>4, <2>1, <2>2
  <1>c. CASE PollInput
    <2>1. /\ UNCHANGED <<rows, batch, confirmed, losses, acked, errors, failed>>
          /\ raw' = raw \/ raw' = Append(raw, Sample(polls'))
      BY <1>c DEF PollInput
    <2>2. polls' \in 1 .. MaxPolls  BY <1>c, BoundsAssumption DEF PollInput, RawTypes
    <2>3. SubSeq(raw', 1, batch) = SubSeq(raw, 1, batch)
      <3>1. CASE raw' = raw  BY <3>1
      <3>2. CASE raw' = Append(raw, Sample(polls'))
        <4>1. Sample(polls') \in Taken  BY <2>2, SampleTyped
        <4>2. SubSeq(Append(raw, Sample(polls')), 1, batch) = SubSeq(raw, 1, batch)
          BY <1>1, <4>1, AppendFacts
        <4> QED  BY <3>2, <4>2, Zenon
      <3> QED  BY <2>1, <3>1, <3>2
    <2> QED BY <1>2, <1>3, <2>1, <2>3
  <1>d. CASE Geometry
    <2>1. ~Ahead  BY <1>d DEF Geometry, Ahead
    <2> QED BY <1>2, <1>d, <2>1 DEF Geometry
  <1>e. CASE SceneFails \/ Finalize \/ Die
    <2>1. UNCHANGED <<rows, batch, confirmed, losses, acked, errors, raw>> /\ (failed => failed')
      BY <1>e DEF SceneFails, Finalize, Die
    <2> QED BY <1>2, <1>3, <2>1
  <1>g. CASE NextBatch
    <2>1. ~Ahead  BY <1>g DEF NextBatch, Ahead
    <2> QED BY <1>2, <1>g, <2>1 DEF NextBatch
  <1>h. CASE WriteOk
    <2>1. /\ rows' = Append(rows, Row) /\ Acknowledge /\ losses' = losses  BY <1>h DEF WriteOk
    <2>2. confirmed' = confirmed + 1 /\ errors' = errors  BY <2>1 DEF Acknowledge
    <2>3. losses' = 0 => Held'  BY <2>1, AcknowledgeReads DEF StoredInv
    <2>4. \A i \in 1 .. Len(rows') : rows'[i].id <= confirmed'  BY <1>4, <2>1, <2>2
    <2>5. ASSUME errors' = 0, losses' = 0
          PROVE  /\ \A i \in 1 .. Len(rows') : rows'[i].id < confirmed'
                 /\ \A i, j \in 1 .. Len(rows') : rows'[i].id = rows'[j].id => i = j
      <3>1. /\ \A i \in 1 .. Len(rows) : rows[i].id < confirmed
            /\ \A i, j \in 1 .. Len(rows) : rows[i].id = rows[j].id => i = j
        BY <2>1, <2>2, <2>5 DEF StoredInv
      <3>2. /\ Len(rows') = Len(rows) + 1 /\ rows'[Len(rows) + 1].id = confirmed
            /\ \A i \in 1 .. Len(rows) : rows'[i].id = rows[i].id
            /\ Len(rows) \in Nat
        BY <2>1, RowFacts
      <3>3. \A i \in 1 .. Len(rows) : rows[i].id \in Nat
        <4>1. \A i \in 1 .. Len(rows) : rows[i] \in LogRows  BY <1>1, ElementOfSeq
        <4> QED BY <4>1 DEF LogRows
      <3>4. \A i \in 1 .. Len(rows') : i \in 1 .. Len(rows) \/ i = Len(rows) + 1  BY <3>2
      <3>5. ASSUME NEW i \in 1 .. Len(rows')
            PROVE  rows'[i].id < confirmed'
        <4>1. CASE i \in 1 .. Len(rows)
          <5>1. rows'[i].id = rows[i].id /\ rows[i].id < confirmed /\ rows[i].id \in Nat
            BY <3>1, <3>2, <3>3, <4>1
          <5> QED BY <1>1, <2>2, <5>1
        <4>2. CASE i = Len(rows) + 1  BY <1>1, <2>2, <3>2, <4>2
        <4> QED BY <3>4, <4>1, <4>2
      <3>6. ASSUME NEW i \in 1 .. Len(rows'), NEW j \in 1 .. Len(rows'), rows'[i].id = rows'[j].id
            PROVE  i = j
        <4>1. CASE i \in 1 .. Len(rows) /\ j \in 1 .. Len(rows)  BY <3>1, <3>2, <3>6, <4>1
        <4>2. CASE i \in 1 .. Len(rows) /\ j = Len(rows) + 1  BY <1>1, <3>1, <3>2, <3>3, <3>6, <4>2
        <4>3. CASE i = Len(rows) + 1 /\ j \in 1 .. Len(rows)  BY <1>1, <3>1, <3>2, <3>3, <3>6, <4>3
        <4> QED BY <3>4, <4>1, <4>2, <4>3
      <3> QED BY <3>5, <3>6
    <2> QED BY <2>3, <2>4, <2>5 DEF StoredInv
  <1>i. CASE WriteUnnoticed
    <2>1. rows' \in {rows, Append(rows, Row)} /\ confirmed' = confirmed + 1 /\ losses' = losses + 1
      BY <1>i DEF WriteUnnoticed, Acknowledge
    <2>2. losses' # 0  BY <1>1, <2>1
    <2>3. \A i \in 1 .. Len(rows') : rows'[i].id <= confirmed'  BY <1>4, <2>1
    <2> QED BY <2>2, <2>3 DEF StoredInv
  <1>j. CASE WriteFails
    <2>1. raw # <<>> /\ Flushing /\ FlushRaises /\ batch # 0  BY <1>j DEF WriteFails, RawTypes
    <2>2. failed' = TRUE /\ UNCHANGED <<raw, batch, confirmed, losses, acked>>  BY <2>1, RaiseFacts
    <2>3. errors' = errors + 1 /\ rows' \in {rows, Append(rows, Row)}  BY <1>j DEF WriteFails
    <2>4. errors' # 0  BY <1>1, <2>3
    <2>5. \A i \in 1 .. Len(rows') : rows'[i].id <= confirmed'  BY <1>4, <2>2, <2>3
    <2>6. ASSUME losses' = 0
          PROVE  Held' \/ Ahead'
      <3>1. Held \/ Ahead  BY <2>2, <2>6 DEF StoredInv
      <3>2. CASE rows' = rows  BY <2>2, <3>1, <3>2 DEF Held, Ahead, Reader
      <3>3. CASE rows' = Append(rows, Row)
        <4>1. /\ Read(rows').names = 0 .. confirmed
              /\ Read(rows').samples = acked \o SubSeq(raw, 1, batch)
          BY <3>1, <3>3, RowReads
        <4> QED BY <2>1, <2>2, <4>1 DEF Ahead, Reader
      <3> QED BY <2>3, <3>2, <3>3
    <2> QED BY <2>4, <2>5, <2>6 DEF StoredInv
  <1>k. CASE SampleTooLarge
    <2>1. raw # <<>> /\ Flushing /\ FlushRaises /\ batch = 0 /\ UNCHANGED <<rows, errors>>
      BY <1>k DEF SampleTooLarge
    <2>2. UNCHANGED <<confirmed, losses, acked>> /\ ~Ahead  BY <2>1, RaiseFacts DEF Ahead
    <2> QED BY <1>2, <2>1, <2>2
  <1>l. CASE Flushed
    <2>1. batch = 0  BY <1>l, <1>1 DEF Flushed
    <2>2. ~Ahead  BY <2>1 DEF Ahead
    <2> QED BY <1>2, <1>l, <2>2 DEF Flushed
  <1> QED  BY <1>c, <1>d, <1>e, <1>g, <1>h, <1>i, <1>j, <1>k, <1>l DEF Next

\* Every step of the log keeps it.
LEMMA RawKeeps == RawInv /\ [Next]_vars => RawInv'
  <1> SUFFICES ASSUME RawInv, [Next]_vars
               PROVE  RawInv'
    OBVIOUS
  <1>1. CASE Next  BY <1>1, TypesKeep, FlushKeeps, TakenKeeps, StoredKeeps DEF RawInv
  <1>2. CASE UNCHANGED vars
    <2> USE <1>2 DEF vars, RawInv
    <2>1. RawTypes'  BY DEF RawTypes
    <2>2. FlushInv'  BY DEF FlushInv
    <2>3. TakenInv'  BY DEF TakenInv, OrderedUpTo, CompleteUpTo, Due
    <2>4. StoredInv'  BY DEF StoredInv, Held, Ahead, Reader
    <2> QED BY <2>1, <2>2, <2>3, <2>4
  <1> QED BY <1>1, <1>2

\* What the invariant says of what the reader gets, when no loss was counted.
LEMMA ReaderFacts ==
    ASSUME RawInv, losses = 0
    PROVE  /\ Reader \in Seq(Taken)
           /\ IsPrefix(acked, Reader) /\ IsPrefix(Reader, acked \o raw)
           /\ batch = 0 \/ ~failed => Reader = acked
           /\ SubSeq(acked \o raw, 1, Len(Reader)) = Reader
           /\ Len(Reader) <= Len(acked) + batch
           /\ Len(acked) <= Len(Reader)
  <1> USE DEF RawInv
  <1>1. /\ raw \in Seq(Taken) /\ acked \in Seq(Taken) /\ batch \in 0 .. Len(raw)  BY DEF RawTypes
  <1>2. PICK u : u = SubSeq(raw, 1, batch)  OBVIOUS
  <1>3. PICK v : v = SubSeq(raw, batch + 1, Len(raw))  OBVIOUS
  <1>4. u \in Seq(Taken) /\ v \in Seq(Taken) /\ Len(u) = batch /\ u \o v = raw
        /\ acked \o u \in Seq(Taken) /\ Len(acked \o u) = Len(acked) + batch
    <2>1. SubSeq(raw, 1, batch) \in Seq(Taken) /\ Len(SubSeq(raw, 1, batch)) = batch
          /\ SubSeq(raw, batch + 1, Len(raw)) \in Seq(Taken)
      BY <1>1, CutFacts
    <2>2. SubSeq(raw, 1, batch) \o SubSeq(raw, batch + 1, Len(raw)) = raw  BY <1>1, CutFacts
    <2>3. u \in Seq(Taken) /\ v \in Seq(Taken) /\ Len(u) = batch  BY <1>2, <1>3, <2>1, Zenon
    <2>4. u \o v = raw  BY <1>2, <1>3, <2>2, Zenon
    <2>5. acked \o u \in Seq(Taken) /\ Len(acked \o u) = Len(acked) + Len(u)
      BY <1>1, <2>3, ConcatProperties
    <2> QED BY <2>3, <2>4, <2>5, Zenon
  <1>5. Len(acked) \in Nat /\ batch \in Nat  BY <1>1, LenProperties
  <1>6. CASE Held
    <2>1. Reader = acked  BY <1>6 DEF Held
    <2>2. IsPrefix(acked, acked \o raw) /\ SubSeq(acked \o raw, 1, Len(acked)) = acked
      BY <1>1, PrefixOfConcat
    <2>3. IsPrefix(acked, acked)
      <3>1. acked \o <<>> = acked /\ <<>> \in Seq(Taken)  BY <1>1, ConcatEmptySeq
      <3>2. IsPrefix(acked, acked \o <<>>)  BY <1>1, <3>1, PrefixOfConcat
      <3> QED BY <3>1, <3>2
    <2> QED BY <1>1, <1>5, <2>1, <2>2, <2>3
  <1>7. CASE Ahead
    <2>1. Reader = acked \o u /\ batch # 0 /\ failed  BY <1>2, <1>7 DEF Ahead
    <2>2. (acked \o u) \o v = acked \o raw
      <3>1. (acked \o u) \o v = acked \o (u \o v)
        <4>1. u \in Seq(Taken) /\ v \in Seq(Taken)  BY <1>4, Zenon
        <4>2. acked \in Seq(Taken)  BY <1>1
        <4> QED BY <4>1, <4>2, ConcatAssociative
      <3> QED BY <1>4, <3>1, Zenon
    <2>3. IsPrefix(acked, acked \o u)  BY <1>1, <1>4, PrefixOfConcat
    <2>4. /\ IsPrefix(acked \o u, (acked \o u) \o v)
          /\ SubSeq((acked \o u) \o v, 1, Len(acked \o u)) = acked \o u
      BY <1>1, <1>4, PrefixOfConcat
    <2>5. IsPrefix(Reader, acked \o raw) /\ SubSeq(acked \o raw, 1, Len(Reader)) = Reader
          /\ IsPrefix(acked, Reader) /\ Reader \in Seq(Taken) /\ Len(Reader) = Len(acked) + batch
      BY <1>4, <2>1, <2>2, <2>3, <2>4, Zenon
    <2>6. Len(acked) <= Len(Reader) /\ Len(Reader) <= Len(acked) + batch  BY <1>5, <2>5
    <2> QED BY <2>1, <2>5, <2>6, Zenon
  <1> QED BY <1>6, <1>7 DEF StoredInv

\* The invariant says that the samples are whole.
LEMMA RawWhole == RawInv => SamplesAreWhole
  <1> SUFFICES ASSUME RawInv
               PROVE  SamplesAreWhole
    OBVIOUS
  <1> USE DEF RawInv
  <1>1. TypeOK
    <2>1. \A i \in 1 .. Len(raw) : raw[i] \in Taken  BY ElementOfSeq DEF RawTypes
    <2>2. errors \in 0 .. MaxWriteFaults /\ losses \in 0 .. MaxWriteFaults
      BY BoundsAssumption DEF RawTypes
    <2>3. \A i \in 1 .. Len(rows) : rows[i].id <= confirmed  BY DEF StoredInv
    <2> QED BY <2>1, <2>2, <2>3 DEF TypeOK, RawTypes, Taken
  <1>2. NoHoleInAValidScene
    <2> SUFFICES ASSUME pc \in {"idle", "final", "closed"}, ~failed
                 PROVE  [i \in 1 .. Len(acked \o raw) |-> (acked \o raw)[i].poll] = [i \in 1 .. polls |-> i]
      BY DEF NoHoleInAValidScene
    <2>1. CompleteUpTo(acked \o raw, polls)  BY DEF TakenInv, Due
    <2>2. Len(acked \o raw) = polls /\ \A i \in 1 .. polls : (acked \o raw)[i].poll = i
      BY <2>1 DEF CompleteUpTo
    <2> QED BY <2>2
  <1>3. HonestStorage
    <2>1. ASSUME status \in {"ACKNOWLEDGED", "ACKNOWLEDGED_AFTER_RETRY"}
          PROVE  Reader = acked
      <3>1. losses = 0 /\ raw = <<>>  BY <2>1 DEF FlushInv
      <3>2. batch = 0  BY <3>1 DEF RawTypes
      <3> QED BY <3>1, <3>2, ReaderFacts
    <2>2. ASSUME status = "ACKNOWLEDGED"
          PROVE  \A i, j \in 1 .. Len(rows) : rows[i].id = rows[j].id => i = j
      BY <2>2 DEF FlushInv, StoredInv
    <2>3. losses = 0 => IsPrefix(acked, Reader) /\ IsPrefix(Reader, acked \o raw)  BY ReaderFacts
    <2> QED BY <2>1, <2>2, <2>3 DEF HonestStorage
  <1> QED BY <1>1, <1>2, <1>3 DEF SamplesAreWhole

\* Nothing the scene took is missing among what is held and what is stored.
THEOREM SamplesWhole == Spec => []SamplesAreWhole
  <1>1. Init => RawInv  BY RawInit
  <1>2. RawInv /\ [Next]_vars => RawInv'  BY RawKeeps
  <1>3. RawInv => SamplesAreWhole  BY RawWhole
  <1> QED BY <1>1, <1>2, <1>3, PTL DEF Spec

\* A batch goes from what is held to what is read as it stands.
LEMMA BatchReads ==
    ASSUME RawInv, losses = 0
    PROVE  /\ Len(acked) + batch \in Len(Reader) .. Len(acked \o raw)
           /\ acked \o SubSeq(raw, 1, batch) = SubSeq(acked \o raw, 1, Len(acked) + batch)
  <1> USE DEF RawInv
  <1>1. /\ raw \in Seq(Taken) /\ acked \in Seq(Taken) /\ batch \in 0 .. Len(raw)  BY DEF RawTypes
  <1>2. PICK u : u = SubSeq(raw, 1, batch)  OBVIOUS
  <1>3. PICK v : v = SubSeq(raw, batch + 1, Len(raw))  OBVIOUS
  <1>4. u \in Seq(Taken) /\ v \in Seq(Taken)
    <2>1. SubSeq(raw, 1, batch) \in Seq(Taken) /\ SubSeq(raw, batch + 1, Len(raw)) \in Seq(Taken)
      BY <1>1, CutFacts
    <2> QED BY <1>2, <1>3, <2>1, Zenon
  <1>5. u \o v = raw /\ Len(u) = batch
    <2>1. SubSeq(raw, 1, batch) \o SubSeq(raw, batch + 1, Len(raw)) = raw  BY <1>1, CutFacts
    <2>2. Len(SubSeq(raw, 1, batch)) = batch  BY <1>1, CutFacts
    <2> QED BY <1>2, <1>3, <2>1, <2>2, Zenon
  <1>6. (acked \o u) \o v = acked \o raw
    <2>1. (acked \o u) \o v = acked \o (u \o v)
      <3>1. acked \in Seq(Taken)  BY <1>1
      <3> QED  BY <1>4, <3>1, ConcatAssociative
    <2> QED BY <1>5, <2>1, Zenon
  <1>7. acked \o u \in Seq(Taken) /\ Len(acked \o u) = Len(acked) + batch
    BY <1>1, <1>4, <1>5, ConcatProperties
  <1>8. SubSeq(acked \o raw, 1, Len(acked) + batch) = acked \o u
    <2>1. SubSeq((acked \o u) \o v, 1, Len(acked \o u)) = acked \o u  BY <1>4, <1>7, PrefixOfConcat
    <2> QED BY <1>6, <1>7, <2>1, Zenon
  <1>9. Len(acked \o raw) = Len(acked) + Len(raw) /\ Len(acked) \in Nat /\ Len(raw) \in Nat
    BY <1>1, ConcatProperties, LenProperties
  <1>10. Len(Reader) <= Len(acked) + batch /\ Len(Reader) \in Nat  BY ReaderFacts, LenProperties
  <1> QED BY <1>1, <1>2, <1>8, <1>9, <1>10

\* The log begins where the stream does.
LEMMA StreamBegins == Init => Stream!Init
  <1> SUFFICES ASSUME Init PROVE Stream!Init  OBVIOUS
  <1>1. raw = <<>> /\ acked = <<>> /\ rows = <<>>  BY DEF Init
  <1>2. acked \o raw = <<>>  BY <1>1
  <1>3. Reader = <<>>
    <2>1. rows \in Seq(LogRows) /\ Len(rows) = 0  BY <1>1
    <2>2. Read(rows) = Unread  BY <2>1, GotFollows DEF Read
    <2> QED BY <2>2 DEF Reader, Unread
  <1> QED BY <1>2, <1>3 DEF Stream!Init

\* What the file of a logger that raises gives the reader goes the way of the stream.
LEMMA StreamSteps ==
    ASSUME RawInv, [Next]_vars
    PROVE  [Stream!Next]_<<IF nonfatal THEN <<>> ELSE acked \o raw,
                           IF nonfatal THEN <<>> ELSE Reader>>
  <1> DEFINE Unmoved == UNCHANGED <<IF nonfatal THEN <<>> ELSE acked \o raw,
                                    IF nonfatal THEN <<>> ELSE Reader>>
  <1> USE DEF RawInv
  <1>1. nonfatal' = nonfatal /\ nonfatal \in BOOLEAN  BY DEF Next, vars, RawTypes
  <1>2. CASE nonfatal
    <2>1. Unmoved  BY <1>1, <1>2
    <2> QED BY <2>1
  <1>3. CASE ~nonfatal
    <2>1. losses = 0  BY <1>3 DEF FlushInv, RawTypes
    <2>2. /\ raw \in Seq(Taken) /\ acked \in Seq(Taken) /\ acked \o raw \in Seq(Taken)
          /\ polls \in Nat /\ batch \in 0 .. Len(raw) /\ Len(acked \o raw) \in Nat
      BY BoundsAssumption, ConcatProperties, LenProperties DEF RawTypes
    <2>3. ASSUME acked' \o raw' = acked \o raw, rows' = rows
          PROVE  Unmoved
      BY <1>1, <1>3, <2>3 DEF Reader
    <2>4. ASSUME acked' \o raw' = acked \o raw, rows' = Append(rows, Row)
          PROVE  Stream!Store
      <3>1. Reader' = acked \o SubSeq(raw, 1, batch)  BY <2>1, <2>4, RowReads DEF Reader, StoredInv
      <3>2. Reader' = SubSeq(acked \o raw, 1, Len(acked) + batch)  BY <2>1, <3>1, BatchReads
      <3>3. \E n \in Len(Reader) .. Len(acked \o raw) : Reader' = SubSeq(acked \o raw, 1, n)
        BY <2>1, <3>2, BatchReads
      <3> QED BY <1>1, <1>3, <2>4, <3>3 DEF Stream!Store
    <2>5. ASSUME NEW p \in 1 .. MaxPolls, acked' \o raw' = Append(acked \o raw, Sample(p)),
                 rows' = rows, Due = p - 1
          PROVE  Stream!Take
      <3>1. PICK s : s = acked \o raw  OBVIOUS
      <3>2. PICK t : t = acked' \o raw'  OBVIOUS
      <3>3. s \in Seq(Taken) /\ t = Append(s, Sample(p)) /\ Sample(p) \in Taken /\ Len(s) \in Nat
        BY <2>2, <2>5, <3>1, <3>2, SampleTyped
      <3>4. Len(t) = Len(s) + 1 /\ t[Len(t)] = Sample(p)  BY <3>3, AppendProperties
      <3>5. SubSeq(t, 1, Len(s)) = s
        <4>1. Len(s) \in 0 .. Len(s) /\ SubSeq(s, 1, Len(s)) = s  BY <3>3, SubSeqFull
        <4> QED BY <3>3, <4>1, AppendFacts
      <3>6. s # <<>> => t[Len(t)].poll > s[Len(s)].poll
        <4> SUFFICES ASSUME s # <<>> PROVE t[Len(t)].poll > s[Len(s)].poll  OBVIOUS
        <4>1. Len(s) \in 1 .. Len(s) /\ s[Len(s)] \in Taken  BY <3>3, EmptySeq, ElementOfSeq
        <4>2. s[Len(s)].poll \in Nat  BY <4>1, BoundsAssumption DEF Taken
        <4>3. s[Len(s)].poll <= p - 1  BY <2>5, <3>1, <4>1 DEF TakenInv, OrderedUpTo
        <4>4. t[Len(t)].poll = p /\ p \in Nat  BY <3>4, SampleTyped, BoundsAssumption
        <4> QED BY <4>2, <4>3, <4>4
      <3>7. /\ Len(acked' \o raw') = Len(acked \o raw) + 1
            /\ SubSeq(acked' \o raw', 1, Len(acked \o raw)) = acked \o raw
            /\ acked \o raw # <<>> =>
                 (acked' \o raw')[Len(acked' \o raw')].poll > (acked \o raw)[Len(acked \o raw)].poll
        BY <3>1, <3>2, <3>4, <3>5, <3>6, Zenon
      <3> QED BY <1>1, <1>3, <2>5, <3>7 DEF Stream!Take, Reader
    <2>c. CASE PollInput
      <3>1. polls' \in 1 .. MaxPolls /\ polls' = polls + 1 /\ Due = polls /\ acked' = acked /\ rows' = rows
        BY <2>2, <2>c, BoundsAssumption DEF PollInput, RawTypes, Due
      <3>2. CASE raw' = Append(raw, Sample(polls'))
        <4>1. Sample(polls') \in Taken  BY <3>1, SampleTyped
        <4>2. acked' \o raw' = Append(acked \o raw, Sample(polls'))
          BY <2>2, <3>1, <3>2, <4>1, AppendFacts
        <4>3. Due = polls' - 1  BY <2>2, <3>1
        <4>4. Stream!Take  BY <2>5, <3>1, <4>2, <4>3
        <4> QED BY <4>4 DEF Stream!Next
      <3>3. CASE raw' = raw  BY <2>3, <3>1, <3>3
      <3> QED BY <2>c, <3>2, <3>3 DEF PollInput
    <2>d. CASE Geometry
      <3>1. Reader' = Reader /\ Reader = acked  BY <2>1, <2>d, ReaderFacts DEF Geometry, Reader
      <3>2. /\ Len(acked) < Len(acked \o raw)
            /\ acked' \o raw' = [acked \o raw EXCEPT ![Len(acked \o raw)].geo = TRUE]
        BY <2>2, <2>d, GeometryFacts, LenProperties
      <3>3. Stream!Amend  BY <1>1, <1>3, <3>1, <3>2 DEF Stream!Amend
      <3> QED BY <3>3 DEF Stream!Next
    <2>e. CASE SceneFails \/ Finalize \/ NextBatch \/ Die
      <3>1. raw' = raw /\ acked' = acked /\ rows' = rows
        BY <2>e DEF SceneFails, Finalize, NextBatch, Die
      <3> QED BY <2>3, <3>1
    <2>h. CASE WriteOk
      <3>1. acked' \o raw' = acked \o raw /\ rows' = Append(rows, Row)
        BY <2>h, AcknowledgeFacts DEF WriteOk
      <3>2. Stream!Store  BY <2>4, <3>1
      <3> QED BY <3>2 DEF Stream!Next
    <2>i. CASE WriteUnnoticed  BY <1>3, <2>i DEF WriteUnnoticed
    <2>j. CASE WriteFails \/ SampleTooLarge
      <3>1. raw # <<>> /\ Flushing /\ FlushRaises  BY <2>j DEF WriteFails, SampleTooLarge, RawTypes
      <3>2. raw' = raw /\ acked' = acked  BY <3>1, RaiseFacts
      <3>3. rows' = rows \/ rows' = Append(rows, Row)  BY <1>3, <2>j DEF WriteFails, SampleTooLarge
      <3>4. CASE rows' = rows  BY <2>3, <3>2, <3>4
      <3>5. CASE rows' = Append(rows, Row)
        <4>1. Stream!Store  BY <2>4, <3>2, <3>5
        <4> QED BY <4>1 DEF Stream!Next
      <3> QED BY <3>3, <3>4, <3>5
    <2>l. CASE Flushed
      <3>1. raw = <<>> /\ acked' = acked /\ rows' = rows  BY <2>l DEF Flushed
      <3>2. CASE pc = "capture"
        <4>1. polls \in 1 .. MaxPolls /\ Due = polls - 1  BY <3>2 DEF RawTypes, FlushInv, Due
        <4>2. raw' = <<Sample(polls)>> /\ Sample(polls) \in Taken
          BY <2>l, <3>2, <4>1, SampleTyped DEF Flushed
        <4>3. acked \o raw = acked  BY <2>2, <3>1, ConcatEmptySeq
        <4>4. acked' \o raw' = Append(acked \o raw, Sample(polls))
          BY <2>2, <3>1, <4>2, <4>3, AppendIsConcat
        <4>5. Stream!Take  BY <2>5, <3>1, <4>1, <4>4
        <4> QED BY <4>5 DEF Stream!Next
      <3>3. CASE pc # "capture"
        <4>1. raw' = raw  BY <2>l, <3>3 DEF Flushed
        <4> QED BY <2>3, <3>1, <4>1
      <3> QED BY <3>2, <3>3
    <2>m. CASE UNCHANGED vars
      <3>1. raw' = raw /\ acked' = acked /\ rows' = rows  BY <2>m DEF vars
      <3> QED BY <2>3, <3>1
    <2> QED  BY <2>c, <2>d, <2>e, <2>h, <2>i, <2>j, <2>l, <2>m DEF Next
  <1> QED BY <1>1, <1>2, <1>3

\* With a logger that raises, what a reader gets of the samples implements the stream.
THEOREM RawImplementsStream == Spec => StreamSpec
  <1>1. Init => Stream!Init  BY StreamBegins
  <1>2. RawInv /\ [Next]_vars => [Stream!Next]_<<IF nonfatal THEN <<>> ELSE acked \o raw,
                                                 IF nonfatal THEN <<>> ELSE Reader>>
    BY StreamSteps
  <1>3. Init => RawInv  BY RawInit
  <1>4. RawInv /\ [Next]_vars => RawInv'  BY RawKeeps
  <1> QED BY <1>1, <1>2, <1>3, <1>4, PTL DEF Spec, StreamSpec, Stream!Spec
=============================================================================
