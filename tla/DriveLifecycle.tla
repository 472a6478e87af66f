---- MODULE DriveLifecycle ----
(* One drive of the NoA research runtime, from ResearchNoARuntime.session() to its  *)
(* return: the research log and the gaze and tablet service are opened, a vehicle   *)
(* is spawned and equipped, its transmission primed, the stage started and driven,  *)
(* and then everything is given back, through nested finally blocks that keep the   *)
(* first error and go on.  Any call on the way may fail, or be ended by Ctrl+C.     *)
(* Between two handlers the only state is pc; a handler that makes several calls    *)
(* which may fail has one step for each.                                            *)
EXTENDS Integers, Sequences, FiniteSets, TLC

CONSTANTS Drives,      \* the configurations that are explored
          Kinds,       \* what a call may end with besides its result: "error", "stop"
          MaxFaults,   \* bound: how many calls fail in one drive
          MaxFrames    \* bound: frames the viewer runs

\* ResearchNoARunConfig.__post_init__: what a configuration may combine.
Valid(d) ==
    /\ d.dry => ~d.tm /\ ~d.inter
    /\ d.log # "none" => d.inter
    /\ d.tm => ~d.hold /\ ~d.trace
    /\ d.hold \/ d.exit => d.log # "none"
    /\ d.hold => d.inter
    /\ d.probe => d.tm /\ d.log # "none"
    /\ d.p6 => d.log = "own"
    /\ d.scene # "none" => d.log = "borrowed"

ASSUME DriveAssumption ==
    /\ \A d \in Drives : Valid(d)
    /\ Kinds \subseteq {"error", "stop"}
    /\ MaxFaults \in Nat /\ MaxFrames \in Nat

VARIABLES cfg,      \* the configuration
          pc,       \* the call that is made next
          err,      \* the error in flight, the first one, one that waits
          own,      \* what the drive holds: vehicle, cameras, files, devices
          car,      \* control mode and the last kind of command
          log,      \* session clock, event queue, stage rows
          stage,    \* ResearchNoAPersistence: started, active, ended, label
          run,      \* what _run remembers for its report
          faults    \* bound: failures so far

vars == <<cfg, pc, err, own, car, log, stage, run, faults>>

Logged == cfg.log # "none"
Nobody == "none"

Init ==
    /\ cfg \in Drives
    /\ pc = "open"
    /\ err = [now |-> Nobody, first |-> Nobody, late |-> Nobody]
    /\ own = [hero |-> Nobody, viewer |-> Nobody, probe |-> Nobody, p6 |-> Nobody,
              csv |-> Nobody, wheel |-> Nobody]
    /\ car = [mode |-> "MANUAL", last |-> Nobody]
    /\ log = [now |-> 0, latest |-> 0, queue |-> {}, rows |-> << >>,
              failed |-> FALSE, refused |-> FALSE]
    /\ stage = [active |-> FALSE, ended |-> FALSE, label |-> "drive"]
    /\ run = [frames |-> 0, viewing |-> FALSE, exited |-> FALSE, early |-> FALSE,
              boundary |-> FALSE, following |-> FALSE, scene |-> FALSE, stopped |-> FALSE,
              engaged |-> FALSE,
              shut |-> FALSE, shutAt |-> 0, result |-> FALSE]
    /\ faults = 0

-----------------------------------------------------------------------------
(* Errors                                                                  *)

First(e) == IF err.first = Nobody THEN e ELSE err.first

\* An error that leaves its block replaces whatever was in flight.
Raised(e) == [err EXCEPT !.now = e, !.first = First(e)]

\* retain_first_error: a later error becomes a note of the one in flight.
Retained(e) == [err EXCEPT !.now = IF @ = Nobody THEN e ELSE @, !.first = First(e)]

Result(l, e, c) == [log |-> l, end |-> e, cost |-> c]

Failures == IF faults < MaxFaults THEN Kinds ELSE {}

\* A call that does not write to the log.
Call == {Result(log, "ok", 0)} \cup {Result(log, e, 1) : e \in Failures}

\* A call that also looks at the vehicle's speed.
CallWithSpeed ==
    Call \cup IF faults < MaxFaults THEN {Result(log, "speed", 1)} ELSE {}

\* Several calls of a step may fail, within the bound.
Pay(cost) == faults + cost <= MaxFaults /\ faults' = faults + cost

\* A statement of a block whose errors go to handler.
Body(o, next, handler) ==
    /\ log' = o.log /\ Pay(o.cost)
    /\ IF o.end = "ok" THEN pc' = next /\ UNCHANGED err
                       ELSE pc' = handler /\ err' = Raised(o.end)

\* A statement run through retain_first_error.
Cleanup(o, next) ==
    /\ log' = o.log /\ Pay(o.cost) /\ pc' = next
    /\ err' = IF o.end = "ok" THEN err ELSE Retained(o.end)

Skip(at, next) ==
    /\ pc = at /\ pc' = next /\ UNCHANGED <<cfg, err, own, car, log, stage, run, faults>>

-----------------------------------------------------------------------------
(* The research log: SessionClock refuses a host timestamp older than the   *)
(* latest one it has seen, whichever writer brings it.                      *)

\* source.get_host_timestamp
Tick(l) == [l EXCEPT !.now = @ + 1]

\* An event waits with its stamp; ResearchNoAPersistence.enqueue_event takes it now.
Stamped(l, stamp) == [l EXCEPT !.queue = @ \cup {stamp}]
Enqueue(l) == Stamped(Tick(l), l.now + 1)

Queued(l, happens) == IF Logged /\ happens THEN Enqueue(l) ELSE l

\* _record_event and logger.write_event: the clock is asked first, then the row written.
Write(l, at, rows) ==
    IF ~Logged THEN {Result(l, "ok", 0)}
    ELSE IF at < l.latest THEN {Result([l EXCEPT !.refused = TRUE], "error", 0)}
    ELSE {Result([l EXCEPT !.latest = at, !.rows = @ \o rows], "ok", 0)} \cup
         {Result([l EXCEPT !.latest = at, !.failed = TRUE], e, 1) : e \in Failures}

\* A stamp that waits and that the clock is past already, and the newest of those that wait.
Late(l) == \E s \in l.queue : s < l.latest
Newest(l) == {s \in l.queue : \A t \in l.queue : t <= s}

\* Everything was written, up to the stamp; or the event with this stamp failed, and stays in
\* the queue with those behind it.
Emptied(l, stamp) == Result([l EXCEPT !.queue = {}, !.latest = stamp], "ok", 0)
Stuck(l, stamp, e) ==
    Result([l EXCEPT !.queue = {s \in l.queue : stamp <= s}, !.latest = stamp, !.failed = TRUE], e, 1)

\* flush_events sorts the queue, which is the set of its stamps here, and writes one event
\* after the other.
Flush(l) ==
    IF Late(l) THEN {Result([l EXCEPT !.refused = TRUE], "error", 0)}
    ELSE IF l.queue = {} THEN {Result(l, "ok", 0)}
    ELSE {Emptied(l, s) : s \in Newest(l)} \cup {Stuck(l, s, e) : s \in l.queue, e \in Failures}

\* get_observation: the stamp is taken when everything else has been read.
Observed(l) == Tick(l)

\* ResearchNoAPersistence.capture: the observation becomes a row of telemetry at once.
Capture(l) == Write(Observed(l), l.now + 1, << >>)

\* Two calls one after the other, the second only if the first went well.
Then(os, F(_)) == UNION {IF o.end = "ok" THEN F(o.log) ELSE {o} : o \in os}

Row(what, label, reason) ==
    <<[what |-> what, label |-> label, reason |-> reason, clean |-> err.first = Nobody]>>

-----------------------------------------------------------------------------
(* ResearchNoARuntime.session and _create_session                          *)

\* open_research_log, or the log of the operator's continuity.
OpenLog ==
    /\ pc = "open"
    /\ \E o \in IF cfg.log = "own" THEN Call ELSE {Result(log, "ok", 0)} :
          /\ Body(o, "p6", "done")
          /\ own' = [own EXCEPT !.csv = IF cfg.log = "own" /\ o.end = "ok" THEN "open" ELSE @]
    /\ UNCHANGED <<cfg, car, stage, run>>

MakeP6 ==
    /\ pc = "p6"
    /\ IF ~cfg.p6 THEN Skip("p6", "preflight")
       ELSE /\ \E o \in Call :
                  /\ Body(o, "preflight", "lastP6")
                  /\ own' = [own EXCEPT !.p6 = IF o.end = "ok" THEN "made" ELSE @]
            /\ UNCHANGED <<cfg, car, stage, run>>

\* Attestation, clock mode, weather, spawn point, exit manifest, blueprint: nothing
\* of the drive's own exists yet.
Preflight ==
    /\ pc = "preflight"
    /\ \E o \in Call : Body(o, "spawn", "lastP6")
    /\ UNCHANGED <<cfg, own, car, stage, run>>

SpawnHero ==
    /\ pc = "spawn"
    /\ \E o \in Call :
          /\ Body(o, "record", "lastP6")
          /\ own' = [own EXCEPT !.hero = IF o.end = "ok" THEN "open" ELSE @]
    /\ UNCHANGED <<cfg, car, stage, run>>

\* The weather and the attestation are the first events, each flushed at once.
RecordSetting ==
    /\ pc = "record"
    /\ \E o \in IF ~Logged THEN Call
                ELSE Then(Flush(Enqueue(log)),
                          LAMBDA l : IF cfg.tm THEN Flush(Enqueue(l)) ELSE {Result(l, "ok", 0)}) :
          Body(o, "probe", "abandonProbe")
    /\ UNCHANGED <<cfg, own, car, stage, run>>

\* Inventory preflight, ownership, NativeTrafficManagerDiagnosticsCollector.open.
OpenProbe ==
    /\ pc = "probe"
    /\ IF ~cfg.probe THEN Skip("probe", "bundle")
       ELSE /\ \E o \in Call :
                  /\ Body(o, "bundle", "abandonProbe")
                  /\ own' = [own EXCEPT !.probe = IF o.end = "ok" THEN "open" ELSE @]
            /\ UNCHANGED <<cfg, car, stage, run>>

\* The route's geometry and the control bundle; a Traffic Manager backend puts the
\* vehicle under manual control before it exists.
BuildBundle ==
    /\ pc = "bundle"
    /\ \E o \in Call : Body(o, "viewer", "abandonProbe")
    /\ UNCHANGED <<cfg, own, car, stage, run>>

\* _create_viewer, then attach: one camera after the other, kept by the viewer.
CreateViewer ==
    /\ pc = "viewer"
    /\ \E made \in Call :
          /\ Body(made, "attach", "abandonProbe")
          /\ own' = [own EXCEPT !.viewer = IF made.end = "ok" THEN "open" ELSE @]
    /\ UNCHANGED <<cfg, car, stage, run>>

AttachViewer ==
    /\ pc = "attach"
    /\ \E o \in Call : Body(o, "wire", "abandonProbe")
    /\ UNCHANGED <<cfg, own, car, stage, run>>

\* Scheduler, observers and exit assistance; the exit manifest is written directly.
\* The session that is returned owns everything from here.
WireSession ==
    /\ pc = "wire"
    /\ \E o \in IF cfg.exit THEN Write(Tick(log), log.now + 1, << >>) ELSE Call :
          Body(o, IF Logged THEN "attempt" ELSE IF cfg.dry THEN "dry" ELSE "speed",
               "abandonProbe")
    /\ UNCHANGED <<cfg, own, car, stage, run>>

\* A resource is closed once; a failing close is not tried again by the same owner.
Release(at, next, what, open) ==
    /\ pc = at
    /\ IF own[what] \notin open THEN Skip(at, next)
       ELSE /\ \E o \in Call :
                  /\ Cleanup(o, next)
                  /\ own' = [own EXCEPT ![what] = IF o.end = "ok" THEN "closed" ELSE "failed"]
            /\ UNCHANGED <<cfg, car, stage, run>>

\* The session was never handed over: its parts are closed here.
AbandonProbe == Release("abandonProbe", "abandonViewer", "probe", {"open"})
AbandonViewer == Release("abandonViewer", "abandonHero", "viewer", {"open"})
AbandonHero == Release("abandonHero", "lastP6", "hero", {"open"})

-----------------------------------------------------------------------------
(* ResearchNoASession.run: from the stage's attempt to the first frame     *)

\* An error inside _run leaves through the end of the stage, if there is a log.
OutOfRun == IF Logged THEN "endStage" ELSE "deactivate"

\* start_stage_attempt stands before the try: its failure ends no stage.
StartAttempt ==
    /\ pc = "attempt"
    /\ \E o \in Then(Write(Tick(log), log.now + 1, Row("attempt", "drive", "")),
                     LAMBDA l : Write(l, l.now, << >>)) :
          Body(o, "speed", "deactivate")
    /\ UNCHANGED <<cfg, own, car, stage, run>>

\* record_speed_policy, or record_control_authority for the Traffic Manager.
RecordAuthority ==
    /\ pc = "speed"
    /\ \E o \in Write(Tick(log), log.now + 1, << >>) : Body(o, "initial", OutOfRun)
    /\ UNCHANGED <<cfg, own, car, stage, run>>

ObserveInitialSpeed ==
    /\ pc = "initial"
    /\ \E o \in CallWithSpeed :
          Body(o, "gear", IF o.end = "speed" THEN "noControl" ELSE OutOfRun)
    /\ UNCHANGED <<cfg, own, car, stage, run>>

\* record_speed_limit_violation: the stamp is taken, then the queue is flushed.
Violation == Then(Flush(Observed(log)), LAMBDA l : Write(l, log.now + 1, << >>))

\* _record_speed_violation: the custom backend's record preserves the speed error,
\* the Traffic Manager's is written unguarded.
ViolationRecord(next) ==
    IF ~Logged THEN Skip(pc, next)
    ELSE /\ IF cfg.tm
            THEN \E o \in Write(Tick(log), log.now + 1, << >>) : Body(o, next, OutOfRun)
            ELSE \E o \in Violation : Cleanup(o, next)
         /\ UNCHANGED <<cfg, own, car, stage, run>>

RecordNoControl == pc = "noControl" /\ ViolationRecord(OutOfRun)

\* prime_live_transmission: a positive automatic gear needs nothing, gear zero is
\* engaged on a standing vehicle, and a moving one is brought to a halt first.
ReadGear ==
    /\ pc = "gear"
    /\ \E o \in Call, next \in {"input", "engage", "halt"} : Body(o, next, OutOfRun)
    /\ UNCHANGED <<cfg, own, car, stage, run>>

\* A command that only holds the vehicle; it counts although it may have raised.
Hold(at, nexts) ==
    /\ pc = at
    /\ \E o \in Call, next \in nexts : Body(o, next, OutOfRun)
    /\ car' = [car EXCEPT !.last = "brake"]
    /\ UNCHANGED <<cfg, own, stage, run>>

\* prepare_moving_gear_zero: brake, then wait, before a deadline, for a frame in
\* which the vehicle stands; its own transmission may have engaged meanwhile.
Halt == Hold("halt", {"engage", "input"})

\* prime_stationary_gear_zero: first gear by hand under the brake, awaited; then
\* automatic again, and the automatic forward gear awaited as well.
Engage == Hold("engage", {"confirm"})
Confirm == Hold("confirm", {"input"})

\* prepare_input: the wheel is opened and the preparation page shown, the brake held
\* all the while.  A failure closes the wheel and the window before it leaves.
PrepareInput ==
    /\ pc = "input"
    /\ IF ~cfg.wheel THEN Skip("input", "initialize")
       ELSE /\ \E o \in {[q EXCEPT !.log = Queued(@, TRUE)] : q \in Call} :
                  /\ Body(o, "initialize", "finalizeScene")
                  /\ own' = [own EXCEPT !.wheel = IF o.end = "ok" THEN "open" ELSE "closed"]
            /\ car' = [car EXCEPT !.last = "brake"]
            /\ UNCHANGED <<cfg, stage, run>>

\* The Traffic Manager or the NoA controller drives from the moment it is engaged.
Engaged == [mode |-> "NOA_ACTIVE", last |-> "drive"]

\* PersistedInteractionObserver: the queue is flushed in a finally block, where its
\* failure is raised only if there is no other; then the frame is captured.
Persisted(o) ==
    IF ~Logged THEN {o}
    ELSE {IF o.end = "ok" THEN q ELSE Result(q.log, o.end, o.cost + q.cost) :
              q \in Then(Flush(o.log),
                         LAMBDA l : IF o.end = "ok" THEN Capture(l)
                                    ELSE {Result(l, "ok", 0)})}

\* With no interaction NoA is requested; with one, the initial state is reported
\* and may already be NOA_ACTIVE.
Initialize ==
    /\ pc = "initialize"
    /\ \E active \in IF cfg.inter THEN BOOLEAN ELSE {TRUE},
          made \in {[q EXCEPT !.log = Queued(@, TRUE)] : q \in CallWithSpeed} :
          \E o \in Persisted(made) :
             /\ Body(o, "p6start", "finalizeScene")
             /\ car' = IF active THEN Engaged ELSE car
    /\ UNCHANGED <<cfg, own, stage, run>>

StartP6 ==
    /\ pc = "p6start"
    /\ IF own.p6 # "made" THEN Skip("p6start", "start")
       ELSE /\ \E o \in Call :
                  /\ Body(o, "start", "finalizeScene")
                  /\ own' = [own EXCEPT !.p6 = IF o.end = "ok" THEN "started" ELSE @]
            /\ UNCHANGED <<cfg, car, stage, run>>

StartStage ==
    /\ pc = "start"
    /\ IF ~Logged THEN Skip("start", "scene")
       ELSE /\ \E o \in Write(Tick(log), log.now + 1, Row("start", stage.label, "")) :
                  /\ Body(o, "scene", "finalizeScene")
                  /\ stage' = [stage EXCEPT !.active = (o.end = "ok")]
            /\ UNCHANGED <<cfg, own, car, run>>

\* ExitAssistanceCoordinator.start_active_drive, then the factory of the active scene.
BindScene ==
    /\ pc = "scene"
    /\ \E o \in Call :
          /\ Body(o, "frame", "finalizeScene")
          /\ run' = [run EXCEPT !.viewing = (o.end = "ok"),
                                !.scene = (cfg.scene = "scene" /\ o.end = "ok")]
    /\ UNCHANGED <<cfg, own, car, stage>>

-----------------------------------------------------------------------------
(* DriverView.run: one frame is input, control, what follows control.      *)

\* An error of a frame leaves the viewer; a continuation that was started is
\* finalized with it first.
OutOfFrame == IF run.following THEN "abandonFollow" ELSE "leave"

\* ResearchNoAPersistence.record_activation_speed_hold and record_automation, both
\* with the stamp of the observation the activation was made from.
Held(l) == Stamped(l, l.now)

\* The queue is flushed, the frame captured, and the activation stamped with it.
ActivationNow(l) ==
    {IF q.end = "ok" THEN [q EXCEPT !.log = Held(@)] ELSE q :
         q \in Then(Flush(l), Capture)}

\* slip: with exit assistance too, the activation's observation is written at once
ActivationAlwaysNow(l) ==
    IF cfg.hold THEN ActivationNow(l) ELSE {Result(Queued(l, TRUE), "ok", 0)}

\* record_event: an activation with a speed hold observes the vehicle; without exit
\* assistance the queue is flushed and the frame captured, with it the events only
\* wait in the queue, because the receipt of the input that caused them is older and
\* is enqueued after them.
Activation(l) ==
    IF ~cfg.hold THEN {Result(Queued(l, TRUE), "ok", 0)}
    ELSE IF cfg.exit THEN {Result(Held(Observed(l)), "ok", 0)}
    ELSE ActivationNow(l)

\* _collect_driver_input and the interaction's update; a key may engage or end NoA.
\* The speed that is held is checked after its events were recorded.
Collect ==
    /\ pc = "frame" /\ run.frames < MaxFrames
    /\ \E toggle \in IF cfg.inter THEN BOOLEAN ELSE {FALSE}, called \in CallWithSpeed :
          LET l    == Queued(called.log, cfg.wheel)
              recv == IF cfg.exit THEN Tick(l) ELSE l
              on   == toggle /\ car.mode = "MANUAL"
              made == IF on THEN Activation(recv)
                      ELSE {Result(IF toggle THEN Queued(recv, TRUE) ELSE recv, "ok", 0)}
              \* ExitAssistanceCoordinator.update: events at the input's receipt
              done(k) == IF cfg.exit THEN Stamped(k, recv.now) ELSE k
          IN  /\ called.end = "speed" => on /\ cfg.hold
              /\ \E q \in made :
                    LET o == IF q.end = "ok"
                             THEN Result(IF called.end = "ok" THEN done(q.log) ELSE q.log,
                                         called.end, called.cost)
                             ELSE [q EXCEPT !.cost = @ + called.cost]
                    IN  /\ Body(o, "control", OutOfFrame)
                        /\ car' \in IF ~toggle THEN {car}
                                    ELSE IF ~on THEN {car, [car EXCEPT !.mode = "MANUAL"]}
                                    ELSE {Engaged} \cup (IF o.end \in {"ok", "speed"} THEN {} ELSE {car})
    /\ UNCHANGED <<cfg, own, stage, run>>

\* TrafficManagerScheduler.update: the speed is looked at, and recorded with the limit.
Watched == {[q EXCEPT !.log = Queued(@, q.end = "ok")] : q \in CallWithSpeed}

\* ResearchAutomationScheduler.update: speed, command and, with a trace, a change of
\* saturation, at a stamp that is taken before the queue is flushed.
Scheduled ==
    CallWithSpeed \cup
    IF cfg.trace /\ car.mode = "NOA_ACTIVE"
    THEN Then(Flush(Tick(log)), LAMBDA l : Write(l, log.now + 1, << >>)) ELSE {}

\* _apply_manual_control records what the wheel sent, after it was sent.
ManualCommand(o) ==
    [o EXCEPT !.log = Queued(@, cfg.wheel /\ car.mode = "MANUAL" /\ o.end = "ok")]

\* The scheduler's update, or the driver's own control when it applied none.
Control ==
    /\ pc = "control"
    /\ \E o \in IF cfg.tm THEN Watched ELSE Scheduled :
          Body(ManualCommand(o), "after", OutOfFrame)
    /\ car' = [car EXCEPT !.last = "drive"]
    /\ UNCHANGED <<cfg, own, stage, run>>

\* after_control_applied and the frame's display: the events of the frame reach the
\* log before its telemetry, exit assistance judges the captured frame, a scene or a
\* continuation emits to the same log, and a notice that was shown is enqueued.
After ==
    /\ pc = "after"
    /\ \E o \in IF cfg.inter THEN UNION {Persisted(q) : q \in Call} ELSE Call :
          LET seen  == IF cfg.exit THEN Stamped(o.log, o.log.latest) ELSE o.log
              emit  == IF run.scene \/ run.following
                       THEN Then(Flush(seen), LAMBDA k : Write(Tick(k), k.now + 1, << >>))
                       ELSE {Result(seen, "ok", 0)}
          IN  \E q \in IF o.end = "ok" THEN emit ELSE {o} :
                 \E next \in {"frame"} \cup (IF run.scene THEN {"collision"} ELSE {}) :
                    Body([q EXCEPT !.log = IF cfg.exit /\ q.end = "ok" THEN Enqueue(@) ELSE @,
                                   !.cost = IF o.end = "ok" THEN o.cost + @ ELSE @],
                         next, OutOfFrame)
    /\ run' = [run EXCEPT !.frames = @ + 1]
    /\ UNCHANGED <<cfg, own, car, stage>>

\* The loop is left: by the user, at any frame; by the training's early end and by
\* the time limit, before a continuation; or when a continuation is over.
LeaveLoop ==
    /\ pc = "frame" /\ run.frames > 0
    /\ \E why \in {"user"} \cup (IF run.following THEN {"terminal"} ELSE {"early", "time"}) :
          /\ why = "time" => cfg.scene # "continuation"
          /\ run' = [run EXCEPT !.exited = (why = "user"), !.early = (why = "early")]
          /\ pc' = IF run.following THEN "endFollow" ELSE "leave"
    /\ UNCHANGED <<cfg, err, own, car, log, stage, faults>>

\* create_continuation: the drive's measurements are frozen and its final speed read.
Boundary ==
    /\ pc = "frame" /\ run.frames > 0
    /\ cfg.scene = "continuation" /\ ~run.boundary
    /\ \E o \in CallWithSpeed : Body(o, "endDrive", "leave")
    /\ run' = [run EXCEPT !.boundary = TRUE]
    /\ UNCHANGED <<cfg, own, car, stage>>

\* Events first, then the stage's end: end_stage asks nothing about the stage.
EndRow(reason) ==
    Then(Flush(log), LAMBDA l : Write(Tick(l), l.now + 1, Row("end", stage.label, reason)))

Ended(o) == stage' = IF o.end = "ok" THEN [stage EXCEPT !.active = FALSE, !.ended = TRUE]
                                     ELSE stage

EndDrive ==
    /\ pc = "endDrive"
    /\ \E o \in EndRow("NORMAL_COMPLETION") : Body(o, "follow", "leave") /\ Ended(o)
    /\ UNCHANGED <<cfg, own, car, run>>

\* The factory makes the continuation.
MakeFollow ==
    /\ pc = "follow"
    /\ \E o \in Call :
          /\ Body(o, "begin", "leave")
          /\ run' = [run EXCEPT !.following = (o.end = "ok")]
    /\ UNCHANGED <<cfg, own, car, stage>>

\* continuation.start: begin_segment flushes what belongs to the drive, and opens the
\* hazard's stage under its own label; then the hazard's actors are acquired.
BeginFollow ==
    /\ pc = "begin"
    /\ \E flushed \in Flush(log) :
          \E o \in IF flushed.end # "ok" THEN {flushed}
                   ELSE Write(Tick(flushed.log), flushed.log.now + 1, Row("start", "hazard", "")) :
             /\ Body(o, "frame", "abandonFollow")
             /\ stage' = IF flushed.end # "ok" THEN stage
                         ELSE [active |-> o.end = "ok", ended |-> FALSE, label |-> "hazard"]
    /\ UNCHANGED <<cfg, own, car, run>>

\* continuation.finalize: a flush, then the stage's end with what is known of errors;
\* neither failure keeps the other from being tried.
FinishFollow(next) ==
    \E flushed \in Flush(log) :
       LET e == IF err.now # Nobody THEN err.now ELSE IF flushed.end = "ok" THEN Nobody ELSE flushed.end
           l == flushed.log
       IN  \E o \in Write(Tick(l), l.now + 1,
                          Row("end", stage.label, IF e = Nobody THEN "NORMAL_COMPLETION" ELSE "FAILURE")) :
              /\ Cleanup([o EXCEPT !.cost = @ + flushed.cost,
                                   !.end = IF flushed.end # "ok" THEN flushed.end ELSE @], next)
              /\ Ended(o)

EndFollow == pc = "endFollow" /\ FinishFollow("leave") /\ UNCHANGED <<cfg, own, car, run>>
AbandonFollow == pc = "abandonFollow" /\ FinishFollow("leave") /\ UNCHANGED <<cfg, own, car, run>>

\* HazardCollisionStop: each step is attempted; an error is kept in the notice's
\* record and only Ctrl+C ends the wait.
Attempt(o, next) ==
    IF o.end = "stop" THEN Body(o, next, "leave")
    ELSE log' = o.log /\ Pay(o.cost) /\ pc' = next /\ UNCHANGED err

\* wait: the drive's interval is closed before the vehicle is released and held.
StopAtContact ==
    /\ pc = "collision"
    /\ \E o \in Flush(log) : Attempt(o, "closeContact")
    /\ run' = [run EXCEPT !.stopped = TRUE]
    /\ UNCHANGED <<cfg, own, car, stage>>

CloseContact ==
    /\ pc = "closeContact"
    /\ \E o \in Write(Tick(log), log.now + 1, Row("end", stage.label, "HAZARD_COLLISION")) :
          Attempt(o, "releaseContact") /\ Ended(o)
    /\ UNCHANGED <<cfg, own, car, run>>

\* The vehicle is taken from the Traffic Manager, then braked whether or not that
\* worked, and the operator's confirmation awaited.
ReleaseContact ==
    /\ pc = "releaseContact"
    /\ \E o \in Call :
          /\ Attempt(o, "holdContact")
          /\ car' = [mode |-> IF o.end = "ok" THEN "MANUAL" ELSE car.mode, last |-> "brake"]
    /\ UNCHANGED <<cfg, own, stage, run>>

HoldContact ==
    /\ pc = "holdContact"
    /\ \E o \in Call : Attempt(o, "leave")
    /\ car' = [car EXCEPT !.last = "brake"]
    /\ UNCHANGED <<cfg, own, stage, run>>

-----------------------------------------------------------------------------
(* The finally blocks of viewer.run and of _run                            *)

\* viewer.run: the wheel is closed and the window with it, the audio summary recorded.
\* An error here replaces the one that is in flight.
LeaveView ==
    /\ pc = "leave"
    /\ \E o \in {[q EXCEPT !.log = Queued(@, own.wheel = "open")] : q \in Call} :
          /\ Body(o, "measure", "measure")
          /\ own' = IF own.wheel # "open" THEN own
                    ELSE [own EXCEPT !.wheel = IF o.end = "ok" THEN "closed" ELSE "failed"]
    /\ UNCHANGED <<cfg, car, stage, run>>

\* The last snapshot of the drive, unless the boundary or the contact took it; what
\* fails is remembered, and raised if nothing else is.
Measure ==
    /\ pc = "measure"
    /\ \E o \in IF run.boundary \/ run.stopped THEN {Result(log, "ok", 0)} ELSE Call :
          /\ log' = o.log /\ Pay(o.cost)
          /\ err' = IF o.end = "ok" THEN err
                    ELSE IF o.end = "error" THEN [err EXCEPT !.late = "error"] ELSE Raised(o.end)
          /\ pc' = IF err'.now = Nobody THEN "final" ELSE "finalizeScene"
    /\ UNCHANGED <<cfg, own, car, stage, run>>

\* The final speed, then the operator's hook, which sees a flushed log and a drive
\* that is still live; not after the user's exit or without a snapshot.
FinalSpeed ==
    /\ pc = "final"
    /\ \E o \in IF run.boundary \/ run.stopped THEN {Result(log, "ok", 0)} ELSE CallWithSpeed :
          Body(o, IF cfg.hook /\ ~run.exited /\ err.late = Nobody THEN "hook" ELSE "finalizeScene",
               "finalizeScene")
    /\ UNCHANGED <<cfg, own, car, stage, run>>

BeforeShutdown ==
    /\ pc = "hook"
    /\ \E o \in Then(Flush(log), LAMBDA l : {Result(l, q.end, q.cost) : q \in Call}) :
          Body(o, "finalizeScene", "finalizeScene")
    /\ UNCHANGED <<cfg, own, car, stage, run>>

\* active_scene.finalize: its end is emitted, then the queue flushed.
FinalizeScene ==
    /\ pc = "finalizeScene"
    /\ \E o \in IF run.scene
                THEN Then(Flush(log), LAMBDA l : Then(Write(Tick(l), l.now + 1, << >>), Flush))
                ELSE {Result(log, "ok", 0)} :
          Cleanup(o, "shutdown")
    /\ run' = [run EXCEPT !.engaged = (car.mode = "NOA_ACTIVE")]
    /\ UNCHANGED <<cfg, own, car, stage>>

\* slip: the brake follows the request, outside a finally block
DeactivateInOrder(request, brake) ==
    car' = IF request.end = "ok" THEN [mode |-> "MANUAL", last |-> "brake"] ELSE car

\* _deactivate_live: manual control is requested, and the brake is sent in a finally
\* block, whatever became of the request; the first of the two errors is raised.
Deactivate(request, brake) ==
    car' = [mode |-> IF request.end = "ok" THEN "MANUAL" ELSE car.mode, last |-> "brake"]

Both(request, brake, l) ==
    Result(l, IF request.end # "ok" THEN request.end ELSE brake.end, request.cost + brake.cost)

\* _shutdown_live remembers its stamp only if all of it worked.
Shutdown ==
    /\ pc = "shutdown"
    /\ \E request \in Call, brake \in Call :
          LET l == IF Logged THEN Tick(log) ELSE log
              o == Both(request, brake, l)
          IN  /\ Deactivate(request, brake)
              /\ Cleanup(o, "observation")
              /\ run' = [run EXCEPT !.shut = (o.end = "ok"),
                                    !.shutAt = IF o.end = "ok" THEN l.now ELSE @]
    /\ UNCHANGED <<cfg, own, stage>>

\* A lane change under way is given its end, at the shutdown's stamp.
FinishObservation ==
    /\ pc = "observation"
    /\ \E o \in Call, moving \in IF Logged /\ (cfg.tm \/ cfg.exit) THEN BOOLEAN ELSE {FALSE} :
          Cleanup([o EXCEPT !.log =
                     IF ~moving THEN @
                     ELSE IF run.shut THEN Stamped(@, run.shutAt)
                     ELSE Enqueue(@)], "flush1")
    /\ UNCHANGED <<cfg, own, car, stage, run>>

FlushDrive ==
    /\ pc = "flush1"
    /\ \E o \in Flush(log) : Cleanup(o, IF Logged /\ run.engaged THEN "record1" ELSE "exit")
    /\ UNCHANGED <<cfg, own, car, stage, run>>

\* record_shutdown: two rows at the shutdown's stamp.
RecordShutdown ==
    /\ pc = "record1"
    /\ LET l  == IF run.shut THEN log ELSE Tick(log)
           at == IF run.shut THEN run.shutAt ELSE l.now
       IN  \E o \in Then(Write(l, at, << >>), LAMBDA k : Write(k, at, << >>)) : Cleanup(o, "exit")
    /\ UNCHANGED <<cfg, own, car, stage, run>>

\* ExitAssistanceCoordinator.finish emits the summary of the exit.
FinishExit ==
    /\ pc = "exit"
    /\ \E o \in {[q EXCEPT !.log = Queued(@, cfg.exit)] : q \in Call} :
          Cleanup(o, "stopP6")
    /\ UNCHANGED <<cfg, own, car, stage, run>>

StopP6 ==
    /\ pc = "stopP6"
    /\ IF own.p6 # "started" THEN Skip("stopP6", "summary")
       ELSE /\ \E o \in Call :
                  /\ Cleanup(o, "summary")
                  /\ own' = [own EXCEPT !.p6 = IF o.end = "ok" THEN "closed" ELSE "made"]
            /\ UNCHANGED <<cfg, car, stage, run>>

\* The performance summary is enqueued.  What fails here is a note of an error that is
\* known, the drive's own otherwise: raised at once, past the rest of this block.
\* Ctrl+C is raised in any case.
Summarize ==
    /\ pc = "summary"
    /\ IF ~run.viewing THEN Skip("summary", "flush2")
       ELSE /\ \E o \in {[q EXCEPT !.log = Queued(@, TRUE)] : q \in Call} :
                  IF o.end = "ok" \/ (o.end = "error" /\ {err.now, err.late} # {Nobody})
                  THEN Cleanup([o EXCEPT !.end = "ok"], "flush2")
                  ELSE Body(o, "flush2", OutOfRun)
            /\ UNCHANGED <<cfg, own, car, stage, run>>

FlushSummary ==
    /\ pc = "flush2"
    /\ \E o \in Flush(log) : Cleanup(o, IF err.now = "speed" THEN "violation" ELSE "rethrow")
    /\ UNCHANGED <<cfg, own, car, stage, run>>

RecordViolation == pc = "violation" /\ ViolationRecord("rethrow")

\* The error that waited is raised if there is no other.
Rethrow ==
    /\ pc = "rethrow"
    /\ err' = IF err.now = Nobody /\ err.late # Nobody THEN Raised(err.late) ELSE err
    /\ pc' = IF err'.now = Nobody THEN "report" ELSE OutOfRun
    /\ UNCHANGED <<cfg, own, car, log, stage, run, faults>>

Report ==
    /\ pc = "report"
    /\ \E o \in Call :
          /\ Body(o, OutOfRun, OutOfRun)
          /\ run' = [run EXCEPT !.result = (o.end = "ok")]
    /\ UNCHANGED <<cfg, own, car, stage>>

-----------------------------------------------------------------------------
(* run_with_persistence, ResearchNoASession.close, session()               *)

\* What the drive's end row says, in this order.
Reason == IF err.now # Nobody THEN "FAILURE"
          ELSE IF run.exited THEN "USER_EXIT"
          ELSE IF run.early THEN "TRAINING_COMPLETED_EARLY"
          ELSE "NORMAL_COMPLETION"

\* A stage that is open is ended, one that never opened fails to start, and one that
\* a continuation or a contact ended is left alone.
EndStage ==
    /\ pc = "endStage"
    /\ IF stage.ended /\ ~stage.active THEN Skip("endStage", "deactivate")
       ELSE /\ \E o \in Write(Tick(log), log.now + 1,
                              IF stage.active THEN Row("end", stage.label, Reason)
                                              ELSE Row("start_failure", "drive", Reason)) :
                  /\ Cleanup(o, "deactivate")
                  /\ IF stage.active THEN Ended(o) ELSE UNCHANGED stage
            /\ UNCHANGED <<cfg, own, car, run>>

\* A dry run shows the view and sends nothing.
DryRun ==
    /\ pc = "dry"
    /\ \E o \in Call : Body(o, "deactivate", "deactivate")
    /\ UNCHANGED <<cfg, own, car, stage, run>>

\* close: control is taken back once more unless the shutdown went well.  A vehicle
\* under manual control of the custom backend is only asked for manual control.
CloseControl ==
    /\ pc = "deactivate"
    /\ IF run.shut THEN Skip("deactivate", "closeProbe")
       ELSE IF ~cfg.dry /\ (car.mode = "NOA_ACTIVE" \/ cfg.tm)
       THEN /\ \E request \in Call, brake \in Call :
                  /\ Deactivate(request, brake)
                  /\ Cleanup(Both(request, brake, IF Logged THEN Tick(log) ELSE log), "closeProbe")
            /\ UNCHANGED <<cfg, own, stage, run>>
       ELSE /\ \E o \in Call : Cleanup(o, "closeProbe")
            /\ UNCHANGED <<cfg, own, car, stage, run>>

CloseProbe == Release("closeProbe", "closeP6", "probe", {"open"})

\* P6Runtime.close stops it first if it runs; after a failure it may be called again.
CloseP6Runtime(at, next) ==
    /\ pc = at
    /\ IF own.p6 \in {Nobody, "closed"} THEN Skip(at, next)
       ELSE /\ \E o \in Call :
                  /\ Cleanup(o, next)
                  /\ own' = [own EXCEPT !.p6 = IF o.end = "ok" THEN "closed" ELSE "failed"]
            /\ UNCHANGED <<cfg, car, stage, run>>

CloseP6 == CloseP6Runtime("closeP6", "closeViewer")

\* A wheel that was prepared for a view that never ran is closed with the viewer,
\* and the cameras are destroyed although it fails.
CloseViewer ==
    /\ pc = "closeViewer"
    /\ \E wheel \in IF own.wheel = "open" THEN Call ELSE {Result(log, "ok", 0)}, feeds \in Call :
          LET o == Both(wheel, feeds, Queued(log, own.wheel = "open"))
          IN  /\ Cleanup(o, "closeHero")
              /\ own' = [own EXCEPT !.viewer = IF o.end = "ok" THEN "closed" ELSE "failed",
                                    !.wheel = IF @ # "open" THEN @
                                              ELSE IF wheel.end = "ok" THEN "closed" ELSE "failed"]
    /\ UNCHANGED <<cfg, car, stage, run>>

CloseHero == Release("closeHero", "lastP6", "hero", {"open"})

LastP6 == CloseP6Runtime("lastP6", "closeLog")

CloseLog == Release("closeLog", "done", "csv", {"open"})

Finished == pc = "done" /\ UNCHANGED vars

Next ==
    \/ OpenLog \/ MakeP6 \/ Preflight \/ SpawnHero \/ RecordSetting \/ OpenProbe
    \/ BuildBundle \/ CreateViewer \/ AttachViewer \/ WireSession
    \/ AbandonProbe \/ AbandonViewer \/ AbandonHero
    \/ StartAttempt \/ RecordAuthority \/ ObserveInitialSpeed \/ RecordNoControl
    \/ ReadGear \/ Halt \/ Engage \/ Confirm
    \/ PrepareInput \/ Initialize \/ StartP6 \/ StartStage \/ BindScene
    \/ Collect \/ Control \/ After \/ LeaveLoop
    \/ Boundary \/ EndDrive \/ MakeFollow \/ BeginFollow \/ EndFollow \/ AbandonFollow
    \/ StopAtContact \/ CloseContact \/ ReleaseContact \/ HoldContact
    \/ LeaveView \/ Measure \/ FinalSpeed \/ BeforeShutdown
    \/ FinalizeScene \/ Shutdown \/ FinishObservation \/ FlushDrive \/ RecordShutdown
    \/ FinishExit \/ StopP6 \/ Summarize \/ FlushSummary \/ RecordViolation
    \/ Rethrow \/ Report \/ EndStage \/ DryRun
    \/ CloseControl \/ CloseProbe \/ CloseP6 \/ CloseViewer \/ CloseHero
    \/ LastP6 \/ CloseLog \/ Finished

\* One thread; every wait in it has a deadline.
Spec == Init /\ [][Next]_vars /\ WF_vars(Next)

-----------------------------------------------------------------------------
(* Properties                                                              *)

Labels == {"drive", "hazard"}
RowsOf(what, label) == {i \in 1..Len(log.rows) : log.rows[i].what = what /\ log.rows[i].label = label}

\* Whatever fails, and however often, when session() has returned nothing that was
\* opened is still held: every resource was at least tried to be given back.
AllReleased == pc = "done" => \A x \in DOMAIN own : own[x] \in {Nobody, "closed", "failed"}

\* What the vehicle is, from what the drive holds and from its last kind of command.
Condition == IF own.hero = Nobody THEN "absent"
             ELSE IF own.hero \in {"closed", "failed"} THEN "gone"
             ELSE IF car.last = "drive" THEN "driven"
             ELSE IF car.last = "brake" THEN "braked"
             ELSE "held"

\* The vehicle is driven only while the drive owns it, told to brake after the last
\* driving command and given up at the end, through every chain of failures.
Vehicle == INSTANCE OwnedVehicle WITH vehicle <- Condition
VehicleSpec == Vehicle!Spec

\* The research log tells the stages of the drive: none starts twice or ends twice,
\* and, if no write of a row failed, what ends has started and every attempt came to
\* an end or to a failure to start.
StageRowsTell ==
    /\ ~log.failed => \A label \in Labels :
          /\ Cardinality(RowsOf("start", label)) <= 1
          /\ Cardinality(RowsOf("end", label)) <= Cardinality(RowsOf("start", label))
    /\ pc = "done" /\ ~log.failed /\ RowsOf("attempt", "drive") # {} =>
          /\ Cardinality(RowsOf("end", "drive") \cup RowsOf("start_failure", "drive")) = 1
          /\ Cardinality(RowsOf("end", "hazard")) = Cardinality(RowsOf("start", "hazard"))

\* Input receipts, activations, shutdown stamps and rows written at once all reach the
\* one session clock in an order it accepts: as long as no write fails, none is refused.
NothingIsRefused == ~log.failed => ~log.refused

\* An end row that run_with_persistence writes claims completion, an exit or an early
\* end only when the drive went to its report without an error anywhere.
HonestEnd ==
    \A i \in 1..Len(log.rows) :
       LET r == log.rows[i]
       IN  r.what = "end" /\ r.reason \notin {"FAILURE", "HAZARD_COLLISION"} => r.clean

\* The drive is accounted for: what it opened is given back, and its rows tell its
\* stages and its end as they were, in an order the clock accepts.
DriveIsAccounted == AllReleased /\ StageRowsTell /\ NothingIsRefused /\ HonestEnd
====
