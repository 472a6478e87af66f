------------------------------- MODULE NoAControl -------------------------------
(***************************************************************************)
(* Who drives the car during one drive: AutomationRuntimeController and    *)
(* AutomationInteractionController over TrafficManagerNoAControlBackend,   *)
(* the lane change executor and its observer, the iteration of the view    *)
(* loop that calls them, the operator's recovery and the session's         *)
(* shutdown.                                                               *)
(*                                                                         *)
(* `pc' is a point of the one thread.  Steps between two points are the    *)
(* code's statements that call the simulator; each may raise, and every    *)
(* answer may be late: a call that timed out has been done.  The lamp's    *)
(* readback follows its commands.  Left to ExitAssistance: the exit route. *)
(*                                                                         *)
(* Geometry is three facts: the lane gate passes or not, the adjacent lane *)
(* can be requested or not, and the place of the last snapshot against the *)
(* lanes of the request.                                                   *)
(***************************************************************************)
EXTENDS Naturals

CONSTANTS MaxFaults,      \* calls that raise
          MaxRequests,    \* lane change requests that are accepted
          MaxGeneration   \* from this one on the driver rests and a retry succeeds

ASSUME ControlAssumption == {MaxFaults, MaxRequests, MaxGeneration} \subseteq Nat

NoA == "NOA_ACTIVE"
Manual == "MANUAL"

\* What the driver does with brake, wheel and button.  The brake decides for itself:
\* with it, turning the wheel makes no difference.
Hands == {{}, {"brake"}, {"wheel"}, {"button"}, {"button", "brake"}, {"button", "wheel"}}
Sides == {"left", "right"}
\* Aligned in the source lane; inside the target lane's corridor but not aligned;
\* aligned in the target lane; no usable geometry.
Places == {"lane", "straddle", "target", "lost"}

NoFlight == [id |-> 0, gen |-> 0]
NoTracker == [id |-> 0, gen |-> 0, dir |-> "none", submitted |-> FALSE,
              consumed |-> FALSE, wait |-> "no", blind |-> "no", seen |-> "none"]
NoInput == [hands |-> {}, signal |-> "none", key |-> "none", busy |-> FALSE]

\* How a call to the simulator ends: done, refused, or done and raised.
Answers == {"done", "refused", "timeout"}

VARIABLES
    wrapped,   \* the drive has an exit observer around the lane change observer
    c,         \* runtime state, backend, executor and the Traffic Manager
    t,         \* the observer's LaneChangeTracker
    drv,       \* the collected DriverInput
    lamp,      \* the indicator that was asked for and the one read back
    sample,    \* source.last_snapshot_sample, and is its frame new to the tracker
    pc,
    requests, faults,
    down,      \* _live_shutdown_completed, and the error the drive ends with
    h          \* history of the latest request

vars == <<wrapped, c, t, drv, lamp, sample, pc, requests, faults, down, h>>

Init ==
    /\ wrapped \in BOOLEAN
    /\ c = [mode |-> Manual, available |-> TRUE, gen |-> 0, ready |-> FALSE,
            active |-> FALSE, flight |-> NoFlight, registered |-> FALSE]
    /\ t = NoTracker
    /\ drv = NoInput
    /\ lamp = [asked |-> "off", shown |-> "off"]
    /\ sample = [at |-> "lane", fresh |-> FALSE]
    /\ pc = "start"
    /\ requests = 0 /\ faults = 0
    /\ down = [done |-> FALSE, error |-> FALSE]
    /\ h = [sent |-> 0, kept |-> FALSE, fate |-> "none"]

Busy == t.id # 0
InFlight(k) == k.flight.id # 0

\* Without a request a snapshot says only whether the car is aligned with a lane.
Seen == IF Busy THEN Places ELSE {"lane", "lost"}

\* The Traffic Manager's answers, as far as faults are left.
Able(answer) == answer = "done" \/ faults < MaxFaults
Spend(failed) == faults' = faults + IF failed THEN 1 ELSE 0

\* The backend and the executor change; if that released the vehicle, the request's
\* automation has ended (history).
Control(k) == c' = k /\ h' = [h EXCEPT !.kept = @ /\ k.registered]

\* The tracker is dropped; what became of its request (history).
Drop(fate) == t' = NoTracker /\ h' = [h EXCEPT !.fate = fate, !.sent = 0]

-----------------------------------------------------------------------------
(* Control of the vehicle                                                  *)

\* slip: the maneuver stays in flight
EnterManualKeep(k, answer) ==
    LET begun == [k EXCEPT !.gen = @ + 1, !.ready = FALSE,
                           !.registered = @ /\ answer = "refused"]
    IN  IF answer = "done" THEN [begun EXCEPT !.active = FALSE] ELSE begun

\* backend.enter_manual_control: the generation is over before set_autopilot(False)
\* is called, the maneuver in flight only when it returned.
EnterManual(k, answer) ==
    LET begun == [k EXCEPT !.gen = @ + 1, !.ready = FALSE,
                           !.registered = @ /\ answer = "refused"]
    IN  IF answer = "done"
        THEN [begun EXCEPT !.flight = NoFlight, !.active = FALSE] ELSE begun

\* backend.enter_noa_control, with its rollback.
EnterNoA(k, answer, rollback) ==
    IF answer = "done"
    THEN [k EXCEPT !.registered = TRUE, !.active = TRUE, !.gen = @ + 1,
                   !.ready = TRUE, !.mode = NoA]
    ELSE [k EXCEPT !.registered = (@ \/ answer = "timeout") /\ rollback = "refused"]

\* runtime.request_control_mode(MANUAL): committed after the backend returned.
LeaveNoA(k, answer) ==
    IF k.mode = Manual THEN k
    ELSE [EnterManual(k, answer) EXCEPT !.mode = IF answer = "done" THEN Manual ELSE @]

\* session._deactivate_live: a drive that is manual already still has to release
\* the vehicle at the Traffic Manager.
RequestManual(k, answer) ==
    IF k.mode = Manual THEN EnterManual(k, answer) ELSE LeaveNoA(k, answer)

\* AutomationActivationGate.failure: the brake, a lane change in progress, geometry.
\* Without an exit observer nobody fills in the second.
GatePasses(good) == "brake" \notin drv.hands /\ ~drv.busy /\ good

-----------------------------------------------------------------------------
(* The lane change request                                                 *)

\* slip: a request of an earlier activation is let through
AdmittedAny == ~t.consumed /\ c.ready /\ ~InFlight(c)

\* TrafficManagerLaneChangeExecutor.submit, before it asks who owns the port.
Admitted == ~t.consumed /\ t.gen = c.gen /\ c.ready /\ ~InFlight(c)

\* tracker.mark_submitted: where the boundary is approached from.
Marked == [t EXCEPT !.submitted = TRUE, !.consumed = TRUE, !.wait = "no",
                    !.blind = IF sample.at = "lost" THEN "latched" ELSE @,
                    !.seen = IF sample.at = "lane" THEN "outside" ELSE @]

\* The force command.  Whether it returned or raised, it may have been taken, so
\* the request is in flight; a failure after it leaves the tracker as it was.
ForceChange(next) ==
    /\ c' = [c EXCEPT !.flight = [id |-> t.id, gen |-> t.gen]]
    /\ h' = [h EXCEPT !.sent = IF @ < 2 THEN @ + 1 ELSE @]
    /\ \/ pc' = next /\ t' = Marked /\ sample' = [sample EXCEPT !.fresh = FALSE]
          /\ UNCHANGED faults
       \/ /\ faults < MaxFaults /\ faults' = faults + 1
          /\ pc' = "fault" /\ t' = [t EXCEPT !.consumed = TRUE]
          /\ UNCHANGED sample

\* slip: each look at the lamp starts the second anew
WaitAgain(next) ==
    /\ pc' = next
    /\ t' = [t EXCEPT !.wait = "yes"]
    /\ UNCHANGED <<c, h, sample, faults>>

\* The lamp is not read back as on: one second is allowed from the first look.
WaitForSignal(next) ==
    /\ pc' = next
    /\ \/ t.wait = "over" /\ Drop("given up")
       \/ t.wait # "over" /\ t' = [t EXCEPT !.wait = "yes"] /\ UNCHANGED h
    /\ UNCHANGED <<c, sample, faults>>

\* observer._submit
Submit(next) ==
    \/ WaitForSignal(next)   \* also when the readback raises
    \/ /\ lamp.shown = t.dir
       /\ \/ /\ ~Admitted /\ pc' = next /\ Drop("given up")
             /\ UNCHANGED <<c, sample, faults>>
          \/ Admitted /\ ForceChange(next)
          \/ \* verify_owned raises: the request id is used up
             /\ Admitted /\ faults < MaxFaults /\ faults' = faults + 1
             /\ pc' = "fault" /\ t' = [t EXCEPT !.consumed = TRUE]
             /\ UNCHANGED <<c, h, sample>>

\* tracker._observe_sample: an interval from outside the target's corridor to the
\* inside is kept from the first look inside.
Crossed(seen, at) ==
    IF seen \in {"crossed", "inside"} THEN seen
    ELSE IF at = "lane" THEN "outside"
    ELSE IF seen = "outside" THEN "crossed" ELSE "inside"

\* clear_completed_signal: only the selected lamp, and its errors are recorded.
ClearSignal ==
    \/ UNCHANGED lamp
    \/ /\ c.mode = NoA
       /\ lamp' = [lamp EXCEPT !.asked = IF lamp.shown = t.dir THEN "off" ELSE lamp.shown]

\* observer._complete: of this activation, or not at all.
Complete ==
    \/ /\ InFlight(c) /\ c.flight.gen = t.gen /\ t.gen = c.gen
       /\ c' = [c EXCEPT !.flight = NoFlight]
       /\ Drop("completed") /\ ClearSignal
    \/ /\ ~(InFlight(c) /\ c.flight.gen = t.gen /\ t.gen = c.gen)
       /\ Drop("given up") /\ UNCHANGED <<c, lamp>>

\* tracker.observe on a new frame.
Track ==
    LET seen == Crossed(t.seen, sample.at) IN
    IF sample.at = "lost"
    THEN t' = [t EXCEPT !.blind = "gap"] /\ UNCHANGED <<c, h, lamp>>
    ELSE IF seen = "crossed" /\ sample.at = "target" THEN Complete
    ELSE t' = [t EXCEPT !.blind = "no", !.seen = seen] /\ UNCHANGED <<c, h, lamp>>

\* observer._finish: a maneuver the Traffic Manager may still have keeps its lock.
Finish ==
    IF InFlight(c) THEN t' = [t EXCEPT !.blind = "latched"] /\ UNCHANGED h
    ELSE Drop("given up")

-----------------------------------------------------------------------------
(* The iteration                                                           *)

\* interaction.initialize: module 2 may begin under NoA; a gate or a Traffic Manager
\* that refuses ends the drive with an error.
Start ==
    /\ pc = "start"
    /\ \/ /\ \E good \in BOOLEAN : Control([c EXCEPT !.available = good])
          /\ pc' = "collect" /\ UNCHANGED <<down, faults>>
       \/ /\ Control([c EXCEPT !.available = FALSE])
          /\ pc' = "closing" /\ down' = [down EXCEPT !.error = TRUE] /\ UNCHANGED faults
       \/ \E answer, rollback \in Answers :
             /\ Able(answer) /\ Spend(answer # "done")
             /\ Control(EnterNoA(c, answer, rollback))
             /\ pc' = IF answer = "done" THEN "collect" ELSE "closing"
             /\ down' = [down EXCEPT !.error = answer # "done"]
    /\ UNCHANGED <<wrapped, t, drv, lamp, sample, requests>>

\* _toggle_turn_signal, on a readback of its own.
Toggle(key) ==
    IF key = "none" THEN UNCHANGED lamp
    ELSE \E read \in {lamp.shown, lamp.asked} :
            lamp' = [asked |-> IF read = key THEN "off" ELSE key, shown |-> read]

\* _collect_driver_input: a key that turns its lamp on is a request, judged on one
\* readback; under NoA the lamp is set at once, before the request is dispatched.
Collect ==
    /\ pc = "collect"
    /\ \E hands \in Hands, key \in Sides \cup {"none"} :
          /\ c.gen >= MaxGeneration => hands = {} /\ key = "none"
          /\ ~Busy /\ requests = MaxRequests => key = "none"
          /\ drv' = [hands  |-> hands,
                     signal |-> IF key = lamp.shown THEN "none" ELSE key,
                     key    |-> IF c.mode = NoA THEN "none" ELSE key,
                     busy   |-> wrapped /\ Busy]
          /\ IF c.mode = NoA THEN Toggle(key) ELSE UNCHANGED lamp
    /\ pc' = "update"
    /\ UNCHANGED <<wrapped, c, t, sample, requests, faults, down, h>>

\* interaction._refresh_availability
Gated(good) == [c EXCEPT !.available = GatePasses(good)]

\* The driver asks for NoA in MANUAL: the gate, the activation, and the wheel that
\* takes it back at once.
Activate ==
    \E good \in BOOLEAN :
       LET k == Gated(good) IN
       \/ ~GatePasses(good) /\ Control(k) /\ pc' = "request" /\ UNCHANGED faults
       \/ /\ GatePasses(good)
          /\ \E answer, rollback \in Answers :
                LET n == EnterNoA(k, answer, rollback) IN
                /\ Able(answer)
                /\ IF answer # "done" \/ "wheel" \notin drv.hands
                   THEN /\ Control(n) /\ Spend(answer # "done")
                        /\ pc' = IF answer = "done" THEN "request" ELSE "fault"
                   ELSE \E left \in Answers :
                        /\ Able(left) /\ Spend(left # "done")
                        /\ Control(LeaveNoA(n, left))
                        /\ pc' = IF left = "done" THEN "request" ELSE "fault"

\* The brake, the wheel or the button takes the vehicle back.
TakeOver ==
    \E answer \in Answers :
       /\ Able(answer) /\ Spend(answer # "done")
       /\ Control(LeaveNoA(c, answer))
       /\ pc' = IF answer = "done" THEN "request" ELSE "fault"

\* AutomationInteractionController.update
Update ==
    /\ pc = "update"
    /\ \/ c.mode = NoA /\ drv.hands # {} /\ TakeOver
       \/ c.mode = Manual /\ "button" \in drv.hands /\ Activate
       \/ /\ drv.hands = {} \/ (c.mode = Manual /\ "button" \notin drv.hands)
          /\ pc' = "request" /\ UNCHANGED <<c, h, faults>>
    /\ UNCHANGED <<wrapped, t, drv, lamp, sample, requests, down>>

\* A signal is accepted under NoA, outside the cycle of an activation, from a lane,
\* when the adjacent one exists (which the geometry decides).
Requestable == /\ c.mode = NoA /\ drv.signal # "none" /\ "button" \notin drv.hands
               /\ ~Busy /\ sample.at \in {"lane", "target"}
               /\ requests < MaxRequests

\* The rest of ResearchLaneChangeInteractionObserver.update: MANUAL ends a request,
\* then a signal makes one.
Request ==
    /\ pc = "request"
    /\ \/ /\ Busy /\ c.mode = Manual /\ Finish
          /\ pc' = "drive" /\ UNCHANGED <<sample, requests>>
       \/ /\ Requestable
          /\ requests' = requests + 1
          /\ t' = [NoTracker EXCEPT !.id = requests', !.gen = c.gen, !.dir = drv.signal]
          /\ h' = [sent |-> 0, kept |-> TRUE, fate |-> "none"]
          /\ sample' = [sample EXCEPT !.at = "lane"]
          /\ pc' = "submit"
       \/ /\ ~(Busy /\ c.mode = Manual)
          /\ pc' = "drive" /\ UNCHANGED <<t, h, sample, requests>>
    \* what the rest of the iteration still reads
    /\ drv' = [drv EXCEPT !.hands = @ \cap {"brake"}, !.signal = "none"]
    /\ UNCHANGED <<wrapped, c, lamp, faults, down>>

SubmitNow ==
    /\ pc = "submit" /\ Submit("drive")
    /\ UNCHANGED <<wrapped, drv, lamp, requests, down>>

\* The driver's control is sent unless the scheduler says that NoA drives; then the
\* lamp's keys of a manual iteration.
Drive ==
    /\ pc = "drive" /\ pc' = "after"
    /\ Toggle(drv.key)
    /\ drv' = [drv EXCEPT !.key = "none"]
    /\ UNCHANGED <<wrapped, c, t, sample, requests, faults, down, h>>

\* after_control_applied of the controller, and the capture.
AfterControl ==
    /\ pc = "after" /\ pc' = "observe"
    /\ IF c.mode = Manual
       THEN \E good \in BOOLEAN : Control(Gated(good))
       ELSE UNCHANGED <<c, h>>
    /\ \/ UNCHANGED sample
       \/ \E at \in Seen : sample' = [at |-> at, fresh |-> TRUE]
    /\ drv' = NoInput
    /\ UNCHANGED <<wrapped, t, lamp, requests, faults, down>>

\* The rest of after_control_applied: a request that waits for its lamp is tried
\* again, one that was sent is followed.
Observe ==
    /\ pc = "observe"
    /\ \/ /\ Busy /\ ~t.submitted /\ c.mode = NoA /\ Submit("collect")
          /\ UNCHANGED lamp
       \/ /\ t.submitted /\ t.blind # "latched" /\ sample.fresh
          /\ Track /\ pc' = "collect"
          /\ sample' = [sample EXCEPT !.fresh = FALSE]
          /\ UNCHANGED faults
       \/ /\ \/ ~Busy \/ (~t.submitted /\ c.mode = Manual)
             \/ t.submitted /\ (t.blind = "latched" \/ ~sample.fresh)
          /\ pc' = "collect" /\ sample' = [sample EXCEPT !.fresh = FALSE]
          /\ UNCHANGED <<c, t, h, lamp, faults>>
    /\ UNCHANGED <<wrapped, drv, requests, down>>

-----------------------------------------------------------------------------
(* What interrupts it                                                      *)

Running == {"collect", "update", "request", "submit", "drive", "after", "observe"}

\* Anything else in the iteration raises.
Fault ==
    /\ pc \in Running /\ faults < MaxFaults
    /\ faults' = faults + 1
    /\ pc' = "fault"
    /\ UNCHANGED <<wrapped, c, t, drv, lamp, sample, requests, down, h>>

\* OperatorRecovery.handle asks for MANUAL once, whatever becomes of it.
Handle ==
    /\ pc = "fault" /\ pc' = "paused"
    /\ \E answer \in Answers : Control(RequestManual(c, answer))
    /\ drv' = NoInput
    /\ UNCHANGED <<wrapped, t, lamp, sample, requests, faults, down>>

\* R: MANUAL is requested again and must be granted, the vehicle observed and the
\* events written, or the notice stays.
Resume ==
    /\ pc = "paused"
    /\ \/ /\ Control(RequestManual(c, "done")) /\ pc' = "collect"
          /\ \E at \in Seen : sample' = [at |-> at, fresh |-> TRUE]
       \/ /\ c.gen < MaxGeneration
          /\ \E answer \in Answers : Control(RequestManual(c, answer))
          /\ pc' = "paused" /\ UNCHANGED sample
    /\ UNCHANGED <<wrapped, t, drv, lamp, requests, faults, down>>

\* The drive's time is over, the driver leaves, or the operator stops at the notice.
Stop ==
    /\ pc \in {"collect", "paused"} /\ pc' = "closing"
    /\ UNCHANGED <<wrapped, c, t, drv, lamp, sample, requests, faults, down, h>>

\* session._shutdown_live: release, and the brake after it.
Shutdown ==
    /\ pc = "closing" /\ pc' = "finish"
    /\ \E answer \in Answers, braked \in BOOLEAN :
          /\ Control(RequestManual(c, answer))
          /\ down' = [done  |-> answer = "done" /\ braked,
                      error |-> down.error \/ answer # "done" \/ ~braked]
    /\ UNCHANGED <<wrapped, t, drv, lamp, sample, requests, faults>>

\* finish_lane_change_observation
FinishObservation ==
    /\ pc = "finish" /\ pc' = "close"
    /\ IF Busy THEN Finish ELSE UNCHANGED <<t, h>>
    /\ UNCHANGED <<wrapped, c, drv, lamp, sample, requests, faults, down>>

\* session.close: once more, when the shutdown did not complete; then the vehicle
\* is destroyed.
Close ==
    /\ pc = "close" /\ pc' = "closed"
    /\ \/ down.done /\ UNCHANGED <<c, h>>
       \/ ~down.done /\ \E answer \in Answers : Control(RequestManual(c, answer))
    /\ UNCHANGED <<wrapped, t, drv, lamp, sample, requests, faults, down>>

\* The simulator shows the lamp that was asked for.
LampShown ==
    /\ pc \in Running
    /\ lamp' = [lamp EXCEPT !.shown = lamp.asked]
    /\ UNCHANGED <<wrapped, c, t, drv, sample, pc, requests, faults, down, h>>

\* A second has passed since the first look at the lamp.
SecondOver ==
    /\ pc # "closed" /\ t.wait = "yes"
    /\ t' = [t EXCEPT !.wait = "over"]
    /\ UNCHANGED <<wrapped, c, drv, lamp, sample, pc, requests, faults, down, h>>

Iterate ==
    \/ Start \/ Collect \/ Update \/ Request \/ SubmitNow \/ Drive \/ AfterControl
    \/ Observe \/ Handle \/ Shutdown \/ FinishObservation \/ Close

Operator == Resume \/ (pc = "paused" /\ Stop)

Next == Iterate \/ Fault \/ Resume \/ Stop \/ LampShown \/ SecondOver

Spec == Init /\ [][Next]_vars

\* The loop runs, the clock moves on, and the operator answers the notice.
LiveSpec == Spec /\ WF_vars(Iterate) /\ WF_vars(SecondOver) /\ WF_vars(Operator)

-----------------------------------------------------------------------------
(* What control promises                                                   *)

TypeOK ==
    /\ wrapped \in BOOLEAN
    /\ c.mode \in {NoA, Manual}
    /\ {c.available, c.ready, c.active, c.registered} \subseteq BOOLEAN
    /\ c.mode = NoA => c.available      \* AutomationState.__post_init__
    /\ c.gen \in Nat
    /\ t.dir \in Sides \cup {"none"} /\ t.wait \in {"no", "yes", "over"}
    /\ t.blind \in {"no", "gap", "latched"}
    /\ t.seen \in {"none", "outside", "crossed", "inside"}
    /\ lamp \in [asked : Sides \cup {"off"}, shown : Sides \cup {"off"}]
    /\ sample \in [at : Places, fresh : BOOLEAN]
    /\ pc \in Running \cup {"start", "fault", "paused", "closing", "finish", "close",
                             "closed"}
    /\ requests \in 0..MaxRequests /\ faults \in 0..MaxFaults
    /\ down \in [done : BOOLEAN, error : BOOLEAN]

\* Whenever an iteration is under way, the mode the screen, the scheduler and the
\* manual control go by is who drives: the Traffic Manager has the vehicle exactly
\* under NoA, however the calls before failed, timed out or were rolled back.
OneController ==
    pc \in Running =>
        c.registered = (c.mode = NoA) /\ c.active = c.registered /\ c.ready = c.registered

\* The observer and the executor agree on what is in flight: a maneuver the Traffic
\* Manager may still have locks out the next request, and in a drive with an exit
\* observer a lock is never left behind without one.
LockIsHeld ==
    /\ pc \in Running /\ InFlight(c) =>
          t.submitted /\ c.flight = [id |-> t.id, gen |-> t.gen] /\ t.gen = c.gen
    /\ pc \in Running /\ wrapped /\ c.mode = NoA /\ t.submitted => InFlight(c)

\* Where the latest request is.
Stage == IF Busy THEN CASE h.sent = 0 -> "asked" [] h.sent = 1 -> "sent"
                        [] OTHER -> "sent twice"
         ELSE h.fate

Order == INSTANCE LaneChangeOrder WITH order <- Stage, kept <- h.kept

\* A request is sent once at most, only to the automation it was made under, and
\* completed only if that automation drove all the time.
OrderSpec == Order!Spec

\* A drive that ends without an error has released the vehicle and settled its
\* request.
QuietEnd ==
    pc \in {"close", "closed"} /\ ~down.error =>
        ~c.registered /\ ~InFlight(c) /\ ~Busy

\* A request that waits for its lamp does not wait for ever.
WaitEnds == Busy /\ ~t.submitted ~> ~Busy \/ t.submitted \/ pc = "closed"

\* One party commands the vehicle: the mode, the registration and the backend agree, a
\* lane change in flight is the one of this activation, and an end without an error
\* leaves nothing registered or in flight.
OneCommander == TypeOK /\ OneController /\ LockIsHeld /\ QuietEnd

-----------------------------------------------------------------------------
(***************************************************************************)
(* The inductive invariant behind it (ControlProofs).                      *)
(***************************************************************************)
Controls == [mode : {NoA, Manual}, available : BOOLEAN, gen : Nat, ready : BOOLEAN,
             active : BOOLEAN, flight : [id : Nat, gen : Nat], registered : BOOLEAN]
Trackers == [id : Nat, gen : Nat, dir : Sides \cup {"none"}, submitted : BOOLEAN,
             consumed : BOOLEAN, wait : {"no", "yes", "over"},
             blind : {"no", "gap", "latched"}, seen : {"none", "outside", "crossed", "inside"}]
Inputs == [hands : SUBSET {"brake", "wheel", "button"}, signal : Sides \cup {"none"},
           key : Sides \cup {"none"}, busy : BOOLEAN]
Histories == [sent : {0, 1}, kept : BOOLEAN, fate : {"none", "given up", "completed"}]

ControlTypes ==
    TypeOK /\ c \in Controls /\ t \in Trackers /\ drv \in Inputs /\ h \in Histories

\* Before the first iteration nothing is given away, and NoA can be entered.
StartInv ==
    pc = "start" =>
        /\ c.mode = Manual /\ c.available /\ ~c.registered /\ ~c.active /\ ~c.ready
        /\ ~InFlight(c) /\ ~Busy

\* In an iteration of the driver nothing is in flight, and with an exit observer the
\* activation is judged on whether a request is open.
DriverInv ==
    /\ pc \in Running /\ c.mode = Manual => ~InFlight(c)
    /\ pc = "update" /\ wrapped => drv.busy = Busy

\* A request belongs to a generation: as long as this one lasts, the automation has
\* driven; and what was sent was marked so.
RequestInv ==
    /\ ~Busy => t = NoTracker
    /\ pc = "submit" => Busy /\ ~t.submitted
    /\ Busy => t.gen <= c.gen /\ (t.gen = c.gen => c.mode = NoA /\ h.kept)
    /\ Busy /\ ~t.consumed => h.sent = 0
    /\ Busy /\ t.submitted => h.sent = 1

\* A shutdown without an error has released the vehicle.
ShutdownInv ==
    /\ pc \in {"finish", "close", "closed"} /\ ~down.error =>
          down.done /\ ~c.registered /\ ~InFlight(c)
    /\ pc \in {"close", "closed"} /\ ~down.error => ~Busy

ControlInv ==
    /\ ControlTypes
    /\ StartInv /\ DriverInv /\ RequestInv /\ ShutdownInv
    /\ OneController /\ LockIsHeld
=================================================================================
