------------------------------ MODULE ControlProofs ------------------------------
(***************************************************************************)
(* Proofs about NoAControl: one party commands the vehicle, and a lane     *)
(* change request is sent once and only to the automation it was made      *)
(* under, however the calls to the simulator fail, for every number of     *)
(* faults and requests.                                                    *)
(***************************************************************************)
EXTENDS NoAControl, TLAPS

(* What the calls make of the control. *)
Released(k) == ~k.registered /\ ~k.active /\ ~k.ready /\ k.flight = NoFlight

LEMMA EnterManualFields ==
    ASSUME NEW k \in Controls, NEW answer \in Answers
    PROVE  LET r == EnterManual(k, answer) IN
           /\ r \in Controls /\ r.gen = k.gen + 1 /\ r.mode = k.mode
           /\ r.available = k.available
           /\ answer = "done" => Released(r)
  <1> DEFINE g == k.gen + 1
             reg == k.registered /\ answer = "refused"
             begun == [k EXCEPT !.gen = g, !.ready = FALSE, !.registered = reg]
             ended == [begun EXCEPT !.flight = NoFlight, !.active = FALSE]
  <1>1. EnterManual(k, answer) = IF answer = "done" THEN ended ELSE begun  BY DEF EnterManual
  <1>2. g \in Nat /\ g = k.gen + 1 /\ reg \in BOOLEAN /\ (answer = "done" => reg = FALSE)
    BY DEF Controls
  <1>3. NoFlight \in [id : Nat, gen : Nat]  BY DEF NoFlight
  <1> HIDE DEF g, reg
  <1>4. /\ begun \in Controls /\ begun.gen = g /\ begun.mode = k.mode
        /\ begun.available = k.available /\ begun.registered = reg /\ begun.ready = FALSE
    BY <1>2 DEF Controls
  <1> HIDE DEF begun
  <1>5. /\ ended \in Controls /\ ended.gen = g /\ ended.mode = k.mode
        /\ ended.available = k.available /\ ended.registered = reg /\ ended.ready = FALSE
        /\ ended.active = FALSE /\ ended.flight = NoFlight
    BY <1>3, <1>4 DEF Controls
  <1> HIDE DEF ended
  <1> QED  BY <1>1, <1>2, <1>4, <1>5 DEF Released

LEMMA LeaveNoAFields ==
    ASSUME NEW k \in Controls, k.mode = NoA, NEW answer \in Answers
    PROVE  LET r == LeaveNoA(k, answer) IN
           /\ r \in Controls /\ r.gen = k.gen + 1 /\ r.available = k.available
           /\ answer = "done" => Released(r) /\ r.mode = Manual
  <1> DEFINE e == EnterManual(k, answer)
             to == IF answer = "done" THEN Manual ELSE e.mode
  <1>1. /\ e \in Controls /\ e.gen = k.gen + 1 /\ e.mode = k.mode
        /\ e.available = k.available /\ (answer = "done" => Released(e))
    BY EnterManualFields
  <1>2. LeaveNoA(k, answer) = [e EXCEPT !.mode = to]  BY DEF LeaveNoA, NoA, Manual
  <1> HIDE DEF e
  <1> QED  BY <1>1, <1>2 DEF Controls, Released

LEMMA RequestManualFields ==
    ASSUME NEW k \in Controls, NEW answer \in Answers
    PROVE  LET r == RequestManual(k, answer) IN
           /\ r \in Controls /\ r.gen = k.gen + 1 /\ r.available = k.available
           /\ r.mode = NoA => k.mode = NoA
           /\ answer = "done" => Released(r) /\ r.mode = Manual
  <1>1. CASE k.mode = Manual  BY <1>1, EnterManualFields DEF RequestManual, NoA, Manual
  <1>2. CASE k.mode = NoA  BY <1>2, LeaveNoAFields DEF RequestManual, NoA, Manual
  <1> QED  BY <1>1, <1>2 DEF Controls

LEMMA EnterNoAFields ==
    ASSUME NEW k \in Controls, NEW answer \in Answers, NEW rollback \in Answers
    PROVE  LET r == EnterNoA(k, answer, rollback) IN
           /\ r \in Controls /\ r.flight = k.flight /\ r.available = k.available
           /\ answer = "done" =>
                r.mode = NoA /\ r.gen = k.gen + 1 /\ r.registered /\ r.active /\ r.ready
           /\ answer # "done" => r.mode = k.mode /\ r.gen = k.gen
  <1> DEFINE g == k.gen + 1
             reg == (k.registered \/ answer = "timeout") /\ rollback = "refused"
             entered == [k EXCEPT !.registered = TRUE, !.active = TRUE, !.gen = g,
                                  !.ready = TRUE, !.mode = NoA]
             failed == [k EXCEPT !.registered = reg]
  <1>1. EnterNoA(k, answer, rollback) = IF answer = "done" THEN entered ELSE failed  BY DEF EnterNoA
  <1>2. g \in Nat /\ g = k.gen + 1 /\ reg \in BOOLEAN  BY DEF Controls
  <1> HIDE DEF g, reg
  <1>3. /\ entered \in Controls /\ entered.mode = NoA /\ entered.gen = g
        /\ entered.registered = TRUE /\ entered.active = TRUE /\ entered.ready = TRUE
        /\ entered.flight = k.flight /\ entered.available = k.available
    BY <1>2 DEF Controls
  <1>4. /\ failed \in Controls /\ failed.mode = k.mode /\ failed.gen = k.gen
        /\ failed.flight = k.flight /\ failed.available = k.available
    BY <1>2 DEF Controls
  <1> HIDE DEF entered, failed
  <1> QED  BY <1>1, <1>2, <1>3, <1>4

(* The invariant's parts under the changes that several steps share. *)
\* The types of the fields, whatever the record is changed to.
LEMMA TypesFollow ==
    ASSUME wrapped' \in BOOLEAN, c' \in Controls, c'.mode = NoA => c'.available,
           t' \in Trackers, drv' \in Inputs, h' \in Histories,
           lamp' \in [asked : Sides \cup {"off"}, shown : Sides \cup {"off"}],
           sample' \in [at : Places, fresh : BOOLEAN],
           pc' \in Running \cup {"start", "fault", "paused", "closing", "finish", "close",
                                 "closed"},
           requests' \in 0..MaxRequests, faults' \in 0..MaxFaults,
           down' \in [done : BOOLEAN, error : BOOLEAN]
    PROVE  ControlTypes'
  BY DEF ControlTypes, TypeOK, Controls, Trackers

\* What the invariant says of the types, in one place.
LEMMA TypeFacts ==
    ASSUME ControlInv
    PROVE  /\ wrapped \in BOOLEAN /\ c \in Controls /\ (c.mode = NoA => c.available)
           /\ t \in Trackers /\ drv \in Inputs /\ h \in Histories
           /\ lamp \in [asked : Sides \cup {"off"}, shown : Sides \cup {"off"}]
           /\ sample \in [at : Places, fresh : BOOLEAN]
           /\ pc \in Running \cup {"start", "fault", "paused", "closing", "finish", "close",
                                   "closed"}
           /\ requests \in 0..MaxRequests /\ faults \in 0..MaxFaults
           /\ down \in [done : BOOLEAN, error : BOOLEAN]
           /\ c.mode \in {NoA, Manual} /\ c.gen \in Nat /\ t.id \in Nat /\ t.gen \in Nat
           /\ c.flight.id \in Nat /\ c.flight.gen \in Nat
           /\ h.sent \in {0, 1} /\ h.kept \in BOOLEAN
  BY DEF ControlInv, ControlTypes, TypeOK, Controls, Trackers, Histories

LEMMA Spent ==
    ASSUME faults \in 0..MaxFaults, NEW answer, Able(answer), Spend(answer # "done")
    PROVE  faults' \in 0..MaxFaults
  BY ControlAssumption DEF Able, Spend

\* A history in which the vehicle was perhaps released.
LEMMA ControlFields ==
    ASSUME h \in Histories, NEW k \in Controls, Control(k)
    PROVE  /\ c' = k /\ h' \in Histories
           /\ h'.sent = h.sent /\ h'.fate = h.fate
           /\ h'.kept = (h.kept /\ k.registered)
  <1> DEFINE keeps == h.kept /\ k.registered
  <1>1. keeps \in BOOLEAN  BY DEF Histories, Controls
  <1>2. h' = [h EXCEPT !.kept = keeps]  BY DEF Control
  <1>3. c' = k  BY DEF Control
  <1> HIDE DEF keeps
  <1>4. h' \in Histories /\ h'.sent = h.sent /\ h'.fate = h.fate /\ h'.kept = keeps
    BY <1>1, <1>2 DEF Histories
  <1> QED  BY <1>3, <1>4 DEF keeps

\* A request that is left alone while the control goes on to a later generation, or to
\* manual control, or stays as it was.
LEMMA RequestRests ==
    ASSUME ControlInv, UNCHANGED <<t, requests>>, pc' # "submit",
           h'.sent = h.sent, c'.gen \in Nat,
           \/ c'.gen > c.gen
           \/ c'.gen = c.gen /\ c.mode = Manual
           \/ c'.gen = c.gen /\ c'.mode = c.mode /\ h'.kept = h.kept
    PROVE  RequestInv'
  <1>1. RequestInv /\ c.gen \in Nat /\ t.gen \in Nat /\ c.mode \in {NoA, Manual}
    BY TypeFacts DEF ControlInv
  <1>2. c.mode = Manual => c.mode # NoA  BY DEF NoA, Manual
  <1> QED  BY <1>1, <1>2 DEF RequestInv, Busy

\* What happens where no iteration is under way leaves few things to say.
LEMMA Elsewhere ==
    ASSUME pc' \notin Running \cup {"start"}
    PROVE  StartInv' /\ DriverInv' /\ OneController' /\ LockIsHeld'
  BY DEF StartInv, DriverInv, OneController, LockIsHeld, Running

\* An iteration goes on where the control, the request and the history rest.
LEMMA IterationRests ==
    ASSUME ControlInv, pc \in Running, pc' \in Running \ {"submit"},
           UNCHANGED <<wrapped, c, t, h, requests>>,
           pc' = "update" /\ wrapped => drv'.busy = Busy
    PROVE  StartInv' /\ DriverInv' /\ RequestInv' /\ ShutdownInv' /\ OneController' /\ LockIsHeld'
  <1>1. StartInv' /\ ShutdownInv'  BY DEF StartInv, ShutdownInv, Running
  <1>2. DriverInv' /\ OneController' /\ LockIsHeld'
    BY DEF ControlInv, DriverInv, OneController, LockIsHeld, InFlight, Busy
  <1>3. RequestInv'  BY TypeFacts, RequestRests DEF ControlInv
  <1> QED  BY <1>1, <1>2, <1>3

\* A tracker that is dropped when nothing of it is in flight.
LEMMA DropKeeps ==
    ASSUME ControlInv, pc \in Running, pc' \in Running \ {"submit", "update"}, UNCHANGED wrapped,
           NEW fate \in {"given up", "completed"}, Drop(fate),
           \/ UNCHANGED c /\ ~InFlight(c)
           \/ c' = [c EXCEPT !.flight = NoFlight]
    PROVE  /\ StartInv' /\ DriverInv' /\ RequestInv' /\ ShutdownInv' /\ OneController' /\ LockIsHeld'
           /\ c' \in Controls /\ t' \in Trackers /\ h' \in Histories
           /\ (c'.mode = NoA => c'.available)
  <1>a. c \in Controls /\ NoFlight \in [id : Nat, gen : Nat] /\ NoFlight.id = 0
    BY TypeFacts DEF NoFlight
  <1>1. /\ c' \in Controls /\ c'.mode = c.mode /\ c'.gen = c.gen /\ c'.registered = c.registered
        /\ c'.active = c.active /\ c'.ready = c.ready /\ c'.available = c.available
        /\ ~InFlight(c')
    <2>1. CASE UNCHANGED c /\ ~InFlight(c)  BY <2>1, <1>a DEF InFlight
    <2>2. CASE c' = [c EXCEPT !.flight = NoFlight]  BY <2>2, <1>a DEF InFlight, Controls
    <2> QED  BY <2>1, <2>2
  <1>2. t' = NoTracker /\ t' \in Trackers /\ ~Busy' /\ ~t'.submitted
    BY DEF Drop, NoTracker, Trackers, Busy, Sides
  <1>3. h' \in Histories  BY TypeFacts DEF Drop, Histories
  <1>4. StartInv' /\ ShutdownInv'  BY DEF StartInv, ShutdownInv, Running
  <1>5. DriverInv' /\ LockIsHeld'  BY <1>1, <1>2 DEF DriverInv, LockIsHeld, InFlight
  <1>6. OneController'  BY <1>1 DEF ControlInv, OneController
  <1>7. RequestInv'  BY <1>2 DEF RequestInv
  <1> QED  BY <1>1, <1>2, <1>3, <1>4, <1>5, <1>6, <1>7, TypeFacts

\* Everything the invariant says beside the types.
Agreed == /\ StartInv /\ DriverInv /\ RequestInv /\ ShutdownInv
          /\ OneController /\ LockIsHeld

\* What is said of the request while something else of its tracker changes.
SameRequest == /\ t' \in Trackers /\ t'.id = t.id /\ t'.gen = t.gen
               /\ t'.submitted = t.submitted /\ (t.consumed => t'.consumed)

LEMMA TrackerRests ==
    ASSUME ControlInv, Busy, SameRequest, UNCHANGED <<wrapped, c, h, down>>,
           \/ UNCHANGED <<pc, drv>>
           \/ pc \in Running /\ pc' \in (Running \ {"submit", "update"}) \cup {"fault"}
    PROVE  Agreed'
  <1>1. StartInv' /\ ShutdownInv'
    BY DEF SameRequest, ControlInv, StartInv, ShutdownInv, Running, Busy
  <1>2. DriverInv' /\ OneController'
    BY DEF SameRequest, ControlInv, DriverInv, OneController, InFlight, Busy, Running
  <1>3. LockIsHeld'  BY DEF SameRequest, ControlInv, LockIsHeld, InFlight, Running
  <1>4. RequestInv'  BY DEF SameRequest, ControlInv, RequestInv, Busy
  <1> QED  BY <1>1, <1>2, <1>3, <1>4 DEF Agreed

\* The force command: the request that nothing was sent for is in flight.
LEMMA ForceKeeps ==
    ASSUME NEW next \in {"drive", "collect"}, ControlInv, pc \in Running, Busy, ~t.submitted,
           Admitted, ForceChange(next), UNCHANGED wrapped
    PROVE  Agreed' /\ c' \in Controls /\ (c'.mode = NoA => c'.available)
           /\ t' \in Trackers /\ h' \in Histories
  <1>a. c \in Controls /\ t \in Trackers /\ h \in Histories  BY TypeFacts
  <1>b. /\ t.gen = c.gen /\ ~t.consumed /\ c.ready /\ c.mode = NoA /\ h.kept /\ h.sent = 0
        /\ c.mode # Manual
    BY DEF Admitted, ControlInv, RequestInv, NoA, Manual
  <1>1. /\ c' \in Controls /\ c'.mode = c.mode /\ c'.gen = c.gen /\ c'.registered = c.registered
        /\ c'.active = c.active /\ c'.ready = c.ready /\ c'.available = c.available
        /\ c'.flight = [id |-> t.id, gen |-> t.gen]
    <2>1. [id |-> t.id, gen |-> t.gen] \in [id : Nat, gen : Nat]  BY TypeFacts
    <2>2. c' = [c EXCEPT !.flight = [id |-> t.id, gen |-> t.gen]]  BY DEF ForceChange
    <2> QED  BY <1>a, <2>1, <2>2 DEF Controls
  <1>2. h' \in Histories /\ h'.sent = 1 /\ h'.kept
    <2> DEFINE n == IF h.sent < 2 THEN h.sent + 1 ELSE h.sent
    <2>1. h' = [h EXCEPT !.sent = n]  BY DEF ForceChange
    <2>2. n = 1  BY <1>b
    <2> HIDE DEF n
    <2> QED  BY <2>1, <2>2, <1>a, <1>b DEF Histories
  <1>3. /\ t' \in Trackers /\ t'.id = t.id /\ t'.gen = t.gen /\ t'.consumed
        /\ \/ t'.submitted /\ pc' = next
           \/ ~t'.submitted /\ pc' = "fault"
    <2>1. CASE pc' = next /\ t' = Marked  BY <2>1, <1>a DEF Marked, Trackers
    <2>2. CASE pc' = "fault" /\ t' = [t EXCEPT !.consumed = TRUE]  BY <2>2, <1>a DEF Trackers
    <2> QED  BY <2>1, <2>2 DEF ForceChange
  <1>4. StartInv' /\ ShutdownInv'  BY <1>3 DEF StartInv, ShutdownInv
  <1>5. DriverInv' /\ OneController'
    BY <1>1, <1>3, <1>b DEF ControlInv, DriverInv, OneController, Running
  <1>6. LockIsHeld'  BY <1>1, <1>3, <1>b DEF LockIsHeld, InFlight, Running, Busy
  <1>7. RequestInv'  BY <1>1, <1>2, <1>3, <1>b, TypeFacts DEF RequestInv, Busy
  <1> QED  BY <1>1, <1>2, <1>3, <1>4, <1>5, <1>6, <1>7, TypeFacts DEF Agreed

\* What a step between two points of an iteration has to keep.
Kept == /\ Agreed' /\ c' \in Controls /\ (c'.mode = NoA => c'.available)
        /\ t' \in Trackers /\ h' \in Histories

\* observer._submit: the wait for the lamp, the refusal, the command and its failures.
LEMMA SubmitKeeps ==
    ASSUME NEW next \in {"drive", "collect"}, ControlInv, pc \in Running, Busy, ~t.submitted,
           Submit(next), UNCHANGED <<wrapped, down>>
    PROVE  Kept
  <1>a. /\ c \in Controls /\ t \in Trackers /\ h \in Histories /\ (c.mode = NoA => c.available)
        /\ LockIsHeld
    BY TypeFacts DEF ControlInv
  <1>b. ~InFlight(c)  BY <1>a DEF LockIsHeld
  <1>c. next \in Running \ {"submit", "update"}  BY DEF Running
  <1>1. CASE pc' = next /\ Drop("given up") /\ UNCHANGED c
    BY <1>1, <1>b, <1>c, DropKeeps DEF Kept, Agreed
  <1>2. CASE pc' = next /\ t' = [t EXCEPT !.wait = "yes"] /\ UNCHANGED <<c, h>>
    <2>1. SameRequest  BY <1>2, <1>a DEF SameRequest, Trackers
    <2> QED  BY <1>2, <2>1, <1>a, <1>c, TrackerRests DEF Kept, SameRequest
  <1>3. CASE Admitted /\ ForceChange(next)  BY <1>3, ForceKeeps DEF Kept
  <1>4. CASE pc' = "fault" /\ t' = [t EXCEPT !.consumed = TRUE] /\ UNCHANGED <<c, h>>
    <2>1. SameRequest  BY <1>4, <1>a DEF SameRequest, Trackers
    <2> QED  BY <1>4, <2>1, <1>a, TrackerRests DEF Kept, SameRequest
  <1>5. WaitForSignal(next) => <1>1!1 \/ <1>2!1  BY DEF WaitForSignal
  <1>6. Submit(next) => <1>1!1 \/ <1>2!1 \/ <1>3!1 \/ <1>4!1  BY <1>5 DEF Submit
  <1> QED  BY <1>1, <1>2, <1>3, <1>4, <1>6

\* observer._complete and tracker.observe: the maneuver that is followed is the one in
\* flight, so that no lock is left behind.
LEMMA TrackKeeps ==
    ASSUME ControlInv, pc \in Running, pc' \in Running \ {"submit", "update"},
           Busy, Track, UNCHANGED <<wrapped, down>>
    PROVE  Kept
  <1>a. /\ c \in Controls /\ t \in Trackers /\ h \in Histories /\ (c.mode = NoA => c.available)
        /\ LockIsHeld
    BY TypeFacts DEF ControlInv
  <1>b. InFlight(c) => c.flight.gen = t.gen /\ t.gen = c.gen  BY <1>a, TypeFacts DEF LockIsHeld
  <1> DEFINE seen == Crossed(t.seen, sample.at)
  <1>c. seen \in {"none", "outside", "crossed", "inside"}  BY <1>a DEF Crossed, Trackers
  <1>1. CASE Drop("completed") /\ c' = [c EXCEPT !.flight = NoFlight]
    BY <1>1, DropKeeps DEF Kept, Agreed
  <1>2. CASE Drop("given up") /\ UNCHANGED c /\ ~InFlight(c)  BY <1>2, DropKeeps DEF Kept, Agreed
  <1>3. CASE t' = [t EXCEPT !.blind = "gap"] /\ UNCHANGED <<c, h>>
    <2>1. SameRequest  BY <1>3, <1>a DEF SameRequest, Trackers
    <2> QED  BY <1>3, <2>1, <1>a, TrackerRests DEF Kept, SameRequest
  <1>4. CASE t' = [t EXCEPT !.blind = "no", !.seen = seen] /\ UNCHANGED <<c, h>>
    <2> HIDE DEF seen
    <2>1. SameRequest  BY <1>4, <1>a, <1>c DEF SameRequest, Trackers
    <2> QED  BY <1>4, <2>1, <1>a, TrackerRests DEF Kept, SameRequest
  <1>5. Complete => \/ Drop("completed") /\ c' = [c EXCEPT !.flight = NoFlight]
                    \/ Drop("given up") /\ UNCHANGED c /\ ~InFlight(c)
    BY <1>b DEF Complete
  <1>6. \/ t' = [t EXCEPT !.blind = "gap"] /\ UNCHANGED <<c, h>>
        \/ Complete
        \/ t' = [t EXCEPT !.blind = "no", !.seen = seen] /\ UNCHANGED <<c, h>>
    BY DEF Track
  <1> QED  BY <1>1, <1>2, <1>3, <1>4, <1>5, <1>6

\* interaction._refresh_availability and the release that follows an error leave the
\* request to its generation: what a release makes of the invariant where no iteration
\* is under way.
LEMMA ReleaseKeeps ==
    ASSUME ControlInv, NEW answer \in Answers, Control(RequestManual(c, answer)),
           UNCHANGED <<t, requests>>, pc' \notin Running \cup {"start"}
    PROVE  /\ StartInv' /\ DriverInv' /\ RequestInv' /\ OneController' /\ LockIsHeld'
           /\ c' \in Controls /\ (c'.mode = NoA => c'.available) /\ h' \in Histories
           /\ (answer = "done" => Released(c') /\ c'.mode = Manual)
  <1> DEFINE r == RequestManual(c, answer)
  <1>1. c \in Controls /\ h \in Histories /\ (c.mode = NoA => c.available)  BY TypeFacts
  <1>2. /\ r \in Controls /\ r.gen = c.gen + 1 /\ r.available = c.available
        /\ (r.mode = NoA => c.mode = NoA)
        /\ (answer = "done" => Released(r) /\ r.mode = Manual)
    BY <1>1, RequestManualFields
  <1> HIDE DEF r
  <1>3. c' = r /\ h' \in Histories /\ h'.sent = h.sent  BY <1>1, <1>2, ControlFields DEF r
  <1>4. pc' # "submit"  BY DEF Running
  <1>5. c'.gen \in Nat /\ c'.gen > c.gen  BY <1>2, <1>3, TypeFacts
  <1>6. RequestInv'  BY <1>3, <1>4, <1>5, RequestRests
  <1> QED  BY <1>1, <1>2, <1>3, <1>6, Elsewhere

\* An iteration in which the vehicle was released, or at the end of which it is not
\* under way any more.
LEMMA HandedBack ==
    ASSUME ControlInv, NEW k \in Controls, Control(k), k.gen > c.gen, UNCHANGED <<t, requests>>,
           k.mode = NoA => k.available,
           \/ pc' = "fault"
           \/ pc' \in Running \ {"submit", "update"} /\ Released(k) /\ k.mode = Manual
    PROVE  Agreed' /\ c' \in Controls /\ (c'.mode = NoA => c'.available) /\ h' \in Histories
  <1>1. c' = k /\ h' \in Histories /\ h'.sent = h.sent  BY TypeFacts, ControlFields
  <1>2. k.gen \in Nat  BY DEF Controls
  <1>3. pc' # "submit" /\ ShutdownInv'  BY DEF Running, ShutdownInv
  <1>4. RequestInv'  BY <1>1, <1>2, <1>3, RequestRests
  <1>5. CASE pc' = "fault"  BY <1>1, <1>3, <1>4, <1>5, Elsewhere DEF Agreed, Running
  <1>6. CASE pc' \in Running \ {"submit", "update"} /\ Released(k) /\ k.mode = Manual
    <2>1. ~InFlight(k) /\ k.mode # NoA  BY <1>6 DEF Released, InFlight, NoFlight, NoA, Manual
    <2>b. /\ ~InFlight(c)' /\ (c'.mode = NoA) = FALSE
          /\ c'.registered = FALSE /\ c'.active = FALSE /\ c'.ready = FALSE
      BY <1>1, <1>6, <2>1 DEF Released, Controls, InFlight
    <2>2. StartInv' /\ DriverInv' /\ OneController' /\ LockIsHeld'
      BY <1>6, <2>b DEF StartInv, DriverInv, OneController, LockIsHeld, Running
    <2> QED  BY <1>1, <1>3, <1>4, <2>2 DEF Agreed
  <1> QED  BY <1>5, <1>6

\* interaction.update when the driver takes the vehicle back.
LEMMA TakeOverKeeps ==
    ASSUME ControlInv, c.mode = NoA, TakeOver, UNCHANGED <<t, requests>>
    PROVE  Agreed' /\ c' \in Controls /\ (c'.mode = NoA => c'.available) /\ h' \in Histories
           /\ faults' \in 0..MaxFaults /\ pc' \in Running \cup {"fault"}
  <1>1. PICK answer \in Answers :
           /\ Able(answer) /\ Spend(answer # "done") /\ Control(LeaveNoA(c, answer))
           /\ pc' = IF answer = "done" THEN "request" ELSE "fault"
    BY DEF TakeOver
  <1> DEFINE r == LeaveNoA(c, answer)
  <1>2. /\ r \in Controls /\ r.gen = c.gen + 1 /\ r.available = c.available /\ c.available
        /\ (answer = "done" => Released(r) /\ r.mode = Manual)
    BY TypeFacts, LeaveNoAFields
  <1>3. r.gen > c.gen  BY <1>2, TypeFacts
  <1>4. \/ pc' = "fault"
        \/ pc' \in Running \ {"submit", "update"} /\ Released(r) /\ r.mode = Manual
    BY <1>1, <1>2 DEF Running
  <1>5. Control(r)  BY <1>1
  <1> HIDE DEF r
  <1>6. Agreed' /\ c' \in Controls /\ (c'.mode = NoA => c'.available) /\ h' \in Histories
    BY <1>2, <1>3, <1>4, <1>5, HandedBack
  <1>7. faults' \in 0..MaxFaults  BY <1>1, Spent, TypeFacts
  <1> QED  BY <1>1, <1>6, <1>7 DEF Running

\* interaction.update when the driver asks for NoA.
LEMMA ActivateKeeps ==
    ASSUME ControlInv, pc = "update", c.mode = Manual, Activate, UNCHANGED <<wrapped, t, requests>>
    PROVE  Agreed' /\ c' \in Controls /\ (c'.mode = NoA => c'.available) /\ h' \in Histories
           /\ faults' \in 0..MaxFaults /\ pc' \in Running \cup {"fault"}
  <1>a. /\ c \in Controls /\ h \in Histories /\ OneController /\ DriverInv /\ RequestInv
        /\ pc \in Running /\ c.gen \in Nat /\ faults \in 0..MaxFaults /\ c.mode # NoA
    BY TypeFacts DEF ControlInv, Running, NoA, Manual
  <1>b. ~InFlight(c) /\ ~c.registered /\ ~c.active /\ ~c.ready  BY <1>a DEF DriverInv, OneController
  <1>1. PICK good \in BOOLEAN :
           LET k == Gated(good) IN
           \/ ~GatePasses(good) /\ Control(k) /\ pc' = "request" /\ UNCHANGED faults
           \/ /\ GatePasses(good)
              /\ \E answer, rollback \in Answers :
                    LET n == EnterNoA(k, answer, rollback) IN
                    /\ Able(answer)
                    /\ IF answer # "done" \/ "wheel" \notin drv.hands
                       THEN /\ Control(n) /\ Spend(answer # "done")
                            /\ pc' = IF answer = "done" THEN "request" ELSE "fault"
                       ELSE \E left \in Answers :
                            /\ Able(left) /\ Spend(left # "done")
                            /\ Control(LeaveNoA(n, left))
                            /\ pc' = IF left = "done" THEN "request" ELSE "fault"
    BY DEF Activate
  <1> DEFINE k == Gated(good)
             passes == GatePasses(good)
  <1>2. k = [c EXCEPT !.available = passes] /\ passes \in BOOLEAN  BY DEF Gated, GatePasses
  <1>3. passes => ~drv.busy  BY DEF GatePasses
  <1> HIDE DEF passes
  <1>4. /\ k \in Controls /\ k.available = passes /\ k.mode = Manual /\ k.gen = c.gen
        /\ k.flight = c.flight /\ ~k.registered /\ ~k.active /\ ~k.ready
    BY <1>2, <1>a, <1>b DEF Controls
  <1> HIDE DEF k
  <1>5. CASE Control(k) /\ pc' = "request" /\ UNCHANGED faults
    <2>1. c' = k /\ h' \in Histories /\ h'.sent = h.sent  BY <1>5, <1>4, <1>a, ControlFields
    <2>2. RequestInv'  BY <1>5, <1>4, <1>a, <2>1, RequestRests
    <2>a. ~InFlight(k) /\ k.mode # NoA  BY <1>4, <1>b DEF InFlight, NoA, Manual
    <2>b. /\ ~InFlight(c)' /\ (c'.mode = NoA) = FALSE
          /\ c'.registered = FALSE /\ c'.active = FALSE /\ c'.ready = FALSE
      BY <1>4, <2>1, <2>a DEF Controls
    <2>3. StartInv' /\ DriverInv' /\ OneController' /\ LockIsHeld' /\ ShutdownInv'
      BY <1>5, <2>b DEF StartInv, DriverInv, OneController, LockIsHeld, ShutdownInv
    <2> QED  BY <1>5, <1>4, <1>a, <2>1, <2>2, <2>3 DEF Agreed, Running
  <1>6. ASSUME passes, NEW answer \in Answers, NEW rollback \in Answers, Able(answer),
               Control(EnterNoA(k, answer, rollback)), Spend(answer # "done"),
               pc' = IF answer = "done" THEN "request" ELSE "fault"
        PROVE  Agreed' /\ c' \in Controls /\ (c'.mode = NoA => c'.available) /\ h' \in Histories
               /\ faults' \in 0..MaxFaults /\ pc' \in Running \cup {"fault"}
    <2> DEFINE n == EnterNoA(k, answer, rollback)
    <2>1. /\ n \in Controls /\ n.flight = k.flight /\ n.available = k.available
          /\ (answer = "done" =>
                n.mode = NoA /\ n.gen = k.gen + 1 /\ n.registered /\ n.active /\ n.ready)
          /\ (answer # "done" => n.mode = k.mode /\ n.gen = k.gen)
      BY <1>4, EnterNoAFields
    <2> HIDE DEF n
    <2>2. c' = n /\ h' \in Histories /\ h'.sent = h.sent  BY <1>6, <2>1, <1>a, ControlFields DEF n
    <2>3. c'.gen \in Nat /\ (c'.gen > c.gen \/ c'.gen = c.gen)  BY <1>4, <1>a, <2>1, <2>2
    <2>4. RequestInv'  BY <1>6, <1>a, <2>2, <2>3, RequestRests
    <2>5. ShutdownInv'  BY <1>6 DEF ShutdownInv
    <2>6. faults' \in 0..MaxFaults  BY <1>6, <1>a, Spent
    <2>7. CASE answer # "done"
      BY <1>6, <1>4, <2>1, <2>2, <2>4, <2>5, <2>6, <2>7, Elsewhere DEF Agreed, Running
    <2>8. CASE answer = "done"
      <3>1. wrapped => ~t.submitted  BY <1>6, <1>3, <1>a DEF DriverInv, RequestInv, NoTracker
      <3>2. n.mode # Manual /\ ~InFlight(n)  BY <2>1, <2>8, <1>4, <1>b DEF InFlight, NoA, Manual
      <3>3. StartInv' /\ DriverInv' /\ OneController' /\ LockIsHeld'
        BY <1>6, <2>1, <2>2, <2>8, <3>1, <3>2
        DEF StartInv, DriverInv, OneController, LockIsHeld, InFlight
      <3> QED  BY <1>6, <1>4, <2>1, <2>2, <2>4, <2>5, <2>6, <2>8, <3>3 DEF Agreed, Running
    <2> QED  BY <2>7, <2>8
  <1>7. ASSUME passes, NEW rollback \in Answers, NEW left \in Answers,
               Able(left), Spend(left # "done"),
               Control(LeaveNoA(EnterNoA(k, "done", rollback), left)),
               pc' = IF left = "done" THEN "request" ELSE "fault"
        PROVE  Agreed' /\ c' \in Controls /\ (c'.mode = NoA => c'.available) /\ h' \in Histories
               /\ faults' \in 0..MaxFaults /\ pc' \in Running \cup {"fault"}
    <2> DEFINE n == EnterNoA(k, "done", rollback)
               r == LeaveNoA(n, left)
    <2>1. n \in Controls /\ n.available /\ n.mode = NoA /\ n.gen = k.gen + 1
      <3>1. "done" \in Answers  BY DEF Answers
      <3> QED  BY <3>1, <1>7, <1>4, EnterNoAFields, ZenonT(40)
    <2> HIDE DEF n
    <2>2. /\ r \in Controls /\ r.gen = n.gen + 1 /\ r.available
          /\ (left = "done" => Released(r) /\ r.mode = Manual)
      BY <2>1, <1>7, LeaveNoAFields
    <2>3. Control(r)  BY <1>7 DEF n
    <2> HIDE DEF r
    <2>4. r.gen > c.gen  BY <2>1, <2>2, <1>4, <1>a
    <2>5. \/ pc' = "fault"
          \/ pc' \in Running \ {"submit", "update"} /\ Released(r) /\ r.mode = Manual
      BY <1>7, <2>2 DEF Running
    <2>6. Agreed' /\ c' \in Controls /\ (c'.mode = NoA => c'.available) /\ h' \in Histories
      BY <2>2, <2>3, <2>4, <2>5, HandedBack
    <2>7. faults' \in 0..MaxFaults  BY <1>7, <1>a, Spent
    <2> QED  BY <1>7, <2>6, <2>7 DEF Running
  <1> QED  BY <1>1, <1>5, <1>6, <1>7 DEF k, passes

\* The parts that a step keeps, put together again.
LEMMA Assembled ==
    ASSUME ControlInv, Agreed', UNCHANGED wrapped,
           c' \in Controls, c'.mode = NoA => c'.available,
           t' \in Trackers, drv' \in Inputs, h' \in Histories,
           lamp' \in [asked : Sides \cup {"off"}, shown : Sides \cup {"off"}],
           sample' \in [at : Places, fresh : BOOLEAN],
           pc' \in Running \cup {"start", "fault", "paused", "closing", "finish", "close",
                                 "closed"},
           requests' \in 0..MaxRequests, faults' \in 0..MaxFaults,
           down' \in [done : BOOLEAN, error : BOOLEAN]
    PROVE  ControlInv'
  <1>1. wrapped' \in BOOLEAN  BY TypeFacts
  <1>2. ControlTypes'  BY <1>1, TypesFollow
  <1> QED  BY <1>2 DEF ControlInv, Agreed

LEMMA ToggleTypes ==
    ASSUME lamp \in [asked : Sides \cup {"off"}, shown : Sides \cup {"off"}],
           NEW key \in Sides \cup {"none"}, Toggle(key)
    PROVE  lamp' \in [asked : Sides \cup {"off"}, shown : Sides \cup {"off"}]
  <1>1. CASE key = "none"  BY <1>1 DEF Toggle
  <1>2. CASE key # "none"
    <2>1. PICK read \in {lamp.shown, lamp.asked} :
             lamp' = [asked |-> IF read = key THEN "off" ELSE key, shown |-> read]
      BY <1>2 DEF Toggle
    <2>2. read \in Sides \cup {"off"}  OBVIOUS
    <2>3. (IF read = key THEN "off" ELSE key) \in Sides \cup {"off"}  BY <1>2
    <2> QED  BY <2>1, <2>2, <2>3
  <1> QED  BY <1>1, <1>2

\* Where an iteration is left as it is.
LEMMA Interrupted ==
    ASSUME ControlInv, UNCHANGED <<c, t, h, requests>>, pc' \notin Running \cup {"start"}
    PROVE  StartInv' /\ DriverInv' /\ RequestInv' /\ OneController' /\ LockIsHeld'
  <1>1. pc' # "submit" /\ c.gen \in Nat  BY TypeFacts DEF Running
  <1>2. RequestInv'  BY <1>1, RequestRests
  <1> QED  BY <1>2, Elsewhere

LEMMA InitKeeps ==
    ASSUME Init
    PROVE  ControlInv
  <1>1. c \in Controls /\ t \in Trackers /\ drv \in Inputs /\ h \in Histories
    BY DEF Init, Controls, Trackers, Inputs, Histories, NoTracker, NoInput, NoFlight, Sides
  <1>2. TypeOK
    BY ControlAssumption
    DEF Init, TypeOK, NoTracker, Sides, Places, NoA, Manual, NoFlight
  <1>3. StartInv  BY DEF Init, StartInv, InFlight, NoFlight, Busy, NoTracker
  <1>4. DriverInv /\ ShutdownInv /\ OneController /\ LockIsHeld
    BY DEF Init, DriverInv, ShutdownInv, OneController, LockIsHeld, Running
  <1>5. RequestInv  BY DEF Init, RequestInv, Busy, NoTracker
  <1> QED  BY <1>1, <1>2, <1>3, <1>4, <1>5 DEF ControlInv, ControlTypes

LEMMA StartKeeps ==
    ASSUME ControlInv, Start
    PROVE  ControlInv'
  <1>a. /\ pc = "start" /\ c \in Controls /\ t \in Trackers /\ drv \in Inputs /\ h \in Histories
        /\ UNCHANGED <<wrapped, t, drv, lamp, sample, requests>>
        /\ StartInv /\ RequestInv /\ faults \in 0..MaxFaults
    BY TypeFacts DEF Start, ControlInv
  <1>b. /\ c.mode = Manual /\ c.mode # NoA /\ ~c.registered /\ ~c.active /\ ~c.ready
        /\ c.available /\ ~InFlight(c) /\ ~Busy /\ t = NoTracker /\ ~t.submitted
    BY <1>a DEF StartInv, RequestInv, NoA, Manual, NoTracker
  <1>c. ASSUME pc' \in {"collect", "closing"}  PROVE  RequestInv' /\ ShutdownInv'
    BY <1>a, <1>b, <1>c DEF RequestInv, ShutdownInv, Busy
  <1> DEFINE Opens == /\ Agreed' /\ c' \in Controls /\ (c'.mode = NoA => c'.available)
                      /\ h' \in Histories /\ faults' \in 0..MaxFaults
                      /\ pc' \in {"collect", "closing"}
                      /\ down' \in [done : BOOLEAN, error : BOOLEAN]
  <1>1. ASSUME NEW good \in BOOLEAN, Control([c EXCEPT !.available = good]),
               \/ pc' = "collect" /\ UNCHANGED <<down, faults>>
               \/ pc' = "closing" /\ down' = [down EXCEPT !.error = TRUE] /\ UNCHANGED faults
        PROVE  Opens
    <2> DEFINE k == [c EXCEPT !.available = good]
    <2>1. /\ k \in Controls /\ k.mode = Manual /\ k.registered = FALSE /\ k.active = FALSE
          /\ k.ready = FALSE /\ k.flight = c.flight
      BY <1>a, <1>b DEF Controls
    <2> HIDE DEF k
    <2>2. c' = k /\ h' \in Histories  BY <1>1, <1>a, <2>1, ControlFields DEF k
    <2>3. StartInv' /\ DriverInv' /\ OneController' /\ LockIsHeld'
      BY <1>1, <1>b, <2>1, <2>2
      DEF StartInv, DriverInv, OneController, LockIsHeld, InFlight, NoA, Manual
    <2>4. down' \in [done : BOOLEAN, error : BOOLEAN]  BY <1>1, TypeFacts
    <2> QED  BY <1>1, <1>a, <1>c, <2>1, <2>2, <2>3, <2>4 DEF Agreed, NoA, Manual
  <1>2. ASSUME NEW answer \in Answers, NEW rollback \in Answers, Able(answer),
               Spend(answer # "done"), Control(EnterNoA(c, answer, rollback)),
               pc' = IF answer = "done" THEN "collect" ELSE "closing",
               down' = [down EXCEPT !.error = answer # "done"]
        PROVE  Opens
    <2> DEFINE n == EnterNoA(c, answer, rollback)
    <2>1. /\ n \in Controls /\ n.flight = c.flight /\ n.available = c.available
          /\ (answer = "done" => n.mode = NoA /\ n.registered /\ n.active /\ n.ready)
          /\ (answer # "done" => n.mode = c.mode)
      BY <1>a, EnterNoAFields
    <2> HIDE DEF n
    <2>2. c' = n /\ h' \in Histories  BY <1>2, <1>a, <2>1, ControlFields DEF n
    <2>3. StartInv' /\ DriverInv' /\ OneController' /\ LockIsHeld'
      <3>1. CASE answer = "done"
        BY <1>2, <1>b, <2>1, <2>2, <3>1, <1>a
        DEF StartInv, DriverInv, OneController, LockIsHeld, InFlight, NoA, Manual, Controls
      <3>2. CASE answer # "done"  BY <1>2, <3>2, Elsewhere DEF Running
      <3> QED  BY <3>1, <3>2
    <2>4. down' \in [done : BOOLEAN, error : BOOLEAN]
      <3> DEFINE e == answer # "done"
      <3>1. e \in BOOLEAN  OBVIOUS
      <3>2. down' = [down EXCEPT !.error = e]  BY <1>2
      <3> HIDE DEF e
      <3> QED  BY <3>1, <3>2, TypeFacts
    <2>5. faults' \in 0..MaxFaults  BY <1>2, <1>a, Spent
    <2> QED  BY <1>2, <1>a, <1>b, <1>c, <2>1, <2>2, <2>3, <2>4, <2>5 DEF Agreed
  <1>3. Opens  BY <1>1, <1>2 DEF Start
  <1> QED  BY <1>3, <1>a, Assembled, TypeFacts DEF Running

LEMMA CollectKeeps ==
    ASSUME ControlInv, Collect
    PROVE  ControlInv'
  <1>1. PICK hands \in Hands, key \in Sides \cup {"none"} :
          /\ drv' = [hands  |-> hands,
                     signal |-> IF key = lamp.shown THEN "none" ELSE key,
                     key    |-> IF c.mode = NoA THEN "none" ELSE key,
                     busy   |-> wrapped /\ Busy]
          /\ IF c.mode = NoA THEN Toggle(key) ELSE UNCHANGED lamp
    BY DEF Collect
  <1>2. /\ pc = "collect" /\ pc' = "update"
        /\ UNCHANGED <<wrapped, c, t, sample, requests, faults, down, h>>
    BY DEF Collect
  <1>3. drv'.busy = (wrapped /\ Busy) /\ drv' \in Inputs
    <2>1. hands \in SUBSET {"brake", "wheel", "button"}  BY DEF Hands
    <2>2. (wrapped /\ Busy) \in BOOLEAN  OBVIOUS
    <2> QED  BY <1>1, <2>1, <2>2 DEF Inputs
  <1>4. lamp' \in [asked : Sides \cup {"off"}, shown : Sides \cup {"off"}]
    BY <1>1, ToggleTypes, TypeFacts
  <1>5. Agreed'  BY <1>2, <1>3, IterationRests DEF Agreed, Running, Busy
  <1> QED  BY <1>2, <1>3, <1>4, <1>5, Assembled, TypeFacts DEF Running

LEMMA UpdateKeeps ==
    ASSUME ControlInv, Update
    PROVE  ControlInv'
  <1>1. pc = "update" /\ UNCHANGED <<wrapped, t, drv, lamp, sample, requests, down>>  BY DEF Update
  <1>2. /\ Agreed' /\ c' \in Controls /\ (c'.mode = NoA => c'.available) /\ h' \in Histories
        /\ faults' \in 0..MaxFaults /\ pc' \in Running \cup {"fault"}
    <2>1. CASE c.mode = NoA /\ TakeOver  BY <1>1, <2>1, TakeOverKeeps
    <2>2. CASE c.mode = Manual /\ Activate  BY <1>1, <2>2, ActivateKeeps
    <2>3. CASE pc' = "request" /\ UNCHANGED <<c, h, faults>>
      BY <1>1, <2>3, IterationRests, TypeFacts DEF Agreed, Running
    <2> QED  BY <2>1, <2>2, <2>3 DEF Update
  <1> QED  BY <1>1, <1>2, Assembled, TypeFacts

\* A new request, of the activation under way.
LEMMA NewRequestKeeps ==
    ASSUME ControlInv, pc = "request", Requestable, UNCHANGED <<wrapped, c>>,
           requests' = requests + 1,
           t' = [NoTracker EXCEPT !.id = requests', !.gen = c.gen, !.dir = drv.signal],
           h' = [sent |-> 0, kept |-> TRUE, fate |-> "none"], pc' = "submit"
    PROVE  Agreed' /\ t' \in Trackers /\ h' \in Histories /\ requests' \in 0..MaxRequests
  <1>1. /\ c.mode = NoA /\ ~Busy /\ c.gen \in Nat /\ requests < MaxRequests
        /\ requests \in 0..MaxRequests /\ drv.signal \in Sides \cup {"none"}
        /\ t = NoTracker /\ c.mode # Manual /\ LockIsHeld /\ OneController /\ pc \in Running
    BY TypeFacts DEF Requestable, Inputs, ControlInv, RequestInv, NoA, Manual, Running
  <1>2. requests' \in 0..MaxRequests /\ requests' \in Nat /\ requests' # 0
    BY <1>1, ControlAssumption
  <1>3. /\ t' \in Trackers /\ t'.id = requests' /\ t'.gen = c.gen /\ t'.submitted = FALSE
        /\ t'.consumed = FALSE
    BY <1>1, <1>2 DEF NoTracker, Trackers, Sides
  <1>4. ~InFlight(c) /\ ~t.submitted  BY <1>1 DEF LockIsHeld, NoTracker
  <1>5. h' \in Histories /\ h'.sent = 0 /\ h'.kept  BY DEF Histories
  <1>6. StartInv' /\ DriverInv' /\ ShutdownInv'  BY <1>1 DEF StartInv, DriverInv, ShutdownInv
  <1>7. OneController' /\ LockIsHeld'  BY <1>1, <1>3, <1>4 DEF OneController, LockIsHeld, InFlight
  <1>8. Busy' /\ t'.gen <= c'.gen  BY <1>1, <1>2, <1>3 DEF Busy
  <1>9. RequestInv'  BY <1>1, <1>3, <1>5, <1>8 DEF RequestInv
  <1> QED  BY <1>2, <1>3, <1>5, <1>6, <1>7, <1>9 DEF Agreed

LEMMA RequestKeeps ==
    ASSUME ControlInv, Request
    PROVE  ControlInv'
  <1>1. /\ pc = "request" /\ UNCHANGED <<wrapped, c, lamp, faults, down>>
        /\ drv' = [drv EXCEPT !.hands = @ \cap {"brake"}, !.signal = "none"]
    BY DEF Request
  <1>2. drv' \in Inputs  BY <1>1, TypeFacts DEF Inputs
  <1>3. CASE Busy /\ c.mode = Manual /\ Finish /\ pc' = "drive" /\ UNCHANGED <<sample, requests>>
    <2>1. ~InFlight(c)  BY <1>1, <1>3 DEF ControlInv, DriverInv, Running
    <2>2. Drop("given up")  BY <1>3, <2>1 DEF Finish
    <2>3. Kept  BY <1>1, <1>3, <2>1, <2>2, DropKeeps DEF Kept, Agreed, Running
    <2> QED  BY <1>1, <1>2, <1>3, <2>3, Assembled, TypeFacts DEF Kept, Running
  <1>4. CASE /\ Requestable /\ requests' = requests + 1
             /\ t' = [NoTracker EXCEPT !.id = requests', !.gen = c.gen, !.dir = drv.signal]
             /\ h' = [sent |-> 0, kept |-> TRUE, fate |-> "none"]
             /\ sample' = [sample EXCEPT !.at = "lane"] /\ pc' = "submit"
    <2>1. Agreed' /\ t' \in Trackers /\ h' \in Histories /\ requests' \in 0..MaxRequests
      BY <1>1, <1>4, NewRequestKeeps
    <2>2. sample' \in [at : Places, fresh : BOOLEAN]  BY <1>4, TypeFacts DEF Places
    <2> QED  BY <1>1, <1>2, <1>4, <2>1, <2>2, Assembled, TypeFacts DEF Running
  <1>5. CASE pc' = "drive" /\ UNCHANGED <<t, h, sample, requests>>
    <2>1. Agreed'  BY <1>1, <1>5, IterationRests DEF Agreed, Running
    <2> QED  BY <1>1, <1>2, <1>5, <2>1, Assembled, TypeFacts DEF Running
  <1> QED  BY <1>3, <1>4, <1>5 DEF Request

LEMMA SubmitTypes ==
    ASSUME NEW next \in {"drive", "collect"}, ControlInv, Submit(next)
    PROVE  /\ pc' \in Running \cup {"fault"} /\ faults' \in 0..MaxFaults
           /\ sample' \in [at : Places, fresh : BOOLEAN]
  <1>1. next \in Running  BY DEF Running
  <1>2. /\ pc' = next \/ pc' = "fault"
        /\ faults' = faults \/ (faults < MaxFaults /\ faults' = faults + 1)
        /\ sample' = sample \/ sample' = [sample EXCEPT !.fresh = FALSE]
    BY DEF Submit, WaitForSignal, ForceChange
  <1>3. faults' \in 0..MaxFaults  BY <1>2, TypeFacts, ControlAssumption
  <1>4. sample' \in [at : Places, fresh : BOOLEAN]  BY <1>2, TypeFacts
  <1> QED  BY <1>1, <1>2, <1>3, <1>4

LEMMA SubmitNowKeeps ==
    ASSUME ControlInv, SubmitNow
    PROVE  ControlInv'
  <1>1. pc = "submit" /\ Submit("drive") /\ UNCHANGED <<wrapped, drv, lamp, requests, down>>
    BY DEF SubmitNow
  <1>2. Busy /\ ~t.submitted  BY <1>1 DEF ControlInv, RequestInv
  <1>3. Kept  BY <1>1, <1>2, SubmitKeeps DEF Running
  <1>4. /\ pc' \in Running \cup {"fault"} /\ faults' \in 0..MaxFaults
        /\ sample' \in [at : Places, fresh : BOOLEAN]
    BY <1>1, SubmitTypes
  <1> QED  BY <1>1, <1>3, <1>4, Assembled, TypeFacts DEF Kept

LEMMA DriveKeeps ==
    ASSUME ControlInv, Drive
    PROVE  ControlInv'
  <1>1. /\ pc = "drive" /\ pc' = "after" /\ Toggle(drv.key)
        /\ drv' = [drv EXCEPT !.key = "none"]
        /\ UNCHANGED <<wrapped, c, t, sample, requests, faults, down, h>>
    BY DEF Drive
  <1>2. drv.key \in Sides \cup {"none"} /\ drv' \in Inputs  BY <1>1, TypeFacts DEF Inputs
  <1>3. lamp' \in [asked : Sides \cup {"off"}, shown : Sides \cup {"off"}]
    BY <1>1, <1>2, ToggleTypes, TypeFacts
  <1>4. Agreed'  BY <1>1, IterationRests DEF Agreed, Running
  <1> QED  BY <1>1, <1>2, <1>3, <1>4, Assembled, TypeFacts DEF Running

LEMMA AfterControlKeeps ==
    ASSUME ControlInv, AfterControl
    PROVE  ControlInv'
  <1>1. /\ pc = "after" /\ pc' = "observe" /\ drv' = NoInput
        /\ UNCHANGED <<wrapped, t, lamp, requests, faults, down>>
        /\ IF c.mode = Manual THEN \E good \in BOOLEAN : Control(Gated(good))
           ELSE UNCHANGED <<c, h>>
        /\ \/ UNCHANGED sample
           \/ \E at \in Seen : sample' = [at |-> at, fresh |-> TRUE]
    BY DEF AfterControl
  <1>2. sample' \in [at : Places, fresh : BOOLEAN] /\ drv' \in Inputs
    <2>1. NoInput \in Inputs  BY DEF NoInput, Inputs
    <2>2. Seen \subseteq Places  BY DEF Seen, Places
    <2>3. CASE UNCHANGED sample  BY <1>1, <2>1, <2>3, TypeFacts
    <2>4. CASE \E at \in Seen : sample' = [at |-> at, fresh |-> TRUE]  BY <1>1, <2>1, <2>2, <2>4
    <2> QED  BY <1>1, <2>3, <2>4
  <1>3. Agreed' /\ c' \in Controls /\ h' \in Histories /\ (c'.mode = NoA => c'.available)
    <2>1. CASE c.mode # Manual  BY <1>1, <2>1, IterationRests, TypeFacts DEF Agreed, Running
    <2>2. CASE c.mode = Manual
      <3>1. PICK good \in BOOLEAN : Control(Gated(good))  BY <1>1, <2>2
      <3> DEFINE k == Gated(good)
                 passes == GatePasses(good)
      <3>2. k = [c EXCEPT !.available = passes] /\ passes \in BOOLEAN  BY DEF Gated, GatePasses
      <3> HIDE DEF passes
      <3>3. /\ k \in Controls /\ k.mode = Manual /\ k.gen = c.gen /\ k.flight = c.flight
            /\ k.registered = c.registered /\ k.active = c.active /\ k.ready = c.ready
        BY <2>2, <3>2, TypeFacts DEF Controls
      <3>4. Control(k)  BY <3>1
      <3> HIDE DEF k
      <3>5. c' = k /\ h' \in Histories /\ h'.sent = h.sent  BY <3>3, <3>4, TypeFacts, ControlFields
      <3>6. RequestInv'  BY <1>1, <2>2, <3>3, <3>5, TypeFacts, RequestRests
      <3>7. OneController /\ ~InFlight(c)  BY <1>1, <2>2 DEF ControlInv, DriverInv, Running
      <3>8. StartInv' /\ DriverInv' /\ OneController' /\ LockIsHeld' /\ ShutdownInv'
        BY <1>1, <2>2, <3>3, <3>5, <3>7
        DEF StartInv, DriverInv, OneController, LockIsHeld, ShutdownInv, InFlight, Running,
            NoA, Manual
      <3> QED  BY <3>3, <3>5, <3>6, <3>8 DEF Agreed, NoA, Manual
    <2> QED  BY <2>1, <2>2
  <1> QED  BY <1>1, <1>2, <1>3, Assembled, TypeFacts DEF Running

LEMMA ObserveKeeps ==
    ASSUME ControlInv, Observe
    PROVE  ControlInv'
  <1>1. pc = "observe" /\ UNCHANGED <<wrapped, drv, requests, down>>  BY DEF Observe
  <1>a. "collect" \in {"drive", "collect"} /\ "collect" \in Running \ {"submit", "update"}
    BY DEF Running
  <1>2. CASE Busy /\ ~t.submitted /\ Submit("collect") /\ UNCHANGED lamp
    <2>1. Kept  BY <1>1, <1>2, <1>a, SubmitKeeps DEF Running
    <2>2. /\ pc' \in Running \cup {"fault"} /\ faults' \in 0..MaxFaults
          /\ sample' \in [at : Places, fresh : BOOLEAN]
      BY <1>2, <1>a, SubmitTypes
    <2> QED  BY <1>1, <1>2, <2>1, <2>2, Assembled, TypeFacts DEF Kept
  <1>b. ASSUME sample' = [sample EXCEPT !.fresh = FALSE]
        PROVE  sample' \in [at : Places, fresh : BOOLEAN]
    BY <1>b, TypeFacts
  <1>3. CASE /\ t.submitted /\ Track /\ pc' = "collect" /\ UNCHANGED faults
             /\ sample' = [sample EXCEPT !.fresh = FALSE]
    <2>1. Busy  BY <1>3 DEF ControlInv, RequestInv, NoTracker
    <2>2. Kept  BY <1>1, <1>3, <1>a, <2>1, TrackKeeps DEF Running
    <2>3. lamp' \in [asked : Sides \cup {"off"}, shown : Sides \cup {"off"}]
      BY <1>3, TypeFacts DEF Track, Complete, ClearSignal
    <2> QED  BY <1>1, <1>3, <1>a, <1>b, <2>2, <2>3, Assembled, TypeFacts DEF Kept
  <1>4. CASE /\ pc' = "collect" /\ sample' = [sample EXCEPT !.fresh = FALSE]
             /\ UNCHANGED <<c, t, h, lamp, faults>>
    <2>1. Agreed'  BY <1>1, <1>4, IterationRests DEF Agreed, Running
    <2> QED  BY <1>1, <1>4, <1>a, <1>b, <2>1, Assembled, TypeFacts
  <1> QED  BY <1>2, <1>3, <1>4 DEF Observe

(* The interruptions and the end. *)
LEMMA FaultKeeps ==
    ASSUME ControlInv, Fault
    PROVE  ControlInv'
  <1>1. /\ faults < MaxFaults /\ faults' = faults + 1 /\ pc' = "fault"
        /\ UNCHANGED <<wrapped, c, t, drv, lamp, sample, requests, down, h>>
    BY DEF Fault
  <1>2. faults' \in 0..MaxFaults  BY <1>1, TypeFacts, ControlAssumption
  <1>3. Agreed'  BY <1>1, Interrupted DEF Agreed, ShutdownInv, Running
  <1> QED  BY <1>1, <1>2, <1>3, Assembled, TypeFacts

LEMMA HandleKeeps ==
    ASSUME ControlInv, Handle
    PROVE  ControlInv'
  <1>1. /\ pc' = "paused" /\ drv' = NoInput
        /\ UNCHANGED <<wrapped, t, lamp, sample, requests, faults, down>>
    BY DEF Handle
  <1>2. PICK answer \in Answers : Control(RequestManual(c, answer))  BY DEF Handle
  <1>3. /\ StartInv' /\ DriverInv' /\ RequestInv' /\ OneController' /\ LockIsHeld'
        /\ c' \in Controls /\ (c'.mode = NoA => c'.available) /\ h' \in Histories
    BY <1>1, <1>2, ReleaseKeeps DEF Running
  <1>4. Agreed'  BY <1>1, <1>3 DEF Agreed, ShutdownInv
  <1>5. drv' \in Inputs  BY <1>1 DEF NoInput, Inputs
  <1> QED  BY <1>1, <1>3, <1>4, <1>5, Assembled, TypeFacts

LEMMA ResumeKeeps ==
    ASSUME ControlInv, Resume
    PROVE  ControlInv'
  <1>1. UNCHANGED <<wrapped, t, drv, lamp, requests, faults, down>>  BY DEF Resume
  <1>2. CASE /\ Control(RequestManual(c, "done")) /\ pc' = "collect"
             /\ \E at \in Seen : sample' = [at |-> at, fresh |-> TRUE]
    <2> DEFINE r == RequestManual(c, "done")
    <2>1. "done" \in Answers /\ Seen \subseteq Places /\ c \in Controls /\ c.gen \in Nat
      BY TypeFacts DEF Answers, Seen, Places
    <2>2. r \in Controls /\ r.gen = c.gen + 1 /\ Released(r) /\ r.mode = Manual
      BY <2>1, RequestManualFields
    <2>3. Control(r)  BY <1>2
    <2> HIDE DEF r
    <2>4. r.gen > c.gen /\ r.mode # NoA  BY <2>1, <2>2 DEF NoA, Manual
    <2>5. pc' \in Running \ {"submit", "update"}  BY <1>2 DEF Running
    <2>6. Agreed' /\ c' \in Controls /\ (c'.mode = NoA => c'.available) /\ h' \in Histories
      BY <1>1, <2>2, <2>3, <2>4, <2>5, HandedBack
    <2>7. sample' \in [at : Places, fresh : BOOLEAN]  BY <1>2, <2>1
    <2> QED  BY <1>1, <2>5, <2>6, <2>7, Assembled, TypeFacts
  <1>3. CASE /\ \E answer \in Answers : Control(RequestManual(c, answer))
             /\ pc' = "paused" /\ UNCHANGED sample
    <2>1. PICK answer \in Answers : Control(RequestManual(c, answer))  BY <1>3
    <2>2. /\ StartInv' /\ DriverInv' /\ RequestInv' /\ OneController' /\ LockIsHeld'
          /\ c' \in Controls /\ (c'.mode = NoA => c'.available) /\ h' \in Histories
      BY <1>1, <1>3, <2>1, ReleaseKeeps DEF Running
    <2>3. Agreed'  BY <1>3, <2>2 DEF Agreed, ShutdownInv
    <2> QED  BY <1>1, <1>3, <2>2, <2>3, Assembled, TypeFacts
  <1> QED  BY <1>2, <1>3 DEF Resume

LEMMA StopKeeps ==
    ASSUME ControlInv, Stop
    PROVE  ControlInv'
  <1>1. /\ pc' = "closing"
        /\ UNCHANGED <<wrapped, c, t, drv, lamp, sample, requests, faults, down, h>>
    BY DEF Stop
  <1>2. Agreed'  BY <1>1, Interrupted DEF Agreed, ShutdownInv, Running
  <1> QED  BY <1>1, <1>2, Assembled, TypeFacts

LEMMA ShutdownKeeps ==
    ASSUME ControlInv, Shutdown
    PROVE  ControlInv'
  <1>1. pc' = "finish" /\ UNCHANGED <<wrapped, t, drv, lamp, sample, requests, faults>>
    BY DEF Shutdown
  <1>2. PICK answer \in Answers, braked \in BOOLEAN :
          /\ Control(RequestManual(c, answer))
          /\ down' = [done  |-> answer = "done" /\ braked,
                      error |-> down.error \/ answer # "done" \/ ~braked]
    BY DEF Shutdown
  <1>3. /\ StartInv' /\ DriverInv' /\ RequestInv' /\ OneController' /\ LockIsHeld'
        /\ c' \in Controls /\ (c'.mode = NoA => c'.available) /\ h' \in Histories
        /\ (answer = "done" => Released(c') /\ c'.mode = Manual)
    BY <1>1, <1>2, ReleaseKeeps DEF Running
  <1> DEFINE done == answer = "done" /\ braked
             error == down.error \/ answer # "done" \/ ~braked
  <1>4. down' = [done |-> done, error |-> error]  BY <1>2
  <1>5. done \in BOOLEAN /\ error \in BOOLEAN /\ (~error => done /\ answer = "done")  BY TypeFacts
  <1> HIDE DEF done, error
  <1>6. down' \in [done : BOOLEAN, error : BOOLEAN] /\ down'.done = done /\ down'.error = error
    BY <1>4, <1>5
  <1>7. ShutdownInv'  BY <1>1, <1>3, <1>5, <1>6 DEF ShutdownInv, Released, InFlight, NoFlight
  <1>8. Agreed'  BY <1>3, <1>7 DEF Agreed
  <1> QED  BY <1>1, <1>3, <1>6, <1>8, Assembled, TypeFacts

LEMMA FinishObservationKeeps ==
    ASSUME ControlInv, FinishObservation
    PROVE  ControlInv'
  <1>1. /\ pc = "finish" /\ pc' = "close"
        /\ UNCHANGED <<wrapped, c, drv, lamp, sample, requests, faults, down>>
    BY DEF FinishObservation
  <1>a. /\ t \in Trackers /\ h \in Histories /\ c.gen \in Nat
        /\ ~down.error => down.done /\ ~c.registered /\ ~InFlight(c)
    BY <1>1, TypeFacts DEF ControlInv, ShutdownInv
  <1>2. pc' \notin Running \cup {"start"}  BY <1>1 DEF Running
  <1>3. RequestInv' /\ t' \in Trackers /\ h' \in Histories
        /\ (~InFlight(c) => ~Busy')
    <2>1. CASE ~Busy /\ UNCHANGED <<t, h>>  BY <1>1, <1>2, <1>a, <2>1, Interrupted DEF Busy
    <2>2. CASE Busy /\ InFlight(c) /\ t' = [t EXCEPT !.blind = "latched"] /\ UNCHANGED h
      <3>1. SameRequest  BY <1>a, <2>2 DEF SameRequest, Trackers
      <3>2. RequestInv'  BY <1>1, <2>2, <3>1 DEF SameRequest, ControlInv, RequestInv, Busy
      <3> QED  BY <1>a, <2>2, <3>1, <3>2 DEF SameRequest
    <2>3. CASE Drop("given up")
      <3>1. t' = NoTracker /\ t' \in Trackers /\ ~Busy'
        BY <2>3 DEF Drop, NoTracker, Trackers, Busy, Sides
      <3>2. h' \in Histories  BY <1>a, <2>3 DEF Drop, Histories
      <3>3. RequestInv'  BY <1>1, <3>1 DEF RequestInv
      <3> QED  BY <3>1, <3>2, <3>3
    <2> QED  BY <2>1, <2>2, <2>3 DEF FinishObservation, Finish
  <1>4. ShutdownInv'  BY <1>1, <1>a, <1>3 DEF ShutdownInv, InFlight
  <1>5. Agreed'  BY <1>2, <1>3, <1>4, Elsewhere DEF Agreed
  <1> QED  BY <1>1, <1>3, <1>5, Assembled, TypeFacts

LEMMA CloseKeeps ==
    ASSUME ControlInv, Close
    PROVE  ControlInv'
  <1>1. /\ pc = "close" /\ pc' = "closed"
        /\ UNCHANGED <<wrapped, t, drv, lamp, sample, requests, faults, down>>
    BY DEF Close
  <1>2. pc' \notin Running \cup {"start"}  BY <1>1 DEF Running
  <1>3. ShutdownInv /\ (pc \in {"finish", "close", "closed"})  BY <1>1 DEF ControlInv
  <1>4. CASE UNCHANGED <<c, h>>
    <2>1. Agreed'  BY <1>1, <1>2, <1>3, <1>4, Interrupted DEF Agreed, ShutdownInv, InFlight, Busy
    <2> QED  BY <1>1, <1>4, <2>1, Assembled, TypeFacts
  <1>5. CASE ~down.done /\ \E answer \in Answers : Control(RequestManual(c, answer))
    <2>1. PICK answer \in Answers : Control(RequestManual(c, answer))  BY <1>5
    <2>2. /\ StartInv' /\ DriverInv' /\ RequestInv' /\ OneController' /\ LockIsHeld'
          /\ c' \in Controls /\ (c'.mode = NoA => c'.available) /\ h' \in Histories
      BY <1>1, <1>2, <2>1, ReleaseKeeps
    <2>3. Agreed'  BY <1>1, <1>3, <1>5, <2>2 DEF Agreed, ShutdownInv
    <2> QED  BY <1>1, <2>2, <2>3, Assembled, TypeFacts
  <1> QED  BY <1>4, <1>5 DEF Close

LEMMA RestKeeps ==
    ASSUME ControlInv, UNCHANGED <<wrapped, c, t, drv, pc, requests, faults, down, h>>
    PROVE  Agreed'
  BY DEF ControlInv, Agreed, StartInv, DriverInv, RequestInv, ShutdownInv, OneController,
         LockIsHeld, InFlight, Busy

LEMMA LampShownKeeps ==
    ASSUME ControlInv, LampShown
    PROVE  ControlInv'
  <1>1. /\ lamp' = [lamp EXCEPT !.shown = lamp.asked]
        /\ UNCHANGED <<wrapped, c, t, drv, sample, pc, requests, faults, down, h>>
    BY DEF LampShown
  <1>2. lamp' \in [asked : Sides \cup {"off"}, shown : Sides \cup {"off"}]  BY <1>1, TypeFacts
  <1>3. Agreed'  BY <1>1, RestKeeps
  <1> QED  BY <1>1, <1>2, <1>3, Assembled, TypeFacts

LEMMA SecondOverKeeps ==
    ASSUME ControlInv, SecondOver
    PROVE  ControlInv'
  <1>1. /\ t.wait = "yes" /\ t' = [t EXCEPT !.wait = "over"]
        /\ UNCHANGED <<wrapped, c, drv, lamp, sample, pc, requests, faults, down, h>>
    BY DEF SecondOver
  <1>2. Busy  BY <1>1 DEF ControlInv, RequestInv, NoTracker
  <1>3. t \in Trackers  BY TypeFacts
  <1>4. SameRequest  BY <1>1, <1>3 DEF SameRequest, Trackers
  <1>5. Agreed'  BY <1>1, <1>2, <1>4, TrackerRests
  <1> QED  BY <1>1, <1>4, <1>5, Assembled, TypeFacts DEF SameRequest

LEMMA ControlStep ==
    ASSUME ControlInv, [Next]_vars
    PROVE  ControlInv'
  <1>1. CASE UNCHANGED vars
    <2>1. Agreed'  BY <1>1, RestKeeps DEF vars
    <2> QED  BY <1>1, <2>1, Assembled, TypeFacts DEF vars
  <1>2. CASE Iterate
    BY <1>2, StartKeeps, CollectKeeps, UpdateKeeps, RequestKeeps, SubmitNowKeeps, DriveKeeps,
       AfterControlKeeps, ObserveKeeps, HandleKeeps, ShutdownKeeps, FinishObservationKeeps,
       CloseKeeps DEF Iterate
  <1> QED
    BY <1>1, <1>2, FaultKeeps, ResumeKeeps, StopKeeps, LampShownKeeps, SecondOverKeeps DEF Next

\* The inductive invariant of one drive: who drives, what is in flight, and which request
\* it belongs to, at every point of the iteration and after every failed call.
THEOREM ControlInvariance == Spec => []ControlInv
  <1>1. Init => ControlInv  BY InitKeeps
  <1>2. ControlInv /\ [Next]_vars => ControlInv'  BY ControlStep
  <1> QED  BY <1>1, <1>2, PTL DEF Spec

\* One party commands the vehicle in every drive: the mode, the registration at the Traffic
\* Manager and the backend agree, a lane change in flight is the observed one of this
\* activation, and a drive that ends without an error has released and settled everything.
THEOREM OneCommanderHolds == Spec => []OneCommander
  <1>1. ControlInv => OneCommander
    BY DEF ControlInv, ControlTypes, OneCommander, ShutdownInv, QuietEnd
  <1> QED  BY <1>1, ControlInvariance, PTL

(* The refinement of LaneChangeOrder. *)
OrderStep == [Order!Next]_(Order!vars)

\* The stages a request can be in, before and after a step.
LEMMA Stages ==
    ASSUME ControlInv
    PROVE  /\ ~Busy => Stage = h.fate /\ Stage \notin {"asked", "sent"}
           /\ Busy /\ h.sent = 0 => Stage = "asked"
           /\ Busy /\ h.sent = 1 => Stage = "sent"
           /\ Busy => Stage \in {"asked", "sent"}
           /\ h \in Histories
  <1>1. h \in Histories  BY TypeFacts
  <1>2. h.sent \in {0, 1} /\ h.fate \notin {"asked", "sent"}  BY <1>1 DEF Histories
  <1>3. ~Busy => Stage = h.fate  BY DEF Stage
  <1>4. Busy /\ h.sent = 0 => Stage = "asked"  BY DEF Stage
  <1>5. Busy /\ h.sent = 1 => Stage = "sent"  BY DEF Stage
  <1> QED  BY <1>1, <1>2, <1>3, <1>4, <1>5

\* The request and its history are as they were.
LEMMA OrderRests ==
    ASSUME t'.id = t.id, h' = h
    PROVE  OrderStep
  <1>1. Stage' = Stage /\ h'.kept = h.kept  BY DEF Stage, Busy
  <1> QED  BY <1>1 DEF OrderStep, Order!vars

\* The vehicle is perhaps released: the automation that was asked has ended.
LEMMA OrderControl ==
    ASSUME ControlInv, ControlInv', NEW k, Control(k), UNCHANGED t
    PROVE  OrderStep
  <1>1. c' = k  BY DEF Control
  <1>2. k \in Controls /\ h \in Histories  BY <1>1, TypeFacts DEF ControlInv, ControlTypes
  <1>3. /\ h' \in Histories /\ h'.sent = h.sent /\ h'.fate = h.fate
        /\ h'.kept = (h.kept /\ k.registered)
    BY <1>2, ControlFields
  <1>4. Stage' = Stage  BY <1>3 DEF Stage, Busy
  <1>5. h'.kept = h.kept \/ (h.kept /\ h'.kept = FALSE)  BY <1>2, <1>3 DEF Histories, Controls
  <1> QED  BY <1>4, <1>5 DEF OrderStep, Order!vars, Order!Next, Order!Release

\* The request is given up, whatever has become of the automation.
LEMMA OrderGivenUp ==
    ASSUME ControlInv, Busy, Drop("given up")
    PROVE  OrderStep
  <1>1. Stage \in {"asked", "sent"} /\ h \in Histories  BY Stages
  <1>2. ~Busy' /\ h' = [h EXCEPT !.fate = "given up", !.sent = 0]  BY DEF Drop, Busy, NoTracker
  <1>3. h'.fate = "given up" /\ h'.kept = h.kept  BY <1>1, <1>2 DEF Histories
  <1>4. Stage' = "given up"  BY <1>2, <1>3 DEF Stage
  <1> QED  BY <1>1, <1>3, <1>4 DEF OrderStep, Order!Next, Order!GiveUp, Order!Open

\* It is completed only where it was sent and the automation has driven since.
LEMMA OrderCompleted ==
    ASSUME ControlInv, Busy, t.submitted, t.gen = c.gen, Drop("completed")
    PROVE  OrderStep
  <1>1. h.sent = 1 /\ h.kept /\ Stage = "sent" /\ h \in Histories
    BY Stages DEF ControlInv, RequestInv
  <1>2. ~Busy' /\ h' = [h EXCEPT !.fate = "completed", !.sent = 0]  BY DEF Drop, Busy, NoTracker
  <1>3. h'.fate = "completed" /\ h'.kept = h.kept  BY <1>1, <1>2 DEF Histories
  <1>4. Stage' = "completed"  BY <1>2, <1>3 DEF Stage
  <1> QED  BY <1>1, <1>3, <1>4 DEF OrderStep, Order!Next, Order!Complete

\* It is sent where nothing was sent for it, to the automation it was made under.
LEMMA OrderSent ==
    ASSUME ControlInv, Busy, Admitted, NEW next, ForceChange(next)
    PROVE  OrderStep
  <1>1. h.sent = 0 /\ h.kept /\ Stage = "asked" /\ h \in Histories /\ t \in Trackers
    BY Stages, TypeFacts DEF ControlInv, RequestInv, Admitted
  <1> DEFINE n == IF h.sent < 2 THEN h.sent + 1 ELSE h.sent
  <1>2. h' = [h EXCEPT !.sent = n]  BY DEF ForceChange
  <1>3. n = 1  BY <1>1
  <1> HIDE DEF n
  <1>4. h'.sent = 1 /\ h'.kept = h.kept  BY <1>1, <1>2, <1>3 DEF Histories
  <1>5. t'.id = t.id  BY <1>1 DEF ForceChange, Marked, Trackers
  <1>6. Stage' = "sent"  BY <1>4, <1>5 DEF Stage, Busy
  <1> QED  BY <1>1, <1>4, <1>6 DEF OrderStep, Order!Next, Order!Send

LEMMA OrderSubmit ==
    ASSUME ControlInv, Busy, NEW next, Submit(next)
    PROVE  OrderStep
  <1>1. t \in Trackers  BY TypeFacts
  <1>2. CASE Drop("given up")  BY <1>2, OrderGivenUp
  <1>3. CASE (t' = [t EXCEPT !.wait = "yes"] \/ t' = [t EXCEPT !.consumed = TRUE]) /\ h' = h
    <2>1. t'.id = t.id  BY <1>1, <1>3 DEF Trackers
    <2> QED  BY <1>3, <2>1, OrderRests
  <1>4. CASE Admitted /\ ForceChange(next)  BY <1>4, OrderSent
  <1>5. \/ Drop("given up")
        \/ Admitted /\ ForceChange(next)
        \/ (t' = [t EXCEPT !.wait = "yes"] \/ t' = [t EXCEPT !.consumed = TRUE]) /\ h' = h
    BY DEF Submit, WaitForSignal
  <1> QED  BY <1>2, <1>3, <1>4, <1>5

LEMMA OrderTrack ==
    ASSUME ControlInv, t.submitted, Track
    PROVE  OrderStep
  <1>1. t \in Trackers /\ Busy  BY TypeFacts DEF ControlInv, RequestInv, NoTracker
  <1>2. \/ Drop("given up")
        \/ Drop("completed") /\ t.gen = c.gen
        \/ (\E s : t' = [t EXCEPT !.blind = "no", !.seen = s]) /\ h' = h
        \/ t' = [t EXCEPT !.blind = "gap"] /\ h' = h
    BY DEF Track, Complete
  <1>3. CASE /\ \/ \E s : t' = [t EXCEPT !.blind = "no", !.seen = s]
                \/ t' = [t EXCEPT !.blind = "gap"]
             /\ h' = h
    <2>1. t'.id = t.id  BY <1>1, <1>3 DEF Trackers
    <2> QED  BY <1>3, <2>1, OrderRests
  <1> QED  BY <1>1, <1>2, <1>3, OrderGivenUp, OrderCompleted

\* A new request is made where none is open, under an automation that drives.
LEMMA OrderAsked ==
    ASSUME ControlInv, ControlInv', ~Busy, t'.id = requests', requests' = requests + 1,
           h' = [sent |-> 0, kept |-> TRUE, fate |-> "none"]
    PROVE  OrderStep
  <1>1. Stage \notin {"asked", "sent"}  BY Stages
  <1>2. requests' # 0
    <2>1. requests \in Nat  BY TypeFacts, ControlAssumption
    <2> QED  BY <2>1
  <1>3. h'.sent = 0 /\ h'.kept = TRUE  OBVIOUS
  <1>4. Stage' = "asked"  BY <1>2, <1>3 DEF Stage, Busy
  <1> QED  BY <1>1, <1>3, <1>4 DEF OrderStep, Order!Next, Order!Ask, Order!Open

LEMMA OrderFinish ==
    ASSUME ControlInv, Busy, Finish
    PROVE  OrderStep
  <1>1. CASE t' = [t EXCEPT !.blind = "latched"] /\ UNCHANGED h
    <2>1. t'.id = t.id  BY <1>1, TypeFacts DEF Trackers
    <2> QED  BY <1>1, <2>1, OrderRests
  <1>2. CASE Drop("given up")  BY <1>2, OrderGivenUp
  <1> QED  BY <1>1, <1>2 DEF Finish

LEMMA OrderOfStep ==
    ASSUME ControlInv, ControlInv', [Next]_vars
    PROVE  OrderStep
  <1>1. CASE UNCHANGED vars  BY <1>1, OrderRests DEF vars
  <1>2. CASE Start \/ AfterControl \/ Handle \/ Resume \/ Shutdown \/ Close
    <2>1. UNCHANGED t /\ (h' = h \/ \E k : Control(k))
      BY <1>2 DEF Start, AfterControl, Handle, Resume, Shutdown, Close
    <2> QED  BY <2>1, OrderControl, OrderRests
  <1>3. CASE Update
    <2>1. UNCHANGED t /\ (h' = h \/ \E k : Control(k))  BY <1>3 DEF Update, TakeOver, Activate
    <2> QED  BY <2>1, OrderControl, OrderRests
  <1>4. CASE Collect \/ Drive \/ Fault \/ Stop \/ LampShown
    <2>1. t' = t /\ h' = h  BY <1>4 DEF Collect, Drive, Fault, Stop, LampShown
    <2> QED  BY <2>1, OrderRests
  <1>5. CASE Request
    <2>1. CASE Busy /\ Finish  BY <2>1, OrderFinish
    <2>2. CASE /\ Requestable /\ requests' = requests + 1
               /\ t' = [NoTracker EXCEPT !.id = requests', !.gen = c.gen, !.dir = drv.signal]
               /\ h' = [sent |-> 0, kept |-> TRUE, fate |-> "none"]
      <3>1. t'.id = requests' /\ ~Busy  BY <2>2 DEF NoTracker, Requestable
      <3> QED  BY <2>2, <3>1, OrderAsked
    <2>3. CASE UNCHANGED <<t, h>>  BY <2>3, OrderRests
    <2> QED  BY <1>5, <2>1, <2>2, <2>3 DEF Request
  <1>6. CASE SubmitNow
    <2>1. Busy /\ Submit("drive")  BY <1>6 DEF SubmitNow, ControlInv, RequestInv
    <2> QED  BY <2>1, OrderSubmit
  <1>7. CASE Observe
    <2>1. \/ Busy /\ Submit("collect")
          \/ t.submitted /\ Track
          \/ UNCHANGED <<t, h>>
      BY <1>7 DEF Observe
    <2> QED  BY <2>1, OrderSubmit, OrderTrack, OrderRests
  <1>8. CASE FinishObservation
    <2>1. (Busy /\ Finish) \/ UNCHANGED <<t, h>>  BY <1>8 DEF FinishObservation
    <2> QED  BY <2>1, OrderFinish, OrderRests
  <1>9. CASE SecondOver
    <2>1. t'.id = t.id /\ h' = h  BY <1>9, TypeFacts DEF SecondOver, Trackers
    <2> QED  BY <2>1, OrderRests
  <1> QED  BY <1>1, <1>2, <1>3, <1>4, <1>5, <1>6, <1>7, <1>8, <1>9 DEF Next, Iterate

\* A lane change request is sent once at most, only to the automation it was made under,
\* and completed only if that automation drove all the time: the drive implements
\* LaneChangeOrder, whatever fails or times out.
THEOREM OrderIsKept == Spec => OrderSpec
  <1>1. Init => Order!Init  BY DEF Init, Order!Init, Stage, Busy, NoTracker
  <1>2. ControlInv /\ ControlInv' /\ [Next]_vars => [Order!Next]_(Order!vars)
    BY OrderOfStep DEF OrderStep
  <1> QED  BY <1>1, <1>2, ControlInvariance, PTL DEF Spec, OrderSpec, Order!Spec
=============================================================================
