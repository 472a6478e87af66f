----------------------------- MODULE DriveProofs -----------------------------
(***************************************************************************)
(* Proofs about DriveLifecycle: what a drive opened is given back, its      *)
(* rows tell its stages and its end as they were, the clock accepts them,   *)
(* and the vehicle is never given up while it is driven, for every          *)
(* configuration and any number of failures and frames.                     *)
(***************************************************************************)
EXTENDS DriveLifecycle, FiniteSetTheorems, TLAPS

(* Places of a drive. *)
Unspawned == {"open", "p6", "preflight", "spawn"}
Building == {"record", "probe", "bundle", "viewer", "attach", "wire"}
Abandoning == {"abandonProbe", "abandonViewer", "abandonHero"}
Priming == {"attempt", "speed", "initial", "noControl", "gear", "halt", "engage", "confirm", "input"}
Preparing == {"initialize", "p6start", "start", "scene"}
Looping == {"frame", "control", "after", "endDrive", "follow", "begin", "endFollow", "abandonFollow",
            "collision", "closeContact", "releaseContact", "holdContact", "leave", "measure", "final",
            "hook"}
Stopping == {"finalizeScene", "shutdown"}
Reporting == {"observation", "flush1", "record1", "exit", "stopP6", "summary", "flush2", "violation",
              "rethrow", "report", "endStage"}
Closing == {"deactivate", "closeProbe", "closeP6", "closeViewer", "closeHero"}
Last == {"lastP6", "closeLog", "done"}

(* What the drive holds, by place. *)
Given == {Nobody, "closed", "failed"}
Conditions == Given \cup {"open"}

HeroInv ==
  /\ pc \in Unspawned => own.hero = Nobody /\ car.last = Nobody
  /\ pc \in Building \cup Abandoning \cup Priming \cup {"dry"} \cup Preparing \cup Looping \cup Stopping
            \cup Reporting \cup Closing => own.hero = "open"
  /\ pc \in Last => own.hero \in Given
  /\ car \in [mode : {"MANUAL", "NOA_ACTIVE"}, last : {Nobody, "drive", "brake"}]
  /\ car.last = "drive" => pc \in Preparing \cup Looping \cup Stopping

EquipmentInv ==
  /\ pc \in Unspawned \cup {"record", "probe", "bundle", "viewer"} => own.viewer = Nobody
  /\ pc \in {"abandonHero", "closeHero"} \cup Last => own.viewer \in Given
  /\ pc \in Unspawned \cup {"record", "probe"} => own.probe = Nobody
  /\ pc \in {"abandonViewer", "abandonHero", "closeP6", "closeViewer", "closeHero"} \cup Last =>
       own.probe \in Given
  /\ pc \in Unspawned \cup Building \cup Abandoning \cup Priming => own.wheel = Nobody
  /\ pc \in {"closeHero"} \cup Last => own.wheel \in Given
  /\ pc = "open" => own.csv = Nobody /\ own.p6 = Nobody
  /\ pc \in {"closeLog", "done"} => own.p6 \in Given
  /\ pc = "done" => own.csv \in Given

OwnInv ==
  /\ own \in [{"hero", "viewer", "probe", "p6", "csv", "wheel"} -> Conditions \cup {"made", "started"}]
  /\ \A x \in {"hero", "viewer", "probe", "csv", "wheel"} : own[x] \in Conditions
  /\ HeroInv /\ EquipmentInv

LEMMA OwnStarts == Init => OwnInv
  BY DEF Init, OwnInv, HeroInv, EquipmentInv, Nobody, Given, Conditions, Unspawned, Building, Abandoning,
         Priming, Preparing, Looping, Stopping, Reporting, Closing, Last

\* The first half of a drive: nothing is closed yet, or all of it behind an error.
LEMMA OpeningOwns ==
  ASSUME OwnInv,
         \/ OpenLog \/ MakeP6 \/ Preflight \/ SpawnHero \/ RecordSetting \/ OpenProbe
         \/ BuildBundle \/ CreateViewer \/ AttachViewer \/ WireSession
  PROVE  OwnInv'
<1> USE DEF OwnInv, HeroInv, EquipmentInv, Nobody, Given, Conditions, Unspawned, Building, Abandoning,
            Priming, Preparing, Looping, Stopping, Reporting, Closing, Last, Body, Skip
<1>1. CASE OpenLog  BY <1>1 DEF OpenLog
<1>2. CASE MakeP6  BY <1>2 DEF MakeP6
<1>3. CASE Preflight \/ RecordSetting \/ BuildBundle \/ AttachViewer \/ WireSession
  BY <1>3, ZenonT(40) DEF Preflight, RecordSetting, BuildBundle, AttachViewer, WireSession
<1>4. CASE SpawnHero  BY <1>4 DEF SpawnHero
<1>5. CASE OpenProbe  BY <1>5 DEF OpenProbe
<1>6. CASE CreateViewer  BY <1>6 DEF CreateViewer
<1> QED  BY <1>1, <1>2, <1>3, <1>4, <1>5, <1>6

LEMMA AbandoningOwns ==
  ASSUME OwnInv, AbandonProbe \/ AbandonViewer \/ AbandonHero
  PROVE  OwnInv'
<1> USE DEF OwnInv, HeroInv, EquipmentInv, Nobody, Given, Conditions, Unspawned, Building, Abandoning,
            Priming, Preparing, Looping, Stopping, Reporting, Closing, Last, Cleanup, Skip, Release
<1>1. CASE AbandonProbe  BY <1>1 DEF AbandonProbe
<1>2. CASE AbandonViewer  BY <1>2 DEF AbandonViewer
<1>3. CASE AbandonHero  BY <1>3 DEF AbandonHero
<1> QED  BY <1>1, <1>2, <1>3

\* From the first row to the first frame.
LEMMA StartingOwns ==
  ASSUME OwnInv,
         \/ StartAttempt \/ RecordAuthority \/ ObserveInitialSpeed \/ RecordNoControl
         \/ ReadGear \/ Halt \/ Engage \/ Confirm \/ DryRun
         \/ PrepareInput \/ Initialize \/ StartP6 \/ StartStage \/ BindScene
  PROVE  OwnInv'
<1> USE DEF OwnInv, HeroInv, EquipmentInv, Nobody, Given, Conditions, Unspawned, Building, Abandoning,
            Priming, Preparing, Looping, Stopping, Reporting, Closing, Last, Body, Skip, OutOfRun
<1>1. CASE StartAttempt \/ RecordAuthority \/ ObserveInitialSpeed \/ ReadGear \/ DryRun
  BY <1>1 DEF StartAttempt, RecordAuthority, ObserveInitialSpeed, ReadGear, DryRun
<1>2. CASE RecordNoControl  BY <1>2 DEF RecordNoControl, ViolationRecord, Cleanup
<1>3. CASE Halt \/ Engage \/ Confirm  BY <1>3 DEF Halt, Engage, Confirm, Hold
<1>4. CASE PrepareInput
  <2>1. \/ UNCHANGED << own, car >> /\ pc = "input" /\ pc' = "initialize"
        \/ /\ pc = "input" /\ pc' \in {"initialize", "finalizeScene"}
           /\ \E w \in {"open", "closed"} : own' = [own EXCEPT !.wheel = w]
           /\ car' = [car EXCEPT !.last = "brake"]
    BY <1>4 DEF PrepareInput
  <2> QED  BY <2>1
<1>5. CASE Initialize  BY <1>5 DEF Initialize, Engaged
<1>6. CASE StartP6  BY <1>6 DEF StartP6
<1>7. CASE StartStage \/ BindScene  BY <1>7 DEF StartStage, BindScene
<1> QED  BY <1>1, <1>2, <1>3, <1>4, <1>5, <1>6, <1>7

\* What a frame's input does apart from what it writes.
LEMMA CollectMoves ==
  ASSUME Collect
  PROVE  /\ pc = "frame" /\ UNCHANGED << cfg, own, stage, run >>
         /\ \E o : Body(o, "control", OutOfFrame)
         /\ car' \in {car, [car EXCEPT !.mode = "MANUAL"], Engaged}
<1>1. PICK toggle \in IF cfg.inter THEN BOOLEAN ELSE {FALSE}, called \in CallWithSpeed :
          LET l    == Queued(called.log, cfg.wheel)
              recv == IF cfg.exit THEN Tick(l) ELSE l
              on   == toggle /\ car.mode = "MANUAL"
              made == IF on THEN Activation(recv)
                      ELSE {Result(IF toggle THEN Queued(recv, TRUE) ELSE recv, "ok", 0)}
              done(k) == IF cfg.exit THEN Stamped(k, recv.now) ELSE k
          IN  /\ called.end = "speed" => on /\ cfg.hold
              /\ \E q \in made :
                    LET o == IF q.end = "ok"
                             THEN Result(IF called.end = "ok" THEN done(q.log) ELSE q.log,
                                         called.end, called.cost)
                             ELSE [q EXCEPT !.cost = @ + called.cost]
                    IN  /\ Body(o, "control", OutOfFrame)
                        /\ car' \in IF ~toggle THEN {car}
                                    ELSE IF ~on THEN {car, [car EXCEPT !.mode = "MANUAL"]}
                                    ELSE {Engaged} \cup (IF o.end \in {"ok", "speed"} THEN {} ELSE {car})
  BY DEF Collect
<1> DEFINE l == Queued(called.log, cfg.wheel)
           recv == IF cfg.exit THEN Tick(l) ELSE l
           on   == toggle /\ car.mode = "MANUAL"
           made == IF on THEN Activation(recv)
                      ELSE {Result(IF toggle THEN Queued(recv, TRUE) ELSE recv, "ok", 0)}
           done(k) == IF cfg.exit THEN Stamped(k, recv.now) ELSE k
           out(q) == IF q.end = "ok"
                             THEN Result(IF called.end = "ok" THEN done(q.log) ELSE q.log,
                                         called.end, called.cost)
                             ELSE [q EXCEPT !.cost = @ + called.cost]
<1>2. PICK q \in made : /\ Body(out(q), "control", OutOfFrame)
                        /\ car' \in IF ~toggle THEN {car}
                                    ELSE IF ~on THEN {car, [car EXCEPT !.mode = "MANUAL"]}
                                    ELSE {Engaged} \cup (IF out(q).end \in {"ok", "speed"} THEN {} ELSE {car})
  BY <1>1
<1> HIDE DEF out, on
<1> QED  BY <1>2 DEF Collect

\* The loop of frames, its scene or continuation, and the way out of it.
LEMMA LoopingOwns ==
  ASSUME OwnInv,
         \/ Collect \/ Control \/ After \/ LeaveLoop
         \/ Boundary \/ EndDrive \/ MakeFollow \/ BeginFollow \/ EndFollow \/ AbandonFollow
         \/ StopAtContact \/ CloseContact \/ ReleaseContact \/ HoldContact
         \/ LeaveView \/ Measure \/ FinalSpeed \/ BeforeShutdown
  PROVE  OwnInv'
<1> USE DEF OwnInv, HeroInv, EquipmentInv, Nobody, Given, Conditions, Unspawned, Building, Abandoning,
            Priming, Preparing, Looping, Stopping, Reporting, Closing, Last, Body
<1>1. CASE Collect
  <2>1. /\ pc = "frame" /\ pc' \in {"control", "abandonFollow", "leave"} /\ own' = own
        /\ car' \in {car, [car EXCEPT !.mode = "MANUAL"], Engaged}
    BY <1>1, CollectMoves DEF OutOfFrame
  <2> QED  BY <2>1 DEF Engaged
<1>2. CASE Control  BY <1>2 DEF Control, OutOfFrame
<1>3. CASE After  BY <1>3 DEF After, OutOfFrame
<1>4. CASE LeaveLoop \/ Boundary \/ EndDrive \/ MakeFollow \/ BeginFollow
  BY <1>4, ZenonT(40) DEF LeaveLoop, Boundary, EndDrive, MakeFollow, BeginFollow
<1>5. CASE EndFollow \/ AbandonFollow  BY <1>5 DEF EndFollow, AbandonFollow, FinishFollow, Cleanup
<1>6. CASE StopAtContact \/ CloseContact \/ ReleaseContact \/ HoldContact
  BY <1>6 DEF StopAtContact, CloseContact, ReleaseContact, HoldContact, Attempt
<1>7. CASE LeaveView  BY <1>7 DEF LeaveView
<1>8. CASE Measure \/ FinalSpeed \/ BeforeShutdown  BY <1>8 DEF Measure, FinalSpeed, BeforeShutdown
<1> QED  BY <1>1, <1>2, <1>3, <1>4, <1>5, <1>6, <1>7, <1>8

\* The shutdown and the reports behind it.
LEMMA StoppingOwns ==
  ASSUME OwnInv,
         \/ FinalizeScene \/ Shutdown \/ FinishObservation \/ FlushDrive \/ RecordShutdown
         \/ FinishExit \/ StopP6 \/ Summarize \/ FlushSummary \/ RecordViolation
         \/ Rethrow \/ Report \/ EndStage
  PROVE  OwnInv'
<1> USE DEF OwnInv, HeroInv, EquipmentInv, Nobody, Given, Conditions, Unspawned, Building, Abandoning,
            Priming, Preparing, Looping, Stopping, Reporting, Closing, Last, Body, Cleanup, Skip, OutOfRun
<1>1. CASE FinalizeScene \/ FinishObservation \/ FlushDrive \/ RecordShutdown \/ FinishExit
  BY <1>1, ZenonT(40) DEF FinalizeScene, FinishObservation, FlushDrive, RecordShutdown, FinishExit
<1>2. CASE Shutdown
  <2>1. /\ pc = "shutdown" /\ pc' = "observation" /\ own' = own
        /\ car' \in {[mode |-> m, last |-> "brake"] : m \in {car.mode, "MANUAL"}}
    BY <1>2 DEF Shutdown, Deactivate
  <2> QED  BY <2>1
<1>3. CASE StopP6  BY <1>3 DEF StopP6
<1>4. CASE Summarize \/ FlushSummary \/ Rethrow \/ Report
  BY <1>4 DEF Summarize, FlushSummary, Rethrow, Report
<1>5. CASE RecordViolation  BY <1>5 DEF RecordViolation, ViolationRecord
<1>6. CASE EndStage  BY <1>6 DEF EndStage
<1> QED  BY <1>1, <1>2, <1>3, <1>4, <1>5, <1>6

\* The last owner of each resource.
LEMMA ClosingOwns ==
  ASSUME OwnInv,
         \/ CloseControl \/ CloseProbe \/ CloseP6 \/ CloseViewer \/ CloseHero
         \/ LastP6 \/ CloseLog \/ Finished
  PROVE  OwnInv'
<1> USE DEF OwnInv, HeroInv, EquipmentInv, Nobody, Given, Conditions, Unspawned, Building, Abandoning,
            Priming, Preparing, Looping, Stopping, Reporting, Closing, Last, Cleanup, Skip
<1>1. CASE CloseControl  BY <1>1 DEF CloseControl, Deactivate
<1>2. CASE CloseProbe  BY <1>2 DEF CloseProbe, Release
<1>3. CASE CloseHero  BY <1>3 DEF CloseHero, Release
<1>4. CASE CloseLog  BY <1>4 DEF CloseLog, Release
<1>5. CASE CloseP6  BY <1>5 DEF CloseP6, CloseP6Runtime
<1>6. CASE LastP6  BY <1>6 DEF LastP6, CloseP6Runtime
<1>7. CASE CloseViewer
  <2>1. /\ pc = "closeViewer" /\ pc' = "closeHero" /\ car' = car
        /\ \E v \in {"closed", "failed"}, w \in {"closed", "failed"} :
             own' = [own EXCEPT !.viewer = v, !.wheel = IF @ # "open" THEN @ ELSE w]
    BY <1>7 DEF CloseViewer
  <2>2. PICK v \in {"closed", "failed"}, w \in {"closed", "failed"} :
          own' = [own EXCEPT !.viewer = v, !.wheel = IF @ # "open" THEN @ ELSE w]
    BY <2>1
  <2>3. /\ own' \in [{"hero", "viewer", "probe", "p6", "csv", "wheel"} -> Conditions \cup {"made", "started"}]
        /\ own'.viewer = v /\ own'.wheel \in Given
        /\ \A x \in {"hero", "probe", "p6", "csv"} : own'[x] = own[x]
    BY <2>2
  <2> QED  BY <2>1, <2>3
<1>8. CASE Finished  BY <1>8 DEF Finished, vars
<1> QED  BY <1>1, <1>2, <1>3, <1>4, <1>5, <1>6, <1>7, <1>8

LEMMA OwnKeeps == ASSUME OwnInv, [Next]_vars PROVE OwnInv'
<1>1. CASE UNCHANGED vars  BY <1>1, ClosingOwns DEF OwnInv, HeroInv, EquipmentInv, vars
<1> QED
  BY <1>1, OpeningOwns, AbandoningOwns, StartingOwns, LoopingOwns, StoppingOwns, ClosingOwns DEF Next

\* Whatever fails, and however often, when session() has returned nothing that was opened is
\* still held: every resource was at least tried to be given back (the nested finally blocks of
\* ResearchNoASession.run, close and ResearchNoARuntime.session).
THEOREM EverythingIsReleased == Spec => []AllReleased
<1>1. OwnInv => AllReleased  BY DEF OwnInv, HeroInv, EquipmentInv, AllReleased, Given, Last
<1>2. Init => OwnInv  BY OwnStarts
<1>3. OwnInv /\ [Next]_vars => OwnInv'  BY OwnKeeps
<1> QED  BY <1>1, <1>2, <1>3, PTL DEF Spec

(* The research log.  The clock accepts what is written as long as what *)
(* waits is not older than what was written last: a direct write is in *)
(* order only if nothing waits, a flush whenever the queue was in order. *)
Reasons == {"", "NORMAL_COMPLETION", "USER_EXIT", "TRAINING_COMPLETED_EARLY", "HAZARD_COLLISION", "FAILURE"}
Line == [what : {"attempt", "start", "end", "start_failure"}, label : Labels, reason : Reasons,
         clean : BOOLEAN]
Log == [now : Nat, latest : Nat, queue : SUBSET Nat, rows : Seq(Line), failed : BOOLEAN, refused : BOOLEAN]
Timed(l) == /\ l.latest <= l.now /\ \A s \in l.queue : s <= l.now
            /\ ~l.failed => ~l.refused
Ordered(l) == ~l.failed => \A s \in l.queue : l.latest <= s

Ends == {"ok", "error", "stop", "speed"}

\* From l to k nothing was lost and no row written; and what was in order still is.
Kept(l, k) ==
  /\ k \in Log /\ Timed(k) /\ k.rows = l.rows
  /\ ~k.failed => ~l.failed
KeptInOrder(l, k) == Kept(l, k) /\ (Ordered(l) => Ordered(k))

LEMMA FlushIs ==
  ASSUME NEW l, NEW o \in Flush(l)
  PROVE  \/ Late(l) /\ o = Result([l EXCEPT !.refused = TRUE], "error", 0)
         \/ l.queue = {} /\ o = Result(l, "ok", 0)
         \/ \E s \in Newest(l) : o = Emptied(l, s)
         \/ \E s \in l.queue, e \in Failures : o = Stuck(l, s, e)
  BY DEF Flush

LEMMA FailuresAre == Failures \subseteq {"error", "stop"}
  BY DriveAssumption DEF Failures

LEMMA FlushFacts ==
  ASSUME NEW l \in Log, Timed(l), Ordered(l), NEW o \in Flush(l)
  PROVE  /\ o.log \in Log /\ Timed(o.log) /\ Ordered(o.log)
         /\ ~o.log.failed => o.log.queue = {} /\ o.end = "ok"
         /\ Kept(l, o.log) /\ o.log.now = l.now /\ o.end \in Ends /\ o.end # "speed"
<1>1. CASE Late(l) /\ o = Result([l EXCEPT !.refused = TRUE], "error", 0)
  <2>1. l.failed  BY <1>1 DEF Late, Ordered, Log
  <2>2. o.log = [l EXCEPT !.refused = TRUE] /\ o.end = "error"  BY <1>1 DEF Result
  <2>3. o.log \in Log  BY <2>2 DEF Log
  <2>4. /\ o.log.failed /\ l.failed /\ o.log.rows = l.rows /\ o.log.now = l.now
        /\ o.log.queue = l.queue /\ o.log.latest = l.latest
    BY <2>1, <2>2 DEF Log
  <2> QED  BY <2>2, <2>3, <2>4 DEF Timed, Ordered, Kept, Ends
<1>2. CASE l.queue = {} /\ o = Result(l, "ok", 0)
  <2>1. o.log = l /\ o.end = "ok"  BY <1>2 DEF Result
  <2> QED  BY <1>2, <2>1 DEF Kept, Ends
<1>3. CASE \E s \in Newest(l) : o = Emptied(l, s)
  <2>1. PICK s \in Newest(l) : o = Emptied(l, s)  BY <1>3
  <2>2. s \in Nat /\ s <= l.now /\ s \in l.queue  BY DEF Newest, Log, Timed
  <2> QED  BY <2>1, <2>2 DEF Emptied, Result, Log, Timed, Ordered, Kept, Ends
<1>4. CASE \E s \in l.queue, e \in Failures : o = Stuck(l, s, e)
  <2>1. PICK s \in l.queue, e \in Failures : o = Stuck(l, s, e)  BY <1>4
  <2> DEFINE rest == {t \in l.queue : s <= t}
  <2>2. s \in Nat /\ s <= l.now /\ rest \in SUBSET Nat /\ \A t \in rest : t <= l.now
    BY DEF Log, Timed
  <2>3. /\ o.log = [l EXCEPT !.queue = rest, !.latest = s, !.failed = TRUE]
        /\ o.end \in Ends /\ o.end # "speed"
    BY <2>1, FailuresAre DEF Stuck, Result, Ends
  <2> HIDE DEF rest
  <2> QED  BY <2>2, <2>3 DEF Log, Timed, Ordered, Kept
<1> QED  BY <1>1, <1>2, <1>3, <1>4, FlushIs
LEMMA CallFacts ==
  ASSUME NEW o, o \in Call \/ o \in CallWithSpeed
  PROVE  /\ o.log = log /\ o.end \in Ends
         /\ o \in Call => o.end # "speed"
  BY FailuresAre DEF Call, CallWithSpeed, Result, Ends

LEMMA TickFacts ==
  ASSUME NEW l \in Log, Timed(l)
  PROVE  /\ KeptInOrder(l, Tick(l)) /\ Tick(l).now = l.now + 1
         /\ Tick(l).queue = l.queue /\ Tick(l).latest = l.latest /\ Tick(l).failed = l.failed
  BY DEF Tick, KeptInOrder, Kept, Log, Timed, Ordered

LEMMA EnqueueFacts ==
  ASSUME NEW l \in Log, Timed(l)
  PROVE  /\ KeptInOrder(l, Enqueue(l)) /\ Enqueue(l).now = l.now + 1
         /\ Enqueue(l).latest = l.latest /\ Enqueue(l).failed = l.failed
<1>1. l.queue \cup {l.now + 1} \in SUBSET Nat  BY DEF Log
<1> DEFINE k == Enqueue(l)
<1>2. k = [l EXCEPT !.now = @ + 1, !.queue = @ \cup {l.now + 1}]  BY DEF Enqueue, Stamped, Tick, Log
<1>3. /\ k.failed = l.failed /\ k.rows = l.rows /\ k.now = l.now + 1
      /\ k.queue = l.queue \cup {l.now + 1} /\ k.latest = l.latest /\ k.refused = l.refused
  BY <1>2 DEF Log
<1>4. k \in Log  BY <1>1, <1>2 DEF Log
<1>5. l.now \in Nat /\ l.latest \in Nat /\ \A s \in l.queue : s \in Nat  BY DEF Log
<1> QED  BY <1>3, <1>4, <1>5 DEF KeptInOrder, Kept, Timed, Ordered

\* One row, or none.
Rows == {<< >>} \cup {<<r>> : r \in Line}

LEMMA WriteFacts ==
  ASSUME NEW l \in Log, Timed(l), NEW at \in Nat, l.latest <= at, at <= l.now,
         NEW rows \in Rows, NEW o \in Write(l, at, rows)
  PROVE  /\ o.log \in Log /\ Timed(o.log) /\ o.log.queue = l.queue /\ o.log.now = l.now
         /\ ~l.failed \/ o.log.failed
         /\ ~o.log.failed => o.end = "ok"
         /\ o.end \in Ends /\ o.end # "speed"
         /\ o.log.rows = IF Logged /\ o.end = "ok" THEN l.rows \o rows ELSE l.rows
         /\ o.log.latest <= at
         /\ l.queue = {} => Ordered(o.log)
<1>1. CASE o = Result(l, "ok", 0) /\ ~Logged  BY <1>1 DEF Result, Ends, Ordered, Log, Timed
<1>2. CASE Logged /\ o = Result([l EXCEPT !.latest = at, !.rows = @ \o rows], "ok", 0)
  <2>1. l.rows \in Seq(Line)  BY DEF Log
  <2>2. rows \in Seq(Line)
    <3>1. CASE rows = << >>  BY <3>1
    <3>2. CASE \E r \in Line : rows = <<r>>
      <4>1. PICK r \in Line : rows = <<r>>  BY <3>2
      <4> HIDE DEF Line
      <4> QED  BY <4>1
    <3> QED  BY <3>1, <3>2 DEF Rows
  <2>3. l.rows \o rows \in Seq(Line)  BY <2>1, <2>2
  <2>4. o.log = [l EXCEPT !.latest = at, !.rows = @ \o rows] /\ o.end = "ok"  BY <1>2 DEF Result
  <2>5. o.log \in Log  BY <2>3, <2>4 DEF Log
  <2>6. /\ o.log.failed = l.failed /\ o.log.rows = l.rows \o rows /\ o.log.now = l.now
        /\ o.log.queue = l.queue /\ o.log.latest = at /\ o.log.refused = l.refused
    BY <2>4 DEF Log
  <2> QED  BY <1>2, <2>4, <2>5, <2>6 DEF Timed, Ordered, Ends
<1>3. CASE Logged /\ \E e \in Failures : o = Result([l EXCEPT !.latest = at, !.failed = TRUE], e, 1)
  <2>1. /\ o.log = [l EXCEPT !.latest = at, !.failed = TRUE]
        /\ o.end \in {"error", "stop"}
    BY <1>3, FailuresAre DEF Result
  <2>2. o.log \in Log  BY <2>1 DEF Log
  <2>3. /\ o.log.failed /\ o.log.rows = l.rows /\ o.log.now = l.now
        /\ o.log.queue = l.queue /\ o.log.latest = at
    BY <2>1 DEF Log
  <2> QED  BY <2>1, <2>2, <2>3 DEF Timed, Ordered, Ends
<1>4. ~(at < l.latest)  BY DEF Log
<1>5. \/ o = Result(l, "ok", 0) /\ ~Logged
      \/ Logged /\ o = Result([l EXCEPT !.latest = at, !.rows = @ \o rows], "ok", 0)
      \/ Logged /\ \E e \in Failures : o = Result([l EXCEPT !.latest = at, !.failed = TRUE], e, 1)
  BY <1>4 DEF Write
<1> QED  BY <1>1, <1>2, <1>3, <1>5

\* Nothing waits.
Still(l) == l.failed \/ l.queue = {}

\* The outcome of telling the log: all of it written in order and nothing left waiting, or a
\* write that failed.
Told(l, o, rows) ==
  /\ o.log \in Log /\ Timed(o.log) /\ Ordered(o.log)
  /\ ~o.log.failed => ~l.failed /\ o.end = "ok"
  /\ Logged => Still(o.log)
  /\ o.end \in Ends /\ o.end # "speed"
  /\ o.log.rows \in {l.rows, l.rows \o rows}
  /\ o.end = "ok" => o.log.rows = IF Logged THEN l.rows \o rows ELSE l.rows
  /\ ~Logged => o.log.rows = l.rows

LEMMA WriteTold ==
  ASSUME NEW l \in Log, Timed(l), Ordered(l), Logged => Still(l),
         NEW at \in Nat, l.latest <= at, at <= l.now,
         NEW rows \in Rows, NEW o \in Write(l, at, rows)
  PROVE  Told(l, o, rows) /\ o.log.now = l.now /\ o.log.latest <= at
<1>1. CASE ~Logged
  <2>1. o = Result(l, "ok", 0)  BY <1>1 DEF Write
  <2>2. o.log = l /\ o.end = "ok"  BY <2>1 DEF Result
  <2> QED  BY <1>1, <2>2 DEF Told, Ends
<1>2. CASE Logged
  <2>1. /\ o.log \in Log /\ Timed(o.log) /\ o.log.queue = l.queue /\ o.log.now = l.now
        /\ ~o.log.failed => ~l.failed /\ o.end = "ok"
        /\ o.end \in Ends /\ o.end # "speed" /\ o.log.latest <= at
        /\ o.log.rows = IF Logged /\ o.end = "ok" THEN l.rows \o rows ELSE l.rows
        /\ l.queue = {} => Ordered(o.log)
    BY WriteFacts
  <2>2. Ordered(o.log) /\ Still(o.log)  BY <1>2, <2>1 DEF Still, Ordered
  <2> QED  BY <1>2, <2>1, <2>2 DEF Told
<1> QED  BY <1>1, <1>2

LEMMA NothingAdded == ASSUME NEW l \in Log PROVE l.rows \o << >> = l.rows
<1>1. l.rows \in Seq(Line)  BY DEF Log
<1> HIDE DEF Line
<1> QED  BY <1>1

LEMMA FlushTold ==
  ASSUME NEW l \in Log, Timed(l), Ordered(l), NEW o \in Flush(l)
  PROVE  Told(l, o, << >>) /\ o.log.now = l.now /\ o.log.rows = l.rows
  BY FlushFacts, NothingAdded DEF Told, Kept, Still

\* A row told with the time of the clock, or a moment later, after a flush.
LEMMA ToldNext ==
  ASSUME NEW l \in Log, NEW q, Told(l, q, << >>),
         NEW m \in {q.log, Tick(q.log)}, NEW rows \in Rows, NEW o \in Write(m, m.now, rows)
  PROVE  Told(l, o, rows) /\ o.log.now = m.now
<1>1. /\ m \in Log /\ Timed(m) /\ Ordered(m) /\ m.rows = l.rows
      /\ Logged => Still(m)
      /\ ~m.failed => ~l.failed
  BY TickFacts, NothingAdded DEF Told, KeptInOrder, Kept, Still
<1>2. m.now \in Nat /\ m.latest <= m.now  BY <1>1 DEF Log, Timed
<1>3. Told(m, o, rows) /\ o.log.now = m.now  BY <1>1, <1>2, WriteTold
<1> QED  BY <1>1, <1>3 DEF Told

LEMMA FlushThenTick ==
  ASSUME NEW l \in Log, Timed(l), Ordered(l), NEW rows \in Rows,
         NEW o \in Then(Flush(l), LAMBDA k : Write(Tick(k), k.now + 1, rows))
  PROVE  Told(l, o, rows)
<1>1. PICK q \in Flush(l) : (q.end # "ok" /\ o = q) \/ (q.end = "ok" /\ o \in Write(Tick(q.log), q.log.now + 1, rows))
  BY DEF Then
<1>2. Told(l, q, << >>) /\ q.log \in Log /\ q.log.rows = l.rows  BY FlushTold DEF Told
<1>3. Tick(q.log).now = q.log.now + 1  BY <1>2, TickFacts DEF Told
<1>4. CASE q.end # "ok" /\ o = q  BY <1>2, <1>4 DEF Told
<1> QED  BY <1>1, <1>2, <1>3, <1>4, ToldNext

LEMMA ToldLater ==
  ASSUME NEW l, NEW k, KeptInOrder(l, k), NEW o, NEW rows, Told(k, o, rows)
  PROVE  Told(l, o, rows)
  BY DEF KeptInOrder, Kept, Told

LEMMA FlushThenWrite ==
  ASSUME NEW l \in Log, Timed(l), Ordered(l),
         NEW o \in Then(Flush(Tick(l)), LAMBDA k : Write(k, l.now + 1, << >>))
  PROVE  Told(l, o, << >>)
<1> DEFINE m == Tick(l)
<1>1. m \in Log /\ Timed(m) /\ Ordered(m) /\ KeptInOrder(l, m) /\ m.now = l.now + 1
  BY TickFacts DEF KeptInOrder, Kept
<1>2. PICK q \in Flush(m) : (q.end # "ok" /\ o = q) \/ (q.end = "ok" /\ o \in Write(q.log, l.now + 1, << >>))
  BY DEF Then
<1>3. Told(m, q, << >>) /\ q.log.now = l.now + 1  BY <1>1, FlushTold
<1>4. CASE q.end = "ok" /\ o \in Write(q.log, l.now + 1, << >>)
  <2>1. o \in Write(q.log, q.log.now, << >>)  BY <1>3, <1>4
  <2>2. << >> \in Rows  BY DEF Rows
  <2>3. Told(m, o, << >>)  BY <1>1, <1>3, <1>4, <2>1, <2>2, ToldNext
  <2> QED  BY <1>1, <2>3, ToldLater
<1> QED  BY <1>1, <1>2, <1>3, <1>4, ToldLater

\* What an interaction leaves behind: its events and the frame are told, its own error goes on.
LEMMA PersistedFacts ==
  ASSUME NEW l \in Log, Timed(l), Ordered(l), NEW o, KeptInOrder(l, o.log), o.end \in Ends,
         NEW p \in Persisted(o)
  PROVE  /\ KeptInOrder(l, p.log) /\ Ordered(p.log)
         /\ Logged => Still(p.log)
         /\ p.end \in Ends
<1> DEFINE k == o.log
<1>1. k \in Log /\ Timed(k) /\ Ordered(k) /\ Kept(l, k)  BY DEF KeptInOrder, Kept
<1>2. CASE ~Logged  BY <1>1, <1>2 DEF Persisted
<1>3. CASE Logged
  <2>1. PICK q \in Then(Flush(k), LAMBDA m : IF o.end = "ok" THEN Capture(m) ELSE {Result(m, "ok", 0)}) :
          p = IF o.end = "ok" THEN q ELSE Result(q.log, o.end, o.cost + q.cost)
    BY <1>3 DEF Persisted
  <2>2. PICK f \in Flush(k) :
          \/ f.end # "ok" /\ q = f
          \/ f.end = "ok" /\ o.end = "ok" /\ q \in Capture(f.log)
          \/ f.end = "ok" /\ o.end # "ok" /\ q = Result(f.log, "ok", 0)
    BY DEF Then
  <2>3. Told(k, f, << >>) /\ f.log.rows = k.rows  BY <1>1, FlushTold
  <2>4. CASE f.end # "ok" /\ q = f
    BY <1>1, <1>3, <2>1, <2>3, <2>4 DEF Told, KeptInOrder, Kept, Result
  <2>5. CASE f.end = "ok" /\ o.end = "ok" /\ q \in Capture(f.log)
    <3>1. q \in Write(Tick(f.log), Tick(f.log).now, << >>)
      BY <2>3, <2>5, TickFacts DEF Capture, Observed, Told
    <3>2. Told(k, q, << >>)  BY <1>1, <2>3, <2>5, <3>1, ToldNext DEF Rows
    <3>3. p = q /\ q.log.rows = k.rows  BY <1>1, <2>1, <2>5, <3>2, NothingAdded DEF Told
    <3> QED  BY <1>1, <1>3, <3>2, <3>3 DEF Told, KeptInOrder, Kept
  <2>6. CASE f.end = "ok" /\ o.end # "ok" /\ q = Result(f.log, "ok", 0)
    <3>1. p.log = f.log /\ p.end = o.end  BY <2>1, <2>6 DEF Result
    <3> QED  BY <1>1, <1>3, <2>3, <3>1 DEF Told, KeptInOrder, Kept
  <2> QED  BY <2>2, <2>4, <2>5, <2>6
<1> QED  BY <1>2, <1>3

LEMMA SceneEndTold ==
  ASSUME NEW l \in Log, Timed(l), Ordered(l),
         NEW o \in Then(Flush(l), LAMBDA k : Then(Write(Tick(k), k.now + 1, << >>), Flush))
  PROVE  Told(l, o, << >>)
<1>1. PICK q \in Then(Flush(l), LAMBDA k : Write(Tick(k), k.now + 1, << >>)) :
        (q.end # "ok" /\ o = q) \/ (q.end = "ok" /\ o \in Flush(q.log))
  <2>1. PICK f \in Flush(l) :
          \/ f.end # "ok" /\ o = f
          \/ f.end = "ok" /\ o \in Then(Write(Tick(f.log), f.log.now + 1, << >>), Flush)
    BY DEF Then
  <2>2. CASE f.end # "ok" /\ o = f  BY <2>2 DEF Then
  <2>3. CASE f.end = "ok" /\ o \in Then(Write(Tick(f.log), f.log.now + 1, << >>), Flush)
    <3>1. PICK q \in Write(Tick(f.log), f.log.now + 1, << >>) :
            (q.end # "ok" /\ o = q) \/ (q.end = "ok" /\ o \in Flush(q.log))
      BY <2>3 DEF Then
    <3>2. q \in Then(Flush(l), LAMBDA k : Write(Tick(k), k.now + 1, << >>))  BY <2>3 DEF Then
    <3> QED  BY <3>1, <3>2
  <2> QED  BY <2>1, <2>2, <2>3
<1>2. Told(l, q, << >>)  BY FlushThenTick DEF Rows
<1>3. CASE q.end = "ok" /\ o \in Flush(q.log)
  <2>1. q.log \in Log /\ Timed(q.log) /\ Ordered(q.log) /\ q.log.rows = l.rows
    BY <1>2, NothingAdded DEF Told
  <2>2. Told(q.log, o, << >>)  BY <1>3, <2>1, FlushTold
  <2> QED  BY <1>2, <2>1, <2>2 DEF Told
<1> QED  BY <1>1, <1>2, <1>3

\* Where nothing may wait, because the next row is written at once, and where the order of
\* what waits is no longer asked for.
Quiet == Unspawned \cup Building \cup Priming
         \cup {"p6start", "start", "closeContact", "record1", "violation", "rethrow", "report"}
Over == Abandoning \cup {"dry", "endStage", "deactivate"} \cup Closing \cup Last

Stages == [active : BOOLEAN, ended : BOOLEAN, label : Labels]

LogInv ==
  /\ log \in Log /\ Timed(log)
  /\ pc \notin Over => Ordered(log)
  /\ pc \in Quiet /\ Logged => Still(log)
  /\ pc \in {"observation", "flush1", "record1"} /\ run.shut => run.shutAt = log.now
  /\ ~Logged => log.rows = << >>
  /\ stage \in Stages

LEMMA RowIsRow == ASSUME NEW w \in {"attempt", "start", "end", "start_failure"}, NEW b \in Labels, NEW r \in Reasons
  PROVE Row(w, b, r) \in Rows
  BY DEF Row, Rows, Line

LEMMA NoRowIsRow == << >> \in Rows
  BY DEF Rows

\* What is written with the time of the clock, a moment later, where nothing waits.
LEMMA WriteNow ==
  ASSUME LogInv, Ordered(log), Logged => Still(log), NEW rows \in Rows, NEW o \in Write(Tick(log), log.now + 1, rows)
  PROVE  Told(log, o, rows)
<1> DEFINE m == Tick(log)
<1>1. /\ KeptInOrder(log, m) /\ m.now = log.now + 1 /\ m \in Log /\ Timed(m) /\ Ordered(m)
      /\ Logged => Still(m)
  BY TickFacts DEF LogInv, KeptInOrder, Kept, Still
<1>2. m.now \in Nat /\ m.latest <= m.now  BY <1>1 DEF Log, Timed
<1>3. Told(m, o, rows)  BY <1>1, <1>2, WriteTold
<1> QED  BY <1>1, <1>3, ToldLater

LEMMA RecordSettingTells ==
  ASSUME LogInv, RecordSetting
  PROVE  \E o : (IF Logged THEN Told(log, o, << >>) ELSE o \in Call) /\ Body(o, "probe", "abandonProbe")
<1>1. CASE ~Logged  BY <1>1 DEF RecordSetting
<1>2. CASE Logged
  <2>1. PICK o \in Then(Flush(Enqueue(log)), LAMBDA l : IF cfg.tm THEN Flush(Enqueue(l)) ELSE {Result(l, "ok", 0)}) :
          Body(o, "probe", "abandonProbe")
    BY <1>2 DEF RecordSetting
  <2>2. PICK q \in Flush(Enqueue(log)) :
          \/ q.end # "ok" /\ o = q
          \/ q.end = "ok" /\ cfg.tm /\ o \in Flush(Enqueue(q.log))
          \/ q.end = "ok" /\ o = Result(q.log, "ok", 0)
    BY DEF Then
  <2>3. Ordered(log) /\ log \in Log /\ Timed(log)
    BY DEF LogInv, RecordSetting, Over, Abandoning, Closing, Last
  <2>4. KeptInOrder(log, Enqueue(log)) /\ Enqueue(log) \in Log /\ Timed(Enqueue(log)) /\ Ordered(Enqueue(log))
    BY <2>3, EnqueueFacts DEF KeptInOrder, Kept
  <2>5. Told(log, q, << >>)  BY <2>4, FlushTold, ToldLater
  <2>6. CASE q.end = "ok" /\ o \in Flush(Enqueue(q.log))
    <3> DEFINE k == Enqueue(q.log)
    <3>1. q.log \in Log /\ Timed(q.log) /\ Ordered(q.log) /\ q.log.rows = log.rows /\ (~q.log.failed => ~log.failed)
      BY <2>3, <2>5, NothingAdded DEF Told
    <3>2. k \in Log /\ Timed(k) /\ Ordered(k) /\ KeptInOrder(q.log, k)
      BY <3>1, EnqueueFacts DEF KeptInOrder, Kept
    <3>3. Told(q.log, o, << >>)  BY <2>6, <3>2, FlushTold, ToldLater
    <3>4. Told(log, o, << >>)  BY <3>1, <3>3 DEF Told
    <3> QED  BY <1>2, <2>1, <3>4
  <2>7. CASE q.end = "ok" /\ o = Result(q.log, "ok", 0)
    <3>1. Told(log, o, << >>)  BY <2>5, <2>7 DEF Told, Result, Ends
    <3> QED  BY <1>2, <2>1, <3>1
  <2> QED  BY <1>2, <2>1, <2>2, <2>5, <2>6, <2>7
<1> QED  BY <1>1, <1>2

LEMMA WireSessionTells ==
  ASSUME LogInv, WireSession
  PROVE  \E o : /\ o \in Call \/ Told(log, o, << >>)
                /\ Body(o, IF Logged THEN "attempt" ELSE IF cfg.dry THEN "dry" ELSE "speed", "abandonProbe")
<1>1. Ordered(log) /\ (Logged => Still(log))
  BY DEF LogInv, WireSession, Over, Abandoning, Closing, Last, Quiet, Unspawned, Building, Priming
<1> QED  BY <1>1, WriteNow, NoRowIsRow DEF WireSession, Tick

LEMMA StartAttemptTells ==
  ASSUME LogInv, StartAttempt
  PROVE  \E o : Told(log, o, Row("attempt", "drive", "")) /\ Body(o, "speed", "deactivate")
<1> DEFINE rows == Row("attempt", "drive", "")
<1>l. "drive" \in Labels /\ "" \in Reasons  BY DEF Labels, Reasons
<1>1. Ordered(log) /\ (Logged => Still(log))
  BY DEF LogInv, StartAttempt, Over, Abandoning, Closing, Last, Quiet, Unspawned, Building, Priming
<1>r. rows \in Rows
  <2> USE <1>l
  <2> QED  BY RowIsRow
<1>2. PICK o \in Then(Write(Tick(log), log.now + 1, rows), LAMBDA l : Write(l, l.now, << >>)) :
        Body(o, "speed", "deactivate")
  BY DEF StartAttempt
<1> HIDE DEF rows
<1>3. PICK q \in Write(Tick(log), log.now + 1, rows) :
        (q.end # "ok" /\ o = q) \/ (q.end = "ok" /\ o \in Write(q.log, q.log.now, << >>))
  BY <1>2 DEF Then
<1>4. Told(log, q, rows)  BY <1>1, <1>3, <1>r, WriteNow
<1>5. CASE q.end = "ok" /\ o \in Write(q.log, q.log.now, << >>)
  <2>1. /\ q.log \in Log /\ Timed(q.log) /\ Ordered(q.log) /\ (Logged => Still(q.log))
        /\ q.log.now \in Nat /\ q.log.latest <= q.log.now
    BY <1>4 DEF Told, Log, Timed
  <2>2. Told(q.log, o, << >>) /\ q.log.rows \o << >> = q.log.rows
    BY <1>5, <2>1, WriteTold, NoRowIsRow, NothingAdded
  <2>3. Told(log, o, rows)
    <3>1. o.log.rows = q.log.rows  BY <2>2 DEF Told
    <3>2. q.log.rows = IF Logged THEN log.rows \o rows ELSE log.rows  BY <1>4, <1>5 DEF Told
    <3> QED  BY <1>4, <2>2, <3>1, <3>2 DEF Told
  <2> QED  BY <1>2, <2>3 DEF rows
<1> QED  BY <1>2, <1>3, <1>4, <1>5 DEF rows

LEMMA RecordAuthorityTells ==
  ASSUME LogInv, RecordAuthority
  PROVE  \E o : Told(log, o, << >>) /\ Body(o, "initial", OutOfRun)
<1>1. Ordered(log) /\ (Logged => Still(log))
  BY DEF LogInv, RecordAuthority, Over, Abandoning, Closing, Last, Quiet, Unspawned, Building, Priming
<1> QED  BY <1>1, WriteNow, NoRowIsRow DEF RecordAuthority

LEMMA ViolationTells ==
  ASSUME LogInv, pc \in {"noControl", "violation"}, NEW next, ViolationRecord(next)
  PROVE  \/ ~Logged /\ Skip(pc, next)
         \/ \E o : Told(log, o, << >>) /\ Body(o, next, OutOfRun)
         \/ \E o : Told(log, o, << >>) /\ Cleanup(o, next)
<1>1. Ordered(log) /\ (Logged => Still(log)) /\ log \in Log /\ Timed(log)
  BY DEF LogInv, Over, Abandoning, Closing, Last, Quiet, Unspawned, Building, Priming
<1>2. CASE \E o \in Write(Tick(log), log.now + 1, << >>) : Body(o, next, OutOfRun)
  BY <1>1, <1>2, WriteNow, NoRowIsRow
<1>3. CASE \E o \in Violation : Cleanup(o, next)
  BY <1>1, <1>3, FlushThenWrite DEF Violation, Observed
<1> QED  BY <1>2, <1>3 DEF ViolationRecord

LEMMA KeptTogether ==
  ASSUME NEW l, NEW k, KeptInOrder(l, k), NEW m, KeptInOrder(k, m)
  PROVE  KeptInOrder(l, m)
  BY DEF KeptInOrder, Kept

LEMMA KeptItself == ASSUME NEW l \in Log, Timed(l) PROVE KeptInOrder(l, l)
  BY DEF KeptInOrder, Kept

LEMMA QueuedFacts ==
  ASSUME NEW l \in Log, Timed(l), NEW h
  PROVE  /\ KeptInOrder(l, Queued(l, h)) /\ Queued(l, h).latest = l.latest
         /\ Queued(l, h).now \in Nat /\ l.now <= Queued(l, h).now
<1>1. l.now \in Nat  BY DEF Log
<1> QED  BY <1>1, EnqueueFacts, KeptItself DEF Queued

\* An event that waits with a stamp between what was written and now.
LEMMA StampFacts ==
  ASSUME NEW l \in Log, Timed(l), NEW stamp \in Nat, l.latest <= stamp, stamp <= l.now
  PROVE  KeptInOrder(l, Stamped(l, stamp))
<1> DEFINE k == [l EXCEPT !.queue = @ \cup {stamp}]
<1>1. l.queue \cup {stamp} \in SUBSET Nat  BY DEF Log
<1>2. k \in Log  BY <1>1 DEF Log
<1>3. /\ k.failed = l.failed /\ k.rows = l.rows /\ k.now = l.now
      /\ k.queue = l.queue \cup {stamp} /\ k.latest = l.latest /\ k.refused = l.refused
  BY DEF Log
<1> HIDE DEF k
<1>4. KeptInOrder(l, k)  BY <1>2, <1>3 DEF KeptInOrder, Kept, Timed, Ordered
<1> QED  BY <1>4 DEF k, Stamped

LEMMA PrepareInputTells ==
  ASSUME LogInv, PrepareInput
  PROVE  \/ Skip("input", "initialize")
         \/ \E o : KeptInOrder(log, o.log) /\ o.end \in Ends /\ Body(o, "initialize", "finalizeScene")
<1>1. ASSUME NEW q \in Call
      PROVE  LET o == [q EXCEPT !.log = Queued(@, TRUE)] IN KeptInOrder(log, o.log) /\ o.end \in Ends
  <2>1. q.log = log /\ q.end \in Ends  BY CallFacts
  <2>2. LET o == [q EXCEPT !.log = Queued(@, TRUE)] IN o.log = Queued(log, TRUE) /\ o.end = q.end
    BY <2>1 DEF Call, Result
  <2> QED  BY <2>1, <2>2, QueuedFacts DEF LogInv
<1> QED  BY <1>1 DEF PrepareInput

LEMMA InitializeTells ==
  ASSUME LogInv, Initialize
  PROVE  \E o : /\ KeptInOrder(log, o.log) /\ Ordered(o.log) /\ o.end \in Ends
                /\ Logged => Still(o.log)
                /\ Body(o, "p6start", "finalizeScene")
<1>1. PICK q \in CallWithSpeed : \E o \in Persisted([q EXCEPT !.log = Queued(@, TRUE)]) :
                                    Body(o, "p6start", "finalizeScene")
  BY DEF Initialize
<1>2. q.log = log /\ q.end \in Ends  BY CallFacts
<1> DEFINE made == [q EXCEPT !.log = Queued(@, TRUE)]
<1>3. made.log = Queued(log, TRUE) /\ made.end = q.end  BY <1>2 DEF CallWithSpeed, Call, Result
<1>4. log \in Log /\ Timed(log) /\ Ordered(log)
  BY DEF LogInv, Initialize, Over, Abandoning, Closing, Last
<1>5. KeptInOrder(log, made.log) /\ made.end \in Ends  BY <1>2, <1>3, <1>4, QueuedFacts
<1> HIDE DEF made
<1> QED  BY <1>1, <1>4, <1>5, PersistedFacts DEF made

LEMMA StartStageTells ==
  ASSUME LogInv, StartStage, Logged
  PROVE  \E o : /\ Told(log, o, Row("start", stage.label, ""))
                /\ Body(o, "scene", "finalizeScene")
                /\ stage' = [stage EXCEPT !.active = (o.end = "ok")]
<1> DEFINE rows == Row("start", stage.label, "")
<1>1. Ordered(log) /\ (Logged => Still(log)) /\ stage.label \in Labels
  BY DEF LogInv, Stages, StartStage, Over, Abandoning, Closing, Last, Quiet, Unspawned, Building, Priming
<1>2. "" \in Reasons  BY DEF Reasons
<1>3. rows \in Rows  BY <1>1, <1>2, RowIsRow
<1>4. PICK o \in Write(Tick(log), log.now + 1, rows) :
                /\ Body(o, "scene", "finalizeScene")
                /\ stage' = [stage EXCEPT !.active = (o.end = "ok")]
  BY DEF StartStage
<1> HIDE DEF rows
<1> QED  BY <1>1, <1>3, <1>4, WriteNow DEF rows

LEMMA Outcomes ==
  ASSUME NEW l, NEW at, NEW rows, NEW o, o \in Flush(l) \/ o \in Write(l, at, rows)
  PROVE  o = Result(o.log, o.end, o.cost)
<1>1. ASSUME NEW k, NEW e, NEW c, o = Result(k, e, c) PROVE o = Result(o.log, o.end, o.cost)
  BY <1>1 DEF Result
<1>2. CASE o \in Flush(l)
  <2>1. CASE \E s \in Newest(l) : o = Emptied(l, s)
    <3>1. PICK s \in Newest(l) : o = Emptied(l, s)  BY <2>1
    <3> DEFINE k == [l EXCEPT !.queue = {}, !.latest = s]
    <3>2. o = Result(k, "ok", 0)  BY <3>1 DEF Emptied
    <3> HIDE DEF k
    <3> QED  BY <1>1, <3>2
  <2>2. CASE \E s \in l.queue, e \in Failures : o = Stuck(l, s, e)
    <3>1. PICK s \in l.queue, e \in Failures : o = Stuck(l, s, e)  BY <2>2
    <3> DEFINE k == [l EXCEPT !.queue = {t \in l.queue : s <= t}, !.latest = s, !.failed = TRUE]
    <3>2. o = Result(k, e, 1)  BY <3>1 DEF Stuck
    <3> HIDE DEF k
    <3> QED  BY <1>1, <3>2
  <2>3. CASE o \in {Result([l EXCEPT !.refused = TRUE], "error", 0), Result(l, "ok", 0)}
    BY <1>1, <2>3
  <2> QED  BY <1>2, <2>1, <2>2, <2>3, FlushIs
<1>3. CASE o \in Write(l, at, rows)  BY <1>1, <1>3 DEF Write
<1> QED  BY <1>2, <1>3

\* What recording an activation of NoA leaves behind, from the moment of its input.
LEMMA ActivationFacts ==
  ASSUME NEW l \in Log, Timed(l), Ordered(l), NEW q \in Activation(l)
  PROVE  /\ KeptInOrder(l, q.log) /\ Ordered(q.log) /\ q.end \in Ends
         /\ cfg.exit => q.log.latest = l.latest /\ l.now <= q.log.now
<1>n. l.now \in Nat /\ l.latest <= l.now  BY DEF Log, Timed
<1>1. CASE ~cfg.hold
  <2>1. q = Result(Queued(l, TRUE), "ok", 0)  BY <1>1 DEF Activation
  <2>2. q.log = Queued(l, TRUE) /\ q.end = "ok"  BY <2>1 DEF Result
  <2> QED  BY <2>2, QueuedFacts DEF Ends, KeptInOrder
<1>2. CASE cfg.hold /\ cfg.exit
  <2> DEFINE m == Tick(l)
  <2>1. q = Result(Stamped(m, m.now), "ok", 0)  BY <1>2 DEF Activation, Held, Observed
  <2>n. l.now + 1 \in Nat /\ l.now <= l.now + 1  BY <1>n
  <2>2. /\ KeptInOrder(l, m) /\ m \in Log /\ Timed(m) /\ m.now = l.now + 1
        /\ m.latest = l.latest
    BY TickFacts DEF KeptInOrder, Kept
  <2>3. m.now \in Nat /\ m.latest <= m.now  BY <2>2 DEF Log, Timed
  <2> DEFINE k == Stamped(m, m.now)
  <2> HIDE DEF m
  <2>4. KeptInOrder(m, k)  BY <2>2, <2>3, StampFacts
  <2>6. k.latest = m.latest /\ k.now = m.now  BY <2>2 DEF Log, Stamped
  <2>5. q.log = k /\ q.end = "ok"  BY <2>1 DEF Result
  <2> HIDE DEF k
  <2> QED  BY <1>n, <2>n, <2>2, <2>4, <2>5, <2>6, KeptTogether DEF Ends, KeptInOrder
<1>3. CASE cfg.hold /\ ~cfg.exit
  <2>1. PICK p \in Then(Flush(l), Capture) :
          q = IF p.end = "ok" THEN [p EXCEPT !.log = Held(@)] ELSE p
    BY <1>3 DEF Activation, ActivationNow
  <2>2. PICK f \in Flush(l) : (f.end # "ok" /\ p = f) \/ (f.end = "ok" /\ p \in Capture(f.log))
    BY DEF Then
  <2>3. Told(l, f, << >>)  BY FlushTold
  <2>4. Told(l, p, << >>)
    <3>1. CASE f.end = "ok" /\ p \in Capture(f.log)
      <4>1. p \in Write(Tick(f.log), Tick(f.log).now, << >>)
        BY <2>3, <3>1, TickFacts DEF Capture, Observed, Told
      <4> QED  BY <2>3, <3>1, <4>1, ToldNext, NoRowIsRow
    <3> QED  BY <2>2, <2>3, <3>1
  <2>5. KeptInOrder(l, p.log) /\ p.end \in Ends /\ p.log \in Log /\ Timed(p.log) /\ Ordered(p.log)
    BY <2>4, NothingAdded DEF Told, KeptInOrder, Kept
  <2>6. CASE p.end = "ok"
    <3>0. p = Result(p.log, p.end, p.cost)  BY <2>2, Outcomes DEF Capture
    <3>1. q.log = Stamped(p.log, p.log.now) /\ q.end = "ok"  BY <2>1, <2>6, <3>0 DEF Held, Result
    <3>2. p.log.now \in Nat /\ p.log.latest <= p.log.now  BY <2>5 DEF Log, Timed
    <3>3. KeptInOrder(p.log, q.log)  BY <2>5, <3>1, <3>2, StampFacts
    <3> QED  BY <1>3, <2>5, <3>1, <3>3, KeptTogether DEF KeptInOrder, Ends
  <2>7. CASE p.end # "ok"  BY <1>3, <2>1, <2>5, <2>7
  <2> QED  BY <2>6, <2>7
<1> QED  BY <1>1, <1>2, <1>3

LEMMA ActivationOutcome ==
  ASSUME NEW l, NEW q \in Activation(l)
  PROVE  q = Result(q.log, q.end, q.cost)
<1>1. ASSUME NEW k, NEW e, NEW c, q = Result(k, e, c) PROVE q = Result(q.log, q.end, q.cost)
  BY <1>1 DEF Result
<1>2. CASE cfg.hold /\ ~cfg.exit
  <2>1. PICK p \in Then(Flush(l), Capture) :
          q = IF p.end = "ok" THEN [p EXCEPT !.log = Held(@)] ELSE p
    BY <1>2 DEF Activation, ActivationNow
  <2>2. PICK f \in Flush(l) : (f.end # "ok" /\ p = f) \/ (f.end = "ok" /\ p \in Capture(f.log))
    BY DEF Then
  <2>3. p = Result(p.log, p.end, p.cost)  BY <2>2, Outcomes DEF Capture
  <2>4. q = Result(IF p.end = "ok" THEN Held(p.log) ELSE p.log, p.end, p.cost)
    BY <2>1, <2>3 DEF Result
  <2> QED  BY <1>1, <2>4
<1>3. CASE ~cfg.hold \/ cfg.exit
  <2> DEFINE k1 == Queued(l, TRUE)
             k2 == Held(Observed(l))
  <2>1. q = Result(k1, "ok", 0) \/ q = Result(k2, "ok", 0)  BY <1>3 DEF Activation
  <2> HIDE DEF k1, k2
  <2> QED  BY <1>1, <2>1
<1> QED  BY <1>2, <1>3

LEMMA CollectTells ==
  ASSUME LogInv, Collect
  PROVE  \E o : KeptInOrder(log, o.log) /\ o.end \in Ends /\ Body(o, "control", OutOfFrame)
<1>0. log \in Log /\ Timed(log) /\ Ordered(log)
  BY DEF LogInv, Collect, Over, Abandoning, Closing, Last
<1>1. PICK toggle \in IF cfg.inter THEN BOOLEAN ELSE {FALSE}, called \in CallWithSpeed :
          LET l    == Queued(called.log, cfg.wheel)
              recv == IF cfg.exit THEN Tick(l) ELSE l
              on   == toggle /\ car.mode = "MANUAL"
              made == IF on THEN Activation(recv)
                      ELSE {Result(IF toggle THEN Queued(recv, TRUE) ELSE recv, "ok", 0)}
              done(k) == IF cfg.exit THEN Stamped(k, recv.now) ELSE k
          IN  /\ called.end = "speed" => on /\ cfg.hold
              /\ \E q \in made :
                    LET o == IF q.end = "ok"
                             THEN Result(IF called.end = "ok" THEN done(q.log) ELSE q.log,
                                         called.end, called.cost)
                             ELSE [q EXCEPT !.cost = @ + called.cost]
                    IN  /\ Body(o, "control", OutOfFrame)
                        /\ car' \in IF ~toggle THEN {car}
                                    ELSE IF ~on THEN {car, [car EXCEPT !.mode = "MANUAL"]}
                                    ELSE {Engaged} \cup (IF o.end \in {"ok", "speed"} THEN {} ELSE {car})
  BY DEF Collect
<1> DEFINE l == Queued(called.log, cfg.wheel)
           recv == IF cfg.exit THEN Tick(l) ELSE l
           on   == toggle /\ car.mode = "MANUAL"
           made == IF on THEN Activation(recv)
                      ELSE {Result(IF toggle THEN Queued(recv, TRUE) ELSE recv, "ok", 0)}
           done(k) == IF cfg.exit THEN Stamped(k, recv.now) ELSE k
           out(q) == IF q.end = "ok"
                             THEN Result(IF called.end = "ok" THEN done(q.log) ELSE q.log,
                                         called.end, called.cost)
                             ELSE [q EXCEPT !.cost = @ + called.cost]
<1>2. PICK q \in made : Body(out(q), "control", OutOfFrame)  BY <1>1
<1>3. called.log = log /\ called.end \in Ends  BY CallFacts
<1>4. KeptInOrder(log, l) /\ l \in Log /\ Timed(l)  BY <1>0, <1>3, QueuedFacts DEF KeptInOrder, Kept
<1> HIDE DEF l
<1>5. KeptInOrder(l, recv)  BY <1>4, TickFacts, KeptItself
<1>6. KeptInOrder(log, recv) /\ recv \in Log /\ Timed(recv) /\ Ordered(recv)
  BY <1>0, <1>4, <1>5, KeptTogether DEF KeptInOrder, Kept
<1> HIDE DEF recv
<1>7. /\ KeptInOrder(recv, q.log) /\ q.end \in Ends
      /\ cfg.exit => q.log.latest = recv.latest /\ recv.now <= q.log.now
      /\ q = Result(q.log, q.end, q.cost)
  <2>1. CASE on  BY <1>2, <1>6, <2>1, ActivationFacts, ActivationOutcome
  <2>2. CASE ~on
    <3> DEFINE k == IF toggle THEN Queued(recv, TRUE) ELSE recv
    <3>1. q = Result(k, "ok", 0)  BY <1>2, <2>2
    <3>2. KeptInOrder(recv, k) /\ k.latest = recv.latest /\ recv.now <= k.now
      <4>1. recv.now \in Nat /\ recv.now <= recv.now  BY <1>6 DEF Log
      <4>2. CASE toggle  BY <1>6, <4>2, QueuedFacts
      <4>3. CASE ~toggle  BY <1>6, <4>1, <4>3, KeptItself
      <4> QED  BY <4>2, <4>3
    <3> HIDE DEF k
    <3> QED  BY <3>1, <3>2 DEF Result, Ends
  <2> QED  BY <2>1, <2>2
<1> HIDE DEF made
<1>8. KeptInOrder(log, q.log) /\ q.log \in Log /\ Timed(q.log) /\ Ordered(q.log)
  BY <1>0, <1>6, <1>7, KeptTogether DEF KeptInOrder, Kept
<1>9. KeptInOrder(log, done(q.log))
  <2>1. CASE cfg.exit
    <3>1. recv.now \in Nat /\ q.log.latest <= recv.now /\ recv.now <= q.log.now
      BY <1>6, <1>7, <2>1 DEF Log, Timed
    <3>2. KeptInOrder(q.log, done(q.log))  BY <1>8, <2>1, <3>1, StampFacts
    <3> QED  BY <1>8, <3>2, KeptTogether
  <2>2. CASE ~cfg.exit  BY <1>8, <2>2
  <2> QED  BY <2>1, <2>2
<1> HIDE DEF done
<1>10. CASE q.end = "ok"
  <2>1. out(q) = Result(IF called.end = "ok" THEN done(q.log) ELSE q.log, called.end, called.cost)
    BY <1>10
  <2>2. KeptInOrder(log, out(q).log) /\ out(q).end \in Ends  BY <1>3, <1>8, <1>9, <2>1 DEF Result
  <2> HIDE DEF out
  <2> QED  BY <1>2, <2>2
<1>11. CASE q.end # "ok"
  <2>1. out(q).log = q.log /\ out(q).end = q.end  BY <1>7, <1>11 DEF Result
  <2> HIDE DEF out
  <2> QED  BY <1>2, <1>7, <1>8, <2>1
<1> QED  BY <1>10, <1>11

IsOutcome(o) == o = Result(o.log, o.end, o.cost)

LEMMA OutcomeIs == ASSUME NEW o, NEW k, NEW e, NEW c, o = Result(k, e, c) PROVE IsOutcome(o) /\ o.log = k /\ o.end = e
  BY DEF Result, IsOutcome

LEMMA CallOutcome == ASSUME NEW o \in CallWithSpeed \cup Call PROVE IsOutcome(o)
  BY OutcomeIs DEF CallWithSpeed, Call

LEMMA QueuedOutcome ==
  ASSUME NEW o, IsOutcome(o), NEW h, NEW p, p = [o EXCEPT !.log = Queued(@, h)]
  PROVE  IsOutcome(p) /\ p.log = Queued(o.log, h) /\ p.end = o.end
<1> DEFINE k == Queued(o.log, h)
<1>1. p = [o EXCEPT !.log = k]  OBVIOUS
<1> HIDE DEF k
<1>2. p = Result(k, o.end, o.cost)  BY <1>1 DEF IsOutcome, Result
<1>3. IsOutcome(p) /\ p.log = k /\ p.end = o.end  BY <1>2 DEF Result, IsOutcome
<1> QED  BY <1>3 DEF k

LEMMA ControlTells ==
  ASSUME LogInv, Control
  PROVE  \E o : KeptInOrder(log, o.log) /\ o.end \in Ends /\ Body(o, "after", OutOfFrame)
<1>0. log \in Log /\ Timed(log) /\ Ordered(log)
  BY DEF LogInv, Control, Over, Abandoning, Closing, Last
<1>1. PICK o \in IF cfg.tm THEN Watched ELSE Scheduled : Body(ManualCommand(o), "after", OutOfFrame)
  BY DEF Control
<1>2. KeptInOrder(log, o.log) /\ o.end \in Ends /\ IsOutcome(o)
  <2>1. CASE o \in CallWithSpeed  BY <1>0, <2>1, CallFacts, CallOutcome, KeptItself
  <2>2. CASE o \in Watched
    <3>1. PICK q \in CallWithSpeed : o = [q EXCEPT !.log = Queued(@, q.end = "ok")]
      BY <2>2 DEF Watched
    <3>2. q.log = log /\ q.end \in Ends /\ IsOutcome(q)  BY CallFacts, CallOutcome
    <3> DEFINE h == (q.end = "ok")
    <3>3. o = [q EXCEPT !.log = Queued(@, h)]  BY <3>1
    <3> HIDE DEF h
    <3> QED  BY <1>0, <3>2, <3>3, QueuedOutcome, QueuedFacts
  <2>3. CASE o \in Then(Flush(Tick(log)), LAMBDA l : Write(l, log.now + 1, << >>))
    <3>1. Told(log, o, << >>)  BY <1>0, <2>3, FlushThenWrite
    <3>2. KeptInOrder(log, o.log) /\ o.end \in Ends
      BY <1>0, <3>1, NothingAdded DEF Told, KeptInOrder, Kept
    <3>3. \E k, at : o \in Flush(k) \/ o \in Write(k, at, << >>)  BY <2>3 DEF Then
    <3>4. IsOutcome(o)  BY <3>3, Outcomes DEF IsOutcome
    <3> QED  BY <3>2, <3>4
  <2> QED  BY <1>1, <2>1, <2>2, <2>3 DEF Scheduled
<1> DEFINE p == ManualCommand(o)
           h == cfg.wheel /\ car.mode = "MANUAL" /\ o.end = "ok"
<1>3. p = [o EXCEPT !.log = Queued(@, h)]  BY DEF ManualCommand
<1>4. o.log \in Log /\ Timed(o.log)  BY <1>2 DEF KeptInOrder, Kept
<1> HIDE DEF p, h
<1>5. p.log = Queued(o.log, h) /\ p.end = o.end  BY <1>2, <1>3, QueuedOutcome
<1>6. KeptInOrder(log, p.log)  BY <1>2, <1>4, <1>5, QueuedFacts, KeptTogether
<1>7. Body(p, "after", OutOfFrame)  BY <1>1 DEF p
<1> QED  BY <1>2, <1>5, <1>6, <1>7

LEMMA ThenOutcome ==
  ASSUME NEW l \in Log, NEW rows \in Rows, NEW o \in Then(Flush(l), LAMBDA k : Write(Tick(k), k.now + 1, rows))
  PROVE  IsOutcome(o)
<1>1. \E k, at : o \in Flush(k) \/ o \in Write(k, at, rows)  BY DEF Then
<1> QED  BY <1>1, Outcomes DEF IsOutcome

LEMMA PersistedOutcome == ASSUME NEW o, IsOutcome(o), NEW p \in Persisted(o) PROVE IsOutcome(p)
<1>1. CASE ~Logged  BY <1>1 DEF Persisted
<1>2. CASE Logged
  <2>1. PICK q \in Then(Flush(o.log), LAMBDA m : IF o.end = "ok" THEN Capture(m) ELSE {Result(m, "ok", 0)}) :
          p = IF o.end = "ok" THEN q ELSE Result(q.log, o.end, o.cost + q.cost)
    BY <1>2 DEF Persisted
  <2>2. CASE o.end # "ok"
    <3> DEFINE c == o.cost + q.cost
    <3>1. p = Result(q.log, o.end, c)  BY <2>1, <2>2
    <3> HIDE DEF c
    <3> QED  BY <3>1, OutcomeIs
  <2>3. CASE o.end = "ok"
    <3>1. \E k, at : q \in Flush(k) \/ q \in Write(k, at, << >>)  BY <2>1, <2>3 DEF Then, Capture
    <3> QED  BY <2>1, <2>3, <3>1, Outcomes DEF IsOutcome
  <2> QED  BY <2>2, <2>3
<1> QED  BY <1>1, <1>2

LEMMA AfterTells ==
  ASSUME LogInv, After
  PROVE  \E o, next : /\ KeptInOrder(log, o.log) /\ o.end \in Ends /\ Body(o, next, OutOfFrame)
                      /\ next \in {"frame", "collision"}
                      /\ next = "collision" => run.scene
<1>0. log \in Log /\ Timed(log) /\ Ordered(log)
  BY DEF LogInv, After, Over, Abandoning, Closing, Last
<1>1. PICK o \in IF cfg.inter THEN UNION {Persisted(q) : q \in Call} ELSE Call :
          LET seen  == IF cfg.exit THEN Stamped(o.log, o.log.latest) ELSE o.log
              emit  == IF run.scene \/ run.following
                       THEN Then(Flush(seen), LAMBDA k : Write(Tick(k), k.now + 1, << >>))
                       ELSE {Result(seen, "ok", 0)}
          IN  \E q \in IF o.end = "ok" THEN emit ELSE {o} :
                 \E next \in {"frame"} \cup (IF run.scene THEN {"collision"} ELSE {}) :
                    Body([q EXCEPT !.log = IF cfg.exit /\ q.end = "ok" THEN Enqueue(@) ELSE @,
                                   !.cost = IF o.end = "ok" THEN o.cost + @ ELSE @],
                         next, OutOfFrame)
  BY DEF After
<1> DEFINE seen  == IF cfg.exit THEN Stamped(o.log, o.log.latest) ELSE o.log
           emit  == IF run.scene \/ run.following
                       THEN Then(Flush(seen), LAMBDA k : Write(Tick(k), k.now + 1, << >>))
                       ELSE {Result(seen, "ok", 0)}
           out(q) == [q EXCEPT !.log = IF cfg.exit /\ q.end = "ok" THEN Enqueue(@) ELSE @,
                                   !.cost = IF o.end = "ok" THEN o.cost + @ ELSE @]
<1>2. PICK q \in IF o.end = "ok" THEN emit ELSE {o},
           next \in {"frame"} \cup (IF run.scene THEN {"collision"} ELSE {}) :
             Body(out(q), next, OutOfFrame)
  BY <1>1
<1>3. KeptInOrder(log, o.log) /\ o.end \in Ends /\ IsOutcome(o)
  <2>1. CASE o \in Call  BY <1>0, <2>1, CallFacts, CallOutcome, KeptItself
  <2>2. CASE \E c \in Call : o \in Persisted(c)
    <3>1. PICK c \in Call : o \in Persisted(c)  BY <2>2
    <3>2. KeptInOrder(log, c.log) /\ c.end \in Ends /\ IsOutcome(c)
      BY <1>0, CallFacts, CallOutcome, KeptItself
    <3> QED  BY <1>0, <3>1, <3>2, PersistedFacts, PersistedOutcome
  <2> QED  BY <1>1, <2>1, <2>2
<1>4. o.log \in Log /\ Timed(o.log) /\ Ordered(o.log)  BY <1>0, <1>3 DEF KeptInOrder, Kept
<1>5. KeptInOrder(o.log, seen)
  <2>1. CASE cfg.exit
    <3>1. o.log.latest \in Nat /\ o.log.latest <= o.log.latest /\ o.log.latest <= o.log.now
      BY <1>4 DEF Log, Timed
    <3> QED  BY <1>4, <2>1, <3>1, StampFacts
  <2>2. CASE ~cfg.exit  BY <1>4, <2>2, KeptItself
  <2> QED  BY <2>1, <2>2
<1>6. KeptInOrder(log, seen) /\ seen \in Log /\ Timed(seen) /\ Ordered(seen)
  BY <1>3, <1>4, <1>5, KeptTogether DEF KeptInOrder, Kept
<1> HIDE DEF seen
<1>7. KeptInOrder(log, q.log) /\ q.end \in Ends /\ IsOutcome(q)
  <2>1. CASE q = o  BY <1>3, <2>1
  <2>2. CASE q = Result(seen, "ok", 0)  BY <1>6, <2>2, OutcomeIs DEF Ends
  <2>3. CASE q \in Then(Flush(seen), LAMBDA k : Write(Tick(k), k.now + 1, << >>))
    <3>1. Told(seen, q, << >>)  BY <1>6, <2>3, FlushThenTick, NoRowIsRow
    <3>2. KeptInOrder(seen, q.log) /\ q.end \in Ends
      BY <1>6, <3>1, NothingAdded DEF Told, KeptInOrder, Kept
    <3>3. IsOutcome(q)  BY <1>6, <2>3, NoRowIsRow, ThenOutcome
    <3>4. KeptInOrder(log, q.log)  BY <1>6, <3>2, KeptTogether
    <3> QED  BY <3>2, <3>3, <3>4
  <2> QED  BY <1>2, <2>1, <2>2, <2>3
<1> HIDE DEF emit
<1>8. q.log \in Log /\ Timed(q.log)  BY <1>7 DEF KeptInOrder, Kept
<1> DEFINE k == IF cfg.exit /\ q.end = "ok" THEN Enqueue(q.log) ELSE q.log
           c == IF o.end = "ok" THEN o.cost + q.cost ELSE q.cost
<1>9. KeptInOrder(log, k)  BY <1>7, <1>8, EnqueueFacts, KeptTogether
<1>10. out(q) = [q EXCEPT !.log = k, !.cost = c]  OBVIOUS
<1> HIDE DEF k, c, out
<1>11. out(q).log = k /\ out(q).end = q.end  BY <1>7, <1>10 DEF IsOutcome, Result
<1> QED  BY <1>2, <1>7, <1>9, <1>11

LEMMA EndDriveTells ==
  ASSUME LogInv, EndDrive
  PROVE  \E o : /\ Told(log, o, Row("end", stage.label, "NORMAL_COMPLETION"))
                /\ Body(o, "follow", "leave") /\ Ended(o)
<1> DEFINE rows == Row("end", stage.label, "NORMAL_COMPLETION")
<1>1. log \in Log /\ Timed(log) /\ Ordered(log) /\ stage.label \in Labels
  BY DEF LogInv, Stages, EndDrive, Over, Abandoning, Closing, Last
<1>2. "NORMAL_COMPLETION" \in Reasons  BY DEF Reasons
<1>3. rows \in Rows  BY <1>1, <1>2, RowIsRow
<1>4. PICK o \in Then(Flush(log), LAMBDA l : Write(Tick(l), l.now + 1, rows)) :
        Body(o, "follow", "leave") /\ Ended(o)
  BY DEF EndDrive, EndRow
<1> HIDE DEF rows
<1>5. Told(log, o, rows)  BY <1>1, <1>3, <1>4, FlushThenTick
<1> QED  BY <1>4, <1>5 DEF rows

\* A row written although the flush before it may have failed.
LEMMA WriteAfterFlush ==
  ASSUME NEW l \in Log, Timed(l), Ordered(l), NEW f \in Flush(l), NEW rows \in Rows,
         NEW o \in Write(Tick(f.log), f.log.now + 1, rows)
  PROVE  Told(l, o, rows) /\ (f.end # "ok" => o.log.failed)
<1>1. Told(l, f, << >>) /\ f.log \in Log /\ Timed(f.log)  BY FlushTold DEF Told
<1> DEFINE m == Tick(f.log)
<1>2. m.now = f.log.now + 1 /\ m.failed = f.log.failed /\ m \in Log
  BY <1>1, TickFacts DEF KeptInOrder, Kept
<1>3. o \in Write(m, m.now, rows)  BY <1>2
<1>4. Told(l, o, rows)  BY <1>1, <1>3, ToldNext
<1>5. f.end # "ok" => f.log.failed  BY <1>1 DEF Told
<1>6. m.failed => o.log.failed
  <2>1. m \in Log /\ Timed(m) /\ Ordered(m) /\ (Logged => Still(m))
    BY <1>1, <1>2, TickFacts DEF Told, KeptInOrder, Kept, Still
  <2>2. m.now \in Nat /\ m.latest <= m.now /\ m.now <= m.now  BY <2>1 DEF Log, Timed
  <2>3. Told(m, o, rows)  BY <1>3, <2>1, <2>2, WriteTold
  <2> QED  BY <2>3 DEF Told
<1> QED  BY <1>2, <1>4, <1>5, <1>6

LEMMA BeginFollowTells ==
  ASSUME LogInv, BeginFollow
  PROVE  \E o : /\ Told(log, o, Row("start", "hazard", ""))
                /\ Body(o, "frame", "abandonFollow")
                /\ stage' \in {stage, [active |-> o.end = "ok", ended |-> FALSE, label |-> "hazard"]}
                /\ ~o.log.failed => stage' = [active |-> TRUE, ended |-> FALSE, label |-> "hazard"]
<1> DEFINE rows == Row("start", "hazard", "")
<1>1. log \in Log /\ Timed(log) /\ Ordered(log)
  BY DEF LogInv, BeginFollow, Over, Abandoning, Closing, Last
<1>2. "" \in Reasons /\ "hazard" \in Labels  BY DEF Reasons, Labels
<1>3. rows \in Rows  BY <1>2, RowIsRow
<1>4. PICK f \in Flush(log) :
         \E o \in IF f.end # "ok" THEN {f} ELSE Write(Tick(f.log), f.log.now + 1, rows) :
             /\ Body(o, "frame", "abandonFollow")
             /\ stage' = IF f.end # "ok" THEN stage
                         ELSE [active |-> o.end = "ok", ended |-> FALSE, label |-> "hazard"]
  BY DEF BeginFollow
<1>5. PICK o \in IF f.end # "ok" THEN {f} ELSE Write(Tick(f.log), f.log.now + 1, rows) :
             /\ Body(o, "frame", "abandonFollow")
             /\ stage' = IF f.end # "ok" THEN stage
                         ELSE [active |-> o.end = "ok", ended |-> FALSE, label |-> "hazard"]
  BY <1>4
<1> HIDE DEF rows
<1>6. CASE f.end # "ok"
  <2>1. Told(log, f, << >>) /\ f.log.rows = log.rows  BY <1>1, FlushTold
  <2>2. o = f /\ stage' = stage  BY <1>5, <1>6
  <2>3. Told(log, o, rows) /\ o.log.failed  BY <1>6, <2>1, <2>2 DEF Told
  <2> QED  BY <1>5, <2>2, <2>3 DEF rows
<1>7. CASE f.end = "ok"
  <2>1. Told(log, o, rows)  BY <1>1, <1>3, <1>5, <1>7, WriteAfterFlush
  <2>2. ~o.log.failed => o.end = "ok"  BY <2>1 DEF Told
  <2> QED  BY <1>5, <1>7, <2>1, <2>2 DEF rows
<1> QED  BY <1>6, <1>7

LEMMA FinishFollowTells ==
  ASSUME LogInv, pc \in {"endFollow", "abandonFollow"}, FinishFollow("leave")
  PROVE  \E o, c, reason :
           /\ Told(log, o, Row("end", stage.label, reason)) /\ Ended(o)
           /\ reason \in {"NORMAL_COMPLETION", "FAILURE"}
           /\ reason # "FAILURE" => err.now = Nobody
           /\ c.log = o.log /\ c.end \in Ends /\ Cleanup(c, "leave")
           /\ ~o.log.failed => c.end = "ok"
<1>1. log \in Log /\ Timed(log) /\ Ordered(log) /\ stage.label \in Labels
  BY DEF LogInv, Stages, Over, Abandoning, Closing, Last
<1>2. PICK f \in Flush(log) :
       LET e == IF err.now # Nobody THEN err.now ELSE IF f.end = "ok" THEN Nobody ELSE f.end
           l == f.log
       IN  \E o \in Write(Tick(l), l.now + 1,
                          Row("end", stage.label, IF e = Nobody THEN "NORMAL_COMPLETION" ELSE "FAILURE")) :
              /\ Cleanup([o EXCEPT !.cost = @ + f.cost,
                                   !.end = IF f.end # "ok" THEN f.end ELSE @], "leave")
              /\ Ended(o)
  BY DEF FinishFollow
<1> DEFINE e == IF err.now # Nobody THEN err.now ELSE IF f.end = "ok" THEN Nobody ELSE f.end
           reason == IF e = Nobody THEN "NORMAL_COMPLETION" ELSE "FAILURE"
           rows == Row("end", stage.label, reason)
           joined(o) == [o EXCEPT !.cost = @ + f.cost, !.end = IF f.end # "ok" THEN f.end ELSE @]
<1>3. PICK o \in Write(Tick(f.log), f.log.now + 1, rows) : Cleanup(joined(o), "leave") /\ Ended(o)
  BY <1>2
<1>4. reason \in Reasons /\ reason \in {"NORMAL_COMPLETION", "FAILURE"}
      /\ (reason # "FAILURE" => err.now = Nobody)
  BY DEF Reasons
<1> HIDE DEF reason
<1>5. rows \in Rows  BY <1>1, <1>4, RowIsRow
<1> HIDE DEF rows
<1>6. Told(log, o, rows) /\ (f.end # "ok" => o.log.failed)  BY <1>1, <1>3, <1>5, WriteAfterFlush
<1>7. IsOutcome(o)  BY <1>3, Outcomes DEF IsOutcome
<1>8. f.end \in Ends /\ o.end \in Ends  BY <1>1, <1>6, FlushTold DEF Told
<1> DEFINE c == joined(o)
<1>9. c.log = o.log /\ c.end = IF f.end # "ok" THEN f.end ELSE o.end  BY <1>7 DEF IsOutcome, Result
<1> HIDE DEF joined, c
<1>10. ~o.log.failed => c.end = "ok"  BY <1>6, <1>9 DEF Told
<1>11. c.log = o.log /\ c.end \in Ends /\ Cleanup(c, "leave") /\ Ended(o)  BY <1>3, <1>8, <1>9 DEF c
<1> QED  BY <1>4, <1>6, <1>10, <1>11 DEF rows

LEMMA CloseContactTells ==
  ASSUME LogInv, CloseContact
  PROVE  \E o : /\ Told(log, o, Row("end", stage.label, "HAZARD_COLLISION"))
                /\ Attempt(o, "releaseContact") /\ Ended(o)
<1> DEFINE rows == Row("end", stage.label, "HAZARD_COLLISION")
<1>1. Ordered(log) /\ (Logged => Still(log)) /\ stage.label \in Labels
  BY DEF LogInv, Stages, CloseContact, Over, Abandoning, Closing, Last, Quiet
<1>2. "HAZARD_COLLISION" \in Reasons  BY DEF Reasons
<1>3. rows \in Rows  BY <1>1, <1>2, RowIsRow
<1>4. PICK o \in Write(Tick(log), log.now + 1, rows) : Attempt(o, "releaseContact") /\ Ended(o)
  BY DEF CloseContact
<1> HIDE DEF rows
<1> QED  BY <1>1, <1>3, <1>4, WriteNow DEF rows

LEMMA StopAtContactTells ==
  ASSUME LogInv, StopAtContact
  PROVE  \E o : Told(log, o, << >>) /\ Attempt(o, "closeContact")
<1>1. log \in Log /\ Timed(log) /\ Ordered(log)
  BY DEF LogInv, StopAtContact, Over, Abandoning, Closing, Last
<1> QED  BY <1>1, FlushTold DEF StopAtContact

\* A call of the drive's own, with an event that waits behind it.
LEMMA QueuedCall ==
  ASSUME log \in Log, Timed(log), NEW h, NEW o \in {[q EXCEPT !.log = Queued(@, h)] : q \in Call}
  PROVE  KeptInOrder(log, o.log) /\ o.end \in Ends
<1>1. PICK q \in Call : o = [q EXCEPT !.log = Queued(@, h)]  OBVIOUS
<1>2. q.log = log /\ q.end \in Ends /\ IsOutcome(q)  BY CallFacts, CallOutcome
<1> QED  BY <1>1, <1>2, QueuedOutcome, QueuedFacts

LEMMA LeaveViewTells ==
  ASSUME LogInv, LeaveView
  PROVE  \E o : KeptInOrder(log, o.log) /\ o.end \in Ends /\ Body(o, "measure", "measure")
<1> DEFINE h == (own.wheel = "open")
<1>1. PICK o \in {[q EXCEPT !.log = Queued(@, h)] : q \in Call} : Body(o, "measure", "measure")
  BY DEF LeaveView
<1> HIDE DEF h
<1> QED  BY <1>1, QueuedCall DEF LogInv

LEMMA BeforeShutdownTells ==
  ASSUME LogInv, BeforeShutdown
  PROVE  \E o : /\ KeptInOrder(log, o.log) /\ o.end \in Ends
                /\ Body(o, "finalizeScene", "finalizeScene")
<1>1. log \in Log /\ Timed(log) /\ Ordered(log)
  BY DEF LogInv, BeforeShutdown, Over, Abandoning, Closing, Last
<1>2. PICK o \in Then(Flush(log), LAMBDA l : {Result(l, q.end, q.cost) : q \in Call}) :
        Body(o, "finalizeScene", "finalizeScene")
  BY DEF BeforeShutdown
<1>3. PICK f \in Flush(log) : o = f \/ \E q \in Call : o = Result(f.log, q.end, q.cost)
  BY <1>2 DEF Then
<1>4. KeptInOrder(log, f.log) /\ f.end \in Ends  BY <1>1, FlushFacts DEF KeptInOrder
<1>5. CASE \E q \in Call : o = Result(f.log, q.end, q.cost)
  <2>1. PICK q \in Call : o = Result(f.log, q.end, q.cost)  BY <1>5
  <2>2. o.log = f.log /\ o.end \in Ends  BY <2>1, CallFacts DEF Result
  <2> QED  BY <1>2, <1>4, <2>2
<1> QED  BY <1>2, <1>3, <1>4, <1>5

LEMMA FinalizeSceneTells ==
  ASSUME LogInv, FinalizeScene
  PROVE  \E o : /\ KeptInOrder(log, o.log) /\ o.end \in Ends /\ Cleanup(o, "shutdown")
                /\ ~o.log.failed => o.end = "ok"
<1>1. log \in Log /\ Timed(log) /\ Ordered(log)
  BY DEF LogInv, FinalizeScene, Over, Abandoning, Closing, Last
<1>2. CASE \E o \in {Result(log, "ok", 0)} : Cleanup(o, "shutdown")
  BY <1>1, <1>2, OutcomeIs, KeptItself DEF Ends
<1>3. CASE \E o \in Then(Flush(log), LAMBDA l : Then(Write(Tick(l), l.now + 1, << >>), Flush)) : Cleanup(o, "shutdown")
  <2>1. PICK o \in Then(Flush(log), LAMBDA l : Then(Write(Tick(l), l.now + 1, << >>), Flush)) : Cleanup(o, "shutdown")
    BY <1>3
  <2>2. Told(log, o, << >>)  BY <1>1, <2>1, SceneEndTold
  <2> QED  BY <1>1, <2>1, <2>2, NothingAdded DEF Told, KeptInOrder, Kept
<1> QED  BY <1>2, <1>3 DEF FinalizeScene

LEMMA ShutdownTells ==
  ASSUME LogInv, Shutdown
  PROVE  \E o : /\ KeptInOrder(log, o.log) /\ o.end \in Ends /\ Cleanup(o, "observation")
                /\ run' = [run EXCEPT !.shut = (o.end = "ok"),
                                      !.shutAt = IF o.end = "ok" THEN o.log.now ELSE @]
<1> DEFINE l == IF Logged THEN Tick(log) ELSE log
<1>1. PICK request \in Call, brake \in Call :
        LET o == Both(request, brake, l)
        IN  /\ Cleanup(o, "observation")
            /\ run' = [run EXCEPT !.shut = (o.end = "ok"),
                                  !.shutAt = IF o.end = "ok" THEN l.now ELSE @]
  BY DEF Shutdown
<1>2. log \in Log /\ Timed(log)  BY DEF LogInv
<1>3. KeptInOrder(log, l)  BY <1>2, TickFacts, KeptItself
<1> HIDE DEF l
<1> DEFINE o == Both(request, brake, l)
<1>4. o.log = l /\ o.end \in Ends  BY CallFacts DEF Both, Result
<1> HIDE DEF o
<1>5. Cleanup(o, "observation") /\ run' = [run EXCEPT !.shut = (o.end = "ok"), !.shutAt = IF o.end = "ok" THEN o.log.now ELSE @]
  BY <1>1, <1>4 DEF o
<1> QED  BY <1>3, <1>4, <1>5

\* A lane change under way is given its end; the shutdown's stamp is the clock's time still.
LEMMA FinishObservationTells ==
  ASSUME LogInv, FinishObservation
  PROVE  \E o : /\ KeptInOrder(log, o.log) /\ o.end \in Ends /\ Cleanup(o, "flush1")
                /\ run.shut => o.log.now = log.now
<1>0. log \in Log /\ Timed(log) /\ Ordered(log) /\ (run.shut => run.shutAt = log.now)
  BY DEF LogInv, FinishObservation, Over, Abandoning, Closing, Last
<1>1. PICK q \in Call, moving \in IF Logged /\ (cfg.tm \/ cfg.exit) THEN BOOLEAN ELSE {FALSE} :
          Cleanup([q EXCEPT !.log =
                     IF ~moving THEN @
                     ELSE IF run.shut THEN Stamped(@, run.shutAt)
                     ELSE Enqueue(@)], "flush1")
  BY DEF FinishObservation
<1>2. q.log = log /\ q.end \in Ends /\ IsOutcome(q)  BY CallFacts, CallOutcome
<1> DEFINE k == IF ~moving THEN log
                ELSE IF run.shut THEN Stamped(log, run.shutAt) ELSE Enqueue(log)
           o == [q EXCEPT !.log =
                     IF ~moving THEN @
                     ELSE IF run.shut THEN Stamped(@, run.shutAt)
                     ELSE Enqueue(@)]
<1>3. KeptInOrder(log, k) /\ (run.shut => k.now = log.now)
  <2>1. CASE ~moving  BY <1>0, <2>1, KeptItself
  <2>2. CASE moving /\ run.shut
    <3> DEFINE stamp == run.shutAt
    <3>1. stamp \in Nat /\ log.latest <= stamp /\ stamp <= log.now  BY <1>0, <2>2 DEF Log, Timed
    <3>2. k = Stamped(log, stamp)  BY <2>2
    <3> HIDE DEF stamp, k
    <3>3. KeptInOrder(log, k)  BY <1>0, <3>1, <3>2, StampFacts
    <3>4. k.now = log.now  BY <1>0, <3>2 DEF Log, Stamped
    <3> QED  BY <3>3, <3>4
  <2>3. CASE moving /\ ~run.shut  BY <1>0, <2>3, EnqueueFacts
  <2> QED  BY <2>1, <2>2, <2>3
<1>4. o = [q EXCEPT !.log = k]
  <2>1. CASE ~moving  BY <1>2, <2>1
  <2>2. CASE moving /\ run.shut  BY <1>2, <2>2
  <2>3. CASE moving /\ ~run.shut  BY <1>2, <2>3
  <2> QED  BY <2>1, <2>2, <2>3
<1>5. Cleanup(o, "flush1")  BY <1>1
<1> HIDE DEF o, k
<1>6. o.log = k /\ o.end = q.end  BY <1>2, <1>4 DEF IsOutcome, Result
<1> QED  BY <1>2, <1>3, <1>5, <1>6

LEMMA FlushDriveTells ==
  ASSUME LogInv, FlushDrive
  PROVE  \E o : /\ Told(log, o, << >>) /\ o.log.now = log.now
                /\ Cleanup(o, IF Logged /\ run.engaged THEN "record1" ELSE "exit")
<1>1. log \in Log /\ Timed(log) /\ Ordered(log)
  BY DEF LogInv, FlushDrive, Over, Abandoning, Closing, Last
<1> QED  BY <1>1, FlushTold DEF FlushDrive

LEMMA FlushSummaryTells ==
  ASSUME LogInv, FlushSummary
  PROVE  \E o : Told(log, o, << >>) /\ Cleanup(o, IF err.now = "speed" THEN "violation" ELSE "rethrow")
<1>1. log \in Log /\ Timed(log) /\ Ordered(log)
  BY DEF LogInv, FlushSummary, Over, Abandoning, Closing, Last
<1> QED  BY <1>1, FlushTold DEF FlushSummary

LEMMA RecordShutdownTells ==
  ASSUME LogInv, RecordShutdown
  PROVE  \E o : Told(log, o, << >>) /\ Cleanup(o, "exit")
<1> DEFINE l == IF run.shut THEN log ELSE Tick(log)
           at == IF run.shut THEN run.shutAt ELSE l.now
<1>1. PICK o \in Then(Write(l, at, << >>), LAMBDA k : Write(k, at, << >>)) : Cleanup(o, "exit")
  BY DEF RecordShutdown
<1>2. PICK q \in Write(l, at, << >>) : (q.end # "ok" /\ o = q) \/ (q.end = "ok" /\ o \in Write(q.log, at, << >>))
  BY <1>1 DEF Then
<1>3. /\ log \in Log /\ Timed(log) /\ Ordered(log) /\ (run.shut => run.shutAt = log.now)
      /\ Logged => Still(log)
  BY DEF LogInv, RecordShutdown, Over, Abandoning, Closing, Last, Quiet
<1>4. KeptInOrder(log, l) /\ (Logged => Still(l)) /\ at = l.now
  BY <1>3, TickFacts, KeptItself DEF Still
<1>5. l \in Log /\ Timed(l) /\ Ordered(l) /\ at \in Nat /\ l.latest <= at /\ at <= l.now
  BY <1>3, <1>4 DEF KeptInOrder, Kept, Log, Timed
<1> HIDE DEF l, at
<1>6. Told(l, q, << >>) /\ q.log.now = l.now /\ q.log.latest <= at
  BY <1>2, <1>4, <1>5, NoRowIsRow, WriteTold
<1>7. CASE q.end = "ok" /\ o \in Write(q.log, at, << >>)
  <2>1. o \in Write(q.log, q.log.now, << >>)  BY <1>4, <1>6, <1>7
  <2>2. Told(l, o, << >>)  BY <1>5, <1>6, <2>1, NoRowIsRow, ToldNext
  <2> QED  BY <1>1, <1>4, <2>2, ToldLater
<1> QED  BY <1>1, <1>2, <1>4, <1>6, <1>7, ToldLater

LEMMA FinishExitTells ==
  ASSUME LogInv, FinishExit
  PROVE  \E o : KeptInOrder(log, o.log) /\ o.end \in Ends /\ Cleanup(o, "stopP6")
<1> DEFINE h == cfg.exit
<1>1. PICK o \in {[q EXCEPT !.log = Queued(@, h)] : q \in Call} : Cleanup(o, "stopP6")
  BY DEF FinishExit
<1> HIDE DEF h
<1> QED  BY <1>1, QueuedCall DEF LogInv

LEMMA SummarizeTells ==
  ASSUME LogInv, Summarize
  PROVE  \/ Skip("summary", "flush2")
         \/ \E o : KeptInOrder(log, o.log) /\ o.end = "ok" /\ Cleanup(o, "flush2")
         \/ \E o : KeptInOrder(log, o.log) /\ o.end \in Ends /\ Body(o, "flush2", OutOfRun)
<1>1. CASE Skip("summary", "flush2")  BY <1>1
<1>2. CASE \E o \in {[q EXCEPT !.log = Queued(@, TRUE)] : q \in Call} :
             \/ Cleanup([o EXCEPT !.end = "ok"], "flush2")
             \/ Body(o, "flush2", OutOfRun)
  <2> DEFINE h == TRUE
  <2>1. PICK o \in {[q EXCEPT !.log = Queued(@, h)] : q \in Call} :
             \/ Cleanup([o EXCEPT !.end = "ok"], "flush2")
             \/ Body(o, "flush2", OutOfRun)
    BY <1>2
  <2>2. PICK q \in Call : o = [q EXCEPT !.log = Queued(@, h)]  BY <2>1
  <2> HIDE DEF h
  <2>3. KeptInOrder(log, o.log) /\ o.end \in Ends  BY <2>1, QueuedCall DEF LogInv
  <2>4. IsOutcome(o)  BY <2>2, CallOutcome, QueuedOutcome
  <2> DEFINE p == [o EXCEPT !.end = "ok"]
  <2>5. p.log = o.log /\ p.end = "ok"  BY <2>4 DEF IsOutcome, Result
  <2> HIDE DEF p
  <2>6. Cleanup(p, "flush2") \/ Body(o, "flush2", OutOfRun)  BY <2>1 DEF p
  <2> QED  BY <2>3, <2>5, <2>6
<1> QED  BY <1>1, <1>2 DEF Summarize

EndRows == IF stage.active THEN Row("end", stage.label, Reason) ELSE Row("start_failure", "drive", Reason)

\* The last row of the drive is written in time whatever still waits.
LEMMA EndStageTells ==
  ASSUME LogInv, EndStage
  PROVE  \/ (stage.ended /\ ~stage.active) /\ Skip("endStage", "deactivate")
         \/ /\ ~(stage.ended /\ ~stage.active)
            /\ \E o : /\ o.log \in Log /\ Timed(o.log) /\ o.end \in Ends
                      /\ ~o.log.failed => ~log.failed /\ o.end = "ok"
                      /\ o.log.rows = IF Logged /\ o.end = "ok" THEN log.rows \o EndRows ELSE log.rows
                      /\ Cleanup(o, "deactivate")
                      /\ IF stage.active THEN Ended(o) ELSE UNCHANGED stage
<1>1. CASE stage.ended /\ ~stage.active  BY <1>1 DEF EndStage
<1>2. CASE ~(stage.ended /\ ~stage.active)
  <2>1. PICK o \in Write(Tick(log), log.now + 1, EndRows) :
           /\ Cleanup(o, "deactivate")
           /\ IF stage.active THEN Ended(o) ELSE UNCHANGED stage
    BY <1>2 DEF EndStage, EndRows
  <2> DEFINE m == Tick(log)
  <2>2. /\ m \in Log /\ Timed(m) /\ m.now = log.now + 1 /\ m.rows = log.rows
        /\ ~m.failed => ~log.failed
    BY TickFacts DEF LogInv, KeptInOrder, Kept
  <2>3. m.now \in Nat /\ m.latest <= m.now /\ m.now <= m.now  BY <2>2 DEF Log, Timed
  <2>4. EndRows \in Rows
    <3>1. Reason \in Reasons /\ "drive" \in Labels /\ stage.label \in Labels
      BY DEF Reason, Reasons, Labels, LogInv, Stages
    <3> QED  BY <3>1, RowIsRow DEF EndRows
  <2>5. o \in Write(m, m.now, EndRows)  BY <2>1, <2>2
  <2> HIDE DEF m
  <2>6. /\ o.log \in Log /\ Timed(o.log) /\ o.end \in Ends
        /\ ~o.log.failed => ~m.failed /\ o.end = "ok"
        /\ o.log.rows = IF Logged /\ o.end = "ok" THEN m.rows \o EndRows ELSE m.rows
    BY <2>2, <2>3, <2>4, <2>5, WriteFacts
  <2> QED  BY <1>2, <2>1, <2>2, <2>6
<1> QED  BY <1>1, <1>2

LEMMA CloseControlTells ==
  ASSUME LogInv, CloseControl
  PROVE  \/ Skip("deactivate", "closeProbe")
         \/ \E o : KeptInOrder(log, o.log) /\ o.end \in Ends /\ Cleanup(o, "closeProbe")
<1>1. log \in Log /\ Timed(log)  BY DEF LogInv
<1>2. CASE \E request \in Call, brake \in Call :
             Cleanup(Both(request, brake, IF Logged THEN Tick(log) ELSE log), "closeProbe")
  <2> DEFINE l == IF Logged THEN Tick(log) ELSE log
  <2>1. PICK request \in Call, brake \in Call : Cleanup(Both(request, brake, l), "closeProbe")
    BY <1>2
  <2>2. KeptInOrder(log, l)  BY <1>1, TickFacts, KeptItself
  <2> HIDE DEF l
  <2> DEFINE o == Both(request, brake, l)
  <2>3. o.log = l /\ o.end \in Ends  BY CallFacts DEF Both, Result
  <2> HIDE DEF o
  <2>4. Cleanup(o, "closeProbe")  BY <2>1 DEF o
  <2> QED  BY <2>2, <2>3, <2>4
<1>3. CASE \E o \in Call : Cleanup(o, "closeProbe")  BY <1>1, <1>3, CallFacts, KeptItself
<1> QED  BY <1>2, <1>3 DEF CloseControl

LEMMA CloseViewerTells ==
  ASSUME LogInv, CloseViewer
  PROVE  \E o : KeptInOrder(log, o.log) /\ o.end \in Ends /\ Cleanup(o, "closeHero")
<1> DEFINE h == (own.wheel = "open")
           l == Queued(log, h)
<1>1. PICK wheel \in IF own.wheel = "open" THEN Call ELSE {Result(log, "ok", 0)}, feeds \in Call :
          Cleanup(Both(wheel, feeds, l), "closeHero")
  BY DEF CloseViewer
<1>2. KeptInOrder(log, l)  BY QueuedFacts DEF LogInv
<1>3. wheel.end \in Ends /\ feeds.end \in Ends  BY <1>1, CallFacts, OutcomeIs DEF Ends
<1> HIDE DEF l
<1> DEFINE o == Both(wheel, feeds, l)
<1>4. o.log = l /\ o.end \in Ends  BY <1>3 DEF Both, Result
<1> HIDE DEF o
<1>5. Cleanup(o, "closeHero")  BY <1>1 DEF o
<1> QED  BY <1>2, <1>4, <1>5

-----------------------------------------------------------------------------
\* From one step to the next.
LEMMA LogStarts == Init => LogInv
<1> SUFFICES ASSUME Init PROVE LogInv  OBVIOUS
<1>1. << >> \in Seq(Line) /\ {} \in SUBSET Nat  OBVIOUS
<1>2. log \in Log  BY <1>1 DEF Init, Log
<1> QED  BY <1>2 DEF Init, LogInv, Timed, Ordered, Still, Labels, Stages

\* What told the log leaves it sound, and nothing waiting.
LEMMA ToldKeeps ==
  ASSUME LogInv, NEW o, NEW rows, Told(log, o, rows), log' = o.log, cfg' = cfg,
         stage' \in Stages, pc' \notin {"observation", "flush1", "record1"}
  PROVE  LogInv'
  BY DEF LogInv, Told, Timed, Ordered, Still, Logged

\* What adds to the log leaves it sound; where nothing may wait it added nothing.
LEMMA AddedKeeps ==
  ASSUME LogInv, pc \notin Over, NEW o, KeptInOrder(log, o.log), log' = o.log, cfg' = cfg,
         stage' \in Stages, pc' \notin {"observation", "flush1", "record1"},
         pc' \in Quiet => (Logged => Still(o.log))
  PROVE  LogInv'
  BY DEF LogInv, KeptInOrder, Kept, Timed, Ordered, Still, Logged

LEMMA OverKeeps ==
  ASSUME LogInv, NEW o, o.log \in Log, Timed(o.log), o.log.rows = log.rows \/ Logged, log' = o.log, cfg' = cfg,
         stage' \in Stages, pc' \in Over
  PROVE  LogInv'
  BY DEF LogInv, Timed, Ordered, Still, Logged, Over, Abandoning, Closing, Last, Quiet, Unspawned, Building,
         Priming

LEMMA SilentKeeps ==
  ASSUME LogInv, log' = log, cfg' = cfg, stage' \in Stages,
         pc' \notin {"observation", "flush1", "record1"},
         pc' \notin Over => pc \notin Over, pc' \in Quiet => pc \in Quiet
  PROVE  LogInv'
  BY DEF LogInv, Logged

LEMMA OpeningLogs ==
  ASSUME LogInv,
         \/ OpenLog \/ MakeP6 \/ Preflight \/ SpawnHero \/ RecordSetting \/ OpenProbe
         \/ BuildBundle \/ CreateViewer \/ AttachViewer \/ WireSession
  PROVE  LogInv'
<1> USE DEF Over, Abandoning, Closing, Last, Quiet, Unspawned, Building, Priming, Body, Skip
<1>l. stage \in Stages  BY DEF LogInv
<1>1. CASE OpenLog
  <2>1. \A o \in IF cfg.log = "own" THEN Call ELSE {Result(log, "ok", 0)} : o.log = log
    BY CallFacts, OutcomeIs
  <2> QED  BY <1>1, <1>l, <2>1, SilentKeeps DEF OpenLog
<1>2. CASE MakeP6 \/ OpenProbe  BY <1>2, <1>l, CallFacts, SilentKeeps DEF MakeP6, OpenProbe
<1>3. CASE Preflight \/ BuildBundle \/ AttachViewer
  BY <1>3, <1>l, CallFacts, SilentKeeps DEF Preflight, BuildBundle, AttachViewer
<1>4. CASE SpawnHero \/ CreateViewer
  BY <1>4, <1>l, CallFacts, SilentKeeps DEF SpawnHero, CreateViewer
<1>5. CASE RecordSetting
  <2>1. PICK o : (IF Logged THEN Told(log, o, << >>) ELSE o \in Call) /\ Body(o, "probe", "abandonProbe")
    BY <1>5, RecordSettingTells
  <2>2. UNCHANGED << cfg, own, car, stage, run >> /\ pc = "record"  BY <1>5 DEF RecordSetting
  <2>3. CASE Logged  BY <1>l, <2>1, <2>2, <2>3, ToldKeeps
  <2>4. CASE ~Logged  BY <1>l, <2>1, <2>2, <2>4, CallFacts, SilentKeeps
  <2> QED  BY <2>3, <2>4
<1>6. CASE WireSession
  <2>1. PICK o : /\ o \in Call \/ Told(log, o, << >>)
                 /\ Body(o, IF Logged THEN "attempt" ELSE IF cfg.dry THEN "dry" ELSE "speed", "abandonProbe")
    BY <1>6, WireSessionTells
  <2>2. UNCHANGED << cfg, own, car, stage, run >> /\ pc = "wire"  BY <1>6 DEF WireSession
  <2>3. CASE Told(log, o, << >>)  BY <1>l, <2>1, <2>2, <2>3, ToldKeeps
  <2>4. CASE o \in Call  BY <1>l, <2>1, <2>2, <2>4, CallFacts, SilentKeeps
  <2> QED  BY <2>1, <2>3, <2>4
<1> QED  BY <1>1, <1>2, <1>3, <1>4, <1>5, <1>6

LEMMA AbandoningLogs ==
  ASSUME LogInv,
         \/ AbandonProbe \/ AbandonViewer \/ AbandonHero
         \/ CloseProbe \/ CloseP6 \/ CloseHero \/ LastP6 \/ CloseLog
  PROVE  LogInv'
<1>1. /\ log' = log /\ cfg' = cfg /\ stage' = stage /\ pc \in Over
      /\ pc' \in {"abandonViewer", "abandonHero", "lastP6", "closeP6", "closeViewer", "closeLog", "done"}
  BY CallFacts DEF AbandonProbe, AbandonViewer, AbandonHero, CloseProbe, CloseP6, CloseHero, LastP6, CloseLog,
                   Release, CloseP6Runtime, Cleanup, Skip, Over, Abandoning, Closing, Last
<1> QED
  BY <1>1, SilentKeeps DEF LogInv, Over, Abandoning, Closing, Last, Quiet, Unspawned, Building, Priming

LEMMA LabelKept ==
  ASSUME stage \in Stages, NEW o, Ended(o) PROVE stage' \in Stages
  BY DEF Ended, Stages

LEMMA ClosingLogs ==
  ASSUME LogInv, CloseControl \/ CloseViewer \/ EndStage \/ DryRun
  PROVE  LogInv'
<1>l. stage \in Stages /\ log \in Log /\ Timed(log)  BY DEF LogInv
<1>1. CASE CloseControl
  <2>1. UNCHANGED << cfg, own, stage, run >>  BY <1>1 DEF CloseControl, Skip
  <2>2. \/ Skip("deactivate", "closeProbe")
        \/ \E o : KeptInOrder(log, o.log) /\ o.end \in Ends /\ Cleanup(o, "closeProbe")
    BY <1>1, CloseControlTells
  <2>3. CASE Skip("deactivate", "closeProbe")
    BY <1>l, <2>1, <2>3, SilentKeeps DEF Skip, Over, Closing, Last, Abandoning, Quiet, Unspawned, Building, Priming
  <2>4. CASE \E o : KeptInOrder(log, o.log) /\ o.end \in Ends /\ Cleanup(o, "closeProbe")
    BY <1>l, <2>1, <2>4, OverKeeps DEF Cleanup, KeptInOrder, Kept, Over, Closing
  <2> QED  BY <2>2, <2>3, <2>4
<1>2. CASE CloseViewer
  <2>1. UNCHANGED << cfg, car, stage, run >>  BY <1>2 DEF CloseViewer
  <2>2. PICK o : KeptInOrder(log, o.log) /\ o.end \in Ends /\ Cleanup(o, "closeHero")
    BY <1>2, CloseViewerTells
  <2> QED  BY <1>l, <2>1, <2>2, OverKeeps DEF Cleanup, KeptInOrder, Kept, Over, Closing
<1>3. CASE EndStage
  <2>1. UNCHANGED << cfg, own, car, run >>  BY <1>3 DEF EndStage, Skip
  <2>2. CASE Skip("endStage", "deactivate")
    BY <1>l, <2>2, SilentKeeps DEF Skip, Over, Closing, Last, Abandoning, Quiet, Unspawned, Building, Priming
  <2>3. CASE \E o : /\ o.log \in Log /\ Timed(o.log) /\ o.end \in Ends
                    /\ ~o.log.failed => ~log.failed /\ o.end = "ok"
                    /\ o.log.rows = IF Logged /\ o.end = "ok" THEN log.rows \o EndRows ELSE log.rows
                    /\ Cleanup(o, "deactivate")
                    /\ IF stage.active THEN Ended(o) ELSE UNCHANGED stage
    <3>1. PICK o : /\ o.log \in Log /\ Timed(o.log)
                   /\ o.log.rows = IF Logged /\ o.end = "ok" THEN log.rows \o EndRows ELSE log.rows
                   /\ Cleanup(o, "deactivate")
                   /\ IF stage.active THEN Ended(o) ELSE UNCHANGED stage
      BY <2>3
    <3>2. stage' \in Stages  BY <1>l, <3>1, LabelKept DEF Ended
    <3>3. log' = o.log /\ pc' = "deactivate" /\ (o.log.rows = log.rows \/ Logged)
      BY <3>1 DEF Cleanup
    <3> QED  BY <2>1, <3>1, <3>2, <3>3, OverKeeps DEF Over
  <2> QED  BY <1>3, <2>2, <2>3, EndStageTells
<1>4. CASE DryRun
  BY <1>4, <1>l, CallFacts, SilentKeeps DEF DryRun, Body, Over, Closing, Last, Abandoning, Quiet, Unspawned, Building, Priming
<1> QED  BY <1>1, <1>2, <1>3, <1>4

LEMMA StartingLogs ==
  ASSUME LogInv,
         \/ StartAttempt \/ RecordAuthority \/ ObserveInitialSpeed \/ RecordNoControl
         \/ ReadGear \/ Halt \/ Engage \/ Confirm
         \/ PrepareInput \/ Initialize \/ StartP6 \/ StartStage \/ BindScene
  PROVE  LogInv'
<1> USE DEF Over, Abandoning, Closing, Last, Quiet, Unspawned, Building, Priming, Body, Skip, OutOfRun
<1>l. stage \in Stages  BY DEF LogInv
<1>1. CASE StartAttempt
  <2>1. PICK o : Told(log, o, Row("attempt", "drive", "")) /\ Body(o, "speed", "deactivate")
    BY <1>1, StartAttemptTells
  <2>2. UNCHANGED << cfg, own, car, stage, run >>  BY <1>1 DEF StartAttempt
  <2> DEFINE rows == Row("attempt", "drive", "")
  <2>3. Told(log, o, rows)  BY <2>1
  <2> HIDE DEF rows
  <2> QED  BY <1>l, <2>1, <2>2, <2>3, ToldKeeps
<1>2. CASE RecordAuthority
  <2>1. PICK o : Told(log, o, << >>) /\ Body(o, "initial", OutOfRun)  BY <1>2, RecordAuthorityTells
  <2>2. UNCHANGED << cfg, own, car, stage, run >>  BY <1>2 DEF RecordAuthority
  <2> QED  BY <1>l, <2>1, <2>2, ToldKeeps
<1>3. CASE ObserveInitialSpeed \/ ReadGear
  BY <1>3, <1>l, CallFacts, SilentKeeps DEF ObserveInitialSpeed, ReadGear
<1>4. CASE RecordNoControl
  <2>1. pc = "noControl" /\ ViolationRecord(OutOfRun)  BY <1>4 DEF RecordNoControl
  <2>2. UNCHANGED << cfg, own, car, stage, run >>  BY <2>1 DEF ViolationRecord
  <2> DEFINE out == OutOfRun
  <2>o. out \in {"endStage", "deactivate"}  OBVIOUS
  <2>3. \/ ~Logged /\ Skip(pc, out)
        \/ \E o : Told(log, o, << >>) /\ Body(o, out, OutOfRun)
        \/ \E o : Told(log, o, << >>) /\ Cleanup(o, out)
    BY <2>1, ViolationTells
  <2> HIDE DEF out
  <2>4. CASE Skip(pc, out)  BY <1>l, <2>o, <2>4, SilentKeeps
  <2>5. CASE \E o : Told(log, o, << >>) /\ (Body(o, out, OutOfRun) \/ Cleanup(o, out))
    <3>1. PICK o : Told(log, o, << >>) /\ (Body(o, out, OutOfRun) \/ Cleanup(o, out))  BY <2>5
    <3>2. log' = o.log /\ pc' \in {"endStage", "deactivate"}  BY <2>o, <3>1 DEF Cleanup
    <3> QED  BY <1>l, <2>2, <3>1, <3>2, ToldKeeps
  <2> QED  BY <2>3, <2>4, <2>5
<1>5. CASE Halt \/ Engage \/ Confirm
  BY <1>5, <1>l, CallFacts, SilentKeeps DEF Halt, Engage, Confirm, Hold
<1>6. CASE PrepareInput
  <2>1. \/ Skip("input", "initialize")
        \/ \E o : KeptInOrder(log, o.log) /\ o.end \in Ends /\ Body(o, "initialize", "finalizeScene")
    BY <1>6, PrepareInputTells
  <2>2. UNCHANGED << cfg, stage, run >> /\ pc = "input"  BY <1>6 DEF PrepareInput
  <2>3. CASE Skip("input", "initialize")  BY <1>l, <2>3, SilentKeeps
  <2>4. CASE \E o : KeptInOrder(log, o.log) /\ o.end \in Ends /\ Body(o, "initialize", "finalizeScene")
    BY <1>l, <2>2, <2>4, AddedKeeps
  <2> QED  BY <2>1, <2>3, <2>4
<1>7. CASE Initialize
  <2>1. PICK o : /\ KeptInOrder(log, o.log) /\ Ordered(o.log) /\ o.end \in Ends
                 /\ Logged => Still(o.log)
                 /\ Body(o, "p6start", "finalizeScene")
    BY <1>7, InitializeTells
  <2>2. UNCHANGED << cfg, own, stage, run >> /\ pc = "initialize"  BY <1>7 DEF Initialize
  <2> QED  BY <1>l, <2>1, <2>2, AddedKeeps
<1>8. CASE StartP6 \/ BindScene  BY <1>8, <1>l, CallFacts, SilentKeeps DEF StartP6, BindScene
<1>9. CASE StartStage
  <2>1. CASE ~Logged  BY <1>9, <1>l, <2>1, SilentKeeps DEF StartStage
  <2>2. CASE Logged
    <3> DEFINE rows == Row("start", stage.label, "")
    <3>1. PICK o : /\ Told(log, o, rows) /\ Body(o, "scene", "finalizeScene")
                   /\ stage' = [stage EXCEPT !.active = (o.end = "ok")]
      BY <1>9, <2>2, StartStageTells
    <3>2. cfg' = cfg  BY <1>9 DEF StartStage
    <3>3. stage' \in Stages  BY <1>l, <3>1 DEF Stages
    <3> HIDE DEF rows
    <3> QED  BY <3>1, <3>2, <3>3, ToldKeeps
  <2> QED  BY <2>1, <2>2
<1> QED  BY <1>1, <1>2, <1>3, <1>4, <1>5, <1>6, <1>7, <1>8, <1>9

LEMMA FramesLog ==
  ASSUME LogInv, \/ Collect \/ Control \/ After \/ LeaveLoop \/ Boundary \/ MakeFollow
  PROVE  LogInv'
<1> USE DEF Over, Abandoning, Closing, Last, Quiet, Unspawned, Building, Priming, Body
<1>l. stage \in Stages  BY DEF LogInv
<1>1. CASE Collect
  <2>1. PICK o : KeptInOrder(log, o.log) /\ o.end \in Ends /\ Body(o, "control", OutOfFrame)
    BY <1>1, CollectTells
  <2>2. UNCHANGED << cfg, own, stage, run >> /\ pc = "frame"  BY <1>1, CollectMoves
  <2> QED  BY <1>l, <2>1, <2>2, AddedKeeps DEF OutOfFrame
<1>2. CASE Control
  <2>1. PICK o : KeptInOrder(log, o.log) /\ o.end \in Ends /\ Body(o, "after", OutOfFrame)
    BY <1>2, ControlTells
  <2>2. UNCHANGED << cfg, own, stage, run >> /\ pc = "control"  BY <1>2 DEF Control
  <2> QED  BY <1>l, <2>1, <2>2, AddedKeeps DEF OutOfFrame
<1>3. CASE After
  <2>1. PICK o, next : /\ KeptInOrder(log, o.log) /\ o.end \in Ends /\ Body(o, next, OutOfFrame)
                       /\ next \in {"frame", "collision"}
    BY <1>3, AfterTells
  <2>2. UNCHANGED << cfg, own, car, stage >> /\ pc = "after"  BY <1>3 DEF After
  <2>3. pc' \in {"frame", "collision", "abandonFollow", "leave"} /\ log' = o.log
    BY <2>1 DEF OutOfFrame
  <2> QED  BY <1>l, <2>1, <2>2, <2>3, AddedKeeps
<1>4. CASE LeaveLoop  BY <1>4, <1>l, SilentKeeps DEF LeaveLoop
<1>5. CASE Boundary \/ MakeFollow  BY <1>5, <1>l, CallFacts, SilentKeeps DEF Boundary, MakeFollow
<1> QED  BY <1>1, <1>2, <1>3, <1>4, <1>5

LEMMA FollowingLogs ==
  ASSUME LogInv,
         \/ EndDrive \/ BeginFollow \/ EndFollow \/ AbandonFollow
         \/ StopAtContact \/ CloseContact \/ ReleaseContact \/ HoldContact
  PROVE  LogInv'
<1> USE DEF Over, Abandoning, Closing, Last, Quiet, Unspawned, Building, Priming, Body
<1>l. stage \in Stages  BY DEF LogInv
<1>1. CASE EndDrive
  <2> DEFINE rows == Row("end", stage.label, "NORMAL_COMPLETION")
  <2>1. PICK o : Told(log, o, rows) /\ Body(o, "follow", "leave") /\ Ended(o)
    BY <1>1, EndDriveTells
  <2>2. UNCHANGED << cfg, own, car, run >>  BY <1>1 DEF EndDrive
  <2>3. stage' \in Stages  BY <1>l, <2>1, LabelKept
  <2> HIDE DEF rows
  <2> QED  BY <2>1, <2>2, <2>3, ToldKeeps
<1>2. CASE BeginFollow
  <2> DEFINE rows == Row("start", "hazard", "")
  <2>1. PICK o : /\ Told(log, o, rows) /\ Body(o, "frame", "abandonFollow")
                 /\ stage' \in {stage, [active |-> o.end = "ok", ended |-> FALSE, label |-> "hazard"]}
    BY <1>2, BeginFollowTells
  <2>2. UNCHANGED << cfg, own, car, run >>  BY <1>2 DEF BeginFollow
  <2>3. stage' \in Stages
    <3>1. \A b \in BOOLEAN : [active |-> b, ended |-> FALSE, label |-> "hazard"] \in Stages
      BY DEF Stages, Labels
    <3>2. (o.end = "ok") \in BOOLEAN  OBVIOUS
    <3>3. [active |-> o.end = "ok", ended |-> FALSE, label |-> "hazard"] \in Stages
      BY ONLY <3>1, <3>2, Zenon
    <3> QED  BY <1>l, <2>1, <3>3
  <2> HIDE DEF rows
  <2> QED  BY <2>1, <2>2, <2>3, ToldKeeps
<1>3. CASE EndFollow \/ AbandonFollow
  <2>1. pc \in {"endFollow", "abandonFollow"} /\ FinishFollow("leave") /\ UNCHANGED << cfg, own, car, run >>
    BY <1>3 DEF EndFollow, AbandonFollow
  <2>2. \E o, c, reason :
           /\ Told(log, o, Row("end", stage.label, reason)) /\ Ended(o)
           /\ c.log = o.log /\ Cleanup(c, "leave")
    BY <2>1, FinishFollowTells
  <2>3. PICK o, c, rows : /\ Told(log, o, rows) /\ Ended(o) /\ c.log = o.log /\ Cleanup(c, "leave")
    BY <2>2
  <2>4. stage' \in Stages /\ log' = o.log /\ pc' = "leave"  BY <1>l, <2>3, LabelKept DEF Cleanup
  <2> QED  BY <2>1, <2>3, <2>4, ToldKeeps
<1>4. CASE StopAtContact
  <2>1. PICK o : Told(log, o, << >>) /\ Attempt(o, "closeContact")  BY <1>4, StopAtContactTells
  <2>2. UNCHANGED << cfg, own, car, stage >>  BY <1>4 DEF StopAtContact
  <2>3. log' = o.log /\ pc' \in {"closeContact", "leave"}  BY <2>1 DEF Attempt
  <2> QED  BY <1>l, <2>1, <2>2, <2>3, ToldKeeps
<1>5. CASE CloseContact
  <2> DEFINE rows == Row("end", stage.label, "HAZARD_COLLISION")
  <2>1. PICK o : Told(log, o, rows) /\ Attempt(o, "releaseContact") /\ Ended(o)
    BY <1>5, CloseContactTells
  <2>2. UNCHANGED << cfg, own, car, run >>  BY <1>5 DEF CloseContact
  <2>3. log' = o.log /\ pc' \in {"releaseContact", "leave"} /\ stage' \in Stages
    BY <1>l, <2>1, LabelKept DEF Attempt
  <2> HIDE DEF rows
  <2> QED  BY <2>1, <2>2, <2>3, ToldKeeps
<1>6. CASE ReleaseContact \/ HoldContact
  <2>1. log' = log /\ cfg' = cfg /\ stage' = stage /\ pc \notin Over /\ pc' \in {"holdContact", "leave"}
    BY <1>6, CallFacts DEF ReleaseContact, HoldContact, Attempt
  <2> QED  BY <1>l, <2>1, SilentKeeps
<1> QED  BY <1>1, <1>2, <1>3, <1>4, <1>5, <1>6

LEMMA StoppingLogs ==
  ASSUME LogInv,
         \/ LeaveView \/ Measure \/ FinalSpeed \/ BeforeShutdown \/ FinalizeScene
  PROVE  LogInv'
<1> USE DEF Over, Abandoning, Closing, Last, Quiet, Unspawned, Building, Priming, Body
<1>l. stage \in Stages  BY DEF LogInv
<1>1. CASE LeaveView
  <2>1. PICK o : KeptInOrder(log, o.log) /\ o.end \in Ends /\ Body(o, "measure", "measure")
    BY <1>1, LeaveViewTells
  <2>2. UNCHANGED << cfg, car, stage, run >> /\ pc = "leave"  BY <1>1 DEF LeaveView
  <2> QED  BY <1>l, <2>1, <2>2, AddedKeeps
<1>2. CASE Measure \/ FinalSpeed
  <2>1. \A o \in IF run.boundary \/ run.stopped THEN {Result(log, "ok", 0)} ELSE CallWithSpeed : o.log = log
    BY CallFacts, OutcomeIs
  <2>2. \A o \in IF run.boundary \/ run.stopped THEN {Result(log, "ok", 0)} ELSE Call : o.log = log
    BY CallFacts, OutcomeIs
  <2>3. /\ log' = log /\ cfg' = cfg /\ stage' = stage /\ pc \notin Over
        /\ pc' \in {"final", "hook", "finalizeScene"}
    BY <1>2, <2>1, <2>2 DEF Measure, FinalSpeed
  <2> QED  BY <1>l, <2>3, SilentKeeps
<1>3. CASE BeforeShutdown
  <2>1. PICK o : KeptInOrder(log, o.log) /\ o.end \in Ends /\ Body(o, "finalizeScene", "finalizeScene")
    BY <1>3, BeforeShutdownTells
  <2>2. UNCHANGED << cfg, own, car, stage, run >> /\ pc = "hook"  BY <1>3 DEF BeforeShutdown
  <2> QED  BY <1>l, <2>1, <2>2, AddedKeeps
<1>4. CASE FinalizeScene
  <2>1. PICK o : KeptInOrder(log, o.log) /\ o.end \in Ends /\ Cleanup(o, "shutdown")
    BY <1>4, FinalizeSceneTells
  <2>2. UNCHANGED << cfg, own, car, stage >> /\ pc = "finalizeScene"  BY <1>4 DEF FinalizeScene
  <2> QED  BY <1>l, <2>1, <2>2, AddedKeeps DEF Cleanup
<1> QED  BY <1>1, <1>2, <1>3, <1>4

\* What _run remembers, by name.
RunShape == {"viewing", "exited", "early", "boundary", "following", "scene", "stopped", "engaged",
             "shut", "shutAt", "result"} \subseteq DOMAIN run

LEMMA RunKeepsShape == ASSUME RunShape, [Next]_vars PROVE RunShape'
<1>2. CASE run' = run  BY <1>2 DEF RunShape
<1>3. CASE \/ BindScene \/ After \/ LeaveLoop \/ Boundary \/ MakeFollow \/ StopAtContact
           \/ FinalizeScene \/ Shutdown \/ Report
  <2>1. DOMAIN run' = DOMAIN run
    BY <1>3 DEF BindScene, After, LeaveLoop, Boundary, MakeFollow, StopAtContact, FinalizeScene, Shutdown, Report
  <2> QED  BY <2>1 DEF RunShape
<1>4. UNCHANGED vars \/ Finished => run' = run  BY DEF vars, Finished
<1>5. \A a, b, c, d : Release(a, b, c, d) \/ CloseP6Runtime(a, b) \/ Skip(a, b) => run' = run
  BY DEF Release, CloseP6Runtime, Skip
<1>6. \A a : ViolationRecord(a) => run' = run  BY DEF ViolationRecord, Skip
<1>7. \A a, b : Hold(a, b) => run' = run  BY DEF Hold
<1>8. ASSUME \/ OpenLog \/ MakeP6 \/ Preflight \/ SpawnHero \/ RecordSetting \/ OpenProbe
      \/ BuildBundle \/ CreateViewer \/ AttachViewer \/ WireSession
      \/ AbandonProbe \/ AbandonViewer \/ AbandonHero
      PROVE  run' = run
  BY <1>8, <1>5 DEF OpenLog, MakeP6, Preflight, SpawnHero, RecordSetting, OpenProbe, BuildBundle, CreateViewer,
              AttachViewer, WireSession, AbandonProbe, AbandonViewer, AbandonHero
<1>9. ASSUME \/ StartAttempt \/ RecordAuthority \/ ObserveInitialSpeed \/ RecordNoControl
      \/ ReadGear \/ Halt \/ Engage \/ Confirm
      \/ PrepareInput \/ Initialize \/ StartP6 \/ StartStage
      PROVE  run' = run
  BY <1>9, <1>5, <1>6, <1>7 DEF StartAttempt, RecordAuthority, ObserveInitialSpeed, RecordNoControl, ReadGear, Halt,
              Engage, Confirm, PrepareInput, Initialize, StartP6, StartStage
<1>10. Collect => run' = run  BY CollectMoves
<1>11. ASSUME \/ Control \/ EndDrive \/ BeginFollow \/ EndFollow \/ AbandonFollow \/ CloseContact
       \/ ReleaseContact \/ HoldContact \/ LeaveView \/ Measure \/ FinalSpeed \/ BeforeShutdown
      PROVE  run' = run
  BY <1>11 DEF Control, EndDrive, BeginFollow, EndFollow, AbandonFollow, CloseContact, ReleaseContact, HoldContact,
         LeaveView, Measure, FinalSpeed, BeforeShutdown
<1>12. ASSUME \/ FinishObservation \/ FlushDrive \/ RecordShutdown \/ FinishExit \/ StopP6 \/ Summarize
       \/ FlushSummary \/ RecordViolation \/ Rethrow \/ EndStage \/ DryRun
      PROVE  run' = run
  BY <1>12, <1>5, <1>6 DEF FinishObservation, FlushDrive, RecordShutdown, FinishExit, StopP6, Summarize, FlushSummary,
         RecordViolation, Rethrow, EndStage, DryRun
<1>13. ASSUME \/ CloseControl \/ CloseProbe \/ CloseP6 \/ CloseViewer \/ CloseHero
       \/ LastP6 \/ CloseLog
      PROVE  run' = run
  BY <1>13, <1>5 DEF CloseControl, CloseProbe, CloseP6, CloseViewer, CloseHero, LastP6, CloseLog
<1> QED  BY <1>2, <1>3, <1>4, <1>8, <1>9, <1>10, <1>11, <1>12, <1>13 DEF Next

LEMMA RunStarts == Init => RunShape
  BY DEF Init, RunShape

\* The stamp of a shutdown that worked stays the clock's time until its rows are written.
LEMMA ShutdownLogs ==
  ASSUME LogInv, RunShape, Shutdown \/ FinishObservation \/ FlushDrive \/ RecordShutdown
  PROVE  LogInv'
<1> USE DEF Over, Abandoning, Closing, Last, Quiet, Unspawned, Building, Priming, Cleanup
<1>l. stage \in Stages /\ log \in Log /\ Timed(log)  BY DEF LogInv
<1>1. CASE Shutdown
  <2>1. PICK o : /\ KeptInOrder(log, o.log) /\ o.end \in Ends /\ Cleanup(o, "observation")
                 /\ run' = [run EXCEPT !.shut = (o.end = "ok"), !.shutAt = IF o.end = "ok" THEN o.log.now ELSE @]
    BY <1>1, ShutdownTells
  <2>2. UNCHANGED << cfg, own, stage >> /\ pc = "shutdown"  BY <1>1 DEF Shutdown
  <2>3. run'.shut => run'.shutAt = log'.now  BY <2>1 DEF RunShape
  <2>4. pc' = "observation" /\ log' = o.log  BY <2>1
  <2> QED  BY <1>l, <2>1, <2>2, <2>3, <2>4 DEF LogInv, KeptInOrder, Kept, Logged
<1>2. CASE FinishObservation
  <2>1. PICK o : /\ KeptInOrder(log, o.log) /\ o.end \in Ends /\ Cleanup(o, "flush1")
                 /\ run.shut => o.log.now = log.now
    BY <1>2, FinishObservationTells
  <2>2. UNCHANGED << cfg, own, car, stage, run >> /\ pc = "observation"
    BY <1>2 DEF FinishObservation
  <2>4. pc' = "flush1" /\ log' = o.log  BY <2>1
  <2> QED  BY <1>l, <2>1, <2>2, <2>4 DEF LogInv, KeptInOrder, Kept, Logged
<1>3. CASE FlushDrive
  <2>1. PICK o : /\ Told(log, o, << >>) /\ o.log.now = log.now
                 /\ Cleanup(o, IF Logged /\ run.engaged THEN "record1" ELSE "exit")
    BY <1>3, FlushDriveTells
  <2>2. UNCHANGED << cfg, own, car, stage, run >> /\ pc = "flush1"  BY <1>3 DEF FlushDrive
  <2>4. pc' \in {"record1", "exit"} /\ log' = o.log  BY <2>1
  <2> QED  BY <1>l, <2>1, <2>2, <2>4 DEF LogInv, Told, Logged, Still
<1>4. CASE RecordShutdown
  <2>1. PICK o : Told(log, o, << >>) /\ Cleanup(o, "exit")  BY <1>4, RecordShutdownTells
  <2>2. UNCHANGED << cfg, own, car, stage, run >>  BY <1>4 DEF RecordShutdown
  <2> QED  BY <1>l, <2>1, <2>2, ToldKeeps
<1> QED  BY <1>1, <1>2, <1>3, <1>4

LEMMA ReportingLogs ==
  ASSUME LogInv,
         \/ FinishExit \/ StopP6 \/ Summarize \/ FlushSummary \/ RecordViolation
         \/ Rethrow \/ Report
  PROVE  LogInv'
<1> USE DEF Over, Abandoning, Closing, Last, Quiet, Unspawned, Building, Priming
<1>l. stage \in Stages  BY DEF LogInv
<1>1. CASE FinishExit
  <2>1. PICK o : KeptInOrder(log, o.log) /\ o.end \in Ends /\ Cleanup(o, "stopP6")
    BY <1>1, FinishExitTells
  <2>2. UNCHANGED << cfg, own, car, stage, run >> /\ pc = "exit"  BY <1>1 DEF FinishExit
  <2> QED  BY <1>l, <2>1, <2>2, AddedKeeps DEF Cleanup
<1>2. CASE StopP6
  <2>1. log' = log /\ cfg' = cfg /\ stage' = stage /\ pc \notin Over /\ pc' = "summary"
    BY <1>2, CallFacts DEF StopP6, Cleanup, Skip
  <2> QED  BY <1>l, <2>1, SilentKeeps
<1>3. CASE Summarize
  <2>1. \/ Skip("summary", "flush2")
        \/ \E o : KeptInOrder(log, o.log) /\ o.end = "ok" /\ Cleanup(o, "flush2")
        \/ \E o : KeptInOrder(log, o.log) /\ o.end \in Ends /\ Body(o, "flush2", OutOfRun)
    BY <1>3, SummarizeTells
  <2>2. UNCHANGED << cfg, own, car, stage, run >> /\ pc = "summary"  BY <1>3 DEF Summarize, Skip
  <2>3. CASE Skip("summary", "flush2")  BY <1>l, <2>2, <2>3, SilentKeeps DEF Skip
  <2>4. CASE \E o : KeptInOrder(log, o.log) /\ o.end = "ok" /\ Cleanup(o, "flush2")
    BY <1>l, <2>2, <2>4, AddedKeeps DEF Cleanup
  <2>5. CASE \E o : KeptInOrder(log, o.log) /\ o.end \in Ends /\ Body(o, "flush2", OutOfRun)
    <3>1. PICK o : KeptInOrder(log, o.log) /\ o.end \in Ends /\ Body(o, "flush2", OutOfRun)  BY <2>5
    <3>2. log' = o.log /\ pc' \in {"flush2", "endStage", "deactivate"}  BY <3>1 DEF Body, OutOfRun
    <3> QED  BY <1>l, <2>2, <3>1, <3>2, AddedKeeps
  <2> QED  BY <2>1, <2>3, <2>4, <2>5
<1>4. CASE FlushSummary
  <2>1. PICK o : Told(log, o, << >>) /\ Cleanup(o, IF err.now = "speed" THEN "violation" ELSE "rethrow")
    BY <1>4, FlushSummaryTells
  <2>2. UNCHANGED << cfg, own, car, stage, run >>  BY <1>4 DEF FlushSummary
  <2>3. log' = o.log /\ pc' \in {"violation", "rethrow"}  BY <2>1 DEF Cleanup
  <2> QED  BY <1>l, <2>1, <2>2, <2>3, ToldKeeps
<1>5. CASE RecordViolation
  <2>1. pc = "violation" /\ ViolationRecord("rethrow")  BY <1>5 DEF RecordViolation
  <2>2. UNCHANGED << cfg, own, car, stage, run >>  BY <2>1 DEF ViolationRecord, Skip
  <2>3. \/ ~Logged /\ Skip(pc, "rethrow")
        \/ \E o : Told(log, o, << >>) /\ Body(o, "rethrow", OutOfRun)
        \/ \E o : Told(log, o, << >>) /\ Cleanup(o, "rethrow")
    BY <2>1, ViolationTells
  <2>4. CASE Skip(pc, "rethrow")  BY <1>l, <2>1, <2>2, <2>4, SilentKeeps DEF Skip
  <2>5. CASE \E o : Told(log, o, << >>) /\ (Body(o, "rethrow", OutOfRun) \/ Cleanup(o, "rethrow"))
    <3>1. PICK o : Told(log, o, << >>) /\ (Body(o, "rethrow", OutOfRun) \/ Cleanup(o, "rethrow"))
      BY <2>5
    <3>2. log' = o.log /\ pc' \in {"rethrow", "endStage", "deactivate"}
      BY <3>1 DEF Cleanup, Body, OutOfRun
    <3> QED  BY <1>l, <2>2, <3>1, <3>2, ToldKeeps
  <2> QED  BY <2>3, <2>4, <2>5
<1>6. CASE Rethrow
  <2>1. log' = log /\ cfg' = cfg /\ stage' = stage /\ pc = "rethrow" /\ pc' \in {"report", "endStage", "deactivate"}
    BY <1>6 DEF Rethrow, OutOfRun
  <2> QED  BY <1>l, <2>1, SilentKeeps
<1>7. CASE Report
  <2>1. log' = log /\ cfg' = cfg /\ stage' = stage /\ pc = "report" /\ pc' \in {"endStage", "deactivate"}
    BY <1>7, CallFacts DEF Report, OutOfRun, Body
  <2> QED  BY <1>l, <2>1, SilentKeeps
<1> QED  BY <1>1, <1>2, <1>3, <1>4, <1>5, <1>6, <1>7

LEMMA LogKeeps == ASSUME LogInv, RunShape, [Next]_vars PROVE LogInv'
<1>1. CASE UNCHANGED vars  BY <1>1 DEF vars, LogInv, Logged
<1>2. CASE Finished  BY <1>2 DEF Finished, vars, LogInv, Logged
<1> QED
  BY <1>1, <1>2, OpeningLogs, AbandoningLogs, StartingLogs, FramesLog, FollowingLogs, StoppingLogs, ShutdownLogs,
     ReportingLogs, ClosingLogs DEF Next

\* The stamps of receipts, activations and shutdowns reach the one clock in an order that it
\* accepts: no row and no event is refused, whatever fails, unless a write failed before.
THEOREM TheClockAcceptsAll == Spec => []NothingIsRefused
<1>1. LogInv => NothingIsRefused  BY DEF LogInv, Timed, NothingIsRefused
<1> QED  BY <1>1, LogStarts, LogKeeps, RunStarts, RunKeepsShape, PTL DEF Spec

-----------------------------------------------------------------------------
\* The rows: most actions write none, and none takes one back.
NoRowTold == log'.rows = log.rows /\ (~log'.failed => ~log.failed)

Telling == StartAttempt \/ StartStage \/ EndDrive \/ BeginFollow \/ EndFollow \/ AbandonFollow \/ CloseContact \/ EndStage

LEMMA ToldNothing == ASSUME LogInv, NEW o, Told(log, o, << >>), log' = o.log PROVE NoRowTold
  BY NothingAdded DEF LogInv, NoRowTold, Told

LEMMA KeptNoRow == ASSUME NEW o, KeptInOrder(log, o.log), log' = o.log PROVE NoRowTold
  BY DEF NoRowTold, KeptInOrder, Kept

LEMMA SameNoRow == ASSUME log' = log PROVE NoRowTold
  BY DEF NoRowTold

LEMMA StartingTellsNothing ==
  ASSUME LogInv,
         \/ OpenLog \/ MakeP6 \/ Preflight \/ SpawnHero \/ RecordSetting \/ OpenProbe
         \/ BuildBundle \/ CreateViewer \/ AttachViewer \/ WireSession
         \/ AbandonProbe \/ AbandonViewer \/ AbandonHero
         \/ RecordAuthority \/ ObserveInitialSpeed \/ RecordNoControl
         \/ ReadGear \/ Halt \/ Engage \/ Confirm
         \/ PrepareInput \/ Initialize \/ StartP6 \/ BindScene
  PROVE  NoRowTold
<1> USE DEF Body, Skip
<1>1. CASE OpenLog
  <2>1. \A o \in IF cfg.log = "own" THEN Call ELSE {Result(log, "ok", 0)} : o.log = log
    BY CallFacts, OutcomeIs
  <2> QED  BY <1>1, <2>1, SameNoRow DEF OpenLog
<1>2. CASE MakeP6 \/ OpenProbe \/ Preflight \/ BuildBundle \/ AttachViewer
  BY <1>2, CallFacts, SameNoRow DEF MakeP6, OpenProbe, Preflight, BuildBundle, AttachViewer
<1>3. CASE SpawnHero \/ CreateViewer  BY <1>3, CallFacts, SameNoRow DEF SpawnHero, CreateViewer
<1>4. CASE RecordSetting
  <2>1. PICK o : (IF Logged THEN Told(log, o, << >>) ELSE o \in Call) /\ Body(o, "probe", "abandonProbe")
    BY <1>4, RecordSettingTells
  <2>2. log' = o.log  BY <2>1
  <2> QED  BY <2>1, <2>2, CallFacts, ToldNothing, SameNoRow
<1>5. CASE WireSession
  <2>1. PICK o : (o \in Call \/ Told(log, o, << >>)) /\ log' = o.log  BY <1>5, WireSessionTells
  <2> QED  BY <2>1, CallFacts, ToldNothing, SameNoRow
<1>6. CASE AbandonProbe \/ AbandonViewer \/ AbandonHero
  BY <1>6, CallFacts, SameNoRow DEF AbandonProbe, AbandonViewer, AbandonHero, Release, Cleanup
<1>7. CASE RecordAuthority  BY <1>7, RecordAuthorityTells, ToldNothing
<1>8. CASE ObserveInitialSpeed \/ ReadGear
  BY <1>8, CallFacts, SameNoRow DEF ObserveInitialSpeed, ReadGear
<1>9. CASE RecordNoControl
  <2>1. pc = "noControl" /\ ViolationRecord(OutOfRun)  BY <1>9 DEF RecordNoControl
  <2> DEFINE out == OutOfRun
  <2>3. \/ ~Logged /\ Skip(pc, out)
        \/ \E o : Told(log, o, << >>) /\ Body(o, out, OutOfRun)
        \/ \E o : Told(log, o, << >>) /\ Cleanup(o, out)
    BY <2>1, ViolationTells
  <2> HIDE DEF out
  <2> QED  BY <2>3, ToldNothing, SameNoRow DEF Cleanup
<1>10. CASE Halt \/ Engage \/ Confirm
  BY <1>10, CallFacts, SameNoRow DEF Halt, Engage, Confirm, Hold
<1>11. CASE PrepareInput  BY <1>11, PrepareInputTells, KeptNoRow, SameNoRow
<1>12. CASE Initialize  BY <1>12, InitializeTells, KeptNoRow
<1>13. CASE StartP6 \/ BindScene  BY <1>13, CallFacts, SameNoRow DEF StartP6, BindScene
<1> QED  BY <1>1, <1>2, <1>3, <1>4, <1>5, <1>6, <1>7, <1>8, <1>9, <1>10, <1>11, <1>12, <1>13

LEMMA DrivingTellsNothing ==
  ASSUME LogInv,
         \/ Collect \/ Control \/ After \/ LeaveLoop \/ Boundary \/ MakeFollow
         \/ StopAtContact \/ ReleaseContact \/ HoldContact
         \/ LeaveView \/ Measure \/ FinalSpeed \/ BeforeShutdown \/ FinalizeScene
  PROVE  NoRowTold
<1> USE DEF Body
<1>1. CASE Collect  BY <1>1, CollectTells, KeptNoRow
<1>2. CASE Control  BY <1>2, ControlTells, KeptNoRow
<1>3. CASE After
  <2>1. \E o : KeptInOrder(log, o.log) /\ log' = o.log  BY <1>3, AfterTells
  <2> QED  BY <2>1, KeptNoRow
<1>4. CASE LeaveLoop \/ Boundary \/ MakeFollow
  BY <1>4, CallFacts, SameNoRow DEF LeaveLoop, Boundary, MakeFollow
<1>5. CASE StopAtContact  BY <1>5, StopAtContactTells, ToldNothing DEF Attempt
<1>6. CASE ReleaseContact \/ HoldContact
  BY <1>6, CallFacts, SameNoRow DEF ReleaseContact, HoldContact, Attempt
<1>7. CASE LeaveView  BY <1>7, LeaveViewTells, KeptNoRow
<1>8. CASE Measure \/ FinalSpeed
  <2>1. \A o \in IF run.boundary \/ run.stopped THEN {Result(log, "ok", 0)} ELSE CallWithSpeed : o.log = log
    BY CallFacts, OutcomeIs
  <2>2. \A o \in IF run.boundary \/ run.stopped THEN {Result(log, "ok", 0)} ELSE Call : o.log = log
    BY CallFacts, OutcomeIs
  <2> QED  BY <1>8, <2>1, <2>2, SameNoRow DEF Measure, FinalSpeed
<1>9. CASE BeforeShutdown  BY <1>9, BeforeShutdownTells, KeptNoRow
<1>10. CASE FinalizeScene  BY <1>10, FinalizeSceneTells, KeptNoRow DEF Cleanup
<1> QED  BY <1>1, <1>2, <1>3, <1>4, <1>5, <1>6, <1>7, <1>8, <1>9, <1>10

LEMMA EndingTellsNothing ==
  ASSUME LogInv,
         \/ Shutdown \/ FinishObservation \/ FlushDrive \/ RecordShutdown
         \/ FinishExit \/ StopP6 \/ Summarize \/ FlushSummary \/ RecordViolation
         \/ Rethrow \/ Report \/ DryRun \/ CloseControl \/ CloseProbe \/ CloseP6 \/ CloseViewer
         \/ CloseHero \/ LastP6 \/ CloseLog
  PROVE  NoRowTold
<1> USE DEF Body, Cleanup
<1>1. CASE Shutdown
  <2>1. \E o : KeptInOrder(log, o.log) /\ log' = o.log  BY <1>1, ShutdownTells
  <2> QED  BY <2>1, KeptNoRow
<1>2. CASE FinishObservation  BY <1>2, FinishObservationTells, KeptNoRow
<1>3. CASE FlushDrive  BY <1>3, FlushDriveTells, ToldNothing
<1>4. CASE RecordShutdown  BY <1>4, RecordShutdownTells, ToldNothing
<1>5. CASE FinishExit  BY <1>5, FinishExitTells, KeptNoRow
<1>6. CASE StopP6 \/ Rethrow \/ Report \/ DryRun
  BY <1>6, CallFacts, SameNoRow DEF StopP6, Rethrow, Report, DryRun, Skip
<1>7. CASE Summarize  BY <1>7, SummarizeTells, KeptNoRow, SameNoRow DEF Skip
<1>8. CASE FlushSummary  BY <1>8, FlushSummaryTells, ToldNothing
<1>9. CASE RecordViolation
  <2>1. pc = "violation" /\ ViolationRecord("rethrow")  BY <1>9 DEF RecordViolation
  <2>3. \/ ~Logged /\ Skip(pc, "rethrow")
        \/ \E o : Told(log, o, << >>) /\ Body(o, "rethrow", OutOfRun)
        \/ \E o : Told(log, o, << >>) /\ Cleanup(o, "rethrow")
    BY <2>1, ViolationTells
  <2> QED  BY <2>3, ToldNothing, SameNoRow DEF Skip
<1>10. CASE CloseControl  BY <1>10, CloseControlTells, KeptNoRow, SameNoRow DEF Skip
<1>11. CASE CloseProbe \/ CloseP6 \/ CloseHero \/ LastP6 \/ CloseLog
  BY <1>11, CallFacts, SameNoRow DEF CloseProbe, CloseP6, CloseHero, LastP6, CloseLog, Release, CloseP6Runtime, Skip
<1>12. CASE CloseViewer  BY <1>12, CloseViewerTells, KeptNoRow
<1> QED  BY <1>1, <1>2, <1>3, <1>4, <1>5, <1>6, <1>7, <1>8, <1>9, <1>10, <1>11, <1>12

LEMMA MostTellNothing == ASSUME LogInv, [Next]_vars PROVE NoRowTold \/ Telling
<1>1. CASE UNCHANGED vars \/ Finished  BY <1>1, SameNoRow DEF vars, Finished
<1> QED  BY <1>1, StartingTellsNothing, DrivingTellsNothing, EndingTellsNothing DEF Next, Telling

-----------------------------------------------------------------------------
\* Errors: nothing is in flight on the way that has no trouble, and what is in flight was
\* never forgotten.
Untroubled ==
  Unspawned \cup Building \cup (Priming \ {"noControl"}) \cup Preparing
  \cup {"frame", "control", "after", "endDrive", "follow", "begin", "endFollow",
        "collision", "closeContact", "releaseContact", "holdContact", "final", "hook", "report", "dry"}

ErrInv ==
  /\ {"now", "first", "late"} \subseteq DOMAIN err
  /\ err.now = Nobody => err.first = Nobody
  /\ pc \in Untroubled => err.now = Nobody

LEMMA BodyTroubles ==
  ASSUME ErrInv, NEW o, o.end \in Ends, NEW next, NEW handler, Body(o, next, handler),
         handler \notin Untroubled, next \in Untroubled => pc \in Untroubled
  PROVE  ErrInv'
  BY DEF ErrInv, Body, Raised, First, Nobody, Ends

LEMMA CleanupTroubles ==
  ASSUME ErrInv, NEW o, o.end \in Ends, NEW next, Cleanup(o, next), next \notin Untroubled
  PROVE  ErrInv'
  BY DEF ErrInv, Cleanup, Retained, First, Nobody, Ends

LEMMA AttemptTroubles ==
  ASSUME ErrInv, NEW o, o.end \in Ends, NEW next, Attempt(o, next), pc \in Untroubled
  PROVE  ErrInv'
  BY DEF ErrInv, Attempt, Body, Raised, First, Nobody, Ends, Untroubled, Unspawned, Building, Priming, Preparing

LEMMA SkipTroubles ==
  ASSUME ErrInv, err' = err, pc' \in Untroubled => pc \in Untroubled
  PROVE  ErrInv'
  BY DEF ErrInv

LEMMA EndsOfCalls ==
  /\ \A o \in Call \cup CallWithSpeed : o.end \in Ends
  /\ \A l, c : Result(l, "ok", c).end \in Ends
  BY CallFacts DEF Result, Ends

LEMMA OpeningTroubles ==
  ASSUME ErrInv, LogInv,
         \/ OpenLog \/ MakeP6 \/ Preflight \/ SpawnHero \/ RecordSetting \/ OpenProbe
         \/ BuildBundle \/ CreateViewer \/ AttachViewer \/ WireSession
         \/ AbandonProbe \/ AbandonViewer \/ AbandonHero
  PROVE  ErrInv'
<1> USE DEF Untroubled, Unspawned, Building, Priming, Preparing
<1>1. CASE OpenLog
  <2>1. pc = "open" /\ \E o : o.end \in Ends /\ Body(o, "p6", "done")
    BY <1>1, EndsOfCalls DEF OpenLog
  <2> QED  BY <2>1, BodyTroubles
<1>2. CASE MakeP6
  <2>1. pc = "p6" /\ (Skip("p6", "preflight") \/ \E o : o.end \in Ends /\ Body(o, "preflight", "lastP6"))
    BY <1>2, EndsOfCalls DEF MakeP6
  <2> QED  BY <2>1, BodyTroubles, SkipTroubles DEF Skip
<1>3. CASE Preflight  BY <1>3, EndsOfCalls, BodyTroubles DEF Preflight
<1>4. CASE SpawnHero
  <2>1. pc = "spawn" /\ \E o : o.end \in Ends /\ Body(o, "record", "lastP6")
    BY <1>4, EndsOfCalls DEF SpawnHero
  <2> QED  BY <2>1, BodyTroubles
<1>5. CASE RecordSetting
  <2>1. PICK o : (IF Logged THEN Told(log, o, << >>) ELSE o \in Call) /\ Body(o, "probe", "abandonProbe")
    BY <1>5, RecordSettingTells
  <2>2. o.end \in Ends /\ pc = "record"  BY <1>5, <2>1, EndsOfCalls DEF Told, RecordSetting
  <2> QED  BY <2>1, <2>2, BodyTroubles
<1>6. CASE OpenProbe
  <2>1. pc = "probe" /\ (Skip("probe", "bundle") \/ \E o : o.end \in Ends /\ Body(o, "bundle", "abandonProbe"))
    BY <1>6, EndsOfCalls DEF OpenProbe
  <2> QED  BY <2>1, BodyTroubles, SkipTroubles DEF Skip
<1>7. CASE BuildBundle \/ AttachViewer
  BY <1>7, EndsOfCalls, BodyTroubles DEF BuildBundle, AttachViewer
<1>8. CASE CreateViewer
  <2>1. pc = "viewer" /\ \E o : o.end \in Ends /\ Body(o, "attach", "abandonProbe")
    BY <1>8, EndsOfCalls DEF CreateViewer
  <2> QED  BY <2>1, BodyTroubles
<1>9. CASE WireSession
  <2>1. PICK o : /\ o \in Call \/ Told(log, o, << >>)
                 /\ Body(o, IF Logged THEN "attempt" ELSE IF cfg.dry THEN "dry" ELSE "speed", "abandonProbe")
    BY <1>9, WireSessionTells
  <2>2. o.end \in Ends /\ pc = "wire"  BY <1>9, <2>1, EndsOfCalls DEF Told, WireSession
  <2> QED  BY <2>1, <2>2, BodyTroubles
<1>10. CASE AbandonProbe \/ AbandonViewer \/ AbandonHero
  <2>1. \A at, next, what, open : Release(at, next, what, open) =>
          Skip(at, next) \/ \E o : o.end \in Ends /\ Cleanup(o, next)
    BY EndsOfCalls DEF Release
  <2>2. \E next \in {"abandonViewer", "abandonHero", "lastP6"}, at \in {"abandonProbe", "abandonViewer", "abandonHero"} :
          Skip(at, next) \/ \E o : o.end \in Ends /\ Cleanup(o, next)
    BY <1>10, <2>1 DEF AbandonProbe, AbandonViewer, AbandonHero
  <2> QED  BY <2>2, CleanupTroubles, SkipTroubles DEF Skip
<1> QED  BY <1>1, <1>2, <1>3, <1>4, <1>5, <1>6, <1>7, <1>8, <1>9, <1>10

LEMMA PrimingTroubles ==
  ASSUME ErrInv, LogInv,
         \/ StartAttempt \/ RecordAuthority \/ ObserveInitialSpeed \/ RecordNoControl
         \/ ReadGear \/ Halt \/ Engage \/ Confirm
         \/ PrepareInput \/ Initialize \/ StartP6 \/ StartStage \/ BindScene
  PROVE  ErrInv'
<1> USE DEF Untroubled, Unspawned, Building, Priming, Preparing
<1> DEFINE out == OutOfRun
<1>o. out \in {"endStage", "deactivate"} /\ out = OutOfRun  BY DEF OutOfRun
<1> HIDE DEF out
<1>1. CASE StartAttempt
  <2>1. pc = "attempt" /\ \E o : o.end \in Ends /\ Body(o, "speed", "deactivate")
    BY <1>1, StartAttemptTells DEF Told, StartAttempt
  <2> QED  BY <2>1, BodyTroubles
<1>2. CASE RecordAuthority
  <2>1. pc = "speed" /\ \E o : o.end \in Ends /\ Body(o, "initial", out)
    BY <1>o, <1>2, RecordAuthorityTells DEF Told, RecordAuthority
  <2> QED  BY <1>o, <2>1, BodyTroubles
<1>3. CASE ObserveInitialSpeed
  <2>1. pc = "initial" /\ \E o, h : o.end \in Ends /\ h \in {"noControl", out} /\ Body(o, "gear", h)
    BY <1>o, <1>3, EndsOfCalls DEF ObserveInitialSpeed
  <2> QED  BY <1>o, <2>1, BodyTroubles
<1>4. CASE RecordNoControl
  <2>1. pc = "noControl" /\ ViolationRecord(OutOfRun)  BY <1>4 DEF RecordNoControl
  <2>2. \/ ~Logged /\ Skip(pc, out)
        \/ \E o : Told(log, o, << >>) /\ Body(o, out, OutOfRun)
        \/ \E o : Told(log, o, << >>) /\ Cleanup(o, out)
    BY <1>o, <2>1, ViolationTells
  <2> QED  BY <1>o, <2>2, BodyTroubles, CleanupTroubles, SkipTroubles DEF Skip, Told
<1>5. CASE ReadGear
  <2>1. pc = "gear" /\ \E o \in Call, next \in {"input", "engage", "halt"} : Body(o, next, out)
    BY <1>o, <1>5 DEF ReadGear
  <2> QED  BY <1>o, <2>1, EndsOfCalls, BodyTroubles
<1>6. CASE Halt \/ Engage \/ Confirm
  <2>1. /\ pc \in {"halt", "engage", "confirm"}
        /\ \E o \in Call, next \in {"input", "engage", "confirm"} : Body(o, next, out)
    BY <1>o, <1>6 DEF Halt, Engage, Confirm, Hold
  <2> QED  BY <1>o, <2>1, EndsOfCalls, BodyTroubles
<1>7. CASE PrepareInput
  <2>1. \/ Skip("input", "initialize")
        \/ \E o : KeptInOrder(log, o.log) /\ o.end \in Ends /\ Body(o, "initialize", "finalizeScene")
    BY <1>7, PrepareInputTells
  <2>2. pc = "input"  BY <1>7 DEF PrepareInput
  <2> QED  BY <2>1, <2>2, BodyTroubles, SkipTroubles DEF Skip
<1>8. CASE Initialize
  <2>1. pc = "initialize" /\ \E o : o.end \in Ends /\ Body(o, "p6start", "finalizeScene")
    BY <1>8, InitializeTells DEF Initialize
  <2> QED  BY <2>1, BodyTroubles
<1>9. CASE StartP6
  <2>1. pc = "p6start" /\ (Skip("p6start", "start") \/ \E o : o.end \in Ends /\ Body(o, "start", "finalizeScene"))
    BY <1>9, EndsOfCalls DEF StartP6
  <2> QED  BY <2>1, BodyTroubles, SkipTroubles DEF Skip
<1>10. CASE StartStage
  <2>1. pc = "start" /\ (Skip("start", "scene") \/ \E o : o.end \in Ends /\ Body(o, "scene", "finalizeScene"))
    BY <1>10, StartStageTells DEF Told, StartStage
  <2> QED  BY <2>1, BodyTroubles, SkipTroubles DEF Skip
<1>11. CASE BindScene
  <2>1. pc = "scene" /\ \E o : o.end \in Ends /\ Body(o, "frame", "finalizeScene")
    BY <1>11, EndsOfCalls DEF BindScene
  <2> QED  BY <2>1, BodyTroubles
<1> QED  BY <1>1, <1>2, <1>3, <1>4, <1>5, <1>6, <1>7, <1>8, <1>9, <1>10, <1>11

LEMMA DrivingTroubles ==
  ASSUME ErrInv, LogInv,
         \/ Collect \/ Control \/ After \/ LeaveLoop
         \/ Boundary \/ EndDrive \/ MakeFollow \/ BeginFollow \/ EndFollow \/ AbandonFollow
         \/ StopAtContact \/ CloseContact \/ ReleaseContact \/ HoldContact
  PROVE  ErrInv'
<1> USE DEF Untroubled, Unspawned, Building, Priming, Preparing
<1> DEFINE out == OutOfFrame
<1>o. out \in {"abandonFollow", "leave"} /\ out = OutOfFrame  BY DEF OutOfFrame
<1> HIDE DEF out
<1>1. CASE Collect
  <2>1. pc = "frame" /\ \E o : o.end \in Ends /\ Body(o, "control", out)
    BY <1>o, <1>1, CollectTells, CollectMoves
  <2> QED  BY <1>o, <2>1, BodyTroubles
<1>2. CASE Control
  <2>1. pc = "control" /\ \E o : o.end \in Ends /\ Body(o, "after", out)
    BY <1>o, <1>2, ControlTells DEF Control
  <2> QED  BY <1>o, <2>1, BodyTroubles
<1>3. CASE After
  <2>1. pc = "after" /\ \E o, next : o.end \in Ends /\ Body(o, next, out)
    BY <1>o, <1>3, AfterTells DEF After
  <2> QED  BY <1>o, <2>1, BodyTroubles
<1>4. CASE LeaveLoop  BY <1>4, SkipTroubles DEF LeaveLoop
<1>5. CASE Boundary
  <2>1. pc = "frame" /\ \E o : o.end \in Ends /\ Body(o, "endDrive", "leave")
    BY <1>5, EndsOfCalls DEF Boundary
  <2> QED  BY <2>1, BodyTroubles
<1>6. CASE EndDrive
  <2>1. pc = "endDrive" /\ \E o : o.end \in Ends /\ Body(o, "follow", "leave")
    BY <1>6, EndDriveTells DEF Told, EndDrive
  <2> QED  BY <2>1, BodyTroubles
<1>7. CASE MakeFollow
  <2>1. pc = "follow" /\ \E o : o.end \in Ends /\ Body(o, "begin", "leave")
    BY <1>7, EndsOfCalls DEF MakeFollow
  <2> QED  BY <2>1, BodyTroubles
<1>8. CASE BeginFollow
  <2>1. pc = "begin" /\ \E o : o.end \in Ends /\ Body(o, "frame", "abandonFollow")
    BY <1>8, BeginFollowTells DEF Told, BeginFollow
  <2> QED  BY <2>1, BodyTroubles
<1>9. CASE EndFollow \/ AbandonFollow
  <2>1. pc \in {"endFollow", "abandonFollow"} /\ FinishFollow("leave")
    BY <1>9 DEF EndFollow, AbandonFollow
  <2>2. \E c : c.end \in Ends /\ Cleanup(c, "leave")  BY <2>1, FinishFollowTells
  <2> QED  BY <2>2, CleanupTroubles
<1>10. CASE StopAtContact
  <2>1. pc = "collision" /\ \E o : o.end \in Ends /\ Attempt(o, "closeContact")
    BY <1>10, StopAtContactTells DEF Told, StopAtContact
  <2> QED  BY <2>1, AttemptTroubles
<1>11. CASE CloseContact
  <2>1. pc = "closeContact" /\ \E o : o.end \in Ends /\ Attempt(o, "releaseContact")
    BY <1>11, CloseContactTells DEF Told, CloseContact
  <2> QED  BY <2>1, AttemptTroubles
<1>12. CASE ReleaseContact \/ HoldContact
  <2>1. pc \in {"releaseContact", "holdContact"} /\ \E o, next : o.end \in Ends /\ Attempt(o, next)
    BY <1>12, EndsOfCalls DEF ReleaseContact, HoldContact
  <2> QED  BY <2>1, AttemptTroubles
<1> QED  BY <1>1, <1>2, <1>3, <1>4, <1>5, <1>6, <1>7, <1>8, <1>9, <1>10, <1>11, <1>12

LEMMA ClosingTroubles ==
  ASSUME ErrInv, LogInv,
         \/ LeaveView \/ Measure \/ FinalSpeed \/ BeforeShutdown
         \/ FinalizeScene \/ Shutdown \/ FinishObservation \/ FlushDrive \/ RecordShutdown
         \/ FinishExit \/ StopP6 \/ Summarize \/ FlushSummary \/ RecordViolation
         \/ Rethrow \/ Report \/ EndStage \/ DryRun
         \/ CloseControl \/ CloseProbe \/ CloseP6 \/ CloseViewer \/ CloseHero
         \/ LastP6 \/ CloseLog
  PROVE  ErrInv'
<1> USE DEF Untroubled, Unspawned, Building, Priming, Preparing
<1> DEFINE out == OutOfRun
<1>o. out \in {"endStage", "deactivate"} /\ out = OutOfRun  BY DEF OutOfRun
<1> HIDE DEF out
<1>1. CASE LeaveView
  <2>1. \E o : o.end \in Ends /\ Body(o, "measure", "measure")  BY <1>1, LeaveViewTells
  <2> QED  BY <2>1, BodyTroubles
<1>2. CASE Measure
  <2>1. PICK o : /\ o.end \in Ends
                 /\ err' = IF o.end = "ok" THEN err
                           ELSE IF o.end = "error" THEN [err EXCEPT !.late = "error"] ELSE Raised(o.end)
                 /\ pc' = IF err'.now = Nobody THEN "final" ELSE "finalizeScene"
    BY <1>2, EndsOfCalls DEF Measure
  <2> QED  BY <2>1 DEF ErrInv, Raised, First, Nobody, Ends
<1>3. CASE FinalSpeed
  <2>1. pc = "final" /\ \E o, next : /\ o.end \in Ends /\ next \in {"hook", "finalizeScene"}
                                     /\ Body(o, next, "finalizeScene")
    BY <1>3, EndsOfCalls DEF FinalSpeed
  <2> QED  BY <2>1, BodyTroubles
<1>4. CASE BeforeShutdown
  <2>1. \E o : o.end \in Ends /\ Body(o, "finalizeScene", "finalizeScene")
    BY <1>4, BeforeShutdownTells
  <2> QED  BY <2>1, BodyTroubles
<1>5. CASE FinalizeScene
  <2>1. \E o : o.end \in Ends /\ Cleanup(o, "shutdown")  BY <1>5, FinalizeSceneTells
  <2> QED  BY <2>1, CleanupTroubles
<1>6. CASE Shutdown
  <2>1. \E o : o.end \in Ends /\ Cleanup(o, "observation")  BY <1>6, ShutdownTells
  <2> QED  BY <2>1, CleanupTroubles
<1>7. CASE FinishObservation
  <2>1. \E o : o.end \in Ends /\ Cleanup(o, "flush1")  BY <1>7, FinishObservationTells
  <2> QED  BY <2>1, CleanupTroubles
<1>8. CASE FlushDrive
  <2>1. \E o : \E next \in {"record1", "exit"} : o.end \in Ends /\ Cleanup(o, next)
    BY <1>8, FlushDriveTells DEF Told
  <2> QED  BY <2>1, CleanupTroubles
<1>9. CASE RecordShutdown
  <2>1. \E o : o.end \in Ends /\ Cleanup(o, "exit")  BY <1>9, RecordShutdownTells DEF Told
  <2> QED  BY <2>1, CleanupTroubles
<1>10. CASE FinishExit
  <2>1. \E o : o.end \in Ends /\ Cleanup(o, "stopP6")  BY <1>10, FinishExitTells
  <2> QED  BY <2>1, CleanupTroubles
<1>11. CASE StopP6
  <2>1. Skip("stopP6", "summary") \/ \E o : o.end \in Ends /\ Cleanup(o, "summary")
    BY <1>11, EndsOfCalls DEF StopP6
  <2> QED  BY <2>1, CleanupTroubles, SkipTroubles DEF Skip
<1>12. CASE Summarize
  <2>1. \/ Skip("summary", "flush2")
        \/ \E o : o.end \in Ends /\ Cleanup(o, "flush2")
        \/ \E o : o.end \in Ends /\ Body(o, "flush2", out)
    BY <1>o, <1>12, SummarizeTells DEF Ends
  <2> QED  BY <1>o, <2>1, CleanupTroubles, BodyTroubles, SkipTroubles DEF Skip
<1>13. CASE FlushSummary
  <2>1. \E o : \E next \in {"violation", "rethrow"} : o.end \in Ends /\ Cleanup(o, next)
    BY <1>13, FlushSummaryTells DEF Told
  <2> QED  BY <2>1, CleanupTroubles
<1>14. CASE RecordViolation
  <2>1. pc = "violation" /\ ViolationRecord("rethrow")  BY <1>14 DEF RecordViolation
  <2>2. \/ ~Logged /\ Skip(pc, "rethrow")
        \/ \E o : Told(log, o, << >>) /\ Body(o, "rethrow", OutOfRun)
        \/ \E o : Told(log, o, << >>) /\ Cleanup(o, "rethrow")
    BY <2>1, ViolationTells
  <2> QED  BY <1>o, <2>2, BodyTroubles, CleanupTroubles, SkipTroubles DEF Skip, Told
<1>15. CASE Rethrow
  <2>1. /\ err' = IF err.now = Nobody /\ err.late # Nobody THEN Raised(err.late) ELSE err
        /\ pc' = IF err'.now = Nobody THEN "report" ELSE out
    BY <1>o, <1>15 DEF Rethrow
  <2> QED  BY <1>o, <2>1 DEF ErrInv, Raised, First
<1>16. CASE Report
  <2>1. \E o : o.end \in Ends /\ Body(o, out, out)  BY <1>o, <1>16, EndsOfCalls DEF Report
  <2> QED  BY <1>o, <2>1, BodyTroubles
<1>17. CASE EndStage
  <2>1. Skip("endStage", "deactivate") \/ \E o : o.end \in Ends /\ Cleanup(o, "deactivate")
    BY <1>17, EndStageTells
  <2> QED  BY <2>1, CleanupTroubles, SkipTroubles DEF Skip
<1>18. CASE DryRun
  <2>1. \E o : o.end \in Ends /\ Body(o, "deactivate", "deactivate")
    BY <1>18, EndsOfCalls DEF DryRun
  <2> QED  BY <2>1, BodyTroubles
<1>19. CASE CloseControl
  <2>1. Skip("deactivate", "closeProbe") \/ \E o : o.end \in Ends /\ Cleanup(o, "closeProbe")
    BY <1>19, CloseControlTells
  <2> QED  BY <2>1, CleanupTroubles, SkipTroubles DEF Skip
<1>20. CASE CloseProbe \/ CloseP6 \/ CloseHero \/ LastP6 \/ CloseLog
  <2>1. \A at, next, what, open : Release(at, next, what, open) \/ CloseP6Runtime(at, next) =>
          Skip(at, next) \/ \E o : o.end \in Ends /\ Cleanup(o, next)
    BY EndsOfCalls DEF Release, CloseP6Runtime
  <2>2. \E next \in {"closeP6", "closeViewer", "lastP6", "closeLog", "done"} : \E at :
          Skip(at, next) \/ \E o : o.end \in Ends /\ Cleanup(o, next)
    BY <1>20, <2>1 DEF CloseProbe, CloseP6, CloseHero, LastP6, CloseLog
  <2> QED  BY <2>2, CleanupTroubles, SkipTroubles DEF Skip
<1>21. CASE CloseViewer
  <2>1. \E o : o.end \in Ends /\ Cleanup(o, "closeHero")  BY <1>21, CloseViewerTells
  <2> QED  BY <2>1, CleanupTroubles
<1> QED
  BY <1>1, <1>2, <1>3, <1>4, <1>5, <1>6, <1>7, <1>8, <1>9, <1>10, <1>11, <1>12, <1>13, <1>14, <1>15, <1>16, <1>17,
     <1>18, <1>19, <1>20, <1>21

LEMMA ErrStarts == Init => ErrInv
  BY DEF Init, ErrInv

LEMMA ErrKeeps == ASSUME ErrInv, LogInv, [Next]_vars PROVE ErrInv'
<1>1. CASE UNCHANGED vars \/ Finished  BY <1>1 DEF vars, Finished, ErrInv
<1> QED  BY <1>1, OpeningTroubles, PrimingTroubles, DrivingTroubles, ClosingTroubles DEF Next

(* The rows of the stages, as they were told. *)
Untold == << >>
Attempted == <<<<"attempt", "drive">>>>
Driving == Append(Attempted, <<"start", "drive">>)
Driven == Append(Driving, <<"end", "drive">>)
Following == Append(Driven, <<"start", "hazard">>)
Followed == Append(Following, <<"end", "hazard">>)
StartFailed == Append(Attempted, <<"start_failure", "drive">>)

Story(rows, s) ==
  Len(rows) = Len(s) /\ \A i \in 1..Len(s) : rows[i].what = s[i][1] /\ rows[i].label = s[i][2]

\* The stage's flags, and the rows they belong to.
Fresh == ~stage.active /\ ~stage.ended /\ stage.label = "drive"
IsUntold == Story(log.rows, Untold) /\ Fresh
IsAttempted == Story(log.rows, Attempted) /\ Fresh
IsDriving == Story(log.rows, Driving) /\ stage.active /\ ~stage.ended /\ stage.label = "drive"
IsDriven == Story(log.rows, Driven) /\ ~stage.active /\ stage.ended /\ stage.label = "drive"
IsFollowing == Story(log.rows, Following) /\ stage.active /\ ~stage.ended /\ stage.label = "hazard"
IsFollowed == Story(log.rows, Followed) /\ ~stage.active /\ stage.ended /\ stage.label = "hazard"
IsStartFailed == Story(log.rows, StartFailed) /\ Fresh

BeforeAttempt == Unspawned \cup Building \cup Abandoning \cup {"attempt", "dry"}
BeforeStart == (Priming \ {"attempt"}) \cup {"initialize", "p6start", "start"}
Framing == {"frame", "control", "after"}
Leaving == {"leave", "measure", "final", "hook"} \cup Stopping \cup Reporting

\* As long as every row could be written, the rows are where the drive is.
StageInv ==
  ~log.failed /\ Logged =>
    /\ pc \in BeforeAttempt => IsUntold
    /\ pc \in BeforeStart => IsAttempted
    /\ pc \in {"scene", "endDrive", "collision", "closeContact"} => IsDriving
    /\ pc \in Framing => IF run.following THEN IsFollowing ELSE IsDriving
    /\ pc \in {"follow", "begin", "releaseContact", "holdContact"} => IsDriven
    /\ pc \in {"endFollow", "abandonFollow"} => IsFollowing
    /\ pc \in Leaving => IsAttempted \/ IsDriving \/ IsDriven \/ IsFollowed
    /\ pc \in Closing \cup Last => IsUntold \/ IsDriven \/ IsFollowed \/ IsStartFailed

Everywhere ==
  BeforeAttempt \cup BeforeStart \cup Framing \cup Leaving \cup Closing \cup Last
  \cup {"scene", "endDrive", "collision", "closeContact", "follow", "begin", "releaseContact", "holdContact",
        "endFollow", "abandonFollow"}

\* A drive has a scene or a continuation, and the continuation comes once.
RunInv ==
  /\ RunShape /\ pc \in Everywhere
  /\ run.following => run.boundary
  /\ run.boundary => cfg.scene = "continuation"
  /\ run.scene => cfg.scene = "scene"
  /\ pc \in BeforeAttempt \cup BeforeStart \cup {"scene"} => ~run.boundary
  /\ pc = "endDrive" => run.boundary /\ ~run.following
  /\ pc = "follow" => run.boundary /\ ~run.following
  /\ pc = "begin" => run.following
  /\ pc \in {"collision", "closeContact"} => run.scene

\* From place to place.
StageRests == stage' = stage /\ cfg' = cfg
SameRun == run'.boundary = run.boundary /\ run'.following = run.following /\ run'.scene = run.scene

LEMMA OpeningMoves ==
  ASSUME \/ OpenLog \/ MakeP6 \/ Preflight \/ SpawnHero \/ RecordSetting \/ OpenProbe
         \/ BuildBundle \/ CreateViewer \/ AttachViewer \/ WireSession
         \/ AbandonProbe \/ AbandonViewer \/ AbandonHero
  PROVE  /\ pc \in Unspawned \cup Building \cup Abandoning
         /\ pc' \in BeforeAttempt \cup {"speed", "lastP6", "done"}
         /\ Logged => pc' # "speed"
         /\ StageRests /\ run' = run
<1> USE DEF Body, Skip, BeforeAttempt, Unspawned, Building, Abandoning, StageRests
<1>1. CASE OpenLog \/ MakeP6 \/ Preflight \/ SpawnHero \/ RecordSetting \/ OpenProbe
  BY <1>1 DEF OpenLog, MakeP6, Preflight, SpawnHero, RecordSetting, OpenProbe
<1>2. CASE BuildBundle \/ CreateViewer \/ AttachViewer \/ WireSession
  BY <1>2 DEF BuildBundle, CreateViewer, AttachViewer, WireSession
<1>3. CASE AbandonProbe \/ AbandonViewer \/ AbandonHero
  BY <1>3 DEF AbandonProbe, AbandonViewer, AbandonHero, Release, Cleanup
<1> QED  BY <1>1, <1>2, <1>3

LEMMA PrimingMoves ==
  ASSUME \/ RecordAuthority \/ ObserveInitialSpeed \/ RecordNoControl
         \/ ReadGear \/ Halt \/ Engage \/ Confirm
         \/ PrepareInput \/ Initialize \/ StartP6
  PROVE  /\ pc \in BeforeStart
         /\ pc' \in BeforeStart \cup {"endStage", "deactivate", "finalizeScene"}
         /\ Logged => pc' # "deactivate"
         /\ StageRests /\ run' = run
<1> USE DEF Body, Skip, BeforeStart, Priming, StageRests, OutOfRun
<1>1. CASE RecordAuthority \/ ObserveInitialSpeed \/ ReadGear
  BY <1>1 DEF RecordAuthority, ObserveInitialSpeed, ReadGear
<1>2. CASE RecordNoControl  BY <1>2 DEF RecordNoControl, ViolationRecord, Cleanup
<1>3. CASE Halt \/ Engage \/ Confirm  BY <1>3 DEF Halt, Engage, Confirm, Hold
<1>4. CASE PrepareInput \/ StartP6  BY <1>4 DEF PrepareInput, StartP6
<1>5. CASE Initialize  BY <1>5 DEF Initialize
<1> QED  BY <1>1, <1>2, <1>3, <1>4, <1>5

LEMMA FrameMoves ==
  ASSUME LogInv, Collect \/ Control
  PROVE  /\ pc \in Framing
         /\ pc' \in Framing \cup {IF run.following THEN "abandonFollow" ELSE "leave"}
         /\ StageRests /\ run' = run
<1> USE DEF Body, Framing, StageRests
<1>1. CASE Collect
  <2>1. \E o : Body(o, "control", OutOfFrame)  BY <1>1, CollectTells
  <2>2. UNCHANGED << cfg, own, stage, run >> /\ pc = "frame"  BY <1>1, CollectMoves
  <2> QED  BY <2>1, <2>2 DEF OutOfFrame
<1>2. CASE Control  BY <1>2 DEF Control, OutOfFrame
<1> QED  BY <1>1, <1>2

LEMMA AfterMoves ==
  ASSUME LogInv, RunShape, After
  PROVE  /\ pc \in Framing
         /\ \/ pc' \in Framing \cup {IF run.following THEN "abandonFollow" ELSE "leave"}
            \/ pc' = "collision" /\ run.scene
         /\ StageRests /\ SameRun
<1>1. PICK o, next : /\ Body(o, next, OutOfFrame)
                     /\ next \in {"frame", "collision"}
                     /\ next = "collision" => run.scene
  BY AfterTells
<1>2. pc = "after" /\ StageRests /\ run' = [run EXCEPT !.frames = @ + 1]  BY DEF After, StageRests
<1>3. SameRun  BY <1>2 DEF SameRun, RunShape
<1>4. pc' = next \/ pc' = OutOfFrame  BY <1>1 DEF Body
<1> QED  BY <1>1, <1>2, <1>3, <1>4 DEF OutOfFrame, Framing

LEMMA LeaveLoopMoves ==
  ASSUME RunShape, LeaveLoop
  PROVE  /\ pc = "frame" /\ pc' = IF run.following THEN "endFollow" ELSE "leave"
         /\ StageRests /\ SameRun
<1>1. PICK why : run' = [run EXCEPT !.exited = (why = "user"), !.early = (why = "early")]
  BY DEF LeaveLoop
<1> QED  BY <1>1 DEF LeaveLoop, RunShape, SameRun, StageRests

LEMMA BoundaryMoves ==
  ASSUME RunShape, Boundary
  PROVE  /\ pc = "frame" /\ pc' \in {"endDrive", "leave"}
         /\ StageRests /\ cfg.scene = "continuation" /\ ~run.boundary
         /\ run'.boundary /\ run'.following = run.following /\ run'.scene = run.scene
  BY DEF Boundary, RunShape, StageRests, Body

LEMMA MakeFollowMoves ==
  ASSUME RunShape, MakeFollow
  PROVE  /\ pc = "follow" /\ pc' \in {"begin", "leave"}
         /\ pc' = "begin" => run'.following
         /\ StageRests /\ run'.boundary = run.boundary /\ run'.scene = run.scene
<1>1. PICK o : Body(o, "begin", "leave") /\ run' = [run EXCEPT !.following = (o.end = "ok")]
  BY DEF MakeFollow
<1>2. run'.following = (o.end = "ok") /\ run'.boundary = run.boundary /\ run'.scene = run.scene
  BY <1>1 DEF RunShape
<1>3. pc' = IF o.end = "ok" THEN "begin" ELSE "leave"  BY <1>1 DEF Body
<1> QED  BY <1>2, <1>3 DEF MakeFollow, StageRests

LEMMA BindSceneMoves ==
  ASSUME RunShape, BindScene
  PROVE  /\ pc = "scene" /\ pc' \in {"frame", "finalizeScene"}
         /\ run'.scene => cfg.scene = "scene"
         /\ StageRests /\ run'.boundary = run.boundary /\ run'.following = run.following
<1>1. PICK o : /\ Body(o, "frame", "finalizeScene")
               /\ run' = [run EXCEPT !.viewing = (o.end = "ok"), !.scene = (cfg.scene = "scene" /\ o.end = "ok")]
  BY DEF BindScene
<1>2. run'.scene = (cfg.scene = "scene" /\ o.end = "ok") /\ run'.boundary = run.boundary /\ run'.following = run.following
  BY <1>1 DEF RunShape
<1>3. pc' \in {"frame", "finalizeScene"}  BY <1>1 DEF Body
<1> QED  BY <1>2, <1>3 DEF BindScene, StageRests

LEMMA ContactMoves ==
  ASSUME RunShape, StopAtContact \/ ReleaseContact \/ HoldContact
  PROVE  /\ \/ pc = "collision" /\ pc' = "closeContact"
            \/ pc \in {"collision", "releaseContact", "holdContact"} /\ pc' = "leave"
            \/ pc = "releaseContact" /\ pc' = "holdContact"
         /\ StageRests /\ SameRun
  BY DEF StopAtContact, ReleaseContact, HoldContact, Attempt, Body, RunShape, StageRests, SameRun

LEMMA LeavingMoves ==
  ASSUME RunShape,
         \/ LeaveView \/ Measure \/ FinalSpeed \/ BeforeShutdown
         \/ FinalizeScene \/ Shutdown \/ FinishObservation \/ FlushDrive \/ RecordShutdown
         \/ FinishExit \/ StopP6 \/ Summarize \/ FlushSummary \/ RecordViolation
         \/ Rethrow \/ Report
  PROVE  /\ pc \in Leaving /\ pc' \in Leaving \cup {"deactivate"}
         /\ Logged => pc' # "deactivate"
         /\ StageRests /\ SameRun
<1> USE DEF Body, Cleanup, Skip, StageRests, SameRun, Leaving, Stopping, Reporting, OutOfRun
<1>1. CASE LeaveView \/ Measure \/ FinalSpeed \/ BeforeShutdown
  BY <1>1 DEF LeaveView, Measure, FinalSpeed, BeforeShutdown
<1>2. CASE FinalizeScene  BY <1>2 DEF FinalizeScene, RunShape
<1>3. CASE Shutdown  BY <1>3 DEF Shutdown, RunShape
<1>4. CASE FinishObservation \/ FlushDrive  BY <1>4 DEF FinishObservation, FlushDrive
<1>5. CASE RecordShutdown \/ FinishExit \/ StopP6  BY <1>5 DEF RecordShutdown, FinishExit, StopP6
<1>6. CASE Summarize \/ FlushSummary  BY <1>6 DEF Summarize, FlushSummary
<1>7. CASE RecordViolation  BY <1>7 DEF RecordViolation, ViolationRecord
<1>8. CASE Rethrow  BY <1>8 DEF Rethrow
<1>9. CASE Report  BY <1>9 DEF Report, RunShape
<1> QED  BY <1>1, <1>2, <1>3, <1>4, <1>5, <1>6, <1>7, <1>8, <1>9

LEMMA ClosingMoves ==
  ASSUME \/ DryRun \/ CloseControl \/ CloseProbe \/ CloseP6 \/ CloseViewer \/ CloseHero
         \/ LastP6 \/ CloseLog
  PROVE  /\ pc \in {"dry"} \cup Closing \cup Last /\ pc' \in Closing \cup Last
         /\ pc = "dry" => pc' = "deactivate"
         /\ StageRests /\ run' = run
<1> USE DEF Body, Cleanup, Skip, StageRests, Closing, Last
<1>1. CASE DryRun  BY <1>1 DEF DryRun
<1>2. CASE CloseControl  BY <1>2 DEF CloseControl
<1>3. CASE CloseProbe \/ CloseP6 \/ CloseHero \/ LastP6 \/ CloseLog
  BY <1>3 DEF CloseProbe, CloseP6, CloseHero, LastP6, CloseLog, Release, CloseP6Runtime
<1>4. CASE CloseViewer  BY <1>4 DEF CloseViewer
<1> QED  BY <1>1, <1>2, <1>3, <1>4

LEMMA TellingMoves ==
  ASSUME Telling
  PROVE  /\ run' = run /\ cfg' = cfg
         /\ \/ StartAttempt /\ pc = "attempt" /\ pc' \in {"speed", "deactivate"}
            \/ StartStage /\ pc = "start" /\ pc' \in {"scene", "finalizeScene"}
            \/ EndDrive /\ pc = "endDrive" /\ pc' \in {"follow", "leave"}
            \/ BeginFollow /\ pc = "begin" /\ pc' \in {"frame", "abandonFollow"}
            \/ (EndFollow \/ AbandonFollow) /\ pc \in {"endFollow", "abandonFollow"} /\ pc' = "leave"
            \/ CloseContact /\ pc = "closeContact" /\ pc' \in {"releaseContact", "leave"}
            \/ EndStage /\ pc = "endStage" /\ pc' = "deactivate"
<1> USE DEF Body, Cleanup, Skip
<1>1. CASE StartAttempt  BY <1>1 DEF StartAttempt
<1>2. CASE StartStage  BY <1>2 DEF StartStage
<1>3. CASE EndDrive  BY <1>3 DEF EndDrive
<1>4. CASE BeginFollow  BY <1>4 DEF BeginFollow
<1>5. CASE EndFollow \/ AbandonFollow  BY <1>5 DEF EndFollow, AbandonFollow, FinishFollow
<1>6. CASE CloseContact  BY <1>6 DEF CloseContact, Attempt
<1>7. CASE EndStage  BY <1>7 DEF EndStage
<1> QED  BY <1>1, <1>2, <1>3, <1>4, <1>5, <1>6, <1>7 DEF Telling

LEMMA RunStartsSound == Init => RunInv
  BY RunStarts DEF Init, RunInv, Everywhere, BeforeAttempt, Unspawned, BeforeStart, Priming

LEMMA RunKeeps == ASSUME RunInv, LogInv, [Next]_vars PROVE RunInv'
<1> USE DEF BeforeAttempt, BeforeStart, Unspawned, Building, Abandoning, Priming, Framing, Leaving, Stopping,
            Reporting, Closing, Last, StageRests, SameRun, Everywhere
<1>0. RunShape'  BY RunKeepsShape DEF RunInv
<1>1. CASE UNCHANGED vars \/ Finished  BY <1>1, <1>0 DEF vars, Finished, RunInv
<1>2. CASE \/ OpenLog \/ MakeP6 \/ Preflight \/ SpawnHero \/ RecordSetting \/ OpenProbe
           \/ BuildBundle \/ CreateViewer \/ AttachViewer \/ WireSession
           \/ AbandonProbe \/ AbandonViewer \/ AbandonHero
  BY <1>2, <1>0, OpeningMoves DEF RunInv
<1>3. CASE \/ RecordAuthority \/ ObserveInitialSpeed \/ RecordNoControl
           \/ ReadGear \/ Halt \/ Engage \/ Confirm
           \/ PrepareInput \/ Initialize \/ StartP6
  BY <1>3, <1>0, PrimingMoves DEF RunInv
<1>4. CASE Collect \/ Control  BY <1>4, <1>0, FrameMoves DEF RunInv
<1>5. CASE After  BY <1>5, <1>0, AfterMoves DEF RunInv
<1>6. CASE LeaveLoop  BY <1>6, <1>0, LeaveLoopMoves DEF RunInv
<1>7. CASE Boundary  BY <1>7, <1>0, BoundaryMoves DEF RunInv
<1>8. CASE MakeFollow  BY <1>8, <1>0, MakeFollowMoves DEF RunInv
<1>9. CASE BindScene  BY <1>9, <1>0, BindSceneMoves DEF RunInv
<1>10. CASE StopAtContact \/ ReleaseContact \/ HoldContact  BY <1>10, <1>0, ContactMoves DEF RunInv
<1>11. CASE \/ LeaveView \/ Measure \/ FinalSpeed \/ BeforeShutdown
            \/ FinalizeScene \/ Shutdown \/ FinishObservation \/ FlushDrive \/ RecordShutdown
            \/ FinishExit \/ StopP6 \/ Summarize \/ FlushSummary \/ RecordViolation
            \/ Rethrow \/ Report
  BY <1>11, <1>0, LeavingMoves DEF RunInv
<1>12. CASE \/ DryRun \/ CloseControl \/ CloseProbe \/ CloseP6 \/ CloseViewer \/ CloseHero
            \/ LastP6 \/ CloseLog
  BY <1>12, <1>0, ClosingMoves DEF RunInv
<1>13. CASE Telling  BY <1>13, <1>0, TellingMoves DEF RunInv
<1> QED
  BY <1>1, <1>2, <1>3, <1>4, <1>5, <1>6, <1>7, <1>8, <1>9, <1>10, <1>11, <1>12, <1>13 DEF Next, Telling

-----------------------------------------------------------------------------
\* One row is told, unless it could not be written.
RowTold(w, b, reason) ==
  /\ log'.rows \in {log.rows, log.rows \o Row(w, b, reason)}
  /\ ~log'.failed => ~log.failed /\ (Logged => log'.rows = log.rows \o Row(w, b, reason))

\* A reason that claims something, and what it takes to claim it.
Claim(w, reason) == w = "end" /\ reason \notin {"FAILURE", "HAZARD_COLLISION"} => err.first = Nobody

LEMMA ToldRow ==
  ASSUME NEW w, NEW b, NEW reason, NEW o, Told(log, o, Row(w, b, reason)), log' = o.log
  PROVE  RowTold(w, b, reason) /\ (~log'.failed => o.end = "ok")
<1> DEFINE rows == Row(w, b, reason)
<1>1. Told(log, o, rows)  OBVIOUS
<1> HIDE DEF rows
<1>2. log'.rows \in {log.rows, log.rows \o rows} /\ (~log'.failed => ~log.failed /\ o.end = "ok")
  BY <1>1 DEF Told
<1>3. ~log'.failed /\ Logged => log'.rows = log.rows \o rows  BY <1>1, <1>2 DEF Told
<1> QED  BY <1>2, <1>3 DEF RowTold, rows

LEMMA StartAttemptRow ==
  ASSUME LogInv, StartAttempt
  PROVE  /\ RowTold("attempt", "drive", "") /\ stage' = stage
         /\ ~log'.failed => pc' = "speed"
<1>1. PICK o : Told(log, o, Row("attempt", "drive", "")) /\ Body(o, "speed", "deactivate")
  BY StartAttemptTells
<1>2. log' = o.log /\ (o.end = "ok" => pc' = "speed")  BY <1>1 DEF Body
<1>3. RowTold("attempt", "drive", "") /\ (~log'.failed => o.end = "ok")  BY <1>1, <1>2, ToldRow
<1> QED  BY <1>2, <1>3 DEF StartAttempt

LEMMA StartStageRow ==
  ASSUME LogInv, StartStage
  PROVE  \/ /\ ~Logged /\ log' = log /\ stage' = stage
         \/ /\ RowTold("start", stage.label, "")
            /\ ~log'.failed => pc' = "scene" /\ stage' = [stage EXCEPT !.active = TRUE]
<1>1. CASE ~Logged  BY <1>1 DEF StartStage, Skip
<1>2. CASE Logged
  <2>1. PICK o : /\ Told(log, o, Row("start", stage.label, "")) /\ Body(o, "scene", "finalizeScene")
                 /\ stage' = [stage EXCEPT !.active = (o.end = "ok")]
    BY <1>2, StartStageTells
  <2>2. log' = o.log /\ (o.end = "ok" => pc' = "scene")  BY <2>1 DEF Body
  <2>3. RowTold("start", stage.label, "") /\ (~log'.failed => o.end = "ok")  BY <2>1, <2>2, ToldRow
  <2>4. o.end = "ok" => stage' = [stage EXCEPT !.active = TRUE]  BY <2>1
  <2> QED  BY <2>2, <2>3, <2>4
<1> QED  BY <1>1, <1>2

EndedNow == stage' = [stage EXCEPT !.active = FALSE, !.ended = TRUE]

LEMMA EndDriveRow ==
  ASSUME LogInv, EndDrive
  PROVE  /\ RowTold("end", stage.label, "NORMAL_COMPLETION")
         /\ ~log'.failed => pc' = "follow" /\ EndedNow
<1>1. PICK o : /\ Told(log, o, Row("end", stage.label, "NORMAL_COMPLETION"))
               /\ Body(o, "follow", "leave") /\ Ended(o)
  BY EndDriveTells
<1>2. log' = o.log /\ (o.end = "ok" => pc' = "follow" /\ EndedNow)
  BY <1>1 DEF Body, Ended, EndedNow
<1> QED  BY <1>1, <1>2, ToldRow

LEMMA BeginFollowRow ==
  ASSUME LogInv, BeginFollow
  PROVE  /\ RowTold("start", "hazard", "")
         /\ ~log'.failed => pc' = "frame" /\ stage' = [active |-> TRUE, ended |-> FALSE, label |-> "hazard"]
<1>1. PICK o : /\ Told(log, o, Row("start", "hazard", ""))
               /\ Body(o, "frame", "abandonFollow")
               /\ ~o.log.failed => stage' = [active |-> TRUE, ended |-> FALSE, label |-> "hazard"]
  BY BeginFollowTells
<1>2. log' = o.log /\ (o.end = "ok" => pc' = "frame")  BY <1>1 DEF Body
<1> QED  BY <1>1, <1>2, ToldRow

LEMMA FinishFollowRow ==
  ASSUME LogInv, ErrInv, EndFollow \/ AbandonFollow
  PROVE  /\ \E reason \in Reasons : RowTold("end", stage.label, reason) /\ Claim("end", reason)
         /\ ~log'.failed => EndedNow
<1>1. pc \in {"endFollow", "abandonFollow"} /\ FinishFollow("leave")
  BY DEF EndFollow, AbandonFollow
<1>2. PICK o, c, reason :
        /\ Told(log, o, Row("end", stage.label, reason)) /\ Ended(o)
        /\ reason \in {"NORMAL_COMPLETION", "FAILURE"}
        /\ reason # "FAILURE" => err.now = Nobody
        /\ c.log = o.log /\ Cleanup(c, "leave")
  BY <1>1, FinishFollowTells
<1>3. log' = o.log /\ (o.end = "ok" => EndedNow)  BY <1>2 DEF Cleanup, Ended, EndedNow
<1>4. RowTold("end", stage.label, reason) /\ (~log'.failed => o.end = "ok")  BY <1>2, <1>3, ToldRow
<1>5. reason \in Reasons /\ Claim("end", reason)  BY <1>2 DEF Reasons, Claim, ErrInv
<1> QED  BY <1>3, <1>4, <1>5

LEMMA CloseContactRow ==
  ASSUME LogInv, CloseContact
  PROVE  /\ RowTold("end", stage.label, "HAZARD_COLLISION")
         /\ ~log'.failed => pc' = "releaseContact" /\ EndedNow
<1>1. PICK o : /\ Told(log, o, Row("end", stage.label, "HAZARD_COLLISION"))
               /\ Attempt(o, "releaseContact") /\ Ended(o)
  BY CloseContactTells
<1>2. log' = o.log /\ (o.end = "ok" => pc' = "releaseContact" /\ EndedNow)
  BY <1>1 DEF Attempt, Body, Ended, EndedNow
<1> QED  BY <1>1, <1>2, ToldRow

LEMMA EndStageRow ==
  ASSUME LogInv, ErrInv, EndStage
  PROVE  \/ /\ stage.ended /\ ~stage.active /\ log' = log /\ stage' = stage
         \/ /\ stage.active
            /\ \E reason \in Reasons : RowTold("end", stage.label, reason) /\ Claim("end", reason)
            /\ ~log'.failed => EndedNow
         \/ /\ ~stage.active /\ ~stage.ended /\ stage' = stage
            /\ \E reason \in Reasons : RowTold("start_failure", "drive", reason)
<1>1. CASE (stage.ended /\ ~stage.active) /\ Skip("endStage", "deactivate")  BY <1>1 DEF Skip
<1>2. CASE /\ ~(stage.ended /\ ~stage.active)
           /\ \E o : /\ o.log \in Log /\ Timed(o.log) /\ o.end \in Ends
                     /\ ~o.log.failed => ~log.failed /\ o.end = "ok"
                     /\ o.log.rows = IF Logged /\ o.end = "ok" THEN log.rows \o EndRows ELSE log.rows
                     /\ Cleanup(o, "deactivate")
                     /\ IF stage.active THEN Ended(o) ELSE UNCHANGED stage
  <2>1. PICK o : /\ ~o.log.failed => ~log.failed /\ o.end = "ok"
                 /\ o.log.rows = IF Logged /\ o.end = "ok" THEN log.rows \o EndRows ELSE log.rows
                 /\ Cleanup(o, "deactivate")
                 /\ IF stage.active THEN Ended(o) ELSE UNCHANGED stage
    BY <1>2
  <2>2. log' = o.log  BY <2>1 DEF Cleanup
  <2>3. Reason \in Reasons /\ Claim("end", Reason)  BY DEF Reason, Reasons, Claim, ErrInv
  <2>4. CASE stage.active
    <3>1. EndRows = Row("end", stage.label, Reason)  BY <2>4 DEF EndRows
    <3>2. RowTold("end", stage.label, Reason)  BY <2>1, <2>2, <3>1 DEF RowTold
    <3>3. ~log'.failed => EndedNow  BY <2>1, <2>2, <2>4 DEF Ended, EndedNow
    <3> QED  BY <2>3, <2>4, <3>2, <3>3
  <2>5. CASE ~stage.active
    <3>1. EndRows = Row("start_failure", "drive", Reason)  BY <2>5 DEF EndRows
    <3>2. RowTold("start_failure", "drive", Reason)  BY <2>1, <2>2, <3>1 DEF RowTold
    <3>3. stage' = stage /\ ~stage.ended  BY <1>2, <2>1, <2>5
    <3> QED  BY <2>3, <2>5, <3>2, <3>3
  <2> QED  BY <2>4, <2>5
<1> QED  BY <1>1, <1>2, EndStageTells

-----------------------------------------------------------------------------
\* What an end row claims stays true: rows are only added, and none claims too much.
LEMMA HonestGrows ==
  ASSUME log \in Log, HonestEnd, NEW w, NEW b, NEW reason, RowTold(w, b, reason), Claim(w, reason)
  PROVE  HonestEnd'
<1> DEFINE r == [what |-> w, label |-> b, reason |-> reason, clean |-> err.first = Nobody]
<1>1. CASE log'.rows = log.rows  BY <1>1 DEF HonestEnd
<1>2. CASE log'.rows = log.rows \o Row(w, b, reason)
  <2>1. log'.rows = log.rows \o <<r>> /\ log.rows \in Seq(Line)  BY <1>2 DEF Row, Log
  <2>2. r.what = "end" /\ r.reason \notin {"FAILURE", "HAZARD_COLLISION"} => r.clean  BY DEF Claim
  <2> HIDE DEF r, Line
  <2>3. /\ Len(log'.rows) = Len(log.rows) + 1
        /\ \A i \in 1..Len(log.rows) : log'.rows[i] = log.rows[i]
        /\ log'.rows[Len(log.rows) + 1] = r
    BY <2>1
  <2>4. Len(log.rows) \in Nat  BY <2>1
  <2> QED  BY <2>2, <2>3, <2>4 DEF HonestEnd
<1> QED  BY <1>1, <1>2 DEF RowTold

LEMMA HonestKeeps == ASSUME LogInv, ErrInv, HonestEnd, [Next]_vars PROVE HonestEnd'
<1>0. log \in Log  BY DEF LogInv
<1>1. CASE NoRowTold  BY <1>1 DEF NoRowTold, HonestEnd
<1>2. CASE StartAttempt  BY <1>0, <1>2, StartAttemptRow, HonestGrows DEF Claim
<1>3. CASE StartStage
  <2>1. CASE log' = log  BY <2>1 DEF HonestEnd
  <2>2. CASE RowTold("start", stage.label, "")  BY <1>0, <2>2, HonestGrows DEF Claim
  <2> QED  BY <1>3, <2>1, <2>2, StartStageRow
<1>4. CASE EndDrive
  <2>1. err.first = Nobody  BY <1>4 DEF EndDrive, ErrInv, Untroubled
  <2> QED  BY <1>0, <1>4, <2>1, EndDriveRow, HonestGrows DEF Claim
<1>5. CASE BeginFollow  BY <1>0, <1>5, BeginFollowRow, HonestGrows DEF Claim
<1>6. CASE EndFollow \/ AbandonFollow  BY <1>0, <1>6, FinishFollowRow, HonestGrows
<1>7. CASE CloseContact  BY <1>0, <1>7, CloseContactRow, HonestGrows DEF Claim
<1>8. CASE EndStage
  <2>1. CASE log' = log  BY <2>1 DEF HonestEnd
  <2>2. CASE \E reason \in Reasons : RowTold("end", stage.label, reason) /\ Claim("end", reason)
    BY <1>0, <2>2, HonestGrows
  <2>3. CASE \E reason \in Reasons : RowTold("start_failure", "drive", reason)
    BY <1>0, <2>3, HonestGrows DEF Claim
  <2> QED  BY <1>8, <2>1, <2>2, <2>3, EndStageRow
<1> QED  BY <1>1, <1>2, <1>3, <1>4, <1>5, <1>6, <1>7, <1>8, MostTellNothing DEF Telling

\* A row that claims completion, an exit or an early end was written by a drive without an error.
THEOREM EndsAreHonest == Spec => []HonestEnd
<1>1. Init => HonestEnd
  <2> SUFFICES ASSUME Init PROVE HonestEnd  OBVIOUS
  <2>1. Len(log.rows) = 0  BY DEF Init
  <2> QED  BY <2>1 DEF HonestEnd
<1> QED
  BY <1>1, LogStarts, LogKeeps, RunStarts, RunKeepsShape, ErrStarts, ErrKeeps, HonestKeeps, PTL DEF Spec

-----------------------------------------------------------------------------
\* A row that is told makes the story longer by what it says.
LEMMA StoryGrows ==
  ASSUME log \in Log, NEW s \in Seq({"attempt", "start", "end", "start_failure"} \X Labels),
         Story(log.rows, s), NEW w \in {"attempt", "start", "end", "start_failure"}, NEW b \in Labels, NEW reason,
         log'.rows = log.rows \o Row(w, b, reason)
  PROVE  Story(log'.rows, Append(s, <<w, b>>))
<1> DEFINE r == [what |-> w, label |-> b, reason |-> reason, clean |-> err.first = Nobody]
           e == <<w, b>>
<1>1. log'.rows = log.rows \o <<r>> /\ log.rows \in Seq(Line)  BY DEF Row, Log
<1>2. r.what = e[1] /\ r.label = e[2]  OBVIOUS
<1> HIDE DEF r, e, Line
<1>3. /\ Len(log'.rows) = Len(log.rows) + 1
      /\ \A i \in 1..Len(log.rows) : log'.rows[i] = log.rows[i]
      /\ log'.rows[Len(log.rows) + 1] = r
      /\ Len(log.rows) \in Nat
  BY <1>1
<1>4. /\ Len(Append(s, e)) = Len(s) + 1
      /\ \A i \in 1..Len(s) : Append(s, e)[i] = s[i]
      /\ Append(s, e)[Len(s) + 1] = e
  OBVIOUS
<1> DEFINE p == log'.rows
           q == Append(s, e)
<1>5. Len(p) = Len(q)  BY <1>3, <1>4 DEF Story
<1>6. ASSUME NEW i \in 1..Len(q) PROVE p[i].what = q[i][1] /\ p[i].label = q[i][2]
  <2>0. Len(s) = Len(log.rows) /\ \A j \in 1..Len(s) : log.rows[j].what = s[j][1] /\ log.rows[j].label = s[j][2]
    BY DEF Story
  <2>1. CASE i = Len(s) + 1  BY <1>2, <1>3, <1>4, <2>0, <2>1
  <2>2. CASE i # Len(s) + 1
    <3>1. i \in 1..Len(s)  BY <1>3, <1>4, <2>0, <2>2
    <3>2. p[i] = log.rows[i] /\ q[i] = s[i]  BY <1>3, <1>4, <2>0, <3>1
    <3> QED  BY <2>0, <3>1, <3>2
  <2> QED  BY <2>1, <2>2
<1>7. Story(p, q)  BY <1>5, <1>6 DEF Story
<1> QED  BY <1>7 DEF e

LEMMA Stories ==
  LET Tellings == Seq({"attempt", "start", "end", "start_failure"} \X Labels)
  IN  /\ Untold \in Tellings /\ Attempted \in Tellings /\ Driving \in Tellings /\ Driven \in Tellings
      /\ Following \in Tellings /\ Append(Untold, <<"attempt", "drive">>) = Attempted
<1> DEFINE Pairs == {"attempt", "start", "end", "start_failure"} \X Labels
<1>1. /\ <<"attempt", "drive">> \in Pairs /\ <<"start", "drive">> \in Pairs /\ <<"end", "drive">> \in Pairs
      /\ <<"start", "hazard">> \in Pairs
  BY DEF Labels
<1> HIDE DEF Pairs
<1>2. Untold \in Seq(Pairs)  BY DEF Untold
<1>3. Append(Untold, <<"attempt", "drive">>) = Attempted  BY DEF Untold, Attempted
<1>a. \A s \in Seq(Pairs), e \in Pairs : Append(s, e) \in Seq(Pairs)  OBVIOUS
<1>4. Attempted \in Seq(Pairs)  BY <1>1, <1>2, <1>3, <1>a
<1>5. Driving \in Seq(Pairs)  BY <1>1, <1>4, <1>a DEF Driving
<1>6. Driven \in Seq(Pairs)  BY <1>1, <1>5, <1>a DEF Driven
<1>7. Following \in Seq(Pairs)  BY <1>1, <1>6, <1>a DEF Following
<1> QED  BY <1>2, <1>3, <1>4, <1>5, <1>6, <1>7 DEF Pairs

LEMMA StoryTold ==
  ASSUME LogInv, Logged, ~log'.failed, NEW w \in {"attempt", "start", "end", "start_failure"}, NEW b \in Labels,
         NEW reason, RowTold(w, b, reason), NEW s \in {Untold, Attempted, Driving, Driven, Following},
         Story(log.rows, s)
  PROVE  Story(log'.rows, Append(s, <<w, b>>)) /\ ~log.failed
<1>1. log'.rows = log.rows \o Row(w, b, reason) /\ ~log.failed  BY DEF RowTold
<1>2. s \in Seq({"attempt", "start", "end", "start_failure"} \X Labels)  BY Stories
<1> QED  BY <1>1, <1>2, StoryGrows DEF LogInv

\* Where nothing is told, the story stays.
LEMMA StoryStays ==
  ASSUME NoRowTold, stage' = stage
  PROVE  /\ IsUntold => IsUntold'
         /\ IsAttempted => IsAttempted'
         /\ IsDriving => IsDriving'
         /\ IsDriven => IsDriven'
         /\ IsFollowing => IsFollowing'
         /\ IsFollowed => IsFollowed'
         /\ IsStartFailed => IsStartFailed'
  BY DEF NoRowTold, IsUntold, IsAttempted, IsDriving, IsDriven, IsFollowing, IsFollowed, IsStartFailed, Fresh

LEMMA StageStarts == Init => StageInv
<1> SUFFICES ASSUME Init PROVE StageInv  OBVIOUS
<1>1. Story(log.rows, Untold)  BY DEF Init, Story, Untold
<1> QED
  BY <1>1 DEF Init, StageInv, IsUntold, Fresh, BeforeAttempt, BeforeStart, Unspawned, Priming, Framing, Leaving,
              Stopping, Reporting, Closing, Last

LEMMA SilentStages ==
  ASSUME StageInv, RunInv, LogInv, NoRowTold,
         \/ OpenLog \/ MakeP6 \/ Preflight \/ SpawnHero \/ RecordSetting \/ OpenProbe
         \/ BuildBundle \/ CreateViewer \/ AttachViewer \/ WireSession
         \/ AbandonProbe \/ AbandonViewer \/ AbandonHero
         \/ RecordAuthority \/ ObserveInitialSpeed \/ RecordNoControl
         \/ ReadGear \/ Halt \/ Engage \/ Confirm
         \/ PrepareInput \/ Initialize \/ StartP6 \/ BindScene
         \/ Collect \/ Control \/ After \/ LeaveLoop \/ Boundary \/ MakeFollow
         \/ StopAtContact \/ ReleaseContact \/ HoldContact
         \/ LeaveView \/ Measure \/ FinalSpeed \/ BeforeShutdown
         \/ FinalizeScene \/ Shutdown \/ FinishObservation \/ FlushDrive \/ RecordShutdown
         \/ FinishExit \/ StopP6 \/ Summarize \/ FlushSummary \/ RecordViolation
         \/ Rethrow \/ Report
         \/ DryRun \/ CloseControl \/ CloseProbe \/ CloseP6 \/ CloseViewer \/ CloseHero
         \/ LastP6 \/ CloseLog
  PROVE  StageInv'
<1> SUFFICES ASSUME ~log'.failed, Logged' PROVE StageInv'  BY DEF StageInv
<1>s. RunShape  BY DEF RunInv
<1>f. ~log.failed  BY DEF NoRowTold
<1> USE DEF BeforeAttempt, BeforeStart, Unspawned, Building, Abandoning, Priming, Framing, Leaving, Stopping,
            Reporting, Closing, Last, StageRests, SameRun
<1>2. CASE \/ OpenLog \/ MakeP6 \/ Preflight \/ SpawnHero \/ RecordSetting \/ OpenProbe
           \/ BuildBundle \/ CreateViewer \/ AttachViewer \/ WireSession
           \/ AbandonProbe \/ AbandonViewer \/ AbandonHero
  BY <1>2, <1>f, OpeningMoves, StoryStays DEF StageInv, Logged
<1>3. CASE \/ RecordAuthority \/ ObserveInitialSpeed \/ RecordNoControl
           \/ ReadGear \/ Halt \/ Engage \/ Confirm
           \/ PrepareInput \/ Initialize \/ StartP6
  BY <1>3, <1>f, PrimingMoves, StoryStays DEF StageInv, Logged
<1>4. CASE Collect \/ Control  BY <1>4, <1>f, FrameMoves, StoryStays DEF StageInv, Logged
<1>5. CASE After
  <2>1. run.scene => ~run.following  BY DEF RunInv
  <2> QED  BY <1>5, <1>f, <1>s, <2>1, AfterMoves, StoryStays DEF StageInv, Logged
<1>6. CASE LeaveLoop  BY <1>6, <1>f, <1>s, LeaveLoopMoves, StoryStays DEF StageInv, Logged
<1>7. CASE Boundary
  <2>1. ~run.boundary => ~run.following  BY DEF RunInv
  <2> QED  BY <1>7, <1>f, <1>s, <2>1, BoundaryMoves, StoryStays DEF StageInv, Logged
<1>8. CASE MakeFollow  BY <1>8, <1>f, <1>s, MakeFollowMoves, StoryStays DEF StageInv, Logged
<1>9. CASE BindScene
  <2>1. pc = "scene" => ~run.following  BY DEF RunInv
  <2> QED  BY <1>9, <1>f, <1>s, <2>1, BindSceneMoves, StoryStays DEF StageInv, Logged
<1>10. CASE StopAtContact \/ ReleaseContact \/ HoldContact
  BY <1>10, <1>f, <1>s, ContactMoves, StoryStays DEF StageInv, Logged
<1>11. CASE \/ LeaveView \/ Measure \/ FinalSpeed \/ BeforeShutdown
            \/ FinalizeScene \/ Shutdown \/ FinishObservation \/ FlushDrive \/ RecordShutdown
            \/ FinishExit \/ StopP6 \/ Summarize \/ FlushSummary \/ RecordViolation
            \/ Rethrow \/ Report
  BY <1>11, <1>f, <1>s, LeavingMoves, StoryStays DEF StageInv, Logged
<1>12. CASE \/ DryRun \/ CloseControl \/ CloseProbe \/ CloseP6 \/ CloseViewer \/ CloseHero
            \/ LastP6 \/ CloseLog
  BY <1>12, <1>f, ClosingMoves, StoryStays DEF StageInv, Logged
<1> QED  BY <1>2, <1>3, <1>4, <1>5, <1>6, <1>7, <1>8, <1>9, <1>10, <1>11, <1>12

\* Each row that is told takes the stage where the row says.
LEMMA TellingStages ==
  ASSUME StageInv, LogInv, ErrInv, RunInv, Telling
  PROVE  StageInv'
<1> SUFFICES ASSUME ~log'.failed, Logged' PROVE StageInv'  BY DEF StageInv
<1>l. Logged /\ cfg' = cfg /\ run' = run  BY TellingMoves DEF Logged
<1>s. stage \in Stages  BY DEF LogInv
<1> USE DEF BeforeAttempt, BeforeStart, Unspawned, Building, Abandoning, Priming, Framing, Leaving, Stopping,
            Reporting, Closing, Last
<1>1. CASE StartAttempt
  <2>1. pc = "attempt" /\ RowTold("attempt", "drive", "") /\ stage' = stage /\ pc' = "speed" /\ ~log.failed
    BY <1>1, StartAttemptRow DEF StartAttempt, RowTold
  <2>2. IsUntold  BY <1>l, <2>1 DEF StageInv
  <2>3. Story(log'.rows, Append(Untold, <<"attempt", "drive">>))
    BY <1>l, <2>1, <2>2, StoryTold DEF IsUntold, Labels
  <2>4. IsAttempted'  BY <2>1, <2>2, <2>3, Stories DEF IsAttempted, IsUntold, Fresh
  <2> QED  BY <2>1, <2>4 DEF StageInv
<1>2. CASE StartStage
  <2>1. /\ pc = "start" /\ RowTold("start", stage.label, "") /\ stage' = [stage EXCEPT !.active = TRUE]
        /\ pc' = "scene" /\ ~log.failed
    BY <1>l, <1>2, StartStageRow DEF StartStage, RowTold
  <2>2. IsAttempted  BY <1>l, <2>1 DEF StageInv
  <2>3. stage.label = "drive"  BY <2>2 DEF IsAttempted, Fresh
  <2>4. Story(log'.rows, Append(Attempted, <<"start", "drive">>))
    BY <1>l, <2>1, <2>2, <2>3, StoryTold DEF IsAttempted, Labels
  <2>5. IsDriving'  BY <1>s, <2>1, <2>2, <2>4 DEF IsDriving, IsAttempted, Fresh, Driving, Stages
  <2> QED  BY <2>1, <2>5 DEF StageInv
<1>3. CASE EndDrive \/ CloseContact
  <2>1. /\ pc \in {"endDrive", "closeContact"} /\ EndedNow /\ pc' \in {"follow", "releaseContact"} /\ ~log.failed
        /\ \E reason : RowTold("end", stage.label, reason)
    <3>1. pc \in {"endDrive", "closeContact"}  BY <1>3 DEF EndDrive, CloseContact
    <3>2. /\ \E reason : RowTold("end", stage.label, reason)
          /\ EndedNow /\ pc' \in {"follow", "releaseContact"}
      BY <1>3, EndDriveRow, CloseContactRow
    <3>3. ~log.failed  BY <3>2 DEF RowTold
    <3> QED  BY <3>1, <3>2, <3>3
  <2>2. IsDriving  BY <1>l, <2>1 DEF StageInv
  <2>3. stage.label = "drive"  BY <2>2 DEF IsDriving
  <2>4. Story(log'.rows, Append(Driving, <<"end", "drive">>))
    BY <1>l, <2>1, <2>2, <2>3, StoryTold DEF IsDriving, Labels
  <2>5. IsDriven'  BY <1>s, <2>1, <2>2, <2>4 DEF IsDriven, IsDriving, Driven, Stages, EndedNow
  <2> QED  BY <2>1, <2>5 DEF StageInv
<1>4. CASE BeginFollow
  <2>1. /\ pc = "begin" /\ RowTold("start", "hazard", "") /\ pc' = "frame" /\ ~log.failed
        /\ stage' = [active |-> TRUE, ended |-> FALSE, label |-> "hazard"]
    BY <1>4, BeginFollowRow DEF BeginFollow, RowTold
  <2>2. IsDriven /\ run.following  BY <1>l, <2>1 DEF StageInv, RunInv
  <2>3. Story(log'.rows, Append(Driven, <<"start", "hazard">>))
    BY <1>l, <2>1, <2>2, StoryTold DEF IsDriven, Labels
  <2>4. IsFollowing'  BY <2>1, <2>3 DEF IsFollowing, Following
  <2> QED  BY <1>l, <2>1, <2>2, <2>4 DEF StageInv
<1>5. CASE EndFollow \/ AbandonFollow
  <2>1. /\ pc \in {"endFollow", "abandonFollow"} /\ pc' = "leave" /\ EndedNow
        /\ \E reason : RowTold("end", stage.label, reason)
    BY <1>5, FinishFollowRow, TellingMoves DEF EndFollow, AbandonFollow, FinishFollow, Cleanup
  <2>0. ~log.failed  BY <2>1 DEF RowTold
  <2>2. IsFollowing  BY <1>l, <2>0, <2>1 DEF StageInv
  <2>3. stage.label = "hazard"  BY <2>2 DEF IsFollowing
  <2>4. Story(log'.rows, Append(Following, <<"end", "hazard">>))
    BY <1>l, <2>1, <2>2, <2>3, StoryTold DEF IsFollowing, Labels
  <2>5. IsFollowed'
    BY <1>s, <2>1, <2>2, <2>4 DEF IsFollowed, IsFollowing, Followed, Stages, EndedNow
  <2> QED  BY <2>1, <2>5 DEF StageInv
<1>6. CASE EndStage
  <2>0. pc = "endStage" /\ pc' = "deactivate"  BY <1>6 DEF EndStage, Skip, Cleanup
  <2>1. CASE stage.ended /\ ~stage.active /\ log' = log /\ stage' = stage
    <3>1. IsDriven \/ IsFollowed  BY <1>l, <2>0, <2>1 DEF StageInv, IsAttempted, IsDriving, Fresh
    <3>2. IsDriven' \/ IsFollowed'  BY <2>1, <3>1, StoryStays, SameNoRow
    <3> QED  BY <2>0, <3>2 DEF StageInv
  <2>2. CASE /\ stage.active /\ EndedNow
             /\ \E reason : RowTold("end", stage.label, reason)
    <3>0. ~log.failed  BY <2>2 DEF RowTold
    <3>1. IsDriving
      BY <1>l, <2>0, <2>2, <3>0 DEF StageInv, IsAttempted, IsDriven, IsFollowed, Fresh
    <3>2. stage.label = "drive"  BY <3>1 DEF IsDriving
    <3>3. Story(log'.rows, Append(Driving, <<"end", "drive">>))
      BY <1>l, <2>2, <3>1, <3>2, StoryTold DEF IsDriving, Labels
    <3>4. IsDriven'  BY <1>s, <2>2, <3>1, <3>3 DEF IsDriven, IsDriving, Driven, Stages, EndedNow
    <3> QED  BY <2>0, <3>4 DEF StageInv
  <2>3. CASE /\ ~stage.active /\ ~stage.ended /\ stage' = stage
             /\ \E reason : RowTold("start_failure", "drive", reason)
    <3>0. ~log.failed  BY <2>3 DEF RowTold
    <3>1. IsAttempted  BY <1>l, <2>0, <2>3, <3>0 DEF StageInv, IsDriving, IsDriven, IsFollowed
    <3>2. Story(log'.rows, Append(Attempted, <<"start_failure", "drive">>))
      BY <1>l, <2>3, <3>1, StoryTold DEF IsAttempted, Labels
    <3>3. IsStartFailed'  BY <2>3, <3>1, <3>2 DEF IsStartFailed, IsAttempted, StartFailed, Fresh
    <3> QED  BY <2>0, <3>3 DEF StageInv
  <2> QED  BY <1>6, <2>1, <2>2, <2>3, EndStageRow
<1> QED  BY <1>1, <1>2, <1>3, <1>4, <1>5, <1>6 DEF Telling

LEMMA StageKeeps == ASSUME StageInv, LogInv, ErrInv, RunInv, [Next]_vars PROVE StageInv'
<1>1. CASE UNCHANGED vars \/ Finished
  BY <1>1 DEF vars, Finished, StageInv, IsUntold, IsAttempted, IsDriving, IsDriven, IsFollowing, IsFollowed,
              IsStartFailed, Fresh, Logged
<1>2. CASE Telling  BY <1>2, TellingStages
<1>3. CASE Next /\ ~Telling /\ ~Finished
  <2>1. NoRowTold  BY <1>3, MostTellNothing
  <2> QED  BY <1>3, <2>1, SilentStages DEF Next, Telling
<1> QED  BY <1>1, <1>2, <1>3

-----------------------------------------------------------------------------
\* What a story says of the rows of a kind.
At(s, w, b) == {i \in 1..Len(s) : s[i][1] = w /\ s[i][2] = b}

LEMMA RowsOfStory ==
  ASSUME NEW s, Story(log.rows, s), NEW w, NEW b PROVE RowsOf(w, b) = At(s, w, b)
  BY DEF Story, RowsOf, At

LEMMA Counted ==
  /\ Cardinality({}) = 0
  /\ \A x : Cardinality({x}) = 1
  BY FS_EmptySet, FS_Singleton

Entry(s, i, w, b) == s[i][1] = w /\ s[i][2] = b

LEMMA Appended ==
  ASSUME NEW s \in Seq({"attempt", "start", "end", "start_failure"} \X Labels), NEW w, NEW b, NEW n \in Nat, Len(s) = n
  PROVE  /\ Len(Append(s, <<w, b>>)) = n + 1 /\ Entry(Append(s, <<w, b>>), n + 1, w, b)
         /\ \A i \in 1..n : \A u, v : Entry(s, i, u, v) => Entry(Append(s, <<w, b>>), i, u, v)
<1> DEFINE e == <<w, b>>
           t == Append(s, e)
<1>1. e[1] = w /\ e[2] = b  OBVIOUS
<1> HIDE DEF e
<1>2. /\ Len(t) = n + 1
      /\ \A i \in 1..n : t[i] = s[i]
      /\ t[n + 1] = e
  OBVIOUS
<1> HIDE DEF t
<1>3. /\ Len(t) = n + 1 /\ Entry(t, n + 1, w, b)
      /\ \A i \in 1..n : \A u, v : Entry(s, i, u, v) => Entry(t, i, u, v)
  BY <1>1, <1>2 DEF Entry
<1> QED  BY <1>3 DEF t, e

LEMMA Entries ==
  /\ Len(Untold) = 0
  /\ Len(Attempted) = 1 /\ Entry(Attempted, 1, "attempt", "drive")
  /\ Len(StartFailed) = 2 /\ Entry(StartFailed, 1, "attempt", "drive") /\ Entry(StartFailed, 2, "start_failure", "drive")
  /\ Len(Driving) = 2 /\ Entry(Driving, 1, "attempt", "drive") /\ Entry(Driving, 2, "start", "drive")
  /\ Len(Driven) = 3 /\ Entry(Driven, 1, "attempt", "drive") /\ Entry(Driven, 2, "start", "drive")
  /\ Entry(Driven, 3, "end", "drive")
  /\ Len(Following) = 4 /\ Entry(Following, 1, "attempt", "drive") /\ Entry(Following, 2, "start", "drive")
  /\ Entry(Following, 3, "end", "drive") /\ Entry(Following, 4, "start", "hazard")
  /\ Len(Followed) = 5 /\ Entry(Followed, 1, "attempt", "drive") /\ Entry(Followed, 2, "start", "drive")
  /\ Entry(Followed, 3, "end", "drive") /\ Entry(Followed, 4, "start", "hazard")
  /\ Entry(Followed, 5, "end", "hazard")
<1>0. Len(Untold) = 0  BY DEF Untold
<1>1. Len(Attempted) = 1 /\ Entry(Attempted, 1, "attempt", "drive")  BY DEF Attempted, Entry
<1>2. /\ Len(StartFailed) = 2 /\ Entry(StartFailed, 2, "start_failure", "drive")
      /\ \A i \in 1..1 : \A u, v : Entry(Attempted, i, u, v) => Entry(StartFailed, i, u, v)
  <2> DEFINE t == Append(Attempted, <<"start_failure", "drive">>)
  <2>1. /\ Len(t) = 1 + 1 /\ Entry(t, 1 + 1, "start_failure", "drive")
        /\ \A i \in 1..1 : \A u, v : Entry(Attempted, i, u, v) => Entry(t, i, u, v)
    <3>1. Attempted \in Seq({"attempt", "start", "end", "start_failure"} \X Labels) /\ Len(Attempted) = 1 /\ 1 \in Nat
      BY <1>1, Stories
    <3> QED  BY ONLY <3>1, Appended
  <2>2. StartFailed = t  BY DEF StartFailed
  <2> HIDE DEF t
  <2> QED  BY <2>1, <2>2
<1>3. /\ Len(Driving) = 2 /\ Entry(Driving, 2, "start", "drive")
      /\ \A i \in 1..1 : \A u, v : Entry(Attempted, i, u, v) => Entry(Driving, i, u, v)
  <2> DEFINE t == Append(Attempted, <<"start", "drive">>)
  <2>1. /\ Len(t) = 1 + 1 /\ Entry(t, 1 + 1, "start", "drive")
        /\ \A i \in 1..1 : \A u, v : Entry(Attempted, i, u, v) => Entry(t, i, u, v)
    <3>1. Attempted \in Seq({"attempt", "start", "end", "start_failure"} \X Labels) /\ Len(Attempted) = 1 /\ 1 \in Nat
      BY <1>1, Stories
    <3> QED  BY ONLY <3>1, Appended
  <2>2. Driving = t  BY DEF Driving
  <2> HIDE DEF t
  <2> QED  BY <2>1, <2>2
<1>4. /\ Len(Driven) = 3 /\ Entry(Driven, 3, "end", "drive")
      /\ \A i \in 1..2 : \A u, v : Entry(Driving, i, u, v) => Entry(Driven, i, u, v)
  <2> DEFINE t == Append(Driving, <<"end", "drive">>)
  <2>1. /\ Len(t) = 2 + 1 /\ Entry(t, 2 + 1, "end", "drive")
        /\ \A i \in 1..2 : \A u, v : Entry(Driving, i, u, v) => Entry(t, i, u, v)
    BY <1>3, Stories, Appended
  <2>2. Driven = t  BY DEF Driven
  <2> HIDE DEF t
  <2> QED  BY <2>1, <2>2
<1>5. /\ Len(Following) = 4 /\ Entry(Following, 4, "start", "hazard")
      /\ \A i \in 1..3 : \A u, v : Entry(Driven, i, u, v) => Entry(Following, i, u, v)
  <2> DEFINE t == Append(Driven, <<"start", "hazard">>)
  <2>1. /\ Len(t) = 3 + 1 /\ Entry(t, 3 + 1, "start", "hazard")
        /\ \A i \in 1..3 : \A u, v : Entry(Driven, i, u, v) => Entry(t, i, u, v)
    BY <1>4, Stories, Appended, ZenonT(40)
  <2>2. Following = t  BY DEF Following
  <2> HIDE DEF t
  <2> QED  BY <2>1, <2>2
<1>6. /\ Len(Followed) = 5 /\ Entry(Followed, 5, "end", "hazard")
      /\ \A i \in 1..4 : \A u, v : Entry(Following, i, u, v) => Entry(Followed, i, u, v)
  <2> DEFINE t == Append(Following, <<"end", "hazard">>)
  <2>1. /\ Len(t) = 4 + 1 /\ Entry(t, 4 + 1, "end", "hazard")
        /\ \A i \in 1..4 : \A u, v : Entry(Following, i, u, v) => Entry(t, i, u, v)
    BY <1>5, Stories, Appended, ZenonT(40)
  <2>2. Followed = t  BY DEF Followed
  <2> HIDE DEF t
  <2> QED  BY <2>1, <2>2
<1>7. Entry(StartFailed, 1, "attempt", "drive") /\ Entry(Driving, 1, "attempt", "drive")
  BY <1>1, <1>2, <1>3
<1>8. Entry(Driven, 1, "attempt", "drive") /\ Entry(Driven, 2, "start", "drive")
  BY <1>3, <1>4, <1>7
<1>9. /\ Entry(Following, 1, "attempt", "drive") /\ Entry(Following, 2, "start", "drive")
      /\ Entry(Following, 3, "end", "drive")
  BY <1>4, <1>5, <1>8
<1>10. /\ Entry(Followed, 1, "attempt", "drive") /\ Entry(Followed, 2, "start", "drive")
       /\ Entry(Followed, 3, "end", "drive") /\ Entry(Followed, 4, "start", "hazard")
  BY <1>5, <1>6, <1>9
<1> QED  BY <1>0, <1>1, <1>2, <1>3, <1>4, <1>5, <1>6, <1>7, <1>8, <1>9, <1>10

\* The places of the starts and ends, and of the failure to start, in each story.
LEMMA Places ==
  /\ \A w, b : At(Untold, w, b) = {}
  /\ \A s \in {Attempted, StartFailed}, b \in Labels : At(s, "start", b) = {} /\ At(s, "end", b) = {}
  /\ At(StartFailed, "start_failure", "drive") = {2}
  /\ \A s \in {Driving, Driven, Following, Followed} : At(s, "start", "drive") = {2} /\ At(s, "start_failure", "drive") = {}
  /\ At(Driving, "end", "drive") = {}
  /\ \A s \in {Driven, Following, Followed} : At(s, "end", "drive") = {3}
  /\ \A s \in {Driving, Driven} : At(s, "start", "hazard") = {} /\ At(s, "end", "hazard") = {}
  /\ At(Following, "start", "hazard") = {4} /\ At(Following, "end", "hazard") = {}
  /\ At(Followed, "start", "hazard") = {4} /\ At(Followed, "end", "hazard") = {5}
<1> USE DEF At, Entry, Labels
<1>1. \A w, b : At(Untold, w, b) = {}  BY Entries
<1>2. \A b \in Labels : At(Attempted, "start", b) = {} /\ At(Attempted, "end", b) = {}  BY Entries
<1>3. \A b \in Labels : At(StartFailed, "start", b) = {} /\ At(StartFailed, "end", b) = {}
  BY Entries
<1>4. At(StartFailed, "start_failure", "drive") = {2}  BY Entries
<1>5. /\ At(Driving, "start", "drive") = {2} /\ At(Driving, "start_failure", "drive") = {}
      /\ At(Driving, "end", "drive") = {} /\ At(Driving, "start", "hazard") = {} /\ At(Driving, "end", "hazard") = {}
  BY Entries
<1>6. /\ At(Driven, "start", "drive") = {2} /\ At(Driven, "start_failure", "drive") = {}
      /\ At(Driven, "end", "drive") = {3} /\ At(Driven, "start", "hazard") = {} /\ At(Driven, "end", "hazard") = {}
  BY Entries
<1>7. /\ At(Following, "start", "drive") = {2} /\ At(Following, "start_failure", "drive") = {}
      /\ At(Following, "end", "drive") = {3} /\ At(Following, "start", "hazard") = {4} /\ At(Following, "end", "hazard") = {}
  BY Entries
<1>8. /\ At(Followed, "start", "drive") = {2} /\ At(Followed, "start_failure", "drive") = {}
      /\ At(Followed, "end", "drive") = {3} /\ At(Followed, "start", "hazard") = {4} /\ At(Followed, "end", "hazard") = {5}
  BY Entries
<1> HIDE DEF At
<1> QED  BY <1>1, <1>2, <1>3, <1>4, <1>5, <1>6, <1>7, <1>8

LEMMA RowsTell == ASSUME LogInv, StageInv, RunInv PROVE StageRowsTell
<1> USE DEF Labels
<1>n. \A w, b : ~Logged => RowsOf(w, b) = {}  BY DEF RowsOf, LogInv
<1>1. CASE log.failed  BY <1>1 DEF StageRowsTell
<1>2. CASE ~log.failed /\ ~Logged  BY <1>2, <1>n, Counted DEF StageRowsTell
<1>3. CASE ~log.failed /\ Logged /\ IsUntold
  <2>1. \A w, b : RowsOf(w, b) = {}  BY <1>3, RowsOfStory, Places DEF IsUntold
  <2> QED  BY <2>1, Counted DEF StageRowsTell
<1>4. CASE ~log.failed /\ Logged /\ IsAttempted /\ pc # "done"
  <2>1. \A b \in Labels : RowsOf("start", b) = {} /\ RowsOf("end", b) = {}
    BY <1>4, RowsOfStory, Places DEF IsAttempted
  <2> QED  BY <1>4, <2>1, Counted DEF StageRowsTell
<1>5. CASE ~log.failed /\ Logged /\ IsStartFailed
  <2>1. \A b \in Labels : RowsOf("start", b) = {} /\ RowsOf("end", b) = {}
    BY <1>5, RowsOfStory, Places DEF IsStartFailed
  <2>2. RowsOf("start_failure", "drive") = {2}  BY <1>5, RowsOfStory, Places DEF IsStartFailed
  <2>3. RowsOf("end", "drive") \cup RowsOf("start_failure", "drive") = {2}  BY <2>1, <2>2
  <2> QED  BY <2>1, <2>3, Counted DEF StageRowsTell
<1>6. CASE ~log.failed /\ Logged /\ IsDriving /\ pc # "done"
  <2>1. /\ RowsOf("start", "drive") = {2} /\ RowsOf("end", "drive") = {}
        /\ RowsOf("start", "hazard") = {} /\ RowsOf("end", "hazard") = {}
    BY <1>6, RowsOfStory, Places DEF IsDriving
  <2>3. /\ Cardinality(RowsOf("start", "drive")) = 1 /\ Cardinality(RowsOf("end", "drive")) = 0
        /\ Cardinality(RowsOf("start", "hazard")) = 0 /\ Cardinality(RowsOf("end", "hazard")) = 0
    BY <2>1, Counted
  <2> QED  BY <1>6, <2>3 DEF StageRowsTell
<1>7. CASE ~log.failed /\ Logged /\ IsDriven
  <2>1. /\ RowsOf("start", "drive") = {2} /\ RowsOf("end", "drive") = {3} /\ RowsOf("start_failure", "drive") = {}
        /\ RowsOf("start", "hazard") = {} /\ RowsOf("end", "hazard") = {}
    BY <1>7, RowsOfStory, Places DEF IsDriven
  <2>2. RowsOf("end", "drive") \cup RowsOf("start_failure", "drive") = {3}  BY <2>1
  <2>3. /\ Cardinality(RowsOf("start", "drive")) = 1 /\ Cardinality(RowsOf("end", "drive")) = 1
        /\ Cardinality(RowsOf("start", "hazard")) = 0 /\ Cardinality(RowsOf("end", "hazard")) = 0
        /\ Cardinality(RowsOf("end", "drive") \cup RowsOf("start_failure", "drive")) = 1
    BY <2>1, <2>2, Counted
  <2> QED  BY <1>7, <2>3 DEF StageRowsTell
<1>8. CASE ~log.failed /\ Logged /\ IsFollowing /\ pc # "done"
  <2>1. /\ RowsOf("start", "drive") = {2} /\ RowsOf("end", "drive") = {3}
        /\ RowsOf("start", "hazard") = {4} /\ RowsOf("end", "hazard") = {}
    BY <1>8, RowsOfStory, Places DEF IsFollowing
  <2>3. /\ Cardinality(RowsOf("start", "drive")) = 1 /\ Cardinality(RowsOf("end", "drive")) = 1
        /\ Cardinality(RowsOf("start", "hazard")) = 1 /\ Cardinality(RowsOf("end", "hazard")) = 0
    BY <2>1, Counted
  <2> QED  BY <1>8, <2>3 DEF StageRowsTell
<1>9. CASE ~log.failed /\ Logged /\ IsFollowed
  <2>1. /\ RowsOf("start", "drive") = {2} /\ RowsOf("end", "drive") = {3} /\ RowsOf("start_failure", "drive") = {}
        /\ RowsOf("start", "hazard") = {4} /\ RowsOf("end", "hazard") = {5}
    BY <1>9, RowsOfStory, Places DEF IsFollowed
  <2>2. RowsOf("end", "drive") \cup RowsOf("start_failure", "drive") = {3}  BY <2>1
  <2>3. /\ Cardinality(RowsOf("start", "drive")) = 1 /\ Cardinality(RowsOf("end", "drive")) = 1
        /\ Cardinality(RowsOf("start", "hazard")) = 1 /\ Cardinality(RowsOf("end", "hazard")) = 1
        /\ Cardinality(RowsOf("end", "drive") \cup RowsOf("start_failure", "drive")) = 1
    BY <2>1, <2>2, Counted
  <2> QED  BY <1>9, <2>3 DEF StageRowsTell
<1>10. CASE ~log.failed /\ Logged
  <2>1. pc = "done" => IsUntold \/ IsDriven \/ IsFollowed \/ IsStartFailed
    BY <1>10 DEF StageInv, Last
  <2>2. \/ IsUntold \/ IsAttempted \/ IsDriving \/ IsDriven \/ IsFollowing \/ IsFollowed \/ IsStartFailed
    BY <1>10 DEF StageInv, RunInv, Everywhere
  <2> QED  BY <1>3, <1>4, <1>5, <1>6, <1>7, <1>8, <1>9, <1>10, <2>1, <2>2
<1> QED  BY <1>1, <1>2, <1>10

\* What the research log tells of a drive's stages is what happened, as long as its rows could be
\* written: no stage starts or ends twice, none ends that has not started, and every attempt comes
\* to an end or to a failure to start (run_with_persistence and the continuation's segments).
THEOREM StagesAreTold == Spec => []StageRowsTell
<1>1. Init => OwnInv /\ LogInv /\ RunInv /\ ErrInv /\ StageInv
  BY OwnStarts, LogStarts, RunStartsSound, ErrStarts, StageStarts
<1>2. LogInv /\ RunInv /\ ErrInv /\ StageInv /\ [Next]_vars => (LogInv /\ RunInv /\ ErrInv /\ StageInv)'
  <2>1. RunInv => RunShape  BY DEF RunInv
  <2> QED  BY <2>1, LogKeeps, RunKeeps, ErrKeeps, StageKeeps
<1>3. LogInv /\ RunInv /\ StageInv => StageRowsTell  BY RowsTell
<1> QED  BY <1>1, <1>2, <1>3, PTL DEF Spec

\* The drive is accounted for, for every set of configurations the research runtime accepts, every
\* chain of failures and any number of frames.
THEOREM DriveStaysAccounted == Spec => []DriveIsAccounted
<1>1. AllReleased /\ StageRowsTell /\ NothingIsRefused /\ HonestEnd => DriveIsAccounted
  BY DEF DriveIsAccounted
<1> QED  BY <1>1, EverythingIsReleased, StagesAreTold, TheClockAcceptsAll, EndsAreHonest, PTL

(* The vehicle. *)
LEMMA ConditionIs ==
  /\ own.hero = Nobody => Condition = "absent"
  /\ own.hero \in {"closed", "failed"} => Condition = "gone"
  /\ own.hero = "open" => Condition = IF car.last = "drive" THEN "driven"
                                      ELSE IF car.last = "brake" THEN "braked" ELSE "held"
  BY DEF Condition, Nobody

HeroStill == own'.hero = own.hero /\ car'.last = car.last
Commanded == own.hero = "open" /\ own'.hero = "open" /\ car'.last \in {"drive", "brake"}

LEMMA OpeningHero ==
  ASSUME OwnInv,
         \/ OpenLog \/ MakeP6 \/ Preflight \/ SpawnHero \/ RecordSetting \/ OpenProbe
         \/ BuildBundle \/ CreateViewer \/ AttachViewer \/ WireSession
         \/ AbandonProbe \/ AbandonViewer \/ AbandonHero \/ CloseHero
  PROVE  \/ HeroStill
         \/ own.hero = Nobody /\ own'.hero = "open" /\ car.last = Nobody /\ car'.last = Nobody
         \/ own.hero = "open" /\ own'.hero \in {"closed", "failed"} /\ car.last # "drive"
<1> USE DEF HeroStill, Body, Skip
<1>o. DOMAIN own = {"hero", "viewer", "probe", "p6", "csv", "wheel"}  BY DEF OwnInv
<1>1. CASE OpenLog \/ MakeP6 \/ Preflight \/ RecordSetting \/ OpenProbe
  BY <1>1, <1>o DEF OpenLog, MakeP6, Preflight, RecordSetting, OpenProbe
<1>2. CASE BuildBundle \/ CreateViewer \/ AttachViewer \/ WireSession
  BY <1>2, <1>o DEF BuildBundle, CreateViewer, AttachViewer, WireSession
<1>3. CASE SpawnHero
  <2>1. own.hero = Nobody /\ car.last = Nobody /\ car' = car
    BY <1>3 DEF SpawnHero, OwnInv, HeroInv, Unspawned
  <2>2. own'.hero \in {"open", own.hero}  BY <1>3, <1>o DEF SpawnHero
  <2> QED  BY <2>1, <2>2
<1>4. CASE AbandonProbe \/ AbandonViewer  BY <1>4, <1>o DEF AbandonProbe, AbandonViewer, Release
<1>5. CASE AbandonHero \/ CloseHero
  <2>1. car.last # "drive" /\ own.hero = "open"
    BY <1>5 DEF AbandonHero, CloseHero, Release, OwnInv, HeroInv, Abandoning, Closing, Preparing, Looping, Stopping
  <2>2. car' = car /\ (own' = own \/ own'.hero \in {"closed", "failed"})
    BY <1>5, <1>o DEF AbandonHero, CloseHero, Release
  <2> QED  BY <2>1, <2>2
<1> QED  BY <1>1, <1>2, <1>3, <1>4, <1>5

LEMMA StartingHero ==
  ASSUME OwnInv,
         \/ StartAttempt \/ RecordAuthority \/ ObserveInitialSpeed \/ RecordNoControl
         \/ ReadGear \/ Halt \/ Engage \/ Confirm
         \/ PrepareInput \/ Initialize \/ StartP6 \/ StartStage \/ BindScene
  PROVE  HeroStill \/ Commanded
<1> USE DEF HeroStill, Commanded, Skip
<1>o. /\ DOMAIN own = {"hero", "viewer", "probe", "p6", "csv", "wheel"}
      /\ {"mode", "last"} \subseteq DOMAIN car
      /\ pc \in Priming \cup Preparing => own.hero = "open"
  BY DEF OwnInv, HeroInv
<1>1. CASE StartAttempt \/ RecordAuthority \/ ObserveInitialSpeed \/ ReadGear
  BY <1>1 DEF StartAttempt, RecordAuthority, ObserveInitialSpeed, ReadGear
<1>2. CASE RecordNoControl  BY <1>2 DEF RecordNoControl, ViolationRecord
<1>3. CASE Halt \/ Engage \/ Confirm  BY <1>3, <1>o DEF Halt, Engage, Confirm, Hold, Priming
<1>4. CASE PrepareInput
  <2>1. /\ pc = "input"
        /\ \/ own' = own /\ car' = car
           \/ own'.hero = own.hero /\ car' = [car EXCEPT !.last = "brake"]
    BY <1>4, <1>o DEF PrepareInput
  <2> QED  BY <1>o, <2>1 DEF Priming
<1>5. CASE Initialize  BY <1>5, <1>o DEF Initialize, Engaged, Preparing
<1>6. CASE StartP6  BY <1>6, <1>o DEF StartP6
<1>7. CASE StartStage \/ BindScene  BY <1>7 DEF StartStage, BindScene
<1> QED  BY <1>1, <1>2, <1>3, <1>4, <1>5, <1>6, <1>7

LEMMA DrivingHero ==
  ASSUME OwnInv,
         \/ Collect \/ Control \/ After \/ LeaveLoop
         \/ Boundary \/ EndDrive \/ MakeFollow \/ BeginFollow \/ EndFollow \/ AbandonFollow
         \/ StopAtContact \/ CloseContact \/ ReleaseContact \/ HoldContact
         \/ LeaveView \/ Measure \/ FinalSpeed \/ BeforeShutdown \/ FinalizeScene
  PROVE  HeroStill \/ Commanded
<1> USE DEF HeroStill, Commanded
<1>o. /\ DOMAIN own = {"hero", "viewer", "probe", "p6", "csv", "wheel"}
      /\ {"mode", "last"} \subseteq DOMAIN car
      /\ pc \in Looping => own.hero = "open"
  BY DEF OwnInv, HeroInv
<1>1. CASE Collect  BY <1>1, <1>o, CollectMoves DEF Looping, Engaged
<1>2. CASE Control  BY <1>2, <1>o DEF Control, Looping
<1>3. CASE After \/ LeaveLoop \/ Boundary \/ EndDrive \/ MakeFollow
  BY <1>3 DEF After, LeaveLoop, Boundary, EndDrive, MakeFollow
<1>4. CASE BeginFollow \/ EndFollow \/ AbandonFollow \/ StopAtContact \/ CloseContact
  BY <1>4 DEF BeginFollow, EndFollow, AbandonFollow, StopAtContact, CloseContact
<1>5. CASE ReleaseContact \/ HoldContact  BY <1>5, <1>o DEF ReleaseContact, HoldContact, Looping
<1>6. CASE LeaveView  BY <1>6, <1>o DEF LeaveView
<1>7. CASE Measure \/ FinalSpeed \/ BeforeShutdown \/ FinalizeScene
  BY <1>7 DEF Measure, FinalSpeed, BeforeShutdown, FinalizeScene
<1> QED  BY <1>1, <1>2, <1>3, <1>4, <1>5, <1>6, <1>7

LEMMA ClosingHero ==
  ASSUME OwnInv,
         \/ Shutdown \/ FinishObservation \/ FlushDrive \/ RecordShutdown
         \/ FinishExit \/ StopP6 \/ Summarize \/ FlushSummary \/ RecordViolation
         \/ Rethrow \/ Report \/ EndStage \/ DryRun
         \/ CloseControl \/ CloseProbe \/ CloseP6 \/ CloseViewer
         \/ LastP6 \/ CloseLog
  PROVE  HeroStill \/ Commanded
<1> USE DEF HeroStill, Commanded, Skip
<1>o. /\ DOMAIN own = {"hero", "viewer", "probe", "p6", "csv", "wheel"}
      /\ {"mode", "last"} \subseteq DOMAIN car
      /\ pc \in Stopping \cup Closing => own.hero = "open"
  BY DEF OwnInv, HeroInv
<1>1. CASE Shutdown
  <2>1. pc = "shutdown" /\ own' = own  BY <1>1 DEF Shutdown
  <2>2. \E m : car' = [mode |-> m, last |-> "brake"]  BY <1>1, Zenon DEF Shutdown, Deactivate
  <2> QED  BY <1>o, <2>1, <2>2 DEF Stopping
<1>2. CASE FinishObservation \/ FlushDrive \/ RecordShutdown \/ FinishExit
  BY <1>2 DEF FinishObservation, FlushDrive, RecordShutdown, FinishExit
<1>3. CASE StopP6  BY <1>3, <1>o DEF StopP6
<1>4. CASE Summarize \/ FlushSummary  BY <1>4 DEF Summarize, FlushSummary
<1>5. CASE RecordViolation  BY <1>5 DEF RecordViolation, ViolationRecord
<1>6. CASE Rethrow \/ Report \/ DryRun  BY <1>6 DEF Rethrow, Report, DryRun
<1>7. CASE EndStage  BY <1>7 DEF EndStage
<1>8. CASE CloseControl  BY <1>8, <1>o DEF CloseControl, Deactivate, Closing
<1>9. CASE CloseProbe \/ CloseLog  BY <1>9, <1>o DEF CloseProbe, CloseLog, Release
<1>10. CASE CloseP6 \/ LastP6  BY <1>10, <1>o DEF CloseP6, LastP6, CloseP6Runtime
<1>11. CASE CloseViewer  BY <1>11, <1>o DEF CloseViewer
<1> QED  BY <1>1, <1>2, <1>3, <1>4, <1>5, <1>6, <1>7, <1>8, <1>9, <1>10, <1>11

LEMMA VehicleSteps ==
  ASSUME OwnInv, OwnInv', [Next]_vars
  PROVE  [Vehicle!Next]_Condition
<1> USE DEF Vehicle!Next, Vehicle!Spawn, Vehicle!Drive, Vehicle!Brake, Vehicle!Destroy
<1>1. /\ own.hero \in Conditions /\ own'.hero \in Conditions
      /\ car.last \in {Nobody, "drive", "brake"} /\ car'.last \in {Nobody, "drive", "brake"}
  BY DEF OwnInv, HeroInv
<1>n. /\ own'.hero = Nobody => Condition' = "absent"
      /\ own'.hero \in {"closed", "failed"} => Condition' = "gone"
      /\ own'.hero = "open" => Condition' = IF car'.last = "drive" THEN "driven"
                                            ELSE IF car'.last = "brake" THEN "braked" ELSE "held"
  BY DEF Condition, Nobody
<1>2. CASE HeroStill
  <2>1. Condition' = Condition  BY <1>2 DEF HeroStill, Condition
  <2> QED  BY <2>1
<1>3. CASE Commanded
  <2>1. Condition \in {"driven", "braked", "held"} /\ Condition' \in {"driven", "braked"}
    BY <1>3, <1>n, ConditionIs DEF Commanded, Nobody
  <2> QED  BY <2>1 DEF Condition
<1>4. CASE own.hero = Nobody /\ own'.hero = "open" /\ car.last = Nobody /\ car'.last = Nobody
  <2>1. Condition = "absent" /\ Condition' = "held"  BY <1>4, <1>n, ConditionIs DEF Nobody
  <2> QED  BY <2>1 DEF Condition
<1>5. CASE own.hero = "open" /\ own'.hero \in {"closed", "failed"} /\ car.last # "drive"
  <2>1. Condition \in {"braked", "held"} /\ Condition' = "gone"
    BY <1>5, <1>n, ConditionIs DEF Nobody
  <2> QED  BY <2>1 DEF Condition
<1>6. CASE UNCHANGED vars \/ Finished  BY <1>2, <1>6 DEF vars, Finished, HeroStill
<1> QED
  BY <1>2, <1>3, <1>4, <1>5, <1>6, OpeningHero, StartingHero, DrivingHero, ClosingHero DEF Next

\* The drive gives its vehicle up as it promises: the vehicle is driven only while it is owned, and
\* its last command before it is destroyed is never to drive (the finally blocks of _run and of
\* close).  That it is given up in the end is model-checked, with the whole of VehicleSpec.
THEOREM VehicleIsNeverLeftDriving == Spec => Vehicle!Safety
<1>1. Init => Vehicle!Init  BY DEF Init, Vehicle!Init, Condition, Nobody
<1>2. OwnInv /\ OwnInv' /\ [Next]_vars => [Vehicle!Next]_Condition  BY VehicleSteps
<1>3. Init => OwnInv  BY OwnStarts
<1>4. OwnInv /\ [Next]_vars => OwnInv'  BY OwnKeeps
<1> QED  BY <1>1, <1>2, <1>3, <1>4, PTL DEF Spec, Vehicle!Safety, Condition
=============================================================================
