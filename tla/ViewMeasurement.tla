-------------------------- MODULE ViewMeasurement --------------------------
(***************************************************************************)
(* The driver's view and what it measures about itself.  Camera callbacks  *)
(* run on the simulator's threads: each reads the clock, changes its feed   *)
(* under the feed's lock and reports to the camera diagnostics under        *)
(* theirs.  The loop draws the feeds, flips the display and hands the       *)
(* scene the front frame it showed; two sets of diagnostics count its       *)
(* iterations, and a collision or the boundary of a module freezes both.    *)
(*                                                                         *)
(* A camera stands for a sensor actor, an image for its frame number and   *)
(* receipt; every reading of the clock is later than the one before.       *)
(***************************************************************************)
EXTENDS Naturals, FiniteSets

CONSTANTS
    MaxImages,      \* bound: images the cameras send
    MaxCameras,     \* bound: cameras spawned, the replaced ones included
    MaxIterations,  \* bound: iterations of the loop
    MaxLoopRaises   \* bound: iterations that raise

VARIABLES
    reading,    \* the latest reading of the host's clock
    feeds,      \* per role: its camera, latest image and callbacks
    callbacks,  \* per camera: how far its callback has come
    listening,  \* the cameras that send images
    times,      \* ResearchCameraDiagnostics
    loops,      \* ResearchNoADiagnostics, as far as it counts iterations
    view,       \* DriverView.run
    receipts    \* every receipt the callbacks read

viewVars == <<reading, feeds, callbacks, listening, times, loops, view, receipts>>

Roles == {"front", "left"}
Cameras == 1..MaxCameras
RoleOf(camera) == IF camera = 2 THEN "left" ELSE "front"

NoImage == [frame |-> 0, receipt |-> 0]
Quiet == [at |-> "idle", image |-> NoImage]

\* The spans of the iteration in progress, by the iteration they were measured in.
NoLoop == [open |-> FALSE, of |-> {}]

ViewInit ==
    /\ reading = 0
    /\ feeds = [r \in Roles |->
                  [camera |-> IF r = "front" THEN 1 ELSE 2, image |-> NoImage, count |-> 0]]
    /\ callbacks = [c \in Cameras |-> Quiet]
    /\ listening = {1, 2}
    /\ times = [start |-> 0, end |-> 0, status |-> "NOT_STARTED", frozen |-> FALSE,
                lock |-> FALSE, counts |-> [r \in Roles |-> 0], pending |-> NoLoop,
                loops |-> 0, slowest |-> [length |-> 0, of |-> {}],
                updated |-> [r \in Roles |-> 0], drawn |-> [r \in Roles |-> NoImage],
                kept |-> {}]
    /\ loops = [frozen |-> FALSE, started |-> FALSE, count |-> 0]
    /\ view \in [stage : {"attached"}, way : {"scene", "continuation"}, iteration : {0},
                 raises : {0}, capture : {FALSE}, snapshot : {NoImage},
                 remembered : {NoImage}, canvas : {NoImage}, shown : {NoImage}]
    /\ receipts = {}

(***************************************************************************)
(* A camera's callback.                                                    *)
(***************************************************************************)

\* The callback starts: it reads the clock before it waits for any lock.
Receive(camera) ==
    /\ camera \in listening /\ callbacks[camera] = Quiet
    /\ Cardinality(receipts) < MaxImages
    /\ reading' = reading + 1
    /\ LET image == [frame |-> Cardinality(receipts) + 1, receipt |-> reading'] IN
         /\ callbacks' = [callbacks EXCEPT ![camera] = [at |-> "received", image |-> image]]
         /\ receipts' = receipts \cup {[role |-> RoleOf(camera), receipt |-> image.receipt]}
    /\ UNCHANGED <<feeds, listening, times, loops, view>>

\* Under the feed's lock: the image, its frame and its receipt change together.
Update(camera) ==
    /\ callbacks[camera].at = "received"
    /\ feeds' = [feeds EXCEPT ![RoleOf(camera)].image = callbacks[camera].image,
                              ![RoleOf(camera)].count = @ + 1]
    /\ callbacks' = [callbacks EXCEPT ![camera].at = "updated"]
    /\ UNCHANGED <<reading, listening, times, loops, view, receipts>>

\* A callback belongs to the window its image was received in.
InWindow(receipt) ==
    /\ times.start # 0 /\ times.start <= receipt
    /\ times.end = 0 \/ receipt < times.end

\* Under the diagnostics' lock: the window judges the receipt, not this moment.
ReportCallback(camera) ==
    /\ callbacks[camera].at = "updated" /\ ~times.lock
    /\ times' = IF InWindow(callbacks[camera].image.receipt)
                THEN [times EXCEPT !.counts[RoleOf(camera)] = @ + 1] ELSE times
    /\ callbacks' = [callbacks EXCEPT ![camera] = Quiet]
    /\ UNCHANGED <<reading, feeds, listening, loops, view, receipts>>

(***************************************************************************)
(* The diagnostics' own operations.                                        *)
(***************************************************************************)

\* record_duration: a span of the iteration in progress, if one is followed.
Spanned(t) ==
    IF t.pending.open /\ ~t.frozen
    THEN [t EXCEPT !.pending.of = @ \cup {view.iteration}] ELSE t

\* begin_driver_loop of the cameras' diagnostics: the spans start anew.
Followed(t) ==
    IF ~t.frozen /\ t.start # 0 /\ t.end = 0
    THEN [t EXCEPT !.pending = [open |-> TRUE, of |-> {}]] ELSE t

\* record_duration("driver_loop"): the iteration is over and the slowest one is kept.
LoopRecorded(t, length) ==
    IF t.frozen \/ ~t.pending.open THEN t
    ELSE [t EXCEPT !.loops = @ + 1, !.pending = NoLoop,
                   !.slowest = IF length > @.length
                               THEN [length |-> length, of |-> t.pending.of] ELSE @]

LoopBegun(l) == IF l.frozen THEN l ELSE [l EXCEPT !.started = TRUE]
LoopCompleted(l) ==
    IF l.frozen \/ ~l.started THEN l ELSE [l EXCEPT !.started = FALSE, !.count = @ + 1]

\* record_camera_preparation: an image drawn again is not an updated one.
Prepared(t, role, image) ==
    IF t.frozen \/ image \in {NoImage, t.drawn[role]} THEN t
    ELSE [t EXCEPT !.updated[role] = @ + 1, !.drawn[role] = image]

(***************************************************************************)
(* The loop.                                                               *)
(***************************************************************************)

\* run: the window begins, and what an earlier one counted is dropped.
Run ==
    /\ view.stage = "attached"
    /\ reading' = reading + 1
    /\ times' = [times EXCEPT !.start = reading', !.end = 0, !.status = "PARTIAL",
                              !.counts = [r \in Roles |-> 0], !.pending = NoLoop,
                              !.loops = 0, !.slowest = [length |-> 0, of |-> {}]]
    /\ view' = [view EXCEPT !.stage = "top", !.capture = view.way = "scene"]
    /\ UNCHANGED <<feeds, callbacks, listening, loops, receipts>>

\* create_continuation at the end of the module: the loop's count is frozen first.
EndModule ==
    /\ view.stage = "top" /\ view.way = "continuation" /\ ~view.capture
    /\ loops' = [loops EXCEPT !.frozen = TRUE]
    /\ view' = [view EXCEPT !.stage = "freeze"]
    /\ UNCHANGED <<reading, feeds, callbacks, listening, times, receipts>>

Begin ==
    /\ view.stage = "top" /\ view.iteration < MaxIterations
    /\ times' = Followed(times)
    /\ loops' = LoopBegun(loops)
    /\ view' = [view EXCEPT !.stage = "events", !.iteration = @ + 1]
    /\ UNCHANGED <<reading, feeds, callbacks, listening, receipts>>

\* The events of the frame, the control and the scene before the display.
Handle ==
    /\ view.stage = "events"
    /\ times' = Spanned(times)
    /\ view' = [view EXCEPT !.stage = "control"]
    /\ UNCHANGED <<reading, feeds, callbacks, listening, loops, receipts>>

Replacement == IF feeds["front"].camera = 1 THEN 3 ELSE feeds["front"].camera + 1

\* V: the front camera is stopped and destroyed and another is spawned for the same
\* feed, which keeps its image; the old one's last callback may still be under way.
ChangeView ==
    /\ view.stage = "events" /\ feeds["front"].camera \in listening
    /\ Replacement \in Cameras
    /\ feeds' = [feeds EXCEPT !["front"].camera = Replacement]
    /\ listening' = (listening \ {feeds["front"].camera}) \cup {Replacement}
    /\ times' = Spanned(times)
    /\ view' = [view EXCEPT !.stage = "control"]
    /\ UNCHANGED <<reading, callbacks, loops, receipts>>

\* Mutant: the picture is drawn from one snapshot and recorded from another.
LookAgain ==
    /\ view.stage = "blit"
    /\ times' = Spanned(times)
    /\ view' = [view EXCEPT !.stage = "mirror",
         !.canvas = IF view.snapshot = NoImage THEN @ ELSE view.snapshot,
         !.remembered = IF view.capture /\ feeds["front"].image # NoImage
                        THEN feeds["front"].image ELSE @]
    /\ UNCHANGED <<reading, feeds, callbacks, listening, loops, receipts>>

\* _blit_image of the front feed: one snapshot, taken under the feed's lock, serves the
\* picture and its record; what the last frame showed is forgotten before it ...
Snapshot ==
    /\ view.stage = "control"
    /\ times' = Prepared(Spanned(times), "front", feeds["front"].image)
    /\ view' = [view EXCEPT !.stage = "blit", !.snapshot = feeds["front"].image,
                            !.remembered = IF view.capture THEN NoImage ELSE @]
    /\ UNCHANGED <<reading, feeds, callbacks, listening, loops, receipts>>

\* ... and _remember_hazard_front keeps the frame and the receipt of the image drawn.
RememberedFront(role, image) ==
    IF view.capture /\ role = "front" /\ image # NoImage THEN image ELSE view.remembered

Blit ==
    /\ view.stage = "blit"
    /\ times' = Spanned(times)
    /\ view' = [view EXCEPT !.stage = "mirror",
         !.canvas = IF view.snapshot = NoImage THEN @ ELSE view.snapshot,
         !.remembered = RememberedFront("front", view.snapshot)]
    /\ UNCHANGED <<reading, feeds, callbacks, listening, loops, receipts>>

\* The mirror is drawn by the same two steps, of which the scene is handed nothing.
Mirror ==
    /\ view.stage = "mirror"
    /\ times' = Prepared(Spanned(times), "left", feeds["left"].image)
    /\ view' = [view EXCEPT !.stage = "flip",
                            !.remembered = RememberedFront("left", feeds["left"].image)]
    /\ UNCHANGED <<reading, feeds, callbacks, listening, loops, receipts>>

\* The flip completes and the scene is handed the frame that was remembered.
Flip ==
    /\ view.stage = "flip"
    /\ times' = Spanned(times)
    /\ view' = [view EXCEPT !.stage = "tick", !.shown = IF view.capture THEN view.remembered ELSE @]
    /\ UNCHANGED <<reading, feeds, callbacks, listening, loops, receipts>>

\* The iteration is complete: both diagnostics count it.
Complete(length) ==
    /\ view.stage = "tick"
    /\ times' = LoopRecorded(Spanned(times), length)
    /\ loops' = LoopCompleted(loops)
    /\ view' = [view EXCEPT !.stage = "top"]
    /\ UNCHANGED <<reading, feeds, callbacks, listening, receipts>>

\* A contact: the iteration is counted and the wait freezes the view's times first.
Contact ==
    /\ view.stage = "control" /\ view.way = "scene"
    /\ times' = LoopRecorded(Spanned(times), 1)
    /\ loops' = LoopCompleted(loops)
    /\ view' = [view EXCEPT !.stage = "freeze"]
    /\ UNCHANGED <<reading, feeds, callbacks, listening, receipts>>

\* Anything in the frame may raise.  The operator's guard takes the error and the loop
\* begins its next iteration; without one the error leaves the loop.
Raises(spawning) ==
    /\ view.stage \in {"events", "control", "blit", "mirror", "flip", "tick"}
    /\ view.raises < MaxLoopRaises
    /\ spawning => view.stage = "events" /\ feeds["front"].camera \in listening
    /\ listening' = IF spawning THEN listening \ {feeds["front"].camera} ELSE listening
    /\ times' = Spanned(times)
    /\ view' = [view EXCEPT !.raises = @ + 1,
                            !.stage = IF view.way = "scene" THEN "top" ELSE "failed"]
    /\ UNCHANGED <<reading, feeds, callbacks, loops, receipts>>

\* The driver or the operator ends the drive, or its time is over.
Break ==
    /\ view.stage \in {"top", "events"}
    /\ view' = [view EXCEPT !.stage = "leave"]
    /\ UNCHANGED <<reading, feeds, callbacks, listening, times, loops, receipts>>

\* freeze_measurement_window takes the diagnostics' lock and ends the window; ...
Freeze ==
    /\ view.stage = "freeze"
    /\ reading' = reading + 1
    /\ times' = [times EXCEPT !.lock = TRUE, !.end = reading', !.status = "COMPLETE"]
    /\ view' = [view EXCEPT !.stage = "frozen"]
    /\ UNCHANGED <<feeds, callbacks, listening, loops, receipts>>

\* ... it copies the feeds one after the other, whose callbacks go on; ...
KeepFeed(role) ==
    /\ view.stage = "frozen" /\ \A k \in times.kept : k.role # role
    /\ times' = [times EXCEPT !.kept = @ \cup {[role |-> role, count |-> feeds[role].count]}]
    /\ UNCHANGED <<reading, feeds, callbacks, listening, loops, view, receipts>>

\* ... and nothing is measured any more.  A continuation shows its frames to the
\* hazard from here on; after a contact the loop's own count is frozen as well.
Frozen ==
    /\ view.stage = "frozen" /\ Cardinality(times.kept) = Cardinality(Roles)
    /\ times' = [times EXCEPT !.lock = FALSE, !.frozen = TRUE, !.pending = NoLoop]
    /\ loops' = [loops EXCEPT !.frozen = TRUE]
    /\ view' = [view EXCEPT !.stage = IF view.way = "scene" THEN "leave" ELSE "top",
                            !.capture = TRUE]
    /\ UNCHANGED <<reading, feeds, callbacks, listening, receipts>>

\* run's finally: the window ends unless it is frozen, an unfinished iteration is dropped.
Leave ==
    /\ view.stage \in {"leave", "failed"}
    /\ reading' = reading + 1
    /\ times' = IF times.frozen THEN times
                ELSE [times EXCEPT !.end = reading', !.pending = NoLoop,
                        !.status = IF view.stage = "failed" THEN "PARTIAL" ELSE "COMPLETE"]
    /\ loops' = [loops EXCEPT !.started = FALSE]
    /\ view' = [view EXCEPT !.stage = "ended", !.capture = FALSE, !.remembered = NoImage]
    /\ UNCHANGED <<feeds, callbacks, listening, receipts>>

ViewNext ==
    \/ \E c \in Cameras : Receive(c) \/ Update(c) \/ ReportCallback(c)
    \/ Run \/ EndModule \/ Begin \/ Handle \/ ChangeView \/ Snapshot \/ Blit \/ Mirror
    \/ \E r \in Roles : KeepFeed(r)
    \/ Flip \/ \E length \in {1, 2} : Complete(length)
    \/ Contact \/ \E spawning \in BOOLEAN : Raises(spawning)
    \/ Break \/ Freeze \/ Frozen \/ Leave

ViewSpec == ViewInit /\ [][ViewNext]_viewVars

(***************************************************************************)
(* What the view promises.                                                 *)
(***************************************************************************)

\* The frame handed to the scene after a flip is the front image on the display, with
\* its own frame number and receipt, however many images arrived while it was drawn.
ShownIsDrawn ==
    view.stage = "tick" /\ view.capture => view.shown = view.canvas

\* Once the callbacks under way have reported, the window has counted exactly the
\* images received between its beginning and its end, by role.
WindowCountsReceipts ==
    times.start # 0 /\ (\A c \in Cameras : callbacks[c] = Quiet) =>
      \A r \in Roles :
        times.counts[r] = Cardinality({e \in receipts : e.role = r /\ InWindow(e.receipt)})

\* Between two iterations both diagnostics have counted the same ones, also around
\* iterations that raised and a freeze, and the slowest is told by its own spans.
LoopsAreCounted ==
    /\ view.stage \in {"top", "ended"} => times.loops = loops.count
    /\ Cardinality(times.slowest.of) <= 1

ViewReportsTruly == ShownIsDrawn /\ WindowCountsReceipts /\ LoopsAreCounted

(***************************************************************************)
(* The inductive invariant behind it (PartsProofs).                        *)
(***************************************************************************)
Images == [frame : Nat, receipt : Nat]
Iterating == {"events", "control", "blit", "mirror", "flip", "tick"}

Measurements ==
    [start : Nat, end : Nat, status : {"NOT_STARTED", "PARTIAL", "COMPLETE"},
     frozen : BOOLEAN, lock : BOOLEAN, counts : [Roles -> Nat],
     pending : [open : BOOLEAN, of : SUBSET Nat], loops : Nat,
     slowest : [length : Nat, of : SUBSET Nat], updated : [Roles -> Nat],
     drawn : [Roles -> Images], kept : SUBSET [role : Roles, count : Nat]]

Counters == [frozen : BOOLEAN, started : BOOLEAN, count : Nat]

Views ==
    [stage : Iterating \cup {"attached", "top", "freeze", "frozen", "leave", "failed", "ended"},
     way : {"scene", "continuation"}, iteration : Nat, raises : Nat, capture : BOOLEAN,
     snapshot : Images, remembered : Images, canvas : Images, shown : Images]

MeasuredInv ==
    /\ reading \in Nat
    /\ feeds \in [Roles -> [camera : Nat, image : Images, count : Nat]]
    /\ callbacks \in [Cameras -> [at : {"idle", "received", "updated"}, image : Images]]
    /\ times \in Measurements
    /\ loops \in Counters
    /\ view \in Views

\* A receipt is known by its reading of the clock, also while its callback is under way.
ReceiptsInv ==
    /\ IsFiniteSet(receipts) /\ receipts \subseteq [role : Roles, receipt : Nat]
    /\ \A e \in receipts : 0 < e.receipt /\ e.receipt <= reading
    /\ \A e, f \in receipts : e.receipt = f.receipt => e = f
    /\ \A c \in Cameras :
         callbacks[c] # Quiet =>
            /\ callbacks[c].at \in {"received", "updated"}
            /\ [role |-> RoleOf(c), receipt |-> callbacks[c].image.receipt] \in receipts
    /\ \A c, d \in Cameras :
         callbacks[c] # Quiet /\ callbacks[d] # Quiet
            /\ callbacks[c].image.receipt = callbacks[d].image.receipt => c = d

Outstanding ==
    {callbacks[c].image.receipt : c \in {d \in Cameras : callbacks[d] # Quiet}}
Reported(r) ==
    {e \in receipts : e.role = r /\ InWindow(e.receipt) /\ e.receipt \notin Outstanding}

\* The window has counted what was received in it but for the callbacks under way.
CountsInv ==
    times.start # 0 => \A r \in Roles : times.counts[r] = Cardinality(Reported(r))

\* The window ends once, and nothing freezes before it has.
WindowInv ==
    /\ view.stage = "attached" => times.start = 0 /\ times.end = 0 /\ ~times.frozen
    /\ view.stage # "attached" => times.start # 0
    /\ ~times.frozen /\ view.stage \notin {"frozen", "ended"} => times.end = 0
    /\ times.frozen =>
          \/ view.stage \in {"leave", "failed", "ended"}
          \/ view.way = "continuation" /\ view.capture
             /\ view.stage \notin {"freeze", "frozen"}

\* Both diagnostics follow the same iterations, and spans belong to the latest one.
IterationsInv ==
    /\ times.loops = loops.count
    /\ view.stage = "attached" => loops.count = 0 /\ ~loops.frozen
    /\ view.stage \in Iterating \cup {"top"} => loops.frozen = times.frozen
    /\ view.stage \in Iterating /\ ~times.frozen => times.pending.open /\ loops.started
    /\ times.frozen => times.pending = NoLoop
    /\ times.pending.of \subseteq {view.iteration}
    /\ \E i \in Nat : times.slowest.of \subseteq {i}

\* What is remembered of the front frame follows the picture through the iteration.
ShownInv ==
    /\ view.canvas # NoImage => feeds["front"].image # NoImage
    /\ view.stage = "blit" =>
          /\ view.snapshot = NoImage => view.canvas = NoImage
          /\ view.snapshot # NoImage => feeds["front"].image # NoImage
          /\ view.capture => view.remembered = NoImage
    /\ view.stage \in {"mirror", "flip"} /\ view.capture => view.remembered = view.canvas
    /\ ShownIsDrawn

ViewInv == MeasuredInv /\ ReceiptsInv /\ CountsInv /\ WindowInv /\ IterationsInv /\ ShownInv
=============================================================================
