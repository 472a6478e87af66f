---- MODULE GazeCapture ----
(* The gaze of one stage beside its driving: the renderer publishes its window and    *)
(* suspends it before SDL replaces it, a receiver thread maps each sample of the      *)
(* tracker's process through the window of its callback, a gaze thread owns the files *)
(* until the receiver has stopped, and closing waits a moment and then drives on.     *)
EXTENDS Integers, Sequences, FiniteSets

CONSTANTS Ticks,    \* bound: events that the host clock numbers
          Samples,  \* bound: samples that the tracker's process sends
          Toggles,  \* bound: changes between window and fullscreen
          Faults,   \* bound: calls that fail
          MaxGap,   \* GazeDuration.max_gap_ns, in ticks
          NoStart, NoTime

Duration == INSTANCE GazeDuration

Looks == {"FORWARD", "TABLET"}

\* What a row of gaze.jsonl is classified as, and the durations that count it.
States == Looks \cup {"MAPPING_UNAVAILABLE", "VALID_UNMAPPED"}
Durations ==
    [start : Nat, edge : Nat, previous : {<< >>} \cup (Nat \X States), gap : BOOLEAN,
     rows : Seq([state : States \cup Duration!Unknown, from : Nat, to : Nat])]

ASSUME CaptureAssumption ==
    /\ Ticks \in Nat \ {0} /\ MaxGap \in Nat \ {0} /\ {Samples, Toggles, Faults} \subseteq Nat
    /\ NoTime \notin Nat /\ NoStart \notin Durations

VARIABLES now,    \* the host's clock: every event that reads it is later than the last
          view,   \* the renderer: window mode, presentation, what it does next
          cap,    \* PilotGaze: its thread, stop, errors, quality, directory
          geo,    \* geometry, geometry_key, evidence_geometry, mapping_id
          pipe,   \* the tracker's process: lines not yet read
          rec,    \* the receiver thread and the sample in its hands
          file,   \* gaze.jsonl
          dur,    \* GazeDuration, or NoStart
          faults

captureVars == <<now, view, cap, geo, pipe, rec, file, dur, faults>>

CaptureInit ==
    /\ now = 1
    /\ view = [pc |-> "enter", mode |-> "window", pub |-> NoTime, key |-> "none", toggles |-> 0,
               ended |-> NoTime]
    /\ cap = [pc |-> "none", stop |-> FALSE, started |-> NoTime, failed |-> FALSE, eligible |-> {},
              dir |-> "none", summary |-> << >>, tablet |-> "none"]
    /\ geo = [mode |-> "none", key |-> "none", evidence |-> "none", id |-> "none"]
    /\ pipe = [state |-> "none", lines |-> << >>, sent |-> 0, seq |-> 0]
    /\ rec = [pc |-> "none", item |-> << >>, pub |-> NoTime, snap |-> "none", reason |-> "none",
              failed |-> FALSE]
    /\ file = << >> /\ dur = NoStart /\ faults = 0

Tick == now < Ticks /\ now' = now + 1
Fault == faults < Faults /\ faults' = faults + 1
Calm == UNCHANGED faults
Driving == view.pc \in {"drive", "replace"}
ReceiverAlive == rec.pc \notin {"none", "dead"}

-----------------------------------------------------------------------------
(* The renderer's thread                                                    *)

\* PilotGazeScope.__enter__ and PilotGaze.start: whatever fails, the drive goes on.
Enter(quality) ==
    /\ view.pc = "enter" /\ UNCHANGED now
    /\ \/ /\ cap' = [cap EXCEPT !.pc = "mkdir", !.started = now, !.eligible = quality]
          /\ view' = [view EXCEPT !.pc = "drive"] /\ Calm
       \/ view' = [view EXCEPT !.pc = "drive"] /\ Fault /\ UNCHANGED cap
    /\ UNCHANGED <<geo, pipe, rec, file, dur>>

\* present: published at once when the size is new or the last was suspended, and at its
\* cadence otherwise.
Present ==
    /\ view.pc = "drive" /\ cap.pc # "none" /\ view.ended = NoTime /\ Tick
    /\ \/ view' = [view EXCEPT !.pub = now, !.key = view.mode] /\ Calm
       \/ Fault /\ view' = [view EXCEPT !.pub = NoTime]
    /\ UNCHANGED <<cap, geo, pipe, rec, file, dur>>

\* _toggle_fullscreen calls suspend_presentation, and then lets SDL replace the window.
Suspend ==
    /\ view.pc = "drive" /\ view.toggles < Toggles
    /\ view' = [view EXCEPT !.pc = "replace", !.toggles = @ + 1, !.pub = NoTime, !.mode = "none"]
    /\ geo' = [geo EXCEPT !.key = "none"]
    /\ UNCHANGED <<now, cap, pipe, rec, file, dur, faults>>

Replaced ==
    /\ view.pc = "replace"
    /\ view' = [view EXCEPT !.pc = "drive", !.mode = IF view.toggles % 2 = 1 THEN "full" ELSE "window"]
    /\ UNCHANGED <<now, cap, geo, pipe, rec, file, dur, faults>>

\* end_presentation, before SDL is quit and once more as __exit__ closes the
\* collector, if there is one.
Exit ==
    /\ Driving
    /\ view' = [view EXCEPT !.pc = IF cap.pc = "none" THEN "left" ELSE "join", !.pub = NoTime,
                            !.mode = "none", !.ended = IF cap.pc = "none" THEN @ ELSE now]
    /\ geo' = [geo EXCEPT !.key = "none"] /\ cap' = [cap EXCEPT !.stop = TRUE]
    /\ UNCHANGED <<now, pipe, rec, file, dur, faults>>

\* close joins the thread for 1.5 s; a directory that is still written stays pending.
Join ==
    /\ view.pc = "join"
    /\ \/ cap.pc = "dead" /\ view' = [view EXCEPT !.pc = IF cap.dir = "pending" THEN "move" ELSE "left"]
       \/ cap.pc # "dead" /\ view' = [view EXCEPT !.pc = "left"]
    /\ UNCHANGED <<now, cap, geo, pipe, rec, file, dur, faults>>

\* _error of a phase that the analysis needs.
Failed(c) == [c EXCEPT !.failed = TRUE, !.eligible = {}]

\* _summary: the file is written anew; a failure leaves the earlier one.
Summary(c) == [eligible |-> c.eligible, failed |-> c.failed]

\* The rest of the stage is no data, the summary is written again, and the directory
\* moved.
Move ==
    /\ view.pc = "move"
    /\ \E bad \in BOOLEAN :
         LET c == IF bad THEN Failed(cap) ELSE cap
             d == IF bad \/ dur = NoStart THEN dur ELSE Duration!Finished(dur, view.ended)
         IN  /\ IF bad THEN dur # NoStart /\ Fault ELSE Calm
             /\ dur' = d
             /\ cap' = [c EXCEPT !.dir = "moved", !.summary = Summary(c)]
    /\ view' = [view EXCEPT !.pc = "left"]
    /\ UNCHANGED <<now, geo, pipe, rec, file>>

Renderer == Present \/ Suspend \/ Replaced \/ Exit \/ Join \/ Move

-----------------------------------------------------------------------------
(* The gaze thread                                                          *)

Goto(pc) == cap' = [cap EXCEPT !.pc = pc]
Only == UNCHANGED <<now, view, geo, file>>

\* _run up to the source: a failure of any of it ends the collection.
Prepare ==
    /\ cap.pc = "mkdir" /\ Only
    /\ \/ /\ dur' = Duration!DurationFrom(cap.started) /\ Calm
          /\ \E pc \in {"discover", "finish"} :  \* a collection that is not enabled
               cap' = [cap EXCEPT !.pc = pc, !.dir = "pending", !.tablet = "unbound"]
       \/ cap' = [Failed(cap) EXCEPT !.pc = "finish"] /\ Fault /\ UNCHANGED dur
    /\ UNCHANGED <<pipe, rec>>

\* discover and select, and the stop that may have come meanwhile.
Discover ==
    /\ cap.pc = "discover" /\ Only
    /\ \/ cap.stop /\ Goto("finish") /\ Calm /\ UNCHANGED <<pipe, rec>>
       \/ /\ ~cap.stop /\ Goto("loop") /\ Calm
          /\ pipe' = [pipe EXCEPT !.state = "runs"] /\ rec' = [rec EXCEPT !.pc = "bind"]
       \/ /\ cap' = [Failed(cap) EXCEPT !.pc = "finish"] /\ Fault
          /\ UNCHANGED <<pipe, rec>>
    /\ UNCHANGED dur

\* The loop ends with the stop, the end of the source, or five seconds of silence.
LeaveLoop ==
    /\ cap.pc = "loop" /\ Only
    /\ \/ cap.stop /\ Goto("unsubscribe") /\ Calm
       \/ rec.pc = "dead" /\ cap' = [Failed(cap) EXCEPT !.pc = "unsubscribe"] /\ Calm
       \/ cap' = [Failed(cap) EXCEPT !.pc = "unsubscribe"] /\ Fault
    /\ UNCHANGED <<pipe, rec, dur>>

\* TobiiProcessSource.unsubscribe: the process is told to stop and killed; when the
\* receiver is already leaving it, its closed standard input raises past the wait.
Unsubscribe ==
    /\ cap.pc = "unsubscribe" /\ Only /\ Calm
    /\ pipe' = [pipe EXCEPT !.state = "over"]
    /\ \/ Goto("drain")
       \/ rec.pc = "exit" /\ cap' = [Failed(cap) EXCEPT !.pc = "finish"]
    /\ UNCHANGED <<rec, dur>>

\* slip: the files are given up while the receiver may still write them
DrainNothing ==
    /\ cap.pc = "drain" /\ Only /\ Calm /\ Goto("finish") /\ UNCHANGED <<pipe, rec, dur>>

\* The files are kept until the receiver has stopped, however long that takes.
Drain ==
    /\ cap.pc = "drain" /\ ~ReceiverAlive /\ Only /\ Calm
    /\ cap' = [IF rec.failed THEN Failed(cap) ELSE cap EXCEPT !.pc = "finish"]
    /\ UNCHANGED <<pipe, rec, dur>>

\* _finish_duration and _summary of the thread, whose failures are told.
Finish ==
    /\ cap.pc = "finish" /\ UNCHANGED <<now, view, geo, file, pipe, rec>>
    /\ \E bad \in BOOLEAN :
         LET c == IF bad THEN Failed(cap) ELSE cap
             d == IF bad \/ dur = NoStart \/ cap.dir = "none" THEN dur
                  ELSE Duration!Finished(dur, IF view.ended = NoTime THEN now ELSE view.ended)
         IN  /\ IF bad THEN dur # NoStart /\ Fault ELSE Calm
             /\ dur' = d
             /\ cap' = [c EXCEPT !.pc = "dead", !.summary = IF cap.dir = "none" THEN @ ELSE Summary(c)]

Collector == Prepare \/ Discover \/ LeaveLoop \/ Unsubscribe \/ Drain \/ Finish

-----------------------------------------------------------------------------
(* The tracker's process and the receiver                                   *)

\* A sample's callback: what was looked at, and the window there was; its number may leave
\* a gap, and its clock may not have advanced.
Callback ==
    /\ pipe.state = "runs" /\ pipe.sent < Samples /\ pipe.lines = << >> /\ Tick
    /\ \E look \in Looks, like \in {"next", "gap", "held"} :
         /\ pipe.sent = 0 => like = "next"
         /\ LET seq == IF like = "gap" THEN pipe.seq + 2 ELSE pipe.seq + 1
                t == IF like = "held" THEN now - 1 ELSE now
            IN  pipe' = [pipe EXCEPT !.sent = @ + 1, !.seq = seq,
                           !.lines = <<[t |-> t, seq |-> seq, look |-> look, seen |-> view.mode]>>]
    /\ UNCHANGED <<view, cap, geo, rec, file, dur, faults>>

\* The process may end by itself, or with an error.
ProcessEnds ==
    /\ pipe.state = "runs" /\ Fault /\ pipe' = [pipe EXCEPT !.state = "over"]
    /\ UNCHANGED <<now, view, cap, geo, rec, file, dur>>

\* _raw: before any sample, the tracker's display area binds the tablet's profile, or
\* excludes the tablet, like a profile that cannot be loaded; a process that never told it ends.
Bind ==
    /\ rec.pc = "bind"
    /\ \/ pipe.state = "over" /\ rec' = [rec EXCEPT !.pc = "exit"] /\ UNCHANGED cap
       \/ /\ rec' = [rec EXCEPT !.pc = "read"]
          /\ \/ cap' = [cap EXCEPT !.tablet = "bound"]
             \/ cap' = [cap EXCEPT !.tablet = "mismatch", !.eligible = @ \ {"TABLET"}]
    /\ UNCHANGED <<now, view, geo, pipe, file, dur, faults>>

Read ==
    /\ rec.pc = "read"
    /\ IF pipe.lines # << >>
       THEN /\ rec' = [rec EXCEPT !.pc = "map", !.item = <<Head(pipe.lines)>>, !.reason = "none"]
            /\ pipe' = [pipe EXCEPT !.lines = Tail(@)]
       ELSE pipe.state = "over" /\ rec' = [rec EXCEPT !.pc = "exit"] /\ UNCHANGED pipe
    /\ UNCHANGED <<now, view, cap, geo, file, dur, faults>>

Unlabelled == [rec EXCEPT !.pc = "row", !.reason = "unmapped"]
Unmapped == rec' = Unlabelled /\ UNCHANGED <<geo, cap, file>>

\* _mapping up to the probe: the presentation of now must be older than the callback;
\* geometry of the same window is kept for a quarter of a second.
Map ==
    /\ rec.pc = "map"
    /\ IF view.ended # NoTime \/ view.pub = NoTime THEN Unmapped
       ELSE \/ Unmapped  \* a sample or a presentation of long ago
            \/ /\ rec.item[1].t >= view.pub
               /\ \/ rec' = [rec EXCEPT !.pc = "probe", !.pub = view.pub]
                  \/ geo.key = view.key /\ rec' = [rec EXCEPT !.pc = "row"]
               /\ UNCHANGED <<geo, cap, file>>
    /\ UNCHANGED <<now, view, pipe, dur, faults>>

\* snapshot: the window that is there now; one that spans monitors is not cached.
Probe ==
    /\ rec.pc = "probe"
    /\ \/ rec' = [rec EXCEPT !.pc = "recheck", !.snap = view.mode] /\ Calm /\ UNCHANGED <<geo, cap, file>>
       \/ Unmapped /\ Fault
    /\ UNCHANGED <<now, view, pipe, dur>>

\* A presentation that ended or changed meanwhile explains a failed probe, and undoes one
\* that did not fail.
Recheck ==
    /\ rec.pc = "recheck"
    /\ IF view.ended # NoTime \/ view.pub # rec.pub THEN Unmapped
       ELSE IF rec.snap = "none"
       THEN /\ rec' = Unlabelled
            /\ cap' = Failed(cap) /\ geo' = [geo EXCEPT !.key = "none"]
            /\ UNCHANGED file
       ELSE rec' = [rec EXCEPT !.pc = "assign"] /\ UNCHANGED <<geo, cap, file>>
    /\ UNCHANGED <<now, view, pipe, dur, faults>>

Mapping(mode, defines) == [kind |-> "mapping", mode |-> mode, defines |-> defines]

\* The geometry is kept, and its mapping written, with its definition when it is another
\* than the last that was; a definition that could not be written is tried again.
Assign ==
    /\ rec.pc = "assign"
    /\ \E bad \in BOOLEAN :
         /\ IF bad THEN Fault ELSE Calm
         /\ geo' = IF bad THEN [geo EXCEPT !.mode = rec.snap, !.key = "none"]
                   ELSE [mode |-> rec.snap, key |-> rec.snap, evidence |-> rec.snap, id |-> rec.snap]
         /\ IF bad THEN /\ file' = file /\ cap' = Failed(cap)
                        /\ rec' = Unlabelled
                   ELSE /\ file' = Append(file, Mapping(rec.snap, rec.snap # geo.evidence))
                        /\ rec' = [rec EXCEPT !.pc = "row"] /\ UNCHANGED cap
    /\ UNCHANGED <<now, view, pipe, dur>>

\* What a sample is classified as.
State(s, labelled) ==
    IF ~labelled THEN "MAPPING_UNAVAILABLE"
    ELSE IF s.look = "TABLET" /\ cap.tablet # "bound" THEN "VALID_UNMAPPED" ELSE s.look

\* duration_eligible: the callback is within the window of the stage.
Eligible(s) == s.t >= cap.started /\ (view.ended = NoTime \/ s.t <= view.ended)

Free(pc) == [rec EXCEPT !.pc = pc, !.item = << >>, !.pub = NoTime, !.snap = "none", !.reason = "none"]

Written(s, labelled) ==
    /\ file' = Append(file, [kind |-> "gaze", t |-> s.t, seq |-> s.seq, seen |-> s.seen,
                             state |-> State(s, labelled), id |-> IF labelled THEN geo.id ELSE "none",
                             by |-> IF labelled THEN geo.mode ELSE "none"])
    /\ dur' = IF Eligible(s) THEN Duration!Added(dur, s.t, s.seq, FALSE, State(s, labelled)) ELSE dur
    /\ rec' = Free("read")

\* The rest of _mapping: a window without the focus, or not in full screen, is not used, and
\* one that is not the checked one is an error; then the row is written and counted.  A row
\* that cannot be written ends the receiver.
WriteRow ==
    /\ rec.pc = "row"
    /\ \/ Written(rec.item[1], FALSE) /\ UNCHANGED <<cap, faults>>
       \/ rec.reason = "none" /\ Written(rec.item[1], TRUE) /\ UNCHANGED <<cap, faults>>
       \/ /\ rec.reason = "none" /\ Fault /\ Written(rec.item[1], FALSE)
          /\ cap' = Failed(cap)
       \/ Fault /\ rec' = [Free("exit") EXCEPT !.failed = TRUE] /\ UNCHANGED <<cap, file, dur>>
    /\ UNCHANGED <<now, view, geo, pipe>>

\* The receiver leaves its process, which is killed if it still runs.
ReceiverEnds ==
    /\ rec.pc = "exit"
    /\ rec' = [rec EXCEPT !.pc = "dead"] /\ pipe' = [pipe EXCEPT !.state = "over", !.lines = << >>]
    /\ UNCHANGED <<now, view, cap, geo, file, dur, faults>>

Receiver == Bind \/ Read \/ Map \/ Probe \/ Recheck \/ Assign \/ WriteRow \/ ReceiverEnds
Tracker == Callback \/ ProcessEnds
====
