---- MODULE PilotGaze ----
(* The gaze of one module: its check, the operator's decision, and the capture beside *)
(* the drive that follows, which analyses only the areas that the decision left.      *)
EXTENDS GazeCapture, GazePrecheck

CONSTANT Followed  \* bound: a decision is followed that left these areas

gazeVars == <<captureVars, checkVars>>

GazeStageInit == CaptureInit /\ PrecheckInit

\* PilotGaze.__init__ takes the quality as it is; the check's pages are gone.
StartStage ==
    /\ In("decided") /\ quality[chk.module].eligible \in Followed /\ Enter(StageQuality(chk.module))
    /\ chk' = [chk EXCEPT !.mode = "gone", !.attempts = 0, !.segs = << >>, !.full = FALSE,
                          !.result = NoResult]
    /\ UNCHANGED quality

CheckStep == Precheck /\ UNCHANGED captureVars
CaptureStep == In("gone") /\ (Renderer \/ Collector \/ Receiver \/ Tracker) /\ UNCHANGED checkVars

GazeStageNext == CheckStep \/ StartStage \/ CaptureStep

GazeStageSpec == GazeStageInit /\ [][GazeStageNext]_gazeVars

-----------------------------------------------------------------------------
(* Properties                                                               *)

Rows(kind) == {i \in 1..Len(file) : file[i].kind = kind}

\* A sample is never labelled by another window than the one at its callback, however the
\* window was replaced while its geometry was asked for.
NoForeignWindow == \A i \in Rows("gaze") : file[i].by # "none" => file[i].by = file[i].seen

\* Whoever reads the file finds, before each mapped sample, the definition of its mapping,
\* although a definition may have failed to be written.
MappingIsDefined ==
    \A i \in Rows("gaze") : file[i].id # "none" =>
        /\ file[i].id = file[i].by
        /\ \E j \in Rows("mapping") : j < i /\ file[j].defines /\ file[j].mode = file[i].id

\* What was moved to the run's results is not written any more, by the gaze thread or by
\* the receiver, although closing waits only a moment for them.
MovedIsQuiet == [][cap.dir = "moved" => UNCHANGED <<file, dur, cap>>]_gazeVars

\* An interval counts for an area only between two adjacent samples of the file that saw it,
\* and the intervals share out the stage without a hole.
DurationIsWitnessed ==
    dur # NoStart =>
      /\ Duration!Partition(dur)
      /\ \A k \in 1..Len(dur.rows) :
           LET row == dur.rows[k] IN
           row.state \notin Duration!Unknown =>
             \E i, j \in Rows("gaze") :
               /\ file[i].t = row.from /\ file[j].t = row.to
               /\ file[j].seq = file[i].seq + 1 /\ {file[i].state, file[j].state} = {row.state}

\* What the operator decided from: this attempt's targets, all of them.
MeasuredBy(segs, attempt, aoi) ==
    LET seen == {i \in Of(segs, aoi) : segs[i].attempt = attempt /\ segs[i].passed}
    IN  Cardinality(seen) = Needed(aoi)

\* An area is analysed only if every target of it passed in the attempt that was decided
\* about for this very module, and the capture had no error since; a tablet that is not
\* where its profile says is never analysed.
AnalysedWasMeasured ==
    /\ In("decided") => \A a \in StageQuality(chk.module) :
          quality[chk.module].module = chk.module
          /\ MeasuredBy(chk.result.segs, chk.result.attempt, a)
    /\ cap.summary # << >> =>
          /\ cap.summary.eligible \subseteq StageQuality(chk.module)
          /\ quality[chk.module].module # chk.module => cap.summary.eligible = {}
          /\ cap.summary.failed => cap.summary.eligible = {}
          /\ cap.tablet = "mismatch" => "TABLET" \notin cap.summary.eligible

\* What is known of the driver's gaze is true: each label is of its own window and
\* defined before it is used, each interval has the two samples that it is between, and
\* an area is analysed only if it was measured for this module.
GazeIsTrue ==
    NoForeignWindow /\ MappingIsDefined /\ DurationIsWitnessed /\ AnalysedWasMeasured
====
