---- MODULE GazePrecheck ----
(* The gaze check before a module: up to three attempts of three targets, each with a *)
(* capture of its own that may stop at any time, and the operator's explicit decision *)
(* to start as passed or with what did not pass excluded.                             *)
EXTENDS Integers, Sequences, FiniteSets

CONSTANT Attempts  \* max_attempts of CheckPolicy

ASSUME PrecheckAssumption == Attempts \in Nat \ {0}

AOIS == {"FORWARD", "TABLET"}
Targets == <<"FORWARD", "TABLET", "FORWARD">>
Modules == {"M1", "M2"}
NoDecision == [module |-> "none", eligible |-> {}]

VARIABLES chk,     \* M2GazeCheck: module, mode, segments, capture, result, and fullscreen
          quality  \* m1_gaze_quality and m2_gaze_quality of the services

checkVars == <<chk, quality>>

NoResult == [eligible |-> {}, segs |-> << >>, attempt |-> 0]

\* The check of the second module, after a first that passed.
PrecheckInit ==
    /\ chk = [mode |-> "page", module |-> "M2", attempts |-> 0, segs |-> << >>, capture |-> "none",
              full |-> FALSE, result |-> NoResult]
    /\ quality = [M1 |-> [module |-> "M1", eligible |-> AOIS], M2 |-> NoDecision]

In(mode) == chk.mode = mode
Showing == chk.mode \notin {"page", "decided", "gone"}

Needed(aoi) == IF aoi = "FORWARD" THEN 2 ELSE 1
Target == Targets[Len(chk.segs) + 1]
Of(segs, aoi) == {i \in 1..Len(segs) : segs[i].target = aoi}

\* evaluate_attempt: every target of an area passed, no other target was taken for it, and
\* nothing went wrong.
EvaluateAttempt(segs, errors) ==
    IF errors THEN {}
    ELSE {a \in AOIS : /\ Cardinality(Of(segs, a)) >= Needed(a)
                       /\ \A i \in Of(segs, a) : segs[i].passed
                       /\ \A i \in 1..Len(segs) : segs[i].target # a => a \notin segs[i].confused}

Result(segs, errors) == [eligible |-> EvaluateAttempt(segs, errors), segs |-> segs,
                         attempt |-> chk.attempts + 1]

\* finish_attempt; a result that cannot be stored is evaluated as an error.
Finished(segs, errors) ==
    \E failed \in {errors, TRUE} :  \* the capture's own errors, its mapping, or the storage
        chk' = [chk EXCEPT !.mode = "RESULT", !.capture = "none", !.attempts = @ + 1, !.segs = segs,
                           !.result = Result(segs, failed)]

\* prepare_module_gaze opens the check; the attempts of an earlier visit count.
OpenCheck ==
    /\ In("page")
    /\ chk' = [chk EXCEPT !.mode = IF chk.attempts > 0 THEN "RESULT" ELSE "INTRO", !.segs = << >>]
    /\ UNCHANGED quality

\* A check that is disabled, or not configured, or whose pages fail: the module starts
\* without a decision, or with everything excluded.
SkipCheck ==
    /\ In("page")
    /\ \/ UNCHANGED quality
       \/ quality' = [quality EXCEPT ![chk.module] = [module |-> chk.module, eligible |-> {}]]
    /\ chk' = [chk EXCEPT !.mode = "decided"]

Toggle == Showing /\ chk.mode # "MEASURING" /\ chk' = [chk EXCEPT !.full = ~@] /\ UNCHANGED quality

\* begin_attempt: from the introduction in full screen, or once more from a result; a capture
\* that does not start finishes the attempt.
BeginAttempt ==
    /\ chk.attempts < Attempts
    /\ \/ In("INTRO") /\ chk.full
       \/ In("RESULT")
    /\ \/ chk' = [chk EXCEPT !.mode = "CONNECTING", !.segs = << >>, !.capture = "alive"]
       \/ chk' = [chk EXCEPT !.mode = "RESULT", !.segs = << >>, !.attempts = @ + 1,
                             !.result = Result(<< >>, TRUE)]
    /\ UNCHANGED quality

CaptureStops == chk.capture = "alive" /\ chk' = [chk EXCEPT !.capture = "dead"] /\ UNCHANGED quality

\* tick: the first sample, or fifteen seconds without one; a capture that stopped; the end
\* of a measurement, evaluated by what was seen in it.
Connected ==
    /\ In("CONNECTING")
    /\ chk' = [chk EXCEPT !.mode = "TARGET"] \/ Finished(chk.segs, TRUE)
    /\ UNCHANGED quality

CaptureIsGone == chk.capture = "dead" /\ Finished(chk.segs, TRUE) /\ UNCHANGED quality

Measured ==
    /\ In("MEASURING") /\ chk.capture = "alive"
    /\ \E passed \in BOOLEAN, confused \in SUBSET (AOIS \ {Target}) :
         /\ passed => confused = {}
         /\ LET segs == Append(chk.segs, [target |-> Target, passed |-> passed, confused |-> confused,
                                          attempt |-> chk.attempts + 1])
            IN  IF Len(segs) < Len(Targets)
                THEN chk' = [chk EXCEPT !.mode = "TARGET", !.segs = segs]
                ELSE Finished(segs, FALSE)
    /\ UNCHANGED quality

\* A window that loses its focus, or changes, invalidates the attempt that measures.
Disturbed == In("MEASURING") /\ Finished(chk.segs, TRUE) /\ UNCHANGED quality

Measure == In("TARGET") /\ chk.full /\ chk' = [chk EXCEPT !.mode = "MEASURING"] /\ UNCHANGED quality

\* ESC, and the end of the pages: back to the instructions, and the attempt is an error.
Leave ==
    /\ Showing
    /\ IF chk.capture # "none"
       THEN chk' = [chk EXCEPT !.mode = "page", !.capture = "none", !.attempts = @ + 1, !.full = FALSE,
                               !.result = Result(<< >>, TRUE)]
       ELSE chk' = [chk EXCEPT !.mode = "page", !.full = FALSE]
    /\ UNCHANGED quality

AskExclusions ==
    /\ chk.mode \in {"INTRO", "RESULT"} /\ chk' = [chk EXCEPT !.mode = "CONFIRM_EXCLUSIONS"]
    /\ UNCHANGED quality

BackToResult ==
    /\ In("CONFIRM_EXCLUSIONS")
    /\ chk' = [chk EXCEPT !.mode = IF chk.attempts > 0 THEN "RESULT" ELSE "INTRO"] /\ UNCHANGED quality

\* record_decision: kept in the session whether or not it could be stored.
RecordDecision ==
    /\ quality' = [quality EXCEPT ![chk.module] = [module |-> chk.module, eligible |-> chk.result.eligible]]
    /\ chk' = [chk EXCEPT !.mode = "decided"]

Decide ==
    /\ \/ In("CONFIRM_EXCLUSIONS")
       \/ In("RESULT") /\ chk.result.eligible = AOIS
    /\ RecordDecision

Precheck == \/ OpenCheck \/ SkipCheck \/ Toggle \/ BeginAttempt \/ CaptureStops \/ Connected \/ CaptureIsGone
            \/ Measured \/ Disturbed \/ Measure \/ Leave \/ AskExclusions \/ BackToResult \/ Decide

\* stage_quality: only a decision about this module counts, and without one nothing does.
StageQuality(module) == IF quality[module].module = module THEN quality[module].eligible ELSE {}

====
