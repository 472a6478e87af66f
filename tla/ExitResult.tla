----------------------------- MODULE ExitResult -----------------------------
(***************************************************************************)
(* What a run of a module tells of its exit opportunity.  The coordinator  *)
(* keeps its events and hands each to the run's queue; the queue is        *)
(* flushed, in the order of time, to a file that may lose a row without    *)
(* stopping the drive; when the run is over the events are compared with   *)
(* the rows of the file, and the opportunity is classified for the         *)
(* session's manifest.  A run that fails may be started again: its rows    *)
(* stay in the file, under the same name of the opportunity.               *)
(*                                                                         *)
(* The opportunity is the signal-guided one; of its events those are kept  *)
(* that a result reads, or that may stand between two of them.             *)
(***************************************************************************)
EXTENDS Naturals, Sequences, FiniteSets

CONSTANTS
    MaxRuns,        \* bound: runs of the module that are started
    MaxInputs,      \* bound: driver inputs of the first run; the second has none
    MaxLosses,      \* bound: rows the file loses
    MaxKept         \* bound: rows in the file when a run is started again

VARIABLES
    attempt,   \* OperatorRunExecutor.execute: how far it is and how it ends
    offer,     \* ExitAssistanceCoordinator
    spoken,    \* coordinator.events
    queued,    \* the rows that wait in the run's queue
    ledger,    \* the opportunity's rows in the event file
    losses,    \* collection_failure_count
    host,      \* the latest timestamp
    told       \* the stage's slot in the manifest

resultVars == <<attempt, offer, spoken, queued, ledger, losses, host, told>>

NoA == "NOA_ACTIVE"
Manual == "MANUAL"
Untold == "none"

NoOffer == [status |-> Untold, decision |-> Untold, mode |-> Manual, automated |-> FALSE,
            shown |-> FALSE, closed |-> FALSE, lateral |-> FALSE, outcome |-> Untold,
            inputs |-> 0]

ResultInit ==
    /\ attempt = [number |-> 0, at |-> "ready", ends |-> Untold, raised |-> FALSE,
                  ran |-> FALSE]
    /\ offer = NoOffer
    /\ spoken = << >> /\ queued = << >> /\ ledger = << >>
    /\ losses = 0 /\ host = 0
    /\ told = [class |-> Untold, decision |-> Untold, outcome |-> Untold]

(***************************************************************************)
(* The coordinator's events.                                               *)
(***************************************************************************)

\* build_exit_event: every event repeats the decision, few have an outcome or a reason.
ExitEvent(o, type, outcome, reason, time) ==
    [type |-> type, decision |-> o.decision, t0 |-> o.shown, outcome |-> outcome,
     reason |-> reason, time |-> time]

\* _emit: kept by the coordinator and queued by ResearchNoAPersistence.record_exit.
Emit(events) ==
    /\ spoken' = spoken \o events
    /\ queued' = queued \o events

InDrive == attempt.at = "driving"
Open == InDrive /\ offer.status \notin {"COMPLETED", "INTERRUPTED", "NOT_PRESENTED"}

\* mark_presented: the frame was flipped.
Present ==
    /\ Open /\ ~offer.shown
    /\ host' = host + 1
    /\ offer' = [offer EXCEPT !.status = "PRESENTED", !.shown = TRUE,
                              !.automated = offer.mode = NoA]
    /\ Emit(<<ExitEvent(offer', "lc_presented", Untold, Untold, host')>>)
    /\ UNCHANGED <<attempt, ledger, losses, told>>

\* mark_not_presented: its window closed before.
MarkNotPresented ==
    /\ Open /\ ~offer.shown
    /\ host' = host + 1
    /\ offer' = [offer EXCEPT !.status = "NOT_PRESENTED"]
    /\ Emit(<<ExitEvent(offer', "lc_finished", "NOT_PRESENTED",
                    "ELIGIBILITY_WINDOW_CLOSED", host')>>)
    /\ UNCHANGED <<attempt, ledger, losses, told>>

\* close_guidance: no answer is an answer while NoA drives.
ClosedOffer(o) ==
    IF o.closed THEN o
    ELSE IF o.decision = Untold /\ o.mode = NoA
    THEN [o EXCEPT !.closed = TRUE, !.status = "NORESPONSE", !.decision = "NORESPONSE"]
    ELSE [o EXCEPT !.closed = TRUE]

Decided(before, after, time) ==
    IF after.decision = before.decision THEN << >>
    ELSE <<ExitEvent(after, "lc_decision", Untold, Untold, time)>>

Interrupted(o, reason, time) ==
    <<ExitEvent(o, "lc_finished", "INTERRUPTED", reason, time)>>

\* update and update_signal_exit: guidance that is over closes at the receipt of the
\* input, before the mode change that was noted at its commit.
Hear(mode, signal, over) ==
    LET receipt == host + 1
        commit == host + 2
        o == [offer EXCEPT !.mode = mode, !.inputs = @ + 1]
        changed == IF offer.shown /\ mode # offer.mode
                   THEN <<ExitEvent(o, "lc_mode_change", Untold, Untold, commit)>>
                   ELSE << >>
        c == IF over THEN ClosedOffer(o) ELSE o
        d == IF mode = NoA /\ signal = "right" /\ c.decision = Untold /\ ~c.closed
             THEN [c EXCEPT !.status = "CONFIRMED", !.decision = "CONFIRM",
                            !.automated = TRUE]
             ELSE c
        closing == Decided(o, c, receipt)
        deciding == Decided(c, d, commit)
    IN  /\ host' = commit
        /\ IF ~offer.shown \/ offer.status = "COMPLETED"
           THEN offer' = o /\ Emit(changed)
           ELSE IF d.decision = "CONFIRM" /\ mode # NoA
           THEN /\ offer' = [d EXCEPT !.status = "INTERRUPTED"]
                /\ Emit(changed \o closing
                          \o Interrupted(d, "MODE_CHANGED_AFTER_T0", commit))
           ELSE IF d.decision = "CONFIRM" /\ signal = "left"
           THEN /\ offer' = [d EXCEPT !.status = "INTERRUPTED", !.closed = TRUE]
                /\ Emit(changed \o closing
                          \o Interrupted(d, "DRIVER_SIGNAL_PRIORITY", commit))
           ELSE offer' = d /\ Emit(changed \o closing \o deciding)

TakeInput ==
    /\ InDrive /\ offer.status \notin {"INTERRUPTED", Untold}
    /\ attempt.number = 1 /\ offer.inputs < MaxInputs
    /\ \E mode \in {NoA, Manual}, signal \in {Untold, "left", "right"}, over \in BOOLEAN :
         Hear(mode, signal, over)
    /\ UNCHANGED <<attempt, ledger, losses, told>>

\* The vehicle leaves its lane: in the driver's hands that is the decision.
LeaveLane ==
    /\ Open /\ offer.shown /\ ~offer.lateral
    /\ host' = host + 1
    /\ offer' = [offer EXCEPT !.lateral = TRUE,
                   !.decision =
                     IF offer.automated THEN @ ELSE "MANUAL_CHANGE_OBSERVED_PROXY"]
    /\ Emit(<<ExitEvent(offer', "lc_maneuver_start", Untold, Untold, host')>>)
    /\ UNCHANGED <<attempt, ledger, losses, told>>

\* The vehicle is on the ramp's end or separated on the mainline, in one observation:
\* the guidance is over, the exit entered and the opportunity complete at one time.
Pass(outcome) ==
    /\ Open /\ offer.shown
    /\ host' = host + 1
    /\ LET c == ClosedOffer(offer)
           d == IF /\ outcome = "MISSED" /\ ~c.automated /\ ~c.lateral
                   /\ c.decision = Untold
                THEN [c EXCEPT !.decision = "MANUAL_NOCHANGE"] ELSE c
           entry == IF outcome = "MISSED" THEN << >>
                    ELSE <<ExitEvent(c, "lc_exit_entry_observed",
                                     "EXIT_ENTRY_OBSERVED", Untold, host')>>
       IN  /\ offer' = [d EXCEPT !.status = "COMPLETED", !.outcome = outcome]
           /\ Emit(Decided(offer, c, host') \o entry
                     \o <<ExitEvent(d, "lc_completed", outcome, Untold, host')>>)
    /\ UNCHANGED <<attempt, ledger, losses, told>>

\* retire_abandoned_exit: off the corridor for good.
Retire ==
    /\ Open /\ offer.closed
    /\ host' = host + 1
    /\ offer' = [offer EXCEPT !.status = "INTERRUPTED"]
    /\ Emit(<<ExitEvent(offer, "lc_opportunity_retired", Untold,
                        "EXIT_CORRIDOR_LEFT", host')>>
              \o Interrupted(offer, "EXIT_CORRIDOR_LEFT", host'))
    /\ UNCHANGED <<attempt, ledger, losses, told>>

(***************************************************************************)
(* The run.                                                                *)
(***************************************************************************)

Earlier(rows, i, k) ==
    \/ rows[i].time < rows[k].time
    \/ rows[i].time = rows[k].time /\ i < k

\* Mutant: rows of one time stand in any order, the later first.
LaterFirst(rows) ==
    LET before(i) == {k \in DOMAIN rows :
                        rows[k].time < rows[i].time \/ (rows[k].time = rows[i].time /\ k > i)}
    IN  [n \in DOMAIN rows |->
            rows[CHOOSE i \in DOMAIN rows : Cardinality(before(i)) + 1 = n]]

Rank(rows, i) == Cardinality({k \in DOMAIN rows : Earlier(rows, k, i)}) + 1

\* By time, and by place at the same time: flush_events, reconstruct_exit_ledger and
\* live_evidence all sort so.
InTime(rows) ==
    [n \in DOMAIN rows |-> rows[CHOOSE i \in DOMAIN rows : Rank(rows, i) = n]]

Without(rows, k) == [i \in 1..(Len(rows) - 1) |-> rows[IF i < k THEN i ELSE i + 1]]

\* What the file keeps of rows that are written: all, or all but one that is lost.
KeptOf(rows) ==
    {[rows |-> rows, lost |-> 0]}
      \cup IF losses = MaxLosses THEN {}
           ELSE {[rows |-> Without(rows, k), lost |-> 1] : k \in DOMAIN rows}

WriteRows(rows) ==
    \E kept \in KeptOf(rows) : ledger' = ledger \o kept.rows /\ losses' = losses + kept.lost

\* _create_session: the run is bound and the opportunity's manifest is its first row.
Bind ==
    /\ attempt.at = "ready" /\ attempt.number < MaxRuns /\ ~attempt.ran
    /\ attempt' = [attempt EXCEPT !.number = @ + 1, !.at = "driving", !.ends = Untold,
                                  !.raised = FALSE]
    /\ \E mode \in {NoA, Manual} :
         offer' = [NoOffer EXCEPT !.status = "WAITING", !.mode = mode]
    /\ host' = host + 1
    /\ spoken' = << >> /\ queued' = << >>
    /\ WriteRows(<<ExitEvent(NoOffer, "p5_exit_manifest", Untold, Untold, host')>>)
    /\ told' = [class |-> Untold, decision |-> Untold, outcome |-> Untold]

\* The run cannot be built, before or after its session is: nothing was driven.
BindRaises ==
    /\ attempt.at = "ready" /\ attempt.number < MaxRuns /\ ~attempt.ran
    /\ attempt' = [attempt EXCEPT !.number = @ + 1, !.at = "judging", !.ends = "error",
                                  !.raised = TRUE]
    /\ offer' = NoOffer
    /\ host' = host + 1
    /\ spoken' = << >> /\ queued' = << >>
    /\ \/ UNCHANGED <<ledger, losses>>
       \/ WriteRows(<<ExitEvent(NoOffer, "p5_exit_manifest", Untold, Untold, host')>>)
    /\ UNCHANGED told

\* flush_events, in the drive and on its way out.
FlushEvents ==
    /\ attempt.at \in {"driving", "leaving"} /\ queued # << >>
    /\ WriteRows(InTime(queued))
    /\ queued' = << >>
    /\ UNCHANGED <<attempt, offer, spoken, host, told>>

\* The view's loop returns, or an error leaves it.
EndLoop(how) ==
    /\ InDrive
    /\ attempt' = [attempt EXCEPT !.at = "leaving", !.ends = how, !.raised = how = "error"]
    /\ UNCHANGED <<offer, spoken, queued, ledger, losses, host, told>>

\* Something on the way out raises, before or after finish; the rest is done all the same.
ShutdownRaises ==
    /\ attempt.at \in {"leaving", "judging"} /\ ~attempt.raised
    /\ attempt' = [attempt EXCEPT !.raised = TRUE]
    /\ UNCHANGED <<offer, spoken, queued, ledger, losses, host, told>>

FinishReason ==
    IF attempt.raised THEN "ERROR"
    ELSE IF attempt.ends = "left" THEN "USER_EXIT"
    ELSE IF attempt.ends = "early" THEN "NORMAL" ELSE "TIME_CAP"

\* coordinator.finish: an opportunity that is neither complete nor broken off ends here.
Finish ==
    /\ attempt.at = "leaving"
    /\ attempt' = [attempt EXCEPT !.at = "closing"]
    /\ host' = host + 1
    /\ IF offer.status \in {"COMPLETED", "INTERRUPTED", "NOT_PRESENTED"}
       THEN UNCHANGED <<offer, spoken, queued>>
       ELSE /\ offer' = [offer EXCEPT !.status = "INTERRUPTED"]
            /\ Emit(<<ExitEvent(offer, "lc_finished",
                            IF offer.status = "WAITING" THEN "NOT_REACHED"
                                                        ELSE "INTERRUPTED",
                            FinishReason, host')>>)
    /\ UNCHANGED <<ledger, losses, told>>

\* The last flush of the run.
LastFlush ==
    /\ attempt.at = "closing"
    /\ attempt' = [attempt EXCEPT !.at = "judging"]
    /\ WriteRows(InTime(queued))
    /\ queued' = << >>
    /\ UNCHANGED <<offer, spoken, host, told>>

(***************************************************************************)
(* The result.                                                             *)
(***************************************************************************)

\* reconstruct_exit_ledger's summary of the opportunity, of all its runs in this file.
Rows == InTime(ledger)
OfType(type) == {i \in DOMAIN Rows : Rows[i].type = type}
Once(type) == Cardinality(OfType(type)) = 1

\* What the latest row says that says anything about it.
LatestOf(rows, field) ==
    LET saying == {i \in DOMAIN rows : rows[i][field] # Untold}
    IN  IF saying = {} THEN Untold
        ELSE rows[CHOOSE i \in saying : \A k \in saying : k <= i][field]

Latest(field) == LatestOf(Rows, field)

Told == {"lc_presented", "lc_decision", "lc_completed", "lc_finished", "p5_exit_manifest"}

\* What the file holds is not this run's, once each, as the coordinator has it.
Doubtful ==
    \/ ~Once("p5_exit_manifest")
    \/ \E type \in Told : Cardinality(OfType(type)) > 1
    \/ \E i \in OfType("p5_exit_manifest") : InTime(spoken) # Without(Rows, i)

Shown == Once("lc_presented") /\ \E i \in DOMAIN Rows : Rows[i].t0

ByParticipant == {"USER_EXIT", "MODE_CHANGED_AFTER_T0", "DRIVER_SIGNAL_PRIORITY"}

CompletedClass ==
    IF ~Shown \/ Latest("reason") # Untold \/ offer.status # "COMPLETED" THEN "INCOMPLETE"
    ELSE IF Latest("decision") = "NORESPONSE" /\ Latest("outcome") = "EXIT"
    THEN "INCOMPLETE"
    ELSE IF Latest("outcome") = "EXIT" THEN "EXIT_CONFIRMED"
    ELSE IF Latest("outcome") = "MISSED" THEN "NORMAL_MISSED" ELSE "INCOMPLETE"

\* configured_exit_result, and the errors for which OperatorRunExecutor asks nothing else.
Class ==
    IF attempt.raised \/ losses > 0 THEN "TECHNICAL_ERROR"
    ELSE IF Latest("reason") = "ERROR" THEN "TECHNICAL_ERROR"
    ELSE IF attempt.ends = "left" THEN "PARTICIPANT_INTERRUPTED"
    ELSE IF Doubtful THEN "INCOMPLETE"
    ELSE IF Once("lc_completed") /\ OfType("lc_finished") = {} THEN CompletedClass
    ELSE IF Latest("reason") \in ByParticipant THEN "PARTICIPANT_INTERRUPTED"
    ELSE IF Latest("decision") # Untold
    THEN IF Shown THEN "DECISION_RECORDED" ELSE "INCOMPLETE"
    ELSE IF OfType("lc_presented") # {}
    THEN IF Shown THEN "PRESENTED" ELSE "INCOMPLETE"
    ELSE "CONFIGURED_NOT_PRESENTED"

\* technical_exit_result, for a file with a hole, repeats nothing of the events.
Repeated(field) == IF losses > 0 /\ ~attempt.raised THEN Untold ELSE Latest(field)

\* The slot is filled; only a run without an error, or one that a collision stopped and
\* that can still be reduced, is the stage's run.
TellResult ==
    /\ attempt.at = "judging"
    /\ \E reduced \in BOOLEAN :
         attempt' = [attempt EXCEPT !.at = "told",
                       !.ran = ~attempt.raised \/ (attempt.ends = "collision" /\ reduced)]
    /\ told' = [class |-> Class, decision |-> Repeated("decision"),
                outcome |-> Repeated("outcome")]
    /\ UNCHANGED <<offer, spoken, queued, ledger, losses, host>>

\* The operator may run the module again while the stage has no run.
Again ==
    /\ attempt.at = "told" /\ Len(ledger) <= MaxKept
    /\ attempt' = [attempt EXCEPT !.at = "ready"]
    /\ UNCHANGED <<offer, spoken, queued, ledger, losses, host, told>>

ResultNext ==
    \/ Bind \/ BindRaises \/ Present \/ MarkNotPresented \/ TakeInput \/ LeaveLane
    \/ \E outcome \in {"EXIT", "MISSED"} : Pass(outcome)
    \/ Retire \/ FlushEvents
    \/ \E how \in {"time", "early", "left", "collision", "error"} : EndLoop(how)
    \/ ShutdownRaises \/ Finish \/ LastFlush \/ TellResult \/ Again

ResultSpec == ResultInit /\ [][ResultNext]_resultVars

(***************************************************************************)
(* What a result promises.                                                 *)
(***************************************************************************)

\* A physical outcome that is told was reached in this very run, after guidance that
\* was shown, with the decision the driver's last act made of it, and every event of it
\* is in the file: never one of an earlier run, nor of a file with a hole.
ClaimsHappened ==
    attempt.at = "told" /\ told.class \in {"EXIT_CONFIRMED", "NORMAL_MISSED"} =>
        /\ offer.shown /\ offer.status = "COMPLETED" /\ offer.outcome = told.outcome
        /\ (told.class = "EXIT_CONFIRMED") = (offer.outcome = "EXIT")
        /\ told.decision = offer.decision
        /\ ~attempt.raised /\ attempt.ends # "left"
        /\ \A i \in DOMAIN spoken : \E k \in DOMAIN ledger : ledger[k] = spoken[i]

\* The first run of a module that nothing disturbed is told as what it was: doubt is
\* left to an exit that nobody answered for, whatever the order of its events was.
PlainRunIsTold ==
    (/\ attempt.at = "told" /\ attempt.number = 1
     /\ ~attempt.raised /\ losses = 0 /\ attempt.ends # "left") =>
        /\ told.class # "TECHNICAL_ERROR"
        /\ told.decision = offer.decision
        /\ (told.class = "CONFIGURED_NOT_PRESENTED") = ~offer.shown
        /\ (told.class = "INCOMPLETE") =
             (offer.outcome = "EXIT" /\ offer.decision = "NORESPONSE")

ResultIsTrue == ClaimsHappened /\ PlainRunIsTold
=============================================================================
