----------------------------- MODULE ExitAssistance -----------------------------
(***************************************************************************)
(* The signal-guided exit opportunity of the production runs:              *)
(* ExitAssistanceCoordinator with exit_signal and its observer, the view   *)
(* that shows the guidance, the interaction that changes the control mode, *)
(* and the fork the Traffic Manager was told to take.                      *)
(*                                                                         *)
(* One thread, five points of an iteration (pc): the driver's input is     *)
(* collected, applied, the vehicle observed, the frame drawn and flipped.  *)
(* The clock, the vehicle and an error of the loop move between any two.   *)
(*                                                                         *)
(* Time is what the code compares: `late' (response_timeout_s have passed  *)
(* since the guidance appeared) and `phase' (the eligibility window of the *)
(* drive).  The vehicle is in one of a few places.  The coordinator and    *)
(* the route at the Traffic Manager are one record, because each of the    *)
(* code's calls changes several of its fields in sequence.                 *)
(***************************************************************************)
EXTENDS Naturals

CONSTANT MaxFaults      \* errors of the loop that pause the drive

ASSUME FaultsAssumption == MaxFaults \in Nat

NoA == "NOA_ACTIVE"
Manual == "MANUAL"

\* Where the vehicle is against the exit route: not on its approach; on an inner
\* or on the exit (target) lane of the approach; the same two past the end of the
\* guidance but before the fork; on the ramp; at the ramp's end; separated on the
\* mainline; off every known segment.
Places == {"far", "inner", "outer", "goreInner", "gore", "ramp", "exit",
           "through", "outside"}

Moves == {<<"far", "inner">>, <<"far", "outer">>, <<"far", "outside">>,
          <<"inner", "outer">>, <<"outer", "inner">>, <<"inner", "far">>,
          <<"inner", "goreInner">>, <<"outer", "gore">>,
          <<"goreInner", "gore">>, <<"gore", "goreInner">>,
          <<"inner", "outside">>, <<"outer", "outside">>, <<"gore", "outside">>,
          <<"goreInner", "through">>, <<"gore", "through">>, <<"gore", "ramp">>,
          <<"ramp", "exit">>, <<"ramp", "outside">>, <<"exit", "outside">>,
          <<"through", "far">>, <<"outside", "far">>, <<"outside", "inner">>,
          \* over a gap in the observed frames
          <<"inner", "through">>, <<"outer", "through">>, <<"outer", "ramp">>,
          <<"gore", "exit">>}

\* is_navigation_observation: route matched, an approach lane, inside the
\* guidance's envelope.
Navigable == {"inner", "outer"}
\* The station is known and not past the fork.
BeforeFork == {"inner", "outer", "goreInner", "gore"}
TargetLane == {"outer", "gore"}

\* How a call to the Traffic Manager ends: done, refused, or timed out after it
\* was done.
Answers == {"done", "refused", "timeout"}
AnswersTo(call) == IF call THEN Answers ELSE {"done"}

VARIABLES
    x,       \* the coordinator and the route at the Traffic Manager
    mode,    \* the committed control mode
    view,    \* ResearchExitViewController
    pc,
    confirm, \* driver_input.exit_confirm_requested
    late, phase,
    faults,
    visible,   \* the flipped frame invites the driver to signal (history)
    released   \* NoA ended since the driver's consent (history)

vars == <<x, mode, view, pc, confirm, late, phase, faults, visible, released>>

Init ==
    /\ x = [status       |-> "WAITING",
            decision     |-> "none",
            shown        |-> FALSE,    \* _t0
            automated    |-> FALSE,
            actual       |-> Manual,   \* _actual_mode
            closed       |-> FALSE,    \* _guidance_closed_timestamp
            presentation |-> FALSE,
            finished     |-> FALSE,
            armed        |-> FALSE,    \* _automatic_route_armed
            choice       |-> "none",   \* _route_choice
            branchFailed |-> FALSE,
            cancelBad    |-> FALSE,    \* _automatic_route_cancel_unverified
            lateral      |-> FALSE,    \* _lateral_timestamp
            path         |-> "none",   \* _path_outcome
            ended        |-> FALSE,    \* _opportunity_end_timestamp
            outside      |-> FALSE,    \* _outside_exit_since_ns
            at           |-> "unseen", \* _latest_observation
            owned        |-> FALSE,    \* backend._automatic_exit_route_owned
            route        |-> "none"]   \* what the Traffic Manager will do
    /\ mode \in {Manual, NoA}
    /\ view = [prepared |-> "none", drawn |-> FALSE, active |-> FALSE]
    /\ pc = "collect" /\ confirm = FALSE
    /\ late = FALSE /\ phase \in {"early", "open"}
    /\ faults = 0 /\ visible = FALSE /\ released = FALSE

-----------------------------------------------------------------------------
(* The route at the Traffic Manager                                        *)

\* cancel_automatic_exit_route: the backend forgets its route only when the call
\* returned.
CancelAtTM(c, answer) ==
    IF ~c.owned THEN c
    ELSE [c EXCEPT !.route = IF answer = "refused" THEN @ ELSE "none",
                   !.owned = answer # "done"]

\* _submit_exit_choice: owned before the call is made.
SubmitAtTM(c, fork, answer) ==
    [c EXCEPT !.owned = TRUE, !.route = IF answer = "refused" THEN @ ELSE fork]

\* coordinator.cancel_automatic_route: disarmed first, then asked.
CancelRoute(c, answer) ==
    IF ~c.armed THEN c
    ELSE LET d == CancelAtTM(c, answer)
         IN  [d EXCEPT !.armed = FALSE, !.cancelBad = d.owned]

Interrupt(c, answer) ==
    CancelRoute([c EXCEPT !.status = "INTERRUPTED", !.finished = TRUE,
                          !.presentation = FALSE], answer)

-----------------------------------------------------------------------------
(* The guidance                                                            *)

\* close_guidance: for good, and without an answer it is the answer.
Close(c) ==
    IF c.closed THEN c
    ELSE LET d == [c EXCEPT !.closed = TRUE, !.presentation = FALSE]
         IN  IF c.decision = "none" /\ c.actual = NoA
             THEN [d EXCEPT !.status = "NORESPONSE", !.decision = "NORESPONSE"]
             ELSE d

\* slip: the deadline is only looked at when a frame is drawn
RefreshByPlace(c) ==
    IF c.shown /\ ~c.closed /\ c.at # "unseen" /\ c.at \notin Navigable
    THEN Close(c) ELSE c

\* refresh_guidance, with the receipt of an input or the time of a frame.
Refresh(c) ==
    IF /\ c.shown /\ ~c.closed
       /\ late \/ phase = "over" \/ (c.at # "unseen" /\ c.at \notin Navigable)
    THEN Close(c) ELSE c

\* ResearchExitViewBinding.prepare_presentation: what it does ...
Prepare(c) ==
    LET d == Refresh(c) IN
    IF d.presentation /\ d.status = "DRAFT" /\ phase = "over"
    THEN [d EXCEPT !.status = "NOT_PRESENTED", !.presentation = FALSE]
    ELSE d

\* ... and what it returns: nothing, the distance alone, or the guidance under
\* which a right signal is a consent.
Prepared(c) ==
    IF ~c.presentation THEN "none"
    ELSE IF /\ ~c.closed /\ mode = NoA /\ c.at \in Navigable
            /\ c.status \in {"DRAFT", "PRESENTED", "CONFIRMED"}
    THEN "invite" ELSE "plain"

-----------------------------------------------------------------------------
(* The driver's input                                                      *)

\* _collect_driver_input: a right signal is a consent only while the guidance
\* that was flipped can still be shown, which is asked again here.  What else the
\* driver does is read when it is applied.
Collect ==
    /\ pc = "collect"
    /\ pc' = "update"
    /\ \/ UNCHANGED <<x, confirm>>
       \/ /\ view.active
          /\ x' = Prepare(x)
          /\ confirm' = (Prepared(x') = "invite")
    /\ UNCHANGED <<mode, view, late, phase, faults, visible, released>>

\* The driver's other inputs of the iteration: the opposite signal; and the NoA
\* button, which the brake and the wheel are in NoA and nothing is in MANUAL.
Signals == IF confirm THEN {"right"} ELSE {"none", "left"}
Hands == {"none", "toggle"}

\* The calls to the Traffic Manager that this iteration can make.
Withdraws(signal) == x.armed /\ x.choice = "Right" /\ signal = "left"
Submits(hand) == /\ mode = NoA /\ hand = "none" /\ x.shown /\ ~x.finished
                 /\ ~x.armed /\ ~x.branchFailed /\ x.at \in BeforeFork

\* _submit_branch: once per approach, for the driver's consent or its absence.
Branch(c, busy, submitted, cancelled) ==
    LET fork == IF c.decision = "CONFIRM" /\ c.at \in TargetLane THEN "Right"
                ELSE IF c.decision = "NORESPONSE" THEN "Straight" ELSE "none"
        d == SubmitAtTM([c EXCEPT !.armed = TRUE, !.choice = fork], fork, submitted)
    IN  IF busy \/ fork = "none" \/ c.armed \/ c.branchFailed \/ c.path = "EXIT"
           \/ c.at \notin BeforeFork
        THEN c
        ELSE IF submitted = "done" THEN d
        ELSE CancelRoute([d EXCEPT !.branchFailed = TRUE], cancelled)

\* slip: the guidance is not refreshed at the receipt of the input
SignalExitUnrefreshed(c, m, signal, hand, busy, submitted, cancelled) ==
    IF m # NoA
    THEN LET d == CancelRoute(c, cancelled)
         IN  IF d.decision = "CONFIRM" THEN Interrupt(d, cancelled) ELSE d
    ELSE IF hand = "toggle" THEN c
    ELSE LET agreed == /\ c.decision = "none" /\ ~c.closed
                       /\ confirm
             d == IF agreed
                  THEN [c EXCEPT !.status = "CONFIRMED", !.automated = TRUE,
                                 !.decision = "CONFIRM"]
                  ELSE c
         IN  IF d.decision = "CONFIRM" /\ signal = "left"
             THEN Interrupt(Close(d), cancelled)
             ELSE Branch(d, busy, submitted, cancelled)

\* update_signal_exit
SignalExit(c, m, signal, hand, busy, submitted, cancelled) ==
    LET r == Refresh(c) IN
    IF m # NoA
    THEN LET d == CancelRoute(r, cancelled)
         IN  IF d.decision = "CONFIRM" THEN Interrupt(d, cancelled) ELSE d
    ELSE IF hand = "toggle" THEN r
    ELSE LET agreed == /\ r.decision = "none" /\ ~r.closed
                       /\ confirm
             d == IF agreed
                  THEN [r EXCEPT !.status = "CONFIRMED", !.automated = TRUE,
                                 !.decision = "CONFIRM"]
                  ELSE r
         IN  IF d.decision = "CONFIRM" /\ signal = "left"
             THEN Interrupt(Close(d), cancelled)
             ELSE Branch(d, busy, submitted, cancelled)

\* ExitAssistanceCoordinator.update
Coordinate(c, m, signal, hand, busy, submitted, cancelled) ==
    IF c.finished THEN c
    ELSE LET d == [c EXCEPT !.actual = m]
         IN  IF d.shown /\ d.status # "COMPLETED"
             THEN SignalExit(d, m, signal, hand, busy, submitted, cancelled)
             ELSE d

\* A left signal withdraws an exit that was already chosen, before the mode is
\* looked at.
Withdraw(c, signal, answer) ==
    IF c.armed /\ c.choice = "Right" /\ signal = "left"
    THEN Interrupt(c, answer) ELSE c

\* NoA ended under a consent the coordinator still has.
Release(m) == released' = /\ x.decision = "CONFIRM"
                          /\ released \/ (mode = NoA /\ m = Manual)

\* ResearchExitInteractionObserver.update: the interaction commits a mode, then
\* the coordinator sees the input in that mode.  NoA is entered only when the
\* backend gave up its last route; leaving it gives it up, or fails to.
Apply ==
    /\ pc = "update"
    /\ pc' = "observe"
    /\ \E signal \in Signals, hand \in Hands :
       \E withdrawn \in AnswersTo(Withdraws(signal)),
          left \in AnswersTo(x.owned /\ hand = "toggle"),
          gate \in {TRUE, mode = NoA},
          busy \in {TRUE, ~Submits(hand)},
          submitted \in AnswersTo(Submits(hand)) :
       \E cancelled \in AnswersTo(x.armed \/ submitted # "done") :
          LET c == Withdraw(x, signal, withdrawn)
              asked == CancelAtTM(c, left)
              off == mode = NoA /\ hand = "toggle"
              on == mode = Manual /\ hand = "toggle" /\ gate
              m == IF off THEN Manual ELSE IF on THEN NoA ELSE mode
          IN  /\ on => ~asked.owned
              /\ mode' = m
              /\ x' = Coordinate(IF off \/ on THEN asked ELSE c, m, signal, hand,
                                 busy, submitted, cancelled)
              /\ Release(m)
    /\ confirm' = FALSE
    /\ UNCHANGED <<view, late, phase, faults, visible>>

-----------------------------------------------------------------------------
(* The vehicle                                                             *)

\* retire_abandoned_exit: off every known segment for two seconds, without a gap.
Retire(c, held, answer) ==
    IF ~(c.closed /\ c.at = "outside") THEN [c EXCEPT !.outside = FALSE]
    ELSE IF ~c.outside THEN [c EXCEPT !.outside = TRUE]
    ELSE IF ~held THEN c
    ELSE Interrupt([c EXCEPT !.ended = TRUE], answer)

Complete(c, answer) ==
    LET d == IF /\ ~c.automated /\ c.path = "MISSED" /\ ~c.lateral
                /\ c.decision = "none"
             THEN [c EXCEPT !.decision = "MANUAL_NOCHANGE"] ELSE c
    IN  [CancelRoute([d EXCEPT !.status = "COMPLETED"], answer)
            EXCEPT !.presentation = FALSE, !.ended = TRUE]

\* The opportunity before it was presented.
Drafted(c) ==
    CASE c.status \in {"WAITING", "DRAFT"} /\ phase = "over" ->
            [c EXCEPT !.status = "NOT_PRESENTED", !.presentation = FALSE]
      [] c.status = "WAITING" /\ phase = "open" /\ c.at \in Navigable ->
            [c EXCEPT !.status = "DRAFT", !.presentation = TRUE]
      [] c.status = "DRAFT" /\ phase # "over" ->
            IF c.at \in Navigable THEN [c EXCEPT !.presentation = TRUE]
            ELSE [c EXCEPT !.status = "WAITING", !.presentation = FALSE]
      [] OTHER -> c

\* ... and after it was.
Followed(c, onset, held, answer) ==
    LET p == [c EXCEPT !.presentation = c.at \in BeforeFork /\ ~c.closed]
        l == IF onset /\ ~p.lateral /\ p.at \in BeforeFork
             THEN [p EXCEPT !.lateral = TRUE,
                            !.decision = IF p.automated THEN @ ELSE "MANUAL_PROXY"]
             ELSE p
        w == [l EXCEPT !.path = IF l.at \in {"ramp", "exit"} THEN "EXIT"
                                ELSE IF l.at = "through" THEN "MISSED" ELSE @]
    IN  IF w.path # "none" /\ w.at \in {"exit", "through"}
        THEN Complete(w, answer) ELSE Retire(w, held, answer)

\* slip: an exit that was not presented is followed as well
ObserveAnyExit(c, place, onset, held, answer) ==
    LET seen == [c EXCEPT !.at = place]
        r == Refresh(seen)
    IN  IF c.status = "COMPLETED" \/ c.finished THEN seen
        ELSE IF r.at \in BeforeFork /\ ~r.shown THEN Drafted(r)
        ELSE Followed(r, onset, held, answer)

\* observe_exit: the guidance first, so that an opportunity never completes with
\* its guidance open.
ObserveExit(c, place, onset, held, answer) ==
    LET seen == [c EXCEPT !.at = place]
        r == Refresh(seen)
    IN  IF c.status = "COMPLETED" \/ c.finished THEN seen
        ELSE IF ~r.shown THEN Drafted(r)
        ELSE Followed(r, onset, held, answer)

\* after_control_applied: a new frame is observed, or an old one again.
Observe ==
    /\ pc = "observe"
    /\ pc' = "draw"
    /\ \/ UNCHANGED x
       \/ \E place \in Places, answer \in AnswersTo(x.armed /\ x.owned),
            onset \in {FALSE, ~x.lateral}, held \in {FALSE, x.outside} :
             /\ x.at \in {"unseen", place} \/ <<x.at, place>> \in Moves
             /\ x' = ObserveExit(x, place, onset, held, answer)
    /\ UNCHANGED <<mode, view, confirm, late, phase, faults, visible, released>>

-----------------------------------------------------------------------------
(* The view                                                                *)

\* prepare and draw
Draw ==
    /\ pc = "draw"
    /\ pc' = "flip"
    /\ x' = Prepare(x)
    /\ \E hud \in BOOLEAN :
          LET p == Prepared(x') IN
          view' = [view EXCEPT !.prepared = p,
                               !.drawn = hud /\ p # "none",
                               !.active = @ /\ hud /\ p = "invite"]
    /\ UNCHANGED <<mode, confirm, late, phase, faults, visible, released>>

\* mark_presented: from here on there is a deadline.  (That this event was shown is
\* also in the view's _presented_event_ids.)
MarkPresented(c) ==
    [c EXCEPT !.status = "PRESENTED", !.shown = TRUE, !.actual = mode,
              !.automated = (mode = NoA)]

\* mark_after_flip.  A frame without guidance ends it; a frame whose guidance
\* ended while it was drawn is no invitation.  (`prepared' and `drawn' are cleared
\* here; the code clears them when it prepares the next frame.)
Flip ==
    /\ pc = "flip"
    /\ pc' = "collect"
    /\ visible' = (view.drawn /\ view.prepared = "invite")
    /\ UNCHANGED <<mode, confirm, late, phase, faults, released>>
    /\ x' = CASE view.drawn /\ x.shown  -> Prepare(x)
              [] view.drawn /\ ~x.shown -> MarkPresented(x)
              [] ~view.drawn /\ x.shown -> Close(x)
              [] OTHER                   -> x
    /\ view' = [prepared |-> "none", drawn |-> FALSE,
                active |-> visible' /\ (x.shown => Prepared(x') = "invite")]

-----------------------------------------------------------------------------
(* What moves by itself                                                    *)

Running == pc # "stopped"

\* The guidance's deadline passes; the eligibility window opens and closes.
Clock ==
    /\ Running
    /\ \/ /\ x.shown /\ ~late /\ late' = TRUE /\ UNCHANGED phase
       \/ /\ phase' = IF phase = "early" THEN "open" ELSE "over"
          /\ UNCHANGED late
    /\ UNCHANGED <<x, mode, view, pc, confirm, faults, visible, released>>

\* Anything in the iteration raises: the drive is paused, the session requests
\* manual control (which gives up the route at the Traffic Manager, or fails to)
\* until it is granted, and the loop starts over.  The coordinator is not told.
Pause ==
    /\ Running /\ faults < MaxFaults
    /\ faults' = faults + 1
    /\ \E withdrawn, answer \in AnswersTo(x.owned) :
          \E c \in {x, IF pc = "update" THEN Withdraw(x, "left", withdrawn) ELSE x} :
             x' = CancelAtTM(c, answer)
    /\ mode' = Manual
    /\ Release(Manual)
    /\ pc' = "collect" /\ confirm' = FALSE
    /\ UNCHANGED <<view, late, phase, visible>>

\* The drive ends: coordinator.finish, after the view loop.
Finish ==
    /\ Running
    /\ pc' = "stopped"
    /\ \E answer \in AnswersTo(x.owned) :
          LET c == CancelRoute([x EXCEPT !.finished = TRUE], answer) IN
          x' = [c EXCEPT !.presentation = FALSE,
                         !.status = IF @ \in {"COMPLETED", "NOT_PRESENTED"}
                                    THEN @ ELSE "INTERRUPTED"]
    /\ UNCHANGED <<mode, view, confirm, late, phase, faults, visible, released>>

Iterate == Collect \/ Apply \/ Observe \/ Draw \/ Flip

Next == Iterate \/ Clock \/ Pause \/ Finish

Spec == Init /\ [][Next]_vars

\* The loop runs (one thread; only a paused one waits) and its clock moves on.
LiveSpec == Spec /\ WF_vars(Iterate) /\ WF_vars(Clock)

-----------------------------------------------------------------------------
(* What the opportunity promises                                           *)

TypeOK ==
    /\ x.status \in {"WAITING", "DRAFT", "PRESENTED", "CONFIRMED", "NORESPONSE",
                      "INTERRUPTED", "NOT_PRESENTED", "COMPLETED"}
    /\ x.decision \in {"none", "CONFIRM", "NORESPONSE", "MANUAL_PROXY", "MANUAL_NOCHANGE"}
    /\ x.choice \in {"none", "Right", "Straight"} /\ (x.armed => x.choice # "none")
    /\ x.route \in {"none", "Right", "Straight"}
    /\ x.at \in Places \cup {"unseen"}
    /\ mode \in {NoA, Manual}
    /\ pc \in {"collect", "update", "observe", "draw", "flip", "stopped"}
    /\ phase \in {"early", "open", "over"}
    /\ {late, visible, released} \subseteq BOOLEAN
    /\ faults \in 0..MaxFaults

\* A consent is the answer to an invitation: the driver signalled under a frame
\* that showed the guidance, and when the signal is received the guidance is still
\* open, its time not over, the vehicle on the approach and NoA driving.
ConsentWasInvited ==
    [][x'.decision = "CONFIRM" /\ x.decision # "CONFIRM" =>
         /\ visible /\ ~x.closed /\ ~late /\ phase # "over"
         /\ x.at \in Navigable /\ mode' = NoA]_vars

\* Guidance that ended, by its time, its place, a hidden HUD or the driver, is
\* never drawn again.
GuidanceStaysClosed == [][x.closed /\ pc = "draw" /\ pc' = "flip" => ~view'.drawn]_vars

\* While NoA drives, the Traffic Manager takes the exit only under a consent that
\* stands, or when the coordinator has recorded that it could not take it back.
NoStrayExit ==
    mode = NoA /\ x.route = "Right" =>
        /\ x.owned
        /\ \/ x.armed /\ x.decision = "CONFIRM" /\ x.status = "CONFIRMED"
           \/ x.cancelBad

Opportunity == INSTANCE ExitOpportunity
    WITH phase <- IF x.ended THEN "resolved"
                  ELSE IF x.shown THEN "presented" ELSE "not_presented"

\* The opportunity is what the hazard takes it for.
OpportunitySpec == Opportunity!Spec

\* Guidance that was shown ends, or the drive does.
GuidanceEnds == x.shown ~> x.closed \/ x.finished

\* The vehicle leaves the road only by invitation: no route to the exit without a consent
\* that stands, no consent outside open guidance, no guidance once it was closed.
ExitIsInvited == [](TypeOK /\ NoStrayExit) /\ ConsentWasInvited /\ GuidanceStaysClosed
=============================================================================
