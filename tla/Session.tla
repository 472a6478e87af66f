------------------------------ MODULE Session ------------------------------
(***************************************************************************)
(* One experiment session: src/p8/orchestrator.py (ExperimentSession), the *)
(* manifest it saves through src/p8/services.py, and the part of the       *)
(* component objects (src/p8/components.py, operator_components.py) that   *)
(* decides whether a stage may end.                                        *)
(*                                                                         *)
(* The session runs in one thread.  A call of transition() or abort() is   *)
(* split at every point where the code does I/O, because each of these can *)
(* raise, and because Ctrl+C can land between any two of them; pc is the   *)
(* place the call has reached.  At pc = "idle" it is the caller's turn.    *)
(***************************************************************************)
EXTENDS Naturals, Sequences

CONSTANTS
  Provenance,     \* which component graph and logger the session owns
  Modes,          \* the values services.mode may have
  Receipts,       \* stage -> the receipt names it requires (model.RECEIPTS)
  Answers,        \* the <<receipt, status>> pairs the caller may record
  Approvals,      \* the <<stage, outcome>> pairs the caller may approve
  MaxFaults,      \* bound on injected I/O failures
  MaxInterrupts   \* bound on KeyboardInterrupts

Sequence == << "SESSION_CREATED", "CONSENT_AND_ELIGIBILITY", "TRAINING",
  "EYE_TRACKER_CALIBRATION", "MODULE_1_PREPARE", "MODULE_1_RUNNING",
  "MODULE_1_COMPLETE", "REST", "MODULE_2_PREPARE", "MODULE_2_RUNNING",
  "FINAL_HAZARD", "POST_EXPERIMENT", "SESSION_COMPLETE" >>

Last == 13
Ordered == { Sequence[i] : i \in 1..Last }
Stages == Ordered \cup {"ABORTED"}
Terminal == {"SESSION_COMPLETE", "ABORTED"}
Modules == {"MODULE_1_RUNNING", "MODULE_2_RUNNING"}

ReceiptStatuses == {"DEV_STUB", "OPERATOR_CONFIRMED", "NOT_IMPLEMENTED",
                    "EXTERNAL_OPERATOR_STEP", "REFUSED"}
Outcomes == {"PARTIAL", "SKIPPED", "BLOCKED"}

ASSUME SessionAssumption ==
  /\ Provenance \in {"DEV_STUB", "ACTUAL_BOUNDED_OPERATOR"}
  /\ Modes \subseteq {"accelerated", "dev-rehearsal", "participant"}
  /\ DOMAIN Receipts = Stages /\ Receipts["SESSION_COMPLETE"] = {}
  /\ Answers \subseteq (UNION { Receipts[s] : s \in Stages }) \X ReceiptStatuses
  /\ Approvals \subseteq Stages \X Outcomes
  /\ Provenance = "ACTUAL_BOUNDED_OPERATOR" => Modes \subseteq {"dev-rehearsal"}
  /\ MaxFaults \in Nat
  /\ MaxInterrupts \in Nat

Operator == Provenance = "ACTUAL_BOUNDED_OPERATOR"
ReceiptNames == UNION { Receipts[s] : s \in Stages }
Verdicts == {"DEV_FLOW_COMPLETE", "DEV_REHEARSAL_PARTIAL_COMPLETE", "ABORTED",
             "PARTICIPANT_BLOCKED", "ENDED_AFTER_HAZARD_COLLISION"}
Record == [stage : Stages, open : BOOLEAN, backed : BOOLEAN,
           status : {"ENTERING", "RUNNING", "DEV_COMPLETED", "ABORTED"}
                      \cup Outcomes]
Manifest == [state : Stages \cup {"NONE"},
             status : Verdicts \cup {"NONE", "RUNNING"},
             stages : Seq(Record), cleaned : BOOLEAN]
NoManifest == [state |-> "NONE", status |-> "NONE", stages |-> << >>,
               cleaned |-> FALSE]
Busy == {"leave", "end", "begin", "enter", "activate", "persist", "complete"}
Aborting == {"abort", "abort_begin", "abort_end"}
Finalizing == {"flush", "cleanup", "close", "verdict", "final_save", "reduce",
               "export"}
Places == {"new", "init", "idle", "closed", "dead"}
            \cup Busy \cup Aborting \cup Finalizing

VARIABLES
  mode,        \* services.mode
  pc,          \* the point the running call has reached
  state,       \* session.state
  position,    \* SEQUENCE.index of the last ordered stage entered
  records,     \* session.records
  receipts,    \* session.receipts: name -> status, "none" when absent
  approval,    \* records[-1]["dev_approval"] outcome, or "none"
  policy,      \* records[-1]["execution_policy_outcome"] outcome, or "none"
  ripe,        \* the minimum duration of the current stage has elapsed
  work,        \* stages whose exit slot, hazard or bounded run is done
  components,  \* "absent", "live" or "clean"
  cleaned,     \* cleanup_report["completed"]
  lifecycle,   \* _lifecycle_errors is not empty
  errors,      \* the errors local to the running _finalize are not empty
  verdict,     \* the status handed to _finalize
  closed,      \* session.closed
  logClosed,   \* services.closed
  disk,        \* session_manifest.json
  tmp,         \* a .session_manifest.tmp is left in the run directory
  faults,      \* I/O failures injected so far
  interrupts   \* KeyboardInterrupts delivered so far

entry == << receipts, approval, policy, ripe >>
place == << state, position >>
disks == << disk, tmp >>
ending == << cleaned, lifecycle, errors, closed, logClosed >>
vars == << mode, pc, place, records, entry, work, components, verdict, ending,
           disks, faults, interrupts >>

Rehearsal == mode = "dev-rehearsal"

(***************************************************************************)
(* The I/O the session does.  The operator's logger and its save never     *)
(* raise (NonfatalResearchCsvLogger); the development one does.            *)
(***************************************************************************)
Fault == faults < MaxFaults /\ faults' = faults + 1

\* services.emit: refused once the log is closed, else one CSV row.
EmitOk == ~logClosed /\ UNCHANGED faults
EmitRaises == \/ logClosed /\ UNCHANGED faults
              \/ ~logClosed /\ ~Operator /\ Fault

\* The payload _save builds from the session.
Snapshot(status) == [state |-> state, status |-> status, stages |-> records,
                     cleaned |-> cleaned]

\* Development opens the temporary exclusively: a leftover one makes every
\* later save fail.  The operator's save truncates it and carries on.
StaleTmp == tmp /\ ~Operator
SaveOk(status) == /\ ~StaleTmp
                  /\ disk' = Snapshot(status) /\ tmp' = FALSE
                  /\ UNCHANGED faults
SaveFails == /\ UNCHANGED disk
             /\ \/ StaleTmp /\ UNCHANGED << tmp, faults >>
                \/ ~StaleTmp /\ Fault /\ tmp' \in {tmp, TRUE}

(***************************************************************************)
(* What lets a stage end.                                                  *)
(***************************************************************************)
Satisfied(name) ==
  \/ receipts[name] \in {"DEV_STUB", "OPERATOR_CONFIRMED"}
  \/ /\ Rehearsal /\ state = "EYE_TRACKER_CALIBRATION"
     /\ receipts[name] = "EXTERNAL_OPERATOR_STEP"
  \/ /\ Rehearsal /\ state = "POST_EXPERIMENT"
     /\ receipts[name] \in {"NOT_IMPLEMENTED", "EXTERNAL_OPERATOR_STEP", "REFUSED"}

\* completion_blocker: the operator graph never lets a driving stage count as
\* complete; the development graph wants its one exit slot or its hazard.
Blocked(stage) ==
  IF Operator
  THEN \/ stage = "TRAINING" /\ stage \notin work
       \/ stage \in Modules \cup {"FINAL_HAZARD"}
  ELSE stage \in Modules \cup {"FINAL_HAZARD"} /\ stage \notin work

Contract == /\ \A name \in Receipts[state] : Satisfied(name)
            /\ ripe
            /\ ~Blocked(state)

GuardUnblocked ==  \* slip: the component is not asked
  \/ policy # "none" \/ approval # "none"
  \/ ripe /\ \A name \in Receipts[state] : Satisfied(name)

\* _guard: a recorded outcome stands in for the contract.
Guard == IF policy # "none" THEN state = "TRAINING" => ~Blocked(state)
         ELSE approval # "none" \/ Contract

Timed(stage) == \/ stage \in Modules
                \/ stage = "REST" /\ ~(Operator /\ components # "absent")

(***************************************************************************)
(* Records.  A record starts open; its receipts and outcomes start empty.  *)
(***************************************************************************)
NewRecord(stage, status) ==
  [stage |-> stage, status |-> status, open |-> TRUE, backed |-> FALSE]
FreshEntry == /\ receipts' = [n \in ReceiptNames |-> "none"]
              /\ approval' = "none"
              /\ policy' = "none"

EndedAgain(status) ==  \* slip: a record is ended as often as it is asked
  [records EXCEPT ![Len(records)] =
     [@ EXCEPT !.status = status, !.open = FALSE, !.backed = Contract]]

\* _end_record: nothing happens to a record that has ended.  "backed" says
\* whether what the record holds meets the contract of its stage.
Ended(status) ==
  IF records[Len(records)].open
  THEN [records EXCEPT ![Len(records)] =
          [@ EXCEPT !.status = status, !.open = FALSE, !.backed = Contract]]
  ELSE records
EndOutcome == IF approval # "none" THEN approval
              ELSE IF policy # "none" THEN policy ELSE "DEV_COMPLETED"

Goto(where) == pc' = where /\ UNCHANGED verdict
Caught(reason) == pc' = "abort" /\ verdict' = reason

\* A failing save raises in development; the operator's is only noted.
Saved(next) == \/ SaveOk("RUNNING") /\ Goto(next)
               \/ SaveFails /\ IF Operator THEN Goto(next) ELSE Caught("ABORTED")

Init ==
  /\ mode \in Modes
  /\ pc = "new" /\ state = "SESSION_CREATED" /\ position = 1
  /\ records = << NewRecord("SESSION_CREATED", "RUNNING") >>
  /\ receipts = [n \in ReceiptNames |-> "none"]
  /\ approval = "none" /\ policy = "none" /\ ripe = TRUE
  /\ work = {} /\ components = "absent" /\ verdict = "none"
  /\ cleaned = FALSE /\ lifecycle = FALSE /\ errors = FALSE
  /\ closed = FALSE /\ logClosed = FALSE
  /\ disk = NoManifest /\ tmp = FALSE /\ faults = 0 /\ interrupts = 0

\* __init__: a failing event or save leaves no session object behind.
Construct ==
  /\ pc = "new"
  /\ \/ SaveOk("RUNNING") /\ Goto("init")
     \/ SaveFails /\ Goto(IF Operator THEN "init" ELSE "dead")
     \/ EmitRaises /\ Goto("dead") /\ UNCHANGED disks
  /\ UNCHANGED << place, records, entry, work, components, ending >>

\* initialize: the participant gate, the component graph, one event, a save.
Initialize ==
  /\ pc = "init"
  /\ \/ /\ mode = "participant" /\ Caught("PARTICIPANT_BLOCKED")
        /\ UNCHANGED << components, disks, faults >>
     \/ /\ mode # "participant" /\ EmitRaises /\ Caught("ABORTED")
        /\ components' \in {"absent", "live"} /\ UNCHANGED disks
     \/ mode # "participant" /\ components' = "live" /\ Saved("idle")
  /\ UNCHANGED << place, records, entry, work, ending >>

-----------------------------------------------------------------------------
(***************************************************************************)
(* The caller's operations on an open stage.                               *)
(***************************************************************************)

\* The tail of acknowledge and of the two outcome recorders: an event and a
\* save, after the session's own state has already changed.  The caller
\* aborts the session when either raises.
Recorded ==
  /\ \/ Saved("idle")
     \/ EmitRaises /\ Caught("ABORTED") /\ UNCHANGED disks
  /\ UNCHANGED << place, records, ripe, work, components, ending >>

Acknowledge(name, status) ==
  /\ pc = "idle" /\ ~closed /\ name \in Receipts[state]
  /\ receipts' = [receipts EXCEPT ![name] = status]
  /\ UNCHANGED << approval, policy >>
  /\ Recorded

ApproveDevOutcome(outcome) ==
  /\ pc = "idle" /\ Rehearsal /\ << state, outcome >> \in Approvals
  /\ state \notin Terminal \cup {"SESSION_CREATED", "REST"}
  /\ IF state = "FINAL_HAZARD" THEN outcome = "BLOCKED"
     ELSE outcome \in {"PARTIAL", "SKIPPED"}
  /\ approval' = outcome
  /\ UNCHANGED << receipts, policy >>
  /\ Recorded

\* The one outcome the execution policy may give each stage.
PolicyOutcome(stage) ==
  CASE stage \in {"CONSENT_AND_ELIGIBILITY", "POST_EXPERIMENT"} -> "SKIPPED"
    [] stage \in Modules \cup {"TRAINING"} -> "PARTIAL"
    [] stage = "FINAL_HAZARD" -> "BLOCKED"
    [] OTHER -> "none"

RecordPolicyOutcome ==
  /\ pc = "idle" /\ Rehearsal /\ Operator /\ components # "absent"
  /\ PolicyOutcome(state) # "none"
  /\ state = "TRAINING" => ~Blocked(state)
  /\ policy' = PolicyOutcome(state)
  /\ UNCHANGED << receipts, approval >>
  /\ Recorded

\* The stage's own work: the one exit slot of a module and the hazard of the
\* development graph, the one bounded run of the operator graph.
PerformWork ==
  /\ pc = "idle" /\ ~closed /\ components = "live"
  /\ state \in Modules \cup {IF Operator THEN "TRAINING" ELSE "FINAL_HAZARD"}
  /\ state \notin work
  /\ work' = work \cup {state}
  /\ UNCHANGED << pc, place, records, entry, components, verdict, ending, disks,
                  faults >>

\* Time passes in a stage with a minimum duration.
Ripen ==
  /\ pc = "idle" /\ ~closed /\ ~ripe
  /\ ripe' = TRUE
  /\ UNCHANGED << pc, place, records, receipts, approval, policy, work,
                  components, verdict, ending, disks, faults >>

\* abort(reason), from any caller while the session is open.
Abort(reason) ==
  /\ pc = "idle" /\ ~closed
  /\ Caught(reason)
  /\ UNCHANGED << place, records, entry, work, components, ending, disks, faults >>

-----------------------------------------------------------------------------
(***************************************************************************)
(* transition(target), for the only target it accepts.                     *)
(***************************************************************************)

RequestTransition ==
  /\ pc = "idle" /\ ~closed /\ state \notin Terminal
  /\ Guard /\ components # "absent"
  /\ Goto("leave")
  /\ UNCHANGED << place, records, entry, work, components, ending, disks, faults >>

\* A component call inside a transition either returns or raises.
ComponentCall(where, next) ==
  /\ pc = where
  /\ \/ Goto(next) /\ UNCHANGED faults
     \/ ~Operator /\ Fault /\ Caught("ABORTED")
  /\ UNCHANGED << place, records, entry, work, components, ending, disks >>

\* The record changes before its event is written.
EventStep(where, next, recs) ==
  /\ pc = where
  /\ records' = recs
  /\ \/ EmitOk /\ Goto(next)
     \/ EmitRaises /\ Caught("ABORTED")
  /\ UNCHANGED << work, components, ending, disks >>

LeaveStage == ComponentCall("leave", "end")

EndStage == /\ EventStep("end", "begin", Ended(EndOutcome))
            /\ UNCHANGED << place, entry >>

TargetNoRest ==  \* slip: the rest is skipped
  IF state = "MODULE_1_COMPLETE" THEN "MODULE_2_PREPARE" ELSE Sequence[position + 1]
Target == Sequence[position + 1]

BeginStage ==
  /\ EventStep("begin", "enter", Append(records, NewRecord(Target, "ENTERING")))
  /\ state' = Target /\ position' = position + 1
  /\ FreshEntry /\ ripe' = ~Timed(Target)

EnterStage == ComponentCall("enter", "activate")

ActivateStage ==
  /\ EventStep("activate",
               IF state = "SESSION_COMPLETE" THEN "complete" ELSE "persist",
               [records EXCEPT ![Len(records)] = [@ EXCEPT !.status = "RUNNING"]])
  /\ UNCHANGED << place, entry >>

PersistStage ==
  /\ pc = "persist"
  /\ Saved("idle")
  /\ UNCHANGED << place, records, entry, work, components, ending >>

CompleteStage ==
  /\ pc = "complete"
  /\ records' = Ended("DEV_COMPLETED")
  /\ \/ /\ EmitOk /\ pc' = "flush"
        /\ verdict' = IF Rehearsal THEN "DEV_REHEARSAL_PARTIAL_COMPLETE"
                      ELSE "DEV_FLOW_COMPLETE"
     \/ EmitRaises /\ Caught("ABORTED")
  /\ UNCHANGED << place, entry, work, components, ending, disks >>

-----------------------------------------------------------------------------
(***************************************************************************)
(* abort and _finalize note errors and go on.                              *)
(***************************************************************************)

\* One event of abort: a failure is kept in _lifecycle_errors.
AbortEvent(where, next, recs) ==
  /\ pc = where /\ Goto(next)
  /\ records' = recs
  /\ \/ EmitOk /\ UNCHANGED lifecycle
     \/ EmitRaises /\ lifecycle' = TRUE
  /\ UNCHANGED << work, components, cleaned, errors, closed, logClosed, disks >>

AbortRecord == /\ AbortEvent("abort", "abort_begin", Ended("ABORTED"))
               /\ UNCHANGED << place, entry >>

AbortBegin ==
  /\ AbortEvent("abort_begin", "abort_end",
                Append(records, NewRecord("ABORTED", "RUNNING")))
  /\ state' = "ABORTED" /\ UNCHANGED position
  /\ FreshEntry /\ ripe' = TRUE

AbortEnd == /\ AbortEvent("abort_end", "flush", Ended("ABORTED"))
            /\ UNCHANGED << place, entry >>

\* components.flush, then its event: either may fail in development.
Flush ==
  /\ pc = "flush" /\ Goto("cleanup")
  /\ \/ EmitOk /\ errors' = lifecycle
     \/ EmitRaises /\ errors' = TRUE
  /\ UNCHANGED << place, records, entry, work, components, cleaned, lifecycle,
                  closed, logClosed, disks >>

\* components.cleanup marks the graph clean whatever else it raises.
Cleanup ==
  /\ pc = "cleanup" /\ Goto("close")
  /\ components' = IF components = "absent" THEN "absent" ELSE "clean"
  /\ \/ EmitOk /\ UNCHANGED errors
     \/ EmitRaises /\ errors' = TRUE
  /\ UNCHANGED << place, records, entry, work, cleaned, lifecycle, closed,
                  logClosed, disks >>

CloseLog ==
  /\ pc = "close" /\ Goto("verdict")
  /\ \/ logClosed' = TRUE /\ UNCHANGED << errors, faults >>
     \/ /\ ~logClosed /\ ~Operator /\ Fault
        /\ errors' = TRUE /\ UNCHANGED logClosed
  /\ UNCHANGED << place, records, entry, work, components, cleaned, lifecycle,
                  closed, disks >>

ConcludeAnyway ==  \* slip: errors are reported but do not count
  /\ pc = "verdict" /\ pc' = "final_save"
  /\ cleaned' = ~errors /\ closed' = TRUE
  /\ UNCHANGED << verdict, place, records, entry, work, components, lifecycle,
                  errors, logClosed, disks, faults >>

\* Errors, or missing output of a complete run, turn the verdict to ABORTED.
\* inspect_outputs looks at files on disk: any of them may be missing.
Conclude ==
  /\ pc = "verdict" /\ pc' = "final_save"
  /\ cleaned' = ~errors
  /\ closed' = TRUE
  /\ \E audited \in BOOLEAN :
       /\ audited => Modules \cup {"FINAL_HAZARD"} \subseteq work
       /\ IF errors \/ (verdict = "DEV_FLOW_COMPLETE" /\ ~audited)
          THEN verdict' = "ABORTED" /\ state' = "ABORTED"
          ELSE UNCHANGED << verdict, state >>
  /\ UNCHANGED << position, records, entry, work, components, lifecycle, errors,
                  logClosed, disks, faults >>

\* The last save; the operator's reports and ZIP follow whatever it did.
FinalSave ==
  /\ pc = "final_save" /\ Goto(IF Operator THEN "reduce" ELSE "closed")
  /\ SaveOk(verdict) \/ SaveFails
  /\ UNCHANGED << place, records, entry, work, components, ending >>

\* finalize_collection and export_operator_results never raise; what they
\* write is not the session's (module SessionRecovery).
AfterSave(where, next) ==
  /\ pc = where /\ Goto(next)
  /\ UNCHANGED << place, records, entry, work, components, ending, disks, faults >>

Reduce == AfterSave("reduce", "export")
Export == AfterSave("export", "closed")

\* Ctrl+C inside a call: the runner or the command line aborts the session
\* unless it is already closed; a half-written temporary may stay behind.
Interrupt ==
  /\ \/ pc \in (Busy \cup Aborting \cup Finalizing) \ {"export"}
     \/ Operator /\ pc = "init"
  /\ interrupts < MaxInterrupts /\ interrupts' = interrupts + 1
  /\ IF closed
     THEN /\ pc' \in {"closed"} \cup (IF Operator /\ pc = "final_save"
                                     THEN {"reduce"} ELSE {})
          /\ UNCHANGED verdict
     ELSE Caught("ABORTED")
  /\ tmp' \in {tmp, tmp \/ pc \in {"persist", "final_save"}}
  /\ UNCHANGED << place, records, entry, work, components, ending, disk, faults >>

-----------------------------------------------------------------------------
CallerStep ==
  \/ \E answer \in Answers : Acknowledge(answer[1], answer[2])
  \/ \E outcome \in Outcomes : ApproveDevOutcome(outcome)
  \/ RecordPolicyOutcome
  \/ PerformWork
  \/ Ripen
  \/ \E reason \in {"ABORTED", "ENDED_AFTER_HAZARD_COLLISION"} : Abort(reason)
  \/ RequestTransition

\* The statements of a call that has been made.
CallStep ==
  \/ Construct \/ Initialize
  \/ LeaveStage \/ EndStage \/ BeginStage \/ EnterStage \/ ActivateStage
  \/ PersistStage \/ CompleteStage
  \/ AbortRecord \/ AbortBegin \/ AbortEnd
  \/ Flush \/ Cleanup \/ CloseLog \/ Conclude \/ FinalSave
  \/ Reduce \/ Export

Call == CallStep /\ UNCHANGED << mode, interrupts >>

Next == \/ CallerStep /\ UNCHANGED << mode, interrupts >>
        \/ Call
        \/ Interrupt /\ UNCHANGED mode

Spec == Init /\ [][Next]_vars

\* A call that has been made runs to its end: there is one thread and no
\* statement of it waits.
FairSpec == Spec /\ WF_vars(Call)

-----------------------------------------------------------------------------
(***************************************************************************)
(* Properties.                                                             *)
(***************************************************************************)

\* Every variable holds a value the program can hold (session fields of
\* ExperimentSession.__init__ and the manifest of _save).
TypeOK ==
  /\ mode \in Modes /\ pc \in Places
  /\ state \in Stages /\ position \in 1..Last
  /\ records \in Seq(Record) /\ records # << >>
  /\ receipts \in [ReceiptNames -> ReceiptStatuses \cup {"none"}]
  /\ approval \in Outcomes \cup {"none"} /\ policy \in Outcomes \cup {"none"}
  /\ ripe \in BOOLEAN /\ work \subseteq Modules \cup {"TRAINING", "FINAL_HAZARD"}
  /\ components \in {"absent", "live", "clean"}
  /\ verdict \in Verdicts \cup {"none"}
  /\ cleaned \in BOOLEAN /\ lifecycle \in BOOLEAN /\ errors \in BOOLEAN
  /\ closed \in BOOLEAN /\ logClosed \in BOOLEAN
  /\ disk \in Manifest /\ tmp \in BOOLEAN
  /\ faults \in Nat /\ interrupts \in Nat

\* The stage history is the protocol: the ordered stages in their order from
\* the first, none skipped or repeated, then at most one ABORTED record and
\* one more for every Ctrl+C that aborted the abort (transition, abort).
ProtocolOrder ==
  \E n \in 1..Last :
    /\ n <= Len(records) /\ Len(records) <= n + 1 + interrupts
    /\ \A i \in 1..Len(records) :
         records[i].stage = IF i <= n THEN Sequence[i] ELSE "ABORTED"

\* A stage whose record says DEV_COMPLETED met its contract when it ended:
\* receipts given, minimum duration reached, nothing blocking (_guard before
\* leave, _end_record after it).
HonestCompletion ==
  \A i \in 1..Len(records) :
    records[i].status = "DEV_COMPLETED" => records[i].backed

\* Only the last record can be open, and none is once the session is closed:
\* an abort at any point of a transition closes the stage it found open.
NoRecordLeftOpen ==
  \A i \in 1..Len(records) : records[i].open => i = Len(records) /\ ~closed

\* What the manifest calls a complete flow is one: thirteen records, each
\* completed and backed, clean-up confirmed ("cleanup failures cannot yield
\* DEV_FLOW_COMPLETE", docs/P8_Full_Experiment_Integration.md).
FlowCompleteIsComplete ==
  disk.status = "DEV_FLOW_COMPLETE" =>
    /\ disk.cleaned /\ disk.state = "SESSION_COMPLETE"
    /\ Len(disk.stages) = Last
    /\ \A i \in 1..Last : disk.stages[i].status = "DEV_COMPLETED"
                          /\ disk.stages[i].backed

\* A saved manifest never shows a stage half entered, and shows a running
\* stage exactly when it is not the final one: recovery rewrites RUNNING
\* stages and would leave an ENTERING one open for ever.
SavedStagesSettled ==
  disk # NoManifest =>
    \A i \in 1..Len(disk.stages) :
      /\ disk.stages[i].status # "ENTERING"
      /\ disk.stages[i].open <=> i = Len(disk.stages) /\ disk.status = "RUNNING"

\* A record that has ended is never rewritten and no record is dropped,
\* whatever fails or interrupts the calls that follow.
HistoryFrozen ==
  [][ \A i \in 1..Len(records) :
        ~records[i].open => /\ i <= Len(records')
                            /\ records'[i] = records[i] ]_records

\* A final status on disk is never overwritten, by a second abort, a late
\* Ctrl+C or a caller that still holds the session.
VerdictIsFinal ==
  [][ disk.status \notin Verdicts ]_disk

\* The manifest, read by its ended stages, keeps DurableSession's promise: all stages
\* but a last one that is still entered or running.
EndedStages(stages) ==
  IF stages # << >> /\ stages[Len(stages)].status \in {"RUNNING", "ENTERING"}
  THEN 1..Len(stages) - 1 ELSE 1..Len(stages)
Settled(stages) ==
  [i \in EndedStages(stages) |-> << stages[i].stage, stages[i].status >>]
Durable == INSTANCE DurableSession WITH
  AllStages <- Sequence, Outcome <- Verdicts,
  outcome <- disk.status, history <- Settled(disk.stages)
DurableSpec == Durable!Spec

-----------------------------------------------------------------------------
(***************************************************************************)
(* The inductive invariant behind the safety properties (SessionProofs).   *)
(***************************************************************************)
AfterClose == {"final_save", "reduce", "export", "closed"}
Underway == {"new", "init", "idle"} \cup Busy
LastRecord == records[Len(records)]

\* Where the call stands says where the session is.
PlaceInv ==
  /\ closed <=> pc \in AfterClose
  /\ pc \in Aborting \cup Finalizing => verdict \in Verdicts
  /\ pc \in Underway => state = Sequence[position] /\ Len(records) = position
  /\ pc \in {"leave", "end", "begin"} => position < Last
  /\ pc \in {"leave", "end"} => Guard
  /\ pc = "complete" => position = Last
  /\ pc \in {"enter", "activate", "complete"} /\ position = Last => ripe

\* Which records are open at each point of a call.
RecordInv ==
  /\ \A i \in 1..Len(records) : records[i].open => i = Len(records)
  /\ pc \in Underway \ {"begin"} => LastRecord.open
  /\ pc \in {"begin", "abort_begin", "closed"} \cup Finalizing => ~LastRecord.open

\* ProtocolOrder with position for its witness, and how many ABORTED records
\* the Ctrl+Cs so far can have caused.
OrderInv ==
  /\ position <= Len(records) /\ Len(records) <= position + 1 + interrupts
  /\ pc \in {"abort", "abort_begin"} => Len(records) <= position + interrupts
  /\ \A i \in 1..Len(records) :
       records[i].stage = IF i <= position THEN Sequence[i] ELSE "ABORTED"

\* Only a call past its last save has a final manifest behind it.
DiskInv == disk.status \in Verdicts => pc \in {"reduce", "export", "closed"}

SessionInv == TypeOK /\ PlaceInv /\ RecordInv /\ OrderInv /\ DiskInv
                     /\ HonestCompletion

-----------------------------------------------------------------------------
(***************************************************************************)
(* The invariant behind RecordsAreSettled and DurableSpec, on top of       *)
(* SessionInv.                                                             *)
(***************************************************************************)

\* A record is open as long as it is entered or runs, and entered only until the
\* call that entered it has activated it or given it up.
StatusInv ==
  /\ \A i \in 1..Len(records) :
       records[i].open <=> records[i].status \in {"ENTERING", "RUNNING"}
  /\ LastRecord.status = "ENTERING" => pc \in {"enter", "activate", "abort"}

\* Outside a rehearsal a stage ends completed or aborted, and the verdict of a
\* complete flow is behind thirteen completed records.
FlowInv ==
  /\ ~Rehearsal => approval = "none" /\ policy = "none"
  /\ ~Rehearsal /\ pc \in Underway =>
       \A i \in 1..Len(records) : records[i].open \/ records[i].status = "DEV_COMPLETED"
  /\ verdict = "DEV_FLOW_COMPLETE" =>
       /\ pc \in Finalizing \cup {"closed"} /\ state = "SESSION_COMPLETE"
       /\ position = Last /\ Len(records) = Last
       /\ \A i \in 1..Last : records[i].status = "DEV_COMPLETED"
       /\ pc \in AfterClose => cleaned

\* The session is in a final stage when its last save is made, in none before.
FinalInv ==
  /\ pc \in {"abort_end", "closed"} \cup Finalizing => state \in Terminal
  /\ pc \in Underway \ {"enter", "activate", "complete"} => position < Last

\* The manifest is a record of the session: a save shows what was saved before, and
\* calls a state final with a final status only.
LedgerInv ==
  /\ Len(disk.stages) <= Len(records)
  /\ \A i \in 1..Len(disk.stages) :
       /\ disk.stages[i].stage = records[i].stage
       /\ ~disk.stages[i].open => disk.stages[i] = records[i]
       /\ disk.stages[i].open <=> disk.stages[i].status \in {"ENTERING", "RUNNING"}
  /\ disk.state \in Terminal <=> disk.status \in Verdicts
  /\ disk.status = "NONE" => disk = NoManifest
  /\ disk = NoManifest \/ disk.stages # << >>

SettledInv == StatusInv /\ FlowInv /\ FinalInv /\ LedgerInv
                        /\ SavedStagesSettled /\ FlowCompleteIsComplete

\* What is recorded of the stages is settled: no record stays open behind another or in
\* a closed session, the saved stages are those of a settled session, and a manifest
\* that says the flow is complete holds every stage, completed and backed.
RecordsAreSettled == NoRecordLeftOpen /\ SavedStagesSettled /\ FlowCompleteIsComplete
=============================================================================
