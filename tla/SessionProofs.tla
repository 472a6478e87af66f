--------------------------- MODULE SessionProofs ---------------------------
(***************************************************************************)
(* Proofs about module Session: its type invariant and its safety          *)
(* properties for every receipt table, every choice of answers and         *)
(* approvals, and any number of I/O faults and interrupts.  And about      *)
(* module SessionRecovery: what recovery leaves is honest, the evidence is *)
(* kept, and a run that died and was recovered keeps DurableSession's      *)
(* promise like one that ended by itself, wherever the worker stops,       *)
(* whatever fails and however often the operator retries.  And about       *)
(* OperatorFlow: whatever the window, the drives and the command line do   *)
(* is a behaviour of Session; a key means what its page showed; and what   *)
(* the program tells of its drives is true, for any number of mishaps,     *)
(* interrupts and waiting events.                                          *)
(***************************************************************************)
EXTENDS OperatorFlow, SessionRecovery, FiniteSetTheorems, TLAPS

\* The stage sequence: thirteen stages, only the last of them terminal.
LEMMA SequenceFacts ==
  \A p \in 1..Last : /\ Sequence[p] \in Stages
                     /\ Sequence[p] # "ABORTED"
                     /\ Sequence[p] = "SESSION_COMPLETE" <=> p = Last
<1>1. ASSUME NEW p \in 1..Last
      PROVE  p \in {1, 2, 3, 4, 5, 6, 7, 8, 9, 10, 11, 12, 13}
  BY <1>1 DEF Last
<1>2. \A p \in 1..Last : Sequence[p] # "ABORTED"
                         /\ (Sequence[p] = "SESSION_COMPLETE" <=> p = Last)
  BY <1>1 DEF Sequence, Last
<1>3. \A p \in 1..Last : Sequence[p] \in Stages  BY DEF Stages, Ordered
<1> QED  BY <1>2, <1>3

\* Everything a contract is made of is a truth value.
LEMMA ContractType == ASSUME TypeOK PROVE Contract \in BOOLEAN
  BY DEF Contract, TypeOK

\* A new record is a record.
LEMMA NewRecordType ==
  ASSUME NEW stage \in Stages, NEW status \in {"ENTERING", "RUNNING"}
  PROVE  /\ NewRecord(stage, status) \in Record
         /\ NewRecord(stage, status).open
         /\ NewRecord(stage, status).stage = stage
         /\ NewRecord(stage, status).status = status
  BY DEF NewRecord, Record

\* _end_record touches the last record only, and only an open one.
LEMMA EndedFacts ==
  ASSUME TypeOK, NEW status \in {"DEV_COMPLETED", "ABORTED"} \cup Outcomes
  PROVE  /\ Ended(status) \in Seq(Record) /\ Len(Ended(status)) = Len(records)
         /\ \A i \in 1..Len(records) :
              /\ Ended(status)[i].stage = records[i].stage
              /\ i # Len(records) => Ended(status)[i] = records[i]
         /\ ~Ended(status)[Len(records)].open
         /\ ~LastRecord.open => Ended(status) = records
         /\ LastRecord.open =>
              /\ Ended(status)[Len(records)].status = status
              /\ Ended(status)[Len(records)].backed = Contract
<1> DEFINE n == Len(records)
           r == [records[n] EXCEPT !.status = status, !.open = FALSE,
                                   !.backed = Contract]
<1>1. n \in 1..Len(records) /\ records \in Seq(Record) /\ records[n] \in Record  BY DEF TypeOK
<1>2. r \in Record /\ r.stage = records[n].stage /\ ~r.open
      /\ r.status = status /\ r.backed = Contract
  BY <1>1, ContractType DEF Record
<1>3. CASE records[n].open
  <2>1. Ended(status) = [records EXCEPT ![n] = r]  BY <1>3 DEF Ended
  <2> HIDE DEF r
  <2>2. Ended(status) \in Seq(Record) /\ Len(Ended(status)) = n  BY <1>1, <1>2, <2>1
  <2>3. \A i \in 1..n : Ended(status)[i] = IF i = n THEN r ELSE records[i]  BY <1>1, <2>1
  <2> QED  BY <1>1, <1>2, <1>3, <2>2, <2>3 DEF LastRecord
<1>4. CASE ~records[n].open  BY <1>1, <1>4 DEF Ended, LastRecord
<1> QED  BY <1>3, <1>4

\* Appending a record keeps the ones there are.
LEMMA AppendFacts ==
  ASSUME TypeOK, NEW r \in Record
  PROVE  /\ Append(records, r) \in Seq(Record)
         /\ Len(Append(records, r)) = Len(records) + 1
         /\ Append(records, r)[Len(records) + 1] = r
         /\ \A i \in 1..Len(records) : Append(records, r)[i] = records[i]
  BY DEF TypeOK

(* What the steps of a call do to the disk. *)
DiskType == disk \in Manifest /\ tmp \in BOOLEAN /\ faults \in Nat

\* Events leave the manifest alone.
LEMMA EmitFacts ==
  ASSUME TypeOK, EmitOk \/ EmitRaises PROVE faults' \in Nat
  BY SessionAssumption DEF EmitOk, EmitRaises, Fault, TypeOK

\* A save writes the status it was given or nothing.
LEMMA SaveFacts ==
  ASSUME TypeOK, NEW status \in Verdicts \cup {"RUNNING"},
         SaveOk(status) \/ SaveFails
  PROVE  /\ DiskType'
         /\ disk' = disk \/ disk' = Snapshot(status)
         /\ SaveOk(status) => disk' = Snapshot(status)
<1>1. Snapshot(status) \in Manifest  BY DEF TypeOK, Snapshot, Manifest
<1>2. CASE SaveOk(status)  BY <1>1, <1>2 DEF TypeOK, SaveOk, DiskType
<1>3. CASE SaveFails
  <2>1. disk' = disk /\ (faults' = faults \/ faults' = faults + 1)
    BY <1>3, Zenon DEF SaveFails, Fault
  <2>2. tmp' \in BOOLEAN  BY <1>3, Zenon DEF TypeOK, SaveFails
  <2>3. SaveOk(status) => disk' = Snapshot(status)  BY Zenon DEF SaveOk
  <2> QED  BY <2>1, <2>2, <2>3 DEF TypeOK, DiskType
<1> QED  BY <1>2, <1>3

\* The save inside a call goes on, or aborts the session.
LEMMA SavedFacts ==
  ASSUME TypeOK, NEW next \in Places, Saved(next)
  PROVE  /\ DiskType'
         /\ disk' = disk \/ disk'.status = "RUNNING"
         /\ \/ pc' = next /\ verdict' = verdict
            \/ pc' = "abort" /\ verdict' = "ABORTED"
<1>1. SaveOk("RUNNING") \/ SaveFails  BY DEF Saved
<1>2. Snapshot("RUNNING").status = "RUNNING"  BY DEF Snapshot
<1>3. \/ pc' = next /\ verdict' = verdict
      \/ pc' = "abort" /\ verdict' = "ABORTED"
  BY DEF Saved, Goto, Caught
<1> QED  BY <1>1, <1>2, <1>3, SaveFacts

(* The kinds of step there are, by what they do to the records.  Rest is *)
(* what is left to check of a step once its kind has dealt with them. *)
Rest ==
  /\ mode' = mode /\ pc' \in Places /\ state' \in Stages /\ position' \in 1..Last
  /\ receipts' \in [ReceiptNames -> ReceiptStatuses \cup {"none"}]
  /\ approval' \in Outcomes \cup {"none"} /\ policy' \in Outcomes \cup {"none"}
  /\ ripe' \in BOOLEAN /\ work' \subseteq Modules \cup {"TRAINING", "FINAL_HAZARD"}
  /\ components' \in {"absent", "live", "clean"}
  /\ verdict' \in Verdicts \cup {"none"}
  /\ cleaned' \in BOOLEAN /\ lifecycle' \in BOOLEAN /\ errors' \in BOOLEAN
  /\ closed' \in BOOLEAN /\ logClosed' \in BOOLEAN
  /\ DiskType' /\ interrupts' \in Nat /\ interrupts <= interrupts'
  /\ PlaceInv' /\ DiskInv'
  /\ pc' \in {"abort", "abort_begin"} => Len(records') <= position' + interrupts'

\* A step that leaves the records as they are.
LEMMA QuietStep ==
  ASSUME SessionInv, Rest, records' = records, position' = position,
         pc' \in Underway \ {"begin"} => LastRecord.open,
         pc' \in {"begin", "abort_begin", "closed"} \cup Finalizing => ~LastRecord.open
  PROVE  SessionInv'
<1>1. TypeOK'  BY DEF SessionInv, TypeOK, Rest, DiskType
<1>2. RecordInv'  BY DEF SessionInv, RecordInv, LastRecord
<1>3. OrderInv'  BY DEF SessionInv, TypeOK, OrderInv, Rest
<1>4. HonestCompletion'  BY DEF SessionInv, HonestCompletion
<1> QED  BY <1>1, <1>2, <1>3, <1>4 DEF SessionInv, Rest

\* A step that ends the last record: with DEV_COMPLETED only behind a contract.
LEMMA EndingStep ==
  ASSUME SessionInv, Rest, position' = position,
         NEW status \in {"DEV_COMPLETED", "ABORTED"} \cup Outcomes,
         records' = Ended(status),
         pc' \notin Underway \ {"begin"},
         status = "DEV_COMPLETED" => Contract
  PROVE  SessionInv'
<1> USE DEF SessionInv
<1>1. TypeOK'  BY EndedFacts DEF TypeOK, Rest, DiskType
<1>2. RecordInv'  BY EndedFacts DEF TypeOK, RecordInv, LastRecord
<1>3. OrderInv'  BY EndedFacts DEF TypeOK, OrderInv, Rest
<1>4. HonestCompletion'
  <2>1. SUFFICES ASSUME NEW i \in 1..Len(records),
                        Ended(status)[i].status = "DEV_COMPLETED"
                 PROVE  Ended(status)[i].backed
    BY EndedFacts DEF HonestCompletion
  <2>2. CASE i # Len(records) \/ ~LastRecord.open
    <3>1. Ended(status)[i] = records[i]  BY <2>2, EndedFacts
    <3> QED  BY <2>1, <3>1 DEF HonestCompletion
  <2>3. CASE i = Len(records) /\ LastRecord.open
    <3>1. Ended(status)[i].status = status /\ Ended(status)[i].backed = Contract
      BY <2>3, EndedFacts
    <3> QED  BY <2>1, <3>1
  <2> QED  BY <2>2, <2>3
<1> QED  BY <1>1, <1>2, <1>3, <1>4 DEF Rest

\* A step that begins a record after the last one has ended.
LEMMA BeginningStep ==
  ASSUME SessionInv, Rest, NEW stage \in Stages, NEW status \in {"ENTERING", "RUNNING"},
         records' = Append(records, NewRecord(stage, status)),
         ~LastRecord.open,
         pc' \notin {"begin", "abort_begin", "closed"} \cup Finalizing,
         \/ /\ position' = position + 1 /\ Len(records) = position
            /\ stage = Sequence[position']
         \/ /\ position' = position /\ stage = "ABORTED"
            /\ Len(records) <= position + interrupts
  PROVE  SessionInv'
<1> DEFINE r == NewRecord(stage, status)
<1> USE DEF SessionInv
<1>1. r \in Record /\ r.open /\ r.stage = stage /\ r.status # "DEV_COMPLETED"  BY NewRecordType
<1> HIDE DEF r
<1>2. TypeOK'  BY <1>1, AppendFacts DEF TypeOK, Rest, DiskType, r
<1>3. Len(records') = Len(records) + 1 /\ records'[Len(records) + 1] = r
      /\ \A i \in 1..Len(records) : records'[i] = records[i]
  BY <1>1, AppendFacts DEF r
<1>4. Len(records) \in Nat /\ Len(records) > 0  BY DEF TypeOK
<1>5. RecordInv'  BY <1>1, <1>3, <1>4 DEF RecordInv, LastRecord
<1>6. OrderInv'  BY <1>1, <1>3, <1>4, SMTT(20) DEF OrderInv, TypeOK, Rest, DiskType
<1>7. HonestCompletion'  BY <1>1, <1>3, <1>4 DEF HonestCompletion
<1> QED  BY <1>2, <1>5, <1>6, <1>7 DEF Rest

(* The invariant holds at first and survives each action. *)
LEMMA InitInv == Init => SessionInv
<1> SUFFICES ASSUME Init PROVE SessionInv  OBVIOUS
<1> DEFINE r == NewRecord("SESSION_CREATED", "RUNNING")
<1>3. Sequence[1] = "SESSION_CREATED" /\ "SESSION_CREATED" \in Stages
  BY SequenceFacts DEF Sequence, Last
<1>1. r \in Record /\ r.open /\ r.stage = "SESSION_CREATED" /\ r.status = "RUNNING"
  BY <1>3, NewRecordType
<1> HIDE DEF r
<1>2. records = << r >> /\ Len(records) = 1 /\ records[1] = r  BY DEF Init, r
<1>4. NoManifest \in Manifest  BY DEF NoManifest, Manifest
<1>5. TypeOK
  <2>1. << r >> \in Seq(Record) /\ << r >> # << >>  BY <1>1
  <2>2. receipts \in [ReceiptNames -> ReceiptStatuses \cup {"none"}]  BY DEF Init
  <2>3. pc \in Places /\ state \in Stages /\ position \in 1..Last  BY <1>3 DEF Init, Places, Last
  <2>4. /\ mode \in Modes /\ approval = "none" /\ policy = "none" /\ ripe
        /\ work = {} /\ components = "absent" /\ verdict = "none"
        /\ ~cleaned /\ ~lifecycle /\ ~errors /\ ~closed /\ ~logClosed
        /\ disk = NoManifest /\ ~tmp /\ faults = 0 /\ interrupts = 0
    BY DEF Init
  <2>5. /\ {ripe, cleaned, lifecycle, errors, closed, logClosed, tmp} \subseteq BOOLEAN  BY DEF Init
  <2> QED  BY <1>2, <1>4, <2>1, <2>2, <2>3, <2>4, <2>5 DEF TypeOK
<1>6. PlaceInv  BY <1>2, <1>3 DEF Init, PlaceInv, AfterClose, Aborting, Finalizing, Underway
<1>7. RecordInv /\ OrderInv /\ HonestCompletion
  BY <1>1, <1>2, <1>3
     DEF Init, RecordInv, OrderInv, HonestCompletion, LastRecord, Finalizing
<1>8. DiskInv  BY DEF Init, DiskInv, NoManifest, Verdicts
<1> QED  BY <1>5, <1>6, <1>7, <1>8 DEF SessionInv

\* The facts every action's proof starts from.
LEMMA Here ==
  ASSUME SessionInv
  PROVE  /\ Len(records) \in Nat /\ Len(records) > 0
         /\ position \in 1..Last /\ interrupts \in Nat
         /\ pc \in Underway => Len(records) <= position + interrupts
  BY DEF SessionInv, TypeOK, PlaceInv, Last

LEMMA ConstructInv ==
  ASSUME SessionInv, Construct, UNCHANGED << mode, interrupts >> PROVE SessionInv'
<1> USE DEF SessionInv
<1>1. pc = "new" /\ UNCHANGED << place, records, entry, work, components, ending >>
  BY DEF Construct
<1>2. /\ pc' \in {"init", "dead"} /\ verdict' = verdict
      /\ DiskType' /\ (disk' = disk \/ disk'.status = "RUNNING")
  <2>1. CASE SaveOk("RUNNING") \/ SaveFails
    <3>1. DiskType' /\ (disk' = disk \/ disk' = Snapshot("RUNNING"))  BY <2>1, SaveFacts
    <3>2. pc' \in {"init", "dead"} /\ verdict' = verdict  BY DEF Construct, Goto
    <3> QED  BY <3>1, <3>2 DEF Snapshot
  <2>2. CASE EmitRaises /\ UNCHANGED disks
    BY <2>2, EmitFacts DEF Construct, Goto, disks, DiskType, TypeOK
  <2> QED  BY <2>1, <2>2 DEF Construct
<1>3. PlaceInv' /\ DiskInv'
  BY <1>1, <1>2 DEF PlaceInv, DiskInv, AfterClose, Aborting, Finalizing, Underway,
                    Busy, place, entry, ending, Verdicts
<1>4. Rest  BY <1>1, <1>2, <1>3 DEF Rest, TypeOK, Places, place, entry, ending, DiskType
<1>5. RecordInv /\ pc' \notin {"begin", "abort_begin", "closed"} \cup Finalizing
  BY <1>2 DEF Finalizing
<1> QED  BY <1>1, <1>4, <1>5, QuietStep DEF RecordInv, place, Underway, Busy

\* A step inside an open stage, which goes on in it or gives it up.
LEMMA OpenStep ==
  ASSUME SessionInv, pc \in Underway \ {"begin"},
         UNCHANGED << mode, place, records, ending, interrupts >>,
         receipts' \in [ReceiptNames -> ReceiptStatuses \cup {"none"}],
         approval' \in Outcomes \cup {"none"}, policy' \in Outcomes \cup {"none"},
         ripe' \in BOOLEAN,
         work' \subseteq Modules \cup {"TRAINING", "FINAL_HAZARD"},
         components' \in {"absent", "live", "clean"},
         DiskType', disk' = disk \/ disk'.status = "RUNNING",
         \/ pc' \in Underway \ {"begin"} /\ verdict' = verdict
         \/ pc' = "abort" /\ verdict' \in Verdicts,
         pc' \in {"leave", "end"} => position < Last /\ Guard',
         pc' = "complete" => position = Last,
         pc' \in {"enter", "activate", "complete"} /\ position = Last => ripe'
  PROVE  SessionInv'
<1> USE DEF SessionInv, Underway, Busy
<1>1. PlaceInv'  BY DEF PlaceInv, AfterClose, Aborting, Finalizing, place, ending
<1>2. DiskInv'  BY DEF DiskInv, Verdicts
<1>3. pc' \in Places /\ verdict' \in Verdicts \cup {"none"}  BY DEF TypeOK, Places, Aborting
<1>4. Rest  BY <1>1, <1>2, <1>3, Here DEF Rest, TypeOK, place, ending
<1>5. /\ LastRecord.open
      /\ pc' \notin {"begin", "abort_begin", "closed"} \cup Finalizing
  BY DEF RecordInv, Finalizing
<1> QED  BY <1>4, <1>5, QuietStep DEF place

LEMMA InitializeInv ==
  ASSUME SessionInv, Initialize, UNCHANGED << mode, interrupts >> PROVE SessionInv'
<1> USE DEF SessionInv
<1>1. /\ pc = "init" /\ UNCHANGED << place, records, entry, work, ending >>
      /\ components' \in {"absent", "live", "clean"}
  BY DEF Initialize, TypeOK
<1>2. /\ DiskType' /\ (disk' = disk \/ disk'.status = "RUNNING")
      /\ \/ pc' = "idle" /\ verdict' = verdict
         \/ pc' = "abort" /\ verdict' \in Verdicts
  <2>1. CASE Saved("idle")  BY <2>1, SavedFacts DEF Places, Verdicts
  <2>2. CASE Caught("PARTICIPANT_BLOCKED") /\ UNCHANGED << disks, faults >>
    BY <2>2 DEF Caught, disks, DiskType, TypeOK, Verdicts
  <2>3. CASE EmitRaises /\ Caught("ABORTED") /\ UNCHANGED disks
    BY <2>3, EmitFacts DEF Caught, disks, DiskType, TypeOK, Verdicts
  <2> QED  BY <2>1, <2>2, <2>3 DEF Initialize
<1> QED  BY <1>1, <1>2, OpenStep DEF Underway, Busy, TypeOK, entry

\* The common tail of the recording operations.
LEMMA RecordedInv ==
  ASSUME SessionInv, Recorded, pc = "idle", UNCHANGED << mode, interrupts >>,
         receipts' \in [ReceiptNames -> ReceiptStatuses \cup {"none"}],
         approval' \in Outcomes \cup {"none"}, policy' \in Outcomes \cup {"none"}
  PROVE  SessionInv'
<1> USE DEF SessionInv
<1>1. UNCHANGED << place, records, ripe, work, components, ending >>  BY DEF Recorded
<1>2. /\ DiskType' /\ (disk' = disk \/ disk'.status = "RUNNING")
      /\ \/ pc' = "idle" /\ verdict' = verdict
         \/ pc' = "abort" /\ verdict' \in Verdicts
  <2>1. CASE Saved("idle")  BY <2>1, SavedFacts DEF Places, Verdicts
  <2>2. CASE EmitRaises /\ Caught("ABORTED") /\ UNCHANGED disks
    BY <2>2, EmitFacts DEF Caught, disks, DiskType, TypeOK, Verdicts
  <2> QED  BY <2>1, <2>2 DEF Recorded
<1> QED  BY <1>1, <1>2, OpenStep DEF Underway, Busy, TypeOK

LEMMA CallerInv ==
  ASSUME SessionInv, CallerStep, UNCHANGED << mode, interrupts >> PROVE SessionInv'
<1> USE DEF SessionInv
<1>1. ASSUME NEW answer \in Answers, Acknowledge(answer[1], answer[2])
      PROVE  SessionInv'
  <2>1. answer[2] \in ReceiptStatuses  BY <1>1, SessionAssumption
  <2>2. receipts' \in [ReceiptNames -> ReceiptStatuses \cup {"none"}]
    BY <1>1, <2>1 DEF Acknowledge, TypeOK
  <2> QED  BY <1>1, <2>2, RecordedInv DEF Acknowledge, TypeOK
<1>2. ASSUME NEW outcome \in Outcomes, ApproveDevOutcome(outcome) PROVE SessionInv'
  BY <1>2, RecordedInv DEF ApproveDevOutcome, TypeOK
<1>3. CASE RecordPolicyOutcome
  <2>1. policy' \in Outcomes  BY <1>3 DEF RecordPolicyOutcome, PolicyOutcome, Outcomes
  <2> QED  BY <1>3, <2>1, RecordedInv DEF RecordPolicyOutcome, TypeOK
<1>4. CASE PerformWork
  <2>1. work' \subseteq Modules \cup {"TRAINING", "FINAL_HAZARD"}  BY <1>4 DEF PerformWork, TypeOK
  <2> QED
    BY <1>4, <2>1, OpenStep
       DEF PerformWork, Underway, Busy, TypeOK, entry, disks, DiskType
<1>5. CASE Ripen  BY <1>5, OpenStep DEF Ripen, Underway, Busy, TypeOK, disks, DiskType
<1>6. ASSUME NEW reason \in {"ABORTED", "ENDED_AFTER_HAZARD_COLLISION"}, Abort(reason)
      PROVE  SessionInv'
  BY <1>6, OpenStep
     DEF Abort, Caught, Verdicts, Underway, TypeOK, entry, disks, DiskType
<1>7. CASE RequestTransition
  <2>1. position < Last
    BY <1>7, SequenceFacts DEF RequestTransition, PlaceInv, TypeOK, Terminal, Last,
                               Underway
  <2>2. Guard'
    BY <1>7, Zenon DEF RequestTransition, Guard, Contract, Satisfied, Blocked, Rehearsal,
                entry, place, Goto
  <2> QED
    BY <1>7, <2>1, <2>2, OpenStep
       DEF RequestTransition, Goto, Underway, Busy, TypeOK, entry, disks, DiskType
<1> QED  BY <1>1, <1>2, <1>3, <1>4, <1>5, <1>6, <1>7 DEF CallerStep

-----------------------------------------------------------------------------
\* An event inside a transition.
LEMMA EventFacts ==
  ASSUME SessionInv, NEW spot, NEW next \in Places, NEW recs,
         EventStep(spot, next, recs)
  PROVE  /\ pc = spot /\ records' = recs
         /\ UNCHANGED << work, components, ending, disk >> /\ DiskType'
         /\ \/ pc' = next /\ verdict' = verdict
            \/ pc' = "abort" /\ verdict' = "ABORTED"
<1>1. faults' \in Nat  BY EmitFacts DEF EventStep, SessionInv
<1> QED  BY <1>1 DEF EventStep, Goto, Caught, disks, DiskType, SessionInv, TypeOK

\* A component call inside a transition.
LEMMA ComponentFacts ==
  ASSUME SessionInv, NEW spot, NEW next \in Places, ComponentCall(spot, next)
  PROVE  /\ pc = spot
         /\ UNCHANGED << place, records, entry, work, components, ending, disk >>
         /\ DiskType'
         /\ \/ pc' = next /\ verdict' = verdict
            \/ pc' = "abort" /\ verdict' = "ABORTED"
<1>1. faults' = faults \/ faults' = faults + 1  BY Zenon DEF ComponentCall, Fault
<1> QED  BY <1>1 DEF ComponentCall, Goto, Caught, disks, DiskType, SessionInv, TypeOK

LEMMA LeaveStageInv ==
  ASSUME SessionInv, LeaveStage, UNCHANGED << mode, interrupts >> PROVE SessionInv'
<1> USE DEF SessionInv
<1>1. /\ pc = "leave"
      /\ UNCHANGED << place, records, entry, work, components, ending, disk >>
      /\ DiskType'
      /\ \/ pc' = "end" /\ verdict' = verdict
         \/ pc' = "abort" /\ verdict' = "ABORTED"
  BY ComponentFacts DEF LeaveStage, Places, Busy
<1>2. position < Last /\ Guard  BY <1>1 DEF PlaceInv
<1>3. Guard'  BY <1>1, <1>2, Zenon DEF Guard, Contract, Satisfied, Blocked, Rehearsal, entry, place
<1> QED  BY <1>1, <1>2, <1>3, OpenStep DEF Underway, Busy, TypeOK, entry, Verdicts

LEMMA EnterStageInv ==
  ASSUME SessionInv, EnterStage, UNCHANGED << mode, interrupts >> PROVE SessionInv'
<1> USE DEF SessionInv
<1>1. /\ pc = "enter"
      /\ UNCHANGED << place, records, entry, work, components, ending, disk >>
      /\ DiskType'
      /\ \/ pc' = "activate" /\ verdict' = verdict
         \/ pc' = "abort" /\ verdict' = "ABORTED"
  BY ComponentFacts DEF EnterStage, Places, Busy
<1>2. position = Last => ripe  BY <1>1 DEF PlaceInv
<1> QED  BY <1>1, <1>2, OpenStep DEF Underway, Busy, TypeOK, entry, Verdicts

LEMMA PersistStageInv ==
  ASSUME SessionInv, PersistStage, UNCHANGED << mode, interrupts >> PROVE SessionInv'
<1> USE DEF SessionInv
<1>1. /\ DiskType' /\ (disk' = disk \/ disk'.status = "RUNNING")
      /\ \/ pc' = "idle" /\ verdict' = verdict
         \/ pc' = "abort" /\ verdict' = "ABORTED"
  BY SavedFacts DEF PersistStage, Places
<1> QED  BY <1>1, OpenStep DEF PersistStage, Underway, Busy, TypeOK, entry, Verdicts

\* The stage that ends has its outcome or has met its contract.
LEMMA EndStageInv ==
  ASSUME SessionInv, EndStage, UNCHANGED << mode, interrupts >> PROVE SessionInv'
<1> USE DEF SessionInv
<1>1. /\ pc = "end" /\ records' = Ended(EndOutcome)
      /\ UNCHANGED << place, entry, work, components, ending, disk >> /\ DiskType'
      /\ \/ pc' = "begin" /\ verdict' = verdict
         \/ pc' = "abort" /\ verdict' = "ABORTED"
  BY EventFacts DEF EndStage, Places, Busy
<1>2. EndOutcome \in {"DEV_COMPLETED", "ABORTED"} \cup Outcomes  BY DEF EndOutcome, TypeOK
<1>3. EndOutcome = "DEV_COMPLETED" => Contract
  BY <1>1 DEF EndOutcome, PlaceInv, Guard, TypeOK, Outcomes
<1>4. position < Last /\ state = Sequence[position] /\ Len(records) = position
  BY <1>1 DEF PlaceInv, Underway, Busy
<1>5. Len(records') = Len(records)  BY <1>1, <1>2, EndedFacts
<1>6. PlaceInv' /\ DiskInv'
  BY <1>1, <1>4, <1>5 DEF PlaceInv, DiskInv, AfterClose, Aborting, Finalizing,
                          Underway, Busy, place, entry, ending, Verdicts
<1>7. Rest
  BY <1>1, <1>4, <1>5, <1>6, Here
     DEF Rest, TypeOK, Places, Busy, Aborting, place, entry, ending, Verdicts
<1> QED  BY <1>1, <1>2, <1>3, <1>7, EndingStep DEF place, Underway, Busy

LEMMA BeginStageInv ==
  ASSUME SessionInv, BeginStage, UNCHANGED << mode, interrupts >> PROVE SessionInv'
<1> USE DEF SessionInv
<1>1. /\ pc = "begin" /\ records' = Append(records, NewRecord(Target, "ENTERING"))
      /\ UNCHANGED << work, components, ending, disk >> /\ DiskType'
      /\ \/ pc' = "enter" /\ verdict' = verdict
         \/ pc' = "abort" /\ verdict' = "ABORTED"
  BY EventFacts DEF BeginStage, Places, Busy
<1>2. /\ state' = Target /\ position' = position + 1 /\ ripe' = ~Timed(Target)
      /\ receipts' = [n \in ReceiptNames |-> "none"]
      /\ approval' = "none" /\ policy' = "none"
  BY DEF BeginStage, FreshEntry
<1>3. position < Last /\ Len(records) = position /\ position + 1 \in 1..Last
  BY <1>1 DEF PlaceInv, Underway, Busy, TypeOK, Last
<1>4. Target \in Stages /\ (position + 1 = Last => Target = "SESSION_COMPLETE")
  BY <1>3, SequenceFacts DEF Target
<1>5. position + 1 = Last => ripe'  BY <1>2, <1>4 DEF Timed, Modules
<1>6. ripe' \in BOOLEAN  BY <1>2
<1>7. Len(records') = position'  BY <1>1, <1>2, <1>3, <1>4, NewRecordType, AppendFacts
<1>8. PlaceInv' /\ DiskInv'
  BY <1>1, <1>2, <1>3, <1>5, <1>7
     DEF PlaceInv, DiskInv, AfterClose, Aborting, Finalizing, Underway, Busy,
         ending, Verdicts, Target
<1>9. Rest
  BY <1>1, <1>2, <1>3, <1>4, <1>6, <1>7, <1>8, Here
     DEF Rest, TypeOK, Places, Busy, Aborting, ending, Verdicts
<1>10. ~LastRecord.open  BY <1>1 DEF RecordInv
<1> QED  BY <1>1, <1>2, <1>3, <1>4, <1>9, <1>10, BeginningStep DEF Finalizing, Target

LEMMA ActivateStageInv ==
  ASSUME SessionInv, ActivateStage, UNCHANGED << mode, interrupts >> PROVE SessionInv'
<1> DEFINE n == Len(records)
           r == [records[n] EXCEPT !.status = "RUNNING"]
           next == IF state = "SESSION_COMPLETE" THEN "complete" ELSE "persist"
<1> USE DEF SessionInv
<1>1. next \in Places  BY DEF Places, Busy
<1>2. /\ pc = "activate" /\ records' = [records EXCEPT ![n] = r]
      /\ UNCHANGED << place, entry, work, components, ending, disk >> /\ DiskType'
      /\ \/ pc' = next /\ verdict' = verdict
         \/ pc' = "abort" /\ verdict' = "ABORTED"
  BY <1>1, EventFacts DEF ActivateStage
<1>3. n \in 1..Len(records) /\ records \in Seq(Record) /\ records[n] \in Record  BY DEF TypeOK
<1>4. r \in Record /\ r.stage = records[n].stage /\ r.open = records[n].open
      /\ r.status = "RUNNING"
  BY <1>3 DEF Record
<1> HIDE DEF r
<1>5. /\ records' \in Seq(Record) /\ Len(records') = n
      /\ \A i \in 1..n : records'[i] = IF i = n THEN r ELSE records[i]
  BY <1>2, <1>3, <1>4
<1>6. state = Sequence[position] /\ n = position /\ (position = Last => ripe)
  BY <1>2 DEF PlaceInv, Underway, Busy
<1>7. next = "complete" <=> position = Last  BY <1>6, SequenceFacts DEF TypeOK
<1> HIDE DEF next
<1>8. next \in {"persist", "complete"}  BY DEF next
<1>9. PlaceInv' /\ DiskInv'
  BY <1>2, <1>5, <1>6, <1>7, <1>8
     DEF PlaceInv, DiskInv, AfterClose, Aborting, Finalizing, Underway, Busy,
         place, entry, ending, Verdicts
<1>10. TypeOK'
  BY <1>2, <1>3, <1>5, <1>8
     DEF TypeOK, DiskType, Places, Busy, Aborting, Verdicts, place, entry, ending
<1>11. RecordInv'
  <2>1. records[n].open  BY <1>2 DEF RecordInv, LastRecord, Underway, Busy
  <2> QED
    BY <1>2, <1>3, <1>4, <1>5, <1>8, <2>1
       DEF RecordInv, LastRecord, Underway, Busy, Finalizing
<1>12. OrderInv'  BY <1>2, <1>3, <1>4, <1>5, <1>6, Here DEF OrderInv, place, TypeOK
<1>13. HonestCompletion'  BY <1>3, <1>4, <1>5 DEF HonestCompletion
<1> QED  BY <1>9, <1>10, <1>11, <1>12, <1>13

LEMMA CompleteStageInv ==
  ASSUME SessionInv, CompleteStage, UNCHANGED << mode, interrupts >> PROVE SessionInv'
<1> USE DEF SessionInv
<1>1. /\ pc = "complete" /\ records' = Ended("DEV_COMPLETED")
      /\ UNCHANGED << place, entry, work, components, ending, disk, tmp >>
  BY DEF CompleteStage, disks
<1>2. DiskType' /\ pc' \in {"flush", "abort"} /\ verdict' \in Verdicts
  <2>1. faults' \in Nat  BY EmitFacts DEF CompleteStage
  <2> QED  BY <1>1, <2>1 DEF CompleteStage, Caught, DiskType, TypeOK, Verdicts
<1>3. state = "SESSION_COMPLETE" /\ position = Last /\ Len(records) = position /\ ripe
  BY <1>1, SequenceFacts DEF PlaceInv, Underway, Busy, TypeOK
<1>4. Contract  BY <1>3, SessionAssumption DEF Contract, Blocked, Modules
<1>5. Len(records') = Len(records)  BY <1>1, EndedFacts
<1>6. PlaceInv' /\ DiskInv'
  BY <1>1, <1>2, <1>3, <1>5
     DEF PlaceInv, DiskInv, AfterClose, Aborting, Finalizing, Underway, Busy,
         ending, Verdicts
<1>7. Rest
  BY <1>1, <1>2, <1>3, <1>5, <1>6, Here
     DEF Rest, TypeOK, Places, Aborting, Finalizing, place, entry, ending
<1> QED  BY <1>1, <1>2, <1>4, <1>7, EndingStep DEF place, Underway, Busy

-----------------------------------------------------------------------------
\* An event of an abort never stops it.
LEMMA AbortEventFacts ==
  ASSUME SessionInv, NEW spot, NEW next, NEW recs, AbortEvent(spot, next, recs)
  PROVE  /\ pc = spot /\ pc' = next /\ verdict' = verdict /\ records' = recs
         /\ UNCHANGED << work, components, cleaned, errors, closed, logClosed, disk >>
         /\ DiskType' /\ lifecycle' \in BOOLEAN
<1>1. faults' \in Nat  BY EmitFacts DEF AbortEvent, SessionInv
<1>2. lifecycle' \in BOOLEAN  BY DEF AbortEvent, SessionInv, TypeOK
<1> QED  BY <1>1, <1>2 DEF AbortEvent, Goto, disks, DiskType, SessionInv, TypeOK

\* The two records an abort ends.
LEMMA AbortEndingInv ==
  ASSUME SessionInv, NEW spot \in {"abort", "abort_end"},
         NEW next \in {"abort_begin", "flush"},
         AbortEvent(spot, next, Ended("ABORTED")),
         next = "abort_begin" => spot = "abort",
         UNCHANGED << mode, interrupts, place, entry >>
  PROVE  SessionInv'
<1> USE DEF SessionInv
<1>1. /\ pc = spot /\ pc' = next /\ verdict' = verdict
      /\ records' = Ended("ABORTED") /\ DiskType' /\ lifecycle' \in BOOLEAN
      /\ UNCHANGED << work, components, cleaned, errors, closed, logClosed, disk >>
  BY AbortEventFacts
<1>2. Len(records') = Len(records)  BY <1>1, EndedFacts
<1>3. PlaceInv' /\ DiskInv'
  BY <1>1, <1>2 DEF PlaceInv, DiskInv, AfterClose, Aborting, Finalizing, Underway, Busy
<1>4. Len(records') <= position + interrupts \/ next = "flush"  BY <1>1, <1>2 DEF OrderInv
<1>5. Rest
  BY <1>1, <1>3, <1>4, Here
     DEF Rest, TypeOK, Places, Aborting, Finalizing, place, entry
<1> QED  BY <1>1, <1>5, EndingStep DEF place, Underway, Busy

LEMMA AbortBeginInv ==
  ASSUME SessionInv, AbortBegin, UNCHANGED << mode, interrupts >> PROVE SessionInv'
<1> USE DEF SessionInv
<1>1. /\ pc = "abort_begin" /\ pc' = "abort_end" /\ verdict' = verdict
      /\ records' = Append(records, NewRecord("ABORTED", "RUNNING"))
      /\ DiskType' /\ lifecycle' \in BOOLEAN
      /\ UNCHANGED << work, components, cleaned, errors, closed, logClosed, disk >>
  BY AbortEventFacts DEF AbortBegin
<1>2. /\ state' = "ABORTED" /\ position' = position /\ ripe' = TRUE
      /\ receipts' = [n \in ReceiptNames |-> "none"]
      /\ approval' = "none" /\ policy' = "none"
  BY DEF AbortBegin, FreshEntry
<1>3. "ABORTED" \in Stages /\ ~LastRecord.open /\ Len(records) <= position + interrupts
  BY <1>1 DEF Stages, RecordInv, OrderInv
<1>4. PlaceInv' /\ DiskInv'
  BY <1>1 DEF PlaceInv, DiskInv, AfterClose, Aborting, Finalizing, Underway, Busy
<1>5. Rest  BY <1>1, <1>2, <1>3, <1>4, Here DEF Rest, TypeOK, Places, Aborting
<1> QED  BY <1>1, <1>2, <1>3, <1>5, BeginningStep DEF Finalizing

-----------------------------------------------------------------------------
\* A step of _finalize: the records are closed and stay as they are.
LEMMA FinalizingStep ==
  ASSUME SessionInv, pc \in Finalizing, pc' \in Finalizing \cup {"closed"},
         UNCHANGED << mode, position, records, entry, work, interrupts, lifecycle >>,
         state' \in Stages, components' \in {"absent", "live", "clean"},
         pc' # "closed" => verdict' \in Verdicts, verdict' \in Verdicts \cup {"none"},
         cleaned' \in BOOLEAN, errors' \in BOOLEAN, closed' \in BOOLEAN,
         logClosed' \in BOOLEAN, DiskType',
         closed' <=> pc' \in AfterClose,
         DiskInv'
  PROVE  SessionInv'
<1> USE DEF SessionInv
<1>1. PlaceInv'  BY DEF PlaceInv, AfterClose, Aborting, Finalizing, Underway, Busy
<1>2. Rest  BY <1>1, Here DEF Rest, TypeOK, Places, Finalizing, entry
<1>3. ~LastRecord.open  BY DEF RecordInv
<1>4. pc' \notin Underway  BY DEF Underway, Busy, Finalizing
<1> QED  BY <1>2, <1>3, <1>4, QuietStep

LEMMA FinalizeInv ==
  ASSUME SessionInv, UNCHANGED << mode, interrupts >>,
         Flush \/ Cleanup \/ CloseLog \/ Conclude \/ FinalSave \/ Reduce \/ Export
  PROVE  SessionInv'
<1> USE DEF SessionInv, Finalizing
<1>0. pc \in Finalizing => verdict \in Verdicts  BY DEF PlaceInv
<1>1. CASE Flush
  <2>1. DiskType' /\ errors' \in BOOLEAN  BY <1>1, EmitFacts DEF Flush, disks, DiskType, TypeOK
  <2>2. ~closed /\ disk.status \notin Verdicts  BY <1>1 DEF Flush, PlaceInv, AfterClose, DiskInv
  <2> QED
    BY <1>0, <1>1, <2>1, <2>2, FinalizingStep
       DEF Flush, Goto, place, disks, TypeOK, AfterClose, DiskInv
<1>2. CASE Cleanup
  <2>1. DiskType' /\ errors' \in BOOLEAN  BY <1>2, EmitFacts DEF Cleanup, disks, DiskType, TypeOK
  <2>2. ~closed /\ disk.status \notin Verdicts  BY <1>2 DEF Cleanup, PlaceInv, AfterClose, DiskInv
  <2> QED
    BY <1>0, <1>2, <2>1, <2>2, FinalizingStep
       DEF Cleanup, Goto, place, disks, TypeOK, AfterClose, DiskInv
<1>3. CASE CloseLog
  <2>1. /\ DiskType' /\ errors' \in BOOLEAN /\ logClosed' \in BOOLEAN
    <3>1. faults' = faults \/ faults' = faults + 1  BY <1>3, Zenon DEF CloseLog, Fault
    <3>2. errors' \in BOOLEAN /\ logClosed' \in BOOLEAN  BY <1>3, Zenon DEF CloseLog, TypeOK
    <3> QED  BY <1>3, <3>1, <3>2 DEF CloseLog, disks, DiskType, TypeOK
  <2>2. ~closed /\ disk.status \notin Verdicts  BY <1>3 DEF CloseLog, PlaceInv, AfterClose, DiskInv
  <2> QED
    BY <1>0, <1>3, <2>1, <2>2, FinalizingStep
       DEF CloseLog, Goto, place, disks, TypeOK, AfterClose, DiskInv
<1>4. CASE Conclude
  <2>1. state' \in Stages /\ verdict' \in Verdicts
    BY <1>0, <1>4 DEF Conclude, TypeOK, Stages, Verdicts
  <2>2. disk.status \notin Verdicts  BY <1>4 DEF Conclude, DiskInv
  <2>3. cleaned' \in BOOLEAN  BY <1>4 DEF Conclude
  <2> QED
    BY <1>4, <2>1, <2>2, <2>3, FinalizingStep
       DEF Conclude, disks, DiskType, TypeOK, AfterClose, DiskInv
<1>5. CASE FinalSave
  <2>1. DiskType'
    <3>1. SaveOk(verdict) \/ SaveFails  BY <1>5 DEF FinalSave
    <3> QED  BY <1>0, <1>5, <3>1, SaveFacts DEF FinalSave
  <2>2. closed /\ pc' \in {"reduce", "closed"}  BY <1>5 DEF FinalSave, Goto, PlaceInv, AfterClose
  <2> QED
    BY <1>0, <1>5, <2>1, <2>2, FinalizingStep
       DEF FinalSave, Goto, place, ending, TypeOK, AfterClose, DiskInv
<1>6. CASE Reduce \/ Export
  <2>1. closed  BY <1>6 DEF Reduce, Export, AfterSave, PlaceInv, AfterClose
  <2> QED
    BY <1>0, <1>6, <2>1, FinalizingStep, ZenonT(40)
       DEF Reduce, Export, AfterSave, Goto, place, ending, disks, DiskType, TypeOK,
           AfterClose, DiskInv
<1> QED  BY <1>1, <1>2, <1>3, <1>4, <1>5, <1>6

LEMMA InterruptInv ==
  ASSUME SessionInv, Interrupt, UNCHANGED mode PROVE SessionInv'
<1> USE DEF SessionInv
<1>1. /\ interrupts' = interrupts + 1
      /\ UNCHANGED << place, records, entry, work, components, ending, disk, faults >>
  BY DEF Interrupt
<1>2. DiskType'
  <2>1. tmp' \in BOOLEAN  BY DEF Interrupt, TypeOK
  <2> QED  BY <1>1, <2>1 DEF DiskType, TypeOK
<1>3. CASE closed
  <2>1. /\ pc \in {"final_save", "reduce"} /\ pc' \in {"closed", "reduce"}
        /\ verdict' = verdict
    BY <1>3 DEF Interrupt, PlaceInv, AfterClose, Busy, Aborting, Finalizing
  <2>2. PlaceInv' /\ DiskInv'
    BY <1>1, <1>3, <2>1 DEF PlaceInv, DiskInv, AfterClose, Aborting, Finalizing,
                            Underway, Busy, ending
  <2>3. Rest
    BY <1>1, <1>2, <2>1, <2>2, Here
       DEF Rest, TypeOK, Places, Finalizing, place, entry, ending
  <2>4. ~LastRecord.open  BY <2>1 DEF RecordInv, Finalizing
  <2> QED  BY <1>1, <2>1, <2>3, <2>4, QuietStep DEF place, Underway, Busy
<1>4. CASE ~closed
  <2>1. pc' = "abort" /\ verdict' = "ABORTED"  BY <1>4 DEF Interrupt, Caught
  <2>2. pc \notin AfterClose  BY <1>4 DEF PlaceInv
  <2>3. PlaceInv' /\ DiskInv'
    BY <1>1, <1>4, <2>1, <2>2
       DEF PlaceInv, DiskInv, AfterClose, Aborting, Finalizing, Underway, Busy,
           ending, Verdicts
  <2>4. Len(records) <= position + interrupts'  BY <1>1, Here DEF OrderInv, TypeOK
  <2>5. Rest
    BY <1>1, <1>2, <2>1, <2>3, <2>4, Here
       DEF Rest, TypeOK, Places, Aborting, Verdicts, place, entry, ending
  <2> QED  BY <1>1, <2>1, <2>5, QuietStep DEF place, Underway, Busy, Finalizing
<1> QED  BY <1>3, <1>4

\* Every step of the session keeps the invariant.
LEMMA NextInv == ASSUME SessionInv, [Next]_vars PROVE SessionInv'
<1>1. CASE UNCHANGED vars
  <2>1. /\ UNCHANGED << mode, place, records, ending, work, components, verdict,
                        receipts, approval, policy, ripe, interrupts, pc >>
        /\ UNCHANGED << disk, tmp, faults >>
    BY <1>1 DEF vars, entry, disks
  <2>2. UNCHANGED << state, position, cleaned, lifecycle, errors, closed, logClosed >>
    BY <2>1 DEF place, ending
  <2>3. TypeOK' /\ RecordInv' /\ OrderInv' /\ DiskInv' /\ HonestCompletion'
    BY <2>1, <2>2 DEF SessionInv, TypeOK, RecordInv, OrderInv, DiskInv,
                      HonestCompletion, LastRecord
  <2>4. Guard' = Guard  BY <2>1, <2>2, Zenon DEF Guard, Contract, Satisfied, Blocked, Rehearsal
  <2>5. PlaceInv'  BY <2>1, <2>2, <2>4 DEF SessionInv, PlaceInv
  <2> QED  BY <2>3, <2>5 DEF SessionInv
<1>2. CASE CallerStep /\ UNCHANGED << mode, interrupts >>  BY <1>2, CallerInv
<1>3. CASE Call
  <2>1. AbortRecord => SessionInv'  BY <1>3, AbortEndingInv DEF AbortRecord, Call
  <2>2. AbortEnd => SessionInv'  BY <1>3, AbortEndingInv DEF AbortEnd, Call
  <2> QED
    BY <1>3, <2>1, <2>2, ConstructInv, InitializeInv, LeaveStageInv, EndStageInv,
       BeginStageInv, EnterStageInv, ActivateStageInv, PersistStageInv,
       CompleteStageInv, AbortBeginInv, FinalizeInv DEF Call, CallStep
<1>4. CASE Interrupt /\ UNCHANGED mode  BY <1>4, InterruptInv
<1> QED  BY <1>1, <1>2, <1>3, <1>4 DEF Next

(* The theorems. *)

\* The inductive invariant: types, the place of the call, the open record,
\* the stage order, the manifest's status and the backing of completions.
THEOREM Invariance == Spec => []SessionInv
<1>1. Init => SessionInv  BY InitInv
<1>2. SessionInv /\ [Next]_vars => SessionInv'  BY NextInv
<1> QED  BY <1>1, <1>2, PTL DEF Spec

\* ExperimentSession's fields and its manifest stay within their types.
THEOREM TypeCorrect == Spec => []TypeOK
<1>1. SessionInv => TypeOK  BY DEF SessionInv
<1> QED  BY <1>1, Invariance, PTL

\* transition and abort follow the protocol's stage order, whatever faults
\* and interrupts meet them.
THEOREM StagesInOrder == Spec => []ProtocolOrder
<1>1. SessionInv => ProtocolOrder  BY Here DEF SessionInv, OrderInv, ProtocolOrder
<1> QED  BY <1>1, Invariance, PTL

\* No stage is recorded as DEV_COMPLETED without its contract (_guard).
THEOREM CompletionIsHonest == Spec => []HonestCompletion
<1>1. SessionInv => HonestCompletion  BY DEF SessionInv
<1> QED  BY <1>1, Invariance, PTL

\* A closed session has no open record; an open one at most its last.
THEOREM RecordsAreClosed == Spec => []NoRecordLeftOpen
<1>1. SessionInv => NoRecordLeftOpen
  BY Here DEF SessionInv, RecordInv, NoRecordLeftOpen, PlaceInv, LastRecord,
              AfterClose, Finalizing
<1> QED  BY <1>1, Invariance, PTL

\* An ended record is never rewritten or dropped: only _end_record and
\* _activate_record change a record, and each finds the last one open.
THEOREM HistoryIsFrozen == Spec => HistoryFrozen
<1> DEFINE Frozen == \A i \in 1..Len(records) :
                       ~records[i].open => /\ i <= Len(records')
                                           /\ records'[i] = records[i]
<1>1. SessionInv /\ [Next]_vars => [Frozen]_records
  <2> SUFFICES ASSUME SessionInv, [Next]_vars, records' # records PROVE Frozen  OBVIOUS
  <2> USE DEF SessionInv
  <2>1. ASSUME NEW status \in {"DEV_COMPLETED", "ABORTED"} \cup Outcomes,
               records' = Ended(status)
        PROVE  Frozen
    BY <2>1, EndedFacts, Here DEF LastRecord
  <2>2. ASSUME NEW stage \in Stages, NEW status \in {"ENTERING", "RUNNING"},
               records' = Append(records, NewRecord(stage, status))
        PROVE  Frozen
    BY <2>2, NewRecordType, AppendFacts, Here
  <2>3. CASE ActivateStage
    <3>1. LastRecord.open  BY <2>3 DEF ActivateStage, EventStep, RecordInv, Underway, Busy
    <3>2. /\ Len(records') = Len(records)
          /\ \A i \in 1..Len(records) : i # Len(records) => records'[i] = records[i]
      BY <2>3 DEF ActivateStage, EventStep, TypeOK
    <3> QED  BY <3>1, <3>2, Here DEF LastRecord
  <2>4. CASE EndStage
    <3>1. EndOutcome \in {"DEV_COMPLETED", "ABORTED"} \cup Outcomes  BY DEF EndOutcome, TypeOK
    <3> QED  BY <2>1, <2>4, <3>1 DEF EndStage, EventStep
  <2>5. CASE BeginStage
    <3>1. pc = "begin" /\ records' = Append(records, NewRecord(Target, "ENTERING"))
      BY <2>5 DEF BeginStage, EventStep
    <3>2. Target \in Stages  BY <3>1, SequenceFacts DEF Target, PlaceInv, TypeOK, Last
    <3> QED  BY <2>2, <3>1, <3>2
  <2>6. CASE AbortBegin  BY <2>2, <2>6 DEF AbortBegin, AbortEvent, Stages
  <2>7. CASE CompleteStage \/ AbortRecord \/ AbortEnd
    BY <2>1, <2>7 DEF CompleteStage, AbortRecord, AbortEnd, AbortEvent
  <2>8. CASE CallerStep
    BY <2>8 DEF CallerStep, Acknowledge, ApproveDevOutcome, RecordPolicyOutcome, Recorded,
                PerformWork, Ripen, Abort, RequestTransition
  <2>9. CASE Interrupt  BY <2>9 DEF Interrupt
  <2> QED
    BY <2>3, <2>4, <2>5, <2>6, <2>7, <2>8, <2>9
       DEF Next, vars, Call, CallStep, Construct, Initialize, LeaveStage, EnterStage,
           ComponentCall, PersistStage, Flush, Cleanup, CloseLog, Conclude, FinalSave,
           Reduce, Export, AfterSave
<1> QED  BY <1>1, Invariance, PTL DEF Spec, HistoryFrozen

\* A final status in the manifest stays: after the last save no step writes.
THEOREM VerdictStays == Spec => VerdictIsFinal
<1>1. SessionInv /\ [Next]_vars => [disk.status \notin Verdicts]_disk
  <2> SUFFICES ASSUME SessionInv, [Next]_vars, disk.status \in Verdicts
               PROVE  disk' = disk
    OBVIOUS
  <2>1. pc \in {"reduce", "export", "closed"}  BY DEF SessionInv, DiskInv
  <2>2. CASE CallerStep
    BY <2>1, <2>2 DEF CallerStep, Acknowledge, ApproveDevOutcome, RecordPolicyOutcome,
                      PerformWork, Ripen, Abort, RequestTransition
  <2>3. CASE CallStep
    BY <2>1, <2>3
       DEF CallStep, Construct, Initialize, LeaveStage, EnterStage, ComponentCall,
           EndStage, BeginStage, ActivateStage, EventStep, PersistStage, CompleteStage,
           AbortRecord, AbortBegin, AbortEnd, AbortEvent, Flush, Cleanup, CloseLog,
           Conclude, FinalSave, Reduce, Export, AfterSave, disks
  <2>4. CASE Interrupt  BY <2>4 DEF Interrupt
  <2> QED  BY <2>2, <2>3, <2>4 DEF Next, Call, vars, disks
<1> QED  BY <1>1, Invariance, PTL DEF Spec, VerdictIsFinal

(* What is recorded is settled, and the manifest keeps its promise. *)

\* What a step does to the records: nothing, or one of three things to the last one.
KeepsRecords ==
  /\ records' = records
  /\ pc \in {"enter", "activate", "abort"} => pc' \in {"enter", "activate", "abort"}
EndsRecord(status) ==
  /\ records' = Ended(status) /\ pc \in {"end", "complete", "abort", "abort_end"}
  /\ pc = "end" => status = EndOutcome
  /\ pc = "complete" => status = "DEV_COMPLETED"
  /\ pc \in {"abort", "abort_end"} => pc' \in {"abort_begin", "flush"}
BeginsRecord(stage, status) ==
  /\ records' = Append(records, NewRecord(stage, status)) /\ ~LastRecord.open
  /\ \/ pc = "begin" /\ pc' \in {"enter", "abort"}
     \/ pc = "abort_begin" /\ pc' = "abort_end" /\ status = "RUNNING"

Endings == {"DEV_COMPLETED", "ABORTED"} \cup Outcomes

\* Every step is of one of these kinds.
LEMMA RecordSteps ==
  ASSUME SessionInv, [Next]_vars
  PROVE  \/ KeepsRecords
         \/ \E status \in Endings : EndsRecord(status)
         \/ \E stage \in Stages, status \in {"ENTERING", "RUNNING"} :
               BeginsRecord(stage, status)
         \/ ActivateStage
<1> USE DEF SessionInv
<1>1. CASE UNCHANGED vars  BY <1>1 DEF vars, KeepsRecords
<1>2. CASE CallerStep
  <2>1. pc = "idle" /\ records' = records
    BY <1>2 DEF CallerStep, Acknowledge, ApproveDevOutcome, RecordPolicyOutcome, Recorded,
                PerformWork, Ripen, Abort, RequestTransition
  <2> QED  BY <2>1 DEF KeepsRecords
<1>3. CASE Interrupt  BY <1>3 DEF Interrupt, Caught, KeepsRecords, PlaceInv, AfterClose
<1>4. CASE EndStage
  <2>1. EndOutcome \in Endings /\ pc = "end"
    BY <1>4 DEF EndOutcome, TypeOK, Endings, EndStage, EventStep
  <2> QED  BY <1>4, <2>1 DEF EndStage, EventStep, EndsRecord
<1>5. CASE CompleteStage  BY <1>5 DEF CompleteStage, EndsRecord, Endings
<1>6. CASE AbortRecord \/ AbortEnd
  BY <1>6 DEF AbortRecord, AbortEnd, AbortEvent, Goto, EndsRecord, Endings
<1>7. CASE BeginStage
  <2>1. pc = "begin" /\ records' = Append(records, NewRecord(Target, "ENTERING"))
        /\ pc' \in {"enter", "abort"}
    BY <1>7 DEF BeginStage, EventStep, Goto, Caught
  <2>2. Target \in Stages /\ ~LastRecord.open
    BY <2>1, SequenceFacts, SMTT(20) DEF Target, PlaceInv, RecordInv, TypeOK, Last
  <2> QED  BY <2>1, <2>2 DEF BeginsRecord
<1>8. CASE AbortBegin
  <2>1. ~LastRecord.open /\ "ABORTED" \in Stages
    BY <1>8 DEF AbortBegin, AbortEvent, RecordInv, Stages
  <2> QED  BY <1>8, <2>1 DEF AbortBegin, AbortEvent, Goto, BeginsRecord
<1>9. CASE LeaveStage \/ EnterStage
  BY <1>9 DEF LeaveStage, EnterStage, ComponentCall, Goto, Caught, KeepsRecords
<1>10. CASE Construct \/ Initialize \/ PersistStage \/ Flush \/ Cleanup \/ CloseLog
              \/ Conclude \/ FinalSave \/ Reduce \/ Export
  BY <1>10 DEF Construct, Initialize, PersistStage, Flush, Cleanup, CloseLog, Conclude,
               FinalSave, Reduce, Export, AfterSave, KeepsRecords
<1> QED
  BY <1>1, <1>2, <1>3, <1>4, <1>5, <1>6, <1>7, <1>8, <1>9, <1>10
     DEF Next, Call, CallStep

\* What a step does to the manifest: nothing, or a save of one of two kinds.
SavesRunning ==
  /\ disk' = Snapshot("RUNNING") /\ pc \in {"new", "init", "idle", "persist"}
  /\ records' = records
SavesVerdict ==
  /\ disk' = Snapshot(verdict) /\ pc = "final_save"
  /\ records' = records

\* Every step is of one of these kinds, and none saves behind a final status.
LEMMA DiskSteps ==
  ASSUME SessionInv, [Next]_vars
  PROVE  /\ disk' = disk \/ SavesRunning \/ SavesVerdict
         /\ disk' # disk => disk.status \in {"NONE", "RUNNING"}
<1> USE DEF SessionInv
<1>1. ASSUME NEW next, Saved(next), pc \in {"new", "init", "idle", "persist"},
             records' = records
      PROVE  disk' = disk \/ SavesRunning
  BY <1>1 DEF Saved, SaveOk, SaveFails, SavesRunning
<1>2. disk' = disk \/ SavesRunning \/ SavesVerdict
  <2>1. CASE UNCHANGED vars  BY <2>1 DEF vars, disks
  <2>2. CASE CallerStep
    <3>1. pc = "idle" /\ (disk' = disk \/ Saved("idle")) /\ records' = records
      BY <2>2 DEF CallerStep, Acknowledge, ApproveDevOutcome, RecordPolicyOutcome,
                  Recorded, PerformWork, Ripen, Abort, RequestTransition, disks
    <3> QED  BY <1>1, <3>1
  <2>3. CASE Interrupt  BY <2>3 DEF Interrupt
  <2>4. CASE Construct  BY <2>4 DEF Construct, SaveOk, SaveFails, disks, SavesRunning
  <2>5. CASE Initialize  BY <1>1, <2>5 DEF Initialize, disks
  <2>6. CASE PersistStage  BY <1>1, <2>6 DEF PersistStage
  <2>7. CASE FinalSave  BY <2>7 DEF FinalSave, SaveOk, SaveFails, SavesVerdict
  <2>8. CASE CallStep /\ ~Construct /\ ~Initialize /\ ~PersistStage /\ ~FinalSave
    BY <2>8 DEF CallStep, LeaveStage, EnterStage, ComponentCall, EndStage, BeginStage,
                ActivateStage, EventStep, CompleteStage, AbortRecord, AbortBegin, AbortEnd,
                AbortEvent, Flush, Cleanup, CloseLog, Conclude, Reduce, Export, AfterSave,
                disks
  <2> QED  BY <2>1, <2>2, <2>3, <2>4, <2>5, <2>6, <2>7, <2>8 DEF Next, Call
<1>3. SavesRunning \/ SavesVerdict => disk.status \notin Verdicts
  BY DEF SavesRunning, SavesVerdict, DiskInv
<1> QED  BY <1>2, <1>3 DEF TypeOK, Manifest

-----------------------------------------------------------------------------
\* Records stay open as long as they are entered or run.
LEMMA StatusStep ==
  ASSUME SessionInv, StatusInv, [Next]_vars PROVE StatusInv'
<1> USE DEF SessionInv
<1>1. CASE KeepsRecords  BY <1>1 DEF KeepsRecords, StatusInv, LastRecord
<1>2. ASSUME NEW status \in Endings, EndsRecord(status) PROVE StatusInv'
  <2>1. /\ records' = Ended(status) /\ Len(records') = Len(records)
        /\ records[Len(records)] \in Record /\ status \notin {"ENTERING", "RUNNING"}
    BY <1>2, EndedFacts, Here DEF EndsRecord, Endings, Outcomes, TypeOK
  <2>2. ~records'[Len(records)].open
        /\ records'[Len(records)].status \notin {"ENTERING", "RUNNING"}
    BY <2>1, EndedFacts, Here DEF StatusInv, LastRecord, Endings
  <2>3. \A i \in 1..Len(records) : i # Len(records) => records'[i] = records[i]
    BY <2>1, EndedFacts DEF Endings
  <2> QED  BY <2>1, <2>2, <2>3, Here DEF StatusInv, LastRecord
<1>3. ASSUME NEW stage \in Stages, NEW status \in {"ENTERING", "RUNNING"},
             BeginsRecord(stage, status)
      PROVE  StatusInv'
  <2> DEFINE r == NewRecord(stage, status)
  <2>1. r \in Record /\ r.open /\ r.status = status  BY NewRecordType
  <2> HIDE DEF r
  <2>2. /\ Len(records') = Len(records) + 1 /\ records'[Len(records) + 1] = r
        /\ \A i \in 1..Len(records) : records'[i] = records[i]
    BY <1>3, <2>1, AppendFacts DEF BeginsRecord, r
  <2>3. status = "ENTERING" => pc' \in {"enter", "activate", "abort"}  BY <1>3 DEF BeginsRecord
  <2> QED  BY <2>1, <2>2, <2>3, Here DEF StatusInv, LastRecord
<1>4. CASE ActivateStage
  <2> DEFINE n == Len(records)
             r == [records[n] EXCEPT !.status = "RUNNING"]
  <2>1. pc = "activate" /\ records' = [records EXCEPT ![n] = r]
    BY <1>4 DEF ActivateStage, EventStep
  <2>2. n \in 1..Len(records) /\ records \in Seq(Record) /\ records[n] \in Record  BY DEF TypeOK
  <2>3. r.status = "RUNNING" /\ r.open = records[n].open  BY <2>2 DEF Record
  <2> HIDE DEF r
  <2>4. /\ Len(records') = n
        /\ \A i \in 1..n : records'[i] = IF i = n THEN r ELSE records[i]
    BY <2>1, <2>2
  <2>5. records[n].open  BY <2>1 DEF RecordInv, LastRecord, Underway, Busy
  <2> QED  BY <2>2, <2>3, <2>4, <2>5 DEF StatusInv, LastRecord
<1> QED  BY <1>1, <1>2, <1>3, <1>4, RecordSteps

\* What a step does besides: the mode stays, outcomes are for rehearsals, no call is
\* taken up again once it was given up, and the verdict of a complete flow is reached
\* in one place and stays until the end.
LEMMA ControlSteps ==
  ASSUME SessionInv, FlowInv, [Next]_vars
  PROVE  /\ mode' = mode
         /\ ~Rehearsal => approval' \in {approval, "none"} /\ policy' \in {policy, "none"}
         /\ pc' \in Underway => pc \in Underway
         /\ verdict' = "DEV_FLOW_COMPLETE" =>
              \/ CompleteStage /\ ~Rehearsal /\ pc' = "flush"
              \/ /\ verdict = verdict' /\ records' = records /\ UNCHANGED place
                 /\ pc' \in Finalizing \cup {"closed"}
                 /\ pc' \in AfterClose => cleaned'
<1> USE DEF SessionInv
<1> DEFINE Kept == verdict' = "DEV_FLOW_COMPLETE" =>
              \/ CompleteStage /\ ~Rehearsal /\ pc' = "flush"
              \/ /\ verdict = verdict' /\ records' = records /\ UNCHANGED place
                 /\ pc' \in Finalizing \cup {"closed"}
                 /\ pc' \in AfterClose => cleaned'
<1>1. CASE UNCHANGED vars  BY <1>1 DEF vars, place, entry, ending, FlowInv
<1>2. CASE CallerStep /\ UNCHANGED << mode, interrupts >>
  <2>1. pc = "idle" /\ mode' = mode
    BY <1>2 DEF CallerStep, Acknowledge, ApproveDevOutcome, RecordPolicyOutcome, Recorded,
                PerformWork, Ripen, Abort, RequestTransition
  <2>2. ~Rehearsal => approval' = approval /\ policy' = policy
    BY <1>2 DEF CallerStep, Acknowledge, ApproveDevOutcome, RecordPolicyOutcome, Recorded,
                PerformWork, Ripen, Abort, RequestTransition, entry
  <2>3. verdict' = verdict \/ verdict' \in {"ABORTED", "ENDED_AFTER_HAZARD_COLLISION"}
    BY <1>2 DEF CallerStep, Acknowledge, ApproveDevOutcome, RecordPolicyOutcome, Recorded,
                Saved, Goto, Caught, PerformWork, Ripen, Abort, RequestTransition
  <2>4. verdict # "DEV_FLOW_COMPLETE"  BY <2>1 DEF FlowInv, Finalizing
  <2> QED  BY <2>1, <2>2, <2>3, <2>4 DEF Underway
<1>3. CASE Interrupt /\ UNCHANGED mode
  <2>1. UNCHANGED << entry, records, place, ending >>  BY <1>3 DEF Interrupt
  <2>2. CASE closed
    BY <1>3, <2>1, <2>2 DEF Interrupt, PlaceInv, AfterClose, Busy, Aborting, Finalizing,
                            Underway, FlowInv, entry, place, ending
  <2>3. CASE ~closed  BY <1>3, <2>1, <2>3 DEF Interrupt, Caught, Underway, Busy, entry
  <2> QED  BY <2>2, <2>3
<1>4. CASE Call
  <2>1. mode' = mode  BY <1>4 DEF Call
  <2>2. approval' \in {approval, "none"} /\ policy' \in {policy, "none"}
    BY <1>4 DEF Call, CallStep, Construct, Initialize, LeaveStage, EnterStage, ComponentCall,
                EndStage, BeginStage, ActivateStage, EventStep, CompleteStage, PersistStage,
                AbortRecord, AbortBegin, AbortEnd, AbortEvent, Flush, Cleanup, CloseLog,
                Conclude, FinalSave, Reduce, Export, AfterSave, FreshEntry, entry
  <2>3. pc' \in Underway => pc \in Underway
    BY <1>4 DEF Call, CallStep, Construct, Initialize, LeaveStage, EnterStage, ComponentCall,
                EndStage, BeginStage, ActivateStage, EventStep, CompleteStage, PersistStage,
                AbortRecord, AbortBegin, AbortEnd, AbortEvent, Flush, Cleanup, CloseLog,
                Conclude, FinalSave, Reduce, Export, AfterSave, Goto, Caught, Underway, Busy
  <2>4. Kept
    <3>1. CASE CompleteStage  BY <3>1 DEF CompleteStage, Caught
    <3>2. CASE pc \in Underway \cup Aborting /\ ~CompleteStage
      <4>1. verdict # "DEV_FLOW_COMPLETE"  BY <3>2 DEF FlowInv, Underway, Aborting, Finalizing, Busy
      <4>2. verdict' = verdict \/ verdict' \in {"ABORTED", "PARTICIPANT_BLOCKED"}
        BY <1>4, <3>2
           DEF Call, CallStep, Construct, Initialize, LeaveStage, EnterStage, ComponentCall,
               EndStage, BeginStage, ActivateStage, EventStep, PersistStage, Saved,
               AbortRecord, AbortBegin, AbortEnd, AbortEvent, Flush, Cleanup, CloseLog,
               Conclude, FinalSave, Reduce, Export, AfterSave, Goto, Caught
      <4> QED  BY <4>1, <4>2
    <3>3. CASE Flush \/ Cleanup \/ CloseLog
      BY <3>3 DEF Flush, Cleanup, CloseLog, Goto, Finalizing, AfterClose, place
    <3>4. CASE Conclude  BY <3>4, Zenon DEF Conclude, Finalizing, FlowInv, place
    <3>5. CASE FinalSave \/ Reduce \/ Export
      BY <3>5 DEF FinalSave, Reduce, Export, AfterSave, Goto, Finalizing, AfterClose, place,
                  ending, FlowInv
    <3>6. pc \in Underway \cup Aborting
            \/ Flush \/ Cleanup \/ CloseLog \/ Conclude \/ FinalSave \/ Reduce \/ Export
      BY <1>4 DEF Call, CallStep, Construct, Initialize, LeaveStage, EnterStage,
                  ComponentCall, EndStage, BeginStage, ActivateStage, EventStep,
                  CompleteStage, PersistStage, AbortRecord, AbortBegin, AbortEnd, AbortEvent,
                  Underway, Busy, Aborting
    <3> QED  BY <3>1, <3>2, <3>3, <3>4, <3>5, <3>6
  <2> QED  BY <2>1, <2>2, <2>3, <2>4
<1> QED  BY <1>1, <1>2, <1>3, <1>4 DEF Next

\* Only completed stages lie behind the verdict of a complete flow.
LEMMA FlowStep ==
  ASSUME SessionInv, FlowInv, [Next]_vars PROVE FlowInv'
<1> USE DEF SessionInv
<1>1. ~Rehearsal' => approval' = "none" /\ policy' = "none"  BY ControlSteps DEF FlowInv, Rehearsal
<1>2. ASSUME ~Rehearsal', pc' \in Underway, NEW i \in 1..Len(records')
      PROVE  records'[i].open \/ records'[i].status = "DEV_COMPLETED"
  <2>1. /\ ~Rehearsal /\ pc \in Underway /\ approval = "none" /\ policy = "none"
        /\ \A j \in 1..Len(records) : records[j].open \/ records[j].status = "DEV_COMPLETED"
    BY <1>2, ControlSteps DEF FlowInv, Rehearsal
  <2>2. CASE KeepsRecords  BY <1>2, <2>1, <2>2 DEF KeepsRecords
  <2>3. ASSUME NEW status \in Endings, EndsRecord(status)
        PROVE  records'[i].open \/ records'[i].status = "DEV_COMPLETED"
    <3>1. status = "DEV_COMPLETED" /\ records' = Ended(status)
      BY <1>2, <2>1, <2>3 DEF EndsRecord, Underway, Busy, EndOutcome
    <3> QED  BY <1>2, <2>1, <3>1, EndedFacts, Here DEF LastRecord
  <2>4. ASSUME NEW stage \in Stages, NEW status \in {"ENTERING", "RUNNING"},
               BeginsRecord(stage, status)
        PROVE  records'[i].open \/ records'[i].status = "DEV_COMPLETED"
    BY <1>2, <2>1, <2>4, NewRecordType, AppendFacts, Here DEF BeginsRecord
  <2>5. CASE ActivateStage
    <3>1. /\ Len(records') = Len(records)
          /\ \A j \in 1..Len(records) : /\ j # Len(records) => records'[j] = records[j]
                                       /\ records'[j].open = records[j].open
      BY <2>5 DEF ActivateStage, EventStep, TypeOK, Record
    <3>2. records[Len(records)].open
      BY <2>5 DEF ActivateStage, EventStep, RecordInv, LastRecord, Underway, Busy
    <3> QED  BY <1>2, <2>1, <3>1, <3>2, Here
  <2> QED  BY <2>2, <2>3, <2>4, <2>5, RecordSteps
<1>3. ASSUME verdict' = "DEV_FLOW_COMPLETE"
      PROVE  /\ pc' \in Finalizing \cup {"closed"} /\ state' = "SESSION_COMPLETE"
             /\ position' = Last /\ Len(records') = Last
             /\ \A i \in 1..Last : records'[i].status = "DEV_COMPLETED"
             /\ pc' \in AfterClose => cleaned'
  <2>1. CASE CompleteStage /\ ~Rehearsal /\ pc' = "flush"
    <3>1. pc = "complete" /\ records' = Ended("DEV_COMPLETED")
          /\ state' = state /\ position' = position
      BY <2>1 DEF CompleteStage, place
    <3>2. state = "SESSION_COMPLETE" /\ position = Last /\ Len(records) = Last
      BY <3>1, SequenceFacts DEF PlaceInv, Underway, Busy, TypeOK
    <3>3. records[Last].open /\ LastRecord = records[Last]
      BY <3>1, <3>2 DEF RecordInv, LastRecord, Underway, Busy
    <3>4. \A i \in 1..Last : i # Last => records[i].status = "DEV_COMPLETED"
      BY <2>1, <3>1, <3>2 DEF FlowInv, RecordInv, Underway, Busy
    <3>5. Last \in Nat \ {0} /\ TypeOK  BY SequenceFacts DEF Last
    <3> DEFINE ended == Ended("DEV_COMPLETED")
    <3>6. /\ Len(ended) = Last /\ ended[Last].status = "DEV_COMPLETED"
          /\ \A i \in 1..Last : i # Last => ended[i] = records[i]
      BY <3>2, <3>3, <3>5, EndedFacts
    <3> HIDE DEF ended
    <3>7. \A i \in 1..Last : ended[i].status = "DEV_COMPLETED"  BY <3>4, <3>6
    <3>8. records' = ended  BY <3>1 DEF ended
    <3> QED  BY <2>1, <3>1, <3>2, <3>6, <3>7, <3>8 DEF Finalizing, AfterClose
  <2>2. CASE ~(CompleteStage /\ ~Rehearsal /\ pc' = "flush")
    BY <1>3, <2>2, ControlSteps DEF FlowInv, place
  <2> QED  BY <2>1, <2>2
<1> QED  BY <1>1, <1>2, <1>3 DEF FlowInv

\* The last save finds the session in a final stage, the others do not.
LEMMA FinalStep ==
  ASSUME SessionInv, FinalInv, [Next]_vars PROVE FinalInv'
<1> USE DEF SessionInv
<1>1. CASE UNCHANGED vars  BY <1>1 DEF vars, place, FinalInv
<1>2. CASE CallerStep
  <2>1. pc = "idle" /\ pc' \in {"idle", "leave", "abort"} /\ UNCHANGED place
    BY <1>2 DEF CallerStep, Acknowledge, ApproveDevOutcome, RecordPolicyOutcome, Recorded,
                Saved, PerformWork, Ripen, Abort, RequestTransition, Goto, Caught
  <2> QED  BY <2>1 DEF FinalInv, Underway, Busy, Finalizing, place
<1>3. CASE Interrupt
  BY <1>3 DEF Interrupt, Caught, FinalInv, PlaceInv, AfterClose, Underway, Busy, Finalizing,
              place
<1>4. CASE ActivateStage
  <2>1. /\ pc = "activate" /\ UNCHANGED place
        /\ pc' \in {IF state = "SESSION_COMPLETE" THEN "complete" ELSE "persist", "abort"}
    BY <1>4 DEF ActivateStage, EventStep, Goto, Caught
  <2>2. state = "SESSION_COMPLETE" <=> position = Last
    BY <2>1, SequenceFacts DEF PlaceInv, Underway, Busy, TypeOK
  <2> QED  BY <2>1, <2>2 DEF FinalInv, Underway, Busy, Finalizing, place, TypeOK, Last
<1>5. CASE CompleteStage
  <2>1. state = "SESSION_COMPLETE"
    BY <1>5, SequenceFacts DEF CompleteStage, PlaceInv, Underway, Busy, TypeOK
  <2> QED
    BY <1>5, <2>1 DEF CompleteStage, Caught, FinalInv, Underway, Busy, Finalizing, place,
                      Terminal
<1>6. CASE LeaveStage \/ EndStage \/ BeginStage \/ EnterStage \/ PersistStage
             \/ Construct \/ Initialize
  BY <1>6 DEF LeaveStage, EndStage, BeginStage, EnterStage, PersistStage, Construct,
              Initialize, EventStep, ComponentCall, Saved, Goto, Caught, FinalInv,
              PlaceInv, Underway, Busy, Finalizing, place
<1>7. CASE AbortRecord \/ AbortBegin \/ AbortEnd
  BY <1>7 DEF AbortRecord, AbortBegin, AbortEnd, AbortEvent, Goto, FinalInv, Underway, Busy,
              Finalizing, place, Terminal
<1>8. CASE Flush \/ Cleanup \/ CloseLog \/ FinalSave \/ Reduce \/ Export
  BY <1>8 DEF Flush, Cleanup, CloseLog, FinalSave, Reduce, Export, AfterSave, Goto, FinalInv,
              Underway, Busy, Finalizing, place
<1>9. CASE Conclude
  <2>1. pc = "verdict" /\ pc' = "final_save" /\ state' \in {state, "ABORTED"}
    BY <1>9, Zenon DEF Conclude
  <2> QED  BY <2>1 DEF FinalInv, Underway, Busy, Finalizing, Terminal
<1> QED  BY <1>1, <1>2, <1>3, <1>4, <1>5, <1>6, <1>7, <1>8, <1>9 DEF Next, Call, CallStep

\* The place of a save says what it shows.
LEMMA SaveShows ==
  ASSUME SessionInv, StatusInv, FinalInv, SavesRunning \/ SavesVerdict
  PROVE  /\ disk'.stages = records /\ disk'.state = state /\ disk'.cleaned = cleaned
         /\ disk' # NoManifest /\ records' = records /\ records # << >>
         /\ LastRecord.open <=> disk'.status = "RUNNING"
         /\ LastRecord.status # "ENTERING"
         /\ \/ disk'.status = "RUNNING" /\ state \notin Terminal
            \/ pc = "final_save" /\ disk'.status = verdict /\ verdict \in Verdicts
               /\ state \in Terminal
<1> USE DEF SessionInv
<1>1. ASSUME NEW status
      PROVE  /\ Snapshot(status).stages = records /\ Snapshot(status).state = state
             /\ Snapshot(status).cleaned = cleaned /\ Snapshot(status).status = status
  BY DEF Snapshot
<1>2. CASE SavesRunning
  <2>1. position < Last /\ state = Sequence[position]
    BY <1>2 DEF SavesRunning, FinalInv, PlaceInv, Underway, Busy
  <2>2. state \notin Terminal  BY <2>1, SequenceFacts DEF TypeOK, Terminal, Last
  <2>3. LastRecord.open /\ LastRecord.status # "ENTERING"
    BY <1>2 DEF SavesRunning, RecordInv, StatusInv, Underway, Busy
  <2> QED  BY <1>1, <1>2, <2>2, <2>3 DEF SavesRunning, NoManifest, TypeOK
<1>3. CASE SavesVerdict
  <2>1. state \in Terminal /\ verdict \in Verdicts /\ ~LastRecord.open
        /\ LastRecord.status # "ENTERING"
    BY <1>3 DEF SavesVerdict, FinalInv, PlaceInv, RecordInv, StatusInv, Finalizing
  <2> QED  BY <1>1, <1>3, <2>1 DEF SavesVerdict, NoManifest, TypeOK, Verdicts
<1> QED  BY <1>2, <1>3

\* What is saved of a record that has ended is what is recorded of it.
LEMMA LedgerStep ==
  ASSUME SessionInv, StatusInv, FinalInv, LedgerInv, [Next]_vars PROVE LedgerInv'
<1> USE DEF SessionInv
<1>1. CASE SavesRunning \/ SavesVerdict  BY <1>1, SaveShows, Here DEF LedgerInv, StatusInv, Verdicts
<1>2. CASE disk' = disk
  <2>1. SUFFICES /\ Len(disk.stages) <= Len(records')
                 /\ \A i \in 1..Len(disk.stages) :
                      /\ disk.stages[i].stage = records'[i].stage
                      /\ ~disk.stages[i].open => disk.stages[i] = records'[i]
    BY <1>2 DEF LedgerInv
  <2>2. /\ Len(disk.stages) \in Nat /\ Len(disk.stages) <= Len(records)
        /\ \A i \in 1..Len(disk.stages) :
              /\ i \in 1..Len(records)
              /\ disk.stages[i].stage = records[i].stage
              /\ ~disk.stages[i].open => disk.stages[i] = records[i] /\ ~records[i].open
    BY Here DEF LedgerInv, TypeOK, Manifest
  <2>3. CASE KeepsRecords  BY <2>2, <2>3 DEF KeepsRecords
  <2>4. ASSUME NEW status \in Endings, EndsRecord(status)
        PROVE  /\ Len(records') = Len(records)
               /\ \A i \in 1..Len(records) :
                    /\ records'[i].stage = records[i].stage
                    /\ ~records[i].open => records'[i] = records[i]
    BY <2>4, EndedFacts, Here DEF EndsRecord, Endings, LastRecord
  <2>5. ASSUME NEW stage \in Stages, NEW status \in {"ENTERING", "RUNNING"},
               BeginsRecord(stage, status)
        PROVE  /\ Len(records') = Len(records) + 1
               /\ \A i \in 1..Len(records) : records'[i] = records[i]
    BY <2>5, NewRecordType, AppendFacts DEF BeginsRecord
  <2>6. CASE ActivateStage
    <3>1. /\ Len(records') = Len(records)
          /\ \A j \in 1..Len(records) : /\ j # Len(records) => records'[j] = records[j]
                                       /\ records'[j].stage = records[j].stage
      BY <2>6 DEF ActivateStage, EventStep, TypeOK, Record
    <3>2. records[Len(records)].open
      BY <2>6 DEF ActivateStage, EventStep, RecordInv, LastRecord, Underway, Busy
    <3> QED  BY <2>2, <3>1, <3>2, Here
  <2>7. CASE \E status \in Endings : EndsRecord(status)  BY <2>2, <2>4, <2>7, Here
  <2>8. CASE \E stage \in Stages, status \in {"ENTERING", "RUNNING"} :
               BeginsRecord(stage, status)
    BY <2>2, <2>5, <2>8, Here
  <2> QED  BY <2>3, <2>6, <2>7, <2>8, RecordSteps
<1> QED  BY <1>1, <1>2, DiskSteps

\* The saved stages are settled, and a complete flow is one.
LEMMA SavedStep ==
  ASSUME SessionInv, SettledInv, [Next]_vars
  PROVE  SavedStagesSettled' /\ FlowCompleteIsComplete'
<1> USE DEF SessionInv, SettledInv
<1>1. CASE disk' = disk  BY <1>1 DEF SavedStagesSettled, FlowCompleteIsComplete
<1>2. CASE SavesRunning \/ SavesVerdict
  <2>1. SavedStagesSettled'
    BY <1>2, SaveShows, Here DEF SavedStagesSettled, StatusInv, RecordInv, LastRecord
  <2>2. ASSUME disk'.status = "DEV_FLOW_COMPLETE" PROVE FlowCompleteIsComplete'
    <3>1. pc = "final_save" /\ verdict = "DEV_FLOW_COMPLETE"  BY <1>2, <2>2, SaveShows
    <3>2. /\ cleaned /\ state = "SESSION_COMPLETE" /\ Len(records) = Last
          /\ \A i \in 1..Last : records[i].status = "DEV_COMPLETED"
      BY <3>1 DEF FlowInv, AfterClose
    <3> QED  BY <1>2, <3>2, SaveShows DEF FlowCompleteIsComplete, HonestCompletion
  <2> QED  BY <2>1, <2>2 DEF FlowCompleteIsComplete
<1> QED  BY <1>1, <1>2, DiskSteps

LEMMA SettledInit == Init => SettledInv
<1> SUFFICES ASSUME Init PROVE SettledInv  OBVIOUS
<1> DEFINE r == NewRecord("SESSION_CREATED", "RUNNING")
<1>1. "SESSION_CREATED" \in Stages  BY SequenceFacts DEF Sequence, Last
<1>2. r.open /\ r.stage = "SESSION_CREATED" /\ r.status = "RUNNING"  BY <1>1, NewRecordType
<1> HIDE DEF r
<1>3. records = << r >> /\ Len(records) = 1 /\ records[1] = r  BY DEF Init, r
<1>4. StatusInv  BY <1>2, <1>3 DEF StatusInv, LastRecord
<1>5. FlowInv  BY <1>2, <1>3 DEF Init, FlowInv, Underway
<1>6. FinalInv  BY DEF Init, FinalInv, Finalizing, Last
<1>7. disk = NoManifest /\ disk.status = "NONE" /\ disk.state = "NONE" /\ disk.stages = << >>
  BY DEF Init, NoManifest
<1>8. LedgerInv  BY <1>3, <1>7 DEF LedgerInv, Terminal, Verdicts
<1>9. SavedStagesSettled /\ FlowCompleteIsComplete
  BY <1>7 DEF SavedStagesSettled, FlowCompleteIsComplete
<1> QED  BY <1>4, <1>5, <1>6, <1>8, <1>9 DEF SettledInv

\* Every step of the session keeps both invariants.
LEMMA SettledNext ==
  ASSUME SessionInv, SettledInv, [Next]_vars PROVE SettledInv'
  BY StatusStep, FlowStep, FinalStep, LedgerStep, SavedStep DEF SettledInv

LEMMA SettledAlways == Spec => [](SessionInv /\ SettledInv)
<1>1. Init => SessionInv /\ SettledInv  BY InitInv, SettledInit
<1>2. SessionInv /\ SettledInv /\ [Next]_vars => (SessionInv /\ SettledInv)'
  BY NextInv, SettledNext
<1> QED  BY <1>1, <1>2, PTL DEF Spec

\* No stage is left open behind another or in a closed session, no half entered stage is
\* saved, and a manifest that says the flow is complete holds every stage, completed
\* and backed (ExperimentSession._save, _end_record, _finalize).
THEOREM RecordsStaySettled == Spec => []RecordsAreSettled
<1>1. SessionInv => NoRecordLeftOpen
  BY Here DEF SessionInv, RecordInv, NoRecordLeftOpen, PlaceInv, LastRecord,
              AfterClose, Finalizing
<1>2. SessionInv /\ SettledInv => RecordsAreSettled  BY <1>1 DEF SettledInv, RecordsAreSettled
<1> QED  BY <1>2, SettledAlways, PTL

(* The manifest as a reader sees it: module DurableSession. *)

\* Settled is a sequence: all of the stages, or all but the last.
LEMMA SettledFacts ==
  ASSUME NEW stages \in Seq(Record)
  PROVE  \E n \in Nat :
           /\ n <= Len(stages) /\ Len(stages) <= n + 1
           /\ n = Len(stages) <=> \/ stages = << >>
                                 \/ stages[Len(stages)].status \notin {"RUNNING", "ENTERING"}
           /\ EndedStages(stages) = 1..n
           /\ Len(Settled(stages)) = n
           /\ \A i \in 1..n : Settled(stages)[i] = << stages[i].stage, stages[i].status >>
<1> DEFINE running == stages # << >>
                       /\ stages[Len(stages)].status \in {"RUNNING", "ENTERING"}
           n == IF running THEN Len(stages) - 1 ELSE Len(stages)
<1>1. n \in Nat /\ n <= Len(stages) /\ Len(stages) <= n + 1
      /\ (n = Len(stages) <=> ~running)
  OBVIOUS
<1>2. EndedStages(stages) = 1..n  BY DEF EndedStages
<1> HIDE DEF n
<1>3. Settled(stages) = [i \in 1..n |-> << stages[i].stage, stages[i].status >>]
  BY <1>2 DEF Settled
<1>4. Len(Settled(stages)) = n  BY <1>1, <1>3
<1>5. \A i \in 1..n : Settled(stages)[i] = << stages[i].stage, stages[i].status >>  BY <1>3
<1> QED  BY <1>1, <1>2, <1>4, <1>5

\* A history of which one shows more than the other is extended by it.
LEMMA SettledExtends ==
  ASSUME NEW old \in Seq(Record), NEW new \in Seq(Record), Len(old) <= Len(new),
         \A i \in 1..Len(old) :
           /\ i < Len(old) => old[i].status \notin {"RUNNING", "ENTERING"}
           /\ old[i].status \notin {"RUNNING", "ENTERING"} =>
                /\ new[i].stage = old[i].stage /\ new[i].status = old[i].status
  PROVE  Durable!Extends(Settled(old), Settled(new))
<1>1. PICK n \in Nat :
           /\ n <= Len(old) /\ Len(old) <= n + 1
           /\ n = Len(old) <=> \/ old = << >>
                               \/ old[Len(old)].status \notin {"RUNNING", "ENTERING"}
           /\ Len(Settled(old)) = n
           /\ \A i \in 1..n : Settled(old)[i] = << old[i].stage, old[i].status >>
  BY SettledFacts
<1>2. PICK m \in Nat :
           /\ m <= Len(new) /\ Len(new) <= m + 1
           /\ m = Len(new) <=> \/ new = << >>
                               \/ new[Len(new)].status \notin {"RUNNING", "ENTERING"}
           /\ Len(Settled(new)) = m
           /\ \A i \in 1..m : Settled(new)[i] = << new[i].stage, new[i].status >>
  BY SettledFacts
<1>3. \A i \in 1..n : /\ i \in 1..Len(old) /\ old[i].status \notin {"RUNNING", "ENTERING"}
                     /\ new[i].stage = old[i].stage /\ new[i].status = old[i].status
  <2> TAKE i \in 1..n
  <2>1. i \in 1..Len(old)  BY <1>1
  <2>2. old[i].status \notin {"RUNNING", "ENTERING"}
    <3>1. CASE i < Len(old)  BY <2>1, <3>1
    <3>2. CASE i = Len(old)
      <4>1. n = Len(old) /\ old # << >>  BY <1>1, <2>1, <3>2
      <4> QED  BY <1>1, <3>2, <4>1
    <3> QED  BY <2>1, <3>1, <3>2
  <2> QED  BY <2>1, <2>2
<1>4. n <= m
  <2>1. CASE n < Len(new)  BY <1>2, <2>1
  <2>2. CASE n = Len(new) /\ n > 0
    <3>1. new[Len(new)].status \notin {"RUNNING", "ENTERING"}  BY <1>3, <2>2
    <3> QED  BY <1>2, <2>2, <3>1
  <2>3. CASE n = 0  BY <1>2, <2>3
  <2> QED  BY <1>1, <2>1, <2>2, <2>3
<1>5. \A i \in 1..n : Settled(new)[i] = Settled(old)[i]
  <2> TAKE i \in 1..n
  <2>1. i \in 1..m  BY <1>4
  <2>2. Settled(new)[i] = << new[i].stage, new[i].status >>  BY <1>2, <2>1
  <2>3. Settled(old)[i] = << old[i].stage, old[i].status >>  BY <1>1
  <2> QED  BY <1>3, <2>2, <2>3, Zenon
<1> QED  BY <1>1, <1>2, <1>4, <1>5 DEF Durable!Extends

\* Every step of the session is one of DurableSession or changes nothing of it.
LEMMA DurableStep ==
  ASSUME SessionInv, SettledInv, [Next]_vars
  PROVE  [Durable!Next]_<< disk.status, Settled(disk.stages) >>
<1> USE DEF SessionInv, SettledInv
<1>1. CASE disk' = disk  BY <1>1 DEF Settled, EndedStages
<1>2. CASE disk' # disk
  <2>1. SavesRunning \/ SavesVerdict  BY <1>2, DiskSteps
  <2>2. disk.status \in {"NONE", "RUNNING"}  BY <1>2, DiskSteps
  <2>3. disk.stages \in Seq(Record) /\ records \in Seq(Record)  BY DEF TypeOK, Manifest
  <2>4. Durable!Extends(Settled(disk.stages), Settled(records))
    <3>1. Len(disk.stages) <= Len(records)  BY DEF LedgerInv
    <3>2. ASSUME NEW i \in 1..Len(disk.stages)
          PROVE  /\ i < Len(disk.stages) => disk.stages[i].status \notin {"RUNNING", "ENTERING"}
                 /\ disk.stages[i].status \notin {"RUNNING", "ENTERING"} =>
                      /\ records[i].stage = disk.stages[i].stage
                      /\ records[i].status = disk.stages[i].status
      <4>1. disk # NoManifest  BY <2>3, <3>2 DEF NoManifest
      <4> QED  BY <2>3, <3>2, <4>1 DEF LedgerInv, SavedStagesSettled
    <3> QED  BY <2>3, <3>1, <3>2, SettledExtends
  <2>5. disk'.stages = records  BY <2>1, SaveShows
  <2>6. Durable!Extends(Settled(disk.stages), Settled(disk.stages)')
    BY <2>4, <2>5 DEF Settled, EndedStages
  <2>7. CASE disk'.status = "RUNNING"
    BY <2>2, <2>6, <2>7 DEF Durable!Next, Durable!Save, Durable!Extends
  <2>8. CASE disk'.status # "RUNNING"
    <3>1. disk'.status \in Verdicts  BY <2>1, <2>8, SaveShows
    <3>2. ASSUME disk'.status = "DEV_FLOW_COMPLETE"
          PROVE  Durable!Complete(Settled(disk.stages)')
      <4>1. pc = "final_save" /\ verdict = "DEV_FLOW_COMPLETE"  BY <2>1, <3>2, SaveShows
      <4>2. /\ position = Last /\ Len(records) = Last
            /\ \A i \in 1..Last : records[i].status = "DEV_COMPLETED"
        BY <4>1 DEF FlowInv
      <4>3. \A i \in 1..Last : records[i].stage = Sequence[i]  BY <4>2 DEF OrderInv, Last
      <4>4. Settled(disk.stages)' = Settled(records)  BY <2>5 DEF Settled, EndedStages
      <4>5. PICK n \in Nat :
               /\ n = Len(records) <=> \/ records = << >>
                                      \/ records[Len(records)].status \notin {"RUNNING", "ENTERING"}
               /\ Len(Settled(records)) = n
               /\ \A i \in 1..n : Settled(records)[i] = << records[i].stage, records[i].status >>
        BY <2>3, SettledFacts
      <4>6. n = Last  BY <4>2, <4>5 DEF Last
      <4>7. Len(Sequence) = Last  BY DEF Sequence, Last
      <4>8. ASSUME NEW i \in 1..n
            PROVE  Settled(records)[i] = << Sequence[i], "DEV_COMPLETED" >>
        <5>1. records[i].stage = Sequence[i] /\ records[i].status = "DEV_COMPLETED"
          BY <4>2, <4>3, <4>6, <4>8
        <5>2. Settled(records)[i] = << records[i].stage, records[i].status >>  BY <4>5, <4>8
        <5> QED  BY <5>1, <5>2
      <4> QED  BY <4>4, <4>5, <4>6, <4>7, <4>8 DEF Durable!Complete
    <3> QED  BY <2>2, <2>6, <3>1, <3>2 DEF Durable!Next, Durable!Decide
  <2> QED  BY <2>7, <2>8
<1> QED  BY <1>1, <1>2

\* The run directory keeps DurableSession's promise, whatever fails or interrupts the
\* session: its history only grows, its outcome is decided once, and a complete flow
\* is every stage completed (ExperimentSession._save).
THEOREM SessionIsDurable == Spec => DurableSpec
<1>1. Init => Durable!Init
  <2> SUFFICES ASSUME Init PROVE Durable!Init  OBVIOUS
  <2>1. disk.status = "NONE" /\ disk.stages = << >>  BY DEF Init, NoManifest
  <2>2. Settled(disk.stages) = << >>  BY <2>1 DEF Settled, EndedStages
  <2> QED  BY <2>1, <2>2 DEF Durable!Init
<1>2. SessionInv /\ SettledInv /\ [Next]_vars
        => [Durable!Next]_<< disk.status, Settled(disk.stages) >>
  BY DurableStep
<1> QED  BY <1>1, <1>2, SettledAlways, PTL DEF Spec, DurableSpec, Durable!Spec

-----------------------------------------------------------------------------
(* SessionRecovery *)

\* A recovered manifest is one: same stages, none running, decided.
LEMMA RecoveredFacts ==
  ASSUME disk \in Manifest
  PROVE  /\ Recovered(disk) \in Manifest
         /\ Recovered(disk).state = "ABORTED" /\ Recovered(disk).status = "ABORTED"
         /\ Len(Recovered(disk).stages) = Len(disk.stages)
         /\ \A i \in 1..Len(disk.stages) :
              /\ Recovered(disk).stages[i].stage = disk.stages[i].stage
              /\ Recovered(disk).stages[i].backed = disk.stages[i].backed
              /\ Recovered(disk).stages[i].status =
                   IF disk.stages[i].status = "RUNNING" THEN "ABORTED"
                   ELSE disk.stages[i].status
<1> DEFINE n == Len(disk.stages)
           mark(r) == IF r.status = "RUNNING" THEN [r EXCEPT !.status = "ABORTED"] ELSE r
           new == [i \in 1..n |-> mark(disk.stages[i])]
<1>1. n \in Nat /\ \A i \in 1..n : disk.stages[i] \in Record  BY DEF Manifest
<1>2. ASSUME NEW r \in Record
      PROVE  /\ mark(r) \in Record /\ mark(r).stage = r.stage /\ mark(r).backed = r.backed
             /\ mark(r).status = IF r.status = "RUNNING" THEN "ABORTED" ELSE r.status
  BY <1>2 DEF Record
<1>3. Recovered(disk) = [disk EXCEPT !.state = "ABORTED", !.status = "ABORTED",
                                     !.cleaned = FALSE, !.stages = new]
  BY DEF Recovered, RecoveredAs
<1> HIDE DEF mark
<1>4. new \in Seq(Record) /\ Len(new) = n
      /\ \A i \in 1..n : new[i] = mark(disk.stages[i])
  BY <1>1, <1>2
<1> HIDE DEF new
<1>5. /\ Recovered(disk) \in Manifest /\ Recovered(disk).stages = new
      /\ Recovered(disk).state = "ABORTED" /\ Recovered(disk).status = "ABORTED"
  BY <1>3, <1>4 DEF Manifest, Stages, Verdicts
<1> QED  BY <1>1, <1>2, <1>4, <1>5

\* While the session keeps its invariants the manifest is one of them.
LEMMA SessionManifest ==
  ASSUME SessionInv, SettledInv PROVE ManifestInv
<1> USE DEF SessionInv, SettledInv
<1>1. disk \in Manifest /\ records \in Seq(Record) /\ Len(disk.stages) <= Len(records)
      /\ (Final <=> disk.status \in Verdicts)
  BY DEF TypeOK, LedgerInv, Final
<1>2. ASSUME NEW i \in 1..Len(disk.stages), disk.stages[i].status = "DEV_COMPLETED"
      PROVE  records[i].status = "DEV_COMPLETED" /\ records[i].backed
  <2>1. disk.stages[i] = records[i] /\ i \in 1..Len(records)  BY <1>1, <1>2 DEF LedgerInv, Manifest
  <2> QED  BY <1>2, <2>1 DEF HonestCompletion
<1> QED  BY <1>1, <1>2 DEF ManifestInv, LedgerInv

LEMMA RecoveryStart == RecoveryInit => RecoveryInv
<1> SUFFICES ASSUME RecoveryInit PROVE RecoveryInv  OBVIOUS
<1>1. SessionInv /\ SettledInv  BY InitInv, SettledInit DEF RecoveryInit
<1>2. disk.state = "NONE"  BY DEF RecoveryInit, Init, NoManifest
<1> QED
  BY <1>1, <1>2, SessionManifest
     DEF RecoveryInit, RecoveryInv, WorkerInv, CopyInv, ArchiveIsFinal, QuietMeansSaved

(* The worker's steps. *)

\* A closed session has nothing left to do.
LEMMA ClosedIsOver ==
  ASSUME SessionInv, pc = "closed" PROVE ~Next
<1>1. closed  BY DEF SessionInv, PlaceInv, AfterClose
<1>2. ~CallStep
  BY DEF CallStep, Construct, Initialize, LeaveStage, EndStage, BeginStage, EnterStage,
         ActivateStage, PersistStage, CompleteStage, AbortRecord, AbortBegin, AbortEnd,
         Flush, Cleanup, CloseLog, Conclude, FinalSave, Reduce, Export, ComponentCall,
         EventStep, AbortEvent, AfterSave
<1>3. ~CallerStep
  BY DEF CallerStep, Acknowledge, ApproveDevOutcome, RecordPolicyOutcome, PerformWork,
         Ripen, Abort, RequestTransition
<1>4. ~Interrupt  BY DEF Interrupt, Busy, Aborting, Finalizing
<1> QED  BY <1>2, <1>3, <1>4 DEF Next, Call

\* A step of the worker keeps the session's invariants, and publishes at its end only
\* what the manifest decided.
LEMMA WorkStep ==
  ASSUME RecoveryInv, Work
  PROVE  /\ SessionInv' /\ SettledInv'
         /\ archive' # NoArchive => /\ pc' = "closed" /\ archive'.manifest = disk'
                                    /\ Final'
<1>1. SessionInv /\ SettledInv /\ (archive # NoArchive => pc = "closed")
  BY DEF Work, RecoveryInv, WorkerInv
<1>2. CASE SessionStep
  <2>1. Next /\ UNCHANGED archive  BY <1>2 DEF SessionStep
  <2>2. archive = NoArchive  BY <1>1, <2>1, ClosedIsOver
  <2> QED  BY <1>1, <2>1, <2>2, NextInv, SettledNext
<1>3. ASSUME pc \in {"reduce", "export"}, pc' \in {"export", "closed"},
             UNCHANGED untouched, faults' \in Nat
      PROVE  SessionInv' /\ SettledInv' /\ disk' = disk
  <2> USE <1>1 DEF untouched
  <2>1. UNCHANGED << mode, state, position, records, receipts, approval, policy, ripe,
                     work, components, verdict, cleaned, lifecycle, errors, closed,
                     logClosed, disk, tmp, interrupts >>
    BY <1>3 DEF place, entry, ending, disks
  <2>2. SessionInv'
    <3>1. verdict \in Verdicts  BY <1>3 DEF SessionInv, PlaceInv, Finalizing
    <3>2. closed  BY <1>3 DEF SessionInv, PlaceInv, AfterClose
    <3> QED
      BY <1>3, <2>1, <3>1, <3>2, FinalizingStep
         DEF SessionInv, TypeOK, Finalizing, AfterClose, DiskInv, DiskType, place, entry
  <2>3. SettledInv'
    <3>1. StatusInv'  BY <1>3, <2>1 DEF SettledInv, StatusInv, LastRecord
    <3>2. FlowInv'
      BY <1>3, <2>1 DEF SettledInv, FlowInv, Rehearsal, Underway, Busy, Finalizing, AfterClose
    <3>3. FinalInv'  BY <1>3, <2>1 DEF SettledInv, FinalInv, Underway, Busy, Finalizing
    <3>4. LedgerInv' /\ SavedStagesSettled' /\ FlowCompleteIsComplete'
      BY <2>1 DEF SettledInv, LedgerInv, SavedStagesSettled, FlowCompleteIsComplete
    <3> QED  BY <3>1, <3>2, <3>3, <3>4 DEF SettledInv
  <2> QED  BY <2>1, <2>2, <2>3
<1>4. Fault => faults' \in Nat  BY <1>1 DEF SessionInv, TypeOK, Fault
<1>5. faults \in Nat  BY <1>1 DEF SessionInv, TypeOK
<1>6. CASE WorkerReduce
  <2>1. /\ pc = "reduce" /\ pc' = "export" /\ UNCHANGED untouched /\ archive' = archive
        /\ faults' \in Nat
    BY <1>4, <1>5, <1>6 DEF WorkerReduce, BuildReports
  <2> QED  BY <1>1, <1>3, <2>1
<1>7. CASE WorkerExport
  <2>1. pc = "export" /\ pc' = "closed" /\ UNCHANGED untouched /\ Publish  BY <1>7 DEF WorkerExport
  <2>2. archive = NoArchive  BY <1>1, <2>1
  <2>3. faults' \in Nat  BY <1>4, <1>5, <2>1 DEF Publish
  <2>4. archive' = NoArchive \/ (archive' = Package /\ Final)  BY <2>1, <2>2, Zenon DEF Publish
  <2>5. SessionInv' /\ SettledInv' /\ disk' = disk  BY <1>3, <2>1, <2>3
  <2> QED  BY <2>1, <2>4, <2>5 DEF Package, Final
<1> QED  BY <1>2, <1>6, <1>7 DEF Work

LEMMA WorkInv == ASSUME RecoveryInv, Work PROVE RecoveryInv'
<1>1. /\ SessionInv' /\ SettledInv'
      /\ archive' # NoArchive => pc' = "closed" /\ archive'.manifest = disk' /\ Final'
  BY WorkStep
<1>2. /\ worker = "running" /\ task = "watch" /\ copied = "none" /\ ~report
      /\ UNCHANGED << worker, task, copied, backup, report, notified >>
  BY DEF Work, RecoveryInv, WorkerInv, supervisor
<1>3. ManifestInv'  BY <1>1, SessionManifest, PTL
<1> QED  BY <1>1, <1>2, <1>3 DEF RecoveryInv, WorkerInv, CopyInv, ArchiveIsFinal, QuietMeansSaved

(* The supervisor's steps, none of which the worker lives to see. *)

\* The worker is gone once recovery has begun.
LEMMA WorkerGone ==
  ASSUME RecoveryInv, task # "watch" PROVE worker # "running"
  BY DEF RecoveryInv, WorkerInv

\* The process ends and leaves its files as they are.
LEMMA StopInv == ASSUME RecoveryInv, Exit \/ Die PROVE RecoveryInv'
<1>1. /\ worker' # "running" /\ worker = "running"
      /\ UNCHANGED << vars, supervisor, reduced, archive >>
  BY DEF Exit, Die
<1>2. UNCHANGED << records, disk, task, copied, backup, report, notified, archive >>
  BY <1>1 DEF vars, supervisor, disks
<1> QED
  BY <1>1, <1>2
     DEF RecoveryInv, WorkerInv, ManifestInv, CopyInv, ArchiveIsFinal, QuietMeansSaved,
         Final, SavedStagesSettled, LedgerInv

\* A step of recovery that leaves the manifest alone.
LEMMA ManifestStays ==
  ASSUME RecoveryInv, UNCHANGED << session, disk >>
  PROVE  ManifestInv' /\ (Final' <=> Final)
<1>1. UNCHANGED << disk, records >>  BY DEF session
<1> QED  BY <1>1 DEF RecoveryInv, ManifestInv, Final, SavedStagesSettled, LedgerInv

LEMMA InspectInv == ASSUME RecoveryInv, Inspect PROVE RecoveryInv'
<1>1. /\ UNCHANGED << session, disk, files, worker >> /\ task = "watch" /\ worker # "running"
  BY DEF Inspect
<1>2. ManifestInv' /\ (Final' <=> Final)  BY <1>1, ManifestStays
<1>3. UNCHANGED << copied, backup, report, archive, disk, worker >>  BY <1>1 DEF files
<1>4. \/ task' = "done" /\ notified'
      \/ task' = "backup" /\ ~Final
      \/ task' = "zip"
      \/ task' = "done" /\ Final /\ archive # NoArchive
  BY DEF Inspect, Raises, Enter, Finish
<1> QED
  BY <1>1, <1>2, <1>3, <1>4
     DEF RecoveryInv, WorkerInv, CopyInv, ArchiveIsFinal, QuietMeansSaved

LEMMA BackupInv == ASSUME RecoveryInv, Backup PROVE RecoveryInv'
<1>1. /\ UNCHANGED << session, disk, report, archive, worker >> /\ task = "backup"  BY DEF Backup
<1>2. ManifestInv' /\ (Final' <=> Final) /\ worker # "running"  BY <1>1, ManifestStays, WorkerGone
<1>3. \/ task' = "copy" /\ (disk = NoManifest \/ copied # "none") /\ UNCHANGED << copied, backup >>
      \/ task' = "copy" /\ copied' = "whole" /\ backup' = disk
      \/ /\ task' = "done" /\ notified' /\ disk # NoManifest /\ copied = "none"
         /\ copied' \in {"none", "torn"} /\ UNCHANGED backup
  BY DEF Backup, Enter, Raises, Finish
<1>4. ~Final /\ copied # "torn"  BY <1>1 DEF RecoveryInv, CopyInv
<1> QED
  BY <1>1, <1>2, <1>3, <1>4
     DEF RecoveryInv, WorkerInv, CopyInv, ArchiveIsFinal, QuietMeansSaved

LEMMA CopyEvidenceInv == ASSUME RecoveryInv, CopyEvidence PROVE RecoveryInv'
<1>1. /\ UNCHANGED << session, disk, files, worker >> /\ task = "copy"  BY DEF CopyEvidence
<1>2. ManifestInv' /\ (Final' <=> Final) /\ worker # "running"  BY <1>1, ManifestStays, WorkerGone
<1>3. UNCHANGED << copied, backup, report, archive >>  BY <1>1 DEF files
<1>4. \/ task' = "report"
      \/ task' = "done" /\ notified'
  BY DEF CopyEvidence, Enter, Raises, Finish
<1> QED
  BY <1>1, <1>2, <1>3, <1>4
     DEF RecoveryInv, WorkerInv, CopyInv, ArchiveIsFinal, QuietMeansSaved

LEMMA WriteReportInv == ASSUME RecoveryInv, WriteReport PROVE RecoveryInv'
<1>1. /\ UNCHANGED << session, disk, copied, backup, archive, worker >> /\ task = "report"
  BY DEF WriteReport
<1>2. ManifestInv' /\ (Final' <=> Final) /\ worker # "running"  BY <1>1, ManifestStays, WorkerGone
<1>3. \/ task' = "rewrite" /\ report'
      \/ task' = "done" /\ notified' /\ UNCHANGED report
  BY DEF WriteReport, Enter, Raises, Finish
<1> QED
  BY <1>1, <1>2, <1>3
     DEF RecoveryInv, WorkerInv, CopyInv, ArchiveIsFinal, QuietMeansSaved

\* The one step of recovery that writes the manifest: it decides an undecided one and
\* keeps what it says of the stages.
LEMMA RewriteInv == ASSUME RecoveryInv, Rewrite PROVE RecoveryInv'
<1>1. /\ UNCHANGED << session, files, worker >> /\ task = "rewrite" /\ ~Final
  BY DEF Rewrite, RecoveryInv, CopyInv
<1>2. worker # "running" /\ archive = NoArchive  BY <1>1, WorkerGone DEF RecoveryInv, ArchiveIsFinal
<1>3. UNCHANGED << copied, backup, report, archive, records >>  BY <1>1 DEF files, session
<1>4. CASE disk' = disk /\ task' = "done" /\ notified'
  <2>1. ManifestInv' /\ ~Final'  BY <1>1, <1>4, ManifestStays
  <2> QED
    BY <1>1, <1>2, <1>3, <1>4, <2>1
       DEF RecoveryInv, WorkerInv, CopyInv, ArchiveIsFinal, QuietMeansSaved
<1>5. CASE disk' = Recovered(disk) /\ task' \in {"reduce", "zip"}
  <2>1. disk \in Manifest  BY DEF RecoveryInv, ManifestInv
  <2>2. Final' /\ disk'.status \in Verdicts
    BY <1>5, <2>1, RecoveredFacts DEF Final, Terminal, Verdicts
  <2>3. ManifestInv'  BY <1>3, <1>5, <2>1, <2>2, RecoveredFacts DEF RecoveryInv, ManifestInv
  <2> QED
    BY <1>1, <1>2, <1>3, <1>5, <2>2, <2>3
       DEF RecoveryInv, WorkerInv, CopyInv, ArchiveIsFinal, QuietMeansSaved
<1> QED  BY <1>4, <1>5 DEF Rewrite, Raises, Finish, Enter

LEMMA ReduceRecoveredInv == ASSUME RecoveryInv, ReduceRecovered PROVE RecoveryInv'
<1>1. /\ UNCHANGED << session, disk, copied, backup, report, archive, worker >>
      /\ task = "reduce" /\ task' = "zip"
  BY DEF ReduceRecovered, Enter
<1>2. ManifestInv' /\ (Final' <=> Final) /\ worker # "running"  BY <1>1, ManifestStays, WorkerGone
<1> QED  BY <1>1, <1>2 DEF RecoveryInv, WorkerInv, CopyInv, ArchiveIsFinal, QuietMeansSaved

LEMMA ZipInv == ASSUME RecoveryInv, Zip PROVE RecoveryInv'
<1>1. /\ UNCHANGED << session, disk, copied, backup, report, worker >>
      /\ task = "zip" /\ task' = "done" /\ notified'
  BY DEF Zip, Finish
<1>2. ManifestInv' /\ (Final' <=> Final) /\ worker # "running"  BY <1>1, ManifestStays, WorkerGone
<1>3. archive' = archive \/ (archive' = Package /\ Final)  BY Zenon DEF Zip, Publish
<1>4. Package.manifest = disk  BY DEF Package
<1> QED
  BY <1>1, <1>2, <1>3, <1>4
     DEF RecoveryInv, WorkerInv, CopyInv, ArchiveIsFinal, QuietMeansSaved

LEMMA RetryInv == ASSUME RecoveryInv, Retry PROVE RecoveryInv'
<1>1. /\ UNCHANGED << session, disk, files, worker >> /\ task = "done" /\ report
      /\ disk # NoManifest /\ task' = IF Final THEN "zip" ELSE "backup"
  BY DEF Retry, Enter
<1>2. ManifestInv' /\ (Final' <=> Final) /\ worker # "running"  BY <1>1, ManifestStays, WorkerGone
<1>3. UNCHANGED << copied, backup, report, archive >>  BY <1>1 DEF files
<1> QED
  BY <1>1, <1>2, <1>3
     DEF RecoveryInv, WorkerInv, CopyInv, ArchiveIsFinal, QuietMeansSaved

all == << rvars, collection_version >>

LEMMA StutterInv == ASSUME RecoveryInv, UNCHANGED all PROVE RecoveryInv'
<1>1. UNCHANGED << vars, worker, task, copied, backup, report, archive, notified >>
  BY DEF all, rvars, files
<1>2. UNCHANGED << records, disk, pc >>  BY <1>1 DEF vars, disks
<1>3. SessionInv /\ SettledInv => SessionInv' /\ SettledInv'  BY <1>1, NextInv, SettledNext
<1> QED
  BY <1>1, <1>2, <1>3
     DEF RecoveryInv, WorkerInv, ManifestInv, CopyInv, ArchiveIsFinal, QuietMeansSaved,
         Final, SavedStagesSettled, LedgerInv

\* Every step of the worker, the supervisor and the operator keeps the invariant.
LEMMA RecoveryStepInv ==
  ASSUME RecoveryInv, [RecoveryNext]_all PROVE RecoveryInv'
  BY WorkInv, StopInv, InspectInv, BackupInv, CopyEvidenceInv, WriteReportInv, RewriteInv,
     ReduceRecoveredInv, ZipInv, RetryInv, StutterInv DEF RecoveryNext, Recover

THEOREM RecoveryInvariance == RecoverySpec => []RecoveryInv
<1>1. RecoveryInit => RecoveryInv  BY RecoveryStart
<1>2. RecoveryInv /\ [RecoveryNext]_all => RecoveryInv'  BY RecoveryStepInv
<1> QED  BY <1>1, <1>2, PTL DEF RecoverySpec, all

\* Recovery invents nothing, a published archive shows the manifest as it was decided,
\* and a supervisor that ends without a word leaves both behind (recover_stopped_run,
\* export_operator_results, supervise), wherever the worker died.
THEOREM RecoveryStaysHonest == RecoverySpec => []RecoveryIsHonest
<1>1. ASSUME RecoveryInv PROVE RecoveryInventsNothing
  <2>1. archive = NoArchive => archive.manifest.stages = << >>  BY DEF NoArchive, NoManifest
  <2>2. archive # NoArchive => archive.manifest = disk  BY <1>1 DEF RecoveryInv, ArchiveIsFinal
  <2> QED  BY <1>1, <2>1, <2>2 DEF RecoveryInv, ManifestInv, RecoveryInventsNothing
<1>2. RecoveryInv => RecoveryIsHonest  BY <1>1 DEF RecoveryIsHonest, RecoveryInv
<1> QED  BY <1>2, RecoveryInvariance, PTL

\* The manifest is rewritten only behind a whole copy of what the worker left
\* (recover_stopped_run), also when an attempt failed half-way and was retried.
THEOREM EvidenceIsPreserved == RecoverySpec => EvidencePreserved
<1>1. ASSUME RecoveryInv, Rewrite, disk # NoManifest
      PROVE  copied = "whole" /\ backup = disk
  BY <1>1 DEF Rewrite, RecoveryInv, CopyInv
<1>2. RecoveryInv => [Rewrite /\ disk' # disk /\ disk # NoManifest
                        => copied = "whole" /\ backup = disk]_rvars
  BY <1>1
<1> QED  BY <1>2, RecoveryInvariance, PTL DEF EvidencePreserved

(* The run directory through a death of the worker and its recovery. *)

\* Rewriting an undecided manifest decides it and keeps its history.
LEMMA RewriteDecides ==
  ASSUME RecoveryInv, ~Final, disk' = Recovered(disk)
  PROVE  [Durable!Next]_<< disk.status, Settled(disk.stages) >>
<1> DEFINE old == disk.stages
           new == Recovered(disk).stages
<1>1. disk \in Manifest /\ SavedStagesSettled /\ LedgerInv /\ disk.status \notin Verdicts
  BY DEF RecoveryInv, ManifestInv
<1>2. /\ old \in Seq(Record) /\ new \in Seq(Record) /\ Len(new) = Len(old)
      /\ disk.status \in {"NONE", "RUNNING"}
      /\ \A i \in 1..Len(old) : /\ new[i].stage = old[i].stage
                                /\ old[i].status # "RUNNING" => new[i].status = old[i].status
  BY <1>1, RecoveredFacts DEF Manifest
<1>3. ASSUME NEW i \in 1..Len(old), i < Len(old)
      PROVE  old[i].status \notin {"RUNNING", "ENTERING"}
  <2>1. disk # NoManifest  BY <1>2, <1>3 DEF NoManifest
  <2> QED  BY <1>1, <1>2, <1>3, <2>1 DEF SavedStagesSettled, LedgerInv
<1> HIDE DEF old, new
<1>4. Durable!Extends(Settled(old), Settled(new))  BY <1>2, <1>3, SettledExtends
<1>5. Settled(disk.stages)' = Settled(new) /\ disk'.status = "ABORTED"
  BY <1>1, RecoveredFacts DEF Settled, EndedStages, new
<1> QED  BY <1>2, <1>4, <1>5 DEF old, Durable!Next, Durable!Decide, Durable!Extends, Verdicts

LEMMA DurableRecoveryStep ==
  ASSUME RecoveryInv, [RecoveryNext]_all
  PROVE  [Durable!Next]_<< disk.status, Settled(disk.stages) >>
<1>1. CASE disk' = disk  BY <1>1 DEF Settled, EndedStages
<1>2. CASE Work /\ SessionStep
  <2>1. SessionInv /\ SettledInv /\ Next  BY <1>2 DEF Work, SessionStep, RecoveryInv, WorkerInv
  <2> QED  BY <2>1, DurableStep
<1>3. CASE Rewrite /\ disk' # disk
  <2>1. ~Final /\ disk' = Recovered(disk)  BY <1>3 DEF Rewrite, RecoveryInv, CopyInv
  <2> QED  BY <2>1, RewriteDecides
<1>4. ASSUME WorkerReduce \/ WorkerExport \/ Exit \/ Die \/ Inspect \/ Backup \/ CopyEvidence
             \/ WriteReport \/ ReduceRecovered \/ Zip \/ Retry \/ UNCHANGED all
      PROVE  disk' = disk
  BY <1>4 DEF WorkerReduce, WorkerExport, Exit, Die, Inspect, Backup, CopyEvidence,
              WriteReport, ReduceRecovered, Zip, Retry, untouched, disks, vars, rvars, all
<1> QED  BY <1>1, <1>2, <1>3, <1>4 DEF RecoveryNext, Recover, Work

\* A run that died anywhere and was recovered keeps the promise of one that ended by
\* itself: its history only grew, its outcome was decided once (recover_stopped_run).
THEOREM RecoveredSessionIsDurable == RecoverySpec => DurableSpec
<1>1. RecoveryInit => Durable!Init
  <2> SUFFICES ASSUME RecoveryInit PROVE Durable!Init  OBVIOUS
  <2>1. disk.status = "NONE" /\ disk.stages = << >>  BY DEF RecoveryInit, Init, NoManifest
  <2>2. Settled(disk.stages) = << >>  BY <2>1 DEF Settled, EndedStages
  <2> QED  BY <2>1, <2>2 DEF Durable!Init
<1>2. RecoveryInv /\ [RecoveryNext]_all
        => [Durable!Next]_<< disk.status, Settled(disk.stages) >>
  BY DurableRecoveryStep
<1> QED  BY <1>1, <1>2, RecoveryInvariance, PTL DEF RecoverySpec, all, DurableSpec, Durable!Spec

-----------------------------------------------------------------------------
(* OperatorFlow *)

(* The program makes no call that the session does not allow. *)
Kept == UNCHANGED vars

\* A step of the program is a step of its session or none.
LEMMA CommandCalls == Command => [Next]_vars
  <1> SUFFICES ASSUME Command PROVE Next \/ Kept  BY DEF Kept
  <1>1. CASE SessionCall  BY <1>1 DEF SessionCall, Next, Call
  <1>2. CASE Advance  BY <1>2 DEF Advance, Next, CallerStep, NoSession, Kept
  <1>3. CASE Policy  BY <1>3 DEF Policy, Next, CallerStep, NoSession, Kept
  <1>4. CASE RecordBoundary
    <2> DEFINE answer == << "calibration_boundary", "EXTERNAL_OPERATOR_STEP" >>
    <2>1. answer \in Answers /\ answer[1] = "calibration_boundary"
          /\ answer[2] = "EXTERNAL_OPERATOR_STEP"
      BY FlowAssumption
    <2>2. Acknowledge(answer[1], answer[2]) /\ UNCHANGED << mode, interrupts >>
      BY <1>4, <2>1 DEF RecordBoundary
    <2> QED  BY <2>1, <2>2 DEF Next, CallerStep
  <1>5. CASE AbortCommand  BY <1>5 DEF AbortCommand, Next, CallerStep
  <1>6. CASE RegisterFails \/ Train \/ GazeCheck \/ RestoreDisplay \/ DisplayLost
             \/ Expand \/ RaiseCommand
    BY <1>6 DEF RegisterFails, Train, GazeCheck, RestoreDisplay, DisplayLost, Expand,
                RaiseCommand, Kept
  <1> QED  BY <1>1, <1>2, <1>3, <1>4, <1>5, <1>6 DEF Command

LEMMA ExecutorCalls == Executor => [Next]_vars
  <1> SUFFICES ASSUME Executor PROVE Next \/ Kept  BY DEF Kept
  <1>1. CASE StoreRun  BY <1>1 DEF StoreRun, Works, Next, CallerStep, NoSession, Kept
  <1>2. CASE FailRun  BY <1>2 DEF FailRun, Works, Next, CallerStep, NoSession, Kept
  <1>3. CASE Execute \/ BuildRunner \/ OpenRuntime \/ StartGaze \/ DriveEnds \/ HandedOff
             \/ Pause \/ AnswerPause \/ Collide \/ AnswerNotice \/ StopGaze \/ CloseRuntime
             \/ Settle \/ ReduceDrive
    BY <1>3 DEF Execute, BuildRunner, OpenRuntime, StartGaze, DriveEnds, HandedOff, Pause,
                AnswerPause, Collide, AnswerNotice, StopGaze, CloseRuntime, Settle,
                ReduceDrive, Drives, Kept
  <1> QED  BY <1>1, <1>2, <1>3 DEF Executor

LEMMA WindowCalls == Window => [Next]_vars
  <1> SUFFICES ASSUME Window PROVE Next \/ Kept  BY DEF Kept
  <1>1. CASE HandleEvent  BY <1>1 DEF HandleEvent, Quit, Space, Next, CallerStep, NoSession, Kept
  <1>2. CASE CliAbort  BY <1>2 DEF CliAbort, Next, CallerStep
  <1>3. CASE StartDone \/ Hold \/ FetchEvents \/ BatchDone \/ Render \/ CueEnds \/ Return
             \/ CliReturn
    BY <1>3 DEF StartDone, Hold, FetchEvents, BatchDone, Render, CueEnds, Return,
                CliReturn, Apart, Kept
  <1> QED  BY <1>1, <1>2, <1>3 DEF Window

LEMMA FlowCalls == [FlowNext]_<< vars, flow >> => [Next]_vars
  <1> SUFFICES ASSUME [FlowNext]_<< vars, flow >> PROVE Next \/ Kept  BY DEF Kept
  <1>1. CASE Program  BY <1>1, CommandCalls, ExecutorCalls, WindowCalls DEF Program, Kept
  <1>2. CASE Hands  BY <1>2 DEF Hands, Kept
  <1>3. CASE CtrlC  BY <1>3 DEF CtrlC, Next, NoSession, Kept
  <1>4. CASE Over \/ UNCHANGED << vars, flow >>  BY <1>4 DEF Over, Kept
  <1> QED  BY <1>1, <1>2, <1>3, <1>4 DEF FlowNext

\* Whatever the window, the drive and the command line do to their session, with
\* failures and Ctrl+C anywhere, is a behaviour of Session (SessionSpec).
THEOREM ProgramKeepsSession == FlowSpec => SessionSpec
  <1>1. FlowInit => Init  BY DEF FlowInit
  <1>2. [FlowNext]_<< vars, flow >> => [Next]_vars  BY FlowCalls
  <1> QED  BY <1>1, <1>2, PTL DEF FlowSpec, SessionSpec, Spec

\* What is proved of the session holds of the one the program runs.
THEOREM ProgramKeepsRecords == FlowSpec => [](SessionInv /\ RecordsAreSettled)
  BY ProgramKeepsSession, Invariance, RecordsStaySettled, PTL DEF SessionSpec

(* What the statements of a call do to the session, as far as the program *)
(* around it can tell.  The operator's logger never raises while its log *)
(* is open, so that a call that is not interrupted goes on to its end. *)
Underway0 == pc \in Underway => ~logClosed /\ ~lifecycle /\ ~errors
SameStage == UNCHANGED << state, position, approval, policy, work, ending >>
Quiet == /\ ~errors /\ ~lifecycle
         /\ pc \in Aborting \cup {"idle", "flush", "cleanup", "close"} => ~logClosed

Onward ==
  /\ SameStage /\ verdict' = verdict
  /\ \/ pc = "new" /\ pc' = "init"
     \/ pc = "init" /\ pc' = "idle"
     \/ pc = "leave" /\ pc' = "end"
     \/ pc = "end" /\ pc' = "begin"
     \/ pc = "enter" /\ pc' = "activate"
     \/ pc = "activate" /\ state # "SESSION_COMPLETE" /\ pc' = "persist"
     \/ pc = "activate" /\ state = "SESSION_COMPLETE" /\ pc' = "complete"
     \/ pc = "persist" /\ pc' = "idle"
Begins ==
  /\ pc = "begin" /\ pc' = "enter" /\ position < Last
  /\ position' = position + 1 /\ state' = Sequence[position + 1]
  /\ approval' = "none" /\ policy' = "none"
  /\ UNCHANGED << work, ending, verdict >>
Completes == /\ SameStage /\ pc = "complete" /\ pc' = "flush"
             /\ state = "SESSION_COMPLETE"
Closes ==
  /\ pc \in Aborting \cup Finalizing
  /\ pc' \in (Aborting \cup Finalizing \cup {"closed"}) \ {"abort"}
  /\ pc \in Finalizing => pc' \notin Aborting
  /\ state' \in {state, "ABORTED"} /\ UNCHANGED << position, work >>
  /\ pc = "abort_begin" => state' = "ABORTED"
  /\ approval' \in {approval, "none"} /\ policy' \in {policy, "none"}
  /\ Quiet => Quiet'
  /\ Quiet /\ verdict = "ENDED_AFTER_HAZARD_COLLISION" => verdict' = verdict

\* Before the log is closed no event raises.
LEMMA NoEventRaises == ASSUME ~logClosed PROVE ~EmitRaises
  BY FlowAssumption DEF EmitRaises

LEMMA SaveGoesOn == ASSUME NEW next, Saved(next) PROVE pc' = next /\ verdict' = verdict
  BY FlowAssumption DEF Saved, Goto

LEMMA StartMoves ==
  ASSUME SessionInv, Underway0, Construct \/ Initialize \/ PersistStage, pc # "dead"
  PROVE  Onward
<1>1. mode = "dev-rehearsal"  BY SessionAssumption, FlowAssumption DEF SessionInv, TypeOK, Operator
<1>2. SameStage  BY DEF Construct, Initialize, PersistStage, SameStage, place, entry
<1>3. CASE Construct
  <2>1. pc = "new" /\ ~logClosed  BY <1>3 DEF Construct, Underway0, Underway
  <2> QED  BY <1>2, <1>3, <2>1, NoEventRaises, FlowAssumption DEF Construct, Onward, Goto
<1>4. CASE Initialize
  <2>1. pc = "init" /\ ~logClosed  BY <1>4 DEF Initialize, Underway0, Underway
  <2>2. Saved("idle")  BY <1>1, <1>4, <2>1, NoEventRaises DEF Initialize
  <2> QED  BY <1>2, <2>1, <2>2, SaveGoesOn DEF Onward
<1>5. CASE PersistStage  BY <1>2, <1>5, SaveGoesOn DEF PersistStage, Onward
<1> QED  BY <1>3, <1>4, <1>5

LEMMA TransitionMoves ==
  ASSUME SessionInv, Underway0,
         LeaveStage \/ EndStage \/ BeginStage \/ EnterStage \/ ActivateStage \/ CompleteStage
  PROVE  Onward \/ Begins \/ Completes
<1>1. pc \in Busy /\ ~logClosed
  BY DEF LeaveStage, EndStage, BeginStage, EnterStage, ActivateStage, CompleteStage,
         ComponentCall, EventStep, Busy, Underway0, Underway
<1>2. ~EmitRaises  BY <1>1, NoEventRaises
<1>3. CASE LeaveStage \/ EnterStage
  BY <1>3, FlowAssumption DEF LeaveStage, EnterStage, ComponentCall, Goto, Onward, SameStage,
                              place, entry
<1>4. CASE EndStage  BY <1>2, <1>4 DEF EndStage, EventStep, Goto, Onward, SameStage, place, entry
<1>5. CASE BeginStage
  BY <1>2, <1>5 DEF BeginStage, EventStep, Goto, Begins, FreshEntry, Target, SessionInv, PlaceInv
<1>6. CASE ActivateStage
  BY <1>2, <1>6 DEF ActivateStage, EventStep, Goto, Onward, SameStage, place, entry
<1>7. CASE CompleteStage
  <2>1. state = "SESSION_COMPLETE"
    BY <1>7, SequenceFacts DEF CompleteStage, SessionInv, PlaceInv, TypeOK, Underway, Busy
  <2> QED  BY <1>2, <1>7, <2>1 DEF CompleteStage, Completes, SameStage, place, entry
<1> QED  BY <1>3, <1>4, <1>5, <1>6, <1>7

LEMMA ClosingMoves ==
  ASSUME SessionInv,
         AbortRecord \/ AbortBegin \/ AbortEnd \/ Flush \/ Cleanup \/ CloseLog \/ Conclude
           \/ FinalSave \/ Reduce \/ Export
  PROVE  Closes
<1>1. CASE AbortRecord \/ AbortBegin \/ AbortEnd
  <2>1. /\ pc \in Aborting /\ pc' \in {"abort_begin", "abort_end", "flush"}
        /\ state' \in {state, "ABORTED"} /\ UNCHANGED << position, work, errors, logClosed >>
        /\ pc = "abort_begin" => state' = "ABORTED"
        /\ approval' \in {approval, "none"} /\ policy' \in {policy, "none"}
        /\ verdict' = verdict
        /\ lifecycle' = lifecycle \/ EmitRaises
    BY <1>1 DEF AbortRecord, AbortBegin, AbortEnd, AbortEvent, Goto, Aborting, FreshEntry,
                place, entry
  <2>2. Quiet => Quiet'  BY <2>1, NoEventRaises DEF Quiet, Aborting, Finalizing
  <2> QED  BY <2>1, <2>2 DEF Closes, Aborting, Finalizing
<1>2. CASE Flush \/ Cleanup \/ CloseLog
  <2>1. /\ pc \in {"flush", "cleanup", "close"} /\ pc' \in {"cleanup", "close", "verdict"}
        /\ UNCHANGED << state, position, work, approval, policy, lifecycle, verdict >>
        /\ pc' # "verdict" => UNCHANGED logClosed
        /\ errors' = errors \/ errors' = lifecycle \/ EmitRaises
    BY <1>2, FlowAssumption DEF Flush, Cleanup, CloseLog, Goto, place, entry
  <2>2. Quiet => Quiet'  BY <2>1, NoEventRaises DEF Quiet, Aborting, Finalizing
  <2> QED  BY <2>1, <2>2 DEF Closes, Aborting, Finalizing
<1>3. CASE Conclude  BY <1>3 DEF Conclude, Closes, Quiet, Aborting, Finalizing, entry
<1>4. CASE FinalSave \/ Reduce \/ Export
  BY <1>4 DEF FinalSave, Reduce, Export, AfterSave, Goto, Closes, Quiet, Aborting, Finalizing,
              place, entry, ending
<1> QED  BY <1>1, <1>2, <1>3, <1>4

LEMMA SessionMoves ==
  ASSUME SessionInv, Underway0, CallStep, pc # "dead"
  PROVE  Onward \/ Begins \/ Completes \/ Closes
  BY StartMoves, TransitionMoves, ClosingMoves DEF CallStep

\* What the calls themselves do.
LEMMA RequestMoves ==
  ASSUME RequestTransition
  PROVE  /\ pc = "idle" /\ pc' = "leave" /\ Guard /\ SameStage /\ verdict' = verdict
         /\ state \notin Terminal
  BY DEF RequestTransition, Goto, SameStage, place, entry

LEMMA PolicyMoves ==
  ASSUME RecordPolicyOutcome, Underway0
  PROVE  /\ pc = "idle" /\ pc' = "idle" /\ policy' # "none" /\ verdict' = verdict
         /\ UNCHANGED << state, position, approval, work, ending >>
<1>1. pc = "idle" /\ Recorded /\ ~logClosed  BY DEF RecordPolicyOutcome, Underway0, Underway
<1>2. Saved("idle")  BY <1>1, NoEventRaises DEF Recorded
<1>3. policy' # "none"  BY DEF RecordPolicyOutcome
<1> QED  BY <1>1, <1>2, <1>3, SaveGoesOn DEF RecordPolicyOutcome, Recorded, place

LEMMA ReceiptMoves ==
  ASSUME Acknowledge("calibration_boundary", "EXTERNAL_OPERATOR_STEP"), Underway0
  PROVE  pc = "idle" /\ pc' = "idle" /\ SameStage /\ verdict' = verdict
<1>1. pc = "idle" /\ ~logClosed  BY DEF Acknowledge, Underway0, Underway
<1>2. Saved("idle")  BY <1>1, NoEventRaises DEF Acknowledge, Recorded
<1> QED  BY <1>1, <1>2, SaveGoesOn DEF Acknowledge, Recorded, SameStage, place

LEMMA AbortMoves ==
  ASSUME NEW reason, Abort(reason)
  PROVE  pc = "idle" /\ pc' = "abort" /\ SameStage /\ verdict' = reason /\ ~closed
  BY DEF Abort, Caught, SameStage, place, entry

LEMMA WorkMoves ==
  ASSUME PerformWork
  PROVE  /\ pc = "idle" /\ pc' = "idle" /\ work' = work \cup {state} /\ verdict' = verdict
         /\ UNCHANGED << state, position, approval, policy, ending >>
  BY DEF PerformWork, place, entry

LEMMA InterruptMoves ==
  ASSUME Interrupt, SessionInv
  PROVE  /\ SameStage
         /\ pc \in Busy \cup Aborting \cup Finalizing \cup {"init"}
         /\ \/ ~closed /\ pc' = "abort"
            \/ /\ closed /\ verdict' = verdict /\ pc \in {"final_save", "reduce"}
               /\ pc' = "closed" \/ (pc = "final_save" /\ pc' = "reduce")
<1>1. SameStage  BY DEF Interrupt, SameStage, place, entry
<1>2. \/ pc \in (Busy \cup Aborting \cup Finalizing) \ {"export"}
      \/ pc = "init"
  BY DEF Interrupt
<1>3. closed <=> pc \in AfterClose  BY DEF SessionInv, PlaceInv
<1>4. CASE closed  BY <1>1, <1>2, <1>3, <1>4 DEF Interrupt, AfterClose, Busy, Aborting, Finalizing
<1>5. CASE ~closed  BY <1>1, <1>2, <1>5 DEF Interrupt, Caught
<1> QED  BY <1>4, <1>5

(* Lists of commands. *)
LEMMA NotEmpty == ASSUME NEW S, NEW l \in Seq(S), Len(l) > 0 PROVE l # << >>
  OBVIOUS

LEMMA TailFacts ==
  ASSUME NEW S, NEW l \in Seq(S), l # << >>
  PROVE  /\ Tail(l) \in Seq(S) /\ Len(l) \in Nat /\ Len(l) > 0 /\ Head(l) = l[1]
         /\ Len(Tail(l)) = Len(l) - 1
         /\ \A i \in 1 .. Len(l) - 1 : Tail(l)[i] = l[i + 1]
  OBVIOUS

LEMMA JoinFacts ==
  ASSUME NEW S, NEW l \in Seq(S), NEW r \in Seq(S)
  PROVE  /\ l \o r \in Seq(S) /\ Len(l \o r) = Len(l) + Len(r)
         /\ Len(l) \in Nat /\ Len(r) \in Nat
         /\ \A i \in 1 .. Len(l) : (l \o r)[i] = l[i]
         /\ \A i \in 1 .. Len(r) : (l \o r)[i + Len(l)] = r[i]
         /\ \A i \in Len(l) + 1 .. Len(l) + Len(r) : (l \o r)[i] = r[i - Len(l)]
  OBVIOUS

\* Routine stays routine, and a drive comes nearer with every command that is done.
LEMMA TailOfRoutine ==
  ASSUME NEW l \in Seq(Commands), l # << >>, RoutineList(l)
  PROVE  RoutineList(Tail(l)) /\ l[1] \in Routine
  BY TailFacts DEF RoutineList

LEMMA TailOfDrive ==
  ASSUME NEW l \in Seq(Commands), NEW i \in 1..5, DriveAt(l, i)
  PROVE  /\ l # << >>
         /\ i = 1 => RoutineList(Tail(l)) /\ Tail(l) # << >> /\ Tail(l)[1] \in {"show", "restore"}
         /\ i > 1 => DriveAt(Tail(l), i - 1)
<1>1. l # << >> /\ Len(l) \in Nat  BY DEF DriveAt
<1>2. /\ Len(Tail(l)) = Len(l) - 1 /\ Tail(l) \in Seq(Commands)
      /\ \A j \in 1 .. Len(l) - 1 : Tail(l)[j] = l[j + 1]
  BY <1>1, TailFacts
<1>3. ASSUME i = 1
      PROVE  RoutineList(Tail(l)) /\ Tail(l) # << >> /\ Tail(l)[1] \in {"show", "restore"}
  <2>1. Len(l) > 1 /\ l[2] \in {"show", "restore"} /\ \A j \in 2 .. Len(l) : l[j] \in Routine
    BY <1>1, <1>3 DEF DriveAt
  <2>2. ASSUME NEW j \in 1 .. Len(l) - 1 PROVE Tail(l)[j] \in Routine
    <3>1. j + 1 \in 2 .. Len(l) /\ Tail(l)[j] = l[j + 1]  BY <1>1, <1>2
    <3> QED  BY <2>1, <3>1
  <2>3. 1 \in 1 .. Len(l) - 1  BY <1>1, <2>1
  <2>4. Tail(l) # << >>
    <3>1. Len(Tail(l)) > 0  BY <1>1, <1>2, <2>1
    <3> QED  BY <1>2, <3>1, NotEmpty
  <2>5. RoutineList(Tail(l))  BY <1>2, <2>2 DEF RoutineList
  <2>6. Tail(l)[1] \in {"show", "restore"}  BY <1>2, <2>1, <2>3
  <2> QED  BY <2>4, <2>5, <2>6
<1>4. ASSUME i > 1 PROVE DriveAt(Tail(l), i - 1)  BY <1>1, <1>2, <1>4 DEF DriveAt
<1> QED  BY <1>1, <1>3, <1>4

LEMMA TailOfApproach ==
  ASSUME NEW l \in Seq(Commands), NEW i \in 2..4, NEW n \in Nat, Approach(l, i, n)
  PROVE  /\ l # << >>
         /\ l[1] \in {"check", "restore"} => i > 2 /\ Approach(Tail(l), i - 1, n)
         /\ l[1] = "advance" => i = 2 /\ n \in {5, 9} /\ DriveAt(Tail(l), 1)
         /\ l[1] \in {"check", "restore", "advance"}
<1>1. DriveAt(l, i) /\ n \in {5, 9} /\ l[i - 1] = "advance"
      /\ \A j \in 1 .. i - 2 : l[j] \in {"check", "restore"}
  BY DEF Approach
<1>2. l # << >> /\ DriveAt(Tail(l), i - 1)  BY <1>1, TailOfDrive
<1>3. \A j \in 1 .. Len(l) - 1 : Tail(l)[j] = l[j + 1]  BY <1>2, TailFacts
<1>4. CASE i = 2  BY <1>1, <1>2, <1>4
<1>5. CASE i > 2
  <2>1. i < Len(l) /\ Len(l) \in Nat  BY <1>1 DEF DriveAt
  <2>2. Approach(Tail(l), i - 1, n)  BY <1>1, <1>2, <1>3, <1>5, <2>1 DEF Approach
  <2> QED  BY <1>1, <1>2, <1>5, <2>2
<1> QED  BY <1>4, <1>5

LEMMA TailOfHandoff ==
  ASSUME NEW l \in Seq(Commands), NEW i \in 2..5, NEW n \in Nat, HandsOver(l, i, n)
  PROVE  /\ l # << >> /\ l[1] = Handoff[6 - i] /\ n = (IF i > 3 THEN 10 ELSE 11)
         /\ i > 2 => \A m \in Nat : m = (IF i - 1 > 3 THEN 10 ELSE 11) =>
                       HandsOver(Tail(l), i - 1, m)
         /\ i = 2 => DriveAt(Tail(l), 1)
<1>1. DriveAt(l, i) /\ n = (IF i > 3 THEN 10 ELSE 11)
      /\ \A j \in 1 .. i - 1 : l[j] = Handoff[j + 5 - i]
  BY DEF HandsOver
<1>2. l # << >> /\ DriveAt(Tail(l), i - 1)  BY <1>1, TailOfDrive
<1>3. /\ \A j \in 1 .. Len(l) - 1 : Tail(l)[j] = l[j + 1]
      /\ i < Len(l) /\ Len(l) \in Nat
  BY <1>1, <1>2, TailFacts DEF DriveAt
<1>4. ASSUME i > 2, NEW j \in 1 .. i - 2 PROVE Tail(l)[j] = Handoff[j + 5 - (i - 1)]
  <2>1. j \in 1 .. Len(l) - 1 /\ j + 1 \in 1 .. i - 1 /\ (j + 1) + 5 - i = j + 5 - (i - 1)
    BY <1>3, <1>4
  <2> QED  BY <1>1, <1>3, <2>1
<1>5. l[1] = Handoff[6 - i]
  <2>1. 1 \in 1 .. i - 1 /\ 1 + 5 - i = 6 - i  OBVIOUS
  <2> QED  BY <1>1, <2>1
<1>6. ASSUME i > 2, NEW m \in Nat, m = (IF i - 1 > 3 THEN 10 ELSE 11)
      PROVE  HandsOver(Tail(l), i - 1, m)
  <2>1. (i - 1) - 1 = i - 2  OBVIOUS
  <2> QED  BY <1>2, <1>4, <1>6, <2>1 DEF HandsOver
<1> QED  BY <1>1, <1>2, <1>5, <1>6

\* A list is a drive with what leads there, put together from its parts.
LEMMA JoinDrive ==
  ASSUME NEW l \in Seq(Commands), NEW r \in Seq(Commands), NEW i \in 1..5, DriveAt(r, i)
  PROVE  DriveAt(l \o r, Len(l) + i)
<1>1. i < Len(r) /\ r[i] = "execute" /\ r[i + 1] \in {"show", "restore"}
      /\ \A j \in i + 1 .. Len(r) : r[j] \in Routine
  BY DEF DriveAt
<1>2. /\ Len(l \o r) = Len(l) + Len(r) /\ Len(l) \in Nat /\ Len(r) \in Nat
      /\ \A j \in Len(l) + 1 .. Len(l) + Len(r) : (l \o r)[j] = r[j - Len(l)]
  BY JoinFacts
<1>3. ASSUME NEW j \in i .. Len(r)
      PROVE  (l \o r)[Len(l) + j] = r[j]
  <2>1. Len(l) + j \in Len(l) + 1 .. Len(l) + Len(r) /\ (Len(l) + j) - Len(l) = j  BY <1>1, <1>2
  <2> QED  BY <1>2, <2>1
<1>4. (l \o r)[Len(l) + i] = "execute" /\ (l \o r)[(Len(l) + i) + 1] \in {"show", "restore"}
  <2>1. i \in i .. Len(r) /\ i + 1 \in i .. Len(r) /\ (Len(l) + i) + 1 = Len(l) + (i + 1)
    BY <1>1, <1>2
  <2> QED  BY <1>1, <1>3, <2>1
<1>5. ASSUME NEW j \in (Len(l) + i) + 1 .. Len(l \o r) PROVE (l \o r)[j] \in Routine
  <2>1. j - Len(l) \in i .. Len(r) /\ j - Len(l) \in i + 1 .. Len(r) /\ Len(l) + (j - Len(l)) = j
    BY <1>1, <1>2
  <2> QED  BY <1>1, <1>3, <2>1
<1> QED  BY <1>1, <1>2, <1>4, <1>5 DEF DriveAt

\* The drive of the training, and what a confirmed practice adds to it.
LEMMA TrainingFacts ==
  /\ Training \in Seq(Commands) /\ DriveAt(Training, 1)
  /\ Training \o << "deafen" >> \in Seq(Commands) /\ DriveAt(Training \o << "deafen" >>, 1)
<1>1. Training \in Seq(Commands) /\ Len(Training) = 4 /\ Training[1] = "execute"
      /\ Training[2] = "show" /\ Training[3] = "policy" /\ Training[4] = "advance"
  BY DEF Training, Commands, Routine
<1>2. << "deafen" >> \in Seq(Commands) /\ Len(<< "deafen" >>) = 1 /\ << "deafen" >>[1] = "deafen"
  BY DEF Commands, Routine
<1>3. DriveAt(Training, 1)  BY <1>1 DEF DriveAt, Routine
<1> DEFINE l == Training \o << "deafen" >>
<1>4. l \in Seq(Commands) /\ Len(l) = 5 /\ l[1] = "execute" /\ l[2] = "show"
      /\ l[3] = "policy" /\ l[4] = "advance" /\ l[5] = "deafen"
  <2> DEFINE d == << "deafen" >>
  <2>1. d \in Seq(Commands) /\ Len(d) = 1 /\ d[1] = "deafen"  BY <1>2
  <2> HIDE DEF d
  <2> DEFINE t == Training
  <2>a. t \in Seq(Commands) /\ t = Training  BY <1>1
  <2> HIDE DEF t
  <2>b. /\ t \o d \in Seq(Commands) /\ Len(t \o d) = Len(t) + Len(d)
        /\ \A i \in 1..Len(t) : (t \o d)[i] = t[i]
        /\ \A i \in 1..Len(d) : (t \o d)[i + Len(t)] = d[i]
    BY <2>1, <2>a, JoinFacts
  <2>2. /\ Training \o d \in Seq(Commands) /\ Len(Training \o d) = 4 + 1
        /\ \A i \in 1..4 : (Training \o d)[i] = Training[i]
        /\ \A i \in 1..1 : (Training \o d)[i + 4] = d[i]
    BY <1>1, <2>1, <2>a, <2>b
  <2>3. (Training \o d)[5] = "deafen"  BY <2>1, <2>2
  <2> QED  BY <1>1, <2>2, <2>3 DEF d
<1> HIDE DEF l
<1>5. DriveAt(l, 1)  BY <1>4 DEF DriveAt, Routine
<1> QED  BY <1>1, <1>3, <1>4, <1>5 DEF l

LEMMA AfterFacts == AfterM2 \in Seq(Commands) /\ RoutineList(AfterM2)
<1> DEFINE a == IF ~cfg.nominal \/ state = "MODULE_2_RUNNING"
                THEN << "policy", "advance", "policy" >> ELSE << >>
           b == << "advance", "policy", "advance" >>
<1>1. a \in Seq(Commands) /\ Len(a) \in Nat /\ \A i \in 1..Len(a) : a[i] \in Routine
  <2>1. CASE ~cfg.nominal \/ state = "MODULE_2_RUNNING"
    <3>1. a = << "policy", "advance", "policy" >>  BY <2>1
    <3> HIDE DEF a
    <3>2. a \in Seq(Commands) /\ Len(a) = 3  BY <3>1 DEF Commands, Routine
    <3>3. a[1] \in Routine /\ a[2] \in Routine /\ a[3] \in Routine  BY <3>1 DEF Routine
    <3> QED  BY <3>2, <3>3
  <2>2. CASE ~(~cfg.nominal \/ state = "MODULE_2_RUNNING")
    <3>1. a = << >>  BY <2>2
    <3> QED  BY <3>1
  <2> QED  BY <2>1, <2>2
<1>2. b \in Seq(Commands) /\ Len(b) = 3 /\ \A i \in 1..3 : b[i] \in Routine
  BY DEF Commands, Routine
<1>3. AfterM2 = a \o b  BY DEF AfterM2
<1> HIDE DEF a, b
<1>4. /\ a \o b \in Seq(Commands) /\ Len(a \o b) = Len(a) + 3
      /\ \A i \in 1 .. Len(a) : (a \o b)[i] = a[i]
      /\ \A i \in Len(a) + 1 .. Len(a) + 3 : (a \o b)[i] = b[i - Len(a)]
  <2>1. a \in Seq(Commands)  BY <1>1
  <2>2. b \in Seq(Commands)  BY <1>2
  <2>3. /\ a \o b \in Seq(Commands) /\ Len(a \o b) = Len(a) + Len(b)
        /\ \A i \in 1 .. Len(a) : (a \o b)[i] = a[i]
        /\ \A i \in Len(a) + 1 .. Len(a) + Len(b) : (a \o b)[i] = b[i - Len(a)]
    BY <2>1, <2>2, JoinFacts
  <2> QED  BY <1>1, <1>2, <2>3
<1>5. ASSUME NEW i \in 1 .. Len(a) + 3 PROVE (a \o b)[i] \in Routine
  <2>1. CASE i \in 1 .. Len(a)  BY <1>1, <1>4, <2>1
  <2>2. CASE i \in Len(a) + 1 .. Len(a) + 3
    <3>1. i - Len(a) \in 1..3  BY <1>1, <2>2
    <3> QED  BY <1>2, <1>4, <2>2, <3>1
  <2>3. Len(a) \in Nat /\ i \in 1 .. Len(a) + 3  BY <1>1
  <2>4. i \in 1 .. Len(a) \/ i \in Len(a) + 1 .. Len(a) + 3  BY <2>3
  <2> QED  BY <2>1, <2>2, <2>4
<1> QED  BY <1>3, <1>4, <1>5 DEF RoutineList

\* The lists of the pages.
LEMMA CheckFacts ==
  /\ Check \in Seq(Commands) /\ Len(Check) \in 1..2
  /\ \A i \in 1 .. Len(Check) : Check[i] \in {"check", "restore"}
  BY DEF Check, Commands, Routine

LEMMA ApproachFacts ==
  ASSUME NEW r \in Seq(Commands), DriveAt(r, 2), r[1] = "advance", NEW n \in {5, 9}
  PROVE  Check \o r \in Seq(Commands) /\ Approach(Check \o r, Len(Check) + 2, n)
<1>1. DriveAt(Check \o r, Len(Check) + 2)  BY CheckFacts, JoinDrive
<1>2. Len(r) \in Nat /\ Len(r) > 2  BY DEF DriveAt
<1>3. /\ Check \o r \in Seq(Commands)
      /\ \A i \in 1 .. Len(Check) : (Check \o r)[i] = Check[i]
      /\ (Check \o r)[Len(Check) + 1] = r[1]
  <2>1. Len(Check) + 1 \in Len(Check) + 1 .. Len(Check) + Len(r)
        /\ (Len(Check) + 1) - Len(Check) = 1
    BY <1>2, CheckFacts
  <2> QED  BY <2>1, CheckFacts, JoinFacts
<1>4. (Len(Check) + 2) - 1 = Len(Check) + 1 /\ (Len(Check) + 2) - 2 = Len(Check)  BY CheckFacts
<1> QED  BY <1>1, <1>3, <1>4, CheckFacts DEF Approach

LEMMA ScriptFacts ==
  ASSUME NEW stage \in Stages
  PROVE  /\ Script(stage) \in Seq(Commands)
         /\ stage \in {"EYE_TRACKER_CALIBRATION", "REST"} \cup Terminal =>
              RoutineList(Script(stage))
         /\ stage \in {"MODULE_1_PREPARE", "MODULE_2_PREPARE"} =>
              \E i \in 2..4 : \A n \in {5, 9} : Approach(Script(stage), i, n)
         /\ stage \notin {"EYE_TRACKER_CALIBRATION", "REST", "MODULE_1_PREPARE",
                          "MODULE_2_PREPARE"} \cup Terminal => Script(stage) = << "raiseP8" >>
<1>1. CASE stage \in {"EYE_TRACKER_CALIBRATION", "REST"} \cup Terminal
  <2>1. CASE stage = "EYE_TRACKER_CALIBRATION"
    <3> DEFINE r == << "receipt", "advance" >>
    <3>1. Script(stage) = r  BY <2>1 DEF Script, Terminal
    <3>2. r \in Seq(Commands) /\ Len(r) = 2 /\ r[1] = "receipt" /\ r[2] = "advance"
      BY DEF Commands, Routine
    <3> HIDE DEF r
    <3>3. RoutineList(r)  BY <3>2 DEF RoutineList, Routine
    <3> QED  BY <1>1, <2>1, <3>1, <3>2, <3>3
  <2>2. CASE stage = "REST"
    <3> DEFINE r == << "advance" >>
    <3>1. Script(stage) = r  BY <2>2 DEF Script, Terminal
    <3>2. r \in Seq(Commands) /\ Len(r) = 1 /\ r[1] = "advance"  BY DEF Commands, Routine
    <3> HIDE DEF r
    <3>3. RoutineList(r)  BY <3>2 DEF RoutineList, Routine
    <3> QED  BY <1>1, <2>2, <3>1, <3>2, <3>3
  <2>3. CASE stage \in Terminal
    <3>1. Script(stage) = << >>  BY <2>3 DEF Script, Terminal
    <3> QED  BY <1>1, <2>3, <3>1 DEF RoutineList, Terminal
  <2> QED  BY <1>1, <2>1, <2>2, <2>3
<1>2. CASE stage = "MODULE_1_PREPARE"
  <2> DEFINE r == << "advance", "execute", "restore", "policy", "advance", "advance" >>
  <2>1. r \in Seq(Commands) /\ Len(r) = 6 /\ r[1] = "advance" /\ r[2] = "execute"
        /\ r[3] = "restore" /\ r[4] = "policy" /\ r[5] = "advance" /\ r[6] = "advance"
    BY DEF Commands, Routine
  <2>2. Script(stage) = Check \o r  BY <1>2 DEF Script, Terminal
  <2> HIDE DEF r
  <2>3. DriveAt(r, 2)  BY <2>1 DEF DriveAt, Routine
  <2>4. \A n \in {5, 9} : Check \o r \in Seq(Commands) /\ Approach(Check \o r, Len(Check) + 2, n)
    BY <2>1, <2>3, ApproachFacts
  <2>5. Len(Check) + 2 \in 2..4 /\ 5 \in {5, 9}  BY CheckFacts
  <2>6. Check \o r \in Seq(Commands) /\ \A n \in {5, 9} : Approach(Check \o r, Len(Check) + 2, n)
    BY <2>4, <2>5
  <2> QED  BY <1>2, <2>2, <2>5, <2>6 DEF Terminal
<1>3. CASE stage = "MODULE_2_PREPARE"
  <2> DEFINE r == << "advance", "execute", "restore", "after" >>
  <2>1. r \in Seq(Commands) /\ Len(r) = 4 /\ r[1] = "advance" /\ r[2] = "execute"
        /\ r[3] = "restore" /\ r[4] = "after"
    BY DEF Commands, Routine
  <2>2. Script(stage) = Check \o r  BY <1>3 DEF Script, Terminal
  <2> HIDE DEF r
  <2>3. DriveAt(r, 2)  BY <2>1 DEF DriveAt, Routine
  <2>4. \A n \in {5, 9} : Check \o r \in Seq(Commands) /\ Approach(Check \o r, Len(Check) + 2, n)
    BY <2>1, <2>3, ApproachFacts
  <2>5. Len(Check) + 2 \in 2..4 /\ 5 \in {5, 9}  BY CheckFacts
  <2>6. Check \o r \in Seq(Commands) /\ \A n \in {5, 9} : Approach(Check \o r, Len(Check) + 2, n)
    BY <2>4, <2>5
  <2> QED  BY <1>3, <2>2, <2>5, <2>6 DEF Terminal
<1>4. CASE stage \notin {"EYE_TRACKER_CALIBRATION", "REST", "MODULE_1_PREPARE",
                         "MODULE_2_PREPARE"} \cup Terminal
  BY <1>4 DEF Script, Terminal, Commands, Closings
<1> QED  BY <1>1, <1>2, <1>3, <1>4

\* The handoff is put before a drive, and taken away from it again when it fails.
LEMMA HandoffFacts ==
  ASSUME NEW l \in Seq(Commands), DriveAt(l, 1)
  PROVE  Handoff \o l \in Seq(Commands) /\ HandsOver(Handoff \o l, 5, 10)
<1>1. Handoff \in Seq(Commands) /\ Len(Handoff) = 4  BY DEF Handoff, Commands, Routine
<1>2. DriveAt(Handoff \o l, 5)
  <2>1. Handoff \in Seq(Commands)  BY <1>1
  <2>2. DriveAt(Handoff \o l, Len(Handoff) + 1)  BY <2>1, JoinDrive
  <2> QED  BY <1>1, <2>2
<1>3. Handoff \o l \in Seq(Commands) /\ \A i \in 1..4 : (Handoff \o l)[i] = Handoff[i]
  <2>1. Handoff \in Seq(Commands)  BY <1>1
  <2>2. /\ Handoff \o l \in Seq(Commands)
        /\ \A i \in 1..Len(Handoff) : (Handoff \o l)[i] = Handoff[i]
    BY <2>1, JoinFacts
  <2> QED  BY <1>1, <2>2
<1>4. ASSUME NEW j \in 1 .. 5 - 1 PROVE (Handoff \o l)[j] = Handoff[j + 5 - 5]
  <2>1. j + 5 - 5 = j /\ j \in 1..4  OBVIOUS
  <2> QED  BY <1>3, <2>1
<1>5. 10 = (IF 5 > 3 THEN 10 ELSE 11)  OBVIOUS
<1> QED  BY <1>2, <1>3, <1>4, <1>5 DEF HandsOver

LEMMA AtDriveFacts ==
  ASSUME todo \in Seq(Commands), NEW i \in 2..5, NEW n, HandsOver(todo, i, n)
  PROVE  AtDrive \in Seq(Commands) /\ DriveAt(AtDrive, 1)
<1>1. /\ i < Len(todo) /\ Len(todo) \in Nat /\ todo[i] = "execute"
      /\ todo[i + 1] \in {"show", "restore"}
      /\ \A j \in i + 1 .. Len(todo) : todo[j] \in Routine
      /\ \A j \in 1 .. i - 1 : todo[j] = Handoff[j + 5 - i]
  BY DEF HandsOver, DriveAt
<1>2. ASSUME NEW j \in 1..Len(todo), todo[j] = "execute" PROVE j = i
  <2>1. \A k \in 1..4 : Handoff[k] # "execute"  BY DEF Handoff
  <2>2. CASE j < i
    <3>1. j \in 1 .. i - 1 /\ j + 5 - i \in 1..4  BY <2>2
    <3> QED  BY <1>1, <1>2, <2>1, <3>1
  <2>3. CASE j > i
    <3>1. j \in i + 1 .. Len(todo)  BY <2>3
    <3> QED  BY <1>1, <1>2, <3>1 DEF Routine
  <2> QED  BY <2>2, <2>3
<1>3. (CHOOSE j \in 1..Len(todo) : todo[j] = "execute") = i  BY <1>1, <1>2
<1>4. AtDrive = SubSeq(todo, i, Len(todo))  BY <1>3 DEF AtDrive
<1>5. /\ SubSeq(todo, i, Len(todo)) \in Seq(Commands)
      /\ Len(SubSeq(todo, i, Len(todo))) = Len(todo) - i + 1
      /\ \A j \in 1 .. Len(todo) - i + 1 : SubSeq(todo, i, Len(todo))[j] = todo[j + i - 1]
  BY <1>1
<1> DEFINE l == SubSeq(todo, i, Len(todo))
<1> HIDE DEF l
<1>6. l[1] = "execute" /\ l[2] \in {"show", "restore"} /\ Len(l) = Len(todo) - i + 1
  <2>1. 1 \in 1 .. Len(todo) - i + 1 /\ 2 \in 1 .. Len(todo) - i + 1
        /\ 1 + i - 1 = i /\ 2 + i - 1 = i + 1
    BY <1>1
  <2> QED  BY <1>1, <1>5, <2>1 DEF l
<1>7. ASSUME NEW j \in 2 .. Len(l) PROVE l[j] \in Routine
  <2>1. j \in 1 .. Len(todo) - i + 1 /\ j + i - 1 \in i + 1 .. Len(todo)  BY <1>1, <1>6
  <2> QED  BY <1>1, <1>5, <2>1 DEF l
<1>8. DriveAt(l, 1)  BY <1>1, <1>6, <1>7 DEF DriveAt
<1> QED  BY <1>4, <1>5, <1>8 DEF l

(* The types of the program. *)

\* What a step of the executor can do to its record.
Kinds == Errors \cup {"KI"}
Steps(at) == Move(at) \/ \E kind \in Kinds : Failed(at, kind)
Outcomes0 == {"none", "TIME_LIMIT_REACHED", "USER_ABORT", "HAZARD_COLLISION"}
Confirmed0 == {"none", "SPACE", "OPERATOR_ESCAPE", "WINDOW_CLOSE"}

LEMMA ExecutorFields ==
  ASSUME ex \in Executors, NEW at \in Points, NEW kind \in Errors \cup {"none", "KI"},
         NEW outcome \in Outcomes0, NEW confirmed \in Confirmed0
  PROVE  /\ [ex EXCEPT !.at = at] \in Executors
         /\ [ex EXCEPT !.at = at, !.first = kind] \in Executors
         /\ [ex EXCEPT !.at = at, !.others = TRUE] \in Executors
         /\ [ex EXCEPT !.at = at, !.outcome = outcome] \in Executors
         /\ [ex EXCEPT !.at = at, !.outcome = outcome, !.clean = FALSE] \in Executors
         /\ [ex EXCEPT !.at = at, !.confirmed = confirmed] \in Executors
<1>1. [ex EXCEPT !.at = at] \in Executors  BY DEF Executors
<1>2. [ex EXCEPT !.at = at, !.first = kind] \in Executors  BY DEF Executors
<1>3. [ex EXCEPT !.at = at, !.others = TRUE] \in Executors  BY DEF Executors
<1>4. [ex EXCEPT !.at = at, !.outcome = outcome] \in Executors  BY DEF Executors, Outcomes0
<1>5. [ex EXCEPT !.at = at, !.outcome = outcome, !.clean = FALSE] \in Executors
  BY DEF Executors, Outcomes0
<1>6. [ex EXCEPT !.at = at, !.confirmed = confirmed] \in Executors  BY DEF Executors, Confirmed0
<1> QED  BY <1>1, <1>2, <1>3, <1>4, <1>5, <1>6

LEMMA StepTypes ==
  ASSUME ex \in Executors, NEW at \in Points, Steps(at)
  PROVE  ex' \in Executors
<1>1. CASE Move(at)
  <2>1. "none" \in Errors \cup {"none", "KI"} /\ "none" \in Outcomes0 /\ "none" \in Confirmed0
    BY DEF Outcomes0, Confirmed0
  <2> QED  BY <1>1, <2>1, ExecutorFields DEF Move
<1>2. ASSUME NEW kind \in Kinds, Failed(at, kind) PROVE ex' \in Executors
  <2>1. kind \in Errors \cup {"none", "KI"} /\ "none" \in Outcomes0 /\ "none" \in Confirmed0
    BY DEF Outcomes0, Confirmed0, Kinds
  <2> QED  BY <1>2, <2>1, ExecutorFields DEF Failed
<1> QED  BY <1>1, <1>2 DEF Steps

LEMMA BreakSteps ==
  ASSUME NEW at, NEW kinds, kinds \subseteq Kinds, Breaks(at, kinds) PROVE Steps(at)
  BY DEF Breaks, Steps

\* A step of a drive that keeps to it: nothing but the drive moves, and an interrupted drive
\* stays one.
Rolls ==
  /\ UNCHANGED << vars, cfg, window, keyboard, runs, slots, export, code >>
  /\ ex' \in Executors /\ Inside /\ Inside' /\ ex'.stage = ex.stage
  /\ ex.first = "KI" => ex'.first = "KI"

LEMMA StepRolls ==
  ASSUME ex \in Executors, NEW at \in Points \ {"off", "handoff"}, Steps(at), Inside,
         UNCHANGED << vars, cfg, window, keyboard, runs, slots, export, code >>
  PROVE  Rolls
<1>1. ex' \in Executors  BY StepTypes
<1>2. /\ ex'.at = at /\ ex'.stage = ex.stage
      /\ ex.first = "KI" => ex'.first = "KI"
  BY DEF Steps, Move, Failed, Executors
<1> QED  BY <1>1, <1>2 DEF Rolls, Inside

\* The ends of a drive keep to it too.
LEMMA EndRolls ==
  ASSUME ex \in Executors, Inside, NEW outcome \in {"TIME_LIMIT_REACHED", "USER_ABORT"},
         ex' = [ex EXCEPT !.at = "stopgaze", !.outcome = outcome],
         UNCHANGED << vars, cfg, window, keyboard, runs, slots, export, code >>
  PROVE  Rolls
<1>1. "stopgaze" \in Points /\ outcome \in Outcomes0 /\ "none" \in Errors \cup {"none", "KI"}
      /\ "none" \in Confirmed0
  BY DEF Points, Outcomes0, Confirmed0
<1>2. ex' \in Executors  BY <1>1, ExecutorFields
<1>3. ex'.at = "stopgaze" /\ ex'.stage = ex.stage /\ ex'.first = ex.first  BY DEF Executors
<1> QED  BY <1>2, <1>3 DEF Rolls, Inside

LEMMA NoticeRolls ==
  ASSUME ex \in Executors, Inside,
         \/ ex' = [ex EXCEPT !.at = "notice", !.outcome = "HAZARD_COLLISION"]
         \/ ex' = [ex EXCEPT !.at = "notice", !.outcome = "HAZARD_COLLISION", !.clean = FALSE]
         \/ \E answer \in {"SPACE", "OPERATOR_ESCAPE", "WINDOW_CLOSE"} :
              ex' = [ex EXCEPT !.at = "stopgaze", !.confirmed = answer],
         UNCHANGED << vars, cfg, window, keyboard, runs, slots, export, code >>
  PROVE  Rolls
<1>1. {"notice", "stopgaze"} \subseteq Points /\ "HAZARD_COLLISION" \in Outcomes0
      /\ {"SPACE", "OPERATOR_ESCAPE", "WINDOW_CLOSE"} \subseteq Confirmed0
      /\ "none" \in Errors \cup {"none", "KI"} /\ "none" \in Outcomes0 /\ "none" \in Confirmed0
  BY DEF Points, Outcomes0, Confirmed0
<1>2. ex' \in Executors
  <2>1. ASSUME NEW answer \in {"SPACE", "OPERATOR_ESCAPE", "WINDOW_CLOSE"},
               ex' = [ex EXCEPT !.at = "stopgaze", !.confirmed = answer]
        PROVE  ex' \in Executors
    BY <1>1, <2>1, ExecutorFields
  <2>2. CASE ex' = [ex EXCEPT !.at = "notice", !.outcome = "HAZARD_COLLISION"]
    BY <1>1, <2>2, ExecutorFields
  <2>3. CASE ex' = [ex EXCEPT !.at = "notice", !.outcome = "HAZARD_COLLISION", !.clean = FALSE]
    BY <1>1, <2>3, ExecutorFields
  <2> QED  BY <2>1, <2>2, <2>3
<1>3. ex'.at \in {"notice", "stopgaze"} /\ ex'.stage = ex.stage /\ ex'.first = ex.first
  BY DEF Executors
<1> QED  BY <1>2, <1>3 DEF Rolls, Inside

\* The steps of a drive that keep to it, and what each makes of what the drive holds.
Turns == DriveEnds /\ ~Move("handoff")
Interrupted == CtrlC /\ Inside /\ where # "cli"
Rolling ==
  \/ BuildRunner \/ OpenRuntime \/ StartGaze \/ Turns \/ Pause \/ AnswerPause \/ Collide
  \/ AnswerNotice \/ StopGaze \/ CloseRuntime \/ Settle \/ ReduceDrive \/ Interrupted

Fresh(e) == e.at \in {"build", "open", "gaze", "drive", "paused", "notice", "handoff",
                      "reduce", "store"} => e.first = "none"
Forward == /\ Early(ex') => Early(ex)
           /\ ex'.outcome = "HAZARD_COLLISION" => ex.outcome = "HAZARD_COLLISION" \/ Early(ex)
Concluded(e) ==
  /\ e.at \in {"stopgaze", "close", "settle", "reduce", "store"} /\ e.first = "none" =>
       e.outcome # "none"
  /\ e.at \in {"build", "open", "gaze", "drive", "paused", "handoff"} => e.outcome = "none"
  /\ e.at = "notice" => e.outcome = "HAZARD_COLLISION"
Holding(e, held0) ==
  held0 # {} => e.at \in {"gaze", "drive", "handoff", "paused", "notice", "stopgaze", "close"}

LEMMA RollsDrive ==
  ASSUME DriveInv, Rolls, Fresh(ex'), Concluded(ex'), Holding(ex', open'), Forward
  PROVE  DriveInv'
<1>1. Executed' = Executed  BY DEF Rolls, Executed
<1>2. ex.at # "off" /\ ex'.at # "off" /\ ex.at # "handoff" /\ ex'.at # "handoff"
  BY DEF Rolls, Inside
<1>3. UNCHANGED << held, logClosed, practice, pc, state >>
  BY DEF Rolls, window, vars, place, ending
<1> QED  BY <1>1, <1>2, <1>3 DEF DriveInv, Rolls, Inside, Fresh, Concluded, Holding, Forward, Early

LEMMA DriveParts ==
  ASSUME DriveInv, Inside
  PROVE  Fresh(ex) /\ Concluded(ex) /\ Holding(ex, open)
  BY DEF DriveInv, Inside, Fresh, Concluded, Holding

LEMMA RollingSteps ==
  ASSUME ex \in Executors, Rolling, DriveInv
  PROVE  Rolls /\ DriveInv'
<1> USE DEF Driving, Drives, StillTodo, window, Inside, Points, Kinds, Errors
<1>1. CASE BuildRunner
  <2>1. Steps("open") \/ Steps("fail")  BY <1>1, BreakSteps DEF BuildRunner, Steps
  <2>2. Rolls  BY <1>1, <2>1, StepRolls DEF BuildRunner
  <2>3. Fresh(ex') /\ Concluded(ex') /\ Holding(ex', open') /\ Forward
    BY ZenonT(60), <1>1, DriveParts DEF BuildRunner, Breaks, Move, Failed, Fresh, Concluded, Holding, Forward, Early,
           Executors
  <2> QED  BY <2>2, <2>3, RollsDrive
<1>2. CASE OpenRuntime
  <2>1. Steps("gaze") \/ Steps("settle")  BY <1>2, BreakSteps DEF OpenRuntime, Steps
  <2>2. Rolls  BY <1>2, <2>1, StepRolls DEF OpenRuntime
  <2>3. Fresh(ex') /\ Concluded(ex') /\ Holding(ex', open') /\ Forward
    BY ZenonT(60), <1>2, DriveParts DEF OpenRuntime, Breaks, Move, Failed, Fresh, Concluded, Holding, Forward, Early,
           Executors
  <2> QED  BY <2>2, <2>3, RollsDrive
<1>3. CASE StartGaze
  <2>1. Steps("drive")  BY <1>3 DEF StartGaze, Steps
  <2>2. Rolls  BY <1>3, <2>1, StepRolls DEF StartGaze
  <2>3. Fresh(ex') /\ Concluded(ex') /\ Holding(ex', open') /\ Forward
    BY ZenonT(60), <1>3, DriveParts DEF StartGaze, Move, Fresh, Concluded, Holding, Forward, Early,
           Executors
  <2> QED  BY <2>2, <2>3, RollsDrive
<1>4. CASE Turns
  <2>1. \/ Steps("stopgaze")
        \/ /\ ex' = [ex EXCEPT !.at = "stopgaze", !.outcome = "TIME_LIMIT_REACHED"]
        \/ /\ ex' = [ex EXCEPT !.at = "stopgaze", !.outcome = "USER_ABORT"]
    BY <1>4, BreakSteps DEF DriveEnds, Turns
  <2>2. Rolls  BY <1>4, <2>1, StepRolls, EndRolls DEF DriveEnds, Turns
  <2>3. Fresh(ex') /\ Concluded(ex') /\ Holding(ex', open') /\ Forward
    BY ZenonT(60), <1>4, DriveParts DEF DriveEnds, Turns, Breaks, Failed, Fresh, Concluded, Holding, Forward, Early,
           Executors
  <2> QED  BY <2>2, <2>3, RollsDrive
<1>5. CASE Pause \/ AnswerPause
  <2>1. \/ Steps("paused") \/ Steps("drive") \/ UNCHANGED ex
        \/ ex' = [ex EXCEPT !.at = "stopgaze", !.outcome = "USER_ABORT"]
    BY <1>5 DEF Pause, AnswerPause, Steps
  <2>2. Rolls  BY <1>5, <2>1, StepRolls, EndRolls DEF Pause, AnswerPause, Rolls
  <2>3. Fresh(ex') /\ Concluded(ex') /\ Holding(ex', open') /\ Forward
    BY ZenonT(60), <1>5, DriveParts DEF Pause, AnswerPause, Move, Fresh, Concluded, Holding, Forward, Early,
           Executors
  <2> QED  BY <2>2, <2>3, RollsDrive
<1>6. CASE Collide \/ AnswerNotice
  <2>1. Rolls  BY <1>6, NoticeRolls DEF Collide, AnswerNotice
  <2>2. Fresh(ex') /\ Concluded(ex') /\ Holding(ex', open') /\ Forward
    BY ZenonT(60), <1>6, DriveParts DEF Collide, AnswerNotice, Fresh, Concluded, Holding, Forward, Early,
           Executors
  <2> QED  BY <2>1, <2>2, RollsDrive
<1>7. CASE StopGaze \/ CloseRuntime
  <2>1. Steps("close") \/ Steps("settle")  BY <1>7, BreakSteps DEF StopGaze, CloseRuntime, Steps
  <2>2. Rolls  BY <1>7, <2>1, StepRolls DEF StopGaze, CloseRuntime
  <2>3. Fresh(ex') /\ Concluded(ex') /\ Holding(ex', open') /\ Forward
    BY ZenonT(60), <1>7, DriveParts DEF StopGaze, CloseRuntime, Breaks, Failed, Move, Fresh, Concluded, Holding,
                            Forward, Early, Executors
  <2> QED  BY <2>2, <2>3, RollsDrive
<1>8. CASE Settle \/ ReduceDrive
  <2>1. Steps("reduce") \/ Steps("fail") \/ Steps("store")
    BY <1>8, BreakSteps DEF Settle, ReduceDrive, Steps
  <2>2. Rolls  BY <1>8, <2>1, StepRolls DEF Settle, ReduceDrive
  <2>3. Fresh(ex') /\ Concluded(ex') /\ Holding(ex', open') /\ Forward
    <3>1. CASE Settle
      BY ZenonT(60), <3>1, DriveParts DEF Settle, Breaks, Failed, Move, Fresh, Concluded, Holding,
                                        Forward, Early, Executors
    <3>2. CASE ReduceDrive
      BY ZenonT(60), <3>2, DriveParts DEF ReduceDrive, Breaks, Failed, Move, Fresh, Concluded, Holding,
                                        Forward, Early, Executors
    <3> QED  BY <1>8, <3>1, <3>2
  <2> QED  BY <2>2, <2>3, RollsDrive
<1>9. CASE Interrupted
  <2>1. CtrlC /\ where # "cli" /\ ex.at \notin {"off", "handoff"}  BY <1>9 DEF Interrupted
  <2>2. \/ /\ ex.at \in {"gaze", "drive", "paused", "notice"} /\ Failed("stopgaze", "KI")
        \/ /\ ex.at \in {"build", "reduce"} /\ Failed("fail", "KI")
        \/ /\ ex.at = "open" /\ Failed("settle", "KI")
        \/ /\ ex.at = "close" /\ Failed("close", "KI")
    BY <2>1 DEF CtrlC
  <2>3. UNCHANGED << vars, cfg, where, todo, held, practice, code, keyboard, runs, slots, open, export >>
    BY <2>1 DEF CtrlC, NoSession
  <2>4. Steps("stopgaze") \/ Steps("fail") \/ Steps("settle") \/ Steps("close")
    BY <2>2 DEF Steps, Kinds
  <2>5. Rolls  BY <1>9, <2>3, <2>4, StepRolls DEF Interrupted
  <2>6. Fresh(ex') /\ Concluded(ex') /\ Holding(ex', open') /\ Forward
    <3>1. open' = open /\ Fresh(ex) /\ Concluded(ex) /\ Holding(ex, open)  BY <2>1, <2>3, DriveParts
    <3>2. CASE ex.first = "none"
      BY <2>2, <3>1, <3>2, ZenonT(40) DEF Failed, Fresh, Concluded, Holding, Forward, Early,
           Executors
    <3>3. CASE ex.first # "none"
      BY <2>2, <3>1, <3>3 DEF Failed, Fresh, Concluded, Holding, Forward, Early,
           Executors
    <3> QED  BY <3>2, <3>3
  <2> QED  BY <2>5, <2>6, RollsDrive
<1> QED  BY <1>1, <1>2, <1>3, <1>4, <1>5, <1>6, <1>7, <1>8, <1>9 DEF Rolling

LEMMA RollsKeep ==
  ASSUME ProgramInv, Rolls, DriveInv', open' \subseteq {"runtime", "gaze"}, SessionInv', FinalInv'
  PROVE  ProgramInv'
<1>1. UNCHANGED << cfg, where, todo, held, practice, code, queue, batch, asked, runs, slots, pc,
                   state, position, policy, approval, work, verdict, closed, logClosed,
                   lifecycle, errors >>
  BY DEF Rolls, window, keyboard, vars, place, entry, ending
<1>2. Executed' = Executed /\ Standing' = Standing  BY <1>1 DEF Executed, Standing
<1>3. /\ ex.at \notin {"off", "handoff"} /\ ex'.at \notin {"off", "handoff"}
      /\ ex'.stage = ex.stage /\ ex' \in Executors
      /\ ex.first = "KI" => ex'.first = "KI"
  BY DEF Rolls, Inside
<1>4. FlowTypes'  BY <1>1, <1>3 DEF FlowTypes, ProgramInv
<1>5. CallInv'  BY <1>1, <1>3 DEF CallInv, ProgramInv, Issuing, Inside, FirstCommand
<1>6. ScriptInv'  BY <1>1, <1>2, <1>3 DEF ScriptInv, ProgramInv
<1>7. PageInv'  BY <1>1, <1>3 DEF PageInv, ProgramInv
<1>8. StaleInv'  BY <1>3 DEF StaleInv
<1>9. RunsInv'  BY <1>1, <1>2, <1>3 DEF RunsInv, ProgramInv, Ready, Driven
<1>10. SpoiledInv'
  <2>1. ~Spoiled  BY <1>3 DEF SpoiledInv, ProgramInv
  <2> QED  BY <1>1, <1>2, <2>1 DEF SpoiledInv, Spoiled
<1>11. StoppedInv'
  <2>1. ~Stopped  BY <1>3 DEF SpoiledInv, ProgramInv, Stopped, Spoiled
  <2> QED  BY <1>1, <2>1 DEF StoppedInv, Stopped
<1>12. code # "0"  BY <1>3 DEF ProgramInv, CallInv, Issuing
<1> QED  BY <1>1, <1>4, <1>5, <1>6, <1>7, <1>8, <1>9, <1>10, <1>11, <1>12 DEF ProgramInv

LEMMA RollingKeeps ==
  ASSUME ProgramInv, Rolling, SessionInv', FinalInv'
  PROVE  ProgramInv'
<1>1. Rolls /\ DriveInv'  BY RollingSteps DEF ProgramInv, FlowTypes
<1>2. open' \subseteq {"runtime", "gaze"}
  <2>1. open \subseteq {"runtime", "gaze"}  BY DEF ProgramInv, FlowTypes
  <2> QED
    BY <2>1 DEF Rolling, BuildRunner, OpenRuntime, StartGaze, Turns, DriveEnds, Pause,
                AnswerPause, Collide, AnswerNotice, StopGaze, CloseRuntime, Settle, ReduceDrive,
                Interrupted, CtrlC
<1> QED  BY <1>1, <1>2, RollsKeep

(* The steps of the window and the command line between the calls: the *)
(* session and the drive rest, and no command is left to be made. *)
SessionStays ==
  UNCHANGED << pc, state, position, policy, approval, work, verdict, closed, logClosed,
               lifecycle, errors >>
DriveStays == UNCHANGED << runs, slots, ex, open >>

LEMMA Stays ==
  ASSUME UNCHANGED << vars, drive >> PROVE SessionStays /\ DriveStays
  BY DEF SessionStays, DriveStays, vars, drive, place, entry, ending

\* What is left to show of a step that leaves the session and the drive alone.
LEMMA WindowFrame ==
  ASSUME ProgramInv, SessionStays, DriveStays, cfg' = cfg, SessionInv', FinalInv', ex.at = "off",
         FlowTypes', CallInv', ScriptInv', PageInv', StaleInv',
         Spoiled => DeadEnd', StoppedInv',
         code' = "0" => where' = "returned" /\ ExitZeroIsEarned'
  PROVE  ProgramInv'
<1>1. Executed' = Executed  BY DEF Executed, DriveStays
<1>2. DriveInv'  BY DEF DriveInv, ProgramInv, DriveStays
<1>3. RunsInv'  BY <1>1 DEF RunsInv, ProgramInv, Ready, Driven, DriveStays, SessionStays
<1>4. SpoiledInv'
  <2>1. Spoiled' = Spoiled  BY <1>1 DEF Spoiled, DriveStays
  <2> QED  BY <2>1 DEF SpoiledInv, ProgramInv, DriveStays, SessionStays
<1> QED  BY <1>2, <1>3, <1>4 DEF ProgramInv

LEMMA Resting ==
  ASSUME ProgramInv, todo = << >>, DriveStays
  PROVE  ex.at = "off" /\ (todo' = todo => ScriptInv')
<1>1. ex.at = "off"  BY DEF ProgramInv, CallInv
<1>2. ASSUME todo' = todo PROVE ScriptInv'
  <2>1. RoutineList(<< >>)  BY DEF RoutineList
  <2> QED  BY <1>1, <1>2, <2>1 DEF ScriptInv, DriveStays
<1> QED  BY <1>1, <1>2

LEMMA StartDoneKeeps ==
  ASSUME ProgramInv, StartDone, SessionInv', FinalInv'
  PROVE  ProgramInv'
<1>1. SessionStays /\ DriveStays /\ cfg' = cfg  BY Stays DEF StartDone, Apart
<1>2. /\ where = "start" /\ where' = "events" /\ todo = << >> /\ pc \in {"new", "idle", "closed"}
      /\ ex.at = "off" /\ UNCHANGED << todo, held, practice, code, queue, batch, asked >>
  BY DEF StartDone, Done, Loop, keyboard
<1>3. ScriptInv'  BY <1>1, <1>2, Resting
<1>4. FlowTypes'  BY <1>1, <1>2 DEF FlowTypes, ProgramInv, SessionStays, DriveStays
<1>5. CallInv'
  BY <1>1, <1>2 DEF CallInv, ProgramInv, SessionStays, DriveStays, Issuing, StartScript
<1>6. PageInv'  BY <1>1, <1>2 DEF PageInv, ProgramInv, SessionStays
<1>7. ~Spoiled \/ DeadEnd'  BY <1>1, <1>2 DEF SpoiledInv, ProgramInv, DeadEnd, FirstCommand
<1>8. StaleInv'  BY <1>1, <1>2 DEF StaleInv, ProgramInv, DeadEnd
<1>9. StoppedInv'
  <2>1. ~Stopped  BY <1>2 DEF StoppedInv, ProgramInv
  <2> QED  BY <1>1, <2>1 DEF StoppedInv, Stopped, DriveStays
<1> QED  BY <1>1, <1>2, <1>3, <1>4, <1>5, <1>6, <1>7, <1>8, <1>9, WindowFrame DEF ProgramInv

\* Only the closings of the window are left when the display is restored.
LEMMA NoKeysFacts ==
  ASSUME NEW S, NEW events \in Seq(S)
  PROVE  /\ NoKeys(events) \in Seq({"quit"})
         /\ \A i \in 1 .. Len(NoKeys(events)) : NoKeys(events)[i] = "quit"
<1> DEFINE quits == {j \in 1..Len(events) : events[j] = "quit"}
           n == Cardinality(quits)
           l == [i \in 1..n |-> "quit"]
<1>1. n \in Nat
  <2>1. IsFiniteSet(1..Len(events))  BY FS_Interval
  <2>2. IsFiniteSet(quits)  BY <2>1, FS_Subset
  <2> QED  BY <2>2, FS_CardinalityType
<1>2. NoKeys(events) = l  BY DEF NoKeys
<1> HIDE DEF n
<1>3. l \in Seq({"quit"}) /\ Len(l) = n /\ \A i \in 1..n : l[i] = "quit"  BY <1>1
<1> QED  BY <1>2, <1>3

LEMMA HoldKeeps ==
  ASSUME ProgramInv, Hold, SessionInv', FinalInv'
  PROVE  ProgramInv'
<1>1. SessionStays /\ DriveStays /\ cfg' = cfg  BY Stays DEF Hold, Apart
<1>2. /\ where = "hold" /\ todo = << >> /\ ex.at = "off" /\ pc \in {"new", "idle", "closed"}
      /\ UNCHANGED << todo, practice, batch, asked >>
      /\ \/ /\ where' = "ended" /\ closed /\ UNCHANGED << held, code, queue >>
         \/ /\ held' = TRUE /\ where' = "events" /\ UNCHANGED code /\ queue' = NoKeys(queue)
         \/ /\ held' = TRUE /\ where' = "cli" /\ code' = "2" /\ UNCHANGED queue
  BY DEF Hold, Loop, keyboard, Restored, ProgramInv, CallInv, Issuing
<1>3. ScriptInv'  BY <1>1, <1>2, Resting
<1>4. FlowTypes'
  <2>1. queue \in Seq({"space", "stale", "release", "esc", "quit"})  BY DEF FlowTypes, ProgramInv
  <2>2. NoKeys(queue) \in Seq({"quit"})  BY <2>1, NoKeysFacts
  <2>3. queue' \in Seq({"space", "stale", "release", "esc", "quit"})  BY <1>2, <2>1, <2>2
  <2> QED  BY <1>1, <1>2, <2>3 DEF FlowTypes, ProgramInv, SessionStays, DriveStays
<1>5. closed => pc = "closed"  BY <1>2 DEF ProgramInv, SessionInv, PlaceInv, AfterClose
<1>6. CallInv'
  BY <1>1, <1>2, <1>5 DEF CallInv, ProgramInv, SessionStays, DriveStays, Issuing, StartScript,
                          Busy
<1>7. practice = "none"  BY <1>2 DEF PageInv, ProgramInv
<1>8. PageInv'  BY <1>1, <1>2, <1>7 DEF PageInv, SessionStays
<1>9. DeadEnd'  BY <1>2 DEF DeadEnd
<1>10. StaleInv'
  <2>1. CASE queue' = NoKeys(queue)
    <3>1. queue \in Seq({"space", "stale", "release", "esc", "quit"})  BY DEF FlowTypes, ProgramInv
    <3>2. \A i \in 1 .. Len(queue') : queue'[i] = "quit"  BY <2>1, <3>1, NoKeysFacts
    <3> QED  BY <3>2 DEF StaleInv
  <2>2. CASE where' \in {"cli", "ended"}
    BY <1>1, <1>2, <1>9, <2>2 DEF StaleInv, DeadEnd, ProgramInv
  <2> QED  BY <1>2, <2>1, <2>2
<1>11. StoppedInv'
  <2>1. ~Stopped  BY <1>2 DEF StoppedInv, ProgramInv
  <2> QED  BY <1>1, <2>1 DEF StoppedInv, Stopped, DriveStays
<1>12. code' # "0"  BY <1>2 DEF ProgramInv
<1> QED  BY <1>1, <1>2, <1>3, <1>4, <1>6, <1>8, <1>9, <1>10, <1>11, <1>12, WindowFrame

LEMMA FetchKeeps ==
  ASSUME ProgramInv, FetchEvents, SessionInv', FinalInv'
  PROVE  ProgramInv'
<1>1. SessionStays /\ DriveStays /\ cfg' = cfg  BY Stays DEF FetchEvents, Apart
<1>2. /\ where = "events" /\ todo = << >> /\ ex.at = "off" /\ where' = "handle"
      /\ pc \in {"new", "idle", "closed"}
      /\ UNCHANGED << todo, held, practice, code, asked >> /\ batch' = queue /\ queue' = << >>
  BY DEF FetchEvents, Loop, ProgramInv, CallInv, Issuing
<1>3. ScriptInv'  BY <1>1, <1>2, Resting
<1>4. FlowTypes'
  <2>1. /\ queue \in Seq({"space", "stale", "release", "esc", "quit"})  BY DEF FlowTypes, ProgramInv
  <2>2. \A i \in 1..Len(queue) : queue[i] # "stale"  BY <1>2 DEF StaleInv, ProgramInv, DeadEnd
  <2>3. queue \in Seq({"space", "release", "esc", "quit"})
    <3>1. \A i \in 1..Len(queue) : queue[i] \in {"space", "release", "esc", "quit"}  BY <2>1, <2>2
    <3> QED  BY <2>1, <3>1
  <2>4. << >> \in Seq({"space", "stale", "release", "esc", "quit"})  OBVIOUS
  <2> QED  BY <1>1, <1>2, <2>3, <2>4 DEF FlowTypes, ProgramInv, SessionStays, DriveStays
<1>6. CallInv'
  BY <1>1, <1>2 DEF CallInv, ProgramInv, SessionStays, DriveStays, Issuing, StartScript
<1>8. PageInv'  BY <1>1, <1>2 DEF PageInv, ProgramInv, SessionStays
<1>9. Spoiled => DeadEnd'  BY <1>2 DEF DeadEnd, SpoiledInv, ProgramInv
<1>10. StaleInv'
  <2>1. Len(queue') = 0  BY <1>2
  <2> QED  BY <2>1 DEF StaleInv
<1>11. StoppedInv'
  <2>1. ~Stopped  BY <1>2 DEF StoppedInv, ProgramInv
  <2> QED  BY <1>1, <2>1 DEF StoppedInv, Stopped, DriveStays
<1>12. code' # "0"  BY <1>2 DEF ProgramInv
<1> QED  BY <1>1, <1>2, <1>3, <1>4, <1>6, <1>8, <1>9, <1>10, <1>11, <1>12, WindowFrame

LEMMA BatchDoneKeeps ==
  ASSUME ProgramInv, BatchDone, SessionInv', FinalInv'
  PROVE  ProgramInv'
<1>1. SessionStays /\ DriveStays /\ cfg' = cfg  BY Stays DEF BatchDone, Apart
<1>2. /\ where = "handle" /\ todo = << >> /\ ex.at = "off" /\ where' = "render"
      /\ pc \in {"new", "idle", "closed"}
      /\ UNCHANGED << todo, held, practice, code, asked, batch, queue >>
  BY DEF BatchDone, Done, Loop
<1>3. ScriptInv'  BY <1>1, <1>2, Resting
<1>4. FlowTypes'  BY <1>1, <1>2 DEF FlowTypes, ProgramInv, SessionStays, DriveStays
<1>6. CallInv'
  BY <1>1, <1>2 DEF CallInv, ProgramInv, SessionStays, DriveStays, Issuing, StartScript
<1>8. PageInv'  BY <1>1, <1>2 DEF PageInv, ProgramInv, SessionStays
<1>9. Spoiled => DeadEnd'  BY <1>1, <1>2 DEF DeadEnd, SpoiledInv, ProgramInv, SessionStays
<1>10. StaleInv'  BY <1>1, <1>2 DEF StaleInv, ProgramInv, DeadEnd, SessionStays
<1>11. StoppedInv'
  <2>1. ~Stopped  BY <1>2 DEF StoppedInv, ProgramInv
  <2> QED  BY <1>1, <2>1 DEF StoppedInv, Stopped, DriveStays
<1>12. code' # "0"  BY <1>2 DEF ProgramInv
<1> QED  BY <1>1, <1>2, <1>3, <1>4, <1>6, <1>8, <1>9, <1>10, <1>11, <1>12, WindowFrame

LEMMA RenderKeeps ==
  ASSUME ProgramInv, Render, SessionInv', FinalInv'
  PROVE  ProgramInv'
<1>1. SessionStays /\ DriveStays /\ cfg' = cfg  BY Stays DEF Render, Apart
<1>2. /\ where = "render" /\ todo = << >> /\ ex.at = "off"
      /\ pc \in {"new", "idle", "closed"}
      /\ UNCHANGED << todo, held, asked, batch, queue >>
      /\ \/ /\ held \/ practice # "none" \/ state \in Screens
            /\ where' = "events" /\ UNCHANGED code
            /\ \/ practice' = practice
               \/ ~held /\ practice = "hidden" /\ practice' \in {"playing", "ready"}
         \/ /\ ~held /\ practice = "none" /\ state \notin Screens
            /\ where' = "cli" /\ code' = "2" /\ practice' = practice
  BY DEF Render, Loop, keyboard, ProgramInv, CallInv, Issuing
<1>3. ScriptInv'  BY <1>1, <1>2, Resting
<1>4. FlowTypes'  BY <1>1, <1>2 DEF FlowTypes, ProgramInv, SessionStays, DriveStays
<1>6. CallInv'
  BY <1>1, <1>2 DEF CallInv, ProgramInv, SessionStays, DriveStays, Issuing, StartScript, Busy
<1>8. PageInv'  BY <1>1, <1>2 DEF PageInv, ProgramInv, SessionStays
<1>9. Spoiled => DeadEnd'  BY <1>1, <1>2 DEF DeadEnd, SpoiledInv, ProgramInv, SessionStays
<1>10. StaleInv'  BY <1>1, <1>2 DEF StaleInv, ProgramInv, DeadEnd, SessionStays
<1>11. StoppedInv'
  <2>1. ~Stopped  BY <1>2 DEF StoppedInv, ProgramInv
  <2> QED  BY <1>1, <2>1 DEF StoppedInv, Stopped, DriveStays
<1>12. code' # "0"  BY <1>2 DEF ProgramInv
<1> QED  BY <1>1, <1>2, <1>3, <1>4, <1>6, <1>8, <1>9, <1>10, <1>11, <1>12, WindowFrame

LEMMA CueKeeps ==
  ASSUME ProgramInv, CueEnds, SessionInv', FinalInv'
  PROVE  ProgramInv'
<1>1. SessionStays /\ DriveStays /\ cfg' = cfg  BY Stays DEF CueEnds, Apart
<1>2. /\ practice = "playing" /\ practice' = "ready" /\ ~held
      /\ UNCHANGED << where, todo, held, code, asked, batch, queue >>
  BY DEF CueEnds, keyboard, ProgramInv, PageInv
<1>3. todo = << >> /\ ex.at = "off"  BY <1>2 DEF ProgramInv, PageInv, CallInv, Issuing
<1>4. ScriptInv'  BY <1>1, <1>2, <1>3, Resting
<1>5. FlowTypes'  BY <1>1, <1>2 DEF FlowTypes, ProgramInv, SessionStays, DriveStays
<1>6. CallInv'
  BY <1>1, <1>2 DEF CallInv, ProgramInv, SessionStays, DriveStays, Issuing, FirstCommand, Inside
<1>8. PageInv'  BY <1>1, <1>2, <1>3 DEF PageInv, ProgramInv, SessionStays
<1>9. Spoiled => DeadEnd'
  BY <1>1, <1>2, <1>3 DEF DeadEnd, SpoiledInv, ProgramInv, SessionStays, FirstCommand
<1>10. StaleInv'  BY <1>1, <1>2, <1>3 DEF StaleInv, ProgramInv, DeadEnd, SessionStays, FirstCommand
<1>11. StoppedInv'  BY <1>1, <1>2 DEF StoppedInv, Stopped, DriveStays, SessionStays, ProgramInv
<1>12. code' = "0" => where' = "returned" /\ ExitZeroIsEarned'
  <2>1. export' = export  BY DEF CueEnds, Apart
  <2> QED  BY <1>1, <1>2, <2>1 DEF ProgramInv, ExitZeroIsEarned, Executed, SessionStays, DriveStays
<1> QED  BY <1>1, <1>3, <1>4, <1>5, <1>6, <1>8, <1>9, <1>10, <1>11, <1>12, WindowFrame

\* The runs behind the last stage are those of the three driving stages.
LEMMA CompleteRuns ==
  ASSUME RunsInv, runs \in Seq(Runs), position = Last, pc = "closed", slots = Executed,
         ex.at = "off"
  PROVE  Executed = Modules \cup {"TRAINING"} /\ Len(runs) = 3
<1>1. Ready(12)  BY DEF RunsInv, Last
<1>2. {"TRAINING", "MODULE_1_RUNNING", "MODULE_2_RUNNING"} \subseteq Executed
  BY <1>1 DEF Ready, Driven
<1>3. /\ Len(runs) \in Nat /\ Len(runs) <= 3
      /\ \A i \in 1..Len(runs) : runs[i].stage = DrivingStages[i]
  BY DEF RunsInv
<1>4. PICK i \in 1..Len(runs) : runs[i].stage = "MODULE_2_RUNNING"  BY <1>2 DEF Executed
<1>5. i = 3  BY <1>3, <1>4 DEF DrivingStages
<1>6. Len(runs) = 3
  <2> DEFINE n == Len(runs)
  <2>1. n \in Nat /\ n <= 3  BY <1>3
  <2>2. 3 \in 1..n  BY <1>4, <1>5
  <2> HIDE DEF n
  <2>3. n = 3  BY <2>1, <2>2
  <2> QED  BY <2>3 DEF n
<1>7. Executed \subseteq {"TRAINING", "MODULE_1_RUNNING", "MODULE_2_RUNNING"}
  BY <1>3, <1>6 DEF Executed, DrivingStages
<1> QED  BY <1>2, <1>6, <1>7 DEF Modules

LEMMA ReturnKeeps ==
  ASSUME ProgramInv, Return \/ CliReturn, SessionInv', FinalInv'
  PROVE  ProgramInv'
<1>1. SessionStays /\ DriveStays /\ cfg' = cfg /\ export' = export
  BY Stays DEF Return, CliReturn, Apart
<1>2. /\ where \in {"ended", "cli"} /\ where' = "returned" /\ todo = << >> /\ ex.at = "off"
      /\ UNCHANGED << todo, held, asked, batch, queue >>
      /\ where = "ended" => practice' = "none" /\ code' = IF Registered /\ Earned THEN "0" ELSE "2"
      /\ where = "cli" => practice' = practice /\ UNCHANGED code /\ pc \in {"new", "closed"}
  BY DEF Return, CliReturn, Loop, keyboard, ProgramInv, CallInv, Issuing
<1>3. ScriptInv'  BY <1>1, <1>2, Resting
<1>4. FlowTypes'  BY <1>1, <1>2 DEF FlowTypes, ProgramInv, SessionStays, DriveStays
<1>6. CallInv'
  BY <1>1, <1>2 DEF CallInv, ProgramInv, SessionStays, DriveStays, Issuing, StartScript
<1>8. PageInv'  BY <1>1, <1>2 DEF PageInv, ProgramInv, SessionStays
<1>9. DeadEnd'  BY <1>1, <1>2 DEF DeadEnd
<1>10. StaleInv'  BY <1>1, <1>2 DEF StaleInv, ProgramInv, DeadEnd, SessionStays
<1>11. StoppedInv'
  <2>1. code # "0"  BY <1>2 DEF ProgramInv
  <2>2. CASE where = "cli"  BY <1>1, <1>2, <2>1, <2>2 DEF StoppedInv
  <2>3. CASE where = "ended"
    <3>1. Stopped' = Stopped  BY <1>1 DEF Stopped, DriveStays
    <3> QED  BY <1>1, <1>2, <2>3, <3>1 DEF StoppedInv, ProgramInv, SessionStays
  <2> QED  BY <1>2, <2>2, <2>3
<1>12. ASSUME code' = "0" PROVE where' = "returned" /\ ExitZeroIsEarned'
  <2>1. where = "ended" /\ Registered /\ Earned  BY <1>2, <1>12 DEF ProgramInv
  <2>2. pc = "closed"  BY <1>2, <2>1 DEF ProgramInv, CallInv, Registered
  <2>3. closed /\ ~export  BY <2>1 DEF Earned
  <2>4. CASE state = "SESSION_COMPLETE"
    <3>1. ~Spoiled  BY <2>4 DEF ProgramInv, SpoiledInv
    <3>2. slots = Executed /\ \A i \in 1..Len(runs) : runs[i].reason = "TIME_LIMIT_REACHED"
      BY <3>1 DEF Spoiled
    <3>3. position = Last
      <4>1. position \in 1..Last /\ state = Sequence[position]
        BY <2>4 DEF ProgramInv, RunsInv, SessionInv, TypeOK
      <4> QED  BY <2>4, <4>1, SequenceFacts
    <3>4. Executed = Modules \cup {"TRAINING"} /\ Len(runs) = 3
      BY <1>2, <2>2, <3>2, <3>3, CompleteRuns DEF ProgramInv, FlowTypes
    <3> QED
      BY <1>1, <1>2, <2>3, <2>4, <3>2, <3>4 DEF ExitZeroIsEarned, Executed, SessionStays,
                                              DriveStays
  <2>5. CASE \E i \in 1..Len(runs) : /\ runs[i].reason = "HAZARD_COLLISION"
                                    /\ runs[i].confirmed = "SPACE" /\ runs[i].clean
    <3>1. Stopped  BY <2>5 DEF Stopped
    <3>2. verdict = "ENDED_AFTER_HAZARD_COLLISION"
      BY <1>2, <2>1, <2>2, <3>1 DEF StoppedInv, ProgramInv
    <3> QED  BY <1>1, <1>2, <2>3, <2>5, <3>2 DEF ExitZeroIsEarned, SessionStays, DriveStays
  <2> QED  BY <2>1, <2>4, <2>5 DEF Earned
<1> QED  BY <1>1, <1>2, <1>3, <1>4, <1>6, <1>8, <1>9, <1>10, <1>11, <1>12, WindowFrame

LEMMA HandsKeep ==
  ASSUME ProgramInv, Hands, SessionInv', FinalInv'
  PROVE  ProgramInv'
<1>1. SessionStays /\ DriveStays /\ cfg' = cfg /\ export' = export  BY Stays DEF Hands
<1>2. /\ \/ where = "events" /\ ex.at = "off"
         \/ ex.at \in {"drive", "paused"}
         \/ todo # << >> /\ todo[1] = "check"
      /\ UNCHANGED << where, todo, held, practice, code, batch, asked >>
  BY DEF Hands, window, ProgramInv, CallInv, Issuing
<1>3. queue \in Seq({"space", "stale", "release", "esc", "quit"})  BY DEF ProgramInv, FlowTypes
<1>4. PICK e \in {"space", "stale", "release", "esc", "quit"} :
        queue' = Append(queue, e) /\ (ex.at = "off" => e # "stale")
  BY DEF Hands
<1>5. /\ queue' \in Seq({"space", "stale", "release", "esc", "quit"})
      /\ Len(queue') = Len(queue) + 1 /\ Len(queue) \in Nat
      /\ \A i \in 1..Len(queue) : queue'[i] = queue[i]
      /\ queue'[Len(queue) + 1] = e
  BY <1>3, <1>4
<1>6. Executed' = Executed /\ Standing' = Standing
  BY <1>1 DEF Executed, Standing, SessionStays, DriveStays
<1>7. FlowTypes'  BY <1>1, <1>2, <1>5 DEF FlowTypes, ProgramInv, SessionStays, DriveStays
<1>8. StaleInv'
  <2>1. CASE ex.at = "off"
    <3>1. ASSUME NEW i \in 1..Len(queue'), queue'[i] = "stale"
          PROVE  i \in 1..Len(queue) /\ queue[i] = "stale"
      BY <1>4, <1>5, <2>1, <3>1
    <3> QED
      BY <1>1, <1>2, <3>1 DEF StaleInv, ProgramInv, DeadEnd, SessionStays, DriveStays, FirstCommand
  <2>2. CASE ex.at # "off"  BY <1>1, <2>2 DEF StaleInv, DriveStays
  <2> QED  BY <2>1, <2>2
<1>9. CallInv'
  BY <1>1, <1>2 DEF CallInv, ProgramInv, SessionStays, DriveStays, Issuing, FirstCommand, Inside
<1>10. ScriptInv'  BY <1>1, <1>2, <1>6 DEF ScriptInv, ProgramInv, SessionStays, DriveStays
<1>11. PageInv'  BY <1>1, <1>2 DEF PageInv, ProgramInv, SessionStays
<1>12. DriveInv'  BY <1>1, <1>2, <1>6 DEF DriveInv, ProgramInv, SessionStays, DriveStays, Inside
<1>13. RunsInv'  BY <1>1, <1>6 DEF RunsInv, ProgramInv, Ready, Driven, DriveStays, SessionStays
<1>14. SpoiledInv'
  BY <1>1, <1>2, <1>6 DEF SpoiledInv, Spoiled, ProgramInv, DriveStays, SessionStays, DeadEnd, FirstCommand
<1>15. StoppedInv'  BY <1>1, <1>2 DEF StoppedInv, Stopped, DriveStays, SessionStays, ProgramInv
<1>16. code' = "0" => where' = "returned" /\ ExitZeroIsEarned'
  BY <1>1, <1>2, <1>6 DEF ProgramInv, ExitZeroIsEarned, SessionStays, DriveStays
<1> QED  BY <1>7, <1>8, <1>9, <1>10, <1>11, <1>12, <1>13, <1>14, <1>15, <1>16 DEF ProgramInv

\* An event without a meaning only leaves the batch.
LEMMA IgnoreKeeps ==
  ASSUME ProgramInv, SessionInv', FinalInv', UNCHANGED << vars, drive, cfg, window, asked, queue >>,
         where = "handle", todo = << >>, ex.at = "off",
         batch' \in Seq({"space", "release", "esc", "quit"})
  PROVE  ProgramInv'
<1>1. SessionStays /\ DriveStays /\ cfg' = cfg  BY Stays
<1>2. UNCHANGED << where, todo, held, practice, code >>  BY DEF window
<1>3. ScriptInv'  BY <1>1, <1>2, Resting
<1>4. FlowTypes'  BY <1>1, <1>2 DEF FlowTypes, ProgramInv, SessionStays, DriveStays
<1>5. CallInv'
  BY <1>1, <1>2 DEF CallInv, ProgramInv, SessionStays, DriveStays, Issuing, FirstCommand, Inside
<1>6. PageInv'  BY <1>1, <1>2 DEF PageInv, ProgramInv, SessionStays
<1>7. Spoiled => DeadEnd'
  BY <1>1, <1>2 DEF DeadEnd, SpoiledInv, ProgramInv, SessionStays, FirstCommand
<1>8. StaleInv'
  BY <1>1, <1>2 DEF StaleInv, ProgramInv, DeadEnd, SessionStays, DriveStays, FirstCommand
<1>9. StoppedInv'  BY <1>1, <1>2 DEF StoppedInv, Stopped, DriveStays, SessionStays, ProgramInv
<1>10. code' # "0"  BY <1>2 DEF ProgramInv
<1> QED  BY <1>1, <1>3, <1>4, <1>5, <1>6, <1>7, <1>8, <1>9, <1>10, WindowFrame

\* Outside a call the session stands at the stage of its position.
LEMMA StandsAt ==
  ASSUME ProgramInv, state # "ABORTED", NEW p \in 1..Last, state = Sequence[p]
  PROVE  position = p
<1>1. position \in 1..Last /\ state = Sequence[position]
  BY DEF ProgramInv, SessionInv, TypeOK, RunsInv
<1> QED  BY <1>1 DEF Sequence, Last

\* A press that is meant starts the practised training or the script of the page.
LEMMA PressKeeps ==
  ASSUME ProgramInv, SessionInv', FinalInv', UNCHANGED << vars, drive, cfg, queue, where, held, code >>,
         where = "handle", todo = << >>, ex.at = "off", pc \in {"new", "idle", "closed"},
         batch' \in Seq({"space", "release", "esc", "quit"}), asked' # "stale",
         ~held, practice \in {"none", "ready"}, practice' = "none",
         todo' = IF practice = "ready" THEN Training \o << "deafen" >> ELSE Script(state)
  PROVE  ProgramInv'
<1>1. SessionStays /\ DriveStays /\ cfg' = cfg  BY Stays
<1>2. pc \in {"idle", "closed"}  BY DEF ProgramInv, CallInv, StartScript
<1>3. state \in Stages /\ Standing = position /\ Standing' = position
  BY <1>1, <1>2 DEF ProgramInv, SessionInv, TypeOK, SessionStays, Standing
<1>4. /\ todo' \in Seq(Commands) /\ ScriptInv'
      /\ todo' = << "raiseP8" >> => state \notin Screens /\ pc = "idle"
      /\ todo' \notin {<< "stop" >>, << "raiseOther" >>}
      /\ practice = "none" /\ state \notin Screens => todo' # << >> /\ todo'[1] = "raiseP8"
  <2>1. CASE practice = "ready"
    <3>1. state = "TRAINING" /\ todo' = Training \o << "deafen" >>  BY <2>1 DEF ProgramInv, PageInv
    <3>2. position = 3
      <4>1. 3 \in 1..Last /\ Sequence[3] = "TRAINING"  BY DEF Sequence, Last
      <4> QED  BY <3>1, <4>1, StandsAt
    <3>3. todo' \in Seq(Commands) /\ DriveAt(todo', 1)  BY <3>1, TrainingFacts
    <3>4. todo'[1] = "execute"  BY <3>3 DEF DriveAt
    <3>5. ScriptInv'  BY <1>1, <1>3, <3>2, <3>3 DEF ScriptInv, DriveStays
    <3> QED  BY <2>1, <3>3, <3>4, <3>5
  <2>2. CASE practice = "none" /\ state \in {"EYE_TRACKER_CALIBRATION", "REST"} \cup Terminal
    <3>1. todo' \in Seq(Commands) /\ RoutineList(todo')  BY <2>2, ScriptFacts, <1>3
    <3>2. todo' \notin {<< "raiseP8" >>, << "stop" >>, << "raiseOther" >>}
      <4>1. ASSUME NEW c, todo' = << c >> PROVE c \in Routine  BY <3>1, <4>1 DEF RoutineList
      <4> QED  BY <4>1 DEF Routine
    <3> QED  BY <1>1, <2>2, <3>1, <3>2 DEF ScriptInv, DriveStays, Screens, Terminal
  <2>3. CASE practice = "none" /\ state \in {"MODULE_1_PREPARE", "MODULE_2_PREPARE"}
    <3>1. position \in {5, 9}
      <4>1. 5 \in 1..Last /\ Sequence[5] = "MODULE_1_PREPARE" /\ 9 \in 1..Last
            /\ Sequence[9] = "MODULE_2_PREPARE"
        BY DEF Sequence, Last
      <4> QED  BY <2>3, <4>1, StandsAt
    <3>2. todo' \in Seq(Commands) /\ \E i \in 2..4 : Approach(todo', i, position)
      BY <1>3, <2>3, <3>1, ScriptFacts
    <3>3. todo' \notin {<< "raiseP8" >>, << "stop" >>, << "raiseOther" >>}
      BY <3>2, SMTT(20) DEF Approach, DriveAt
    <3> QED  BY <1>1, <1>3, <2>3, <3>2, <3>3 DEF ScriptInv, DriveStays, Screens
  <2>4. CASE practice = "none" /\ state \notin {"EYE_TRACKER_CALIBRATION", "REST",
                 "MODULE_1_PREPARE", "MODULE_2_PREPARE"} \cup Terminal
    <3>1. todo' = << "raiseP8" >>  BY <1>3, <2>4, ScriptFacts
    <3>2. pc = "idle"  BY <1>2, <2>4 DEF ProgramInv, FinalInv
    <3>3. << "raiseP8" >> \in Seq(Commands) /\ << "raiseP8" >>[1] = "raiseP8" /\ << "raiseP8" >> # << >>
      BY DEF Commands, Closings
    <3>4. << "raiseP8" >> \in ClosingLists  BY DEF ClosingLists
    <3>5. << "raiseP8" >> \notin {<< "stop" >>, << "raiseOther" >>}  OBVIOUS
    <3> QED
      BY <1>1, <2>4, <3>1, <3>2, <3>3, <3>4, <3>5 DEF ScriptInv, DriveStays, Screens, Terminal
  <2> QED  BY <2>1, <2>2, <2>3, <2>4
<1>5. FlowTypes'  BY <1>1, <1>4 DEF FlowTypes, ProgramInv, SessionStays, DriveStays
<1>6. CallInv'
  BY <1>1, <1>2 DEF CallInv, ProgramInv, SessionStays, DriveStays, Issuing, FirstCommand, Inside,
                    Busy, Aborting, Finalizing
<1>7. PageInv'  BY <1>1, <1>4 DEF PageInv, SessionStays
<1>8. ~held /\ DeadEnd => practice = "none" /\ state \notin Screens  BY DEF DeadEnd
<1>9. DeadEnd => DeadEnd'  BY <1>1, <1>4, <1>8 DEF DeadEnd, SessionStays, FirstCommand, Closings
<1>10. Spoiled => DeadEnd'  BY <1>9 DEF SpoiledInv, ProgramInv
<1>11. StaleInv'  BY <1>1, <1>9 DEF StaleInv, ProgramInv, SessionStays, DriveStays
<1>12. StoppedInv'
  <2>1. ~Stopped  BY DEF StoppedInv, ProgramInv
  <2> QED  BY <1>1, <2>1 DEF StoppedInv, Stopped, DriveStays
<1>13. code' # "0"  BY DEF ProgramInv
<1> QED  BY <1>1, <1>4, <1>5, <1>6, <1>7, <1>10, <1>11, <1>12, <1>13, WindowFrame

LEMMA QuitKeeps ==
  ASSUME ProgramInv, SessionInv', FinalInv', UNCHANGED << vars, drive, cfg, queue, held, code, asked >>,
         where = "handle", todo = << >>, ex.at = "off", pc \in {"new", "closed"},
         batch' \in Seq({"space", "release", "esc", "quit"}),
         practice' = "none", todo' = << >>, where' = "ended"
  PROVE  ProgramInv'
<1>1. SessionStays /\ DriveStays /\ cfg' = cfg  BY Stays
<1>3. ScriptInv'  BY <1>1, Resting
<1>4. FlowTypes'  BY <1>1 DEF FlowTypes, ProgramInv, SessionStays, DriveStays
<1>5. CallInv'  BY <1>1 DEF CallInv, ProgramInv, SessionStays, DriveStays, Issuing, StartScript
<1>6. PageInv'  BY <1>1 DEF PageInv, ProgramInv, SessionStays
<1>7. DeadEnd'  BY DEF DeadEnd
<1>8. StaleInv'  BY <1>1 DEF StaleInv, ProgramInv, DeadEnd, SessionStays, DriveStays, FirstCommand
<1>9. StoppedInv'
  <2>1. ~Stopped  BY DEF StoppedInv, ProgramInv
  <2> QED  BY <1>1, <2>1 DEF StoppedInv, Stopped, DriveStays
<1>10. code' # "0"  BY DEF ProgramInv
<1> QED  BY <1>1, <1>3, <1>4, <1>5, <1>6, <1>7, <1>8, <1>9, <1>10, WindowFrame

\* What is left to show of a step that moves the session within its stage while no drive
\* runs.
LEMMA CallFrame ==
  ASSUME ProgramInv, SessionInv', FinalInv', SameStage, DriveStays, ex.at = "off",
         pc' \in {"leave", "end", "begin"} => pc \in {"leave", "end", "begin"},
         FlowTypes', CallInv', ScriptInv', PageInv', StaleInv',
         Spoiled => DeadEnd' /\ pc' \notin Busy \cup {"new", "init"}, StoppedInv',
         code' = "0" => where' = "returned" /\ ExitZeroIsEarned'
  PROVE  ProgramInv'
<1>1. Executed' = Executed /\ Spoiled' = Spoiled  BY DEF Executed, Spoiled, DriveStays
<1>2. DriveInv'  BY DEF DriveInv, ProgramInv, DriveStays
<1>3. position \in Nat  BY DEF ProgramInv, SessionInv, TypeOK, Last
<1>4. Ready(position) => Ready(position - 1)  BY <1>3 DEF Ready
<1>5. RunsInv'  BY <1>1, <1>4 DEF RunsInv, ProgramInv, Ready, Driven, DriveStays, SameStage
<1>6. SpoiledInv'  BY <1>1 DEF SpoiledInv, ProgramInv, DriveStays, SameStage
<1> QED  BY <1>2, <1>5, <1>6 DEF ProgramInv

LEMMA ClosingFacts ==
  /\ \A l \in ClosingLists : l \in Seq(Commands) /\ l # << >> /\ l[1] \in Closings
  /\ << "abort", "stop" >> \in ClosingLists /\ << "abort", "stop" >>[1] = "abort"
  /\ << "abort", "stop" >> \notin {<< "stop" >>, << "raiseOther" >>, << "raiseP8" >>}
  /\ << "collide", "stop" >> \in ClosingLists /\ << "collide", "stop" >>[1] = "collide"
  /\ << "collide", "stop" >> \notin {<< "stop" >>, << "raiseOther" >>, << "raiseP8" >>}
  /\ << "abort", "raiseP8" >> \in ClosingLists /\ << "abort", "raiseP8" >>[1] = "abort"
  /\ << "abort", "raiseP8" >> \notin {<< "stop" >>, << "raiseOther" >>, << "raiseP8" >>}
  /\ << "abort", "raiseOther" >> \in ClosingLists /\ << "abort", "raiseOther" >>[1] = "abort"
  /\ << "abort", "raiseOther" >> \notin {<< "stop" >>, << "raiseOther" >>, << "raiseP8" >>}
<1>1. \A l \in ClosingLists : l \in Seq(Commands)
  <2>1. /\ "abort" \in Commands /\ "stop" \in Commands /\ "raiseP8" \in Commands
        /\ "raiseOther" \in Commands /\ "collide" \in Commands
    BY DEF Commands, Closings
  <2>2. ASSUME NEW a \in Commands, NEW b \in Commands
        PROVE  << a >> \in Seq(Commands) /\ << a, b >> \in Seq(Commands)
    OBVIOUS
  <2> QED  BY <2>1, <2>2, Zenon DEF ClosingLists
<1>2. \A l \in ClosingLists : l # << >> /\ l[1] \in Closings  BY DEF ClosingLists, Closings
<1>3. /\ << "abort", "stop" >>[1] = "abort" /\ << "collide", "stop" >>[1] = "collide"
      /\ << "abort", "raiseP8" >>[1] = "abort" /\ << "abort", "raiseOther" >>[1] = "abort"
  OBVIOUS
<1>4. /\ << "abort", "stop" >> \notin {<< "stop" >>, << "raiseOther" >>, << "raiseP8" >>}
      /\ << "collide", "stop" >> \notin {<< "stop" >>, << "raiseOther" >>, << "raiseP8" >>}
      /\ << "abort", "raiseP8" >> \notin {<< "stop" >>, << "raiseOther" >>, << "raiseP8" >>}
      /\ << "abort", "raiseOther" >> \notin {<< "stop" >>, << "raiseOther" >>, << "raiseP8" >>}
  OBVIOUS
<1>5. /\ << "abort", "stop" >> \in ClosingLists /\ << "collide", "stop" >> \in ClosingLists
      /\ << "abort", "raiseP8" >> \in ClosingLists /\ << "abort", "raiseOther" >> \in ClosingLists
  BY DEF ClosingLists
<1> QED  BY <1>1, <1>2, <1>3, <1>4, <1>5

LEMMA QuitAborts ==
  ASSUME ProgramInv, SessionInv', FinalInv', Abort("ABORTED"), UNCHANGED << drive, cfg, queue, held, code, asked >>,
         where = "handle", todo = << >>, ex.at = "off",
         batch' \in Seq({"space", "release", "esc", "quit"}),
         practice' = "none", todo' = << "abort", "stop" >>, where' = where
  PROVE  ProgramInv'
<1>1. SameStage /\ DriveStays /\ pc' = "abort"  BY AbortMoves DEF drive, DriveStays
<1>2. /\ todo' \in Seq(Commands) /\ todo' \in ClosingLists /\ todo' # << >> /\ todo'[1] = "abort"
      /\ todo' \notin {<< "stop" >>, << "raiseOther" >>, << "raiseP8" >>}
  BY ClosingFacts
<1>3. ScriptInv'  BY <1>1, <1>2 DEF ScriptInv, DriveStays
<1>4. FlowTypes'  BY <1>1, <1>2 DEF FlowTypes, ProgramInv, SameStage, DriveStays
<1>5. CallInv'
  <2>1. pc = "idle" /\ position < Last  BY AbortMoves DEF ProgramInv, FinalInv, Underway
  <2> QED
    BY <1>1, <1>2, <2>1 DEF CallInv, ProgramInv, DriveStays, SameStage, Issuing, FirstCommand, Busy,
                            Aborting, Underway, Inside, Finalizing
<1>6. PageInv'  BY <1>1, <1>2 DEF PageInv
<1>7. DeadEnd'  BY <1>2 DEF DeadEnd, Closings, FirstCommand
<1>8. StaleInv'  BY <1>7 DEF StaleInv, ProgramInv
<1>9. StoppedInv'
  <2>1. ~Stopped  BY DEF StoppedInv, ProgramInv
  <2> QED  BY <1>1, <2>1 DEF StoppedInv, Stopped, DriveStays
<1>10. code' # "0"  BY DEF ProgramInv
<1> QED  BY <1>1, <1>3, <1>4, <1>5, <1>6, <1>7, <1>8, <1>9, <1>10, CallFrame DEF Busy

LEMMA HandleKeeps ==
  ASSUME ProgramInv, HandleEvent, SessionInv', FinalInv'
  PROVE  ProgramInv'
<1>1. /\ where = "handle" /\ todo = << >> /\ pc \in {"new", "idle", "closed"} /\ ex.at = "off"
      /\ batch # << >> /\ batch' = Tail(batch)
      /\ UNCHANGED << cfg, queue, drive >>
  BY DEF HandleEvent, Done
<1>2. /\ batch \in Seq({"space", "release", "esc", "quit"}) /\ asked # "stale"
      /\ practice \in {"none", "hidden", "playing", "ready"}
  BY DEF ProgramInv, FlowTypes
<1>3. batch' \in Seq({"space", "release", "esc", "quit"})
      /\ Head(batch) \in {"space", "release", "esc", "quit"}
  BY <1>1, <1>2
<1>4. CASE UNCHANGED << vars, window, asked >>  BY <1>1, <1>3, <1>4, IgnoreKeeps
<1>5. CASE Quit
  <2>1. CASE pc = "idle"  BY <1>1, <1>3, <1>5, <2>1, QuitAborts DEF Quit
  <2>2. CASE pc # "idle"  BY <1>1, <1>3, <1>5, <2>2, QuitKeeps DEF Quit, NoSession
  <2> QED  BY <2>1, <2>2
<1>6. CASE Space(Head(batch))
  <2>1. CASE held \/ practice \in {"hidden", "playing"}
    <3>1. UNCHANGED << vars, window, asked >>  BY <1>6, <2>1 DEF Space, window
    <3> QED  BY <3>1, <1>4
  <2>2. CASE ~(held \/ practice \in {"hidden", "playing"})
    <3>1. /\ UNCHANGED << vars, where, held, code >> /\ practice' = "none"
          /\ todo' = IF practice = "ready" THEN Training \o << "deafen" >> ELSE Script(state)
          /\ asked' \in {asked, Head(batch)}
      BY <1>6, <2>2 DEF Space
    <3>2. asked' # "stale" /\ practice \in {"none", "ready"}  BY <1>2, <1>3, <2>2, <3>1
    <3> QED  BY <1>1, <1>3, <2>2, <3>1, <3>2, PressKeeps
  <2> QED  BY <2>1, <2>2
<1>7. \/ UNCHANGED << vars, window, asked >> \/ Quit \/ Space(Head(batch))  BY DEF HandleEvent
<1> QED  BY <1>4, <1>5, <1>6, <1>7

(* The first command of a list says which list it is. *)
LEMMA Heads ==
  ASSUME ScriptInv, todo \in Seq(Commands), todo # << >>
  PROVE  /\ todo[1] \in Closings => ex.at = "off" /\ todo \in ClosingLists
         /\ todo[1] = "execute" =>
              /\ ex.at # "handoff" /\ DriveAt(todo, 1)
              /\ ex.at = "off" => Standing \in {3, 6, 10}
         /\ todo[1] = "check" => ex.at = "off" /\ \E i \in 3..4 : Approach(todo, i, Standing)
         /\ todo[1] = "train" => /\ ex.at = "off" /\ where = "start" /\ todo = << "train" >>
                                 /\ Standing = 3 /\ pc \in {"idle"} \cup Busy
         /\ todo[1] = "register" => /\ ex.at = "off" /\ todo = StartScript
                                    /\ pc \in {"new", "init"} /\ Standing = 1
         /\ todo[1] = "handed" => ex.at = "handoff" /\ HandsOver(todo, 2, Standing)
         /\ todo[1] \in {"receipt", "show", "deafen", "after"} => ex.at = "off" /\ RoutineList(todo)
         /\ todo[1] \in {"restore"} =>
              /\ ex.at = "off"
              /\ RoutineList(todo) \/ \E i \in 3..4 : Approach(todo, i, Standing)
<1>1. CASE ex.at = "off" /\ RoutineList(todo)
  <2>1. todo[1] \in Routine  BY <1>1, TailOfRoutine
  <2> QED  BY <1>1, <2>1 DEF Routine, Closings
<1>2. CASE ex.at = "off" /\ todo \in ClosingLists
  <2>1. todo[1] \in Closings  BY <1>2, ClosingFacts
  <2> QED  BY <1>2, <2>1 DEF Closings
<1>3. CASE /\ ex.at = "off" /\ pc \in {"idle"} \cup Busy /\ where = "start"
           /\ Starting(todo, Standing)
  <2>1. \/ todo[1] \in {"advance", "policy"}
        \/ todo[1] = "train" /\ todo = << "train" >> /\ Standing = 3
    BY <1>3 DEF Starting
  <2> QED  BY <1>3, <2>1 DEF Closings
<1>4. CASE ex.at = "off" /\ todo = StartScript /\ pc \in {"new", "init"} /\ Standing = 1
  <2>1. todo[1] = "register"  BY <1>4 DEF StartScript
  <2> QED  BY <1>4, <2>1 DEF Closings
<1>5. CASE ex.at # "handoff" /\ DriveAt(todo, 1) /\ (ex.at = "off" => Standing \in {3, 6, 10})
  <2>1. todo[1] = "execute"  BY <1>5 DEF DriveAt
  <2> QED  BY <1>5, <2>1 DEF Closings
<1>6. CASE ex.at = "off" /\ \E i \in 2..4 : Approach(todo, i, Standing)
  <2>1. PICK i \in 2..4 : Approach(todo, i, Standing)  BY <1>6
  <2>2. CASE i = 2
    <3>1. todo[1] = "advance"
      <4>1. i - 1 = 1  BY <2>2
      <4> QED  BY <2>1, <4>1 DEF Approach
    <3> QED  BY <1>6, <3>1 DEF Closings
  <2>3. CASE i # 2
    <3>1. i \in 3..4 /\ todo[1] \in {"check", "restore"}  BY <2>1, <2>3 DEF Approach
    <3> QED  BY <1>6, <2>1, <3>1 DEF Closings
  <2> QED  BY <2>2, <2>3
<1>7. CASE ex.at = "handoff" /\ \E i \in 2..5 : HandsOver(todo, i, Standing)
  <2>1. PICK i \in 2..5 : HandsOver(todo, i, Standing)  BY <1>7
  <2>2. Standing \in Nat  BY <2>1 DEF HandsOver
  <2>3. todo[1] = Handoff[6 - i]  BY <2>1, <2>2, TailOfHandoff
  <2>4. \/ i = 2 /\ todo[1] = "handed"
        \/ i # 2 /\ todo[1] \in {"policy", "advance"}
    BY <2>3 DEF Handoff
  <2> QED  BY <1>7, <2>1, <2>4 DEF Closings
<1> QED  BY <1>1, <1>2, <1>3, <1>4, <1>5, <1>6, <1>7 DEF ScriptInv

(* Errors and Ctrl+C outside a drive. *)
LEMMA RaiseKeeps ==
  ASSUME ProgramInv, NEW kind \in Errors, Raise(kind), SessionStays, DriveStays, SessionInv', FinalInv',
         UNCHANGED << cfg, queue, batch, asked >>,
         Issuing, ex.at = "off", todo # << >>, pc \in {"new", "idle", "closed"},
         todo[1] \notin {"abort", "collide", "stop"},
         todo[1] = "raiseP8" => kind = "P8",
         todo[1] \in {"raiseOther", "show", "restore"} => kind # "P8"
  PROVE  ProgramInv'
<1>1. /\ todo' = << >> /\ UNCHANGED << held, practice, code >>
      /\ where' \in {"hold", "ended", "handle"}
      /\ where' = "ended" => state = "ABORTED"
      /\ where' = "handle" => where = "handle" /\ kind = "P8" /\ state # "ABORTED"
  BY DEF Raise, Errors
<1>2. /\ todo[1] \in Closings => todo \in {<< "raiseP8" >>, << "raiseOther" >>}
      /\ todo[1] \in Closings => \/ todo = << "raiseP8" >> /\ kind = "P8"
                                 \/ kind # "P8"
  <2>1. todo[1] \in Closings => todo \in ClosingLists  BY Heads DEF ProgramInv, FlowTypes
  <2> QED  BY <2>1 DEF ClosingLists
<1>3. ScriptInv'
  <2>1. RoutineList(todo')  BY <1>1 DEF RoutineList
  <2> QED  BY <2>1 DEF ScriptInv, DriveStays
<1>4. FlowTypes'  BY <1>1 DEF FlowTypes, ProgramInv, SessionStays, DriveStays
<1>5. /\ state = "ABORTED" => pc # "idle"
      /\ practice = "none"
  <2>1. pc = "idle" => state = Sequence[position] /\ position \in 1..Last
    BY DEF ProgramInv, SessionInv, PlaceInv, TypeOK, Underway
  <2>2. practice = "none"  BY DEF ProgramInv, PageInv, Issuing
  <2> QED  BY <2>1, <2>2, SequenceFacts
<1>6. CallInv'
  BY <1>1, <1>5 DEF CallInv, ProgramInv, SessionStays, DriveStays, Issuing, Inside,
                    Busy, Aborting, Finalizing
<1>7. PageInv'  BY <1>1, <1>5 DEF PageInv
<1>8. DeadEnd => DeadEnd'
  <2>1. CASE todo = << "raiseP8" >> /\ where' = "handle"
    <3>1. state \notin Screens  BY <1>1, <2>1 DEF ProgramInv, PageInv
    <3> QED  BY <1>1, <1>5, <2>1, <3>1 DEF DeadEnd, SessionStays
  <2>2. CASE where' # "handle" \/ held  BY <1>1, <2>2 DEF DeadEnd
  <2>3. CASE ~(todo = << "raiseP8" >>) /\ where' = "handle" /\ ~held
    BY <1>1, <1>2, <2>3 DEF DeadEnd, Issuing, FirstCommand
  <2> QED  BY <2>1, <2>2, <2>3
<1>9. Spoiled => DeadEnd'  BY <1>8 DEF SpoiledInv, ProgramInv
<1>10. StaleInv'
  <2>1. CASE todo[1] \in {"show", "restore"}
    <3>1. ~held  BY <2>1 DEF ProgramInv, PageInv
    <3>2. where' # "handle"  BY <1>1, <2>1
    <3> QED  BY <1>1, <3>1, <3>2 DEF StaleInv, DeadEnd
  <2>2. CASE todo[1] \notin {"show", "restore"}
    BY <1>1, <1>8, <2>2 DEF StaleInv, ProgramInv, Issuing, FirstCommand
  <2> QED  BY <2>1, <2>2
<1>11. StoppedInv'
  <2>1. ~Stopped  BY <1>2 DEF StoppedInv, ProgramInv, Issuing
  <2> QED  BY <2>1 DEF StoppedInv, Stopped, DriveStays
<1>12. code' # "0"  BY <1>1 DEF ProgramInv, Issuing
<1> QED  BY <1>3, <1>4, <1>6, <1>7, <1>9, <1>10, <1>11, <1>12, WindowFrame

\* A command that is done leaves a list of the same kind.
LEMMA Pops ==
  ASSUME ScriptInv, todo \in Seq(Commands), todo # << >>, todo' = Tail(todo), ex' = ex,
         where' = where, pc \notin {"new", "init"},
         pc \in {"idle"} \cup Busy => pc' \in {"idle"} \cup Busy,
         Standing \in Nat,
         \/ todo[1] = "advance" /\ Standing' = Standing + 1
         \/ /\ todo[1] \in {"policy", "receipt", "check", "restore", "show", "deafen", "stop",
                            "abort", "collide"}
            /\ Standing' = Standing
  PROVE  ScriptInv'
<1>1. CASE ex.at = "off" /\ RoutineList(todo)
  <2>1. RoutineList(todo')  BY <1>1, TailOfRoutine
  <2> QED  BY <1>1, <2>1 DEF ScriptInv
<1>2. CASE ex.at = "off" /\ todo \in ClosingLists
  <2>1. todo' \in {<< "stop" >>, << "raiseP8" >>, << "raiseOther" >>, << >>}
    <3>1. /\ Tail(<< "abort", "stop" >>) = << "stop" >> /\ Tail(<< "collide", "stop" >>) = << "stop" >>
          /\ Tail(<< "abort", "raiseP8" >>) = << "raiseP8" >>
          /\ Tail(<< "abort", "raiseOther" >>) = << "raiseOther" >>
      OBVIOUS
    <3>2. /\ Tail(<< "stop" >>) = << >> /\ Tail(<< "raiseP8" >>) = << >>
          /\ Tail(<< "raiseOther" >>) = << >>
      OBVIOUS
    <3> QED  BY <1>2, <3>1, <3>2, Zenon DEF ClosingLists
  <2>2. CASE todo' = << >>
    <3>1. RoutineList(<< >>)  BY DEF RoutineList
    <3> QED  BY <1>2, <2>2, <3>1 DEF ScriptInv
  <2>3. CASE todo' # << >>
    <3>1. todo' \in ClosingLists  BY <2>1, <2>3 DEF ClosingLists
    <3> QED  BY <1>2, <3>1 DEF ScriptInv
  <2> QED  BY <2>2, <2>3
<1>3. CASE /\ ex.at = "off" /\ pc \in {"idle"} \cup Busy /\ where = "start"
           /\ Starting(todo, Standing)
  <2>1. CASE todo = << "advance", "policy", "advance", "train" >> /\ Standing = 1
    <3>1. todo[1] = "advance" /\ todo' = << "policy", "advance", "train" >>  BY <2>1
    <3> QED  BY <1>3, <2>1, <3>1 DEF ScriptInv, Starting
  <2>2. CASE todo = << "policy", "advance", "train" >> /\ Standing = 2
    <3>1. todo[1] = "policy" /\ todo' = << "advance", "train" >>  BY <2>2
    <3> QED  BY <1>3, <2>2, <3>1 DEF ScriptInv, Starting
  <2>3. CASE todo = << "advance", "train" >> /\ Standing = 2
    <3>1. todo[1] = "advance" /\ todo' = << "train" >>  BY <2>3
    <3> QED  BY <1>3, <2>3, <3>1 DEF ScriptInv, Starting
  <2>4. CASE todo = << "train" >>
    <3>1. todo[1] = "train"  BY <2>4
    <3> QED  BY <3>1
  <2> QED  BY <1>3, <2>1, <2>2, <2>3, <2>4 DEF Starting
<1>4. CASE ex.at # "handoff" /\ DriveAt(todo, 1)  BY <1>4 DEF DriveAt
<1>5. CASE ex.at = "off" /\ \E i \in 2..4 : Approach(todo, i, Standing)
  <2>1. PICK i \in 2..4 : Approach(todo, i, Standing)  BY <1>5
  <2>2. CASE i = 2
    <3>1. DriveAt(todo', 1) /\ todo[1] = "advance" /\ Standing \in {5, 9}
      <4>1. i - 1 = 1  BY <2>2
      <4>2. DriveAt(todo, 2) /\ todo[1] = "advance" /\ Standing \in {5, 9}
        BY <2>1, <2>2, <4>1 DEF Approach
      <4>3. 2 \in 1..5 /\ 2 - 1 = 1  OBVIOUS
      <4> QED  BY <4>2, <4>3, TailOfDrive
    <3>2. Standing' \in {6, 10}  BY <3>1
    <3> QED  BY <1>5, <3>1, <3>2 DEF ScriptInv
  <2>3. CASE i > 2
    <3>1. Approach(todo', i - 1, Standing) /\ i - 1 \in 2..4  BY <2>1, <2>3, TailOfApproach
    <3>2. todo[1] \in {"check", "restore"}  BY <2>1, <2>3 DEF Approach
    <3> QED  BY <1>5, <3>1, <3>2 DEF ScriptInv
  <2> QED  BY <2>2, <2>3
<1>6. CASE ex.at = "handoff" /\ \E i \in 2..5 : HandsOver(todo, i, Standing)
  <2>1. PICK i \in 2..5 : HandsOver(todo, i, Standing)  BY <1>6
  <2>2. /\ todo[1] = Handoff[6 - i] /\ Standing = (IF i > 3 THEN 10 ELSE 11)
        /\ i > 2 => \A m \in Nat : m = (IF i - 1 > 3 THEN 10 ELSE 11) =>
                       HandsOver(Tail(todo), i - 1, m)
    BY <2>1, TailOfHandoff
  <2>3. i \in 3..5 /\ Standing' = (IF i - 1 > 3 THEN 10 ELSE 11) /\ Standing' \in Nat
    <3>1. CASE i = 2  BY <2>2, <3>1 DEF Handoff
    <3>2. CASE i = 3  BY <2>2, <3>2 DEF Handoff
    <3>3. CASE i = 4  BY <2>2, <3>3 DEF Handoff
    <3>4. CASE i = 5  BY <2>2, <3>4 DEF Handoff
    <3> QED  BY <3>1, <3>2, <3>3, <3>4
  <2>4. HandsOver(todo', i - 1, Standing') /\ i - 1 \in 2..5  BY <2>2, <2>3
  <2> QED  BY <1>6, <2>4 DEF ScriptInv
<1>7. CASE todo = StartScript  BY <1>7 DEF StartScript
<1> QED  BY <1>1, <1>2, <1>3, <1>4, <1>5, <1>6, <1>7 DEF ScriptInv

\* No list but a closing one comes to a closing command.
LEMMA NoClosing ==
  ASSUME ScriptInv, todo \in Seq(Commands), todo # << >>, todo[1] \notin Closings,
         Standing \in Nat, Tail(todo) # << >>
  PROVE  Tail(todo)[1] \notin Closings
<1>0. Tail(todo) \in Seq(Commands)  BY TailFacts
<1>1. CASE RoutineList(todo)
  <2>1. RoutineList(Tail(todo))  BY <1>1, TailOfRoutine
  <2>2. Tail(todo)[1] \in Routine  BY <1>0, <2>1, TailOfRoutine
  <2> QED  BY <2>2 DEF Routine, Closings
<1>2. todo \notin ClosingLists  BY ClosingFacts
<1>3. CASE Starting(todo, Standing)
  <2>1. /\ Tail(<< "advance", "policy", "advance", "train" >>)[1] = "policy"
        /\ Tail(<< "policy", "advance", "train" >>)[1] = "advance"
        /\ Tail(<< "advance", "train" >>)[1] = "train" /\ Tail(<< "train" >>) = << >>
    OBVIOUS
  <2> QED  BY <1>3, <2>1 DEF Starting, Closings
<1>4. CASE todo = StartScript
  <2>1. Tail(todo)[1] = "advance"  BY <1>4 DEF StartScript
  <2> QED  BY <2>1 DEF Closings
<1>5. CASE DriveAt(todo, 1)
  <2>1. 1 \in 1..5  OBVIOUS
  <2>2. Tail(todo)[1] \in {"show", "restore"}  BY <1>5, <2>1, TailOfDrive
  <2> QED  BY <2>2 DEF Closings
<1>6. CASE \E i \in 2..4 : Approach(todo, i, Standing)
  <2>1. PICK i \in 2..4 : Approach(todo, i, Standing)  BY <1>6
  <2>2. CASE i > 2
    <3>1. Approach(Tail(todo), i - 1, Standing) /\ i - 1 \in 2..4
      <4>1. 1 \in 1 .. i - 2 /\ i - 1 \in 2..4  BY <2>2
      <4>2. todo[1] \in {"check", "restore"}  BY <2>1, <4>1 DEF Approach
      <4> QED  BY <2>1, <4>1, <4>2, TailOfApproach
    <3>2. Tail(todo)[1] \in {"check", "restore", "advance"}  BY <1>0, <3>1, TailOfApproach
    <3> QED  BY <3>2 DEF Closings
  <2>3. CASE ~(i > 2)
    <3>1. todo[1] = "advance" /\ DriveAt(Tail(todo), 1)  BY <2>1, <2>3, TailOfApproach
    <3>2. Tail(todo)[1] = "execute"  BY <3>1 DEF DriveAt
    <3> QED  BY <3>2 DEF Closings
  <2> QED  BY <2>2, <2>3
<1>7. CASE \E i \in 2..5 : HandsOver(todo, i, Standing)
  <2>1. PICK i \in 2..5 : HandsOver(todo, i, Standing)  BY <1>7
  <2>2. CASE i > 2
    <3>1. \A m \in Nat : m = (IF i - 1 > 3 THEN 10 ELSE 11) => HandsOver(Tail(todo), i - 1, m)
      BY <2>1, <2>2, TailOfHandoff
    <3>2. PICK m \in Nat : HandsOver(Tail(todo), i - 1, m)  BY <3>1
    <3>3. i - 1 \in 2..5  BY <2>2
    <3>4. Tail(todo)[1] = Handoff[6 - (i - 1)]  BY <1>0, <3>2, <3>3, TailOfHandoff
    <3> QED  BY <3>3, <3>4 DEF Handoff, Closings
  <2>3. CASE ~(i > 2)
    <3>1. DriveAt(Tail(todo), 1)  BY <2>1, <2>3, TailOfHandoff
    <3>2. Tail(todo)[1] = "execute"  BY <3>1 DEF DriveAt
    <3> QED  BY <3>2 DEF Closings
  <2> QED  BY <2>2, <2>3
<1> QED  BY <1>1, <1>2, <1>3, <1>4, <1>5, <1>6, <1>7 DEF ScriptInv

\* While a handler has an ordinary command to make, nothing has been spoiled and the
\* window holds no error.
LEMMA Ordinary ==
  ASSUME ProgramInv, Issuing, todo # << >>, todo[1] \notin Closings
  PROVE  ~held /\ ~DeadEnd /\ ~Spoiled /\ ~Stopped /\ practice = "none" /\ code # "0"
<1>1. ~held
  <2>1. << "abort", "stop" >>[1] \in Closings /\ << "stop" >>[1] \in Closings  BY DEF Closings
  <2> QED  BY <2>1 DEF ProgramInv, PageInv
<1>2. ~DeadEnd  BY <1>1 DEF DeadEnd, Issuing, FirstCommand
<1>3. ~Spoiled  BY <1>2 DEF ProgramInv, SpoiledInv
<1>4. ~Stopped  BY <1>3 DEF Stopped, Spoiled
<1>5. practice = "none" /\ code # "0"  BY DEF ProgramInv, PageInv, Issuing
<1> QED  BY <1>1, <1>2, <1>3, <1>4, <1>5

\* A command that does nothing to the session but, perhaps, to its policy.
LEMMA QuietPop ==
  ASSUME ProgramInv, SessionInv', FinalInv',
         UNCHANGED << state, position, approval, work, ending, pc >>, DriveStays,
         UNCHANGED << cfg, where, held, practice, code, batch, asked >>,
         Issuing, todo # << >>, todo' = Tail(todo), ex.at \in {"off", "handoff"}, pc \in {"idle", "closed"},
         todo[1] \in {"policy", "receipt", "check", "restore", "show", "deafen"},
         policy' # policy =>
           ex.at = "handoff" \/ state \notin Modules \cup {"TRAINING"} \/ state \in Executed,
         \/ queue' = queue /\ todo[1] \notin {"restore", "show"}
         \/ queue' = NoKeys(queue)
  PROVE  ProgramInv'
<1>1. ~held /\ ~DeadEnd /\ ~Spoiled /\ ~Stopped /\ practice = "none" /\ code # "0"
  BY Ordinary DEF Closings
<1>2. todo \in Seq(Commands) /\ queue \in Seq({"space", "stale", "release", "esc", "quit"})
      /\ position \in 1..Last
  BY DEF ProgramInv, FlowTypes, SessionInv, TypeOK
<1>3. Tail(todo) \in Seq(Commands)  BY <1>2, TailFacts
<1>4. Executed' = Executed /\ Standing' = Standing /\ Standing \in Nat /\ ex' = ex
  BY <1>2, SMTT(20) DEF Executed, Standing, DriveStays, Last
<1>5. ScriptInv'  BY <1>2, <1>4, Pops DEF ProgramInv
<1>6. todo' # << >> => todo'[1] \notin Closings  BY <1>2, <1>4, NoClosing DEF ProgramInv, Closings
<1>7. todo' = << >> => ex'.at = "off"
  <2>1. ASSUME todo' = << >>, ex'.at = "handoff" PROVE FALSE
    <3>1. \E i \in 2..5 : HandsOver(todo', i, Standing')  BY <1>5, <2>1 DEF ScriptInv
    <3>2. \E i \in 2..5 : i < Len(todo')  BY <3>1 DEF HandsOver, DriveAt
    <3> QED  BY <2>1, <3>2
  <2> QED  BY <1>4, <2>1
<1>8. queue' = queue \/ (queue' \in Seq({"quit"}) /\ \A i \in 1..Len(queue') : queue'[i] = "quit")
  BY <1>2, NoKeysFacts
<1>9. FlowTypes'
  <2>1. queue' \in Seq({"space", "stale", "release", "esc", "quit"})  BY <1>2, <1>8
  <2> QED  BY <1>2, <1>3, <2>1 DEF FlowTypes, ProgramInv, DriveStays
<1>10. CallInv'  BY <1>4, <1>7 DEF CallInv, ProgramInv, Issuing, Busy, Aborting, Finalizing, ending
<1>11. PageInv'
  <2>1. todo' \notin {<< "raiseP8" >>, << "stop" >>, << "raiseOther" >>}
    <3>1. /\ << "raiseP8" >> # << >> /\ << "stop" >> # << >> /\ << "raiseOther" >> # << >>
          /\ << "raiseP8" >>[1] = "raiseP8" /\ << "stop" >>[1] = "stop"
          /\ << "raiseOther" >>[1] = "raiseOther"
      OBVIOUS
    <3> QED  BY <1>6, <3>1, Zenon DEF Closings
  <2> QED  BY <1>1, <2>1 DEF PageInv
<1>12. StaleInv'
  <2>1. CASE queue' = queue /\ todo[1] \notin {"restore", "show"}
    BY <1>1, <1>4, <2>1 DEF StaleInv, ProgramInv, FirstCommand, Issuing
  <2>2. CASE ~(queue' = queue /\ todo[1] \notin {"restore", "show"})
    <3>1. \A i \in 1..Len(queue') : queue'[i] = "quit"  BY <1>2, <2>2, NoKeysFacts
    <3> QED  BY <3>1 DEF StaleInv
  <2> QED  BY <2>1, <2>2
<1>13. DriveInv'  BY <1>4 DEF DriveInv, ProgramInv, DriveStays, Inside, ending
<1>14. RunsInv'
  <2>1. policy' # "none" => /\ state = "MODULE_1_RUNNING" => state \in Executed
                            /\ state = "MODULE_2_RUNNING" => Driven(state)
    <3>1. CASE policy' = policy  BY <3>1 DEF RunsInv, ProgramInv
    <3>2. CASE policy' # policy
      <4>1. CASE ex.at = "handoff"  BY <4>1 DEF DriveInv, ProgramInv, Driven, Busy
      <4>2. CASE ex.at # "handoff"  BY <3>2, <4>2 DEF Driven, Modules
      <4> QED  BY <4>1, <4>2
    <3> QED  BY <3>1, <3>2
  <2> QED  BY <1>4, <2>1 DEF RunsInv, ProgramInv, Ready, Driven, DriveStays
<1>15. SpoiledInv' /\ StoppedInv'
  BY <1>1, <1>4 DEF SpoiledInv, StoppedInv, Spoiled, Stopped, DriveStays
<1> QED  BY <1>1, <1>5, <1>9, <1>10, <1>11, <1>12, <1>13, <1>14, <1>15 DEF ProgramInv

\* A command that puts another list in the place of the handler's.
LEMMA ListKeeps ==
  ASSUME ProgramInv, SessionInv', FinalInv', SessionStays, DriveStays,
         UNCHANGED << cfg, where, held, code, queue, batch, asked >>,
         Issuing, todo # << >>, ex.at = "off", pc \in {"idle", "closed"},
         todo[1] \notin Closings \cup {"show", "restore"},
         todo' \in Seq(Commands), ScriptInv', todo' # << >> => todo'[1] \notin Closings,
         \/ practice' = "none"
         \/ practice' = "hidden" /\ todo' = << >> /\ state = "TRAINING" /\ pc = "idle"
  PROVE  ProgramInv'
<1>1. ~held /\ ~DeadEnd /\ ~Spoiled /\ ~Stopped /\ practice = "none" /\ code # "0"  BY Ordinary
<1>2. FlowTypes'  BY DEF FlowTypes, ProgramInv, SessionStays, DriveStays
<1>3. CallInv'
  BY DEF CallInv, ProgramInv, Issuing, Busy, Aborting, Finalizing, SessionStays, DriveStays
<1>4. PageInv'
  <2>1. todo' \notin {<< "raiseP8" >>, << "stop" >>, << "raiseOther" >>}
    <3>1. /\ << "raiseP8" >> # << >> /\ << "stop" >> # << >> /\ << "raiseOther" >> # << >>
          /\ << "raiseP8" >>[1] = "raiseP8" /\ << "stop" >>[1] = "stop"
          /\ << "raiseOther" >>[1] = "raiseOther"
      OBVIOUS
    <3> QED  BY <3>1, Zenon DEF Closings
  <2> QED  BY <1>1, <2>1 DEF PageInv, SessionStays, Issuing
<1>5. StaleInv'  BY <1>1 DEF StaleInv, ProgramInv, FirstCommand, Issuing
<1>6. StoppedInv'  BY <1>1 DEF StoppedInv, Stopped, DriveStays
<1> QED  BY <1>1, <1>2, <1>3, <1>4, <1>5, <1>6, WindowFrame

\* What a command can rely on when it is issued.
LEMMA Issued ==
  ASSUME ProgramInv, NEW c, Issue(c)
  PROVE  /\ Issuing /\ todo # << >> /\ todo[1] = c /\ ex.at \in {"off", "handoff"}
         /\ pc \in {"idle", "closed"} /\ todo \in Seq(Commands)
         /\ Tail(todo) \in Seq(Commands) /\ position \in 1..Last /\ Standing = position
<1>1. todo \in Seq(Commands) /\ position \in 1..Last
  BY DEF ProgramInv, FlowTypes, SessionInv, TypeOK
<1>2. todo # << >> /\ pc \in {"idle", "closed"}  BY DEF Issue, Commanded, SessionRests
<1> QED  BY <1>1, <1>2, TailFacts DEF Issue, Commanded, Issuing, Standing

LEMMA RegisterFailsKeeps ==
  ASSUME ProgramInv, RegisterFails, SessionInv', FinalInv'
  PROVE  ProgramInv'
<1>1. SessionStays /\ DriveStays /\ UNCHANGED << cfg, queue, batch, asked >>
  BY Stays DEF RegisterFails, keyboard
<1>2. where = "start" /\ pc = "new" /\ todo = StartScript /\ todo \in Seq(Commands)
  BY DEF RegisterFails, ProgramInv, CallInv, FlowTypes
<1>3. todo # << >> /\ todo[1] = "register"  BY <1>2 DEF StartScript
<1>4. ex.at = "off"  BY <1>2, <1>3, Heads DEF ProgramInv
<1>5. PICK kind \in {"P8", "other"} : Raise(kind)  BY DEF RegisterFails
<1> QED  BY <1>1, <1>2, <1>3, <1>4, <1>5, RaiseKeeps DEF Issuing, Errors

LEMMA DisplayLostKeeps ==
  ASSUME ProgramInv, DisplayLost, SessionInv', FinalInv'
  PROVE  ProgramInv'
<1>1. SessionStays /\ DriveStays /\ UNCHANGED << cfg, queue, batch, asked >> /\ Raise("other")
  BY Stays DEF DisplayLost, keyboard
<1>2. PICK c \in {"restore", "show"} : Issue(c)  BY DEF DisplayLost
<1>3. /\ Issuing /\ todo # << >> /\ todo[1] = c /\ todo \in Seq(Commands)
      /\ pc \in {"idle", "closed"}
  BY <1>2, Issued
<1>4. ex.at = "off"  BY <1>3, Heads DEF ProgramInv
<1> QED  BY <1>1, <1>3, <1>4, RaiseKeeps DEF Errors

LEMMA RecordBoundaryKeeps ==
  ASSUME ProgramInv, RecordBoundary, SessionInv', FinalInv'
  PROVE  ProgramInv'
<1>1. /\ Issuing /\ todo # << >> /\ todo[1] = "receipt" /\ todo \in Seq(Commands)
      /\ pc \in {"idle", "closed"} /\ ex.at \in {"off", "handoff"}
  BY Issued DEF RecordBoundary
<1>2. Underway0  BY DEF ProgramInv, CallInv, Underway0
<1>3. /\ pc' = pc /\ SameStage  BY <1>2, ReceiptMoves DEF RecordBoundary
<1>4. DriveStays /\ UNCHANGED << cfg, where, held, practice, code, queue, batch, asked >>
      /\ todo' = Tail(todo)
  BY DEF RecordBoundary, Proceed, DriveStays, drive, keyboard
<1> QED  BY <1>1, <1>3, <1>4, QuietPop DEF SameStage

LEMMA GazeCheckKeeps ==
  ASSUME ProgramInv, GazeCheck, SessionInv', FinalInv'
  PROVE  ProgramInv'
<1>1. /\ Issuing /\ todo # << >> /\ todo[1] = "check" /\ todo \in Seq(Commands)
      /\ pc \in {"idle", "closed"}
  BY Issued DEF GazeCheck
<1>2. ex.at = "off"  BY <1>1, Heads DEF ProgramInv
<1>3. /\ SessionStays /\ DriveStays /\ UNCHANGED << vars, cfg, where, held, practice, code, queue, batch, asked >>
  BY Stays DEF GazeCheck, Proceed, keyboard
<1>4. CASE todo' = Tail(todo)
  <2>1. UNCHANGED << state, position, approval, work, ending, pc, policy >>
    BY <1>3 DEF vars, place, entry
  <2> QED  BY <1>1, <1>2, <1>3, <1>4, <2>1, QuietPop
<1>5. CASE todo' = << "restore" >>
  <2>1. << "restore" >> \in Seq(Commands) /\ Len(<< "restore" >>) = 1 /\ << "restore" >>[1] = "restore"
    BY DEF Commands, Routine
  <2>2. RoutineList(<< "restore" >>)  BY <2>1 DEF RoutineList, Routine
  <2>3. ScriptInv'  BY <1>2, <1>3, <1>5, <2>2 DEF ScriptInv, DriveStays
  <2>4. practice' = "none"  BY <1>1, <1>3, Ordinary DEF Closings
  <2> QED  BY <1>1, <1>2, <1>3, <1>5, <2>1, <2>3, <2>4, ListKeeps DEF Closings
<1> QED  BY <1>4, <1>5 DEF GazeCheck, Proceed

LEMMA RestoreKeeps ==
  ASSUME ProgramInv, RestoreDisplay, SessionInv', FinalInv'
  PROVE  ProgramInv'
<1>1. PICK c \in {"restore", "show", "deafen"} :
        /\ Issue(c) /\ UNCHANGED << batch, asked >>
        /\ queue' = NoKeys(queue) \/ (queue' = queue /\ c = "deafen")
  BY DEF RestoreDisplay, Restored
<1>2. /\ Issuing /\ todo # << >> /\ todo[1] = c /\ todo \in Seq(Commands)
      /\ pc \in {"idle", "closed"} /\ ex.at \in {"off", "handoff"}
  BY <1>1, Issued
<1>3. /\ SessionStays /\ DriveStays /\ UNCHANGED << vars, cfg, where, held, practice, code >>
      /\ todo' = Tail(todo)
  BY Stays DEF RestoreDisplay, Proceed
<1>4. UNCHANGED << state, position, approval, work, ending, pc, policy >>
  BY <1>3 DEF vars, place, entry
<1> QED  BY <1>1, <1>2, <1>3, <1>4, QuietPop

LEMMA ExpandKeeps ==
  ASSUME ProgramInv, Expand, SessionInv', FinalInv'
  PROVE  ProgramInv'
<1>1. /\ Issuing /\ todo # << >> /\ todo[1] = "after" /\ todo \in Seq(Commands)
      /\ pc \in {"idle", "closed"}
  BY Issued DEF Expand
<1>2. ex.at = "off"  BY <1>1, Heads DEF ProgramInv
<1>3. /\ SessionStays /\ DriveStays /\ UNCHANGED << vars, cfg, where, held, practice, code, queue, batch, asked >>
      /\ todo' = AfterM2
  BY Stays DEF Expand, keyboard
<1>4. todo' \in Seq(Commands) /\ RoutineList(todo')  BY <1>3, AfterFacts
<1>5. ScriptInv'  BY <1>2, <1>3, <1>4 DEF ScriptInv, DriveStays
<1>6. todo' # << >> => todo'[1] \notin Closings  BY <1>4, TailOfRoutine DEF Routine, Closings
<1>7. practice' = "none"  BY <1>1, <1>3, Ordinary DEF Closings
<1> QED  BY <1>1, <1>2, <1>3, <1>4, <1>5, <1>6, <1>7, ListKeeps DEF Closings

LEMMA TrainKeeps ==
  ASSUME ProgramInv, Train, SessionInv', FinalInv'
  PROVE  ProgramInv'
<1>1. /\ Issuing /\ todo # << >> /\ todo[1] = "train" /\ todo \in Seq(Commands)
      /\ pc \in {"idle", "closed"} /\ Standing = position
  BY Issued DEF Train
<1>2. ex.at = "off" /\ position = 3  BY <1>1, Heads DEF ProgramInv
<1>3. /\ SessionStays /\ DriveStays /\ UNCHANGED << cfg, where, held, code, queue, batch, asked >>
  BY Stays DEF Train, keyboard
<1>4. practice = "none"  BY <1>1, Ordinary DEF Closings
<1>5. CASE cfg.v1
  <2>1. practice' = "hidden" /\ todo' = << >>  BY <1>5 DEF Train
  <2>2. ScriptInv'
    <3>1. RoutineList(<< >>)  BY DEF RoutineList
    <3> QED  BY <1>2, <1>3, <2>1, <3>1 DEF ScriptInv, DriveStays
  <2>3. state = "TRAINING" /\ pc = "idle"
    <3>1. state \in {Sequence[3], "ABORTED"} /\ Sequence[3] = "TRAINING"
      BY <1>2 DEF ProgramInv, RunsInv, Sequence
    <3>2. pc = "idle"  BY <1>1, Heads DEF ProgramInv, Busy
    <3>3. pc = "idle" => state = Sequence[position]
      BY DEF ProgramInv, SessionInv, PlaceInv, Underway
    <3> QED  BY <1>2, <3>1, <3>2, <3>3
  <2>4. << >> \in Seq(Commands)  OBVIOUS
  <2> QED  BY <1>1, <1>2, <1>3, <2>1, <2>2, <2>3, <2>4, ListKeeps DEF Closings
<1>6. CASE ~cfg.v1
  <2>1. practice' = "none" /\ todo' = Training  BY <1>4, <1>6 DEF Train
  <2>2. todo' \in Seq(Commands) /\ DriveAt(todo', 1)  BY <2>1, TrainingFacts
  <2>3. Standing' = 3  BY <1>1, <1>2, <1>3 DEF Standing, SessionStays
  <2>4. ScriptInv'  BY <1>2, <1>3, <2>2, <2>3 DEF ScriptInv, DriveStays
  <2>5. todo'[1] = "execute"  BY <2>2 DEF DriveAt
  <2> QED  BY <1>1, <1>2, <1>3, <2>1, <2>2, <2>4, <2>5, ListKeeps DEF Closings
<1> QED  BY <1>5, <1>6

LEMMA StopKeeps ==
  ASSUME ProgramInv, SessionInv', FinalInv', SessionStays, DriveStays,
         UNCHANGED << cfg, held, practice, code, queue, batch, asked >>,
         Issue("stop"), where' = "ended", todo' = << >>
  PROVE  ProgramInv'
<1>1. /\ Issuing /\ todo # << >> /\ todo[1] = "stop" /\ todo \in Seq(Commands)
      /\ pc \in {"idle", "closed"}
  BY Issued
<1>2. todo \in ClosingLists /\ ex.at = "off"  BY <1>1, Heads DEF ProgramInv, Closings
<1>3. todo = << "stop" >>
  <2>1. /\ << "abort", "stop" >>[1] = "abort" /\ << "collide", "stop" >>[1] = "collide"
        /\ << "abort", "raiseP8" >>[1] = "abort" /\ << "abort", "raiseOther" >>[1] = "abort"
        /\ << "raiseP8" >>[1] = "raiseP8" /\ << "raiseOther" >>[1] = "raiseOther"
    OBVIOUS
  <2> QED  BY <1>1, <1>2, <2>1, Zenon DEF ClosingLists
<1>4. pc = "closed"  BY <1>1, <1>3 DEF ProgramInv, PageInv, SessionInv, PlaceInv, AfterClose
<1>5. ScriptInv'
  <2>1. RoutineList(<< >>)  BY DEF RoutineList
  <2> QED  BY <1>2, <2>1 DEF ScriptInv, DriveStays
<1>6. FlowTypes'  BY DEF FlowTypes, ProgramInv, SessionStays, DriveStays
<1>7. CallInv'
  BY <1>2, <1>4 DEF CallInv, ProgramInv, SessionStays, DriveStays, Issuing, Busy, Aborting, Finalizing,
                    Underway
<1>8. PageInv'  BY <1>1 DEF PageInv, ProgramInv, Issuing
<1>9. DeadEnd'  BY DEF DeadEnd
<1>10. StaleInv'
  <2>1. ~held' \/ held  OBVIOUS
  <2> QED  BY <1>1, <1>2, <1>9 DEF StaleInv, ProgramInv, FirstCommand, Issuing
<1>11. StoppedInv'
  <2>1. Stopped' = Stopped  BY DEF Stopped, DriveStays
  <2>2. todo # << "collide", "stop" >>  BY <1>1
  <2> QED  BY <1>1, <1>4, <2>1, <2>2 DEF StoppedInv, ProgramInv, SessionStays, Issuing
<1>12. code' # "0"  BY <1>1 DEF ProgramInv, Issuing
<1> QED  BY <1>2, <1>5, <1>6, <1>7, <1>8, <1>9, <1>10, <1>11, <1>12, WindowFrame

LEMMA RaiseCommandKeeps ==
  ASSUME ProgramInv, RaiseCommand, SessionInv', FinalInv'
  PROVE  ProgramInv'
<1>1. SessionStays /\ DriveStays /\ UNCHANGED << cfg, queue, batch, asked >>
  BY Stays DEF RaiseCommand, keyboard
<1>2. ASSUME NEW kind \in {"P8", "other"}, Raise(kind), Issue(IF kind = "P8" THEN "raiseP8" ELSE "raiseOther")
      PROVE  ProgramInv'
  <2>1. /\ Issuing /\ todo # << >> /\ todo[1] = (IF kind = "P8" THEN "raiseP8" ELSE "raiseOther")
        /\ todo \in Seq(Commands) /\ pc \in {"idle", "closed"}
    BY <1>2, Issued
  <2>2. ex.at = "off"  BY <2>1, Heads DEF ProgramInv, Closings
  <2>3. /\ todo[1] \notin {"abort", "collide", "stop"}
        /\ todo[1] = "raiseP8" => kind = "P8"
        /\ todo[1] \in {"raiseOther", "show", "restore"} => kind # "P8"
    BY <2>1
  <2> QED  BY <1>1, <1>2, <2>1, <2>2, <2>3, RaiseKeeps DEF Errors
<1>3. CASE Issue("stop") /\ where' = "ended" /\ todo' = << >> /\ UNCHANGED << held, practice, code >>
  BY <1>1, <1>3, StopKeeps
<1> QED  BY <1>2, <1>3 DEF RaiseCommand

(* The handoff of a drive, and its end. *)
LEMMA LeavesHandoff ==
  ASSUME ProgramInv, SessionInv', FinalInv', ex.at = "handoff", SameStage,
         UNCHANGED << runs, slots, open, cfg, where, held, practice, code, queue, batch, asked >>,
         ex' \in Executors, ex'.at = "stopgaze", ex'.stage = ex.stage, Concluded(ex'),
         ex'.outcome # "HAZARD_COLLISION",
         todo' \in Seq(Commands), DriveAt(todo', 1),
         \/ pc = "idle" /\ pc' = "idle"
         \/ pc' = "abort" /\ ex'.first = "KI"
  PROVE  ProgramInv'
<1>1. /\ Issuing /\ todo # << >> /\ where \notin {"cli", "returned"} /\ code # "0"
  BY DEF ProgramInv, CallInv, Issuing
<1>2. todo' # << >> /\ todo'[1] = "execute"  BY DEF DriveAt
<1>3. ~held /\ practice = "none" /\ ~logClosed /\ ex.stage \notin Executed
      /\ ex.stage = "MODULE_2_RUNNING"
  BY DEF ProgramInv, DriveInv
<1>4. ~Spoiled /\ ~Stopped  BY DEF ProgramInv, SpoiledInv, Stopped, Spoiled
<1>5. Executed' = Executed /\ Spoiled' = Spoiled /\ Stopped' = Stopped
  BY DEF Executed, Spoiled, Stopped
<1>6. FlowTypes'  BY DEF FlowTypes, ProgramInv, SameStage
<1>7. CallInv'
  BY <1>1, <1>2 DEF CallInv, ProgramInv, Issuing, Inside, Busy, Aborting, Finalizing, Underway,
                    SameStage, ending
<1>8. ScriptInv'  BY DEF ScriptInv
<1>9. PageInv'
  <2>1. todo' \notin {<< "raiseP8" >>, << "stop" >>, << "raiseOther" >>}
    <3>1. /\ << "raiseP8" >>[1] = "raiseP8" /\ << "stop" >>[1] = "stop"
          /\ << "raiseOther" >>[1] = "raiseOther"
      OBVIOUS
    <3> QED  BY <1>2, <3>1, Zenon
  <2> QED  BY <1>3, <2>1 DEF PageInv
<1>10. DriveInv'
  BY <1>3, <1>5 DEF DriveInv, ProgramInv, Inside, SameStage, ending, Concluded, Early
<1>11. StaleInv'  BY DEF StaleInv
<1>12. position \in Nat /\ (Ready(position) => Ready(position - 1))
  <2>1. position \in Nat  BY DEF ProgramInv, SessionInv, TypeOK, Last
  <2> QED  BY <2>1 DEF Ready
<1>13. RunsInv'
  <2>1. Driven("MODULE_2_RUNNING") /\ Driven("MODULE_2_RUNNING")'  BY <1>3 DEF Driven
  <2> QED  BY <1>5, <1>12, <2>1 DEF RunsInv, ProgramInv, Ready, SameStage
<1>14. SpoiledInv' /\ StoppedInv'  BY <1>4, <1>5 DEF SpoiledInv, StoppedInv
<1> QED  BY <1>1, <1>6, <1>7, <1>8, <1>9, <1>10, <1>11, <1>13, <1>14 DEF ProgramInv

\* What is left of the handler once the handoff is over is a drive that is done.
LEMMA InHandoff ==
  ASSUME ProgramInv, ex.at = "handoff"
  PROVE  /\ todo \in Seq(Commands) /\ todo # << >> /\ AtDrive \in Seq(Commands) /\ DriveAt(AtDrive, 1)
         /\ todo[1] \in {"policy", "advance", "handed"} /\ pc \in {"idle"} \cup Busy
         /\ todo[1] = "handed" => Tail(todo) \in Seq(Commands) /\ DriveAt(Tail(todo), 1)
         /\ ex \in Executors /\ ex.stage = "MODULE_2_RUNNING" /\ ex.first = "none"
         /\ ex.outcome = "none"
         /\ Standing \in {10, 11}
<1>1. todo \in Seq(Commands) /\ ex \in Executors  BY DEF ProgramInv, FlowTypes
<1>2. PICK i \in 2..5 : HandsOver(todo, i, Standing)  BY DEF ProgramInv, ScriptInv
<1>3. AtDrive \in Seq(Commands) /\ DriveAt(AtDrive, 1)  BY <1>1, <1>2, AtDriveFacts
<1>4. Standing \in {10, 11}  BY <1>2 DEF HandsOver
<1>5. /\ todo # << >> /\ todo[1] = Handoff[6 - i]
      /\ i = 2 => DriveAt(Tail(todo), 1)
  BY <1>1, <1>2, <1>4, TailOfHandoff
<1>6. todo[1] \in {"policy", "advance", "handed"} /\ (todo[1] = "handed" => i = 2)
  BY <1>5 DEF Handoff
<1>7. Tail(todo) \in Seq(Commands)  BY <1>1, <1>5, TailFacts
<1>8. /\ pc \in {"idle"} \cup Busy /\ ex.stage = "MODULE_2_RUNNING" /\ ex.first = "none"
      /\ ex.outcome = "none"
  BY DEF ProgramInv, DriveInv
<1> QED  BY <1>1, <1>3, <1>4, <1>5, <1>6, <1>7, <1>8

\* A call that the handoff may not make fails it.
LEMMA RefuseKeeps ==
  ASSUME ProgramInv, SessionInv', FinalInv', Refuse, NoSession, NEW c \in {"advance", "policy"}, Issue(c),
         UNCHANGED << runs, slots, open, bound, cfg, keyboard >>
  PROVE  ProgramInv'
<1>1. /\ Issuing /\ todo # << >> /\ todo[1] = c /\ todo \in Seq(Commands)
      /\ pc \in {"idle", "closed"} /\ ex.at \in {"off", "handoff"}
  BY Issued
<1>2. UNCHANGED << queue, batch, asked >>  BY DEF keyboard
<1>3. CASE ex.at = "handoff"
  <2>1. /\ ex' = [ex EXCEPT !.at = "stopgaze", !.first = "P8"] /\ todo' = AtDrive
        /\ UNCHANGED << where, held, practice, code >>
    BY <1>3 DEF Refuse
  <2>2. ex \in Executors /\ pc = "idle" /\ AtDrive \in Seq(Commands) /\ DriveAt(AtDrive, 1)
    BY <1>1, <1>3, InHandoff DEF Busy
  <2>3. ex' \in Executors  BY <2>1, <2>2, ExecutorFields DEF Points, Errors, Outcomes0, Confirmed0
  <2>4. ex'.at = "stopgaze" /\ ex'.stage = ex.stage /\ ex'.first = "P8" /\ ex'.outcome = "none"
    BY <1>3, <2>1, <2>2, InHandoff DEF Executors
  <2>5. SameStage /\ pc' = pc  BY DEF NoSession, SameStage, vars, place, entry
  <2> QED  BY <1>2, <1>3, <2>1, <2>2, <2>3, <2>4, <2>5, LeavesHandoff DEF Concluded
<1>4. CASE ex.at = "off"
  <2>1. Raise("P8") /\ UNCHANGED ex  BY <1>4 DEF Refuse
  <2>2. SessionStays /\ DriveStays
    BY <2>1 DEF NoSession, SessionStays, DriveStays, vars, place, entry, ending
  <2> QED  BY <1>1, <1>2, <1>4, <2>1, <2>2, RaiseKeeps DEF Errors
<1> QED  BY <1>1, <1>3, <1>4

LEMMA HandedOffKeeps ==
  ASSUME ProgramInv, HandedOff, SessionInv', FinalInv'
  PROVE  ProgramInv'
<1>1. /\ Issuing /\ todo # << >> /\ todo[1] = "handed" /\ ex.at = "handoff" /\ pc \in {"idle", "closed"}
  BY Issued DEF HandedOff
<1>2. ex \in Executors /\ pc = "idle" /\ Tail(todo) \in Seq(Commands) /\ DriveAt(Tail(todo), 1)
  BY <1>1, InHandoff DEF Busy
<1>3. /\ ex' = [ex EXCEPT !.at = "stopgaze", !.outcome = "TIME_LIMIT_REACHED"] /\ todo' = Tail(todo)
      /\ UNCHANGED << vars, runs, slots, open, cfg, where, held, practice, code, queue, batch, asked >>
  BY DEF HandedOff, Proceed, Drives, keyboard
<1>4. ex' \in Executors  BY <1>2, <1>3, ExecutorFields DEF Points, Errors, Outcomes0, Confirmed0
<1>5. ex'.at = "stopgaze" /\ ex'.stage = ex.stage /\ ex'.outcome = "TIME_LIMIT_REACHED"
  BY <1>2, <1>3 DEF Executors
<1>6. SameStage /\ pc' = pc  BY <1>3 DEF SameStage, vars, place, entry
<1> QED  BY <1>1, <1>2, <1>3, <1>4, <1>5, <1>6, LeavesHandoff DEF Concluded

\* A transition leaves a driving stage only when it has been driven.
LEMMA GuardReady ==
  ASSUME ProgramInv, Guard, pc \in Underway
  PROVE  Ready(position)
<1>1. position \in 1..Last /\ state = Sequence[position]
  BY DEF ProgramInv, SessionInv, TypeOK, PlaceInv
<1>2. Ready(position - 1)
  <2>1. Ready(position) => Ready(position - 1)  BY <1>1 DEF Ready, Last
  <2> QED  BY <2>1 DEF ProgramInv, RunsInv
<1>3. approval = "none" /\ work \subseteq Executed  BY DEF ProgramInv, FlowTypes, RunsInv
<1>4. CASE position = 3
  <2>1. state = "TRAINING"  BY <1>1, <1>4 DEF Sequence
  <2>2. ~Blocked(state)  BY <1>3, <2>1 DEF Guard, Contract
  <2>3. "TRAINING" \in Executed  BY <1>3, <2>1, <2>2, FlowAssumption DEF Blocked
  <2> QED  BY <1>4, <2>3 DEF Ready
<1>5. CASE position = 6
  <2>1. state = "MODULE_1_RUNNING"  BY <1>1, <1>5 DEF Sequence
  <2>2. policy # "none"  BY <1>3, <2>1, FlowAssumption DEF Guard, Contract, Blocked, Modules
  <2>3. "MODULE_1_RUNNING" \in Executed  BY <2>1, <2>2 DEF ProgramInv, RunsInv
  <2> QED  BY <1>2, <1>5, <2>3 DEF Ready
<1>6. CASE position = 10
  <2>1. state = "MODULE_2_RUNNING"  BY <1>1, <1>6 DEF Sequence
  <2>2. policy # "none"  BY <1>3, <2>1, FlowAssumption DEF Guard, Contract, Blocked, Modules
  <2>3. Driven("MODULE_2_RUNNING")  BY <2>1, <2>2 DEF ProgramInv, RunsInv
  <2> QED  BY <1>2, <1>6, <2>3 DEF Ready
<1>7. CASE position \notin {3, 6, 10}  BY <1>1, <1>2, <1>7 DEF Ready, Last
<1> QED  BY <1>4, <1>5, <1>6, <1>7

LEMMA AdvanceKeeps ==
  ASSUME ProgramInv, Advance, SessionInv', FinalInv'
  PROVE  ProgramInv'
<1>1. Issue("advance") /\ UNCHANGED << cfg, keyboard, runs, slots, open, bound >>  BY DEF Advance
<1>2. /\ Issuing /\ todo # << >> /\ todo[1] = "advance" /\ todo \in Seq(Commands)
      /\ ex.at \in {"off", "handoff"} /\ Standing = position
  BY <1>1, Issued
<1>3. CASE NoSession /\ Refuse  BY <1>1, <1>3, RefuseKeeps
<1>4. CASE RequestTransition /\ UNCHANGED << window, ex >>
  <2>1. pc = "idle" /\ pc' = "leave" /\ Guard /\ SameStage /\ verdict' = verdict
    BY <1>4, RequestMoves
  <2>2. ~held /\ ~DeadEnd /\ ~Spoiled /\ ~Stopped /\ practice = "none" /\ code # "0"
    BY <1>2, Ordinary DEF Closings
  <2>3. /\ UNCHANGED << cfg, where, todo, held, practice, code, queue, batch, asked, runs, slots,
                        ex, open >>
        /\ Executed' = Executed /\ Spoiled' = Spoiled /\ Stopped' = Stopped
    BY <1>1, <1>4 DEF window, keyboard, Executed, Spoiled, Stopped
  <2>4. Standing' = Standing  BY <1>2, <2>1 DEF Standing, SameStage
  <2>5. FlowTypes'  BY <2>1, <2>3 DEF FlowTypes, ProgramInv, SameStage
  <2>6. CallInv'
    BY <1>2, <2>1, <2>2, <2>3 DEF CallInv, ProgramInv, Issuing, Inside, FirstCommand, Busy, Aborting,
                                Finalizing, Underway, SameStage, ending
  <2>7. ScriptInv'  BY <2>1, <2>3, <2>4 DEF ScriptInv, ProgramInv, Busy
  <2>8. PageInv'
    <3>1. todo \notin {<< "raiseP8" >>, << "stop" >>, << "raiseOther" >>}  BY <1>2
    <3> QED  BY <2>2, <2>3, <3>1 DEF PageInv
  <2>9. DriveInv'  BY <1>2, <2>1, <2>3 DEF DriveInv, ProgramInv, Inside, SameStage, ending, Busy
  <2>10. StaleInv'  BY <2>2, <2>3 DEF StaleInv, ProgramInv, FirstCommand
  <2>11. RunsInv'
    <3>1. Ready(position)  BY <2>1, GuardReady DEF Underway
    <3> QED  BY <2>1, <2>3, <3>1 DEF RunsInv, ProgramInv, Ready, Driven, SameStage
  <2>12. SpoiledInv' /\ StoppedInv'  BY <2>2, <2>3 DEF SpoiledInv, StoppedInv
  <2> QED  BY <2>2, <2>3, <2>5, <2>6, <2>7, <2>8, <2>9, <2>10, <2>11, <2>12 DEF ProgramInv
<1> QED  BY <1>3, <1>4 DEF Advance

LEMMA PolicyKeeps ==
  ASSUME ProgramInv, Policy, SessionInv', FinalInv'
  PROVE  ProgramInv'
<1>1. Issue("policy") /\ UNCHANGED << cfg, keyboard, runs, slots, open, bound >>  BY DEF Policy
<1>2. /\ Issuing /\ todo # << >> /\ todo[1] = "policy" /\ todo \in Seq(Commands)
      /\ ex.at \in {"off", "handoff"} /\ pc \in {"idle", "closed"}
  BY <1>1, Issued
<1>3. CASE NoSession /\ Refuse  BY <1>1, <1>3, RefuseKeeps
<1>4. CASE /\ RecordPolicyOutcome /\ Proceed /\ UNCHANGED ex
           /\ ex.at = "handoff" \/ state \notin Modules \cup {"TRAINING"} \/ state \in Executed
  <2>1. Underway0  BY DEF ProgramInv, CallInv, Underway0
  <2>2. pc' = pc /\ UNCHANGED << state, position, approval, work, ending >>
    BY <1>4, <2>1, PolicyMoves
  <2>3. DriveStays /\ UNCHANGED << cfg, where, held, practice, code, queue, batch, asked >>
        /\ todo' = Tail(todo)
    BY <1>1, <1>4 DEF Proceed, DriveStays, keyboard
  <2> QED  BY <1>2, <1>4, <2>2, <2>3, QuietPop
<1> QED  BY <1>3, <1>4 DEF Policy

\* abort and the stop of a collision.
LEMMA AbortCommandKeeps ==
  ASSUME ProgramInv, AbortCommand, SessionInv', FinalInv'
  PROVE  ProgramInv'
<1>1. PICK c \in {"abort", "collide"} :
        /\ Issue(c)
        /\ Abort(IF c = "abort" THEN "ABORTED" ELSE "ENDED_AFTER_HAZARD_COLLISION")
  BY DEF AbortCommand
<1>2. /\ Issuing /\ todo # << >> /\ todo[1] = c /\ todo \in Seq(Commands)  BY <1>1, Issued
<1>3. ex.at = "off" /\ todo \in ClosingLists  BY <1>2, Heads DEF ProgramInv, Closings
<1>4. /\ pc = "idle" /\ pc' = "abort" /\ SameStage
      /\ verdict' = IF c = "abort" THEN "ABORTED" ELSE "ENDED_AFTER_HAZARD_COLLISION"
  BY <1>1, AbortMoves
<1>5. /\ UNCHANGED << cfg, where, todo, held, practice, code, queue, batch, asked, runs, slots, ex,
                      open >>
      /\ DriveStays
  BY DEF AbortCommand, flow, window, keyboard, drive, DriveStays
<1>6. position < Last  BY <1>4 DEF ProgramInv, FinalInv, Underway
<1>7. FlowTypes'  BY <1>4, <1>5 DEF FlowTypes, ProgramInv, SameStage
<1>8. CallInv'
  BY <1>2, <1>3, <1>4, <1>5, <1>6 DEF CallInv, ProgramInv, Issuing, FirstCommand, Busy, Aborting,
                                    Finalizing, Underway, SameStage
<1>9. ScriptInv'  BY <1>3, <1>5 DEF ScriptInv
<1>10. PageInv'
  <2>1. todo \notin {<< "raiseP8" >>, << "stop" >>, << "raiseOther" >>}  BY <1>2
  <2> QED  BY <1>2, <1>5, <2>1 DEF PageInv, ProgramInv, Issuing
<1>11. DeadEnd'  BY <1>2, <1>5 DEF DeadEnd, FirstCommand, Closings
<1>12. StaleInv'  BY <1>2, <1>5, <1>11 DEF StaleInv, ProgramInv, Issuing, FirstCommand
<1>13. StoppedInv'
  <2>1. SUFFICES ASSUME Stopped PROVE StoppedInv'  BY <1>5 DEF StoppedInv, Stopped
  <2>2. /\ todo = << "collide", "stop" >> /\ ~errors /\ ~lifecycle /\ ~logClosed
    BY <1>2, <1>4, <2>1 DEF StoppedInv, ProgramInv, Issuing, Aborting, Finalizing, AfterClose
  <2>3. c = "collide"  BY <1>2, <2>2
  <2> QED  BY <1>4, <1>5, <2>2, <2>3 DEF StoppedInv, SameStage, ending, Aborting
<1>14. code' # "0"  BY <1>2, <1>5 DEF ProgramInv, Issuing
<1> QED
  BY <1>3, <1>4, <1>5, <1>7, <1>8, <1>9, <1>10, <1>11, <1>12, <1>13, <1>14, CallFrame DEF Busy

(* The statements of a call that has been made. *)
Frame == UNCHANGED << cfg, where, held, practice, code, queue, batch, asked >>

LEMMA CallFrames ==
  ASSUME ProgramInv, SessionCall
  PROVE  /\ Frame /\ DriveStays /\ ex.at \in {"off", "handoff"} /\ where \in {"start", "handle", "cli"}
         /\ pc \notin {"idle", "closed", "dead"}
         /\ todo' = IF pc' \in {"idle", "closed"} /\ where # "cli" THEN Tail(todo) ELSE todo
         /\ todo \in Seq(Commands) /\ position \in 1..Last
         /\ Onward \/ Begins \/ Completes \/ Closes
<1>1. Underway0 /\ pc # "dead" /\ SessionInv  BY DEF ProgramInv, CallInv, Underway0
<1>2. CallStep  BY DEF SessionCall
<1>3. Onward \/ Begins \/ Completes \/ Closes  BY <1>1, <1>2, SessionMoves
<1>4. pc \notin {"idle", "closed"}
  BY <1>3 DEF Onward, Begins, Completes, Closes, Aborting, Finalizing
<1>5. Frame /\ DriveStays  BY DEF SessionCall, Frame, DriveStays, keyboard, drive
<1>6. todo \in Seq(Commands) /\ position \in 1..Last
  BY DEF ProgramInv, FlowTypes, SessionInv, TypeOK
<1> QED  BY <1>1, <1>3, <1>4, <1>5, <1>6 DEF SessionCall

\* A list that a call in the last stage runs for is routine.
LEMMA LastRoutine ==
  ASSUME ScriptInv, ex.at = "off", todo # << >>, todo[1] = "advance", Standing \in {12, 13}
  PROVE  RoutineList(todo)
<1>1. todo \notin ClosingLists  BY ClosingFacts DEF Closings
<1>2. todo # StartScript  BY DEF StartScript
<1>3. ~Starting(todo, Standing)  BY DEF Starting
<1>4. ~DriveAt(todo, 1)  BY DEF DriveAt
<1>5. \A i \in 2..4 : ~Approach(todo, i, Standing)  BY DEF Approach
<1> QED  BY <1>1, <1>2, <1>3, <1>4, <1>5 DEF ScriptInv

LEMMA ClosingTails ==
  ASSUME todo \in ClosingLists, todo[1] \in {"abort", "collide"}
  PROVE  /\ Tail(todo) # << >> /\ Tail(todo)[1] \in Closings
         /\ todo # << "stop" >>
         /\ Tail(todo) = << "stop" >> \/ Tail(todo) = << "raiseP8" >>
              \/ Tail(todo) = << "raiseOther" >>
         /\ todo \in {<< "abort", "stop" >>, << "collide", "stop" >>} => Tail(todo) = << "stop" >>
<1>1. \/ todo = << "abort", "stop" >> \/ todo = << "collide", "stop" >>
      \/ todo = << "abort", "raiseP8" >> \/ todo = << "abort", "raiseOther" >>
  <2>1. /\ << "stop" >>[1] = "stop" /\ << "raiseP8" >>[1] = "raiseP8"
        /\ << "raiseOther" >>[1] = "raiseOther"
    OBVIOUS
  <2> QED  BY <2>1, Zenon DEF ClosingLists
<1>2. /\ Tail(<< "abort", "stop" >>) = << "stop" >> /\ Tail(<< "collide", "stop" >>) = << "stop" >>
      /\ Tail(<< "abort", "raiseP8" >>) = << "raiseP8" >>
      /\ Tail(<< "abort", "raiseOther" >>) = << "raiseOther" >>
  OBVIOUS
<1>3. \/ Tail(todo) = << "stop" >> \/ Tail(todo) = << "raiseP8" >>
      \/ Tail(todo) = << "raiseOther" >>
  BY <1>1, <1>2, Zenon
<1>4. Tail(todo) # << >> /\ Tail(todo)[1] \in Closings
  <2>1. /\ << "stop" >> # << >> /\ << "raiseP8" >> # << >> /\ << "raiseOther" >> # << >>
        /\ << "stop" >>[1] \in Closings /\ << "raiseP8" >>[1] \in Closings
        /\ << "raiseOther" >>[1] \in Closings
    BY DEF Closings
  <2> QED  BY <1>3, <2>1, Zenon
<1>5. todo # << "stop" >>  BY <1>1
<1>6. todo \in {<< "abort", "stop" >>, << "collide", "stop" >>} => Tail(todo) = << "stop" >>
  BY <1>2, Zenon
<1> QED  BY <1>3, <1>4, <1>5, <1>6

\* Where a call that closes the session can be.
LEMMA ClosingPlaces ==
  ASSUME ProgramInv, pc \in Aborting \cup Finalizing, where \in {"start", "handle", "cli"},
         ex.at \in {"off", "handoff"}
  PROVE  /\ ex.at = "off" /\ open = {}
         /\ \/ /\ where # "cli" /\ todo # << >> /\ todo[1] \in {"abort", "collide"}
               /\ todo \in ClosingLists /\ position < Last /\ practice = "none"
            \/ /\ where # "cli" /\ todo # << >> /\ todo[1] = "advance" /\ RoutineList(todo)
               /\ position = Last /\ ~held /\ ~DeadEnd /\ ~Spoiled /\ ~Stopped
               /\ practice = "none" /\ pc \in Finalizing
            \/ where = "cli" /\ todo = << >>
<1>1. \/ /\ Issuing /\ ex.at = "off" /\ todo # << >> /\ FirstCommand \in {"abort", "collide"}
         /\ position < Last
      \/ /\ Issuing /\ ex.at = "off" /\ todo # << >> /\ FirstCommand = "advance"
         /\ position = Last /\ pc \in Finalizing /\ ~held
      \/ where = "cli"
  BY DEF ProgramInv, CallInv, Inside
<1>2. ex.at = "off" /\ (where = "cli" => todo = << >>)  BY <1>1 DEF ProgramInv, CallInv, Issuing
<1>3. open = {}  BY <1>2 DEF ProgramInv, DriveInv
<1>4. todo \in Seq(Commands) /\ ScriptInv  BY DEF ProgramInv, FlowTypes
<1>5. CASE /\ Issuing /\ todo # << >> /\ FirstCommand \in {"abort", "collide"}
           /\ position < Last
  <2>1. todo \in ClosingLists  BY <1>4, <1>5, Heads DEF Closings, FirstCommand
  <2>2. practice = "none"  BY <1>5 DEF ProgramInv, PageInv, Issuing
  <2> QED  BY <1>2, <1>3, <1>5, <2>1, <2>2 DEF FirstCommand, Issuing
<1>6. CASE /\ Issuing /\ todo # << >> /\ FirstCommand = "advance"
           /\ position = Last /\ pc \in Finalizing /\ ~held
  <2>1. Standing = 13  BY <1>6 DEF Standing, Finalizing, Last
  <2>2. RoutineList(todo)  BY <1>2, <1>4, <1>6, <2>1, LastRoutine DEF FirstCommand
  <2>3. ~DeadEnd /\ ~Spoiled /\ ~Stopped /\ practice = "none"
    BY <1>6, Ordinary DEF FirstCommand, Closings
  <2> QED  BY <1>2, <1>3, <1>6, <2>2, <2>3 DEF FirstCommand, Issuing
<1> QED  BY <1>1, <1>2, <1>3, <1>5, <1>6

\* The statements of an abort and of the end of a session.
LEMMA ClosesKeep ==
  ASSUME ProgramInv, SessionCall, Closes, SessionInv', FinalInv'
  PROVE  ProgramInv'
<1>1. /\ Frame /\ DriveStays /\ where \in {"start", "handle", "cli"}
      /\ ex.at \in {"off", "handoff"} /\ todo \in Seq(Commands) /\ position \in 1..Last
      /\ todo' = IF pc' \in {"idle", "closed"} /\ where # "cli" THEN Tail(todo) ELSE todo
  BY CallFrames
<1>2. /\ pc \in Aborting \cup Finalizing
      /\ pc' \in (Aborting \cup Finalizing \cup {"closed"}) \ {"abort"}
      /\ pc \in Finalizing => pc' \notin Aborting
      /\ state' \in {state, "ABORTED"} /\ UNCHANGED << position, work >>
      /\ approval' \in {approval, "none"} /\ policy' \in {policy, "none"}
  BY DEF Closes
<1>3. UNCHANGED << cfg, where, held, practice, code, queue, batch, asked, runs, slots, ex, open >>
  BY <1>1 DEF Frame, DriveStays
<1>4. Executed' = Executed /\ Spoiled' = Spoiled /\ Stopped' = Stopped
  BY <1>3 DEF Executed, Spoiled, Stopped
<1>5. ex.at = "off" /\ open = {}  BY <1>1, <1>2, ClosingPlaces
<1>6. code # "0"  BY <1>1 DEF ProgramInv
<1>7. DriveInv'  BY <1>3, <1>5 DEF DriveInv, ProgramInv
<1>8. RunsInv'
  <2>1. policy' # "none" => policy # "none"  BY <1>2
  <2>2. pc \notin {"leave", "end", "begin"} /\ pc' \notin {"leave", "end", "begin"}
    BY <1>2 DEF Aborting, Finalizing
  <2> QED  BY <1>2, <1>3, <1>4, <2>1, <2>2 DEF RunsInv, ProgramInv, Ready, Driven
<1>9. pc \notin Busy \cup {"idle", "new", "init", "closed"} /\ pc \notin Underway
      /\ pc' \notin Busy \cup {"idle", "new", "init"} /\ pc' \notin Underway /\ pc' # "dead"
  BY <1>2 DEF Aborting, Finalizing, Busy, Underway
<1>10. Standing' = Standing /\ Standing \in Nat
  BY <1>1, <1>2 DEF Standing, Aborting, Finalizing, Last
<1>11. Stopped /\ where # "cli" => Quiet
  BY <1>1, <1>2, <1>9 DEF ProgramInv, StoppedInv, Quiet, Aborting, Finalizing, AfterClose
<1> HIDE DEF Quiet
<1>12. CASE todo' = todo /\ (pc' = "closed" => where = "cli")
  <2>1. FlowTypes'  BY <1>1, <1>2, <1>3, <1>12 DEF FlowTypes, ProgramInv
  <2>2. CallInv'
    <3>1. where # "cli" => pc \in Aborting \cup Finalizing /\ pc' \in Aborting \cup Finalizing
      BY <1>2, <1>12
    <3> QED
      BY <1>1, <1>2, <1>3, <1>5, <1>9, <1>12, <3>1 DEF CallInv, ProgramInv, Issuing, FirstCommand, Inside
  <2>3. ScriptInv'  BY <1>3, <1>5, <1>9, <1>10, <1>12 DEF ScriptInv, ProgramInv
  <2>4. PageInv'
    <3>1. todo \notin {<< "raiseP8" >>, << "stop" >>, << "raiseOther" >>}
      BY <1>1, <1>2, ClosingPlaces, SMTT(20)
    <3>2. where # "cli" => practice = "none"  BY <1>1, <1>2, ClosingPlaces
    <3> QED  BY <1>3, <1>12, <3>1, <3>2 DEF PageInv, ProgramInv
  <2>5. DeadEnd => DeadEnd'  BY <1>1, <1>2, <1>3, <1>12, ClosingPlaces DEF DeadEnd, FirstCommand
  <2>6. StaleInv'  BY <1>3, <1>5, <1>12, <2>5 DEF StaleInv, ProgramInv, FirstCommand
  <2>7. SpoiledInv'  BY <1>2, <1>3, <1>4, <1>5, <1>9, <2>5 DEF SpoiledInv, ProgramInv
  <2>8. StoppedInv'
    <3>1. SUFFICES ASSUME Stopped, where # "cli" PROVE StoppedInv'  BY <1>3, <1>4 DEF StoppedInv
    <3>2. verdict = "ENDED_AFTER_HAZARD_COLLISION" /\ todo = << "collide", "stop" >>
      BY <1>1, <1>9, <3>1 DEF StoppedInv, ProgramInv
    <3>3. Quiet' /\ verdict' = verdict  BY <1>11, <3>1, <3>2 DEF Closes
    <3>4. /\ ~errors' /\ ~lifecycle'
          /\ pc' \notin {"verdict", "closed"} \cup AfterClose => ~logClosed'
      BY <1>2, <3>3 DEF Quiet, Aborting, Finalizing, AfterClose
    <3>5. pc' \in Aborting \cup Finalizing  BY <1>2, <1>12, <3>1
    <3> QED  BY <1>12, <3>2, <3>3, <3>4, <3>5 DEF StoppedInv
  <2> QED  BY <1>3, <1>6, <1>7, <1>8, <2>1, <2>2, <2>3, <2>4, <2>6, <2>7, <2>8 DEF ProgramInv
<1>13. CASE todo' = Tail(todo) /\ pc' = "closed" /\ where # "cli"
  <2>1. todo # << >> /\ Tail(todo) \in Seq(Commands)
    <3>1. todo # << >>  BY <1>1, <1>2, <1>13, ClosingPlaces
    <3> QED  BY <1>1, <3>1, TailFacts
  <2>2. FlowTypes'  BY <1>1, <1>2, <1>3, <1>13, <2>1 DEF FlowTypes, ProgramInv
  <2>3. closed' /\ state' \in Terminal  BY <1>13 DEF SessionInv, PlaceInv, FinalInv, AfterClose
  <2>4. CallInv'
    BY <1>1, <1>3, <1>5, <1>9, <1>13 DEF CallInv, Issuing, Busy, Aborting, Finalizing, Underway
  <2>5. practice = "none"  BY <1>1, <1>2, <1>13, ClosingPlaces
  <2>6. CASE todo[1] \in {"abort", "collide"} /\ todo \in ClosingLists /\ position < Last
    <3>1. ScriptInv'
      <4>1. Tail(todo) \in ClosingLists  BY <2>6, ClosingTails, Zenon DEF ClosingLists
      <4> QED  BY <1>3, <1>5, <1>13, <4>1 DEF ScriptInv
    <3>2. state' = "ABORTED"
      <4>1. state' \in {Sequence[position], "ABORTED"} /\ Sequence[position] # "SESSION_COMPLETE"
        BY <1>1, <1>2, <2>6, SequenceFacts DEF ProgramInv, RunsInv
      <4> QED  BY <2>3, <4>1 DEF Terminal
    <3>3. PageInv'
      <4>1. held => Tail(todo) = << "stop" >>  BY <2>1, <2>6, ClosingTails DEF ProgramInv, PageInv
      <4> QED  BY <1>3, <1>13, <2>3, <2>5, <3>2, <4>1 DEF PageInv
    <3>4. DeadEnd'  BY <1>13, <2>6, ClosingTails DEF DeadEnd, FirstCommand
    <3>5. StaleInv'  BY <1>3, <1>5, <1>13, <2>6, <3>4 DEF StaleInv, ProgramInv, FirstCommand
    <3>6. SpoiledInv'  BY <1>2, <1>3, <1>4, <1>5, <1>9, <3>2, <3>4 DEF SpoiledInv, ProgramInv
    <3>7. StoppedInv'
      <4>1. SUFFICES ASSUME Stopped PROVE StoppedInv'  BY <1>4 DEF StoppedInv
      <4>2. verdict = "ENDED_AFTER_HAZARD_COLLISION" /\ todo = << "collide", "stop" >>
        BY <1>1, <1>9, <1>13, <4>1 DEF StoppedInv, ProgramInv
      <4>3. Quiet' /\ verdict' = verdict  BY <1>11, <1>13, <4>1, <4>2 DEF Closes
      <4>4. ~errors' /\ ~lifecycle'  BY <4>3 DEF Quiet
      <4>5. Tail(todo) = << "stop" >>  BY <2>6, <4>2, ClosingTails
      <4> QED  BY <1>13, <4>2, <4>3, <4>4, <4>5 DEF StoppedInv
    <3> QED  BY <1>3, <1>6, <1>7, <1>8, <2>2, <2>4, <3>1, <3>3, <3>5, <3>6, <3>7 DEF ProgramInv
  <2>7. CASE /\ todo[1] = "advance" /\ RoutineList(todo) /\ ~held /\ ~DeadEnd /\ ~Spoiled /\ ~Stopped
    <3>1. RoutineList(Tail(todo))  BY <1>1, <2>1, <2>7, TailOfRoutine
    <3>2. ScriptInv'  BY <1>3, <1>5, <1>13, <3>1 DEF ScriptInv
    <3>3. Tail(todo) # << >> => Tail(todo)[1] \in Routine  BY <2>1, <3>1, TailOfRoutine
    <3>4. PageInv'
      <4>1. Tail(todo) \notin {<< "raiseP8" >>, << "stop" >>, << "raiseOther" >>}
        <5>1. /\ << "raiseP8" >> # << >> /\ << "stop" >> # << >> /\ << "raiseOther" >> # << >>
              /\ << "raiseP8" >>[1] = "raiseP8" /\ << "stop" >>[1] = "stop"
              /\ << "raiseOther" >>[1] = "raiseOther"
          OBVIOUS
        <5> QED  BY <3>3, <5>1, Zenon DEF Routine
      <4> QED  BY <1>3, <1>13, <2>5, <2>7, <4>1 DEF PageInv
    <3>5. StaleInv'  BY <1>3, <1>5, <1>13, <2>1, <2>7 DEF StaleInv, ProgramInv, FirstCommand
    <3>6. SpoiledInv' /\ StoppedInv'  BY <1>4, <2>7 DEF SpoiledInv, StoppedInv
    <3> QED  BY <1>3, <1>6, <1>7, <1>8, <2>2, <2>4, <3>2, <3>4, <3>5, <3>6 DEF ProgramInv
  <2> QED  BY <1>1, <1>2, <1>13, <2>6, <2>7, ClosingPlaces
<1> QED  BY <1>1, <1>9, <1>12, <1>13

\* The construction of the session, for which the program waits with its first list.
LEMMA RegisterKeeps ==
  ASSUME ProgramInv, SessionCall, Onward, pc \in {"new", "init"}, SessionInv', FinalInv'
  PROVE  ProgramInv'
<1>1. /\ Frame /\ DriveStays /\ where \in {"start", "handle", "cli"}
      /\ todo \in Seq(Commands) /\ position \in 1..Last
      /\ todo' = IF pc' \in {"idle", "closed"} /\ where # "cli" THEN Tail(todo) ELSE todo
  BY CallFrames
<1>2. where = "start" /\ todo = StartScript /\ ~held  BY <1>1 DEF ProgramInv, CallInv, SessionCall
<1>3. todo # << >> /\ todo[1] = "register"  BY <1>2 DEF StartScript
<1>4. ex.at = "off" /\ Standing = 1  BY <1>1, <1>3, Heads DEF ProgramInv
<1>5. ~held /\ ~DeadEnd /\ ~Spoiled /\ ~Stopped /\ practice = "none" /\ code # "0"
  BY <1>2, <1>3, Ordinary DEF Issuing, Closings
<1>6. UNCHANGED << cfg, where, held, practice, code, queue, batch, asked, runs, slots, ex, open >>
  BY <1>1 DEF Frame, DriveStays
<1>7. Stopped' = Stopped  BY <1>6 DEF Stopped
<1>8. SameStage /\ ((pc = "new" /\ pc' = "init") \/ (pc = "init" /\ pc' = "idle"))  BY DEF Onward
<1>9. Standing' = 1  BY <1>4, <1>8 DEF Standing, SameStage
<1>10. ~logClosed /\ ~lifecycle /\ ~errors  BY <1>8 DEF ProgramInv, CallInv, Underway
<1>11. StartScript[1] = "register" /\ StartScript # << >>
       /\ Tail(StartScript) = << "advance", "policy", "advance", "train" >>
  BY DEF StartScript
<1>12. todo' \in {StartScript, << "advance", "policy", "advance", "train" >>}
       /\ todo' = (IF pc' = "idle" THEN << "advance", "policy", "advance", "train" >>
                   ELSE StartScript)
  BY <1>1, <1>2, <1>8, <1>11
<1>13. todo' # << >> /\ todo'[1] \in {"register", "advance"} /\ todo' \in Seq(Commands)
  <2>1. Tail(todo) \in Seq(Commands)  BY <1>1, <1>3, TailFacts
  <2>2. todo' \in Seq(Commands)  BY <1>1, <2>1
  <2>3. /\ << "advance", "policy", "advance", "train" >> # << >>
        /\ << "advance", "policy", "advance", "train" >>[1] = "advance"
    OBVIOUS
  <2> QED  BY <1>11, <1>12, <2>2, <2>3
<1>14. FlowTypes'  BY <1>6, <1>8, <1>13 DEF FlowTypes, ProgramInv, SameStage
<1>15. CallInv'
  BY <1>2, <1>4, <1>6, <1>8, <1>10, <1>12, <1>13 DEF CallInv, Issuing, Busy, Aborting, Finalizing,
                                                Underway, SameStage, ending
<1>16. ScriptInv'  BY <1>2, <1>4, <1>6, <1>8, <1>9, <1>12 DEF ScriptInv, Starting
<1>17. PageInv'
  <2>1. todo' \notin {<< "raiseP8" >>, << "stop" >>, << "raiseOther" >>}  BY <1>13
  <2> QED  BY <1>5, <1>6, <2>1 DEF PageInv
<1>18. StaleInv'  BY <1>2, <1>3, <1>4, <1>5, <1>6 DEF StaleInv, ProgramInv, FirstCommand
<1>19. StoppedInv'  BY <1>5, <1>7 DEF StoppedInv
<1> QED  BY <1>1, <1>4, <1>5, <1>6, <1>8, <1>14, <1>15, <1>16, <1>17, <1>18, <1>19, CallFrame

\* The end of the last transition goes on to close the session.
LEMMA CompleteKeeps ==
  ASSUME ProgramInv, SessionCall, Completes, SessionInv', FinalInv'
  PROVE  ProgramInv'
<1>1. /\ Frame /\ DriveStays /\ where \in {"start", "handle", "cli"}
      /\ todo \in Seq(Commands) /\ position \in 1..Last /\ ex.at \in {"off", "handoff"}
      /\ todo' = IF pc' \in {"idle", "closed"} /\ where # "cli" THEN Tail(todo) ELSE todo
  BY CallFrames
<1>2. pc = "complete" /\ pc' = "flush" /\ SameStage /\ todo' = todo  BY <1>1 DEF Completes
<1>3. Issuing /\ todo # << >> /\ todo[1] = "advance" /\ ~held
  BY <1>2 DEF ProgramInv, CallInv, Busy, FirstCommand
<1>4. position = 13 /\ Standing = 12  BY <1>2 DEF ProgramInv, SessionInv, PlaceInv, Standing, Last
<1>5. ex.at = "off"
  <2>1. ex.at = "handoff" => Standing \in {10, 11}  BY InHandoff
  <2> QED  BY <1>1, <1>4, <2>1
<1>6. RoutineList(todo)  BY <1>3, <1>4, <1>5, LastRoutine DEF ProgramInv
<1>7. ~held /\ ~DeadEnd /\ ~Spoiled /\ ~Stopped /\ practice = "none" /\ code # "0"
  BY <1>3, Ordinary DEF Closings
<1>8. UNCHANGED << cfg, where, held, practice, code, queue, batch, asked, runs, slots, ex, open >>
  BY <1>1 DEF Frame, DriveStays
<1>9. Stopped' = Stopped  BY <1>8 DEF Stopped
<1>10. FlowTypes'  BY <1>2, <1>8 DEF FlowTypes, ProgramInv, SameStage
<1>11. CallInv'
  BY <1>2, <1>3, <1>4, <1>5, <1>7, <1>8 DEF CallInv, Issuing, FirstCommand, Busy, Aborting,
                                        Finalizing, Underway, SameStage, Last
<1>12. ScriptInv'  BY <1>2, <1>5, <1>6, <1>8 DEF ScriptInv
<1>13. PageInv'
  <2>1. todo \notin {<< "raiseP8" >>, << "stop" >>, << "raiseOther" >>}  BY <1>3
  <2> QED  BY <1>2, <1>7, <1>8, <2>1 DEF PageInv
<1>14. StaleInv'  BY <1>2, <1>3, <1>5, <1>7, <1>8 DEF StaleInv, ProgramInv, FirstCommand, Issuing
<1>15. StoppedInv'  BY <1>7, <1>9 DEF StoppedInv
<1> QED  BY <1>1, <1>2, <1>5, <1>7, <1>8, <1>10, <1>11, <1>12, <1>13, <1>14, <1>15, CallFrame

\* The statements of a transition: the session goes on within the stage or to the next one.
LEMMA TransitionKeeps ==
  ASSUME ProgramInv, SessionCall, (Onward /\ pc \in Busy) \/ Begins, SessionInv', FinalInv'
  PROVE  ProgramInv'
<1>1. /\ Frame /\ DriveStays /\ where \in {"start", "handle", "cli"}
      /\ todo \in Seq(Commands) /\ position \in 1..Last /\ ex.at \in {"off", "handoff"}
      /\ todo' = IF pc' \in {"idle", "closed"} /\ where # "cli" THEN Tail(todo) ELSE todo
  BY CallFrames
<1>2. /\ pc \in Busy /\ pc' \in Busy \cup {"idle"} /\ UNCHANGED << work, ending >>
      /\ approval' \in {approval, "none"}
      /\ (policy' = policy /\ state' = state /\ position' = position) \/ policy' = "none"
      /\ position' \in 1..Last
      /\ pc' \in {"leave", "end", "begin"} => pc \in {"leave", "end", "begin"}
      /\ pc' = "idle" => pc = "persist" /\ position' = position
      /\ pc \in {"leave", "end"} => pc' \in {"leave", "end", "begin"} /\ position' = position
      /\ pc = "begin" => pc' = "enter" /\ position' = position + 1
      /\ pc \notin {"leave", "end", "begin"} =>
           pc' \notin {"leave", "end", "begin"} /\ position' = position
  <2>1. CASE Onward /\ pc \in Busy  BY <1>1, <2>1 DEF Onward, SameStage, Busy
  <2>2. CASE Begins  BY <1>1, <2>2 DEF Begins, Busy, Last
  <2> QED  BY <2>1, <2>2
<1>3. Issuing /\ todo # << >> /\ todo[1] = "advance" /\ ~held /\ where # "cli" /\ ex \in Executors
  BY <1>2 DEF ProgramInv, CallInv, FirstCommand, Issuing, FlowTypes
<1>4. ~held /\ ~DeadEnd /\ ~Spoiled /\ ~Stopped /\ practice = "none" /\ code # "0"
  BY <1>3, Ordinary DEF Closings
<1>5. UNCHANGED << cfg, where, held, practice, code, queue, batch, asked, runs, slots, ex, open >>
  BY <1>1 DEF Frame, DriveStays
<1>6. Executed' = Executed /\ Spoiled' = Spoiled /\ Stopped' = Stopped
  BY <1>5 DEF Executed, Spoiled, Stopped
<1>7. /\ Standing \in Nat
      /\ pc' # "idle" => Standing' = Standing
      /\ pc' = "idle" => Standing' = Standing + 1 /\ Standing' = position'
  <2>1. position \in Nat /\ position >= 1  BY <1>1 DEF Last
  <2>2. CASE pc \in {"leave", "end"}  BY <1>2, <2>1, <2>2 DEF Standing
  <2>3. CASE pc = "begin"  BY <1>2, <2>1, <2>3 DEF Standing
  <2>4. CASE pc \in {"enter", "activate", "persist", "complete"}
    <3>1. pc' \in {"enter", "activate", "persist", "complete", "idle"} /\ position' = position
      BY <1>2, <2>4 DEF Busy
    <3> QED  BY <2>1, <2>4, <3>1 DEF Standing
  <2> QED  BY <1>2, <2>2, <2>3, <2>4 DEF Busy
<1>8. Tail(todo) \in Seq(Commands) /\ todo' \in {todo, Tail(todo)} /\ todo' \in Seq(Commands)
      /\ todo' = (IF pc' = "idle" THEN Tail(todo) ELSE todo)
  <2>1. Tail(todo) \in Seq(Commands)  BY <1>1, <1>3, TailFacts
  <2> QED  BY <1>1, <1>2, <1>3, <2>1 DEF Busy
<1>9. ScriptInv'
  <2>1. CASE pc' = "idle"
    <3>1. pc \notin {"new", "init"} /\ ScriptInv  BY <1>2 DEF Busy, ProgramInv
    <3> QED  BY <1>1, <1>3, <1>5, <1>7, <1>8, <2>1, <3>1, Pops
  <2>2. CASE pc' # "idle"  BY <1>2, <1>5, <1>7, <1>8, <2>2 DEF ScriptInv, ProgramInv, Busy
  <2> QED  BY <2>1, <2>2
<1>10. todo' = << >> => ex'.at = "off"
  <2>1. ASSUME todo' = << >>, ex'.at = "handoff" PROVE FALSE
    <3>1. \E i \in 2..5 : HandsOver(todo', i, Standing')  BY <1>9, <2>1 DEF ScriptInv
    <3>2. \E i \in 2..5 : i < Len(todo')  BY <3>1 DEF HandsOver, DriveAt
    <3> QED  BY <2>1, <3>2
  <2> QED  BY <1>1, <1>5, <2>1
<1>11. todo' # << >> => todo'[1] \notin Closings
  <2>1. Tail(todo) # << >> => Tail(todo)[1] \notin Closings
    BY <1>1, <1>3, <1>7, NoClosing DEF ProgramInv, Closings
  <2> QED  BY <1>3, <1>8, <2>1 DEF Closings
<1>12. FlowTypes'  BY <1>2, <1>5, <1>8 DEF FlowTypes, ProgramInv
<1>13. CallInv'
  <2>1. ~logClosed /\ ~lifecycle /\ ~errors /\ ~Inside  BY <1>2 DEF ProgramInv, CallInv, Underway
  <2> QED
    BY <1>2, <1>3, <1>5, <1>8, <1>10, <2>1 DEF CallInv, Issuing, Inside, FirstCommand, Busy,
                                        Aborting, Finalizing, Underway, ending
<1>14. PageInv'
  <2>1. todo' \notin {<< "raiseP8" >>, << "stop" >>, << "raiseOther" >>}
    <3>1. /\ << "raiseP8" >> # << >> /\ << "stop" >> # << >> /\ << "raiseOther" >> # << >>
          /\ << "raiseP8" >>[1] = "raiseP8" /\ << "stop" >>[1] = "stop"
          /\ << "raiseOther" >>[1] = "raiseOther"
      OBVIOUS
    <3> QED  BY <1>11, <3>1, Zenon DEF Closings
  <2> QED  BY <1>4, <1>5, <2>1 DEF PageInv
<1>15. DriveInv'
  <2>1. CASE ex.at = "off"  BY <1>5, <2>1 DEF DriveInv, ProgramInv
  <2>2. CASE ex.at = "handoff"
    <3>1. pc' = "idle" => state' = "FINAL_HAZARD"
      <4>1. SUFFICES ASSUME pc' = "idle" PROVE state' = "FINAL_HAZARD"  OBVIOUS
      <4>2. Standing \in {10, 11} /\ (\E i \in 2..5 : HandsOver(todo, i, Standing))
        BY <2>2, InHandoff DEF ProgramInv, ScriptInv
      <4>3. Standing = 10
        <5>1. PICK i \in 2..5 : HandsOver(todo, i, Standing)  BY <4>2
        <5>2. todo[1] = Handoff[6 - i] /\ Standing = (IF i > 3 THEN 10 ELSE 11)
          BY <1>1, <1>7, <5>1, TailOfHandoff
        <5>3. i # 2 /\ i # 3  BY <1>3, <5>2 DEF Handoff
        <5> QED  BY <5>2, <5>3
      <4>4. position' = 11  BY <1>7, <4>1, <4>3
      <4>5. state' = Sequence[position']  BY <4>1 DEF SessionInv, PlaceInv, Underway
      <4> QED  BY <4>4, <4>5 DEF Sequence
    <3>2. state' # "SESSION_COMPLETE"
      <4>1. Standing' \in {10, 11}
        <5>1. PICK i \in 2..5 : HandsOver(todo', i, Standing')  BY <1>5, <1>9, <2>2 DEF ScriptInv
        <5> QED  BY <5>1 DEF HandsOver
      <4>2. position' \in {10, 11, 12}  BY <1>2, <4>1 DEF Standing, Last
      <4>3. state' = Sequence[position']  BY <1>2 DEF SessionInv, PlaceInv, Underway
      <4> QED  BY <4>2, <4>3 DEF Sequence
    <3>3. pc \in {"idle"} \cup Busy /\ pc' # "abort" /\ ~Early(ex) /\ ~Inside
      BY <1>2, <2>2 DEF Busy, Early, Inside
    <3> QED
      BY <1>2, <1>5, <1>6, <2>2, <3>1, <3>2, <3>3 DEF DriveInv, ProgramInv, Inside, ending, Early
  <2> QED  BY <1>1, <2>1, <2>2
<1>16. StaleInv'
  <2>1. ex.at # "off" \/ ~(\E i \in 1..Len(queue) : queue[i] = "stale")
    BY <1>3, <1>4 DEF StaleInv, ProgramInv, FirstCommand, Issuing
  <2> QED  BY <1>5, <2>1 DEF StaleInv
<1>17. RunsInv'
  <2>1. state' \in {Sequence[position'], "ABORTED"}
    BY <1>2 DEF SessionInv, PlaceInv, Underway, Busy
  <2>2. Ready(IF pc' \in {"leave", "end", "begin"} THEN position' ELSE position' - 1)
    <3>1. CASE pc = "begin"
      <4>1. Ready(position) /\ position' - 1 = position /\ pc' = "enter"
        BY <1>1, <1>2, <3>1 DEF ProgramInv, RunsInv, Last
      <4> QED  BY <4>1
    <3>2. CASE pc # "begin"  BY <1>2, <3>2 DEF ProgramInv, RunsInv
    <3> QED  BY <3>1, <3>2
  <2> QED  BY <1>2, <1>5, <1>6, <2>1, <2>2 DEF RunsInv, ProgramInv, Ready, Driven
<1>18. SpoiledInv' /\ StoppedInv'  BY <1>4, <1>6 DEF SpoiledInv, StoppedInv
<1> QED  BY <1>4, <1>5, <1>9, <1>12, <1>13, <1>14, <1>15, <1>16, <1>17, <1>18 DEF ProgramInv

LEMMA SessionCallKeeps ==
  ASSUME ProgramInv, SessionCall, SessionInv', FinalInv'
  PROVE  ProgramInv'
<1>1. Onward => pc \in {"new", "init"} \cup Busy  BY DEF Onward, Busy
<1> QED  BY <1>1, CallFrames, RegisterKeeps, CompleteKeeps, TransitionKeeps, ClosesKeep

(* A drive begins, hands over, and is stored or given up. *)
LEMMA ExecuteKeeps ==
  ASSUME ProgramInv, Execute, SessionInv', FinalInv'
  PROVE  ProgramInv'
<1>1. /\ Issuing /\ todo # << >> /\ todo[1] = "execute" /\ pc = "idle" /\ ex.at = "off"
      /\ todo \in Seq(Commands) /\ position \in 1..Last /\ Standing = position
  BY Issued DEF Execute, Driving
<1>2. DriveAt(todo, 1) /\ position \in {3, 6, 10}  BY <1>1, Heads DEF ProgramInv
<1>3. UNCHANGED << vars, cfg, queue, batch, asked, runs, slots, open >>
  BY DEF Execute, Drives, keyboard
<1>4. CASE Raise("P8") /\ UNCHANGED ex
  <2>1. SessionStays /\ DriveStays
    BY <1>3, <1>4 DEF SessionStays, DriveStays, vars, place, entry, ending
  <2> QED  BY <1>1, <1>3, <1>4, <2>1, RaiseKeeps DEF Errors
<1>5. CASE /\ state \notin Executed /\ StillTodo
           /\ ex' = [NoDrive EXCEPT !.at = "build", !.stage = state]
  <2>1. state = Sequence[position] /\ state \in {"TRAINING", "MODULE_1_RUNNING", "MODULE_2_RUNNING"}
    <3>1. state = Sequence[position]  BY <1>1 DEF ProgramInv, SessionInv, PlaceInv, Underway
    <3> QED  BY <1>2, <3>1 DEF Sequence
  <2>2. ~held /\ ~DeadEnd /\ ~Spoiled /\ ~Stopped /\ practice = "none" /\ code # "0"
    BY <1>1, Ordinary DEF Closings
  <2>3. UNCHANGED << where, todo, held, practice, code >>  BY <1>5 DEF StillTodo, window
  <2>4. /\ ex'.at = "build" /\ ex'.stage = state /\ ex'.first = "none" /\ ex'.outcome = "none"
        /\ ex' \in Executors
    <3>1. state \in Stages  BY DEF ProgramInv, SessionInv, TypeOK
    <3> QED  BY <1>5, <3>1 DEF NoDrive, Executors, Points
  <2>5. SessionStays  BY <1>3 DEF SessionStays, vars, place, entry, ending
  <2>6. Executed' = Executed /\ Spoiled' = Spoiled /\ Stopped' = Stopped
    BY <1>3 DEF Executed, Spoiled, Stopped
  <2>7. open = {} /\ ~logClosed  BY <1>1 DEF ProgramInv, DriveInv, CallInv, Underway
  <2>8. FlowTypes'  BY <1>3, <2>3, <2>4, <2>5 DEF FlowTypes, ProgramInv, SessionStays
  <2>9. CallInv'
    BY <1>1, <2>3, <2>4, <2>5 DEF CallInv, ProgramInv, Issuing, Busy, Aborting, Finalizing, SessionStays
  <2>10. ScriptInv'  BY <1>2, <2>3, <2>4 DEF ScriptInv
  <2>11. PageInv'
    <3>1. todo \notin {<< "raiseP8" >>, << "stop" >>, << "raiseOther" >>}  BY <1>1
    <3> QED  BY <2>2, <2>3, <3>1 DEF PageInv
  <2>12. DriveInv'
    BY <1>1, <1>3, <1>5, <2>1, <2>2, <2>3, <2>4, <2>5, <2>6, <2>7 DEF DriveInv, SessionStays
  <2>13. StaleInv'  BY <2>4 DEF StaleInv
  <2>14. RunsInv'
    BY <1>1, <1>3, <2>4, <2>5, <2>6 DEF RunsInv, ProgramInv, Ready, Driven, SessionStays
  <2>15. SpoiledInv' /\ StoppedInv'  BY <2>2, <2>6 DEF SpoiledInv, StoppedInv
  <2> QED  BY <2>2, <2>3, <2>8, <2>9, <2>10, <2>11, <2>12, <2>13, <2>14, <2>15 DEF ProgramInv
<1> QED  BY <1>4, <1>5 DEF Execute

\* The nominal second module hands over to the final hazard.
LEMMA HandOverKeeps ==
  ASSUME ProgramInv, DriveEnds, Move("handoff"), SessionInv', FinalInv'
  PROVE  ProgramInv'
<1>1. ex \in Executors /\ todo \in Seq(Commands) /\ position \in 1..Last
  BY DEF ProgramInv, FlowTypes, SessionInv, TypeOK
<1>2. ex' = [ex EXCEPT !.at = "handoff"] /\ ex.at = "drive"  BY DEF Move, DriveEnds, Driving
<1>3. ex'.at = "handoff" /\ ex'.stage = ex.stage /\ ex'.first = ex.first /\ ex'.outcome = ex.outcome
      /\ ex' \in Executors
  <2>1. ex' \in Executors  BY <1>1, StepTypes DEF Steps, Points
  <2> QED  BY <1>1, <1>2, <2>1 DEF Executors
<1>4. /\ HandsOff(ex.stage) /\ todo' = Handoff \o todo
      /\ UNCHANGED << vars, cfg, where, held, practice, code, queue, batch, asked, runs, slots, open >>
  <2>1. ex' # [ex EXCEPT !.at = "stopgaze", !.outcome = "TIME_LIMIT_REACHED"]
        /\ ex' # [ex EXCEPT !.at = "stopgaze", !.outcome = "USER_ABORT"]
    BY <1>1, <1>3 DEF Executors
  <2>2. ~Breaks("stopgaze", Errors)  BY <1>1, <1>3 DEF Breaks, Failed, Executors
  <2> QED  BY <2>1, <2>2 DEF DriveEnds, Drives, keyboard
<1>5. ex.stage = "MODULE_2_RUNNING"  BY <1>4 DEF HandsOff
<1>6. /\ pc = "idle" /\ state = "MODULE_2_RUNNING" /\ ex.first = "none" /\ ex.outcome = "none"
      /\ ~held /\ practice = "none"
  BY <1>2, <1>5 DEF ProgramInv, DriveInv, Inside, Early
<1>7. position = 10
  <2>1. state = Sequence[position]  BY <1>6 DEF ProgramInv, SessionInv, PlaceInv, Underway
  <2> QED  BY <1>1, <1>6, <2>1 DEF Sequence, Last
<1>8. DriveAt(todo, 1)  BY <1>2 DEF ProgramInv, ScriptInv
<1>9. todo' \in Seq(Commands) /\ HandsOver(todo', 5, 10)  BY <1>1, <1>4, <1>8, HandoffFacts
<1>10. todo' # << >> /\ todo'[1] = "policy"
  <2>1. 1 \in 1 .. 5 - 1 /\ 1 + 5 - 5 = 1 /\ Handoff[1] = "policy"  BY DEF Handoff
  <2> QED  BY <1>9, <2>1 DEF HandsOver, DriveAt
<1>11. SessionStays  BY <1>4 DEF SessionStays, vars, place, entry, ending
<1>12. Executed' = Executed /\ Spoiled' = Spoiled /\ Stopped' = Stopped
  BY <1>4 DEF Executed, Spoiled, Stopped
<1>13. ~Spoiled /\ ~Stopped /\ Issuing /\ code # "0"
  <2>1. ~Spoiled /\ Issuing  BY <1>2 DEF ProgramInv, SpoiledInv, CallInv
  <2> QED  BY <2>1 DEF Stopped, Spoiled, Issuing, ProgramInv
<1>14. FlowTypes'  BY <1>3, <1>4, <1>9, <1>11 DEF FlowTypes, ProgramInv, SessionStays
<1>15. CallInv'
  BY <1>2, <1>4, <1>6, <1>10, <1>11, <1>13 DEF CallInv, ProgramInv, Issuing, Busy, Aborting,
                                              Finalizing, SessionStays
<1>16. ScriptInv'
  <2>1. Standing' = 10  BY <1>6, <1>7, <1>11 DEF Standing, SessionStays
  <2>2. 5 \in 2..5  OBVIOUS
  <2> QED  BY <1>3, <1>9, <2>1, <2>2 DEF ScriptInv
<1>17. PageInv'
  <2>1. todo' \notin {<< "raiseP8" >>, << "stop" >>, << "raiseOther" >>}
    <3>1. /\ << "raiseP8" >>[1] = "raiseP8" /\ << "stop" >>[1] = "stop"
          /\ << "raiseOther" >>[1] = "raiseOther"
      OBVIOUS
    <3> QED  BY <1>10, <3>1, Zenon
  <2> QED  BY <1>4, <1>6, <2>1 DEF PageInv
<1>18. DriveInv'
  BY <1>2, <1>3, <1>4, <1>5, <1>6, <1>11, <1>12 DEF DriveInv, ProgramInv, Inside, Early, SessionStays
<1>19. StaleInv'  BY <1>3 DEF StaleInv
<1>20. RunsInv'
  BY <1>2, <1>3, <1>4, <1>6, <1>11, <1>12 DEF RunsInv, ProgramInv, Ready, Driven, SessionStays
<1>21. SpoiledInv' /\ StoppedInv'  BY <1>12, <1>13 DEF SpoiledInv, StoppedInv
<1> QED  BY <1>4, <1>13, <1>14, <1>15, <1>16, <1>17, <1>18, <1>19, <1>20, <1>21 DEF ProgramInv

\* A drive is the next one in the order of the driving stages.
LEMMA NextRun ==
  ASSUME ProgramInv, Inside, pc = "idle"
  PROVE  Len(runs) \in 0..2 /\ ex.stage = DrivingStages[Len(runs) + 1]
<1>1. /\ runs \in Seq(Runs) /\ Len(runs) <= 3 /\ Len(runs) \in Nat
      /\ \A i \in 1..Len(runs) : runs[i].stage = DrivingStages[i]
  BY DEF ProgramInv, FlowTypes, RunsInv
<1>2. /\ ex.stage \in {"TRAINING", "MODULE_1_RUNNING", "MODULE_2_RUNNING"}
      /\ ex.stage \notin Executed
      /\ state = ex.stage \/ (ex.stage = "MODULE_2_RUNNING" /\ state = "FINAL_HAZARD")
  BY DEF ProgramInv, DriveInv, Inside
<1>3. state = Sequence[position] /\ position \in 1..Last /\ Ready(position - 1)
  BY DEF ProgramInv, SessionInv, TypeOK, PlaceInv, Underway, RunsInv
<1>4. /\ DrivingStages[1] = "TRAINING" /\ DrivingStages[2] = "MODULE_1_RUNNING"
      /\ DrivingStages[3] = "MODULE_2_RUNNING"
  BY DEF DrivingStages
<1>5. \A i \in 1..Len(runs) : runs[i].stage \in Executed  BY DEF Executed
<1>6. Len(runs) = 0 \/ Len(runs) = 1 \/ Len(runs) = 2 \/ Len(runs) = 3
  <2>1. \A n \in Nat : n <= 3 => n = 0 \/ n = 1 \/ n = 2 \/ n = 3  OBVIOUS
  <2> QED  BY <1>1, <2>1
<1>7. "MODULE_1_RUNNING" \in Executed => Len(runs) >= 2  BY <1>1, <1>4, <1>6 DEF Executed
<1>8. "TRAINING" \in Executed => Len(runs) >= 1  BY <1>1, <1>6 DEF Executed
<1>9. CASE ex.stage = "TRAINING"  BY <1>1, <1>2, <1>4, <1>5, <1>6, <1>9
<1>10. CASE ex.stage = "MODULE_1_RUNNING"
  <2>1. position = 6  BY <1>2, <1>3, <1>10 DEF Sequence, Last
  <2>2. "TRAINING" \in Executed  BY <1>3, <2>1 DEF Ready
  <2>3. Len(runs) >= 2 => "MODULE_1_RUNNING" \in Executed
    <3>1. Len(runs) >= 2 => 2 \in 1..Len(runs)  BY <1>1
    <3> QED  BY <1>1, <1>4, <1>5, <3>1
  <2>4. Len(runs) = 1  BY <1>2, <1>6, <1>8, <1>10, <2>2, <2>3
  <2> QED  BY <1>4, <1>10, <2>4
<1>11. CASE ex.stage = "MODULE_2_RUNNING"
  <2>1. position \in {10, 11}  BY <1>2, <1>3, <1>11 DEF Sequence, Last
  <2>2. "MODULE_1_RUNNING" \in Executed  BY <1>3, <2>1 DEF Ready
  <2>3. Len(runs) = 3 => "MODULE_2_RUNNING" \in Executed
    <3>1. Len(runs) = 3 => 3 \in 1..Len(runs)  OBVIOUS
    <3> QED  BY <1>1, <1>4, <1>5, <3>1
  <2>4. Len(runs) # 3  BY <1>2, <1>11, <2>3
  <2>5. Len(runs) >= 2  BY <1>7, <2>2
  <2>6. Len(runs) = 2
    <3>1. \A n \in Nat : n <= 3 /\ n # 3 /\ n >= 2 => n = 2  OBVIOUS
    <3> QED  BY <1>1, <2>4, <2>5, <3>1
  <2> QED  BY <1>4, <1>11, <2>6
<1> QED  BY <1>2, <1>9, <1>10, <1>11

LEMMA AppendRun ==
  ASSUME ProgramInv, Inside, pc = "idle", NEW r \in Runs, r.stage = ex.stage,
         runs' = Append(runs, r)
  PROVE  /\ runs' \in Seq(Runs) /\ Len(runs) \in Nat /\ Len(runs') = Len(runs) + 1
         /\ Len(runs') <= 3
         /\ \A i \in 1..Len(runs') : runs'[i].stage = DrivingStages[i]
         /\ \A i \in 1..Len(runs) : runs'[i] = runs[i]
         /\ runs'[Len(runs) + 1] = r
         /\ Executed' = Executed \cup {ex.stage}
<1>1. /\ runs \in Seq(Runs) /\ Len(runs) \in Nat
      /\ \A i \in 1..Len(runs) : runs[i].stage = DrivingStages[i]
  BY DEF ProgramInv, FlowTypes, RunsInv
<1>2. Len(runs) \in 0..2 /\ ex.stage = DrivingStages[Len(runs) + 1]  BY NextRun
<1>3. /\ runs' \in Seq(Runs) /\ Len(runs') = Len(runs) + 1
      /\ \A i \in 1..Len(runs) : runs'[i] = runs[i]
      /\ runs'[Len(runs) + 1] = r
  BY <1>1
<1>4. \A i \in 1..Len(runs') : i \in 1..Len(runs) \/ i = Len(runs) + 1  BY <1>1, <1>3
<1>5. \A i \in 1..Len(runs') : runs'[i].stage = DrivingStages[i]  BY <1>1, <1>2, <1>3, <1>4
<1>6. Executed' = Executed \cup {ex.stage}
  <2>1. \A i \in 1..Len(runs) : i \in 1..Len(runs')  BY <1>1, <1>3
  <2>2. Len(runs) + 1 \in 1..Len(runs')  BY <1>1, <1>3
  <2> QED  BY <1>3, <1>4, <2>1, <2>2 DEF Executed
<1> QED  BY <1>1, <1>2, <1>3, <1>5, <1>6

LEMMA WorksMoves ==
  ASSUME Works
  PROVE  /\ UNCHANGED << pc, state, position, approval, policy, verdict, ending >>
         /\ work' \in {work, work \cup {ex.stage}}
<1>1. CASE state = ex.stage  BY <1>1, WorkMoves DEF Works
<1>2. CASE state # ex.stage  BY <1>2 DEF Works, NoSession, vars, place, entry
<1> QED  BY <1>1, <1>2

\* A drive that is over has its stage among the slots, and its run among the runs when it
\* is stored.
LEMMA OverRuns ==
  ASSUME ProgramInv, Inside, ex' = NoDrive, slots' = slots \cup {ex.stage},
         UNCHANGED << pc, state, position, approval, policy >>,
         \/ runs' = runs /\ work' = work
         \/ /\ pc = "idle" /\ work' \in {work, work \cup {ex.stage}}
            /\ \E r \in Runs : r.stage = ex.stage /\ runs' = Append(runs, r)
  PROVE  /\ RunsInv' /\ runs' \in Seq(Runs) /\ slots' \subseteq Stages
         /\ Executed' \in {Executed, Executed \cup {ex.stage}}
<1>1. runs \in Seq(Runs) /\ slots \subseteq Stages /\ ex.stage \in Stages
  BY DEF ProgramInv, FlowTypes, DriveInv, Inside, Stages, Ordered, Sequence, Last
<1>2. slots' \subseteq Stages  BY <1>1
<1>3. /\ runs' \in Seq(Runs) /\ Len(runs') <= 3
      /\ \A i \in 1..Len(runs') : runs'[i].stage = DrivingStages[i]
      /\ \/ Executed' = Executed /\ work' = work
         \/ Executed' = Executed \cup {ex.stage} /\ work' \subseteq work \cup {ex.stage}
  <2>1. CASE runs' = runs /\ work' = work  BY <1>1, <2>1 DEF Executed, ProgramInv, RunsInv
  <2>2. CASE /\ pc = "idle" /\ work' \in {work, work \cup {ex.stage}}
             /\ \E r \in Runs : r.stage = ex.stage /\ runs' = Append(runs, r)
    <3>1. PICK r \in Runs : r.stage = ex.stage /\ runs' = Append(runs, r)  BY <2>2
    <3>2. /\ runs' \in Seq(Runs) /\ Len(runs') <= 3
          /\ \A i \in 1..Len(runs') : runs'[i].stage = DrivingStages[i]
          /\ Executed' = Executed \cup {ex.stage}
      BY <2>2, <3>1, AppendRun
    <3>3. work' \subseteq work \cup {ex.stage}  BY <2>2
    <3> QED  BY <3>2, <3>3
  <2> QED  BY <2>1, <2>2, Zenon
<1>4. \A stage : Driven(stage) => Driven(stage)'  BY <1>3 DEF Driven, Inside
<1>5. \A n : Ready(n) => Ready(n)'  BY <1>3, <1>4 DEF Ready
<1>6. RunsInv'  BY <1>3, <1>4, <1>5 DEF RunsInv, ProgramInv
<1> QED  BY <1>2, <1>3, <1>6

\* What is left to show of the end of a drive.
LEMMA OverFrame ==
  ASSUME ProgramInv, Inside, ex.at \in {"store", "fail"}, ex' = NoDrive, open' = open,
         UNCHANGED << cfg, queue, batch, asked, held, practice, state, position, policy, approval,
                      ending, pc >>,
         RunsInv', runs' \in Seq(Runs), slots' \subseteq Stages, todo' \in Seq(Commands),
         where' \in {"start", "handle", "hold", "cli"}, code' # "0", CallInv', ScriptInv',
         todo' \notin {<< "raiseP8" >>, << "stop" >>, << "raiseOther" >>},
         StaleInv', Spoiled' => DeadEnd', StoppedInv', SessionInv', FinalInv'
  PROVE  ProgramInv'
<1>1. /\ ~held /\ practice = "none" /\ state # "SESSION_COMPLETE" /\ pc \in {"idle", "abort"}
      /\ open = {}
  BY DEF ProgramInv, DriveInv, Inside
<1>2. NoDrive \in Executors /\ NoDrive.at = "off"  BY DEF NoDrive, Executors, Points
<1>3. FlowTypes'  BY <1>2 DEF FlowTypes, ProgramInv
<1>4. PageInv'  BY <1>1 DEF PageInv
<1>5. DriveInv'  BY <1>1, <1>2 DEF DriveInv
<1>6. SpoiledInv'  BY <1>1, <1>2 DEF SpoiledInv, Busy
<1> QED  BY <1>3, <1>4, <1>5, <1>6 DEF ProgramInv

\* The drive is stored and the handler goes on.
LEMMA GoesOn ==
  ASSUME ProgramInv, Inside, ex.at \in {"store", "fail"}, ex' = NoDrive, open' = open,
         UNCHANGED << cfg, queue, batch, asked, held, practice, state, position, policy, approval,
                      ending, pc, where, code >>,
         RunsInv', runs' \in Seq(Runs), slots' \subseteq Stages, pc = "idle",
         todo' = Tail(todo), ~Spoiled', SessionInv', FinalInv'
  PROVE  ProgramInv'
<1>1. DriveAt(todo, 1) /\ todo \in Seq(Commands) /\ Issuing /\ code # "0"
  BY DEF ProgramInv, ScriptInv, FlowTypes, CallInv, Inside, Issuing
<1>2. /\ Tail(todo) \in Seq(Commands) /\ Tail(todo) # << >> /\ RoutineList(Tail(todo))
      /\ Tail(todo)[1] \in {"show", "restore"}
  <2>1. 1 \in 1..5  OBVIOUS
  <2>2. RoutineList(Tail(todo)) /\ Tail(todo)[1] \in {"show", "restore"} /\ todo # << >>
    BY <1>1, <2>1, TailOfDrive
  <2>3. Tail(todo) \in Seq(Commands) /\ Len(Tail(todo)) = Len(todo) - 1 /\ Len(todo) \in Nat
    BY <1>1, <2>2, TailFacts
  <2>4. Tail(todo) # << >>  BY <1>1, <2>3 DEF DriveAt
  <2> QED  BY <2>2, <2>3, <2>4
<1>3. NoDrive.at = "off"  BY DEF NoDrive
<1>4. CallInv'
  BY <1>1, <1>2, <1>3 DEF CallInv, ProgramInv, Issuing, Busy, Aborting, Finalizing, ending
<1>5. ScriptInv'  BY <1>2, <1>3 DEF ScriptInv
<1>6. Tail(todo) \notin {<< "raiseP8" >>, << "stop" >>, << "raiseOther" >>}
  <2>1. /\ << "raiseP8" >>[1] = "raiseP8" /\ << "stop" >>[1] = "stop"
        /\ << "raiseOther" >>[1] = "raiseOther"
    OBVIOUS
  <2> QED  BY <1>2, <2>1, Zenon
<1>7. StaleInv'  BY <1>2 DEF StaleInv, FirstCommand
<1>8. StoppedInv'  BY DEF StoppedInv, Stopped, Spoiled
<1> QED  BY <1>1, <1>2, <1>4, <1>5, <1>6, <1>7, <1>8, OverFrame DEF Issuing

\* The drive is the last and the handler closes the session.
LEMMA GoesToClose ==
  ASSUME ProgramInv, Inside, ex.at \in {"store", "fail"}, ex' = NoDrive, open' = open,
         UNCHANGED << cfg, queue, batch, asked, held, practice, state, position, policy, approval,
                      ending, pc, where, code >>,
         RunsInv', runs' \in Seq(Runs), slots' \subseteq Stages, pc = "idle",
         todo' \in {<< "collide", "stop" >>, << "abort", "raiseP8" >>, << "abort", "raiseOther" >>},
         Stopped' => todo' = << "collide", "stop" >>, SessionInv', FinalInv'
  PROVE  ProgramInv'
<1>1. Issuing /\ code # "0" /\ ~held /\ ~logClosed /\ ~errors /\ ~lifecycle
  BY DEF ProgramInv, CallInv, DriveInv, Inside, Issuing, Underway
<1>2. /\ todo' \in ClosingLists /\ todo' \in Seq(Commands) /\ todo' # << >>
      /\ todo'[1] \in {"collide", "abort"}
      /\ todo' \notin {<< "stop" >>, << "raiseOther" >>, << "raiseP8" >>}
  BY ClosingFacts
<1>3. NoDrive.at = "off"  BY DEF NoDrive
<1>4. CallInv'
  BY <1>1, <1>2, <1>3 DEF CallInv, ProgramInv, Issuing, Busy, Aborting, Finalizing, ending
<1>5. ScriptInv'  BY <1>2, <1>3 DEF ScriptInv
<1>6. DeadEnd'  BY <1>2 DEF DeadEnd, FirstCommand, Closings
<1>7. StaleInv'  BY <1>1, <1>6 DEF StaleInv
<1>8. StoppedInv'  BY <1>1 DEF StoppedInv, ending
<1> QED  BY <1>1, <1>2, <1>4, <1>5, <1>6, <1>7, <1>8, OverFrame DEF Issuing

\* The drive is the last and its error leaves the handler.
LEMMA GoesOut ==
  ASSUME ProgramInv, Inside, ex.at \in {"store", "fail"}, ex' = NoDrive, open' = open,
         UNCHANGED << cfg, queue, batch, asked, state, position, policy, approval, ending, pc >>,
         RunsInv', runs' \in Seq(Runs), slots' \subseteq Stages,
         NEW kind, Raise(kind), pc = "idle" \/ kind = "KI", ~Stopped', SessionInv', FinalInv'
  PROVE  ProgramInv'
<1>1. Issuing /\ code # "0" /\ ~held /\ practice = "none"
  BY DEF ProgramInv, CallInv, DriveInv, Inside, Issuing
<1>2. /\ pc \in {"idle", "abort"}
      /\ pc = "idle" => /\ state \notin Screens /\ state # "ABORTED"
  <2>1. pc \in {"idle", "abort"}  BY DEF ProgramInv, DriveInv, Inside
  <2>2. pc = "idle" => state \in {"TRAINING", "MODULE_1_RUNNING", "MODULE_2_RUNNING", "FINAL_HAZARD"}
    BY DEF ProgramInv, DriveInv, Inside
  <2> QED  BY <2>1, <2>2 DEF Screens
<1>3. /\ todo' = << >> /\ UNCHANGED << held, practice >>
      /\ \/ where' = "cli" /\ code' = "130"
         \/ /\ where' \in {"hold", "handle"} /\ code' = code /\ pc = "idle"
  BY <1>1, <1>2 DEF Raise
<1>4. NoDrive.at = "off"  BY DEF NoDrive
<1>5. CallInv'
  BY <1>2, <1>3, <1>4 DEF CallInv, ProgramInv, Issuing, Busy, Aborting, Finalizing, Underway, ending
<1>6. ScriptInv'
  <2>1. RoutineList(<< >>)  BY DEF RoutineList
  <2> QED  BY <1>3, <1>4, <2>1 DEF ScriptInv
<1>7. DeadEnd'  BY <1>1, <1>2, <1>3 DEF DeadEnd
<1>8. StaleInv'  BY <1>1, <1>3, <1>7 DEF StaleInv
<1>9. StoppedInv'  BY DEF StoppedInv
<1>10. << >> \in Seq(Commands) /\ << >> \notin {<< "raiseP8" >>, << "stop" >>, << "raiseOther" >>}
  OBVIOUS
<1>11. where' \in {"start", "handle", "hold", "cli"} /\ code' # "0"  BY <1>1, <1>3
<1> QED  BY <1>3, <1>5, <1>6, <1>7, <1>8, <1>9, <1>10, <1>11, OverFrame

\* A stored run is spoiled, and a stop confirmed, by what the run itself says.
LEMMA StoredRuns ==
  ASSUME ProgramInv, Inside, pc = "idle", NEW r \in Runs, r.stage = ex.stage,
         runs' = Append(runs, r), slots' = slots \cup {ex.stage}
  PROVE  /\ r.reason = "TIME_LIMIT_REACHED" => ~Spoiled'
         /\ Stopped' => r.reason = "HAZARD_COLLISION" /\ r.confirmed = "SPACE" /\ r.clean
<1>1. ~Spoiled  BY DEF ProgramInv, SpoiledInv, Inside
<1>2. /\ slots = Executed
      /\ \A i \in 1..Len(runs) : runs[i].reason = "TIME_LIMIT_REACHED"
  BY <1>1 DEF Spoiled
<1>3. /\ Len(runs) \in Nat /\ Len(runs') = Len(runs) + 1
      /\ \A i \in 1..Len(runs) : runs'[i] = runs[i]
      /\ runs'[Len(runs) + 1] = r
      /\ Executed' = Executed \cup {ex.stage}
  BY AppendRun
<1>4. \A i \in 1..Len(runs') : i \in 1..Len(runs) \/ i = Len(runs) + 1  BY <1>3
<1>5. \A i \in 1..Len(runs') : runs'[i] = r \/ runs'[i].reason = "TIME_LIMIT_REACHED"
  BY <1>2, <1>3, <1>4
<1>6. slots' = Executed'  BY <1>2, <1>3
<1>7. r.reason = "TIME_LIMIT_REACHED" => ~Spoiled'  BY <1>5, <1>6 DEF Spoiled
<1>8. Stopped' => r.reason = "HAZARD_COLLISION" /\ r.confirmed = "SPACE" /\ r.clean
  BY <1>5 DEF Stopped
<1> QED  BY <1>7, <1>8

LEMMA RunTypes ==
  ASSUME ex \in Executors, ex.stage \in Stages, ex.outcome # "none"
  PROVE  Run \in Runs /\ [Run EXCEPT !.clean = FALSE] \in Runs
         /\ Run.stage = ex.stage /\ Run.reason = ex.outcome /\ Run.confirmed = ex.confirmed
         /\ Run.clean = ex.clean /\ [Run EXCEPT !.clean = FALSE].stage = ex.stage
         /\ [Run EXCEPT !.clean = FALSE].clean = FALSE
  BY DEF Run, Runs, Executors

LEMMA StoreRunKeeps ==
  ASSUME ProgramInv, StoreRun, SessionInv', FinalInv'
  PROVE  ProgramInv'
<1>1. Inside /\ ex.at = "store" /\ ex \in Executors
  BY DEF StoreRun, Driving, Inside, ProgramInv, FlowTypes
<1>2. /\ pc = "idle" /\ ex.outcome # "none" /\ ex.stage \in Stages
  BY <1>1 DEF ProgramInv, DriveInv, Inside, Stages, Ordered, Sequence, Last
<1>3. /\ runs' = Append(runs, Run) /\ slots' = slots \cup {ex.stage} /\ ex' = NoDrive
      /\ todo' = Handle(ex.outcome)
      /\ UNCHANGED << cfg, where, held, practice, code, queue, batch, asked, open >>
  BY DEF StoreRun, keyboard
<1>4. /\ UNCHANGED << pc, state, position, approval, policy, verdict, ending >>
      /\ work' \in {work, work \cup {ex.stage}}
  BY WorksMoves DEF StoreRun
<1>5. /\ Run \in Runs /\ Run.stage = ex.stage /\ Run.reason = ex.outcome  BY <1>1, <1>2, RunTypes
<1>6. RunsInv' /\ runs' \in Seq(Runs) /\ slots' \subseteq Stages
  BY <1>1, <1>2, <1>3, <1>4, <1>5, OverRuns
<1>7. /\ ex.outcome = "TIME_LIMIT_REACHED" => ~Spoiled'
      /\ Stopped' => ex.outcome = "HAZARD_COLLISION"
  BY <1>1, <1>2, <1>3, <1>5, StoredRuns
<1>8. CASE ex.outcome = "TIME_LIMIT_REACHED"
  <2>1. todo' = Tail(todo)  BY <1>3, <1>8 DEF Handle
  <2> QED  BY <1>1, <1>2, <1>3, <1>4, <1>6, <1>7, <1>8, <2>1, GoesOn
<1>9. CASE ex.outcome # "TIME_LIMIT_REACHED"
  <2>1. /\ ex.outcome \in {"HAZARD_COLLISION", "USER_ABORT"}
        /\ todo' \in {<< "collide", "stop" >>, << "abort", "raiseP8" >>, << "abort", "raiseOther" >>}
        /\ ex.outcome = "HAZARD_COLLISION" => todo' = << "collide", "stop" >>
    <3>1. ex.outcome \in {"HAZARD_COLLISION", "USER_ABORT"}  BY <1>1, <1>2, <1>9 DEF Executors
    <3> QED  BY <1>3, <3>1 DEF Handle
  <2> QED  BY <1>1, <1>2, <1>3, <1>4, <1>6, <1>7, <2>1, GoesToClose
<1> QED  BY <1>8, <1>9

\* A collision whose stop did not come to its end is stored as one that has errors.
LEMMA FailRunKeeps ==
  ASSUME ProgramInv, FailRun, SessionInv', FinalInv'
  PROVE  ProgramInv'
<1>1. Inside /\ ex.at = "fail" /\ ex \in Executors
  BY DEF FailRun, Driving, Inside, ProgramInv, FlowTypes
<1>2. /\ ex.stage \in Stages
      /\ pc = "idle" \/ (ex.first = "KI" /\ ex.outcome # "HAZARD_COLLISION")
  BY <1>1 DEF ProgramInv, DriveInv, Inside, Stages, Ordered, Sequence, Last
<1>3. /\ slots' = slots \cup {ex.stage} /\ ex' = NoDrive
      /\ UNCHANGED << cfg, queue, batch, asked, open >>
  BY DEF FailRun, keyboard
<1>4. \/ /\ ex.outcome = "HAZARD_COLLISION" /\ runs' = Append(runs, [Run EXCEPT !.clean = FALSE])
         /\ Works /\ Surface(TRUE)
      \/ runs' = runs /\ NoSession /\ Surface(FALSE)
  BY DEF FailRun
<1>5. UNCHANGED << pc, state, position, approval, policy, verdict, ending >>
  BY <1>4, WorksMoves DEF NoSession, vars, place, entry
<1>6. RunsInv' /\ runs' \in Seq(Runs) /\ slots' \subseteq Stages /\ ~Stopped'
  <2>1. CASE /\ ex.outcome = "HAZARD_COLLISION" /\ Works
             /\ runs' = Append(runs, [Run EXCEPT !.clean = FALSE])
    <3>1. /\ [Run EXCEPT !.clean = FALSE] \in Runs /\ [Run EXCEPT !.clean = FALSE].stage = ex.stage
          /\ [Run EXCEPT !.clean = FALSE].clean = FALSE
      BY <1>1, <1>2, <2>1, RunTypes
    <3>2. work' \in {work, work \cup {ex.stage}} /\ pc = "idle"  BY <1>2, <2>1, WorksMoves
    <3> DEFINE r == [Run EXCEPT !.clean = FALSE]
    <3>3. r \in Runs /\ r.stage = ex.stage /\ r.clean = FALSE /\ runs' = Append(runs, r)
      BY <2>1, <3>1
    <3> HIDE DEF r
    <3>4. ~Stopped'  BY <1>1, <1>3, <3>2, <3>3, StoredRuns
    <3>5. RunsInv' /\ runs' \in Seq(Runs) /\ slots' \subseteq Stages
      BY <1>1, <1>3, <1>5, <3>2, <3>3, OverRuns
    <3> QED  BY <3>4, <3>5
  <2>2. CASE runs' = runs /\ NoSession
    <3>1. work' = work  BY <2>2 DEF NoSession, vars
    <3>2. ~Stopped  BY <1>1 DEF ProgramInv, SpoiledInv, Stopped, Spoiled, Inside
    <3>3. ~Stopped'  BY <2>2, <3>2 DEF Stopped
    <3>4. RunsInv' /\ runs' \in Seq(Runs) /\ slots' \subseteq Stages
      BY <1>1, <1>3, <1>5, <2>2, <3>1, OverRuns
    <3> QED  BY <3>3, <3>4
  <2> QED  BY <1>4, <2>1, <2>2
<1>7. \/ /\ todo' \in {<< "collide", "stop" >>, << "abort", "raiseP8" >>, << "abort", "raiseOther" >>}
         /\ UNCHANGED << where, held, practice, code >> /\ ex.first # "KI"
      \/ Raise(ex.first)
  BY <1>4 DEF Surface, Handle
<1>8. CASE Raise(ex.first)  BY <1>1, <1>2, <1>3, <1>5, <1>6, <1>8, GoesOut
<1>9. CASE /\ todo' \in {<< "collide", "stop" >>, << "abort", "raiseP8" >>, << "abort", "raiseOther" >>}
           /\ UNCHANGED << where, held, practice, code >> /\ ex.first # "KI"
  BY <1>1, <1>2, <1>3, <1>5, <1>6, <1>9, GoesToClose
<1> QED  BY <1>7, <1>8, <1>9

(* The command line, and Ctrl+C. *)
LEMMA CliAbortKeeps ==
  ASSUME ProgramInv, CliAbort, SessionInv', FinalInv'
  PROVE  ProgramInv'
<1>1. /\ where = "cli" /\ pc = "idle" /\ pc' = "abort" /\ SameStage  BY AbortMoves DEF CliAbort
<1>2. /\ UNCHANGED << cfg, where, todo, held, practice, code, queue, batch, asked, runs, slots, ex,
                      open >>
      /\ DriveStays /\ todo = << >> /\ ex.at = "off"
  BY <1>1 DEF CliAbort, flow, window, keyboard, drive, DriveStays, ProgramInv, CallInv, Issuing
<1>3. FlowTypes'  BY <1>1, <1>2 DEF FlowTypes, ProgramInv, SameStage
<1>4. CallInv'  BY <1>1, <1>2 DEF CallInv, ProgramInv, Issuing, Busy, Aborting, Finalizing, Underway
<1>5. ScriptInv'  BY <1>2, Resting DEF DriveStays
<1>6. PageInv'
  <2>1. << >> \notin {<< "raiseP8" >>, << "stop" >>, << "raiseOther" >>}  OBVIOUS
  <2> QED  BY <1>1, <1>2, <2>1 DEF PageInv, ProgramInv
<1>7. StaleInv'  BY <1>1, <1>2 DEF StaleInv
<1>8. DeadEnd' /\ StoppedInv'  BY <1>1, <1>2 DEF DeadEnd, StoppedInv
<1>9. code' # "0"  BY <1>1, <1>2 DEF ProgramInv
<1> QED  BY <1>1, <1>2, <1>3, <1>4, <1>5, <1>6, <1>7, <1>8, <1>9, CallFrame DEF Busy

LEMMA ToCliKeeps ==
  ASSUME ProgramInv, ToCli, SameStage, DriveStays, ex.at = "off", UNCHANGED << cfg, queue, batch, asked >>,
         where \notin {"cli", "returned"},
         pc' \in {"new", "idle", "closed", "abort"}, pc' \in {"new", "idle"} => pc' = pc,
         SessionInv', FinalInv'
  PROVE  ProgramInv'
<1>1. where' = "cli" /\ code' = "130" /\ todo' = << >> /\ UNCHANGED << held, practice >>
  BY DEF ToCli
<1>2. << >> \in Seq(Commands) /\ << >> \notin {<< "raiseP8" >>, << "stop" >>, << "raiseOther" >>}
  OBVIOUS
<1>3. FlowTypes'  BY <1>1, <1>2 DEF FlowTypes, ProgramInv, SameStage, DriveStays
<1>4. CallInv'
  BY <1>1 DEF CallInv, ProgramInv, Issuing, Busy, Aborting, Finalizing, Underway, SameStage,
              DriveStays, ending
<1>5. ScriptInv'
  <2>1. RoutineList(<< >>)  BY DEF RoutineList
  <2> QED  BY <1>1, <2>1 DEF ScriptInv, DriveStays
<1>6. PageInv'  BY <1>1, <1>2 DEF PageInv, ProgramInv
<1>7. StaleInv' /\ DeadEnd' /\ StoppedInv'  BY <1>1 DEF StaleInv, DeadEnd, StoppedInv
<1>8. Spoiled => pc' \notin Busy \cup {"new", "init"}  BY DEF ProgramInv, SpoiledInv, Busy
<1>9. code' # "0" /\ (pc' \in {"leave", "end", "begin"} => pc \in {"leave", "end", "begin"})
  BY <1>1
<1> QED  BY <1>3, <1>4, <1>5, <1>6, <1>7, <1>8, <1>9, CallFrame

\* A second Ctrl+C, in the command line's own abort.
LEMMA DiesKeeps ==
  ASSUME ProgramInv, where = "cli", pc \notin {"new", "idle", "closed"}, NoSession, where' = "returned",
         code' = "died", UNCHANGED << todo, held, practice, ex, cfg, queue, batch, asked, runs, slots, open >>,
         SessionInv', FinalInv'
  PROVE  ProgramInv'
<1>1. SessionStays /\ DriveStays /\ todo = << >> /\ ex.at = "off"
  BY DEF NoSession, SessionStays, DriveStays, vars, place, entry, ending, ProgramInv, CallInv, Issuing
<1>2. FlowTypes'  BY <1>1 DEF FlowTypes, ProgramInv, SessionStays
<1>3. CallInv'  BY <1>1 DEF CallInv, ProgramInv, Issuing, SessionStays, Busy
<1>4. ScriptInv'  BY <1>1, Resting DEF DriveStays
<1>5. PageInv'
  <2>1. << >> \notin {<< "raiseP8" >>, << "stop" >>, << "raiseOther" >>}  OBVIOUS
  <2> QED  BY <1>1, <2>1 DEF PageInv, ProgramInv
<1>6. StaleInv' /\ DeadEnd' /\ StoppedInv'  BY DEF StaleInv, DeadEnd, StoppedInv
<1> QED  BY <1>1, <1>2, <1>3, <1>4, <1>5, <1>6, WindowFrame

\* The interruption that lands behind the last save goes on to the reports.
LEMMA LateKeeps ==
  ASSUME ProgramInv, pc = "final_save", pc' = "reduce", where \notin {"cli", "returned"}, SameStage,
         ex.at \in {"off", "handoff"}, verdict' = verdict, UNCHANGED << window, ex, cfg, queue, batch, asked, runs, slots, open >>,
         SessionInv', FinalInv'
  PROVE  ProgramInv'
<1>1. /\ UNCHANGED << where, todo, held, practice, code >> /\ DriveStays /\ pc \in Finalizing
      /\ pc' \in Finalizing
  BY DEF window, DriveStays, Finalizing
<1>2. /\ Issuing /\ ex.at = "off" /\ todo # << >>
      /\ todo[1] \in {"abort", "collide", "advance"} /\ practice = "none" /\ code # "0"
  <2>1. Issuing  BY <1>1 DEF ProgramInv, CallInv, Inside
  <2> QED  BY <1>1, <2>1, ClosingPlaces DEF Issuing, ProgramInv
<1>3. FlowTypes'  BY <1>1 DEF FlowTypes, ProgramInv, SameStage, DriveStays
<1>4. CallInv'
  BY <1>1, <1>2 DEF CallInv, ProgramInv, Issuing, FirstCommand, Inside, Busy, Finalizing, Aborting, Underway,
                    SameStage, DriveStays
<1>5. ScriptInv'
  <2>1. Standing' = Standing  BY DEF Standing, SameStage
  <2> QED  BY <1>1, <1>2, <2>1 DEF ScriptInv, ProgramInv, DriveStays, Busy
<1>6. PageInv'
  <2>1. todo \notin {<< "raiseP8" >>, << "stop" >>, << "raiseOther" >>}  BY <1>2
  <2> QED  BY <1>1, <1>2, <2>1 DEF PageInv, ProgramInv
<1>7. DeadEnd => DeadEnd'  BY <1>1, <1>2 DEF DeadEnd, FirstCommand
<1>8. StaleInv'  BY <1>1, <1>2, <1>7 DEF StaleInv, ProgramInv, FirstCommand, DriveStays
<1>9. Spoiled => DeadEnd'  BY <1>7 DEF ProgramInv, SpoiledInv
<1>10. StoppedInv'
  <2>1. Stopped' = Stopped  BY DEF Stopped
  <2>2. SUFFICES ASSUME Stopped PROVE StoppedInv'  BY <2>1 DEF StoppedInv
  <2>3. /\ ~errors /\ ~lifecycle /\ todo = << "collide", "stop" >>
        /\ verdict = "ENDED_AFTER_HAZARD_COLLISION"
    BY <1>2, <2>2 DEF StoppedInv, ProgramInv, Issuing
  <2> QED  BY <1>1, <2>3 DEF StoppedInv, SameStage, ending, AfterClose
<1> QED  BY <1>1, <1>2, <1>3, <1>4, <1>5, <1>6, <1>8, <1>9, <1>10, CallFrame DEF Busy

LEMMA CtrlCKeeps ==
  ASSUME ProgramInv, CtrlC, SessionInv', FinalInv'
  PROVE  ProgramInv'
<1>1. where # "returned" /\ UNCHANGED << cfg, queue, batch, asked, runs, slots, open >>
  BY DEF CtrlC, keyboard
<1>2. CASE Inside
  <2>1. where # "cli"  BY <1>2 DEF ProgramInv, CallInv, Issuing, Inside
  <2> QED  BY <1>2, <2>1, RollingKeeps DEF Rolling, Interrupted
<1>3. CASE /\ where = "cli" /\ pc \notin {"new", "idle", "closed"} /\ NoSession
           /\ where' = "returned" /\ code' = "died"
           /\ UNCHANGED << todo, held, practice, ex >>
  BY <1>1, <1>3, DiesKeeps
<1>4. CASE where # "cli" /\ ex.at = "off" /\ pc \in {"new", "idle", "closed"}
           /\ NoSession /\ ToCli /\ UNCHANGED ex
  <2>1. SameStage /\ DriveStays /\ pc' = pc
    BY <1>1, <1>4 DEF NoSession, SameStage, DriveStays, vars, place, entry
  <2> QED  BY <1>1, <1>4, <2>1, ToCliKeeps
<1>5. CASE /\ where # "cli" /\ ex.at \in {"off", "handoff"} /\ pc \notin {"new", "idle"}
           /\ Interrupt
           /\ IF pc' = "reduce" THEN UNCHANGED << window, ex >>
              ELSE IF ex.at = "off" THEN ToCli /\ UNCHANGED ex
              ELSE /\ Failed("stopgaze", "KI") /\ todo' = AtDrive
                   /\ UNCHANGED << where, held, practice, code >>
  <2>1. SessionInv /\ (closed <=> pc \in AfterClose)  BY DEF ProgramInv, SessionInv, PlaceInv
  <2>2. /\ SameStage
        /\ pc \in Busy \cup Aborting \cup Finalizing \cup {"init"}
        /\ \/ ~closed /\ pc' = "abort"
           \/ /\ closed /\ verdict' = verdict /\ pc \in {"final_save", "reduce"}
              /\ pc' = "closed" \/ (pc = "final_save" /\ pc' = "reduce")
    BY <1>5, <2>1, InterruptMoves
  <2>3. CASE pc' = "reduce"  BY <1>1, <1>5, <2>2, <2>3, LateKeeps
  <2>4. CASE pc' # "reduce" /\ ex.at = "off"
    <3>1. DriveStays /\ ToCli  BY <1>1, <1>5, <2>4 DEF DriveStays
    <3> QED  BY <1>1, <1>5, <2>2, <2>4, <3>1, ToCliKeeps
  <2>5. CASE pc' # "reduce" /\ ex.at = "handoff"
    <3>1. /\ Failed("stopgaze", "KI") /\ todo' = AtDrive
          /\ UNCHANGED << where, held, practice, code >>
      BY <1>5, <2>5
    <3>2. /\ AtDrive \in Seq(Commands) /\ DriveAt(AtDrive, 1) /\ pc \in {"idle"} \cup Busy
          /\ ex \in Executors /\ ex.first = "none" /\ ex.outcome = "none"
      BY <2>5, InHandoff
    <3>3. pc' = "abort"  BY <2>2, <3>2 DEF Busy
    <3>4. ex' = [ex EXCEPT !.at = "stopgaze", !.first = "KI"]  BY <3>1, <3>2 DEF Failed
    <3>5. ex' \in Executors  BY <3>1, <3>2, StepTypes DEF Steps, Points, Kinds
    <3>6. /\ ex'.at = "stopgaze" /\ ex'.stage = ex.stage /\ ex'.first = "KI" /\ ex'.outcome = "none"
      BY <3>2, <3>4 DEF Executors
    <3> QED  BY <1>1, <2>2, <2>5, <3>1, <3>2, <3>3, <3>5, <3>6, LeavesHandoff DEF Concluded
  <2> QED  BY <1>5, <2>3, <2>4, <2>5
<1>6. CASE ~Inside
  <2>1. \/ /\ where = "cli" /\ pc \notin {"new", "idle", "closed"} /\ NoSession
           /\ where' = "returned" /\ code' = "died"
           /\ UNCHANGED << todo, held, practice, ex >>
        \/ /\ where # "cli" /\ ex.at = "off" /\ pc \in {"new", "idle", "closed"}
           /\ NoSession /\ ToCli /\ UNCHANGED ex
        \/ /\ where # "cli" /\ ex.at \in {"off", "handoff"} /\ pc \notin {"new", "idle"}
           /\ Interrupt
           /\ IF pc' = "reduce" THEN UNCHANGED << window, ex >>
              ELSE IF ex.at = "off" THEN ToCli /\ UNCHANGED ex
              ELSE /\ Failed("stopgaze", "KI") /\ todo' = AtDrive
                   /\ UNCHANGED << where, held, practice, code >>
    BY <1>6 DEF CtrlC, Inside
  <2> QED  BY <1>3, <1>4, <1>5, <2>1
<1> QED  BY <1>2, <1>6

(* The invariant of the program: it holds at the start and every step of *)
(* the window, the drive, the operator's hands and Ctrl+C keeps it. *)
LEMMA StandsStill == ASSUME ProgramInv, UNCHANGED << vars, flow >> PROVE ProgramInv'
<1>1. /\ UNCHANGED vars /\ UNCHANGED << cfg, where, todo, held, practice, code, queue, batch, asked >>
      /\ DriveStays
  BY DEF flow, window, keyboard, drive, DriveStays
<1>2. UNCHANGED << pc, state, position, approval, policy, work, verdict, closed, logClosed, lifecycle,
                   errors >> /\ export' = export
  BY DEF vars, place, entry, ending, flow
<1>3. SessionInv' /\ FinalInv'  BY <1>1, NextInv, FinalStep DEF ProgramInv
<1> USE <1>1, <1>2 DEF DriveStays
<1>4. Executed' = Executed /\ Spoiled' = Spoiled /\ Stopped' = Stopped
  BY DEF Executed, Spoiled, Stopped
<1>5. FlowTypes' /\ CallInv'  BY DEF ProgramInv, FlowTypes, CallInv, Inside, Issuing, FirstCommand
<1>6. ScriptInv' /\ PageInv'  BY DEF ProgramInv, ScriptInv, PageInv, Standing
<1>7. DriveInv' /\ StaleInv' /\ (DeadEnd <=> DeadEnd')
  BY <1>4 DEF ProgramInv, DriveInv, Early, Inside, StaleInv, DeadEnd, FirstCommand
<1>8. RunsInv'  BY <1>4 DEF ProgramInv, RunsInv, Driven, Ready
<1>9. SpoiledInv' /\ StoppedInv'  BY <1>4, <1>7 DEF ProgramInv, SpoiledInv, StoppedInv
<1>10. code' = "0" => where' = "returned" /\ ExitZeroIsEarned'
  BY <1>4 DEF ProgramInv, ExitZeroIsEarned
<1> QED  BY <1>3, <1>5, <1>6, <1>7, <1>8, <1>9, <1>10 DEF ProgramInv

LEMMA CommandKeeps ==
  ASSUME ProgramInv, Command, SessionInv', FinalInv' PROVE ProgramInv'
  BY SessionCallKeeps, RegisterFailsKeeps, AdvanceKeeps, PolicyKeeps, RecordBoundaryKeeps,
     AbortCommandKeeps, TrainKeeps, GazeCheckKeeps, RestoreKeeps, DisplayLostKeeps, ExpandKeeps,
     RaiseCommandKeeps DEF Command

LEMMA ExecutorKeeps ==
  ASSUME ProgramInv, Executor, SessionInv', FinalInv' PROVE ProgramInv'
<1>1. CASE Execute  BY <1>1, ExecuteKeeps
<1>2. CASE DriveEnds /\ Move("handoff")  BY <1>2, HandOverKeeps
<1>3. CASE HandedOff  BY <1>3, HandedOffKeeps
<1>4. CASE StoreRun  BY <1>4, StoreRunKeeps
<1>5. CASE FailRun  BY <1>5, FailRunKeeps
<1>6. CASE \/ BuildRunner \/ OpenRuntime \/ StartGaze \/ (DriveEnds /\ ~Move("handoff"))
           \/ Pause \/ AnswerPause \/ Collide \/ AnswerNotice \/ StopGaze \/ CloseRuntime
           \/ Settle \/ ReduceDrive
  BY <1>6, RollingKeeps DEF Rolling, Turns
<1> QED  BY <1>1, <1>2, <1>3, <1>4, <1>5, <1>6 DEF Executor

LEMMA WindowKeeps ==
  ASSUME ProgramInv, Window, SessionInv', FinalInv' PROVE ProgramInv'
  BY StartDoneKeeps, HoldKeeps, FetchKeeps, BatchDoneKeeps, HandleKeeps, RenderKeeps, CueKeeps,
     ReturnKeeps, CliAbortKeeps DEF Window

LEMMA ProgramStarts == FlowInit => ProgramInv
<1> SUFFICES ASSUME FlowInit PROVE ProgramInv  OBVIOUS
<1>1. SessionInv /\ FinalInv  BY InitInv, SettledInit DEF FlowInit, SettledInv
<1>2. /\ pc = "new" /\ state = Sequence[1] /\ position = 1 /\ approval = "none" /\ policy = "none"
      /\ work = {} /\ ~logClosed /\ ~lifecycle /\ ~errors
  BY SequenceFacts DEF FlowInit, Init, Sequence, Last
<1>3. /\ cfg \in Configs /\ where = "start" /\ todo = StartScript /\ held = FALSE /\ practice = "none"
      /\ queue = << >> /\ batch = << >> /\ asked = "none" /\ runs = << >> /\ slots = {}
      /\ ex = NoDrive /\ open = {} /\ code = "none"
  BY DEF FlowInit
<1>4. Executed = {}  BY <1>3 DEF Executed
<1>5. StartScript \in Seq(Commands) /\ StartScript # << >> /\ StartScript[1] = "register" /\ Len(StartScript) = 5
  BY DEF StartScript, Commands, Routine
<1>6. ex \in Executors /\ ex.at = "off"  BY <1>3 DEF NoDrive, Executors, Points
<1>7. FlowTypes
  <2>1. \A S : << >> \in Seq(S)  OBVIOUS
  <2>2. runs \in Seq(Runs) /\ queue \in Seq({"space", "stale", "release", "esc", "quit"})
        /\ batch \in Seq({"space", "release", "esc", "quit"})
    BY <1>3, <2>1
  <2> QED  BY <1>2, <1>3, <1>5, <1>6, <2>2 DEF FlowTypes
<1>8. CallInv
  BY <1>2, <1>3, <1>5, <1>6 DEF CallInv, Busy, Aborting, Finalizing, Inside, Issuing, Underway
<1>9. ScriptInv  BY <1>2, <1>3, <1>6 DEF ScriptInv, Standing
<1>10. PageInv
  <2>1. StartScript \notin {<< "raiseP8" >>, << "stop" >>, << "raiseOther" >>}  BY <1>5
  <2> QED  BY <1>3, <2>1 DEF PageInv
<1>11. DriveInv /\ StaleInv  BY <1>3, <1>6 DEF DriveInv, StaleInv
<1>12. RunsInv  BY <1>2, <1>3, <1>4 DEF RunsInv, Ready
<1>13. SpoiledInv /\ StoppedInv  BY <1>3, <1>4 DEF SpoiledInv, Spoiled, StoppedInv, Stopped
<1> QED  BY <1>1, <1>3, <1>7, <1>8, <1>9, <1>10, <1>11, <1>12, <1>13 DEF ProgramInv

LEMMA ProgramKeeps ==
  ASSUME ProgramInv, [FlowNext]_<< vars, flow >> PROVE ProgramInv'
<1>1. SessionInv' /\ FinalInv'  BY FlowCalls, NextInv, FinalStep DEF ProgramInv
<1>2. CASE Program  BY <1>1, <1>2, CommandKeeps, ExecutorKeeps, WindowKeeps DEF Program
<1>3. CASE Hands  BY <1>1, <1>3, HandsKeep
<1>4. CASE CtrlC  BY <1>1, <1>4, CtrlCKeeps
<1>5. CASE Over \/ UNCHANGED << vars, flow >>  BY <1>5, StandsStill DEF Over
<1> QED  BY <1>2, <1>3, <1>4, <1>5 DEF FlowNext

\* Where the window stands, what the handler has still to do, what the drive is doing and
\* what the session's call has come to always fit together, whatever fails and wherever
\* Ctrl+C strikes (the invariant of OperatorFlow, over operator_ui_runtime.py,
\* operator_controller.py and operator_execution.py).
THEOREM ProgramInvariance == FlowSpec => []ProgramInv
<1>1. FlowInit => ProgramInv  BY ProgramStarts
<1>2. ProgramInv /\ [FlowNext]_<< vars, flow >> => ProgramInv'  BY ProgramKeeps
<1> QED  BY <1>1, <1>2, PTL DEF FlowSpec

\* An exit code 0 was earned by the runs it names, and a drive that is open can still be
\* written down: the log of its session is open and the session is not being closed
\* (run_operator_ui's result, operator_execution.py's finally clauses).
THEOREM DrivesAlwaysAccounted == FlowSpec => []DrivesAreAccounted
<1>1. ProgramInv => DrivesAreAccounted
  <2> SUFFICES ASSUME ProgramInv PROVE DrivesAreAccounted  OBVIOUS
  <2>1. ExitZeroIsEarned  BY DEF ProgramInv, ExitZeroIsEarned
  <2>2. ASSUME open # {} PROVE ~logClosed /\ pc \notin Finalizing \cup {"closed"}
    <3>1. /\ ex.at \in {"gaze", "drive", "handoff", "paused", "notice", "stopgaze", "close"}
      BY <2>2 DEF ProgramInv, DriveInv
    <3>2. ~logClosed  BY <3>1 DEF ProgramInv, DriveInv
    <3>3. pc \in {"idle", "abort"} \cup Busy  BY <3>1 DEF ProgramInv, DriveInv, Inside
    <3> QED  BY <3>2, <3>3 DEF Busy, Finalizing
  <2> QED  BY <2>1, <2>2 DEF DrivesAreAccounted, OpenDriveHasALog
<1> QED  BY <1>1, ProgramInvariance, PTL

(* Keys: while the window holds an error, the handler can only abort. *)
LEMMA HeldRests ==
  ASSUME ProgramInv, held
  PROVE  /\ ex.at = "off" /\ todo \in Seq(Commands)
         /\ todo # << >> => FirstCommand \in {"abort", "stop"}
         /\ pc \notin Busy \cup {"init"}
         /\ pc \in {"idle", "new", "closed"} \cup Aborting \cup Finalizing
<1>1. ex.at = "off" /\ pc \notin Busy  BY DEF ProgramInv, DriveInv, CallInv
<1>2. todo \in {<< >>, << "abort", "stop" >>, << "stop" >>} /\ todo \in Seq(Commands)
  BY DEF ProgramInv, PageInv, FlowTypes
<1>3. pc # "init" /\ pc # "dead"  BY DEF ProgramInv, CallInv
<1>4. pc \in {"idle", "new", "closed"} \cup Aborting \cup Finalizing
  BY <1>1, <1>3 DEF ProgramInv, SessionInv, TypeOK, Places
<1> QED  BY <1>1, <1>2, <1>3, <1>4 DEF FirstCommand

Heeded == held' /\ runs' = runs /\ ex' = ex /\ state' \in {state, "ABORTED"}

LEMMA HeldCommands == ASSUME ProgramInv, held, Command PROVE Heeded
<1>1. /\ ex.at = "off" /\ todo \in Seq(Commands)
      /\ todo # << >> => Head(todo) \in {"abort", "stop"}
      /\ pc \notin Busy \cup {"init"}
  <2>1. todo # << >> => Head(todo) = FirstCommand  BY HeldRests DEF FirstCommand
  <2> QED  BY <2>1, HeldRests
<1>2. CASE SessionCall
  <2>1. Onward \/ Begins \/ Completes \/ Closes  BY <1>2, CallFrames
  <2>2. UNCHANGED << held, runs, ex >>  BY <1>2 DEF SessionCall, drive
  <2>3. state' \in {state, "ABORTED"}
    BY <1>1, <2>1 DEF Onward, Begins, Completes, Closes, SameStage, Busy
  <2> QED  BY <2>2, <2>3 DEF Heeded
<1>3. CASE RegisterFails  BY <1>3 DEF RegisterFails, Raise, Heeded, drive, vars, place
<1>4. CASE AbortCommand
  <2>1. UNCHANGED state  BY <1>4, AbortMoves DEF AbortCommand, SameStage
  <2> QED  BY <1>4, <2>1 DEF AbortCommand, Heeded, flow, window, drive
<1>5. CASE RaiseCommand  BY <1>5 DEF RaiseCommand, Raise, Heeded, drive, vars, place
<1>6. ~Advance /\ ~Policy /\ ~RecordBoundary /\ ~Train /\ ~GazeCheck /\ ~RestoreDisplay /\ ~DisplayLost
      /\ ~Expand
  <2>1. /\ ~Issue("advance") /\ ~Issue("policy") /\ ~Issue("receipt") /\ ~Issue("train")
        /\ ~Issue("check") /\ ~Issue("restore") /\ ~Issue("show") /\ ~Issue("deafen") /\ ~Issue("after")
    BY <1>1 DEF Issue, Commanded
  <2>2. ~Advance /\ ~Policy /\ ~RecordBoundary /\ ~Train
    BY <2>1 DEF Advance, Policy, RecordBoundary, Train
  <2>3. ~GazeCheck /\ ~RestoreDisplay /\ ~DisplayLost /\ ~Expand
    BY <2>1 DEF GazeCheck, RestoreDisplay, DisplayLost, Expand
  <2> QED  BY <2>2, <2>3
<1> QED  BY <1>2, <1>3, <1>4, <1>5, <1>6 DEF Command

LEMMA HeldDrives == ASSUME ProgramInv, held PROVE ~Executor
<1>1. ex.at = "off" /\ (todo # << >> => Head(todo) \in {"abort", "stop"})
  <2>1. todo # << >> => Head(todo) = FirstCommand  BY HeldRests DEF FirstCommand
  <2> QED  BY <2>1, HeldRests
<1> QED
  BY <1>1 DEF Executor, Execute, BuildRunner, OpenRuntime, StartGaze, DriveEnds, HandedOff, Pause,
              AnswerPause, Collide, AnswerNotice, StopGaze, CloseRuntime, Settle, ReduceDrive, StoreRun,
              FailRun, Driving, Issue, Commanded

LEMMA HeldWindow == ASSUME ProgramInv, held, Window PROVE Heeded
<1>1. CASE HandleEvent
  <2>1. UNCHANGED << held, runs, ex >>  BY <1>1 DEF HandleEvent, Quit, Space, drive, window
  <2>2. Abort("ABORTED") => state' = state  BY AbortMoves DEF SameStage
  <2>3. UNCHANGED vars => state' = state  BY DEF vars, place
  <2> QED  BY <1>1, <2>1, <2>2, <2>3 DEF HandleEvent, Quit, Space, Heeded, NoSession
<1>2. CASE CliAbort
  <2>1. UNCHANGED state  BY <1>2, AbortMoves DEF CliAbort, SameStage
  <2> QED  BY <1>2, <2>1 DEF CliAbort, Heeded, flow, window, drive
<1>3. CASE Hold  BY <1>3 DEF Hold, Loop, Apart, drive, vars, place, Heeded
<1>4. CASE StartDone \/ FetchEvents \/ BatchDone \/ Render \/ CueEnds \/ Return \/ CliReturn
  BY <1>4 DEF StartDone, FetchEvents, BatchDone, Render, CueEnds, Return, CliReturn, Loop, Apart, drive,
              vars, place, Heeded
<1> QED  BY <1>1, <1>2, <1>3, <1>4 DEF Window

LEMMA HeldInterrupts == ASSUME ProgramInv, held, CtrlC PROVE Heeded
<1>1. ex.at = "off"  BY HeldRests
<1>2. UNCHANGED << runs, held, ex >>  BY <1>1 DEF CtrlC, window, ToCli
<1>3. Interrupt => state' = state  BY InterruptMoves DEF ProgramInv, SameStage
<1>4. NoSession => state' = state  BY DEF NoSession, vars, place
<1> QED  BY <1>2, <1>3, <1>4 DEF CtrlC, Heeded

LEMMA HeldKeeps == ASSUME ProgramInv, held, [FlowNext]_<< vars, flow >> PROVE Heeded
<1>1. CASE Program  BY <1>1, HeldCommands, HeldDrives, HeldWindow DEF Program
<1>2. CASE Hands  BY <1>2 DEF Hands, Heeded, window, drive, vars, place
<1>3. CASE CtrlC  BY <1>3, HeldInterrupts
<1>4. CASE Over \/ UNCHANGED << vars, flow >>
  BY <1>4 DEF Over, Heeded, flow, window, drive, vars, place
<1> QED  BY <1>1, <1>2, <1>3, <1>4 DEF FlowNext

\* No press of a drive starts anything behind it, and no sequence of keys, of failures or of
\* Ctrl+Cs leads around an error that the window holds: no drive is started or stored any
\* more and the session goes nowhere but to ABORTED (_handle_key, hold_runtime_error).
THEOREM KeysAlwaysHeeded == FlowSpec => KeysAreHeeded
<1>1. ProgramInv => NoStalePress  BY DEF ProgramInv, FlowTypes, NoStalePress
<1>2. ProgramInv /\ [FlowNext]_<< vars, flow >> =>
        [held => /\ held' /\ runs' = runs /\ ex' = ex
                 /\ state' \in {state, "ABORTED"}]_<< vars, flow >>
  BY HeldKeeps DEF Heeded
<1> QED  BY <1>1, <1>2, ProgramInvariance, PTL DEF FlowSpec, KeysAreHeeded, HeldIsNeverResumed

=============================================================================
