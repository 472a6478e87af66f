------------------------------ MODULE RawSamples ------------------------------
(***************************************************************************)
(* The raw input log of module 2: OperatorM2Hazard.capture_raw_input,       *)
(* _next_raw_batch, _flush_raw and _raw_storage_record, as ContinuingM2-    *)
(* Hazard calls them before and after its scene has failed, and finalize at *)
(* the end; and the reader, collection_hazard.hazard_response.              *)
(*                                                                          *)
(* A batch is fixed by its first attempt and retried until acknowledged: it *)
(* is kept as a reference to the samples, so its contents are looked up at  *)
(* every attempt and would show a sample amended in between.  A write may   *)
(* reach the file and still raise.  The development's logger raises; the    *)
(* operator's counts the failure and carries on (NonfatalResearchCsvLogger).*)
(***************************************************************************)
EXTENDS Naturals, Sequences, SequencesExt

CONSTANTS
    Oversize,    \* polls whose sample alone exceeds the row limit
    FlushAt,     \* 120 samples
    RowLimit,    \* samples that fit one row
    MaxPolls, MaxWriteFaults

ASSUME BoundsAssumption ==
    /\ Oversize \subseteq Nat
    /\ FlushAt \in Nat \ {0} /\ RowLimit \in Nat \ {0}
    /\ MaxPolls \in Nat /\ MaxWriteFaults \in Nat

VARIABLES
    nonfatal,   \* the session has the operator's logger
    polls,      \* iterations that collected input so far
    raw,        \* captured, not acknowledged
    batch,      \* _raw_pending_batch: its size, or 0
    confirmed,  \* _raw_confirmed_batches, the number in the next batch's name
    errors,     \* _raw_write_errors
    losses,     \* the logger's collection_failure_count
    rows,       \* the rows of the event file
    acked,      \* samples whose batch was acknowledged (history)
    failed,     \* the scene has failed
    pc,         \* "idle", "capture" and "final" (flushing), "closed", "dead"
    status,     \* raw_storage of the final record
    faults

vars == <<nonfatal, polls, raw, batch, confirmed, errors, losses, rows, acked, failed, pc,
          status, faults>>

Init == /\ nonfatal \in BOOLEAN
        /\ polls = 0 /\ raw = <<>> /\ batch = 0 /\ confirmed = 0
        /\ errors = 0 /\ losses = 0 /\ rows = <<>> /\ acked = <<>>
        /\ failed = FALSE /\ pc = "idle" /\ status = "none" /\ faults = 0

Sample(p) == [poll |-> p, geo |-> FALSE]

\* after_control: the poll's sample is appended at once, or after a flush that is
\* due, by age or by size.
PollInput ==
    /\ pc = "idle" /\ polls < MaxPolls
    /\ polls' = polls + 1
    /\ \/ /\ Len(raw) < FlushAt
          /\ raw' = Append(raw, Sample(polls'))
          /\ UNCHANGED pc
       \/ /\ pc' = "capture"
          /\ UNCHANGED raw
    /\ UNCHANGED <<batch, confirmed, errors, losses, rows, acked, failed, status, faults>>

\* _advance_scene: the newest sample receives this frame's geometry.
Geometry ==
    /\ pc = "idle" /\ ~failed /\ raw # <<>>
    /\ raw' = [raw EXCEPT ![Len(raw)].geo = TRUE]
    /\ UNCHANGED <<polls, batch, confirmed, errors, losses, rows, acked, failed,
                   pc, status, faults>>

\* Anything else in the iteration fails the scene; its input is still recorded.
SceneFails ==
    /\ pc = "idle" /\ ~failed /\ faults < MaxWriteFaults
    /\ failed' = TRUE /\ faults' = faults + 1
    /\ UNCHANGED <<polls, raw, batch, confirmed, errors, losses, rows, acked, pc, status>>

Finalize ==
    /\ pc = "idle"
    /\ pc' = "final"
    /\ UNCHANGED <<polls, raw, batch, confirmed, errors, losses, rows, acked,
                   failed, status, faults>>

Flushing == pc \in {"capture", "final"}

\* _next_raw_batch, for the first attempt only: as many samples as fit one row.
NextBatch ==
    /\ Flushing /\ raw # <<>> /\ batch = 0
    /\ raw[1].poll \notin Oversize
    /\ \E n \in 1..Len(raw) :
          /\ n <= RowLimit
          /\ \A i \in 1..n : raw[i].poll \notin Oversize
          /\ batch' = n
    /\ UNCHANGED <<polls, raw, confirmed, errors, losses, rows, acked, failed, pc,
                   status, faults>>

Row == [id |-> confirmed, samples |-> SubSeq(raw, 1, batch)]

\* The acknowledged batch is forgotten and the next one begins.
Acknowledge ==
    /\ acked' = acked \o SubSeq(raw, 1, batch)
    /\ raw' = SubSeq(raw, batch + 1, Len(raw))
    /\ confirmed' = confirmed + 1
    /\ batch' = 0
    /\ UNCHANGED <<errors, pc, failed, status>>

WriteOk ==
    /\ Flushing /\ batch # 0
    /\ rows' = Append(rows, Row)
    /\ Acknowledge
    /\ UNCHANGED <<polls, losses, faults>>

\* The operator's logger: the row may or may not be in the file, and the caller
\* is not told.
WriteUnnoticed ==
    /\ nonfatal
    /\ Flushing /\ batch # 0 /\ faults < MaxWriteFaults
    /\ faults' = faults + 1 /\ losses' = losses + 1
    /\ rows' \in {rows, Append(rows, Row)}
    /\ Acknowledge
    /\ UNCHANGED polls

Storage == IF losses > 0 THEN "UNCONFIRMED_LOG_STORAGE_FAILURE"
           ELSE IF raw # <<>> THEN "WRITE_UNCONFIRMED"
           ELSE IF errors > 0 THEN "ACKNOWLEDGED_AFTER_RETRY"
           ELSE "ACKNOWLEDGED"

\* slip: the scene goes on without the sample
FlushRaisesQuietly ==
    /\ failed' = failed
    /\ IF pc = "final" THEN pc' = "closed" /\ status' = Storage
                       ELSE pc' = "idle" /\ UNCHANGED status
    /\ UNCHANGED <<polls, raw, batch, confirmed, losses, acked>>

\* slip: the batch is built anew
FlushRaisesForgets ==
    /\ failed' = TRUE
    /\ IF pc = "final" THEN pc' = "closed" /\ status' = Storage
                       ELSE pc' = "idle" /\ UNCHANGED status
    /\ UNCHANGED <<polls, raw, confirmed, losses, acked>>
    /\ batch' = 0

\* A flush that raises: the poll's sample is not captured, and the scene fails if
\* it has not already; finalize records what it has.
FlushRaises ==
    /\ failed' = TRUE
    /\ IF pc = "final" THEN pc' = "closed" /\ status' = Storage
                       ELSE pc' = "idle" /\ UNCHANGED status
    /\ UNCHANGED <<polls, raw, batch, confirmed, losses, acked>>

\* emit raises, before or after its row is in the file.
WriteFails ==
    /\ Flushing /\ batch # 0 /\ faults < MaxWriteFaults
    /\ faults' = faults + 1
    /\ errors' = errors + 1
    /\ rows' \in IF nonfatal THEN {rows} ELSE {rows, Append(rows, Row)}
    /\ FlushRaises

SampleTooLarge ==
    /\ Flushing /\ raw # <<>> /\ batch = 0
    /\ raw[1].poll \in Oversize
    /\ FlushRaises
    /\ UNCHANGED <<errors, rows, faults>>

Flushed ==
    /\ Flushing /\ raw = <<>>
    /\ IF pc = "capture"
       THEN raw' = <<Sample(polls)>> /\ pc' = "idle" /\ UNCHANGED status
       ELSE raw' = raw /\ pc' = "closed" /\ status' = Storage
    /\ UNCHANGED <<polls, batch, confirmed, errors, losses, rows, acked, failed, faults>>

Die == /\ pc \notin {"closed", "dead"}
       /\ pc' = "dead"
       /\ UNCHANGED <<polls, raw, batch, confirmed, errors, losses, rows, acked,
                      failed, status, faults>>

Next == /\ \/ PollInput \/ Geometry \/ SceneFails \/ Finalize \/ NextBatch \/ WriteOk
           \/ WriteUnnoticed \/ WriteFails \/ SampleTooLarge \/ Flushed \/ Die
        /\ UNCHANGED nonfatal

Spec == Init /\ [][Next]_vars

-----------------------------------------------------------------------------
(* The reader: the first row of every name, in the order of the file.      *)

FirstOfName(got, row) ==
    IF row.id \in got.names THEN got
    ELSE [names |-> got.names \cup {row.id}, samples |-> got.samples \o row.samples]

Got(log) ==
    LET got[n \in 0..Len(log)] ==
          IF n = 0 THEN [names |-> {}, samples |-> <<>>] ELSE FirstOfName(got[n - 1], log[n])
    IN  got

Read(log) == Got(log)[Len(log)]

Reader == Read(rows).samples

-----------------------------------------------------------------------------
TypeOK ==
    /\ nonfatal \in BOOLEAN
    /\ polls \in 0..MaxPolls /\ Len(raw) <= FlushAt /\ batch \in 0..Len(raw) /\ batch <= RowLimit
    /\ \A i \in 1..Len(raw) : raw[i] \in [poll : 1..MaxPolls, geo : BOOLEAN]
    /\ confirmed \in Nat /\ errors \in 0..MaxWriteFaults /\ losses \in 0..MaxWriteFaults
    /\ \A i \in 1..Len(rows) : rows[i].id <= confirmed
    /\ failed \in BOOLEAN /\ faults \in 0..MaxWriteFaults
    /\ pc \in {"idle", "capture", "final", "closed", "dead"}
    /\ status \in {"none", "ACKNOWLEDGED", "ACKNOWLEDGED_AFTER_RETRY",
                   "WRITE_UNCONFIRMED", "UNCONFIRMED_LOG_STORAGE_FAILURE"}

\* An input that was polled is either still held, or acknowledged, or was dropped
\* by a flush that failed the scene: a valid scene has no hole in its input.
NoHoleInAValidScene ==
    pc \in {"idle", "final", "closed"} /\ ~failed =>
        [i \in 1..Len(acked \o raw) |-> (acked \o raw)[i].poll] = [i \in 1..polls |-> i]

\* The storage status of the record is what the file is: acknowledged means that
\* the reader gets every sample the scene took, and a repeated batch is announced.
HonestStorage ==
    /\ status \in {"ACKNOWLEDGED", "ACKNOWLEDGED_AFTER_RETRY"} => Reader = acked
    /\ status = "ACKNOWLEDGED" => \A i, j \in 1..Len(rows) : rows[i].id = rows[j].id => i = j
    /\ losses = 0 => IsPrefix(acked, Reader) /\ IsPrefix(Reader, acked \o raw)

\* With a logger that raises, the reader's view implements SampleStream.
Stream == INSTANCE SampleStream
    WITH taken  <- IF nonfatal THEN <<>> ELSE acked \o raw,
         stored <- IF nonfatal THEN <<>> ELSE Reader
StreamSpec == Stream!Spec

\* The raw samples of a scene are whole as far as its record says so: none is missing
\* among those held and stored, and what is called stored is what a reader finds.
SamplesAreWhole == TypeOK /\ NoHoleInAValidScene /\ HonestStorage
=============================================================================
