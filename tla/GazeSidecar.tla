---- MODULE GazeSidecar ----
(* The gaze sidecar file: a source's thread captures samples into a bounded queue    *)
(* under the capture lock, a worker writes them, and close ends both.  A sample is   *)
(* written, overflowed, or unconfirmed in the shutdown report: the one whose write or  *)
(* flush raised may be in the file as well.                                          *)
EXTENDS Integers, Sequences, FiniteSets

CONSTANTS GazeCapacity,  \* queue_capacity of the writer
          Samples,       \* bound: samples that the source emits
          NoSample

ASSUME GazeAssumption == GazeCapacity \in Nat \ {0} /\ Samples \in Nat /\ NoSample \notin Nat

VARIABLES source,  \* SyntheticGazeSource: its thread and the samples it emitted
          gaze     \* GazeSidecarWriter

gazeVars == <<source, gaze>>

GazeInit ==
    /\ source = [thread |-> "none", stop |-> FALSE, refused |-> FALSE]
    /\ gaze = [accepting |-> TRUE, stop |-> FALSE, queue |-> << >>, index |-> 0,
               worker |-> "none", item |-> NoSample, pending |-> {}, swapped |-> {},
               file |-> << >>, overflow |-> {}, unconfirmed |-> {}, error |-> FALSE,
               report |-> "none"]

WorkerAlive == gaze.worker \notin {"none", "dead"}

\* start and _launch
GazeStart ==
    /\ gaze.accepting
    /\ gaze' = [gaze EXCEPT !.worker = IF @ = "none" THEN "loop" ELSE @]
    /\ UNCHANGED source

\* SyntheticGazeSource.subscribe
Subscribe ==
    /\ source' = [source EXCEPT !.thread = "alive", !.stop = FALSE]
    /\ UNCHANGED gaze

\* capture, under the capture lock: a closing writer refuses the sample, and the refusal
\* ends the source's thread; a full queue makes it an overflow.
Captured ==
    /\ source.thread = "alive" /\ ~source.stop /\ gaze.index < Samples
    /\ IF ~gaze.accepting
       THEN source' = [source EXCEPT !.thread = "dead", !.refused = TRUE] /\ UNCHANGED gaze
       ELSE /\ gaze' = IF Len(gaze.queue) < GazeCapacity
                       THEN [gaze EXCEPT !.queue = Append(@, gaze.index), !.index = @ + 1]
                       ELSE [gaze EXCEPT !.overflow = @ \cup {gaze.index}, !.index = @ + 1,
                                         !.pending = @ \cup {gaze.index}]
            /\ UNCHANGED source

\* _run ends between two samples.
SourceEnds ==
    /\ source.thread = "alive" /\ source.stop
    /\ source' = [source EXCEPT !.thread = "dead"]
    /\ UNCHANGED gaze

\* unsubscribe: the thread is told to stop and joined for two seconds, then let go.
Unsubscribe == source' = [source EXCEPT !.stop = TRUE] /\ UNCHANGED gaze

-----------------------------------------------------------------------------
(* The worker                                                               *)

\* The loop's head: with a stop and an empty queue the last overflow is still written.
WorkerTakes ==
    /\ gaze.worker = "loop"
    /\ IF gaze.queue # << >>
       THEN gaze' = [gaze EXCEPT !.queue = Tail(@), !.item = Head(gaze.queue), !.worker = "swap"]
       ELSE gaze.stop /\ gaze' = [gaze EXCEPT !.worker = "swap"]
    /\ UNCHANGED source

\* _write_overflow: the summary is taken under the lock ...
WorkerSwaps ==
    /\ gaze.worker = "swap"
    /\ gaze' = [gaze EXCEPT !.swapped = gaze.pending, !.pending = {}, !.worker = "write"]
    /\ UNCHANGED source

\* A row of the file and the samples it tells of: its own, or those that its overflow's
\* count, first and last were taken from.
GazeRow(kind, samples) == [kind |-> kind, samples |-> samples]

OverflowRow == IF gaze.swapped = {} THEN << >> ELSE <<GazeRow("overflow", gaze.swapped)>>
SampleRow == IF gaze.item = NoSample THEN << >> ELSE <<GazeRow("gaze", {gaze.item})>>

\* ... and written without it, before the sample in hand.
WorkerWrites ==
    /\ gaze.worker = "write"
    /\ gaze' = [gaze EXCEPT !.file = @ \o OverflowRow \o SampleRow,
                            !.item = NoSample, !.swapped = {},
                            !.worker = IF gaze.item = NoSample THEN "drain" ELSE "loop"]
    /\ UNCHANGED source

\* A write or the flush raises: none of the turn's rows, the overflow's or all of them
\* are in the file, the sample in hand is unconfirmed either way, and the worker waits to
\* be closed before it leaves the queue.
WorkerFails ==
    /\ gaze.worker = "write" /\ (gaze.swapped # {} \/ gaze.item # NoSample)
    /\ \E file \in {gaze.file, gaze.file \o OverflowRow, gaze.file \o OverflowRow \o SampleRow} :
         gaze' = [gaze EXCEPT !.file = file, !.error = TRUE, !.swapped = {},
                              !.item = NoSample, !.worker = "wait",
                              !.unconfirmed = IF gaze.item = NoSample THEN @ ELSE @ \cup {gaze.item}]
    /\ UNCHANGED source

WorkerWaits ==
    /\ gaze.worker = "wait" /\ gaze.stop
    /\ gaze' = [gaze EXCEPT !.worker = "drain"]
    /\ UNCHANGED source

\* The rest of the queue is unconfirmed; the file is closed and the report is written.
WorkerDrains ==
    /\ gaze.worker = "drain"
    /\ \E ok \in BOOLEAN :
         gaze' = [gaze EXCEPT !.unconfirmed = @ \cup {gaze.queue[i] : i \in 1..Len(gaze.queue)},
                              !.queue = << >>, !.worker = "dead",
                              !.report = IF ok THEN "stored" ELSE "failed", !.error = @ \/ ~ok]
    /\ UNCHANGED source

Worker == WorkerTakes \/ WorkerSwaps \/ WorkerWrites \/ WorkerFails \/ WorkerWaits \/ WorkerDrains

\* close, up to the join: no sample is accepted any more; a worker that was never started
\* is, so that the file is closed.
GazeCloses ==
    /\ gaze' = [gaze EXCEPT !.accepting = FALSE, !.stop = TRUE,
                            !.worker = IF @ = "none" THEN "loop" ELSE @]
    /\ UNCHANGED source

-----------------------------------------------------------------------------
(* Properties                                                               *)

ToldBy(kind) ==
    UNION {gaze.file[i].samples : i \in {j \in 1..Len(gaze.file) : gaze.file[j].kind = kind}}
Written == ToldBy("gaze")
Told == ToldBy("overflow")

\* Once the writer's file is closed, every callback index that was given out is in the
\* file, in the overflow range or in the unconfirmed range.  An overflow is in neither of
\* the others; the file comes before the unconfirmed ones, so that the two share at most
\* the sample whose own write or flush raised.  No two rows tell of one sample, and when
\* nothing failed the file's own overflow rows tell every sample that is missing.
EverySampleIsAccounted ==
    gaze.worker = "dead" =>
      /\ Written \cup gaze.overflow \cup gaze.unconfirmed = 0..(gaze.index - 1)
      /\ gaze.overflow \cap (Written \cup gaze.unconfirmed) = {}
      /\ \A w \in Written, u \in gaze.unconfirmed : w <= u
      /\ \A i, j \in 1..Len(gaze.file) :
           i # j => gaze.file[i].samples \cap gaze.file[j].samples = {}
      /\ (~gaze.error => gaze.unconfirmed = {} /\ Told = gaze.overflow)
====
