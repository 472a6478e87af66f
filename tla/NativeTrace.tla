----------------------------- MODULE NativeTrace -----------------------------
(***************************************************************************)
(* The native Traffic Manager of a rehearsal and the collector that reads  *)
(* its diagnostic trace.                                                   *)
(*                                                                         *)
(* Before the trace is on: the port is attested before and after the       *)
(* manager is created, and the rehearsal's inventory is looked at until    *)
(* the ego vehicle is seen alone.  After it: the manager's thread appends  *)
(* records to a ring, the frame loop polls a copy of the ring and writes   *)
(* what it has not written yet, and the close reads once more before and   *)
(* once after the trace is switched off.  A record is its place in what    *)
(* the manager did; the ring is read oldest record first.                  *)
(***************************************************************************)
EXTENDS Integers, Sequences, FiniteSets

CONSTANTS
    Capacity,       \* NativeTrafficManagerDiagnosticsConfig.capacity
    MaxRecords,     \* bound: records the manager makes
    MaxFrame,       \* bound: frames of the world during the barrier
    MaxFaults       \* bound: writes and calls that raise

ASSUME TraceAssumption ==
    /\ Capacity \in Nat \ {0}
    /\ MaxRecords \in Nat /\ MaxFrame \in Nat /\ MaxFaults \in Nat

VARIABLES
    step,       \* where the run and its collector are
    port,       \* who listens on the manager's port, and whether ours is local
    barrier,    \* the world's frame and the barrier's last look at it
    trace,      \* the native side: switch, ring, records made, losses
    collector,  \* rows written and counted, those remembered, the native rows that the
                \* file holds, losses reported, error
    traceFaults \* bound: traceFaults met

traceVars == <<step, port, barrier, trace, collector, traceFaults>>

Preparing ==
    {"verify", "verify again", "create", "attest", "look", "judge", "wait", "owned"}

TraceInit ==
    /\ step = "verify"
    \* this process listens already when an earlier stage made its manager
    /\ port \in [owners : SUBSET {"me", "other"}, local : {FALSE}, attested : {FALSE}]
    /\ barrier = [frame |-> 0, visible |-> FALSE, alien |-> FALSE, before |-> 0,
                  after |-> 0, required |-> 0]
    /\ trace = [on |-> FALSE, ring |-> <<>>, made |-> 0, over |-> 0, dropped |-> 0]
    /\ collector = [rows |-> <<>>, seen |-> <<>>, file |-> <<>>, over |-> 0, dropped |-> 0,
                    failed |-> FALSE]
    /\ traceFaults = 0

TraceFault == traceFaults < MaxFaults /\ traceFaults' = traceFaults + 1
NoFault == UNCHANGED traceFaults

(***************************************************************************)
(* The port.                                                               *)
(***************************************************************************)
\* Another process begins or ceases to listen on the port.
OtherListens ==
    /\ step \in Preparing
    /\ \E owners \in {port.owners \cup {"other"}, port.owners \ {"other"}} :
        /\ owners # port.owners
        /\ port' = [port EXCEPT !.owners = owners]
    /\ UNCHANGED <<step, barrier, trace, collector, traceFaults>>

\* The library's path and hash are wrong, or the port has a foreign listener.
VerifyBeforeCreation ==
    /\ step \in {"verify", "verify again"}
    /\ \/ /\ port.owners \in {{}, {"me"}}
          /\ step' = IF step = "verify" THEN "verify again" ELSE "create"
       \/ step' = "refused"
    /\ UNCHANGED <<port, barrier, trace, collector, traceFaults>>

\* client.get_trafficmanager: a manager of this process, or a client of the one
\* that another process serves on the port.
CreateManager ==
    /\ step = "create"
    /\ LET local == "me" \in port.owners \/ port.owners = {}
       IN  port' = [port EXCEPT !.local = local,
                                !.owners = IF local THEN @ \cup {"me"} ELSE @]
    /\ step' = "attest"
    /\ UNCHANGED <<barrier, trace, collector, traceFaults>>

\* slip: a port on which nobody listens any more is taken for ours.
TolerantAttest ==
    /\ step = "attest"
    /\ IF port.owners \subseteq {"me"}
       THEN port' = [port EXCEPT !.attested = TRUE] /\ step' = "look"
       ELSE step' = "refused" /\ UNCHANGED port
    /\ UNCHANGED <<barrier, trace, collector, traceFaults>>

AttestAfterCreation ==
    /\ step = "attest"
    /\ IF port.owners = {"me"}
       THEN port' = [port EXCEPT !.attested = TRUE] /\ step' = "look"
       ELSE step' = "refused" /\ UNCHANGED port
    /\ UNCHANGED <<barrier, trace, collector, traceFaults>>

(***************************************************************************)
(* The rehearsal's inventory.                                              *)
(***************************************************************************)
\* A frame of the world: the ego vehicle comes into sight, another actor may.
WorldMoves ==
    /\ step \in {"look", "judge", "wait"}
    /\ barrier.frame < MaxFrame
    /\ \E visible, alien \in BOOLEAN :
        /\ barrier.visible => visible
        /\ barrier' = [barrier EXCEPT !.frame = @ + 1, !.visible = visible,
                                      !.alien = alien]
    /\ UNCHANGED <<step, port, trace, collector, traceFaults>>

\* The frame before the actors are asked for; the local stream may be behind.
TakeLook ==
    /\ step = "look"
    /\ \E frame \in {barrier.frame, barrier.frame - 1} \cap Nat :
        barrier' = [barrier EXCEPT !.before = frame]
    /\ step' = "judge"
    /\ UNCHANGED <<port, trace, collector, traceFaults>>

\* Only a missing ego vehicle without a conflicting actor is looked for again;
\* a query that raises, a conflict, a stale frame and a deadline end the barrier.
Judge ==
    /\ step = "judge"
    /\ \/ /\ ~barrier.alien /\ barrier.before >= barrier.required
          /\ step' = IF barrier.visible THEN "owned" ELSE "wait"
          /\ barrier' = [barrier EXCEPT !.after = barrier.frame]
       \/ step' = "refused" /\ UNCHANGED barrier
    /\ UNCHANGED <<port, trace, collector, traceFaults>>

\* wait_for_tick: a newer frame, or the barrier ends.
WaitForTick ==
    /\ step = "wait"
    /\ \/ /\ barrier.frame > barrier.after
          /\ step' = "look"
          /\ barrier' = [barrier EXCEPT !.required = barrier.frame]
       \/ step' = "refused" /\ UNCHANGED barrier
    /\ UNCHANGED <<port, trace, collector, traceFaults>>

\* The binary is the diagnostic one and the port is still ours.
VerifyOwned ==
    /\ step = "owned"
    /\ \/ port.owners = {"me"} /\ step' = "open"
       \/ step' = "refused"
    /\ UNCHANGED <<port, barrier, trace, collector, traceFaults>>

(***************************************************************************)
(* The native trace.                                                       *)
(***************************************************************************)
\* The manager's thread records an event, over the oldest record of a full
\* ring, or loses it to a reader that holds the ring.
Record ==
    /\ trace.on
    /\ trace.made < MaxRecords
    /\ \/ LET full == Len(trace.ring) = Capacity
              kept == IF full THEN Tail(trace.ring) ELSE trace.ring
          IN  trace' = [trace EXCEPT !.made = @ + 1,
                                     !.ring = Append(kept, trace.made + 1),
                                     !.over = IF full THEN @ + 1 ELSE @]
       \/ trace' = [trace EXCEPT !.made = @ + 1, !.dropped = @ + 1]
    /\ UNCHANGED <<step, port, barrier, collector, traceFaults>>

(***************************************************************************)
(* The collector.                                                          *)
(***************************************************************************)
RowsWritten == collector.rows
File == collector.file
Seen == collector.seen
Known(record) == \E i \in DOMAIN Seen : Seen[i] = record

\* What a sequence holds at some of its places, in their order.
Selected(records, places) ==
    [n \in 1..Cardinality(places) |->
        records[CHOOSE i \in places : Cardinality({j \in places : j <= i}) = n]]

\* What a snapshot holds beyond what is remembered.
Unseen == {i \in DOMAIN trace.ring : ~Known(trace.ring[i])}
News == Selected(trace.ring, Unseen)

\* The collector remembers as many records as the ring holds.
Remembered(written) ==
    LET all == Seen \o written
        cut == IF Len(all) > Capacity THEN Len(all) - Capacity ELSE 0
    IN  SubSeq(all, cut + 1, Len(all))

\* `written' are remembered of what the file was given.
Write(written, given) ==
    [collector EXCEPT !.rows = @ \o written, !.seen = Remembered(written),
                      !.file = @ \o given,
                      !.over = trace.over, !.dropped = trace.dropped]

\* One read of the trace in full: the receipt, then every record not seen.
Capture ==
    /\ collector' = Write(News, News)
    /\ NoFault

\* The read raises, the answer is refused, the receipt or a record cannot be written: what
\* was written stays written and remembered, but for the row whose own flush raised, or
\* behind which an interruption came: that one may be in the file and is not remembered.
CaptureRaises ==
    /\ TraceFault
    /\ \/ collector' = [collector EXCEPT !.failed = TRUE]
       \/ \E n \in 0..Len(News), m \in 0..Len(News) :
            /\ m \in {n, n + 1}
            /\ collector' = [Write(SubSeq(News, 1, n), SubSeq(News, 1, m))
                                EXCEPT !.failed = TRUE]

ObserverFailed == collector' = [collector EXCEPT !.failed = TRUE]

\* The file exists already, or its header cannot be written: nothing is enabled.
OpenRaises ==
    /\ step = "open"
    /\ TraceFault
    /\ step' = "refused"
    /\ UNCHANGED <<port, barrier, trace, collector>>

Enable ==
    /\ step = "open"
    /\ step' = "initial"
    /\ trace' = [trace EXCEPT !.on = TRUE]
    /\ UNCHANGED <<port, barrier, collector, traceFaults>>

\* The trace cannot be enabled: it is disabled, and the file closed.
EnableRaises ==
    /\ step = "open"
    /\ TraceFault
    /\ step' = "refused"
    /\ ObserverFailed
    /\ UNCHANGED <<port, barrier, trace>>

\* The first read follows the switch; if it raises, the trace is disabled, unless
\* that raises too.
Initial ==
    /\ step = "initial"
    /\ \/ Capture /\ step' = "running" /\ UNCHANGED trace
       \/ /\ CaptureRaises
          /\ step' = "refused"
          /\ \E on \in BOOLEAN : trace' = [trace EXCEPT !.on = on]
    /\ UNCHANGED <<port, barrier>>

\* A poll that is due; one that raises ends the drive.
Poll ==
    /\ step = "running"
    /\ \/ Capture /\ UNCHANGED step
       \/ CaptureRaises /\ step' = "final enabled"
    /\ UNCHANGED <<port, barrier, trace>>

\* The drive ends, by itself or by an operator's interruption, which is latched.
EndDrive ==
    /\ step = "running"
    /\ step' = "final enabled"
    /\ \/ UNCHANGED collector
       \/ ObserverFailed
    /\ UNCHANGED <<port, barrier, trace, traceFaults>>

FinalEnabled ==
    /\ step = "final enabled"
    /\ Capture \/ CaptureRaises
    /\ step' = "disable"
    /\ UNCHANGED <<port, barrier, trace>>

SwitchOff ==
    /\ step = "disable"
    /\ step' = "final disabled"
    /\ \/ trace' = [trace EXCEPT !.on = FALSE] /\ UNCHANGED collector /\ NoFault
       \/ TraceFault /\ ObserverFailed /\ UNCHANGED trace
    /\ UNCHANGED <<port, barrier>>

\* A trace that is still on refuses the last read.
FinalDisabled ==
    /\ step = "final disabled"
    /\ IF trace.on THEN ObserverFailed /\ NoFault ELSE Capture \/ CaptureRaises
    /\ step' = "summary"
    /\ UNCHANGED <<port, barrier, trace>>

\* The summary is written and the file closed; either may raise.
WriteSummary ==
    /\ step = "summary"
    /\ step' = "closed"
    /\ \/ UNCHANGED collector /\ NoFault
       \/ TraceFault /\ ObserverFailed
    /\ UNCHANGED <<port, barrier, trace>>

TraceNext ==
    \/ OtherListens \/ VerifyBeforeCreation \/ CreateManager \/ AttestAfterCreation
    \/ WorldMoves \/ TakeLook \/ Judge \/ WaitForTick \/ VerifyOwned
    \/ Record
    \/ OpenRaises \/ Enable \/ EnableRaises \/ Initial \/ Poll \/ EndDrive
    \/ FinalEnabled \/ SwitchOff \/ FinalDisabled \/ WriteSummary

TraceSpec == TraceInit /\ [][TraceNext]_traceVars

(***************************************************************************)
(* What the trace promises.                                                *)
(***************************************************************************)
Coverage ==
    IF collector.failed THEN "FAILED_OBSERVER"
    ELSE IF collector.dropped > 0 THEN "INCOMPLETE_NATIVE_DROP"
    ELSE IF collector.over > 0 THEN "UNKNOWN_OVERWRITE"
    ELSE "COMPLETE"

\* The file of a drive that reports COMPLETE coverage holds every record that the
\* manager made while the trace was on, in their order: also those made between
\* the last read and the moment the trace was switched off.
CompleteIsComplete ==
    step = "closed" /\ Coverage = "COMPLETE" => File = [i \in 1..trace.made |-> i]

\* However often the ring is read and however far it has moved on between two reads, no
\* record is counted twice, although only as many are remembered as the ring holds; each
\* one counted is in the file; and the file is in order, a record twice in it only after
\* an error that the report names, its copies side by side.
NothingTwice ==
    /\ \A i, j \in DOMAIN RowsWritten : RowsWritten[i] = RowsWritten[j] => i = j
    /\ \A i \in DOMAIN RowsWritten : \E j \in DOMAIN File : File[j] = RowsWritten[i]
    /\ \A i, j \in DOMAIN File : i < j =>
         File[i] < File[j] \/ (collector.failed /\ File[i] = File[j])

\* An attested manager runs in this process: neither a listener that came before
\* the manager was created nor one that left before it was attested makes a
\* client of another process's manager pass.
AttestedIsLocal == port.attested => port.local

\* The trace that a drive reports is its own manager's, whole and without repetition.
TraceIsTrue == CompleteIsComplete /\ NothingTwice /\ AttestedIsLocal

(***************************************************************************)
(* The inductive invariant behind it (PartsProofs).                        *)
(***************************************************************************)
Traces == [on : BOOLEAN, ring : Seq(Nat), made : Nat, over : Nat, dropped : Nat]
Collectors == [rows : Seq(Nat), seen : Seq(Nat), file : Seq(Nat), over : Nat, dropped : Nat, failed : BOOLEAN]

Increasing(s) == \A i, j \in DOMAIN s : i < j => s[i] < s[j]
Within(s, n) == \A i \in DOMAIN s : 1 <= s[i] /\ s[i] <= n
FromFirst(s) == \A i \in DOMAIN s : s[i] = i

RingInv ==
    /\ trace \in Traces /\ Len(trace.ring) <= Capacity
    /\ Increasing(trace.ring) /\ Within(trace.ring, trace.made)
    \* nothing is lost while the ring has room and no reader holds it
    /\ trace.over = 0 /\ trace.dropped = 0 =>
          Len(trace.ring) = trace.made /\ FromFirst(trace.ring)

\* The latest rows are remembered, as many as the ring holds.
SeenInv ==
    /\ collector \in Collectors
    /\ Increasing(RowsWritten) /\ Within(RowsWritten, trace.made)
    /\ Len(Seen) <= Len(RowsWritten) /\ Len(Seen) <= Capacity
    /\ Len(Seen) \in {Len(RowsWritten), Capacity}
    /\ \A i \in DOMAIN Seen : Seen[i] = RowsWritten[Len(RowsWritten) - Len(Seen) + i]

\* What is written has no gap that the ring could still fill, on either side.
WrittenInv ==
    /\ \A i \in DOMAIN RowsWritten, j \in DOMAIN trace.ring :
         RowsWritten[i] >= trace.ring[j] =>
            \E k \in DOMAIN trace.ring : trace.ring[k] = RowsWritten[i]
    /\ \A i \in DOMAIN RowsWritten, j \in DOMAIN trace.ring :
         RowsWritten[i] >= trace.ring[j] =>
            \E k \in DOMAIN RowsWritten : RowsWritten[k] = trace.ring[j]

\* The file holds what is counted, and nothing that the ring would still add before it.
FileInv ==
    /\ \A i, j \in DOMAIN File : i < j => File[i] <= File[j]
    /\ Within(File, trace.made)
    /\ \A i \in DOMAIN RowsWritten : \E j \in DOMAIN File : File[j] = RowsWritten[i]
    /\ \A i \in DOMAIN File, j \in DOMAIN trace.ring :
         trace.ring[j] < File[i] => \E k \in DOMAIN RowsWritten : RowsWritten[k] >= trace.ring[j]
    /\ ~collector.failed => File = RowsWritten

\* After the last read of a trace that is off, the rows are what the ring has shown.
ClosedInv ==
    /\ trace.over = 0 /\ trace.dropped = 0 => FromFirst(RowsWritten)
    /\ step \in {"summary", "closed"} /\ ~collector.failed =>
          /\ ~trace.on /\ collector.over = trace.over /\ collector.dropped = trace.dropped
          /\ trace.over = 0 /\ trace.dropped = 0 => Len(RowsWritten) = trace.made

\* Whose manager it is was settled before it was attested.
AttestInv ==
    /\ port \in [owners : SUBSET {"me", "other"}, local : BOOLEAN, attested : BOOLEAN]
    /\ step \in {"verify", "verify again", "create", "attest"} => ~port.attested
    /\ step = "attest" /\ "me" \in port.owners => port.local
    /\ AttestedIsLocal

TraceInv == RingInv /\ SeenInv /\ WrittenInv /\ FileInv /\ ClosedInv /\ AttestInv
=============================================================================
