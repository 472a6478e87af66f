--------------------------- MODULE GazeProofs ---------------------------
(***************************************************************************)
(* Proofs about PilotGaze, the gaze of a module from its check to its      *)
(* capture: each label is of its own window and defined before it is used, *)
(* each counted interval has its two samples, an area is analysed only if  *)
(* it was measured, and what was moved to the results is written no more,  *)
(* for any number of samples, window changes, attempts and failures.       *)
(***************************************************************************)
EXTENDS PilotGaze, FiniteSetTheorems, SequenceTheorems, TLAPS

Modes == {"none", "window", "full"}
Times == Nat \cup {NoTime}

Views ==
  [pc : {"enter", "drive", "replace", "join", "move", "left"}, mode : Modes, pub : Times,
   key : Modes, toggles : Nat, ended : Times]
Summaries == [eligible : SUBSET AOIS, failed : BOOLEAN]
Captures ==
  [pc : {"none", "mkdir", "discover", "loop", "unsubscribe", "drain", "finish", "dead"},
   stop : BOOLEAN, started : Times, failed : BOOLEAN, eligible : SUBSET AOIS,
   dir : {"none", "pending", "moved"}, summary : {<< >>} \cup Summaries,
   tablet : {"none", "unbound", "bound", "mismatch"}]
Geometries == [mode : Modes, key : Modes, evidence : Modes, id : Modes]
Callbacks == [t : Nat, seq : Nat, look : Looks, seen : Modes]
Pipes == [state : {"none", "runs", "over"}, lines : Seq(Callbacks), sent : Nat, seq : Nat]
Receivers ==
  [pc : {"none", "bind", "read", "map", "probe", "recheck", "assign", "row", "exit", "dead"},
   item : Seq(Callbacks), pub : Times, snap : Modes, reason : {"none", "unmapped"},
   failed : BOOLEAN]
GazeRows ==
  [kind : {"gaze"}, t : Nat, seq : Nat, seen : Modes, state : States, id : Modes, by : Modes]
MappingRows == [kind : {"mapping"}, mode : Modes, defines : BOOLEAN]
FileRows == GazeRows \cup MappingRows
CaptureTypes ==
  /\ now \in Nat \ {0} /\ view \in Views /\ cap \in Captures /\ geo \in Geometries
  /\ pipe \in Pipes /\ Len(pipe.lines) <= 1 /\ rec \in Receivers /\ file \in Seq(FileRows)
  /\ dur = NoStart \/ dur \in Durations

\* A sample that was called back after the window that is published now was presented saw
\* that window: it has not been replaced since.
SeenTruly(s) ==
  s.t < now /\ (view.pub # NoTime /\ s.t >= view.pub => s.seen = view.key)

WindowInv ==
  /\ view.pub # NoTime => /\ view.pc = "drive" /\ view.pub < now
                          /\ view.key = view.mode /\ view.key # "none"
  /\ view.pc \in {"enter", "drive"} => view.mode # "none"
  /\ view.pc \in {"join", "move"} => view.ended # NoTime
  /\ pipe.lines # << >> => SeenTruly(pipe.lines[1])
  /\ rec.item # << >> => SeenTruly(rec.item[1])

\* The geometry that is kept is that of one window, and its mapping is in the file.
Defined(mode) == \E j \in Rows("mapping") : file[j].defines /\ file[j].mode = mode

GeometryInv ==
  /\ geo.key # "none" => geo.mode = geo.key /\ geo.id = geo.key
  /\ geo.evidence = geo.id
  /\ geo.id # "none" => Defined(geo.id)

\* The sample in the receiver's hands, step by step of its mapping.
ReceiverInv ==
  /\ rec.pc \in {"map", "probe", "recheck", "assign", "row"} => rec.item # << >>
  /\ rec.pc \in {"probe", "recheck"} =>
       rec.pub # NoTime /\ rec.pub < now /\ rec.item[1].t >= rec.pub
  /\ rec.pc = "recheck" /\ view.pub = rec.pub => rec.snap = view.mode
  /\ rec.pc = "assign" => rec.snap = rec.item[1].seen /\ rec.snap # "none"
  /\ rec.pc \in {"map", "probe", "recheck", "assign"} => rec.reason = "none"
  /\ rec.pc = "row" /\ rec.reason = "none" =>
       geo.mode = rec.item[1].seen /\ geo.id = geo.mode /\ geo.id # "none"

\* Which thread may still do what: the gaze thread keeps the files until the receiver has
\* stopped, and the directory is moved when both have.
ThreadsInv ==
  /\ view.pc = "enter" => cap.pc = "none"
  /\ cap.pc = "none" => /\ ~cap.failed /\ cap.eligible = {} /\ cap.summary = << >>
                        /\ cap.tablet = "none" /\ cap.dir = "none"
  /\ cap.pc # "none" => cap.started # NoTime
  /\ cap.pc \in {"none", "mkdir", "discover"} => rec.pc = "none"
  /\ cap.pc \in {"finish", "dead"} => rec.pc \in {"none", "exit", "dead"}
  /\ cap.pc \in {"discover", "loop", "unsubscribe", "drain"} => dur \in Durations
  /\ view.pc = "move" => cap.pc = "dead"
  /\ cap.dir = "moved" => cap.pc = "dead" /\ view.pc = "left"
  /\ cap.summary # << >> => cap.pc = "dead"

\* The intervals cover the window of the stage, and each that counts has its samples.
SeenAt(t, seq, state) ==
  \E i \in Rows("gaze") : file[i].t = t /\ file[i].seq = seq /\ file[i].state = state

Witnessed(row) ==
  row.state \notin Duration!Unknown =>
    \E i, j \in Rows("gaze") :
      /\ file[i].t = row.from /\ file[j].t = row.to
      /\ file[j].seq = file[i].seq + 1 /\ {file[i].state, file[j].state} = {row.state}

Covers(d) ==
  /\ Duration!Partition(d)
  /\ d.rows = << >> => d.edge = d.start

AllWitnessed(rows) == \A k \in 1..Len(rows) : Witnessed(rows[k])
PreviousSeen(d) == d.previous # << >> => SeenAt(d.edge, d.previous[1], d.previous[2])
Receiving == rec.pc \notin {"none", "exit", "dead"}

DurationInv ==
  dur # NoStart => /\ Covers(dur) /\ AllWitnessed(dur.rows)
                   /\ Receiving => PreviousSeen(dur)
                   /\ rec.pc = "none" => dur.previous = << >>

\* An area is eligible while nothing failed, and the tablet only where it is bound.
EligibleInv ==
  /\ cap.failed => cap.eligible = {}
  /\ cap.tablet = "mismatch" => "TABLET" \notin cap.eligible
  /\ cap.summary # << >> =>
       /\ cap.summary.failed => cap.summary.eligible = {}
       /\ cap.tablet = "mismatch" => "TABLET" \notin cap.summary.eligible

FileInv == NoForeignWindow /\ MappingIsDefined

CaptureInv ==
  /\ CaptureTypes /\ WindowInv /\ GeometryInv /\ ReceiverInv /\ ThreadsInv
  /\ DurationInv /\ EligibleInv /\ FileInv

\* Before the stage no thread runs and nothing was written.
LEMMA CaptureInvInit == CaptureInit => CaptureInv
<1> SUFFICES ASSUME CaptureInit PROVE CaptureInv  OBVIOUS
<1> DEFINE empty == << >>
<1>1. empty \in Seq(Callbacks) /\ Len(empty) = 0 /\ empty \in Seq(FileRows)  OBVIOUS
<1>2. /\ now = 1 /\ file = empty /\ dur = NoStart
      /\ view = [pc |-> "enter", mode |-> "window", pub |-> NoTime, key |-> "none",
                 toggles |-> 0, ended |-> NoTime]
      /\ cap = [pc |-> "none", stop |-> FALSE, started |-> NoTime, failed |-> FALSE,
                eligible |-> {}, dir |-> "none", summary |-> << >>, tablet |-> "none"]
      /\ geo = [mode |-> "none", key |-> "none", evidence |-> "none", id |-> "none"]
      /\ pipe = [state |-> "none", lines |-> empty, sent |-> 0, seq |-> 0]
      /\ rec = [pc |-> "none", item |-> empty, pub |-> NoTime, snap |-> "none",
                reason |-> "none", failed |-> FALSE]
  BY DEF CaptureInit
<1> HIDE DEF empty
<1>3. view \in Views /\ cap \in Captures /\ geo \in Geometries
  BY <1>2 DEF Views, Captures, Geometries, Times, Modes
<1>4. pipe \in Pipes /\ rec \in Receivers /\ pipe.lines = empty /\ rec.item = empty
  BY <1>1, <1>2 DEF Pipes, Receivers, Times, Modes
<1>5. CaptureTypes  BY <1>1, <1>2, <1>3, <1>4 DEF CaptureTypes
<1>6. /\ view.pc = "enter" /\ view.mode = "window" /\ view.pub = NoTime /\ cap.pc = "none" /\ geo.key = "none"
      /\ geo.evidence = "none" /\ geo.id = "none" /\ rec.pc = "none" /\ cap.failed = FALSE
      /\ cap.eligible = {} /\ cap.summary = << >> /\ cap.tablet = "none" /\ cap.dir = "none"
      /\ pipe.lines = << >> /\ rec.item = << >> /\ file = << >>
  BY <1>2 DEF empty
<1>7. WindowInv /\ ThreadsInv /\ EligibleInv  BY <1>6 DEF WindowInv, ThreadsInv, EligibleInv
<1>8. GeometryInv /\ ReceiverInv  BY <1>6 DEF GeometryInv, ReceiverInv
<1>9. DurationInv  BY <1>2 DEF DurationInv
<1>10. FileInv  BY <1>6 DEF FileInv, NoForeignWindow, MappingIsDefined, Rows
<1> QED  BY <1>5, <1>7, <1>8, <1>9, <1>10 DEF CaptureInv

\* The file only grows: what it defines and witnesses it keeps.
LEMMA FileGrows ==
  ASSUME file \in Seq(FileRows), NEW r \in FileRows, file' = Append(file, r)
  PROVE  /\ file' \in Seq(FileRows) /\ Len(file') = Len(file) + 1 /\ file'[Len(file) + 1] = r
         /\ \A i \in 1..Len(file) : file'[i] = file[i]
         /\ \A kind : \A i \in Rows(kind) : i \in Rows(kind)' /\ file'[i] = file[i]
         /\ Len(file) + 1 \in Rows(r.kind)'
<1>1. /\ file' \in Seq(FileRows) /\ Len(file') = Len(file) + 1 /\ file'[Len(file) + 1] = r
      /\ \A i \in 1..Len(file) : file'[i] = file[i] /\ Len(file) \in Nat
  OBVIOUS
<1>2. \A kind : \A i \in Rows(kind) : i \in Rows(kind)' /\ file'[i] = file[i]  BY <1>1 DEF Rows
<1>3. Len(file) \in Nat  OBVIOUS
<1>4. Len(file) + 1 \in 1..Len(file')  BY <1>1, <1>3
<1>5. Len(file) + 1 \in Rows(r.kind)'  BY <1>1, <1>4 DEF Rows
<1> QED  BY <1>1, <1>2, <1>5

\* A file that only grows loses no definition and no witness.
LEMMA FileKeeps ==
  ASSUME file \in Seq(FileRows),
         UNCHANGED file \/ \E r \in FileRows : file' = Append(file, r)
  PROVE  /\ \A mode : Defined(mode) => Defined(mode)'
         /\ \A rows : AllWitnessed(rows) => AllWitnessed(rows)'
         /\ \A d : PreviousSeen(d) => PreviousSeen(d)'
         /\ \A kind : \A i \in Rows(kind) : i \in Rows(kind)' /\ file'[i] = file[i]
<1>1. \A kind : \A i \in Rows(kind) : i \in Rows(kind)' /\ file'[i] = file[i]
  <2>1. CASE UNCHANGED file  BY <2>1 DEF Rows
  <2>2. CASE \E r \in FileRows : file' = Append(file, r)  BY <2>2, FileGrows
  <2> QED  BY <2>1, <2>2
<1>2. \A mode : Defined(mode) => Defined(mode)'  BY <1>1 DEF Defined
<1>3. ASSUME NEW row, Witnessed(row) PROVE Witnessed(row)'
  <2>1. CASE row.state \in Duration!Unknown  BY <2>1 DEF Witnessed
  <2>2. CASE row.state \notin Duration!Unknown
    <3>1. PICK i \in Rows("gaze"), j \in Rows("gaze") :
             /\ file[i].t = row.from /\ file[j].t = row.to
             /\ file[j].seq = file[i].seq + 1 /\ {file[i].state, file[j].state} = {row.state}
      BY <1>3, <2>2 DEF Witnessed
    <3>2. /\ i \in Rows("gaze")' /\ j \in Rows("gaze")'
          /\ file'[i] = file[i] /\ file'[j] = file[j]
      BY <1>1, <3>1
    <3> QED  BY <3>1, <3>2 DEF Witnessed
  <2> QED  BY <2>1, <2>2
<1>4. ASSUME NEW t, NEW seq, NEW state, SeenAt(t, seq, state) PROVE SeenAt(t, seq, state)'
  BY <1>1, <1>4 DEF SeenAt
<1>5. ASSUME NEW rows, AllWitnessed(rows) PROVE AllWitnessed(rows)'  BY <1>3, <1>5 DEF AllWitnessed
<1>6. ASSUME NEW d, PreviousSeen(d) PROVE PreviousSeen(d)'  BY <1>4, <1>6 DEF PreviousSeen
<1> QED  BY <1>1, <1>2, <1>5, <1>6

\* The durations, while they are left alone.
LEMMA DurationFrame ==
  ASSUME file \in Seq(FileRows), DurationInv, UNCHANGED dur,
         UNCHANGED file \/ \E r \in FileRows : file' = Append(file, r),
         Receiving' => Receiving \/ dur = NoStart \/ dur.previous = << >>,
         rec'.pc = "none" => rec.pc = "none"
  PROVE  DurationInv'
<1>1. CASE dur # NoStart
  <2>1. PICK d : d = dur  OBVIOUS
  <2>2. Covers(d) /\ AllWitnessed(d.rows) /\ (Receiving => PreviousSeen(d)) /\ d # NoStart
    BY <1>1, <2>1 DEF DurationInv
  <2>3. AllWitnessed(d.rows)' /\ (PreviousSeen(d) => PreviousSeen(d)')  BY <2>2, FileKeeps
  <2>4. Receiving' => PreviousSeen(d)  BY <2>1, <2>2 DEF PreviousSeen
  <2>5. dur' = d  BY <2>1
  <2>6. Covers(dur') /\ (rec'.pc = "none" => dur'.previous = << >>)
    BY <1>1, <2>2, <2>5 DEF DurationInv
  <2> QED  BY <2>3, <2>4, <2>5, <2>6 DEF DurationInv
<1>2. CASE dur = NoStart  BY <1>2 DEF DurationInv
<1> QED  BY <1>1, <1>2

-----------------------------------------------------------------------------
(* The durations *)

Labels == States \cup Duration!Unknown
Spans == [state : Labels, from : Nat, to : Nat]

\* What the durations are after an interval more, and after a sample more.
Extends(e, d, end, label) ==
  /\ e \in Durations /\ Covers(e) /\ e.previous = d.previous /\ e.gap = d.gap
  /\ \/ end <= d.edge /\ e = d
     \/ /\ end > d.edge /\ e.edge = end
        /\ \E row \in Spans : /\ row.state = label /\ row.from = d.edge /\ row.to = end
                              /\ e.rows = Append(d.rows, row)

Adds(e, d, t, seq, state) ==
  /\ e \in Durations /\ Covers(e)
  /\ \/ e.previous = d.previous /\ e.edge = d.edge /\ e.rows = d.rows
     \/ /\ e.previous = <<seq, state>> /\ e.edge = t
        /\ \/ e.rows = d.rows
           \/ \E row \in Spans :
                /\ row.from = d.edge /\ row.to = t /\ e.rows = Append(d.rows, row)
                /\ row.state \notin Duration!Unknown =>
                     /\ d.previous # << >> /\ seq = d.previous[1] + 1
                     /\ state = d.previous[2] /\ row.state = state

\* A row more, from the edge on: the window is still covered without a hole.
LEMMA IntervalFacts ==
  ASSUME NEW d \in Durations, Covers(d), NEW end \in Nat, NEW label \in Labels
  PROVE  Extends(Duration!Interval(d, end, label), d, end, label)
<1> DEFINE n == Len(d.rows)
<1>1. PICK e : e = Duration!Interval(d, end, label)  OBVIOUS
<1>2. d.edge \in Nat /\ d.rows \in Seq(Spans) /\ d.start \in Nat /\ n \in Nat
  BY DEF Durations, Spans, Labels
<1>3. CASE end <= d.edge
  <2>1. e = d  BY <1>1, <1>3 DEF Duration!Interval
  <2> QED  BY <1>1, <1>3, <2>1 DEF Extends
<1>4. CASE ~(end <= d.edge)
  <2>1. PICK row \in Spans : row = [state |-> label, from |-> d.edge, to |-> end]  BY <1>2 DEF Spans
  <2>2. e = [d EXCEPT !.edge = end, !.rows = Append(d.rows, row)]
    BY <1>1, <1>4, <2>1 DEF Duration!Interval
  <2>3. PICK rows \in Seq(Spans) : rows = Append(d.rows, row)
    <3>1. PICK before \in Seq(Spans) : before = d.rows  BY <1>2
    <3>2. Append(before, row) \in Seq(Spans)  OBVIOUS
    <3> QED  BY <3>1, <3>2
  <2>4. /\ Len(rows) = n + 1 /\ rows[n + 1] = row /\ \A k \in 1..n : rows[k] = d.rows[k]
    BY <1>2, <2>3
  <2>5. e = [d EXCEPT !.edge = end, !.rows = rows]  BY <2>2, <2>3
  <2>6. e \in Durations  BY <2>5 DEF Durations, Spans, Labels
  <2>7. /\ e.edge = end /\ e.rows = rows /\ e.previous = d.previous /\ e.gap = d.gap
        /\ e.start = d.start
    BY <2>5 DEF Durations
  <2>8. row.from = d.edge /\ row.to = end /\ row.state = label  BY <2>1
  <2>9. Covers(e)
    <3>1. \A i \in 1..Len(rows) : rows[i].from < rows[i].to
      BY <1>2, <1>4, <2>4, <2>8 DEF Covers, Duration!Partition
    <3>2. rows # << >> /\ rows[Len(rows)].to = e.edge  BY <1>2, <2>4, <2>7, <2>8
    <3>3. \A i \in 1..Len(rows) - 1 : rows[i].to = rows[i + 1].from
      <4> SUFFICES ASSUME NEW i \in 1..n PROVE rows[i].to = rows[i + 1].from  BY <1>2, <2>4
      <4>1. CASE i = n
        <5>1. d.rows # << >> /\ rows[n].to = d.rows[n].to  BY <1>2, <2>4, <4>1
        <5>2. d.rows[n].to = d.edge  BY <5>1 DEF Covers, Duration!Partition
        <5> QED  BY <2>4, <2>8, <4>1, <5>1, <5>2
      <4>2. CASE i \in 1..n - 1
        <5>1. rows[i] = d.rows[i] /\ rows[i + 1] = d.rows[i + 1]  BY <1>2, <2>4, <4>2
        <5> QED  BY <4>2, <5>1 DEF Covers, Duration!Partition
      <4> QED  BY <1>2, <4>1, <4>2
    <3>4. rows[1].from = e.start
      <4>1. CASE n = 0
        <5>1. d.rows = << >>  BY <1>2, <4>1
        <5> QED  BY <2>4, <2>7, <2>8, <4>1, <5>1 DEF Covers
      <4>2. CASE n # 0
        <5>1. d.rows # << >> /\ 1 \in 1..n  BY <1>2, <4>2
        <5> QED  BY <2>4, <2>7, <5>1 DEF Covers, Duration!Partition
      <4> QED  BY <4>1, <4>2
    <3> QED  BY <2>7, <3>1, <3>2, <3>3, <3>4 DEF Covers, Duration!Partition
  <2> QED
    <3>1. \E r \in Spans : /\ r.state = label /\ r.from = d.edge /\ r.to = end
                            /\ e.rows = Append(d.rows, r)
      BY <2>3, <2>7, <2>8
    <3>2. end > d.edge  BY <1>2, <1>4
    <3>3. Extends(e, d, end, label)  BY <2>6, <2>7, <2>9, <3>1, <3>2 DEF Extends
    <3> QED  BY <1>1, <3>3
<1> QED  BY <1>3, <1>4

\* A sample is dropped with what touches it, or becomes the edge: the row before it counts
\* for a state only if the samples on both its sides are adjacent and saw it.
LEMMA AddedFacts ==
  ASSUME NEW d \in Durations, Covers(d), NEW t \in Nat, NEW seq \in Nat, NEW state \in States,
         NEW jump
  PROVE  Adds(Duration!Added(d, t, seq, jump, state), d, t, seq, state)
<1>1. PICK e : e = Duration!Added(d, t, seq, jump, state)  OBVIOUS
<1>0. d.edge \in Nat /\ d.gap \in BOOLEAN /\ d.previous \in {<< >>} \cup (Nat \X States)
  BY DEF Durations
<1> DEFINE dropped == t < d.edge \/ (d.previous # << >> /\ t = d.edge)
           broken == d.gap \/ seq # d.previous[1] + 1 \/ jump \/ t - d.edge > MaxGap
           label == IF d.previous = << >> THEN "NO_DATA"
                    ELSE IF broken THEN "NO_DATA"
                    ELSE IF state # d.previous[2] THEN "TRANSITION_UNCERTAIN" ELSE state
<1>2. CASE dropped
  <2>1. e = [d EXCEPT !.gap = TRUE]  BY <1>2, <1>1 DEF Duration!Added
  <2>2. /\ e \in Durations /\ e.previous = d.previous /\ e.edge = d.edge /\ e.rows = d.rows
        /\ e.start = d.start
    BY <2>1 DEF Durations
  <2>3. Covers(e)  BY <2>2 DEF Covers, Duration!Partition
  <2> QED  BY <1>1, <2>2, <2>3 DEF Adds
<1>3. CASE ~dropped
  <2>1. e = [Duration!Interval(d, t, label) EXCEPT !.previous = <<seq, state>>, !.gap = FALSE]
    BY <1>3, <1>1 DEF Duration!Added
  <2>2. label \in Labels  BY DEF Labels, Duration!Unknown
  <2>3. label \notin Duration!Unknown =>
          /\ d.previous # << >> /\ seq = d.previous[1] + 1
          /\ state = d.previous[2] /\ label = state
    BY DEF Duration!Unknown
  <2>4. t >= d.edge  BY <1>0, <1>3
  <2> HIDE DEF label, dropped, broken
  <2>5. PICK f : f = Duration!Interval(d, t, label)  OBVIOUS
  <2>6. /\ f \in Durations /\ Covers(f)
        /\ \/ t <= d.edge /\ f = d
           \/ /\ t > d.edge /\ f.edge = t
              /\ \E row \in Spans : /\ row.state = label /\ row.from = d.edge /\ row.to = t
                                    /\ f.rows = Append(d.rows, row)
    <3>1. Extends(Duration!Interval(d, t, label), d, t, label)  BY <2>2, IntervalFacts
    <3>2. Extends(f, d, t, label)  BY <2>5, <3>1
    <3> QED  BY <3>2 DEF Extends
  <2>7. e = [f EXCEPT !.previous = <<seq, state>>, !.gap = FALSE]  BY <2>1, <2>5
  <2>8. /\ e \in Durations /\ e.previous = <<seq, state>> /\ e.rows = f.rows
        /\ e.start = f.start /\ e.edge = f.edge
    <3>1. PICK last \in {<< >>} \cup (Nat \X States) : last = <<seq, state>>  OBVIOUS
    <3>2. e = [f EXCEPT !.previous = last, !.gap = FALSE]  BY <2>7, <3>1
    <3>3. e \in Durations  BY <2>6, <3>2 DEF Durations
    <3>4. /\ e.previous = last /\ e.rows = f.rows /\ e.start = f.start /\ e.edge = f.edge
      BY <2>6, <3>2 DEF Durations
    <3> QED  BY <3>1, <3>3, <3>4
  <2>9. Covers(e)  BY <2>6, <2>8 DEF Covers, Duration!Partition
  <2>10. e.edge = t
    <3>1. CASE t <= d.edge /\ f = d
      <4>1. t = d.edge  BY <1>0, <2>4, <3>1
      <4> QED  BY <2>8, <3>1, <4>1
    <3>2. CASE f.edge = t  BY <2>8, <3>2
    <3> QED  BY <2>6, <3>1, <3>2
  <2>11. Adds(e, d, t, seq, state)
    <3>1. CASE f = d  BY <2>8, <2>9, <2>10, <3>1 DEF Adds
    <3>2. CASE \E row \in Spans : /\ row.state = label /\ row.from = d.edge /\ row.to = t
                                   /\ f.rows = Append(d.rows, row)
      BY <2>3, <2>8, <2>9, <2>10, <3>2 DEF Adds
    <3> QED  BY <2>6, <3>1, <3>2
  <2> QED  BY <1>1, <2>11
<1> QED  BY <1>2, <1>3

\* What is left of the window counts for nothing.
LEMMA FinishedKeeps ==
  ASSUME CaptureTypes, DurationInv, ~Receiving', UNCHANGED <<file, rec>>, NEW end \in Nat,
         dur' = dur \/ dur' = Duration!Finished(dur, end), dur # NoStart
  PROVE  DurationInv' /\ dur' \in Durations
<1>1. PICK d : d = dur  OBVIOUS
<1>2. /\ d \in Durations /\ Covers(d) /\ AllWitnessed(d.rows) /\ file \in Seq(FileRows)
      /\ d.rows \in Seq(Spans)
  BY <1>1 DEF CaptureTypes, DurationInv, Durations, Spans, Labels
<1>3. PICK e : e = Duration!Interval(d, end, "NO_DATA")  OBVIOUS
<1>4. "NO_DATA" \in Labels  BY DEF Labels, Duration!Unknown
<1>5. /\ e \in Durations /\ Covers(e) /\ e.previous = d.previous
      /\ \/ e = d
         \/ \E row \in Spans : /\ row.state = "NO_DATA" /\ e.rows = Append(d.rows, row)
  <2>1. Extends(Duration!Interval(d, end, "NO_DATA"), d, end, "NO_DATA")
    BY <1>2, <1>4, IntervalFacts
  <2>2. Extends(e, d, end, "NO_DATA")  BY <1>3, <2>1
  <2> QED  BY <2>2 DEF Extends
<1>6. AllWitnessed(e.rows)
  <2>1. CASE e = d  BY <1>2, <2>1
  <2>2. CASE \E row \in Spans : row.state = "NO_DATA" /\ e.rows = Append(d.rows, row)
    <3>1. PICK row \in Spans : row.state = "NO_DATA" /\ e.rows = Append(d.rows, row)  BY <2>2
    <3>2. Witnessed(row)  BY <3>1 DEF Witnessed, Duration!Unknown
    <3>3. /\ Len(e.rows) = Len(d.rows) + 1 /\ e.rows[Len(d.rows) + 1] = row
          /\ \A k \in 1..Len(d.rows) : e.rows[k] = d.rows[k]
      BY <1>2, <3>1
    <3> QED  BY <1>2, <3>2, <3>3 DEF AllWitnessed
  <2> QED  BY <1>5, <2>1, <2>2
<1>7. AllWitnessed(d.rows)' /\ AllWitnessed(e.rows)'  BY <1>2, <1>6, FileKeeps
<1>8. dur' = d \/ dur' = e  BY <1>1, <1>3 DEF Duration!Finished
<1>9. rec'.pc = "none" => d.previous = << >>  BY <1>1 DEF DurationInv
<1>10. CASE dur' = d  BY <1>2, <1>7, <1>9, <1>10 DEF DurationInv
<1>11. CASE dur' = e  BY <1>5, <1>7, <1>9, <1>11 DEF DurationInv
<1> QED  BY <1>2, <1>5, <1>8, <1>10, <1>11

-----------------------------------------------------------------------------
(* The renderer *)

\* A sample is a sample wherever it waits.
LEMMA ItemTypes ==
  ASSUME CaptureTypes
  PROVE  /\ rec.item # << >> => rec.item[1] \in Callbacks /\ rec.item[1].t \in Nat
         /\ pipe.lines # << >> => pipe.lines[1] \in Callbacks /\ pipe.lines[1].t \in Nat
<1>1. rec.item \in Seq(Callbacks) /\ pipe.lines \in Seq(Callbacks)
  BY DEF CaptureTypes, Receivers, Pipes
<1>2. \A s \in Seq(Callbacks) : s # << >> => s[1] \in Callbacks  OBVIOUS
<1>3. \A c \in Callbacks : c.t \in Nat  BY DEF Callbacks
<1> QED  BY <1>1, <1>2, <1>3

\* What a step that leaves the file, the geometry and the durations alone keeps of them.
LEMMA RecordsFrame ==
  ASSUME CaptureInv, UNCHANGED <<file, dur>>, geo'.mode = geo.mode,
         geo'.evidence = geo.evidence, geo'.id = geo.id, geo'.key \in {geo.key, "none"},
         Receiving' => Receiving \/ dur = NoStart \/ dur.previous = << >>,
         rec'.pc = "none" => rec.pc = "none"
  PROVE  GeometryInv' /\ DurationInv' /\ FileInv' /\ file' \in Seq(FileRows)
         /\ (dur' = NoStart \/ dur' \in Durations)
<1>1. file \in Seq(FileRows) /\ (dur = NoStart \/ dur \in Durations)
  BY DEF CaptureInv, CaptureTypes
<1>2. DurationInv'  BY <1>1, DurationFrame DEF CaptureInv
<1>3. FileInv'  BY DEF CaptureInv, FileInv, NoForeignWindow, MappingIsDefined, Rows
<1>4. GeometryInv'
  <2>1. \A mode : Defined(mode) => Defined(mode)'  BY <1>1, FileKeeps
  <2> QED  BY <2>1 DEF CaptureInv, GeometryInv
<1> QED  BY <1>1, <1>2, <1>3, <1>4

\* The stage is entered: a capture that starts has the areas that were decided.
LEMMA EnterKeeps ==
  ASSUME CaptureInv, NEW areas \in SUBSET AOIS, Enter(areas)
  PROVE  CaptureInv'
<1> USE DEF Enter, Fault, Calm
<1>1. /\ now \in Nat /\ view \in Views /\ cap \in Captures /\ geo \in Geometries /\ pipe \in Pipes
      /\ rec \in Receivers
  BY DEF CaptureInv, CaptureTypes
<1>2. /\ view' \in Views /\ view' = [view EXCEPT !.pc = "drive"]  BY <1>1 DEF Views
<1>3. cap' \in Captures  BY <1>1 DEF Captures, Times
<1>4. GeometryInv' /\ DurationInv' /\ FileInv'  BY RecordsFrame DEF Receiving
<1>5. CaptureTypes'  BY <1>2, <1>3 DEF CaptureInv, CaptureTypes
<1>6. WindowInv'  BY <1>1, <1>2 DEF CaptureInv, WindowInv, SeenTruly, Views
<1>7. ReceiverInv'  BY <1>1, <1>2 DEF CaptureInv, ReceiverInv, Views
<1>8. view.pc = "enter" /\ cap.pc = "none" /\ now # NoTime
  BY <1>1, CaptureAssumption DEF CaptureInv, ThreadsInv
<1>9. ThreadsInv'  BY <1>1, <1>2, <1>8, ZenonT(40) DEF CaptureInv, ThreadsInv, Views, Captures
<1>10. EligibleInv'  BY <1>1, <1>8 DEF CaptureInv, EligibleInv, ThreadsInv, Captures
<1> QED  BY <1>4, <1>5, <1>6, <1>7, <1>9, <1>10 DEF CaptureInv

\* What is published is the window that is there, and no sample is as late as it yet.
LEMMA PresentKeeps == ASSUME CaptureInv, Present PROVE CaptureInv'
<1> USE DEF Present, Tick, Fault, Calm
<1>1. /\ now \in Nat /\ view \in Views /\ cap \in Captures /\ rec \in Receivers
      /\ now' = now + 1 /\ UNCHANGED <<cap, geo, pipe, rec, file, dur>>
  BY DEF CaptureInv, CaptureTypes
<1>2. view' \in Views /\ view'.pc = "drive" /\ view'.mode = view.mode /\ view'.ended = view.ended
  BY <1>1 DEF Views, Times
<1>3. \/ view'.pub = now /\ view'.key = view.mode
      \/ view'.pub = NoTime
  BY <1>1 DEF Views
<1>4. GeometryInv' /\ DurationInv' /\ FileInv'  BY <1>1, RecordsFrame DEF Receiving
<1>5. CaptureTypes'  BY <1>1, <1>2 DEF CaptureInv, CaptureTypes
<1>6. WindowInv'
  <2>1. \A s : s.t \in Nat /\ SeenTruly(s) => SeenTruly(s)'  BY <1>1, <1>3 DEF SeenTruly
  <2>2. /\ pipe.lines # << >> => SeenTruly(pipe.lines[1])'
        /\ rec.item # << >> => SeenTruly(rec.item[1])'
    BY <2>1, ItemTypes DEF CaptureInv, WindowInv
  <2> QED  BY <1>1, <1>2, <1>3, <2>2 DEF CaptureInv, WindowInv
<1>7. ReceiverInv'
  <2>1. rec.pub # NoTime => rec.pub \in Nat  BY <1>1 DEF Receivers, Times
  <2> QED  BY <1>1, <1>3, <2>1 DEF CaptureInv, ReceiverInv
<1>8. ThreadsInv' /\ EligibleInv'  BY <1>1, <1>2 DEF CaptureInv, ThreadsInv, EligibleInv
<1> QED  BY <1>4, <1>5, <1>6, <1>7, <1>8 DEF CaptureInv

\* The presentation is withdrawn before the window is replaced.
LEMMA SuspendKeeps == ASSUME CaptureInv, Suspend PROVE CaptureInv'
<1> USE DEF Suspend
<1>1. /\ now \in Nat /\ view \in Views /\ geo \in Geometries
      /\ UNCHANGED <<now, cap, pipe, rec, file, dur, faults>>
  BY DEF CaptureInv, CaptureTypes
<1>2. /\ view' \in Views /\ view'.pc = "replace" /\ view'.pub = NoTime
      /\ view'.ended = view.ended
  <2>1. PICK n \in Nat : n = view.toggles + 1  BY <1>1 DEF Views
  <2>2. view' = [view EXCEPT !.pc = "replace", !.toggles = n, !.pub = NoTime, !.mode = "none"]
    BY <2>1
  <2> QED  BY <1>1, <2>2 DEF Views, Times, Modes
<1>3. /\ geo' \in Geometries /\ geo'.mode = geo.mode /\ geo'.key = "none"
      /\ geo'.evidence = geo.evidence /\ geo'.id = geo.id
  BY <1>1 DEF Geometries, Modes
<1>4. GeometryInv' /\ DurationInv' /\ FileInv'  BY <1>1, <1>3, RecordsFrame DEF Receiving
<1>5. CaptureTypes'  BY <1>1, <1>2, <1>3 DEF CaptureInv, CaptureTypes
<1>6. WindowInv'  BY <1>1, <1>2 DEF CaptureInv, WindowInv, SeenTruly
<1>7. ReceiverInv'  BY <1>1, <1>2, <1>3 DEF CaptureInv, ReceiverInv
<1>8. ThreadsInv' /\ EligibleInv'  BY <1>1, <1>2 DEF CaptureInv, ThreadsInv, EligibleInv
<1> QED  BY <1>4, <1>5, <1>6, <1>7, <1>8 DEF CaptureInv

\* The new window is not presented yet.
LEMMA ReplacedKeeps == ASSUME CaptureInv, Replaced PROVE CaptureInv'
<1> USE DEF Replaced
<1>1. /\ now \in Nat /\ view \in Views /\ geo \in Geometries /\ view.pc = "replace"
      /\ UNCHANGED <<now, cap, geo, pipe, rec, file, dur, faults>>
  BY DEF CaptureInv, CaptureTypes
<1>2. view.pub = NoTime  BY <1>1 DEF CaptureInv, WindowInv
<1>3. /\ view' \in Views /\ view'.pc = "drive" /\ view'.pub = NoTime /\ view'.mode # "none"
      /\ view'.ended = view.ended
  BY <1>1, <1>2 DEF Views, Times, Modes
<1>4. GeometryInv' /\ DurationInv' /\ FileInv'  BY <1>1, RecordsFrame DEF Receiving
<1>5. CaptureTypes'  BY <1>1, <1>3 DEF CaptureInv, CaptureTypes
<1>6. WindowInv'  BY <1>1, <1>3 DEF CaptureInv, WindowInv, SeenTruly
<1>7. ReceiverInv'  BY <1>1, <1>2, <1>3 DEF CaptureInv, ReceiverInv
<1>8. ThreadsInv' /\ EligibleInv'  BY <1>1, <1>3 DEF CaptureInv, ThreadsInv, EligibleInv
<1> QED  BY <1>4, <1>5, <1>6, <1>7, <1>8 DEF CaptureInv

\* The end of the stage withdraws the presentation for good.
LEMMA ExitKeeps == ASSUME CaptureInv, Exit PROVE CaptureInv'
<1> USE DEF Exit, Driving
<1>1. /\ now \in Nat \ {0} /\ view \in Views /\ geo \in Geometries /\ cap \in Captures
      /\ view.pc \in {"drive", "replace"} /\ UNCHANGED <<now, pipe, rec, file, dur, faults>>
  BY DEF CaptureInv, CaptureTypes
<1>2. /\ view' \in Views /\ view'.pub = NoTime
      /\ \/ cap.pc = "none" /\ view'.pc = "left"
         \/ view'.pc = "join" /\ view'.ended = now
  BY <1>1 DEF Views, Times, Modes
<1>3. /\ geo' \in Geometries /\ geo'.mode = geo.mode /\ geo'.key = "none"
      /\ geo'.evidence = geo.evidence /\ geo'.id = geo.id
  BY <1>1 DEF Geometries, Modes
<1>4. /\ cap' \in Captures /\ cap'.pc = cap.pc /\ cap'.started = cap.started
      /\ cap'.failed = cap.failed /\ cap'.eligible = cap.eligible /\ cap'.dir = cap.dir
      /\ cap'.summary = cap.summary /\ cap'.tablet = cap.tablet
  BY <1>1 DEF Captures
<1>5. GeometryInv' /\ DurationInv' /\ FileInv'  BY <1>1, <1>3, RecordsFrame DEF Receiving
<1>6. CaptureTypes'  BY <1>1, <1>2, <1>3, <1>4 DEF CaptureInv, CaptureTypes
<1>7. WindowInv'  BY <1>1, <1>2, CaptureAssumption DEF CaptureInv, WindowInv, SeenTruly
<1>8. ReceiverInv'  BY <1>1, <1>2, <1>3 DEF CaptureInv, ReceiverInv
<1>9. ThreadsInv' /\ EligibleInv'  BY <1>1, <1>2, <1>4 DEF CaptureInv, ThreadsInv, EligibleInv
<1> QED  BY <1>5, <1>6, <1>7, <1>8, <1>9 DEF CaptureInv

\* The directory is moved only after a gaze thread that was seen dead.
LEMMA JoinKeeps == ASSUME CaptureInv, Join PROVE CaptureInv'
<1> USE DEF Join
<1>1. /\ now \in Nat \ {0} /\ view \in Views /\ view.pc = "join"
      /\ UNCHANGED <<now, cap, geo, pipe, rec, file, dur, faults>>
  BY DEF CaptureInv, CaptureTypes
<1>2. view.pub = NoTime /\ view.ended # NoTime  BY <1>1 DEF CaptureInv, WindowInv
<1>3. /\ view' \in Views /\ view'.pub = NoTime /\ view'.ended = view.ended
      /\ view'.mode = view.mode
      /\ \/ cap.pc = "dead" /\ view'.pc = "move"
         \/ view'.pc = "left"
  BY <1>1, <1>2 DEF Views, Times, Modes
<1>4. GeometryInv' /\ DurationInv' /\ FileInv'  BY <1>1, RecordsFrame DEF Receiving
<1>5. CaptureTypes'  BY <1>1, <1>3 DEF CaptureInv, CaptureTypes
<1>6. WindowInv'  BY <1>1, <1>2, <1>3 DEF CaptureInv, WindowInv, SeenTruly
<1>7. ReceiverInv'  BY <1>1, <1>2, <1>3 DEF CaptureInv, ReceiverInv
<1>8. ThreadsInv' /\ EligibleInv'  BY <1>1, <1>3 DEF CaptureInv, ThreadsInv, EligibleInv
<1> QED  BY <1>4, <1>5, <1>6, <1>7, <1>8 DEF CaptureInv

\* What a thread leaves of the eligible areas: nothing after a failure.
LEMMA FailedTypes ==
  ASSUME NEW c \in Captures
  PROVE  /\ Failed(c) \in Captures /\ Failed(c).failed = TRUE /\ Failed(c).eligible = {}
         /\ Failed(c).pc = c.pc /\ Failed(c).started = c.started /\ Failed(c).dir = c.dir
         /\ Failed(c).summary = c.summary /\ Failed(c).tablet = c.tablet
BY DEF Failed, Captures

\* A summary tells the areas that are left, and whether anything failed.
LEMMA SummaryTypes ==
  ASSUME NEW c \in Captures
  PROVE  /\ Summary(c) \in Summaries /\ Summary(c) # << >>
         /\ Summary(c).eligible = c.eligible /\ Summary(c).failed = c.failed
<1>1. Summary(c) = [eligible |-> c.eligible, failed |-> c.failed]  BY DEF Summary
<1>2. Summary(c) \in Summaries /\ Summary(c).eligible = c.eligible /\ Summary(c).failed = c.failed
  BY <1>1 DEF Summaries, Captures
<1>3. Summary(c) # << >>  BY <1>1
<1> QED  BY <1>2, <1>3

\* The durations are finished, or left as they are after a failure.
LEMMA FinishingKeeps ==
  ASSUME CaptureInv, UNCHANGED <<file, rec>>, ~Receiving, NEW end \in Nat,
         dur' = dur \/ (dur # NoStart /\ dur' = Duration!Finished(dur, end))
  PROVE  DurationInv' /\ (dur' = NoStart \/ dur' \in Durations)
         /\ (dur \in Durations => dur' \in Durations)
<1>1. CaptureTypes /\ DurationInv /\ ~Receiving'  BY DEF CaptureInv, Receiving
<1>2. CASE dur = NoStart
  <2>1. dur' = dur  BY <1>2
  <2> QED  BY <1>2, <2>1 DEF DurationInv
<1>3. CASE dur # NoStart  BY <1>1, <1>3, FinishedKeeps
<1> QED  BY <1>2, <1>3

\* What a step that leaves the window, the geometry and the receiver alone keeps.
LEMMA MappingFrame ==
  ASSUME CaptureInv, UNCHANGED <<now, view, geo, pipe, rec, file>>
  PROVE  WindowInv' /\ GeometryInv' /\ ReceiverInv' /\ FileInv'
<1>1. WindowInv' /\ ReceiverInv'  BY DEF CaptureInv, WindowInv, ReceiverInv, SeenTruly
<1>2. FileInv'  BY DEF CaptureInv, FileInv, NoForeignWindow, MappingIsDefined, Rows
<1>3. GeometryInv'
  <2>1. \A mode : Defined(mode) => Defined(mode)'  BY DEF Defined, Rows
  <2> QED  BY <2>1 DEF CaptureInv, GeometryInv
<1> QED  BY <1>1, <1>2, <1>3

\* The directory is moved: the rest of the stage is no data, and the summary is written again.
LEMMA MoveKeeps == ASSUME CaptureInv, Move PROVE CaptureInv'
<1> USE DEF Move, Fault, Calm
<1>1. /\ view \in Views /\ cap \in Captures /\ view.pc = "move" /\ cap.pc = "dead"
      /\ view.ended # NoTime /\ ~Receiving /\ view.pub = NoTime
      /\ UNCHANGED <<now, geo, pipe, rec, file>>
  BY DEF CaptureInv, CaptureTypes, ThreadsInv, WindowInv, Receiving
<1>2. view.ended \in Nat  BY <1>1 DEF Views, Times
<1>3. PICK bad \in BOOLEAN :
         /\ dur' = IF bad \/ dur = NoStart THEN dur ELSE Duration!Finished(dur, view.ended)
         /\ cap' = [IF bad THEN Failed(cap) ELSE cap EXCEPT
                      !.dir = "moved", !.summary = Summary(IF bad THEN Failed(cap) ELSE cap)]
  OBVIOUS
<1>4. PICK c \in Captures : c = IF bad THEN Failed(cap) ELSE cap  BY <1>1, FailedTypes
<1>5. /\ c.pc = "dead" /\ c.started = cap.started /\ c.tablet = cap.tablet
      /\ (c.failed = cap.failed /\ c.eligible = cap.eligible) \/ (c.failed /\ c.eligible = {})
  BY <1>1, <1>4, FailedTypes
<1>6. PICK s \in Summaries : /\ s = Summary(c) /\ s # << >>
                             /\ s.eligible = c.eligible /\ s.failed = c.failed
  BY SummaryTypes
<1>7. cap' = [c EXCEPT !.dir = "moved", !.summary = s]  BY <1>3, <1>4, <1>6
<1>8. /\ cap' \in Captures /\ cap'.pc = "dead" /\ cap'.started = c.started
      /\ cap'.failed = c.failed /\ cap'.eligible = c.eligible /\ cap'.dir = "moved"
      /\ cap'.summary = s /\ cap'.tablet = c.tablet
  BY <1>5, <1>7 DEF Captures
<1>9. /\ view' \in Views /\ view'.pc = "left" /\ view'.pub = NoTime /\ view'.mode = view.mode
      /\ view'.key = view.key /\ view'.ended = view.ended
  BY <1>1 DEF Views
<1>10. DurationInv' /\ (dur' = NoStart \/ dur' \in Durations)  BY <1>1, <1>2, <1>3, FinishingKeeps
<1>11. GeometryInv' /\ FileInv'
  <2>1. \A mode : Defined(mode) => Defined(mode)'  BY <1>1 DEF Defined, Rows
  <2> QED
    BY <1>1, <2>1 DEF CaptureInv, GeometryInv, FileInv, NoForeignWindow, MappingIsDefined, Rows
<1>12. WindowInv' /\ ReceiverInv'  BY <1>1, <1>9 DEF CaptureInv, WindowInv, ReceiverInv, SeenTruly
<1>13. CaptureTypes'  BY <1>1, <1>8, <1>9, <1>10 DEF CaptureInv, CaptureTypes
<1>14. ThreadsInv'  BY <1>1, <1>5, <1>8, <1>9 DEF CaptureInv, ThreadsInv
<1>15. EligibleInv'  BY <1>5, <1>6, <1>8 DEF CaptureInv, EligibleInv
<1> QED  BY <1>10, <1>11, <1>12, <1>13, <1>14, <1>15 DEF CaptureInv

-----------------------------------------------------------------------------
(* The gaze thread *)

\* What a step of the gaze thread that leaves the receiver alone must show.
LEMMA CollectorKeeps ==
  ASSUME CaptureInv, UNCHANGED <<now, view, geo, pipe, rec, file>>, cap' \in Captures,
         dur' = NoStart \/ dur' \in Durations, DurationInv', ThreadsInv', EligibleInv'
  PROVE  CaptureInv'
<1>1. CaptureTypes'  BY DEF CaptureInv, CaptureTypes
<1> QED  BY <1>1, MappingFrame DEF CaptureInv

\* The durations start at the start of the stage, or the collection is over.
LEMMA PrepareKeeps == ASSUME CaptureInv, Prepare PROVE CaptureInv'
<1> USE DEF Prepare, Fault, Calm, Only
<1>1. /\ cap \in Captures /\ cap.pc = "mkdir" /\ rec.pc = "none" /\ cap.started \in Nat
      /\ view.pc # "move" /\ cap.dir # "moved" /\ cap.summary = << >>
      /\ UNCHANGED <<now, view, geo, pipe, rec, file>>
      /\ dur = NoStart \/ dur \in Durations
  BY DEF CaptureInv, CaptureTypes, ThreadsInv, Captures, Times
<1>2. view.pc # "enter" /\ cap.started # NoTime  BY <1>1 DEF CaptureInv, ThreadsInv
<1>3. CASE /\ dur' = Duration!DurationFrom(cap.started)
           /\ \E pc \in {"discover", "finish"} :
                cap' = [cap EXCEPT !.pc = pc, !.dir = "pending", !.tablet = "unbound"]
  <2>1. /\ cap' \in Captures /\ cap'.pc \in {"discover", "finish"} /\ cap'.dir = "pending"
        /\ cap'.tablet = "unbound" /\ cap'.failed = cap.failed /\ cap'.eligible = cap.eligible
        /\ cap'.summary = << >> /\ cap'.started = cap.started
    BY <1>1, <1>3 DEF Captures
  <2>2. PICK none \in Seq(Spans) : none = << >>
    <3>1. << >> \in Seq(Spans)  OBVIOUS
    <3> QED  BY <3>1
  <2>3. dur' = [start |-> cap.started, edge |-> cap.started, previous |-> << >>, gap |-> FALSE,
                rows |-> none]
    BY <1>3, <2>2 DEF Duration!DurationFrom
  <2>4. /\ dur' \in Durations /\ dur'.rows = none /\ dur'.previous = << >>
        /\ dur'.edge = dur'.start
    BY <1>1, <2>3 DEF Durations, Spans, Labels
  <2>5. DurationInv'
    <3>1. Len(none) = 0  BY <2>2
    <3> QED
      BY <2>2, <2>4, <3>1 DEF DurationInv, Covers, AllWitnessed, PreviousSeen, Duration!Partition
  <2>6. ThreadsInv'  BY <1>1, <1>2, <2>1, <2>4 DEF ThreadsInv
  <2>7. EligibleInv'  BY <2>1 DEF CaptureInv, EligibleInv
  <2> QED  BY <1>1, <2>1, <2>4, <2>5, <2>6, <2>7, CollectorKeeps
<1>4. CASE cap' = [Failed(cap) EXCEPT !.pc = "finish"] /\ UNCHANGED dur
  <2>1. PICK c \in Captures :
           /\ c = Failed(cap) /\ c.failed = TRUE /\ c.eligible = {} /\ c.summary = cap.summary
           /\ c.dir = cap.dir /\ c.started = cap.started /\ c.tablet = cap.tablet
    BY <1>1, FailedTypes
  <2>2. cap' = [c EXCEPT !.pc = "finish"]  BY <1>4, <2>1
  <2>3. /\ cap' \in Captures /\ cap'.pc = "finish" /\ cap'.failed = TRUE /\ cap'.eligible = {}
        /\ cap'.summary = << >> /\ cap'.started = cap.started /\ cap'.dir = cap.dir
        /\ cap'.tablet = cap.tablet
    BY <1>1, <2>1, <2>2 DEF Captures
  <2>4. DurationInv'  BY <1>1, <1>4, RecordsFrame DEF Receiving
  <2>5. ThreadsInv'  BY <1>1, <1>2, <2>3 DEF ThreadsInv
  <2>6. EligibleInv'  BY <2>3 DEF EligibleInv
  <2> QED  BY <1>1, <1>4, <2>3, <2>4, <2>5, <2>6, CollectorKeeps
<1> QED  BY <1>3, <1>4

\* The gaze thread goes on, as it is or after a failure.
LEMMA GoesOn ==
  ASSUME CaptureInv, NEW pc \in {"discover", "loop", "unsubscribe", "drain", "finish"},
         cap.pc \in {"discover", "loop", "unsubscribe", "drain"},
         cap' = [cap EXCEPT !.pc = pc] \/ cap' = [Failed(cap) EXCEPT !.pc = pc]
  PROVE  /\ cap' \in Captures /\ cap'.pc = pc /\ cap'.started = cap.started
         /\ cap'.dir = cap.dir /\ cap'.summary = << >> /\ cap.summary = << >>
         /\ EligibleInv' /\ cap.dir # "moved" /\ dur \in Durations
         /\ view.pc \notin {"move", "enter"} /\ cap.started # NoTime
<1>1. /\ cap \in Captures /\ view.pc \notin {"move", "enter"} /\ cap.dir # "moved"
      /\ cap.started # NoTime /\ dur \in Durations /\ cap.summary = << >>
  BY DEF CaptureInv, CaptureTypes, ThreadsInv
<1>2. CASE cap' = [cap EXCEPT !.pc = pc]
  <2>1. /\ cap' \in Captures /\ cap'.pc = pc /\ cap'.failed = cap.failed
        /\ cap'.eligible = cap.eligible /\ cap'.summary = cap.summary
        /\ cap'.started = cap.started /\ cap'.dir = cap.dir /\ cap'.tablet = cap.tablet
    BY <1>1, <1>2 DEF Captures
  <2> QED  BY <1>1, <2>1 DEF CaptureInv, EligibleInv
<1>3. CASE cap' = [Failed(cap) EXCEPT !.pc = pc]
  <2>1. PICK c \in Captures :
           /\ c = Failed(cap) /\ c.failed = TRUE /\ c.eligible = {} /\ c.summary = cap.summary
           /\ c.dir = cap.dir /\ c.started = cap.started
    BY <1>1, FailedTypes
  <2>2. cap' = [c EXCEPT !.pc = pc]  BY <1>3, <2>1
  <2>3. /\ cap' \in Captures /\ cap'.pc = pc /\ cap'.failed = TRUE /\ cap'.eligible = {}
        /\ cap'.summary = cap.summary /\ cap'.started = cap.started /\ cap'.dir = cap.dir
    BY <2>1, <2>2 DEF Captures
  <2> QED  BY <1>1, <2>3 DEF EligibleInv
<1> QED  BY <1>2, <1>3

\* The source is started, and with it the receiver.
LEMMA DiscoverKeeps == ASSUME CaptureInv, Discover PROVE CaptureInv'
<1> USE DEF Discover, Fault, Calm, Only, Goto
<1>1. /\ cap.pc = "discover" /\ rec.pc = "none" /\ UNCHANGED <<now, view, geo, file, dur>>
      /\ dur = NoStart \/ dur \in Durations
  BY DEF CaptureInv, CaptureTypes, ThreadsInv
<1>2. CASE UNCHANGED <<pipe, rec>>
  <2>1. cap' = [cap EXCEPT !.pc = "finish"] \/ cap' = [Failed(cap) EXCEPT !.pc = "finish"]
        \/ (~cap.stop /\ pipe' = [pipe EXCEPT !.state = "runs"] /\ rec' = [rec EXCEPT !.pc = "bind"])
    OBVIOUS
  <2>2. rec \in Receivers  BY DEF CaptureInv, CaptureTypes
  <2>3. cap' = [cap EXCEPT !.pc = "finish"] \/ cap' = [Failed(cap) EXCEPT !.pc = "finish"]
    BY <1>1, <1>2, <2>1, <2>2 DEF Receivers
  <2>4. PICK pc \in {"finish"} : pc = "finish"  OBVIOUS
  <2>5. /\ cap' \in Captures /\ cap'.pc = pc /\ cap'.started = cap.started
        /\ cap'.dir = cap.dir /\ cap'.summary = << >> /\ EligibleInv' /\ cap.dir # "moved"
        /\ view.pc \notin {"move", "enter"} /\ cap.started # NoTime
    BY <1>1, <2>3, <2>4, GoesOn
  <2>6. ThreadsInv'  BY <1>1, <1>2, <2>4, <2>5 DEF ThreadsInv
  <2>7. DurationInv'  BY <1>1, <1>2, RecordsFrame DEF Receiving
  <2> QED  BY <1>1, <1>2, <2>5, <2>6, <2>7, CollectorKeeps
<1>3. CASE /\ cap' = [cap EXCEPT !.pc = "loop"]
           /\ pipe' = [pipe EXCEPT !.state = "runs"] /\ rec' = [rec EXCEPT !.pc = "bind"]
  <2>1. PICK pc \in {"loop"} : pc = "loop"  OBVIOUS
  <2>2. /\ cap' \in Captures /\ cap'.pc = pc /\ cap'.started = cap.started
        /\ cap'.dir = cap.dir /\ cap'.summary = << >> /\ EligibleInv' /\ cap.dir # "moved"
        /\ view.pc \notin {"move", "enter"} /\ cap.started # NoTime /\ dur \in Durations
    BY <1>1, <1>3, <2>1, GoesOn
  <2>3. /\ pipe' \in Pipes /\ pipe'.lines = pipe.lines
        /\ rec' \in Receivers /\ rec'.pc = "bind" /\ rec'.item = rec.item
    BY <1>3 DEF CaptureInv, CaptureTypes, Pipes, Receivers
  <2>4. CaptureTypes'  BY <1>1, <2>2, <2>3 DEF CaptureInv, CaptureTypes
  <2>5. WindowInv' /\ ReceiverInv'  BY <1>1, <2>3 DEF CaptureInv, WindowInv, ReceiverInv, SeenTruly
  <2>6. ThreadsInv'  BY <1>1, <2>1, <2>2, <2>3 DEF ThreadsInv
  <2>7. dur = NoStart \/ dur.previous = << >>  BY <1>1 DEF CaptureInv, DurationInv
  <2>8. GeometryInv' /\ DurationInv' /\ FileInv'  BY <1>1, <2>7, RecordsFrame DEF Receiving
  <2> QED  BY <2>2, <2>4, <2>5, <2>6, <2>8 DEF CaptureInv
<1> QED  BY <1>2, <1>3

\* What a step of the gaze thread keeps beside the receiver and the end of the durations.
LEMMA ThreadGoesOn ==
  ASSUME CaptureInv, NEW pc \in {"unsubscribe", "drain", "finish"},
         cap.pc \in {"loop", "unsubscribe", "drain"},
         cap' = [cap EXCEPT !.pc = pc] \/ cap' = [Failed(cap) EXCEPT !.pc = pc],
         pc = "finish" => rec.pc \in {"none", "exit", "dead"},
         UNCHANGED <<now, view, geo, rec, file, dur>>, pipe' \in Pipes,
         pipe'.lines = pipe.lines
  PROVE  CaptureInv'
<1>1. /\ cap' \in Captures /\ cap'.pc = pc /\ cap'.started = cap.started
      /\ cap'.dir = cap.dir /\ cap'.summary = << >> /\ EligibleInv' /\ cap.dir # "moved"
      /\ view.pc \notin {"move", "enter"} /\ cap.started # NoTime /\ dur \in Durations
  BY GoesOn
<1>2. GeometryInv' /\ DurationInv' /\ FileInv'  BY RecordsFrame DEF Receiving
<1>3. WindowInv' /\ ReceiverInv'  BY DEF CaptureInv, WindowInv, ReceiverInv, SeenTruly
<1>4. ThreadsInv'  BY <1>1 DEF ThreadsInv
<1>5. CaptureTypes'  BY <1>1 DEF CaptureInv, CaptureTypes
<1> QED  BY <1>1, <1>2, <1>3, <1>4, <1>5 DEF CaptureInv

\* The loop of the gaze thread ends with a stop or a failure.
LEMMA LeaveLoopKeeps == ASSUME CaptureInv, LeaveLoop PROVE CaptureInv'
<1>1. /\ pipe \in Pipes /\ cap.pc = "loop" /\ UNCHANGED <<now, view, geo, file, pipe, rec, dur>>
      /\ \/ cap' = [cap EXCEPT !.pc = "unsubscribe"]
         \/ cap' = [Failed(cap) EXCEPT !.pc = "unsubscribe"]
  BY DEF CaptureInv, CaptureTypes, LeaveLoop, Fault, Calm, Only, Goto
<1>2. PICK pc \in {"unsubscribe"} : pc = "unsubscribe"  OBVIOUS
<1> QED  BY <1>1, <1>2, ThreadGoesOn

\* The files are given up past the wait only when the receiver is leaving already.
LEMMA UnsubscribeKeeps == ASSUME CaptureInv, Unsubscribe PROVE CaptureInv'
<1>1. /\ pipe \in Pipes /\ cap.pc = "unsubscribe" /\ UNCHANGED <<now, view, geo, file, rec, dur>>
      /\ pipe' = [pipe EXCEPT !.state = "over"]
      /\ \/ cap' = [cap EXCEPT !.pc = "drain"]
         \/ rec.pc = "exit" /\ cap' = [Failed(cap) EXCEPT !.pc = "finish"]
  BY DEF CaptureInv, CaptureTypes, Unsubscribe, Calm, Only, Goto
<1>2. pipe' \in Pipes /\ pipe'.lines = pipe.lines  BY <1>1 DEF Pipes
<1>3. CASE cap' = [cap EXCEPT !.pc = "drain"]
  <2>1. PICK pc \in {"drain"} : pc = "drain"  OBVIOUS
  <2> QED  BY <1>1, <1>2, <1>3, <2>1, ThreadGoesOn
<1>4. CASE rec.pc = "exit" /\ cap' = [Failed(cap) EXCEPT !.pc = "finish"]
  <2>1. PICK pc \in {"finish"} : pc = "finish"  OBVIOUS
  <2> QED  BY <1>1, <1>2, <1>4, <2>1, ThreadGoesOn
<1> QED  BY <1>1, <1>3, <1>4

\* The files are given up when the receiver has stopped.
LEMMA DrainKeeps == ASSUME CaptureInv, Drain PROVE CaptureInv'
<1>1. /\ pipe \in Pipes /\ cap.pc = "drain" /\ UNCHANGED <<now, view, geo, file, pipe, rec, dur>>
      /\ rec.pc \in {"none", "dead"}
      /\ cap' = [IF rec.failed THEN Failed(cap) ELSE cap EXCEPT !.pc = "finish"]
  BY DEF CaptureInv, CaptureTypes, Drain, Calm, Only, ReceiverAlive
<1>2. PICK pc \in {"finish"} : pc = "finish"  OBVIOUS
<1>3. cap' = [cap EXCEPT !.pc = pc] \/ cap' = [Failed(cap) EXCEPT !.pc = pc]  BY <1>1, <1>2
<1> QED  BY <1>1, <1>2, <1>3, ThreadGoesOn

\* The durations are finished when no sample can be added any more.
LEMMA FinishKeeps == ASSUME CaptureInv, Finish PROVE CaptureInv'
<1> USE DEF Finish, Fault, Calm
<1>1. /\ now \in Nat /\ view \in Views /\ cap \in Captures /\ cap.pc = "finish" /\ ~Receiving
      /\ view.pc \notin {"enter", "move"} /\ cap.started # NoTime /\ cap.dir # "moved"
      /\ cap.summary = << >> /\ rec.pc \in {"none", "exit", "dead"}
      /\ UNCHANGED <<now, view, geo, pipe, rec, file>>
  BY DEF CaptureInv, CaptureTypes, ThreadsInv, Receiving
<1>2. PICK end \in Nat : end = IF view.ended = NoTime THEN now ELSE view.ended
  BY <1>1 DEF Views, Times
<1>3. PICK bad \in BOOLEAN :
         /\ dur' = IF bad \/ dur = NoStart \/ cap.dir = "none" THEN dur
                   ELSE Duration!Finished(dur, end)
         /\ cap' = [IF bad THEN Failed(cap) ELSE cap EXCEPT
                      !.pc = "dead",
                      !.summary = IF cap.dir = "none" THEN @
                                  ELSE Summary(IF bad THEN Failed(cap) ELSE cap)]
  BY <1>2
<1>4. PICK c \in Captures : c = IF bad THEN Failed(cap) ELSE cap  BY <1>1, FailedTypes
<1>5. /\ c.started = cap.started /\ c.tablet = cap.tablet /\ c.dir = cap.dir /\ c.summary = << >>
      /\ (c.failed = cap.failed /\ c.eligible = cap.eligible) \/ (c.failed /\ c.eligible = {})
  BY <1>1, <1>4, FailedTypes
<1>6. PICK s \in {<< >>} \cup Summaries :
         /\ s = IF cap.dir = "none" THEN << >> ELSE Summary(c)
         /\ s # << >> => s.eligible = c.eligible /\ s.failed = c.failed
  BY SummaryTypes
<1>7. cap' = [c EXCEPT !.pc = "dead", !.summary = s]  BY <1>3, <1>4, <1>5, <1>6
<1>8. /\ cap' \in Captures /\ cap'.pc = "dead" /\ cap'.started = c.started
      /\ cap'.failed = c.failed /\ cap'.eligible = c.eligible /\ cap'.dir = c.dir
      /\ cap'.summary = s /\ cap'.tablet = c.tablet
  BY <1>7 DEF Captures
<1>9. DurationInv' /\ (dur' = NoStart \/ dur' \in Durations)  BY <1>1, <1>3, FinishingKeeps
<1>10. ThreadsInv'  BY <1>1, <1>5, <1>8 DEF CaptureInv, ThreadsInv
<1>11. EligibleInv'  BY <1>5, <1>6, <1>8 DEF CaptureInv, EligibleInv
<1> QED  BY <1>1, <1>8, <1>9, <1>10, <1>11, CollectorKeeps

-----------------------------------------------------------------------------
(* The tracker's process and the receiver *)

\* A sample sees the window that is there when it is called back.
LEMMA CallbackKeeps == ASSUME CaptureInv, Callback PROVE CaptureInv'
<1> USE DEF Callback, Tick
<1>1. /\ now \in Nat \ {0} /\ now' = now + 1 /\ view \in Views /\ pipe \in Pipes /\ rec \in Receivers
      /\ UNCHANGED <<view, cap, geo, rec, file, dur, faults>>
  BY DEF CaptureInv, CaptureTypes
<1>2. PICK s \in Callbacks, n \in Nat :
         /\ s.t \in {now, now - 1} /\ s.seen = view.mode
         /\ pipe' = [pipe EXCEPT !.sent = n, !.seq = s.seq, !.lines = <<s>>]
  <2>1. PICK look \in Looks, like \in {"next", "gap", "held"} :
           LET seq == IF like = "gap" THEN pipe.seq + 2 ELSE pipe.seq + 1
               t == IF like = "held" THEN now - 1 ELSE now
           IN  pipe' = [pipe EXCEPT !.sent = @ + 1, !.seq = seq,
                          !.lines = <<[t |-> t, seq |-> seq, look |-> look, seen |-> view.mode]>>]
    OBVIOUS
  <2>2. PICK seq \in Nat : seq = IF like = "gap" THEN pipe.seq + 2 ELSE pipe.seq + 1
    BY <1>1 DEF Pipes
  <2>3. PICK t \in Nat : t = IF like = "held" THEN now - 1 ELSE now  BY <1>1
  <2>4. PICK s \in Callbacks : s = [t |-> t, seq |-> seq, look |-> look, seen |-> view.mode]
    BY <1>1, <2>1 DEF Callbacks, Views
  <2>5. PICK n \in Nat : n = pipe.sent + 1  BY <1>1 DEF Pipes
  <2>6. pipe' = [pipe EXCEPT !.sent = n, !.seq = seq, !.lines = <<s>>]
    BY <2>1, <2>2, <2>3, <2>4, <2>5
  <2>7. s.t \in {now, now - 1} /\ s.seen = view.mode /\ s.seq = seq  BY <2>3, <2>4
  <2> QED  BY <2>6, <2>7
<1>3. PICK lines \in Seq(Callbacks) : lines = <<s>>
  <2>1. <<s>> \in Seq(Callbacks)  OBVIOUS
  <2> QED  BY <2>1
<1>4. Len(lines) = 1 /\ lines[1] = s /\ s.t \in Nat /\ s.seq \in Nat  BY <1>3 DEF Callbacks
<1>5. pipe' = [pipe EXCEPT !.sent = n, !.seq = s.seq, !.lines = lines]  BY <1>2, <1>3
<1>6. pipe' \in Pipes /\ pipe'.lines = lines  BY <1>1, <1>4, <1>5 DEF Pipes
<1>7. CaptureTypes'  BY <1>1, <1>4, <1>6 DEF CaptureInv, CaptureTypes
<1>8. WindowInv'
  <2>1. view.pub # NoTime => view.pub \in Nat /\ view.pub < now /\ view.key = view.mode
    BY <1>1 DEF CaptureInv, WindowInv, Views, Times
  <2>2. SeenTruly(s)'  BY <1>1, <1>2, <1>4, <2>1 DEF SeenTruly
  <2>3. rec.item # << >> => SeenTruly(rec.item[1])'
    BY <1>1, ItemTypes DEF CaptureInv, WindowInv, SeenTruly
  <2>4. SeenTruly(pipe.lines[1])'  BY <1>4, <1>6, <2>2 DEF SeenTruly
  <2> QED  BY <1>1, <2>1, <2>3, <2>4 DEF CaptureInv, WindowInv
<1>9. ReceiverInv'
  <2>1. rec.pub # NoTime => rec.pub \in Nat  BY <1>1 DEF Receivers, Times
  <2> QED  BY <1>1, <2>1 DEF CaptureInv, ReceiverInv
<1>10. GeometryInv' /\ DurationInv' /\ FileInv'  BY <1>1, RecordsFrame DEF Receiving
<1>11. ThreadsInv' /\ EligibleInv'  BY <1>1 DEF CaptureInv, ThreadsInv, EligibleInv
<1> QED  BY <1>7, <1>8, <1>9, <1>10, <1>11 DEF CaptureInv

\* What a step that moves no sample and no window keeps.
LEMMA ReceiverFrame ==
  ASSUME CaptureInv, UNCHANGED <<now, view, dur, file>>,
         geo' \in Geometries, geo'.mode = geo.mode, geo'.evidence = geo.evidence,
         geo'.id = geo.id, geo'.key \in {geo.key, "none"},
         pipe' \in Pipes, pipe'.lines \in {pipe.lines, << >>},
         rec' \in Receivers, rec'.item = rec.item, ReceiverInv',
         rec'.pc # "none", rec.pc # "none", Receiving' => Receiving,
         cap' \in Captures, cap'.pc = cap.pc, cap'.started = cap.started, cap'.dir = cap.dir,
         cap'.summary = cap.summary, EligibleInv', rec.pc = "exit" => rec'.pc = "dead",
         cap.pc # "none"
  PROVE  CaptureInv'
<1>1. GeometryInv' /\ DurationInv' /\ FileInv'  BY RecordsFrame
<1>2. WindowInv'  BY DEF CaptureInv, WindowInv, SeenTruly
<1>3. ThreadsInv'  BY DEF CaptureInv, ThreadsInv, Receiving
<1>4. Len(<< >>) = 0  OBVIOUS
<1>5. CaptureTypes'  BY <1>4 DEF CaptureInv, CaptureTypes
<1> QED  BY <1>1, <1>2, <1>3, <1>5 DEF CaptureInv

\* A process that ended leaves what it told.
LEMMA ProcessEndsKeeps == ASSUME CaptureInv, ProcessEnds PROVE CaptureInv'
<1>1. /\ pipe \in Pipes /\ pipe' = [pipe EXCEPT !.state = "over"]
      /\ UNCHANGED <<now, view, cap, geo, rec, file, dur>>
  BY DEF CaptureInv, CaptureTypes, ProcessEnds, Fault
<1>2. pipe' \in Pipes /\ pipe'.lines = pipe.lines  BY <1>1 DEF Pipes
<1>3. GeometryInv' /\ DurationInv' /\ FileInv'  BY <1>1, RecordsFrame DEF Receiving
<1>4. WindowInv' /\ ReceiverInv' /\ ThreadsInv' /\ EligibleInv' /\ CaptureTypes'
  BY <1>1, <1>2
     DEF CaptureInv, CaptureTypes, WindowInv, ReceiverInv, SeenTruly, ThreadsInv, EligibleInv
<1> QED  BY <1>3, <1>4 DEF CaptureInv

\* A tablet that is not where its profile says is excluded before any sample.
LEMMA BindKeeps == ASSUME CaptureInv, Bind PROVE CaptureInv'
<1>1. /\ pipe \in Pipes /\ geo \in Geometries /\ cap \in Captures /\ rec \in Receivers
      /\ rec.pc = "bind" /\ cap.pc # "none" /\ cap.summary = << >>
      /\ UNCHANGED <<now, view, geo, pipe, file, dur>>
  BY DEF CaptureInv, CaptureTypes, ThreadsInv, Bind
<1>2. PICK pc \in {"exit", "read"} : rec' = [rec EXCEPT !.pc = pc]  BY DEF Bind
<1>3. /\ rec' \in Receivers /\ rec'.pc = pc /\ rec'.item = rec.item  BY <1>1, <1>2 DEF Receivers
<1>4. \/ cap' = cap
      \/ cap' = [cap EXCEPT !.tablet = "bound"]
      \/ cap' = [cap EXCEPT !.tablet = "mismatch", !.eligible = @ \ {"TABLET"}]
  BY DEF Bind
<1>5. /\ cap' \in Captures /\ cap'.pc = cap.pc /\ cap'.started = cap.started
      /\ cap'.dir = cap.dir /\ cap'.summary = cap.summary /\ cap'.failed = cap.failed
  BY <1>1, <1>4, ZenonT(40) DEF Captures
<1>6. /\ cap'.eligible \in {cap.eligible, cap.eligible \ {"TABLET"}}
      /\ cap'.tablet = "mismatch" =>
           (cap' = cap) \/ (cap'.eligible = cap.eligible \ {"TABLET"})
  BY <1>1, <1>4 DEF Captures
<1>7. EligibleInv'  BY <1>1, <1>5, <1>6 DEF CaptureInv, EligibleInv
<1>8. ReceiverInv'  BY <1>3 DEF ReceiverInv
<1> QED  BY <1>1, <1>3, <1>5, <1>7, <1>8, ReceiverFrame DEF Receiving

\* The sample that is read is the one that waited.
LEMMA ReadKeeps == ASSUME CaptureInv, Read PROVE CaptureInv'
<1> USE DEF Read
<1>1. /\ pipe \in Pipes /\ geo \in Geometries /\ cap \in Captures /\ rec \in Receivers
      /\ rec.pc = "read" /\ cap.pc # "none" /\ UNCHANGED <<now, view, cap, geo, file, dur, faults>>
  BY DEF CaptureInv, CaptureTypes, ThreadsInv
<1>2. CASE pipe.lines # << >>
  <2>1. pipe.lines \in Seq(Callbacks) /\ Len(pipe.lines) <= 1
    BY <1>1 DEF CaptureInv, CaptureTypes, Pipes
  <2>2. PICK rest \in Seq(Callbacks) : rest = Tail(pipe.lines) /\ rest = << >> /\ Len(rest) = 0
    <3>1. PICK lines \in Seq(Callbacks) : lines = pipe.lines  BY <2>1
    <3>2. lines # << >> /\ Len(lines) <= 1  BY <1>2, <2>1, <3>1
    <3>3. Tail(lines) \in Seq(Callbacks) /\ Len(Tail(lines)) = 0
      <4>1. Len(lines) = 1
        <5>1. Len(lines) \in Nat \ {0}  BY <3>2, EmptySeq
        <5>2. PICK n : n = Len(lines)  OBVIOUS
        <5>3. n \in Nat \ {0} /\ n <= 1  BY <3>2, <5>1, <5>2
        <5> QED  BY <5>2, <5>3
      <4>2. Tail(lines) \in Seq(Callbacks) /\ Len(Tail(lines)) = Len(lines) - 1
        BY <3>2, HeadTailProperties
      <4> QED  BY <4>1, <4>2
    <3>4. Tail(lines) = << >>  BY <3>3, EmptySeq
    <3> QED  BY <3>1, <3>3, <3>4
  <2>3. PICK s \in Callbacks : s = Head(pipe.lines) /\ s = pipe.lines[1]  BY <1>2, <2>1
  <2>4. PICK item \in Seq(Callbacks) : item = <<s>> /\ item # << >> /\ item[1] = s
    <3>1. <<s>> \in Seq(Callbacks)  OBVIOUS
    <3> QED  BY <3>1
  <2>5. rec' = [rec EXCEPT !.pc = "map", !.item = item, !.reason = "none"]
    BY <1>1, <1>2, <2>3, <2>4
  <2>6. pipe' = [pipe EXCEPT !.lines = rest]  BY <1>1, <1>2, <2>2
  <2>7. pipe' \in Pipes /\ pipe'.lines = rest  BY <1>1, <2>6 DEF Pipes
  <2>8. rec' \in Receivers /\ rec'.pc = "map" /\ rec'.item = item /\ rec'.reason = "none"
    BY <1>1, <2>5 DEF Receivers
  <2>9. CaptureTypes'  BY <1>1, <2>2, <2>7, <2>8 DEF CaptureInv, CaptureTypes
  <2>10. WindowInv'
    <3>1. SeenTruly(s)'  BY <1>1, <1>2, <2>3 DEF CaptureInv, WindowInv, SeenTruly
    <3>2. SeenTruly(rec.item[1])'  BY <2>4, <2>8, <3>1 DEF SeenTruly
    <3> QED  BY <1>1, <2>2, <2>7, <3>2 DEF CaptureInv, WindowInv
  <2>11. ReceiverInv'  BY <2>4, <2>8 DEF ReceiverInv
  <2>12. GeometryInv' /\ DurationInv' /\ FileInv'  BY <1>1, <2>8, RecordsFrame DEF Receiving
  <2>13. ThreadsInv' /\ EligibleInv'  BY <1>1, <2>8 DEF CaptureInv, ThreadsInv, EligibleInv
  <2> QED  BY <2>9, <2>10, <2>11, <2>12, <2>13 DEF CaptureInv
<1>3. CASE pipe.lines = << >>
  <2>1. rec' = [rec EXCEPT !.pc = "exit"] /\ UNCHANGED pipe  BY <1>3
  <2>2. rec' \in Receivers /\ rec'.pc = "exit" /\ rec'.item = rec.item  BY <1>1, <2>1 DEF Receivers
  <2>3. ReceiverInv'  BY <2>2 DEF ReceiverInv
  <2>4. EligibleInv'  BY <1>1 DEF CaptureInv, EligibleInv
  <2> QED  BY <1>1, <2>1, <2>2, <2>3, <2>4, ReceiverFrame DEF Receiving
<1> QED  BY <1>2, <1>3

\* A sample that is not mapped goes to its row without a label.
LEMMA UnlabelledTypes ==
  ASSUME rec \in Receivers
  PROVE  /\ Unlabelled \in Receivers /\ Unlabelled.pc = "row" /\ Unlabelled.reason = "unmapped"
         /\ Unlabelled.item = rec.item
BY DEF Unlabelled, Receivers

\* A sample that is not mapped keeps what holds, with or without a failure.
LEMMA UnlabelledKeeps ==
  ASSUME CaptureInv, UNCHANGED <<now, view, pipe, dur, file>>, rec' = Unlabelled,
         rec.pc \in {"map", "probe", "recheck", "assign"},
         geo' \in Geometries, geo'.mode = geo.mode, geo'.evidence = geo.evidence,
         geo'.id = geo.id, geo'.key \in {geo.key, "none"}, cap' = cap \/ cap' = Failed(cap)
  PROVE  CaptureInv'
<1>1. /\ pipe \in Pipes /\ cap \in Captures /\ rec \in Receivers /\ cap.pc # "none"
      /\ rec.item # << >> /\ cap.summary = << >>
  BY DEF CaptureInv, CaptureTypes, ThreadsInv, ReceiverInv
<1>2. /\ rec' \in Receivers /\ rec'.pc = "row" /\ rec'.reason = "unmapped"
      /\ rec'.item = rec.item
  BY <1>1, UnlabelledTypes
<1>3. ReceiverInv'  BY <1>1, <1>2 DEF ReceiverInv
<1>4. /\ cap' \in Captures /\ cap'.pc = cap.pc /\ cap'.started = cap.started
      /\ cap'.dir = cap.dir /\ cap'.summary = cap.summary
  BY <1>1, FailedTypes
<1>5. EligibleInv'
  <2>1. CASE cap' = cap  BY <2>1 DEF CaptureInv, EligibleInv
  <2>2. CASE cap' = Failed(cap)
    <3>1. cap'.failed = TRUE /\ cap'.eligible = {} /\ cap'.summary = << >>
      BY <1>1, <2>2, FailedTypes
    <3> QED  BY <3>1 DEF EligibleInv
  <2> QED  BY <2>1, <2>2
<1> QED  BY <1>1, <1>2, <1>3, <1>4, <1>5, ReceiverFrame DEF Receiving

\* What a step of the mapping that changes only the receiver must show.
LEMMA StepsOn ==
  ASSUME CaptureInv, UNCHANGED <<now, view, pipe, dur, file, geo, cap>>, rec' \in Receivers,
         rec.pc \in {"map", "probe", "recheck"}, rec'.pc \in {"probe", "recheck", "assign", "row"},
         rec'.item = rec.item, ReceiverInv'
  PROVE  CaptureInv'
<1>1. pipe \in Pipes /\ cap \in Captures /\ geo \in Geometries /\ cap.pc # "none"
  BY DEF CaptureInv, CaptureTypes, ThreadsInv
<1>2. EligibleInv'  BY DEF CaptureInv, EligibleInv
<1> QED  BY <1>1, <1>2, ReceiverFrame DEF Receiving

\* Geometry that is kept is that of the window that the sample saw.
LEMMA MapKeeps == ASSUME CaptureInv, Map PROVE CaptureInv'
<1> USE DEF Map
<1>1. /\ rec \in Receivers /\ view \in Views /\ geo \in Geometries /\ rec.pc = "map"
      /\ rec.item # << >> /\ rec.reason = "none" /\ UNCHANGED <<now, view, pipe, dur, faults>>
  BY DEF CaptureInv, CaptureTypes, ReceiverInv
<1>2. CASE Unmapped  BY <1>1, <1>2, UnlabelledKeeps DEF Unmapped
<1>3. CASE ~Unmapped
  <2>1. /\ view.pub # NoTime /\ rec.item[1].t >= view.pub /\ UNCHANGED <<geo, cap, file>>
        /\ \/ rec' = [rec EXCEPT !.pc = "probe", !.pub = view.pub]
           \/ geo.key = view.key /\ rec' = [rec EXCEPT !.pc = "row"]
    BY <1>1, <1>3
  <2>2. CASE rec' = [rec EXCEPT !.pc = "probe", !.pub = view.pub]
    <3>1. /\ rec' \in Receivers /\ rec'.pc = "probe" /\ rec'.item = rec.item
          /\ rec'.pub = view.pub /\ rec'.reason = "none"
      BY <1>1, <2>2 DEF Receivers, Views
    <3>2. ReceiverInv'  BY <1>1, <2>1, <3>1 DEF CaptureInv, ReceiverInv, WindowInv
    <3> QED  BY <1>1, <2>1, <3>1, <3>2, StepsOn
  <2>3. CASE geo.key = view.key /\ rec' = [rec EXCEPT !.pc = "row"]
    <3>1. /\ rec' \in Receivers /\ rec'.pc = "row" /\ rec'.item = rec.item
          /\ rec'.reason = "none"
      BY <1>1, <2>3 DEF Receivers
    <3>2. rec.item[1].seen = view.key /\ view.key # "none"
      BY <1>1, <2>1 DEF CaptureInv, WindowInv, SeenTruly
    <3>3. geo.mode = geo.key /\ geo.id = geo.key  BY <2>3, <3>2 DEF CaptureInv, GeometryInv
    <3>4. ReceiverInv'  BY <1>1, <2>1, <2>3, <3>1, <3>2, <3>3 DEF ReceiverInv
    <3> QED  BY <1>1, <2>1, <3>1, <3>4, StepsOn
  <2> QED  BY <2>1, <2>2, <2>3
<1> QED  BY <1>2, <1>3

\* The probe asks for the window that is there.
LEMMA ProbeKeeps == ASSUME CaptureInv, Probe PROVE CaptureInv'
<1> USE DEF Probe
<1>1. /\ rec \in Receivers /\ view \in Views /\ geo \in Geometries /\ rec.pc = "probe"
      /\ rec.item # << >> /\ rec.reason = "none" /\ rec.pub # NoTime /\ rec.pub < now
      /\ rec.item[1].t >= rec.pub /\ UNCHANGED <<now, view, pipe, dur>>
  BY DEF CaptureInv, CaptureTypes, ReceiverInv
<1>2. CASE Unmapped  BY <1>1, <1>2, UnlabelledKeeps DEF Unmapped
<1>3. CASE rec' = [rec EXCEPT !.pc = "recheck", !.snap = view.mode] /\ UNCHANGED <<geo, cap, file>>
  <2>1. /\ rec' \in Receivers /\ rec'.pc = "recheck" /\ rec'.item = rec.item
        /\ rec'.pub = rec.pub /\ rec'.reason = "none" /\ rec'.snap = view.mode
    BY <1>1, <1>3 DEF Receivers, Views
  <2>2. ReceiverInv'  BY <1>1, <2>1 DEF CaptureInv, ReceiverInv
  <2> QED  BY <1>1, <1>3, <2>1, <2>2, StepsOn
<1> QED  BY <1>2, <1>3

\* A window that was asked for while the presentation stayed the same is the one that was
\* seen: the callback is not older than that presentation.
LEMMA RecheckKeeps == ASSUME CaptureInv, Recheck PROVE CaptureInv'
<1> USE DEF Recheck
<1>1. /\ rec \in Receivers /\ view \in Views /\ geo \in Geometries /\ rec.pc = "recheck"
      /\ rec.item # << >> /\ rec.reason = "none" /\ rec.pub # NoTime
      /\ rec.item[1].t >= rec.pub
      /\ view.pub = rec.pub => rec.snap = view.mode
      /\ UNCHANGED <<now, view, pipe, dur, faults>>
  BY DEF CaptureInv, CaptureTypes, ReceiverInv
<1>2. CASE Unmapped  BY <1>1, <1>2, UnlabelledKeeps DEF Unmapped
<1>3. CASE /\ rec' = Unlabelled /\ cap' = Failed(cap) /\ geo' = [geo EXCEPT !.key = "none"]
           /\ UNCHANGED file
  <2>1. /\ geo' \in Geometries /\ geo'.mode = geo.mode /\ geo'.key = "none"
        /\ geo'.evidence = geo.evidence /\ geo'.id = geo.id
    BY <1>1, <1>3 DEF Geometries, Modes
  <2> QED  BY <1>1, <1>3, <2>1, UnlabelledKeeps
<1>4. CASE /\ view.pub = rec.pub /\ rec.snap # "none"
           /\ rec' = [rec EXCEPT !.pc = "assign"] /\ UNCHANGED <<geo, cap, file>>
  <2>1. /\ rec' \in Receivers /\ rec'.pc = "assign" /\ rec'.item = rec.item
        /\ rec'.snap = rec.snap /\ rec'.reason = "none"
    BY <1>1, <1>4 DEF Receivers
  <2>2. rec.item[1].seen = view.key /\ view.key = view.mode
    BY <1>1, <1>4 DEF CaptureInv, WindowInv, SeenTruly
  <2>3. ReceiverInv'  BY <1>1, <1>4, <2>1, <2>2 DEF ReceiverInv
  <2> QED  BY <1>1, <1>4, <2>1, <2>3, StepsOn
<1> QED  BY <1>2, <1>3, <1>4

\* A receiver that ended reads no line any more.
LEMMA ReceiverEndsKeeps == ASSUME CaptureInv, ReceiverEnds PROVE CaptureInv'
<1>1. /\ pipe \in Pipes /\ geo \in Geometries /\ cap \in Captures /\ rec \in Receivers
      /\ rec.pc = "exit" /\ cap.pc # "none" /\ UNCHANGED <<now, view, cap, geo, file, dur>>
      /\ rec' = [rec EXCEPT !.pc = "dead"]
      /\ pipe' = [pipe EXCEPT !.state = "over", !.lines = << >>]
  BY DEF CaptureInv, CaptureTypes, ThreadsInv, ReceiverEnds
<1>2. rec' \in Receivers /\ rec'.pc = "dead" /\ rec'.item = rec.item  BY <1>1 DEF Receivers
<1>3. pipe' \in Pipes /\ pipe'.lines = << >>
  <2>1. PICK none \in Seq(Callbacks) : none = << >>
    <3>1. << >> \in Seq(Callbacks)  OBVIOUS
    <3> QED  BY <3>1
  <2>2. pipe' = [pipe EXCEPT !.state = "over", !.lines = none]  BY <1>1, <2>1
  <2>3. pipe' \in Pipes /\ pipe'.lines = none  BY <1>1, <2>2 DEF Pipes
  <2> QED  BY <2>1, <2>3
<1>4. ReceiverInv'  BY <1>2 DEF ReceiverInv
<1>5. EligibleInv'  BY <1>1 DEF CaptureInv, EligibleInv
<1> QED  BY <1>1, <1>2, <1>3, <1>4, <1>5, ReceiverFrame DEF Receiving

\* The geometry of a mapping is kept once its definition is in the file.
LEMMA AssignKeeps == ASSUME CaptureInv, Assign PROVE CaptureInv'
<1> USE DEF Assign, Fault, Calm
<1>1. /\ rec \in Receivers /\ view \in Views /\ geo \in Geometries /\ pipe \in Pipes
      /\ cap \in Captures /\ file \in Seq(FileRows) /\ rec.pc = "assign" /\ rec.item # << >>
      /\ rec.reason = "none" /\ rec.snap = rec.item[1].seen /\ rec.snap # "none"
      /\ UNCHANGED <<now, view, pipe, dur>>
  BY DEF CaptureInv, CaptureTypes, ReceiverInv
<1>2. CASE /\ geo' = [geo EXCEPT !.mode = rec.snap, !.key = "none"]
           /\ file' = file /\ cap' = Failed(cap) /\ rec' = Unlabelled
  <2>1. /\ geo' \in Geometries /\ geo'.key = "none" /\ geo'.evidence = geo.evidence
        /\ geo'.id = geo.id
    BY <1>1, <1>2 DEF Geometries, Modes, Receivers
  <2>2. /\ rec' \in Receivers /\ rec'.pc = "row" /\ rec'.reason = "unmapped"
        /\ rec'.item = rec.item
    BY <1>1, <1>2, UnlabelledTypes
  <2>3. ReceiverInv'  BY <1>1, <2>2 DEF ReceiverInv
  <2>4. GeometryInv'
    <3>1. \A mode : Defined(mode) => Defined(mode)'  BY <1>1, <1>2, FileKeeps
    <3> QED  BY <2>1, <3>1 DEF CaptureInv, GeometryInv
  <2>5. /\ cap' \in Captures /\ cap'.pc = cap.pc /\ cap'.started = cap.started
        /\ cap'.dir = cap.dir /\ cap'.summary = cap.summary /\ cap'.failed = TRUE
        /\ cap'.eligible = {}
    BY <1>1, <1>2, FailedTypes
  <2>6. /\ cap.pc # "none" /\ cap.summary = << >> /\ cap.dir # "moved"
        /\ cap.pc \notin {"mkdir", "discover", "finish", "dead"}
    BY <1>1 DEF CaptureInv, ThreadsInv
  <2>7. ThreadsInv'  BY <1>1, <2>2, <2>5, <2>6 DEF CaptureInv, ThreadsInv
  <2>8. EligibleInv'  BY <2>5, <2>6 DEF EligibleInv
  <2>9. DurationInv'  BY <1>1, <1>2, <2>2, DurationFrame DEF CaptureInv, Receiving
  <2>10. FileInv'  BY <1>2 DEF CaptureInv, FileInv, NoForeignWindow, MappingIsDefined, Rows
  <2>11. WindowInv'  BY <1>1, <2>2 DEF CaptureInv, WindowInv, SeenTruly
  <2>12. CaptureTypes'  BY <1>1, <1>2, <2>1, <2>2, <2>5 DEF CaptureInv, CaptureTypes
  <2> QED  BY <2>3, <2>4, <2>7, <2>8, <2>9, <2>10, <2>11, <2>12 DEF CaptureInv
<1>3. CASE /\ geo' = [mode |-> rec.snap, key |-> rec.snap, evidence |-> rec.snap, id |-> rec.snap]
           /\ file' = Append(file, Mapping(rec.snap, rec.snap # geo.evidence))
           /\ rec' = [rec EXCEPT !.pc = "row"] /\ UNCHANGED cap
  <2>1. /\ geo' \in Geometries /\ geo'.mode = rec.snap /\ geo'.key = rec.snap
        /\ geo'.evidence = rec.snap /\ geo'.id = rec.snap
    BY <1>1, <1>3 DEF Geometries, Receivers
  <2>2. /\ rec' \in Receivers /\ rec'.pc = "row" /\ rec'.reason = "none"
        /\ rec'.item = rec.item
    BY <1>1, <1>3 DEF Receivers
  <2>3. ReceiverInv'  BY <1>1, <2>1, <2>2 DEF ReceiverInv
  <2>4. PICK defines \in BOOLEAN : defines = (rec.snap # geo.evidence)  OBVIOUS
  <2>5. PICK r \in MappingRows : r = [kind |-> "mapping", mode |-> rec.snap, defines |-> defines]
    BY <1>1 DEF MappingRows, Receivers
  <2>6. file' = Append(file, r) /\ r \in FileRows  BY <1>3, <2>4, <2>5 DEF Mapping, FileRows
  <2>7. /\ file' \in Seq(FileRows) /\ Len(file') = Len(file) + 1 /\ file'[Len(file) + 1] = r
        /\ \A i \in 1..Len(file) : file'[i] = file[i]
        /\ Len(file) + 1 \in Rows(r.kind)' /\ Len(file) \in Nat
    BY <1>1, <2>6, FileGrows
  <2>8. \A mode : Defined(mode) => Defined(mode)'  BY <1>1, <2>6, FileKeeps
  <2>9. PICK mode : mode = rec.snap  OBVIOUS
  <2>10. Defined(mode)'
    <3>1. CASE defines  BY <2>5, <2>7, <2>9, <3>1 DEF Defined
    <3>2. CASE ~defines
      <4>1. geo.id = mode  BY <1>1, <2>4, <2>9, <3>2 DEF CaptureInv, GeometryInv
      <4>2. Defined(mode)  BY <1>1, <2>9, <4>1 DEF CaptureInv, GeometryInv, Defined
      <4> QED  BY <2>8, <4>2
    <3> QED  BY <3>1, <3>2
  <2>11. GeometryInv'  BY <2>1, <2>9, <2>10 DEF GeometryInv, Defined
  <2>12. ThreadsInv' /\ EligibleInv'  BY <1>1, <1>3, <2>2 DEF CaptureInv, ThreadsInv, EligibleInv
  <2>13. DurationInv'  BY <1>1, <2>2, <2>6, DurationFrame DEF CaptureInv, Receiving
  <2>14. FileInv'
    <3>1. \A i \in Rows("gaze")' : i \in Rows("gaze") /\ file'[i] = file[i] /\ i \in 1..Len(file)
      BY <2>5, <2>7 DEF Rows
    <3>2. \A j \in Rows("mapping") : j \in Rows("mapping")' /\ file'[j] = file[j]
      BY <1>1, <2>6, FileKeeps
    <3> QED  BY <3>1, <3>2 DEF CaptureInv, FileInv, NoForeignWindow, MappingIsDefined
  <2>15. WindowInv'  BY <1>1, <2>2 DEF CaptureInv, WindowInv, SeenTruly
  <2>16. CaptureTypes'  BY <1>1, <1>3, <2>1, <2>2, <2>7 DEF CaptureInv, CaptureTypes
  <2> QED  BY <2>3, <2>11, <2>12, <2>13, <2>14, <2>15, <2>16 DEF CaptureInv
<1> QED  BY <1>2, <1>3

\* The durations with a sample more: its row is in the file before it counts.
LEMMA AddedKeeps ==
  ASSUME CaptureInv, Receiving, dur \in Durations, NEW s \in Callbacks, NEW state \in States,
         NEW r \in GazeRows, r.t = s.t, r.seq = s.seq, r.state = state,
         file' = Append(file, r), dur' = Duration!Added(dur, s.t, s.seq, FALSE, state),
         rec'.pc # "none"
  PROVE  DurationInv' /\ dur' \in Durations
<1>1. PICK d \in Durations : d = dur  OBVIOUS
<1>2. /\ file \in Seq(FileRows) /\ r \in FileRows /\ Covers(d) /\ AllWitnessed(d.rows)
      /\ PreviousSeen(d) /\ s.t \in Nat /\ s.seq \in Nat /\ d.rows \in Seq(Spans)
  <2>1. file \in Seq(FileRows) /\ r \in FileRows /\ s.t \in Nat /\ s.seq \in Nat
    BY DEF CaptureInv, CaptureTypes, FileRows, Callbacks
  <2>2. d # NoStart /\ d.rows \in Seq(Spans)  BY CaptureAssumption DEF Durations, Spans, Labels
  <2>3. Covers(d) /\ AllWitnessed(d.rows) /\ PreviousSeen(d)
    BY <1>1, <2>2 DEF CaptureInv, DurationInv
  <2> QED  BY <2>1, <2>2, <2>3
<1>3. AllWitnessed(d.rows)' /\ PreviousSeen(d)'  BY <1>2, FileKeeps
<1>4. PICK last : last = Len(file) + 1  OBVIOUS
<1>5. last \in Rows("gaze")' /\ file'[last] = r
  <2>1. Len(file) + 1 \in Rows(r.kind)' /\ file'[Len(file) + 1] = r  BY <1>2, FileGrows
  <2>2. r.kind = "gaze"  BY DEF GazeRows
  <2> QED  BY <1>4, <2>1, <2>2
<1>6. SeenAt(s.t, s.seq, state)'  BY <1>5 DEF SeenAt
<1>7. PICK e : e = Duration!Added(d, s.t, s.seq, FALSE, state)  OBVIOUS
<1>8. /\ e \in Durations /\ Covers(e)
      /\ \/ e.previous = d.previous /\ e.edge = d.edge /\ e.rows = d.rows
         \/ /\ e.previous = <<s.seq, state>> /\ e.edge = s.t
            /\ \/ e.rows = d.rows
               \/ \E row \in Spans :
                    /\ row.from = d.edge /\ row.to = s.t /\ e.rows = Append(d.rows, row)
                    /\ row.state \notin Duration!Unknown =>
                         /\ d.previous # << >> /\ s.seq = d.previous[1] + 1
                         /\ state = d.previous[2] /\ row.state = state
  <2>1. PICK jump : e = Duration!Added(d, s.t, s.seq, jump, state)  BY <1>7, Zenon
  <2>2. Adds(Duration!Added(d, s.t, s.seq, jump, state), d, s.t, s.seq, state)  BY <1>2, AddedFacts
  <2>3. Adds(e, d, s.t, s.seq, state)  BY <2>1, <2>2
  <2> QED  BY <2>3 DEF Adds
<1>9. PreviousSeen(e)'
  <2>1. CASE e.previous = d.previous /\ e.edge = d.edge  BY <1>3, <2>1 DEF PreviousSeen
  <2>2. CASE e.previous = <<s.seq, state>> /\ e.edge = s.t  BY <1>6, <2>2 DEF PreviousSeen
  <2> QED  BY <1>8, <2>1, <2>2
<1>10. AllWitnessed(e.rows)'
  <2>1. CASE e.rows = d.rows  BY <1>3, <2>1
  <2>2. ASSUME NEW row \in Spans, row.from = d.edge, row.to = s.t, e.rows = Append(d.rows, row),
               row.state \notin Duration!Unknown =>
                 /\ d.previous # << >> /\ s.seq = d.previous[1] + 1
                 /\ state = d.previous[2] /\ row.state = state
        PROVE  AllWitnessed(e.rows)'
    <3>1. Witnessed(row)'
      <4>1. CASE row.state \in Duration!Unknown  BY <4>1 DEF Witnessed
      <4>2. CASE row.state \notin Duration!Unknown
        <5>1. PICK i \in Rows("gaze") : /\ file[i].t = d.edge /\ file[i].seq = d.previous[1]
                                        /\ file[i].state = d.previous[2]
          BY <1>2, <2>2, <4>2 DEF PreviousSeen, SeenAt
        <5>2. i \in Rows("gaze")' /\ file'[i] = file[i]  BY <1>2, <5>1, FileKeeps
        <5>3. /\ file'[i].t = row.from /\ file'[last].t = row.to
              /\ file'[last].seq = file'[i].seq + 1
              /\ file'[i].state = row.state /\ file'[last].state = row.state
          BY <1>5, <2>2, <4>2, <5>1, <5>2
        <5> QED  BY <1>5, <5>2, <5>3, ZenonT(40) DEF Witnessed
      <4> QED  BY <4>1, <4>2
    <3>2. /\ Len(e.rows) = Len(d.rows) + 1 /\ e.rows[Len(d.rows) + 1] = row
          /\ \A k \in 1..Len(d.rows) : e.rows[k] = d.rows[k]
      BY <1>2, <2>2
    <3>3. Len(d.rows) \in Nat  BY <1>2
    <3>4. ASSUME NEW k \in 1..Len(e.rows) PROVE Witnessed(e.rows[k])'
      <4>1. CASE k = Len(d.rows) + 1  BY <3>1, <3>2, <4>1
      <4>2. CASE k \in 1..Len(d.rows)
        <5>1. Witnessed(d.rows[k])'  BY <1>3, <4>2 DEF AllWitnessed
        <5> QED  BY <3>2, <4>2, <5>1
      <4> QED  BY <3>2, <3>3, <4>1, <4>2
    <3> QED  BY <3>4 DEF AllWitnessed
  <2> QED  BY <1>8, <2>1, <2>2
<1>11. dur' = e  BY <1>1, <1>7
<1>12. DurationInv'  BY <1>8, <1>9, <1>10, <1>11 DEF DurationInv
<1> QED  BY <1>8, <1>11, <1>12

\* A row more, and what it says is of its own window.
LEMMA WrittenKeeps ==
  ASSUME CaptureInv, rec.pc = "row", NEW labelled \in BOOLEAN, labelled => rec.reason = "none",
         Written(rec.item[1], labelled), cap' = cap \/ cap' = Failed(cap),
         UNCHANGED <<now, view, geo, pipe>>
  PROVE  CaptureInv'
<1>1. /\ rec \in Receivers /\ geo \in Geometries /\ cap \in Captures /\ file \in Seq(FileRows)
      /\ rec.item # << >> /\ cap.summary = << >> /\ cap.dir # "moved"
      /\ cap.pc \in {"loop", "unsubscribe", "drain"} /\ dur \in Durations /\ Receiving
      /\ view.pc \notin {"enter", "move"}
  BY DEF CaptureInv, CaptureTypes, ThreadsInv, ReceiverInv, Receiving, Captures
<1>2. PICK s \in Callbacks : s = rec.item[1]  BY <1>1, ItemTypes DEF CaptureInv
<1>3. PICK state \in States : state = State(s, labelled)  BY DEF State, States, Callbacks
<1>4. PICK r \in GazeRows :
         r = [kind |-> "gaze", t |-> s.t, seq |-> s.seq, seen |-> s.seen, state |-> state,
              id |-> IF labelled THEN geo.id ELSE "none",
              by |-> IF labelled THEN geo.mode ELSE "none"]
  BY <1>1 DEF GazeRows, Geometries, Callbacks, Modes
<1>5. /\ r.t = s.t /\ r.seq = s.seq /\ r.seen = s.seen /\ r.state = state /\ r.kind = "gaze"
      /\ r.id = IF labelled THEN geo.id ELSE "none"
      /\ r.by = IF labelled THEN geo.mode ELSE "none"
  BY <1>4
<1>6. /\ file' = Append(file, r) /\ r \in FileRows
      /\ dur' = IF Eligible(s) THEN Duration!Added(dur, s.t, s.seq, FALSE, state) ELSE dur
      /\ rec' = Free("read")
  BY <1>2, <1>3, <1>4 DEF Written, FileRows
<1>7. rec' \in Receivers /\ rec'.pc = "read" /\ rec'.item = << >>
  <2>1. PICK none \in Seq(Callbacks) : none = << >>
    <3>1. << >> \in Seq(Callbacks)  OBVIOUS
    <3> QED  BY <3>1
  <2>2. rec' = [rec EXCEPT !.pc = "read", !.item = none, !.pub = NoTime, !.snap = "none",
                           !.reason = "none"]
    BY <1>6, <2>1 DEF Free
  <2>3. rec' \in Receivers /\ rec'.pc = "read" /\ rec'.item = none
    BY <1>1, <2>2 DEF Receivers, Times, Modes
  <2> QED  BY <2>1, <2>3
<1>8. DurationInv' /\ dur' \in Durations
  <2>1. CASE Eligible(s)  BY <1>1, <1>5, <1>6, <1>7, <2>1, AddedKeeps
  <2>2. CASE ~Eligible(s)
    <3>1. UNCHANGED dur  BY <1>6, <2>2
    <3> QED  BY <1>1, <1>6, <1>7, <3>1, DurationFrame DEF CaptureInv
  <2> QED  BY <2>1, <2>2
<1>9. /\ file' \in Seq(FileRows) /\ Len(file') = Len(file) + 1 /\ file'[Len(file) + 1] = r
      /\ \A i \in 1..Len(file) : file'[i] = file[i]
  BY <1>1, <1>6, FileGrows
<1>10. /\ \A mode : Defined(mode) => Defined(mode)'
       /\ \A kind : \A i \in Rows(kind) : i \in Rows(kind)' /\ file'[i] = file[i]
  BY <1>1, <1>6, FileKeeps
<1>11. GeometryInv'  BY <1>10 DEF CaptureInv, GeometryInv
<1>12. FileInv'
  <2>1. r.by # "none" => r.by = r.seen /\ labelled  BY <1>2, <1>5 DEF CaptureInv, ReceiverInv
  <2>2. r.id # "none" => r.id = r.by /\ Defined(r.id)
    BY <1>2, <1>5 DEF CaptureInv, ReceiverInv, GeometryInv
  <2>3. ASSUME NEW i \in Rows("gaze")'
        PROVE  (i \in Rows("gaze") /\ file'[i] = file[i]) \/ (i = Len(file) + 1 /\ file'[i] = r)
    BY <1>1, <1>9 DEF Rows
  <2>4. NoForeignWindow'  BY <2>1, <2>3 DEF CaptureInv, FileInv, NoForeignWindow
  <2>5. ASSUME NEW i \in Rows("gaze")', file'[i].id # "none"
        PROVE  /\ file'[i].id = file'[i].by
               /\ \E j \in Rows("mapping")' :
                    j < i /\ file'[j].defines /\ file'[j].mode = file'[i].id
    <3>1. CASE i \in Rows("gaze") /\ file'[i] = file[i]
      <4>1. PICK j \in Rows("mapping") :
               j < i /\ file[j].defines /\ file[j].mode = file[i].id
        BY <2>5, <3>1 DEF CaptureInv, FileInv, MappingIsDefined
      <4>2. j \in Rows("mapping")' /\ file'[j] = file[j]  BY <1>10, <4>1
      <4> QED  BY <2>5, <3>1, <4>1, <4>2 DEF CaptureInv, FileInv, MappingIsDefined
    <3>2. CASE i = Len(file) + 1 /\ file'[i] = r
      <4>1. r.id = r.by /\ Defined(r.id)  BY <2>2, <2>5, <3>2
      <4>2. PICK j \in Rows("mapping") : file[j].defines /\ file[j].mode = r.id  BY <4>1 DEF Defined
      <4>3. j \in Rows("mapping")' /\ file'[j] = file[j]  BY <1>10, <4>2
      <4>4. j < Len(file) + 1  BY <1>1, <4>2 DEF Rows
      <4> QED  BY <3>2, <4>1, <4>2, <4>3, <4>4
    <3> QED  BY <2>3, <3>1, <3>2
  <2>6. MappingIsDefined'  BY <2>5 DEF MappingIsDefined
  <2> QED  BY <2>4, <2>6 DEF FileInv
<1>13. /\ cap' \in Captures /\ cap'.pc = cap.pc /\ cap'.started = cap.started
       /\ cap'.dir = cap.dir /\ cap'.summary = << >>
       /\ (cap' = cap) \/ (cap'.failed = TRUE /\ cap'.eligible = {})
  BY <1>1, FailedTypes
<1>14. EligibleInv'  BY <1>13 DEF CaptureInv, EligibleInv
<1>15. ThreadsInv'  BY <1>1, <1>7, <1>8, <1>13 DEF CaptureInv, ThreadsInv
<1>16. WindowInv' /\ ReceiverInv'  BY <1>7 DEF CaptureInv, WindowInv, ReceiverInv, SeenTruly
<1>17. CaptureTypes'  BY <1>7, <1>8, <1>9, <1>13 DEF CaptureInv, CaptureTypes
<1> QED  BY <1>8, <1>11, <1>12, <1>14, <1>15, <1>16, <1>17 DEF CaptureInv

\* The row is written, labelled or not, or it ends the receiver.
LEMMA WriteRowKeeps == ASSUME CaptureInv, WriteRow PROVE CaptureInv'
<1>1. rec.pc = "row" /\ UNCHANGED <<now, view, geo, pipe>>  BY DEF WriteRow
<1>2. CASE Written(rec.item[1], FALSE) /\ (cap' = cap \/ cap' = Failed(cap))
  BY <1>1, <1>2, WrittenKeeps
<1>3. CASE rec.reason = "none" /\ Written(rec.item[1], TRUE) /\ UNCHANGED cap
  BY <1>1, <1>3, WrittenKeeps
<1>4. CASE rec' = [Free("exit") EXCEPT !.failed = TRUE] /\ UNCHANGED <<cap, file, dur>>
  <2>1. /\ rec \in Receivers /\ geo \in Geometries /\ cap \in Captures /\ pipe \in Pipes
        /\ cap.pc \in {"loop", "unsubscribe", "drain"}
    BY <1>1 DEF CaptureInv, CaptureTypes, ThreadsInv, Captures
  <2>2. rec' \in Receivers /\ rec'.pc = "exit" /\ rec'.item = << >>
    <3>1. PICK none \in Seq(Callbacks) : none = << >>
      <4>1. << >> \in Seq(Callbacks)  OBVIOUS
      <4> QED  BY <4>1
    <3>2. PICK f : f = Free("exit")  OBVIOUS
    <3>3. f = [rec EXCEPT !.pc = "exit", !.item = none, !.pub = NoTime, !.snap = "none",
                          !.reason = "none"]
      BY <3>1, <3>2 DEF Free
    <3>4. f \in Receivers /\ f.pc = "exit" /\ f.item = none
      BY <2>1, <3>3 DEF Receivers, Times, Modes
    <3>5. rec' = [f EXCEPT !.failed = TRUE]  BY <1>4, <3>2
    <3>6. rec' \in Receivers /\ rec'.pc = "exit" /\ rec'.item = none  BY <3>4, <3>5 DEF Receivers
    <3> QED  BY <3>1, <3>6
  <2>3. GeometryInv' /\ DurationInv' /\ FileInv'  BY <1>1, <1>4, <2>2, RecordsFrame DEF Receiving
  <2>4. WindowInv' /\ ReceiverInv'  BY <1>1, <2>2 DEF CaptureInv, WindowInv, ReceiverInv, SeenTruly
  <2>5. ThreadsInv' /\ EligibleInv'
    BY <1>1, <1>4, <2>1, <2>2 DEF CaptureInv, ThreadsInv, EligibleInv
  <2>6. CaptureTypes'  BY <1>1, <1>4, <2>2 DEF CaptureInv, CaptureTypes
  <2> QED  BY <2>3, <2>4, <2>5, <2>6 DEF CaptureInv
<1> QED  BY <1>2, <1>3, <1>4 DEF WriteRow

\* Every step of the capture keeps what holds of it.
LEMMA CaptureKeeps ==
  ASSUME CaptureInv, Renderer \/ Collector \/ Receiver \/ Tracker
  PROVE  CaptureInv'
<1>1. CASE Renderer
  BY <1>1, PresentKeeps, SuspendKeeps, ReplacedKeeps, ExitKeeps, JoinKeeps, MoveKeeps DEF Renderer
<1>2. CASE Collector
  BY <1>2, PrepareKeeps, DiscoverKeeps, LeaveLoopKeeps, UnsubscribeKeeps, DrainKeeps, FinishKeeps
     DEF Collector
<1>3. CASE Receiver
  BY <1>3, BindKeeps, ReadKeeps, MapKeeps, ProbeKeeps, RecheckKeeps, AssignKeeps, WriteRowKeeps,
     ReceiverEndsKeeps DEF Receiver
<1>4. CASE Tracker  BY <1>4, CallbackKeeps, ProcessEndsKeeps DEF Tracker
<1> QED  BY <1>1, <1>2, <1>3, <1>4

\* A step of the check leaves the capture as it is.
LEMMA CaptureStutters == ASSUME CaptureInv, UNCHANGED captureVars PROVE CaptureInv'
<1>1. UNCHANGED <<now, view, geo, pipe, rec, file, cap, dur>>  BY DEF captureVars
<1>2. DurationInv'  BY <1>1, RecordsFrame DEF Receiving
<1>3. ThreadsInv' /\ EligibleInv' /\ cap' \in Captures /\ (dur' = NoStart \/ dur' \in Durations)
  BY <1>1 DEF CaptureInv, CaptureTypes, ThreadsInv, EligibleInv
<1> QED  BY <1>1, <1>2, <1>3, CollectorKeeps

-----------------------------------------------------------------------------
(* The check before the drive *)

Segments == [target : AOIS, passed : BOOLEAN, confused : SUBSET AOIS, attempt : Nat]
Results == [eligible : SUBSET AOIS, segs : Seq(Segments), attempt : Nat]
Decisions == [module : {"none", "M1", "M2"}, eligible : SUBSET AOIS]
Checks ==
  [mode : {"page", "INTRO", "CONNECTING", "TARGET", "MEASURING", "RESULT", "CONFIRM_EXCLUSIONS",
           "decided", "gone"},
   module : {"M2"}, attempts : Nat, segs : Seq(Segments), capture : {"none", "alive", "dead"},
   full : BOOLEAN, result : Results]

\* The targets of one attempt, in their order.
OfAttempt(segs, attempt) ==
  \A i \in 1..Len(segs) : segs[i].attempt = attempt /\ segs[i].target = Targets[i]

Attempting == chk.mode \in {"CONNECTING", "TARGET", "MEASURING"}

\* Every eligible area was measured by the targets of the attempt that it is a result of.
Measures(result) == \A a \in result.eligible : MeasuredBy(result.segs, result.attempt, a)

\* A capture is of an attempt, its targets are the next ones, and no decision stands while
\* pages are shown.
CheckInv ==
  /\ chk \in Checks /\ quality \in [Modules -> Decisions]
  /\ chk.capture # "none" => Attempting
  /\ Attempting => OfAttempt(chk.segs, chk.attempts + 1) /\ Len(chk.segs) < 3
  /\ Measures(chk.result)
  /\ chk.mode \notin {"decided", "gone"} => StageQuality("M2") = {}
  /\ chk.mode = "decided" => StageQuality("M2") \subseteq chk.result.eligible

\* As many targets were taken for an area as it has.
LEMMA TargetsOf ==
  ASSUME NEW segs \in Seq(Segments), NEW n \in Nat, OfAttempt(segs, n), Len(segs) <= 3,
         NEW a \in AOIS
  PROVE  Cardinality(Of(segs, a)) \in Nat /\ Cardinality(Of(segs, a)) <= Needed(a)
<1>1. Len(segs) \in Nat  OBVIOUS
<1>2. \A i \in 1..Len(segs) : i \in {1, 2, 3} /\ segs[i].target = Targets[i]  BY <1>1 DEF OfAttempt
<1>3. Targets[1] = "FORWARD" /\ Targets[2] = "TABLET" /\ Targets[3] = "FORWARD"  BY DEF Targets
<1>4. CASE a = "FORWARD"
  <2>1. Of(segs, a) \subseteq {1, 3}  BY <1>2, <1>3, <1>4 DEF Of
  <2>2. PICK one : one = {1}  OBVIOUS
  <2>3. IsFiniteSet(one) /\ Cardinality(one) = 1  BY <2>2, FS_Singleton
  <2>4. PICK both : both = one \cup {3}  OBVIOUS
  <2>5. /\ IsFiniteSet(both)
        /\ Cardinality(both) = IF 3 \in one THEN Cardinality(one) ELSE Cardinality(one) + 1
    BY <2>3, <2>4, FS_AddElement
  <2>6. 3 \notin one /\ Of(segs, a) \in SUBSET both  BY <2>1, <2>2, <2>4
  <2>7. Cardinality(both) = 2  BY <2>3, <2>5, <2>6
  <2>8. IsFiniteSet(Of(segs, a)) /\ Cardinality(Of(segs, a)) <= 2  BY <2>5, <2>6, <2>7, FS_Subset
  <2> QED  BY <1>4, <2>8, FS_CardinalityType DEF Needed
<1>5. CASE a = "TABLET"
  <2>1. Of(segs, a) \in SUBSET {2}  BY <1>2, <1>3, <1>5 DEF Of
  <2>2. IsFiniteSet({2}) /\ Cardinality({2}) = 1  BY FS_Singleton
  <2>3. IsFiniteSet(Of(segs, a)) /\ Cardinality(Of(segs, a)) <= 1  BY <2>1, <2>2, FS_Subset
  <2> QED  BY <1>5, <2>3, FS_CardinalityType DEF Needed
<1> QED  BY <1>4, <1>5 DEF AOIS

\* An attempt evaluates to the areas that it measured.
LEMMA EvaluatedIsMeasured ==
  ASSUME NEW segs \in Seq(Segments), NEW n \in Nat, NEW errors,
         errors \/ (OfAttempt(segs, n) /\ Len(segs) <= 3), NEW a \in EvaluateAttempt(segs, errors)
  PROVE  a \in AOIS /\ MeasuredBy(segs, n, a)
<1>1. /\ ~errors /\ a \in AOIS /\ Cardinality(Of(segs, a)) >= Needed(a)
      /\ \A i \in Of(segs, a) : segs[i].passed
  BY DEF EvaluateAttempt
<1>2. Cardinality(Of(segs, a)) \in Nat /\ Cardinality(Of(segs, a)) <= Needed(a)  BY <1>1, TargetsOf
<1>3. Needed(a) \in Nat  BY DEF Needed
<1>4. Cardinality(Of(segs, a)) = Needed(a)  BY <1>1, <1>2, <1>3
<1>5. {i \in Of(segs, a) : segs[i].attempt = n /\ segs[i].passed} = Of(segs, a)
  <2>1. \A i \in Of(segs, a) : i \in 1..Len(segs)  BY DEF Of
  <2> QED  BY <1>1, <2>1 DEF OfAttempt
<1> QED  BY <1>1, <1>4, <1>5 DEF MeasuredBy

\* A result has the areas that its own targets measured.
LEMMA ResultFacts ==
  ASSUME NEW segs \in Seq(Segments), chk.attempts \in Nat, NEW errors,
         errors \/ (OfAttempt(segs, chk.attempts + 1) /\ Len(segs) <= 3)
  PROVE  Result(segs, errors) \in Results /\ Measures(Result(segs, errors))
<1>1. PICK n \in Nat : n = chk.attempts + 1  OBVIOUS
<1>2. PICK areas : areas = EvaluateAttempt(segs, errors)  OBVIOUS
<1>3. areas \in SUBSET AOIS /\ \A a \in areas : MeasuredBy(segs, n, a)
  BY <1>1, <1>2, EvaluatedIsMeasured
<1>4. Result(segs, errors) = [eligible |-> areas, segs |-> segs, attempt |-> n]
  BY <1>1, <1>2 DEF Result
<1> QED  BY <1>3, <1>4 DEF Results, Measures

\* While pages are shown no decision stands; what a page must show.
LEMMA PagesKeep ==
  ASSUME CheckInv, chk.mode \notin {"decided", "gone"}, UNCHANGED quality, chk' \in Checks,
         chk'.mode \notin {"decided", "gone"}, chk'.capture # "none" => Attempting',
         Attempting' => OfAttempt(chk'.segs, chk'.attempts + 1) /\ Len(chk'.segs) < 3,
         Measures(chk'.result)
  PROVE  CheckInv'
<1>1. StageQuality("M2") = {} /\ quality \in [Modules -> Decisions]  BY DEF CheckInv
<1>2. StageQuality("M2")' = {}  BY <1>1 DEF StageQuality
<1> QED  BY <1>1, <1>2 DEF CheckInv

\* An attempt ends in its result.
LEMMA EndsKeep ==
  ASSUME CheckInv, chk.mode \notin {"decided", "gone"}, UNCHANGED quality,
         NEW segs \in Seq(Segments), NEW result \in Results, Measures(result),
         NEW mode \in {"page", "RESULT"}, NEW full \in BOOLEAN,
         chk' = [chk EXCEPT !.mode = mode, !.capture = "none", !.attempts = @ + 1, !.segs = segs,
                            !.full = full, !.result = result]
  PROVE  CheckInv'
<1>1. chk \in Checks  BY DEF CheckInv
<1>2. PICK n \in Nat : n = chk.attempts + 1  BY <1>1 DEF Checks
<1>3. chk' = [chk EXCEPT !.mode = mode, !.capture = "none", !.attempts = n, !.segs = segs,
                         !.full = full, !.result = result]
  BY <1>2
<1>4. chk' \in Checks /\ chk'.mode = mode /\ chk'.capture = "none" /\ chk'.result = result
  BY <1>1, <1>3 DEF Checks
<1> QED  BY <1>4, PagesKeep DEF Attempting

\* An attempt that is finished, by its targets or by an error.
LEMMA FinishedCheckKeeps ==
  ASSUME CheckInv, chk.mode \notin {"decided", "gone"}, UNCHANGED quality,
         NEW segs \in Seq(Segments), NEW errors, Finished(segs, errors),
         errors \/ (OfAttempt(segs, chk.attempts + 1) /\ Len(segs) <= 3)
  PROVE  CheckInv'
<1>1. chk \in Checks /\ chk.attempts \in Nat /\ chk.full \in BOOLEAN  BY DEF CheckInv, Checks
<1>2. PICK failed \in {errors, TRUE} :
         chk' = [chk EXCEPT !.mode = "RESULT", !.capture = "none", !.attempts = @ + 1,
                            !.segs = segs, !.result = Result(segs, failed)]
  BY DEF Finished
<1>3. PICK result \in Results : result = Result(segs, failed) /\ Measures(result)
  BY <1>1, ResultFacts
<1>4. PICK full \in BOOLEAN : full = chk.full  BY <1>1
<1>5. chk' = [chk EXCEPT !.mode = "RESULT", !.capture = "none", !.attempts = @ + 1,
                         !.segs = segs, !.full = full, !.result = result]
  BY <1>1, <1>2, <1>3, <1>4 DEF Checks
<1> QED  BY <1>3, <1>5, EndsKeep

\* An attempt that went wrong.
LEMMA FinishedWrongKeeps ==
  ASSUME CheckInv, chk.mode \notin {"decided", "gone"}, UNCHANGED quality, Finished(chk.segs, TRUE)
  PROVE  CheckInv'
<1>1. chk.segs \in Seq(Segments)  BY DEF CheckInv, Checks
<1>2. PICK errors : errors /\ Finished(chk.segs, errors)  BY Zenon
<1>3. PICK segs \in Seq(Segments) : segs = chk.segs  BY <1>1
<1>4. Finished(segs, errors)  BY <1>2, <1>3
<1> QED  BY <1>2, <1>4, FinishedCheckKeeps

\* An attempt that is an error measured nothing.
LEMMA NothingMeasured ==
  ASSUME chk.attempts \in Nat
  PROVE  Result(<< >>, TRUE) \in Results /\ Measures(Result(<< >>, TRUE))
<1>1. PICK segs \in Seq(Segments) : segs = << >>
  <2>1. << >> \in Seq(Segments)  OBVIOUS
  <2> QED  BY <2>1
<1>2. PICK n \in Nat : n = chk.attempts + 1  OBVIOUS
<1>3. Result(<< >>, TRUE) = [eligible |-> {}, segs |-> segs, attempt |-> n]
  BY <1>1, <1>2 DEF Result, EvaluateAttempt
<1>4. PICK r : r = [eligible |-> {}, segs |-> segs, attempt |-> n]  OBVIOUS
<1>5. r \in Results /\ Measures(r)  BY <1>4 DEF Results, Measures
<1>6. Result(<< >>, TRUE) = r  BY <1>3, <1>4
<1> QED  BY <1>5, <1>6, Zenon

\* The pages between attempts.
LEMMA OpenCheckKeeps == ASSUME CheckInv, OpenCheck PROVE CheckInv'
<1>1. chk \in Checks /\ chk.mode = "page" /\ UNCHANGED quality /\ Measures(chk.result)
      /\ chk.capture = "none"
  BY DEF CheckInv, OpenCheck, In, Attempting
<1>2. PICK mode \in {"RESULT", "INTRO"}, none \in Seq(Segments) :
         chk' = [chk EXCEPT !.mode = mode, !.segs = none]
  <2>1. << >> \in Seq(Segments)  OBVIOUS
  <2>2. PICK none \in Seq(Segments) : none = << >>  BY <2>1
  <2> QED  BY <2>2 DEF OpenCheck
<1>3. chk' \in Checks /\ chk'.mode = mode /\ chk'.capture = "none" /\ chk'.result = chk.result
  BY <1>1, <1>2 DEF Checks
<1> QED  BY <1>1, <1>3, PagesKeep DEF Attempting

\* A check that is skipped leaves no decision, or one that excludes everything.
LEMMA SkipCheckKeeps == ASSUME CheckInv, SkipCheck PROVE CheckInv'
<1>1. /\ chk \in Checks /\ chk.mode = "page" /\ chk.module = "M2" /\ Measures(chk.result)
      /\ chk.capture = "none" /\ StageQuality("M2") = {} /\ quality \in [Modules -> Decisions]
  BY DEF CheckInv, SkipCheck, In, Attempting, Checks
<1>2. chk' = [chk EXCEPT !.mode = "decided"]  BY DEF SkipCheck
<1>3. chk' \in Checks /\ chk'.mode = "decided" /\ chk'.capture = "none" /\ chk'.result = chk.result
  BY <1>1, <1>2 DEF Checks
<1>4. PICK d \in Decisions : d = [module |-> "M2", eligible |-> {}]  BY DEF Decisions
<1>5. quality' = quality \/ quality' = [quality EXCEPT !["M2"] = d]  BY <1>1, <1>4 DEF SkipCheck
<1>6. quality' \in [Modules -> Decisions] /\ StageQuality("M2")' = {}
  <2>1. CASE quality' = quality  BY <1>1, <2>1 DEF StageQuality
  <2>2. CASE quality' = [quality EXCEPT !["M2"] = d]
    <3>1. quality' \in [Modules -> Decisions] /\ quality'["M2"] = d  BY <1>1, <2>2 DEF Modules
    <3> QED  BY <1>4, <3>1 DEF StageQuality
  <2> QED  BY <1>5, <2>1, <2>2
<1> QED  BY <1>1, <1>3, <1>6 DEF CheckInv, Attempting

\* Full screen between measurements changes no attempt.
LEMMA ToggleKeeps == ASSUME CheckInv, Toggle PROVE CheckInv'
<1>1. /\ chk \in Checks /\ chk.mode \notin {"decided", "gone"} /\ UNCHANGED quality
      /\ chk' = [chk EXCEPT !.full = ~@]
  BY DEF CheckInv, Toggle, Showing
<1>2. PICK full \in BOOLEAN : full = ~chk.full  OBVIOUS
<1>3. chk' = [chk EXCEPT !.full = full]  BY <1>1, <1>2
<1>4. /\ chk' \in Checks /\ chk'.mode = chk.mode /\ chk'.capture = chk.capture
      /\ chk'.segs = chk.segs /\ chk'.attempts = chk.attempts /\ chk'.result = chk.result
  BY <1>1, <1>3 DEF Checks
<1> QED  BY <1>1, <1>4, PagesKeep DEF CheckInv, Attempting

\* An attempt begins without targets, or fails at once.
LEMMA BeginAttemptKeeps == ASSUME CheckInv, BeginAttempt PROVE CheckInv'
<1>1. /\ chk \in Checks /\ chk.mode \in {"INTRO", "RESULT"} /\ UNCHANGED quality
      /\ Measures(chk.result) /\ chk.capture = "none" /\ chk.attempts \in Nat
      /\ chk.full \in BOOLEAN
  BY DEF CheckInv, BeginAttempt, In, Attempting, Checks
<1>2. PICK none \in Seq(Segments) : none = << >> /\ Len(none) = 0
  <2>1. << >> \in Seq(Segments) /\ Len(<< >>) = 0  OBVIOUS
  <2> QED  BY <2>1
<1>3. CASE chk' = [chk EXCEPT !.mode = "CONNECTING", !.segs = << >>, !.capture = "alive"]
  <2>1. chk' = [chk EXCEPT !.mode = "CONNECTING", !.segs = none, !.capture = "alive"]  BY <1>2, <1>3
  <2>2. /\ chk' \in Checks /\ chk'.mode = "CONNECTING" /\ chk'.segs = none
        /\ chk'.result = chk.result
    BY <1>1, <2>1 DEF Checks
  <2>3. OfAttempt(none, chk'.attempts + 1)  BY <1>2 DEF OfAttempt
  <2> QED  BY <1>1, <1>2, <2>2, <2>3, PagesKeep DEF Attempting
<1>4. CASE chk' = [chk EXCEPT !.mode = "RESULT", !.segs = << >>, !.attempts = @ + 1,
                              !.result = Result(<< >>, TRUE)]
  <2>1. PICK result \in Results : result = Result(<< >>, TRUE) /\ Measures(result)
    BY <1>1, NothingMeasured
  <2>2. PICK full \in BOOLEAN : full = chk.full  BY <1>1
  <2>3. chk' = [chk EXCEPT !.mode = "RESULT", !.capture = "none", !.attempts = @ + 1,
                           !.segs = none, !.full = full, !.result = result]
    <3>1. chk' = [chk EXCEPT !.mode = "RESULT", !.segs = none, !.attempts = @ + 1,
                             !.result = result]
      BY <1>2, <1>4, <2>1
    <3> QED  BY <1>1, <2>2, <3>1 DEF Checks
  <2> QED  BY <1>1, <2>1, <2>3, EndsKeep
<1> QED  BY <1>3, <1>4 DEF BeginAttempt

\* A capture that stops stays that of its attempt until it is noticed.
LEMMA CaptureStopsKeeps == ASSUME CheckInv, CaptureStops PROVE CheckInv'
<1>1. /\ chk \in Checks /\ chk.mode \in {"CONNECTING", "TARGET", "MEASURING"}
      /\ UNCHANGED quality /\ chk' = [chk EXCEPT !.capture = "dead"]
  BY DEF CheckInv, CaptureStops, Attempting
<1>2. /\ chk' \in Checks /\ chk'.mode = chk.mode /\ chk'.segs = chk.segs
      /\ chk'.attempts = chk.attempts /\ chk'.result = chk.result
  BY <1>1 DEF Checks
<1> QED  BY <1>1, <1>2, PagesKeep DEF CheckInv, Attempting

\* The first sample starts the targets, or the wait for it ends the attempt.
LEMMA ConnectedKeeps == ASSUME CheckInv, Connected PROVE CheckInv'
<1>1. chk \in Checks /\ chk.mode = "CONNECTING" /\ UNCHANGED quality  BY DEF CheckInv, Connected, In
<1>2. CASE chk' = [chk EXCEPT !.mode = "TARGET"]
  <2>1. /\ chk' \in Checks /\ chk'.mode = "TARGET" /\ chk'.segs = chk.segs
        /\ chk'.attempts = chk.attempts /\ chk'.result = chk.result
    BY <1>1, <1>2 DEF Checks
  <2> QED  BY <1>1, <2>1, PagesKeep DEF CheckInv, Attempting
<1>3. CASE Finished(chk.segs, TRUE)  BY <1>1, <1>3, FinishedWrongKeeps
<1> QED  BY <1>2, <1>3 DEF Connected

\* A capture that is gone and a window that changed end the attempt.
LEMMA GoneOrDisturbedKeeps == ASSUME CheckInv, CaptureIsGone \/ Disturbed PROVE CheckInv'
<1>1. chk.mode \notin {"decided", "gone"} /\ UNCHANGED quality /\ Finished(chk.segs, TRUE)
  BY DEF CheckInv, CaptureIsGone, Disturbed, Attempting, In
<1> QED  BY <1>1, FinishedWrongKeeps

\* A target more: the next of its attempt, and the last ends it.
LEMMA MeasuredKeeps == ASSUME CheckInv, Measured PROVE CheckInv'
<1>1. /\ chk \in Checks /\ chk.mode = "MEASURING" /\ UNCHANGED quality
      /\ OfAttempt(chk.segs, chk.attempts + 1) /\ Len(chk.segs) < 3
      /\ chk.segs \in Seq(Segments) /\ chk.attempts \in Nat
  BY DEF CheckInv, Measured, In, Attempting, Checks
<1>2. PICK n \in Nat : n = chk.attempts + 1  BY <1>1
<1>3. PICK passed \in BOOLEAN, confused \in SUBSET (AOIS \ {Target}) :
         LET segs == Append(chk.segs, [target |-> Target, passed |-> passed, confused |-> confused,
                                       attempt |-> chk.attempts + 1])
         IN  IF Len(segs) < Len(Targets)
             THEN chk' = [chk EXCEPT !.mode = "TARGET", !.segs = segs]
             ELSE Finished(segs, FALSE)
  BY DEF Measured
<1>4. PICK before \in Seq(Segments) : before = chk.segs  BY <1>1
<1>5. Len(before) \in Nat /\ Len(before) < 3 /\ OfAttempt(before, n)  BY <1>1, <1>2, <1>4
<1>6. Target \in AOIS /\ Target = Targets[Len(before) + 1]
  <2>1. Len(before) + 1 \in {1, 2, 3}  BY <1>5
  <2> QED  BY <1>4, <2>1 DEF Target, Targets, AOIS
<1>7. PICK s \in Segments : /\ s = [target |-> Target, passed |-> passed, confused |-> confused,
                                   attempt |-> n]
                           /\ s.target = Target /\ s.attempt = n
  <2>1. PICK aim \in AOIS : aim = Target  BY <1>6
  <2>2. PICK others \in SUBSET AOIS : others = confused  OBVIOUS
  <2>3. PICK s : s = [target |-> aim, passed |-> passed, confused |-> others, attempt |-> n]
    OBVIOUS
  <2>4. s \in Segments  BY <2>3 DEF Segments
  <2>5. s.target = aim /\ s.attempt = n  BY <2>3
  <2> QED  BY <2>1, <2>2, <2>3, <2>4, <2>5
<1>8. PICK segs \in Seq(Segments) : segs = Append(before, s)
  <2>1. Append(before, s) \in Seq(Segments)  OBVIOUS
  <2> QED  BY <2>1
<1>9. /\ Len(segs) = Len(before) + 1 /\ segs[Len(before) + 1] = s
      /\ \A i \in 1..Len(before) : segs[i] = before[i]
  BY <1>8
<1>10. OfAttempt(segs, n)
  <2> SUFFICES ASSUME NEW i \in 1..Len(segs) PROVE segs[i].attempt = n /\ segs[i].target = Targets[i]
    BY DEF OfAttempt
  <2>1. CASE i = Len(before) + 1  BY <1>6, <1>7, <1>9, <2>1
  <2>2. CASE i \in 1..Len(before)  BY <1>5, <1>9, <2>2 DEF OfAttempt
  <2> QED  BY <1>5, <1>9, <2>1, <2>2
<1>11. Len(Targets) = 3  BY DEF Targets
<1>12. \/ Len(segs) < 3 /\ chk' = [chk EXCEPT !.mode = "TARGET", !.segs = segs]
       \/ Finished(segs, FALSE)
  BY <1>2, <1>3, <1>4, <1>7, <1>8, <1>11
<1>13. CASE Len(segs) < 3 /\ chk' = [chk EXCEPT !.mode = "TARGET", !.segs = segs]
  <2>1. /\ chk' \in Checks /\ chk'.mode = "TARGET" /\ chk'.segs = segs
        /\ chk'.attempts = chk.attempts /\ chk'.result = chk.result
    BY <1>1, <1>13 DEF Checks
  <2> QED  BY <1>1, <1>2, <1>10, <1>13, <2>1, PagesKeep DEF CheckInv, Attempting
<1>14. CASE Finished(segs, FALSE)
  <2>1. PICK errors : Finished(segs, errors)  BY <1>14, Zenon
  <2>2. Len(segs) <= 3 /\ OfAttempt(segs, chk.attempts + 1)  BY <1>2, <1>5, <1>9, <1>10
  <2> QED  BY <1>1, <2>1, <2>2, FinishedCheckKeeps
<1> QED  BY <1>12, <1>13, <1>14

\* A target is measured.
LEMMA MeasureKeeps == ASSUME CheckInv, Measure PROVE CheckInv'
<1>1. /\ chk \in Checks /\ chk.mode = "TARGET" /\ UNCHANGED quality
      /\ chk' = [chk EXCEPT !.mode = "MEASURING"]
  BY DEF CheckInv, Measure, In
<1>2. /\ chk' \in Checks /\ chk'.mode = "MEASURING" /\ chk'.segs = chk.segs
      /\ chk'.attempts = chk.attempts /\ chk'.result = chk.result
  BY <1>1 DEF Checks
<1> QED  BY <1>1, <1>2, PagesKeep DEF CheckInv, Attempting

\* Back to the instructions: a running attempt is an error.
LEMMA LeaveKeeps == ASSUME CheckInv, Leave PROVE CheckInv'
<1>1. /\ chk \in Checks /\ chk.mode \notin {"decided", "gone"} /\ UNCHANGED quality
      /\ chk.attempts \in Nat /\ chk.segs \in Seq(Segments)
  BY DEF CheckInv, Leave, Showing, Checks
<1>2. CASE chk' = [chk EXCEPT !.mode = "page", !.capture = "none", !.attempts = @ + 1,
                              !.full = FALSE, !.result = Result(<< >>, TRUE)]
  <2>1. PICK result \in Results : result = Result(<< >>, TRUE) /\ Measures(result)
    BY <1>1, NothingMeasured
  <2>2. PICK segs \in Seq(Segments) : segs = chk.segs  BY <1>1
  <2>3. chk' = [chk EXCEPT !.mode = "page", !.capture = "none", !.attempts = @ + 1,
                           !.segs = segs, !.full = FALSE, !.result = result]
    <3>1. chk' = [chk EXCEPT !.mode = "page", !.capture = "none", !.attempts = @ + 1,
                             !.full = FALSE, !.result = result]
      BY <1>2, <2>1
    <3> QED  BY <1>1, <2>2, <3>1 DEF Checks
  <2> QED  BY <1>1, <2>1, <2>3, EndsKeep
<1>3. CASE chk.capture = "none" /\ chk' = [chk EXCEPT !.mode = "page", !.full = FALSE]
  <2>1. /\ chk' \in Checks /\ chk'.mode = "page" /\ chk'.capture = "none"
        /\ chk'.result = chk.result
    BY <1>1, <1>3 DEF Checks
  <2> QED  BY <1>1, <2>1, PagesKeep DEF CheckInv, Attempting
<1> QED  BY <1>2, <1>3 DEF Leave

\* The question about what is excluded, and the way back.
LEMMA AskedKeeps == ASSUME CheckInv, AskExclusions \/ BackToResult PROVE CheckInv'
<1>1. /\ chk \in Checks /\ chk.mode \in {"INTRO", "RESULT", "CONFIRM_EXCLUSIONS"}
      /\ UNCHANGED quality /\ chk.capture = "none"
  BY DEF CheckInv, AskExclusions, BackToResult, In, Attempting
<1>2. PICK mode \in {"INTRO", "RESULT", "CONFIRM_EXCLUSIONS"} : chk' = [chk EXCEPT !.mode = mode]
  BY DEF AskExclusions, BackToResult
<1>3. chk' \in Checks /\ chk'.mode = mode /\ chk'.capture = "none" /\ chk'.result = chk.result
  BY <1>1, <1>2 DEF Checks
<1> QED  BY <1>1, <1>3, PagesKeep DEF CheckInv, Attempting

\* The decision leaves what the result left.
LEMMA DecideKeeps == ASSUME CheckInv, Decide PROVE CheckInv'
<1>1. /\ chk \in Checks /\ chk.mode \in {"RESULT", "CONFIRM_EXCLUSIONS"} /\ chk.capture = "none"
      /\ quality \in [Modules -> Decisions] /\ chk.module = "M2" /\ chk.result \in Results
      /\ Measures(chk.result)
  BY DEF CheckInv, Decide, In, Attempting, Checks
<1>2. PICK d \in Decisions : d = [module |-> "M2", eligible |-> chk.result.eligible]
                             /\ d.module = "M2" /\ d.eligible = chk.result.eligible
  <2>1. PICK areas \in SUBSET AOIS : areas = chk.result.eligible  BY <1>1 DEF Results
  <2>2. PICK d : d = [module |-> "M2", eligible |-> areas]  OBVIOUS
  <2>3. d \in Decisions  BY <2>2 DEF Decisions
  <2>4. d.module = "M2" /\ d.eligible = areas  BY <2>2
  <2> QED  BY <2>1, <2>2, <2>3, <2>4
<1>3. quality' = [quality EXCEPT !["M2"] = d] /\ chk' = [chk EXCEPT !.mode = "decided"]
  BY <1>1, <1>2 DEF Decide, RecordDecision
<1>4. /\ chk' \in Checks /\ chk'.mode = "decided" /\ chk'.capture = "none"
      /\ chk'.result = chk.result
  BY <1>1, <1>3 DEF Checks
<1>5. quality' \in [Modules -> Decisions] /\ quality'["M2"] = d  BY <1>1, <1>3 DEF Modules
<1>6. StageQuality("M2")' = chk.result.eligible  BY <1>2, <1>5 DEF StageQuality
<1> QED  BY <1>1, <1>4, <1>5, <1>6 DEF CheckInv, Attempting

\* Every step of the check keeps what holds of it.
LEMMA CheckKeeps == ASSUME CheckInv, Precheck PROVE CheckInv'
BY OpenCheckKeeps, SkipCheckKeeps, ToggleKeeps, BeginAttemptKeeps, CaptureStopsKeeps, ConnectedKeeps,
   GoneOrDisturbedKeeps, MeasuredKeeps, MeasureKeeps, LeaveKeeps, AskedKeeps, DecideKeeps
   DEF Precheck

\* A step of the capture leaves the check as it is.
LEMMA CheckStutters == ASSUME CheckInv, UNCHANGED checkVars PROVE CheckInv'
<1>1. UNCHANGED <<chk, quality>>  BY DEF checkVars
<1>2. StageQuality("M2")' = StageQuality("M2")  BY <1>1 DEF StageQuality
<1> QED  BY <1>1, <1>2 DEF CheckInv, Attempting

\* Before the check of the second module nothing is decided about it.
LEMMA CheckInvInit == PrecheckInit => CheckInv
<1> SUFFICES ASSUME PrecheckInit PROVE CheckInv  OBVIOUS
<1>1. PICK none \in Seq(Segments) : none = << >> /\ Len(none) = 0
  <2>1. << >> \in Seq(Segments) /\ Len(<< >>) = 0  OBVIOUS
  <2> QED  BY <2>1
<1>2. PICK result \in Results : /\ result = [eligible |-> {}, segs |-> none, attempt |-> 0]
                                /\ result.eligible = {}
  <2>1. PICK result : result = [eligible |-> {}, segs |-> none, attempt |-> 0]  OBVIOUS
  <2>2. result \in Results  BY <2>1 DEF Results
  <2>3. result.eligible = {}  BY <2>1
  <2> QED  BY <2>1, <2>2, <2>3
<1>3. chk = [mode |-> "page", module |-> "M2", attempts |-> 0, segs |-> none, capture |-> "none",
             full |-> FALSE, result |-> result]
  BY <1>1, <1>2 DEF PrecheckInit, NoResult
<1>4. chk \in Checks /\ chk.mode = "page" /\ chk.capture = "none" /\ chk.result = result
  BY <1>3 DEF Checks
<1>5. PICK first \in Decisions : first = [module |-> "M1", eligible |-> AOIS]  BY DEF Decisions
<1>6. PICK no \in Decisions : no = NoDecision /\ no.module = "none"
  <2>1. PICK no : no = [module |-> "none", eligible |-> {}]  OBVIOUS
  <2>2. no \in Decisions  BY <2>1 DEF Decisions
  <2>3. no.module = "none" /\ no = NoDecision  BY <2>1 DEF NoDecision
  <2> QED  BY <2>2, <2>3
<1>7. quality = [M1 |-> first, M2 |-> no]  BY <1>5, <1>6 DEF PrecheckInit
<1>8. quality \in [Modules -> Decisions] /\ quality["M2"] = no  BY <1>7 DEF Modules
<1>9. StageQuality("M2") = {}  BY <1>6, <1>8 DEF StageQuality
<1> QED  BY <1>2, <1>4, <1>8, <1>9 DEF CheckInv, Attempting, Measures

-----------------------------------------------------------------------------
(* The stage *)

\* No step of the capture brings an area back, and a summary has none that is not left.
LEMMA AreasOnlyShrink ==
  ASSUME CaptureInv, Renderer \/ Collector \/ Receiver \/ Tracker
  PROVE  /\ cap'.eligible \subseteq cap.eligible
         /\ cap'.summary # << >> =>
              cap'.summary = cap.summary \/ cap'.summary.eligible \subseteq cap.eligible
<1>1. cap \in Captures  BY DEF CaptureInv, CaptureTypes
<1>2. CASE cap'.eligible \in {cap.eligible, {}, cap.eligible \ {"TABLET"}}
           /\ cap'.summary = cap.summary
  BY <1>2
<1>3. CASE UNCHANGED cap  BY <1>2, <1>3
<1>4. CASE \E pc : cap' = [cap EXCEPT !.pc = pc]  BY <1>1, <1>2, <1>4 DEF Captures
<1>5. CASE cap' = Failed(cap) \/ \E pc : cap' = [Failed(cap) EXCEPT !.pc = pc]
  <2>1. PICK c \in Captures : c = Failed(cap) /\ c.eligible = {} /\ c.summary = cap.summary
    BY <1>1, FailedTypes
  <2>2. cap' = c \/ \E pc : cap' = [c EXCEPT !.pc = pc]  BY <1>5, <2>1
  <2>3. cap'.eligible = {} /\ cap'.summary = cap.summary  BY <2>1, <2>2 DEF Captures
  <2> QED  BY <1>2, <2>3
<1>6. CASE Exit
  <2>1. cap' = [cap EXCEPT !.stop = TRUE]  BY <1>6 DEF Exit
  <2> QED  BY <1>1, <1>2, <2>1 DEF Captures
<1>7. CASE Prepare
  <2>1. \/ \E pc : cap' = [cap EXCEPT !.pc = pc, !.dir = "pending", !.tablet = "unbound"]
        \/ \E pc : cap' = [Failed(cap) EXCEPT !.pc = pc]
    BY <1>7 DEF Prepare
  <2>2. CASE \E pc : cap' = [cap EXCEPT !.pc = pc, !.dir = "pending", !.tablet = "unbound"]
    BY <1>1, <1>2, <2>2 DEF Captures
  <2> QED  BY <1>5, <2>1, <2>2
<1>8. CASE Bind
  <2>1. \/ UNCHANGED cap
        \/ cap' = [cap EXCEPT !.tablet = "bound"]
        \/ cap' = [cap EXCEPT !.tablet = "mismatch", !.eligible = @ \ {"TABLET"}]
    BY <1>8 DEF Bind
  <2> QED  BY <1>1, <1>2, <2>1 DEF Captures
<1>9. ASSUME NEW c \in Captures, c = cap \/ c = Failed(cap), NEW pc, NEW dir,
             NEW s, s = cap.summary \/ s = Summary(c),
             cap' = [c EXCEPT !.pc = pc, !.dir = dir, !.summary = s]
      PROVE  /\ cap'.eligible \subseteq cap.eligible
             /\ cap'.summary # << >> =>
                  cap'.summary = cap.summary \/ cap'.summary.eligible \subseteq cap.eligible
  <2>1. cap'.eligible = c.eligible /\ cap'.summary = s  BY <1>9 DEF Captures
  <2>2. c.eligible \subseteq cap.eligible  BY <1>1, <1>9, FailedTypes
  <2>3. Summary(c).eligible = c.eligible  BY SummaryTypes
  <2> QED  BY <1>9, <2>1, <2>2, <2>3
<1>10. CASE Move
  <2>1. PICK c \in Captures : /\ c = cap \/ c = Failed(cap)
                              /\ cap' = [c EXCEPT !.dir = "moved", !.summary = Summary(c)]
    BY <1>1, <1>10, FailedTypes DEF Move
  <2>2. cap' = [c EXCEPT !.pc = c.pc, !.dir = "moved", !.summary = Summary(c)]  BY <2>1 DEF Captures
  <2> QED  BY <1>9, <2>1, <2>2
<1>11. CASE Finish
  <2>1. PICK c \in Captures :
           /\ c = cap \/ c = Failed(cap)
           /\ cap' = [c EXCEPT !.pc = "dead", !.summary = IF cap.dir = "none" THEN c.summary
                                                          ELSE Summary(c)]
    BY <1>1, <1>11, FailedTypes DEF Finish
  <2>2. c.summary = cap.summary  BY <1>1, <2>1, FailedTypes
  <2>3. PICK s : s = IF cap.dir = "none" THEN c.summary ELSE Summary(c)  OBVIOUS
  <2>4. cap' = [c EXCEPT !.pc = "dead", !.dir = c.dir, !.summary = s]  BY <2>1, <2>3 DEF Captures
  <2>5. s = cap.summary \/ s = Summary(c)  BY <2>2, <2>3
  <2>6. PICK dir : dir = c.dir  OBVIOUS
  <2>7. cap' = [c EXCEPT !.pc = "dead", !.dir = dir, !.summary = s]  BY <2>4, <2>6
  <2> QED  BY <1>9, <2>1, <2>5, <2>7
<1>12. CASE Renderer  BY <1>3, <1>6, <1>10, <1>12 DEF Renderer, Present, Suspend, Replaced, Join
<1>13. CASE Collector
  <2>1. CASE Discover \/ LeaveLoop \/ Unsubscribe
    BY <1>4, <1>5, <2>1 DEF Discover, LeaveLoop, Unsubscribe, Goto
  <2>2. CASE Drain  BY <1>4, <1>5, <2>2 DEF Drain
  <2> QED  BY <1>7, <1>11, <1>13, <2>1, <2>2 DEF Collector
<1>14. CASE Receiver
  <2>1. CASE Read \/ Map \/ Probe \/ ReceiverEnds
    BY <1>3, <2>1 DEF Read, Map, Probe, ReceiverEnds, Unmapped
  <2>2. CASE Recheck \/ Assign \/ WriteRow
    BY <1>3, <1>5, <2>2 DEF Recheck, Assign, WriteRow, Unmapped
  <2> QED  BY <1>8, <1>14, <2>1, <2>2 DEF Receiver
<1>15. CASE Tracker  BY <1>3, <1>15 DEF Tracker, Callback, ProcessEnds
<1> QED  BY <1>12, <1>13, <1>14, <1>15

\* Before the stage nothing is captured; in it, every area that is left was decided for.
StageInv ==
  /\ CaptureInv /\ CheckInv
  /\ chk.mode # "gone" => view.pc = "enter"
  /\ cap.eligible \subseteq StageQuality("M2")
  /\ cap.summary # << >> => cap.summary.eligible \subseteq StageQuality("M2")

\* The stage starts before its check.
LEMMA StageInvInit == GazeStageInit => StageInv
<1> SUFFICES ASSUME GazeStageInit PROVE StageInv  OBVIOUS
<1>1. CaptureInv /\ CheckInv  BY CaptureInvInit, CheckInvInit DEF GazeStageInit
<1>2. view.pc = "enter" /\ cap.eligible = {} /\ cap.summary = << >>
  BY DEF GazeStageInit, CaptureInit
<1> QED  BY <1>1, <1>2 DEF StageInv

\* The check, the start of the stage, and its capture keep what holds of both.
LEMMA StageInvNext == StageInv /\ [GazeStageNext]_gazeVars => StageInv'
<1> SUFFICES ASSUME StageInv, [GazeStageNext]_gazeVars PROVE StageInv'  OBVIOUS
<1>1. CaptureInv /\ CheckInv  BY DEF StageInv
<1>2. CASE CheckStep
  <2>1. UNCHANGED captureVars /\ CaptureInv' /\ CheckInv'
    BY <1>1, <1>2, CaptureStutters, CheckKeeps DEF CheckStep
  <2>2. UNCHANGED <<view, cap>>  BY <2>1 DEF captureVars
  <2>3. chk.mode # "gone"
    BY <1>1, <1>2
       DEF CheckInv, Attempting, CheckStep, Precheck, OpenCheck, SkipCheck, Toggle, BeginAttempt,
           CaptureStops, Connected, CaptureIsGone, Measured, Disturbed, Measure, Leave,
           AskExclusions, BackToResult, Decide, Showing, In
  <2>4. view.pc = "enter" /\ cap.eligible = {} /\ cap.summary = << >>
    BY <1>1, <2>3 DEF StageInv, CaptureInv, ThreadsInv
  <2> QED  BY <2>1, <2>2, <2>4 DEF StageInv
<1>3. CASE StartStage
  <2>1. /\ chk \in Checks /\ chk.mode = "decided" /\ chk.module = "M2" /\ UNCHANGED quality
        /\ quality \in [Modules -> Decisions] /\ chk.capture = "none"
    BY <1>1, <1>3 DEF StartStage, In, CheckInv, Checks, Attempting
  <2>2. PICK areas \in SUBSET AOIS : areas = StageQuality("M2")
    BY <2>1 DEF StageQuality, Modules, Decisions
  <2>3. Enter(areas)  BY <1>3, <2>1, <2>2 DEF StartStage
  <2>4. CaptureInv'  BY <1>1, <2>3, EnterKeeps
  <2>5. CheckInv' /\ StageQuality("M2")' = areas /\ chk'.mode = "gone"
    <3>1. PICK none \in Seq(Segments) : none = << >> /\ Len(none) = 0
      <4>1. << >> \in Seq(Segments) /\ Len(<< >>) = 0  OBVIOUS
      <4> QED  BY <4>1
    <3>2. PICK result : result = [eligible |-> {}, segs |-> none, attempt |-> 0]  OBVIOUS
    <3>3. result \in Results /\ result = NoResult /\ result.eligible = {}
      BY <3>1, <3>2 DEF Results, NoResult
    <3>4. chk' = [chk EXCEPT !.mode = "gone", !.attempts = 0, !.segs = none, !.full = FALSE,
                             !.result = result]
      BY <1>3, <3>1, <3>3 DEF StartStage
    <3>5. /\ chk' \in Checks /\ chk'.mode = "gone" /\ chk'.capture = "none"
          /\ chk'.result = result
      BY <2>1, <3>3, <3>4 DEF Checks
    <3>6. Measures(chk'.result)  BY <3>3, <3>5 DEF Measures
    <3>7. StageQuality("M2")' = areas  BY <2>1, <2>2 DEF StageQuality
    <3> QED  BY <2>1, <3>5, <3>6, <3>7 DEF CheckInv, Attempting
  <2>6. /\ cap'.eligible \subseteq areas /\ cap'.summary = << >>
    <3>1. cap \in Captures /\ cap.eligible = {} /\ cap.summary = << >>
      BY <1>1, <2>3 DEF CaptureInv, CaptureTypes, ThreadsInv, Enter
    <3>2. \/ cap' = [cap EXCEPT !.pc = "mkdir", !.started = now, !.eligible = areas]
          \/ cap' = cap
      BY <2>3 DEF Enter
    <3> QED  BY <3>1, <3>2 DEF Captures
  <2> QED  BY <2>4, <2>5, <2>6 DEF StageInv
<1>4. CASE CaptureStep
  <2>1. /\ chk.mode = "gone" /\ UNCHANGED <<chk, quality>>
        /\ Renderer \/ Collector \/ Receiver \/ Tracker
    BY <1>4 DEF CaptureStep, In, checkVars
  <2>2. CaptureInv' /\ CheckInv'  BY <1>1, <2>1, CaptureKeeps, CheckStutters DEF checkVars
  <2>3. /\ cap'.eligible \subseteq cap.eligible
        /\ cap'.summary # << >> =>
             cap'.summary = cap.summary \/ cap'.summary.eligible \subseteq cap.eligible
    BY <1>1, <2>1, AreasOnlyShrink
  <2>4. StageQuality("M2")' = StageQuality("M2") /\ chk'.mode = "gone"  BY <2>1 DEF StageQuality
  <2> QED  BY <2>2, <2>3, <2>4 DEF StageInv
<1>5. CASE UNCHANGED gazeVars
  <2>1. UNCHANGED captureVars /\ UNCHANGED checkVars  BY <1>5 DEF gazeVars
  <2>2. CaptureInv' /\ CheckInv' /\ UNCHANGED <<chk, quality, view, cap>>
    BY <1>1, <2>1, CaptureStutters, CheckStutters DEF captureVars, checkVars
  <2>3. StageQuality("M2")' = StageQuality("M2")  BY <2>2 DEF StageQuality
  <2> QED  BY <2>2, <2>3 DEF StageInv
<1> QED  BY <1>2, <1>3, <1>4, <1>5 DEF GazeStageNext

\* What holds of both is what the runs check.
LEMMA StageInvGives == StageInv => GazeIsTrue
<1> SUFFICES ASSUME StageInv PROVE GazeIsTrue  OBVIOUS
<1>1. chk.module = "M2"  BY DEF StageInv, CheckInv, Checks
<1>2. DurationIsWitnessed
  BY DEF StageInv, CaptureInv, DurationInv, Covers, AllWitnessed, Witnessed, DurationIsWitnessed
<1>3. AnalysedWasMeasured
  <2>1. ASSUME chk.mode = "decided", NEW a \in StageQuality("M2")
        PROVE  /\ quality["M2"].module = "M2"
               /\ MeasuredBy(chk.result.segs, chk.result.attempt, a)
    <3>1. a \in chk.result.eligible  BY <2>1 DEF StageInv, CheckInv
    <3> QED  BY <2>1, <3>1 DEF StageInv, CheckInv, Measures, StageQuality
  <2>2. ASSUME cap.summary # << >>
        PROVE  /\ cap.summary.eligible \subseteq StageQuality("M2")
               /\ quality["M2"].module # "M2" => cap.summary.eligible = {}
               /\ cap.summary.failed => cap.summary.eligible = {}
               /\ cap.tablet = "mismatch" => "TABLET" \notin cap.summary.eligible
    <3>1. cap.summary.eligible \subseteq StageQuality("M2")  BY <2>2 DEF StageInv
    <3>2. quality["M2"].module # "M2" => cap.summary.eligible = {}  BY <3>1 DEF StageQuality
    <3> QED  BY <2>2, <3>1, <3>2 DEF StageInv, CaptureInv, EligibleInv
  <2> QED  BY <1>1, <2>1, <2>2 DEF AnalysedWasMeasured, In
<1> QED  BY <1>2, <1>3 DEF GazeIsTrue, StageInv, CaptureInv, FileInv

\* What is known of the driver's gaze is true.  Each label is of its own window, because a
\* sample saw the window that was presented last before it, and a mapping is only taken of
\* a window that stayed presented while it was asked for; each interval that counts has its
\* two samples in the file; and an area is analysed only if the decided attempt measured it.
THEOREM GazeTrue == GazeStageSpec => []GazeIsTrue
<1>1. StageInv /\ [GazeStageNext]_gazeVars => StageInv'  BY StageInvNext
<1>2. GazeStageInit => StageInv  BY StageInvInit
<1>3. StageInv => GazeIsTrue  BY StageInvGives
<1> QED  BY <1>1, <1>2, <1>3, PTL DEF GazeStageSpec

\* What was moved to the results is written no more, although closing the stage waits only a
\* moment: the gaze thread is dead then, and it has seen the receiver stop or leave.
THEOREM MovedQuiet == GazeStageSpec => MovedIsQuiet
<1>1. StageInv /\ [GazeStageNext]_gazeVars
        => [cap.dir = "moved" => UNCHANGED <<file, dur, cap>>]_gazeVars
  <2> SUFFICES ASSUME StageInv, GazeStageNext, cap.dir = "moved"
               PROVE  UNCHANGED <<file, dur, cap>>
    OBVIOUS
  <2>1. /\ cap.pc = "dead" /\ view.pc = "left" /\ rec.pc \in {"none", "exit", "dead"}
    BY DEF StageInv, CaptureInv, ThreadsInv
  <2>2. CASE CheckStep  BY <2>2 DEF CheckStep, captureVars
  <2>3. CASE StartStage  BY <2>1, <2>3 DEF StartStage, Enter
  <2>4. CASE CaptureStep
    <3>1. CASE Renderer
      BY <2>1, <3>1 DEF Renderer, Present, Suspend, Replaced, Exit, Driving, Join, Move
    <3>2. CASE Collector
      BY <2>1, <3>2 DEF Collector, Prepare, Discover, LeaveLoop, Unsubscribe, Drain, Finish
    <3>3. CASE Receiver
      BY <2>1, <3>3 DEF Receiver, Bind, Read, Map, Probe, Recheck, Assign, WriteRow, ReceiverEnds
    <3>4. CASE Tracker  BY <3>4 DEF Tracker, Callback, ProcessEnds
    <3> QED  BY <2>4, <3>1, <3>2, <3>3, <3>4 DEF CaptureStep
  <2> QED  BY <2>2, <2>3, <2>4 DEF GazeStageNext
<1>2. StageInv /\ [GazeStageNext]_gazeVars => StageInv'  BY StageInvNext
<1>3. GazeStageInit => StageInv  BY StageInvInit
<1> QED  BY <1>1, <1>2, <1>3, PTL DEF GazeStageSpec, MovedIsQuiet
====
