---- MODULE GazeDuration ----
(* Durations of the observed gaze: an interval counts for a state only between two    *)
(* adjacent samples that agree; loss, gaps and transitions are told as such.          *)
EXTENDS Integers, Sequences

CONSTANTS MaxGap,  \* max_gap_ns of GazeDuration, in ticks of the clock
          NoStart  \* no duration has been started

Unknown == {"NO_DATA", "TRANSITION_UNCERTAIN"}

DurationFrom(t) == [start |-> t, edge |-> t, previous |-> << >>, gap |-> FALSE, rows |-> << >>]

\* _interval and flush: rows of one state and reason that touch are one row.
Interval(d, end, state) ==
    IF end <= d.edge THEN d
    ELSE [d EXCEPT !.edge = end, !.rows = Append(@, [state |-> state, from |-> d.edge, to |-> end])]

\* slip: two samples that differ count for the later one
AddedLater(d, t, seq, jump, state) ==
    [Interval(d, t, state) EXCEPT !.previous = <<seq, state>>, !.gap = FALSE]

\* add: a clock that did not advance drops the sample and what touches it.
Added(d, t, seq, jump, state) ==
    IF t < d.edge \/ (d.previous # << >> /\ t = d.edge) THEN [d EXCEPT !.gap = TRUE]
    ELSE LET broken == d.gap \/ seq # d.previous[1] + 1 \/ jump \/ t - d.edge > MaxGap
             label == IF d.previous = << >> THEN "NO_DATA"
                      ELSE IF broken THEN "NO_DATA"
                      ELSE IF state # d.previous[2] THEN "TRANSITION_UNCERTAIN" ELSE state
         IN  [Interval(d, t, label) EXCEPT !.previous = <<seq, state>>, !.gap = FALSE]

\* finish: what is left of the window is not data.
Finished(d, end) == Interval(d, end, "NO_DATA")

\* The intervals follow each other from the start of the window to its edge.
Partition(d) ==
    /\ \A i \in 1..Len(d.rows) : d.rows[i].from < d.rows[i].to
    /\ \A i \in 1..Len(d.rows) - 1 : d.rows[i].to = d.rows[i + 1].from
    /\ d.rows # << >> => d.rows[1].from = d.start /\ d.rows[Len(d.rows)].to = d.edge
====
