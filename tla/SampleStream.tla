----------------------------- MODULE SampleStream -----------------------------
(***************************************************************************)
(* What the raw input log of module 2 owes to its reader, whatever happens  *)
(* to the writes: the samples taken so far, and the part of them an analysis*)
(* gets back from the file.  That part is always a prefix, in order, each   *)
(* sample once and exactly as it was taken; it only grows.  The last sample *)
(* may still be amended, but not once it can be read.                       *)
(***************************************************************************)
EXTENDS Naturals, Sequences

VARIABLES taken, stored

Init == taken = <<>> /\ stored = <<>>

\* One sample more, of a later poll than the last.
Take == /\ Len(taken') = Len(taken) + 1
        /\ SubSeq(taken', 1, Len(taken)) = taken
        /\ taken # <<>> => taken'[Len(taken')].poll > taken[Len(taken)].poll
        /\ UNCHANGED stored

Amend == /\ Len(stored) < Len(taken)
         /\ taken' = [taken EXCEPT ![Len(taken)].geo = TRUE]
         /\ UNCHANGED stored

Store == /\ \E n \in Len(stored)..Len(taken) : stored' = SubSeq(taken, 1, n)
         /\ UNCHANGED taken

Next == Take \/ Amend \/ Store
Spec == Init /\ [][Next]_<<taken, stored>>
=============================================================================
