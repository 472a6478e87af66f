------------------------------ MODULE MCStage ------------------------------
(* What a research drive owns for one stage, explored apart: its life from the    *)
(* first call to the last clean-up, or the collection beside it, where two        *)
(* requests meet the station's own, or three gaze samples a queue of one.         *)
EXTENDS DriveLifecycle, P6Collection

VARIABLE subject  \* which of the two a behaviour is about; the other one rests

Plain == [dry |-> FALSE, tm |-> FALSE, log |-> "none", p6 |-> FALSE, probe |-> FALSE, inter |-> FALSE,
          exit |-> FALSE, hold |-> FALSE, trace |-> FALSE, wheel |-> FALSE, scene |-> "none",
          hook |-> FALSE]

\* The operator's M2 drive with its hazard scene, the version 1 drive with a
\* continuation, the development drives of the custom backend, and those without a log.
MCDrives ==
    {[Plain EXCEPT !.tm = TRUE, !.log = "borrowed", !.inter = TRUE, !.exit = TRUE,
                   !.wheel = TRUE, !.probe = TRUE, !.scene = "scene"],
     [Plain EXCEPT !.tm = TRUE, !.log = "borrowed", !.inter = TRUE,
                   !.scene = "continuation", !.hook = TRUE],
     [Plain EXCEPT !.log = "borrowed", !.inter = TRUE, !.exit = TRUE, !.hold = TRUE],
     [Plain EXCEPT !.log = "own", !.inter = TRUE, !.hold = TRUE, !.p6 = TRUE, !.trace = TRUE],
     Plain,
     [Plain EXCEPT !.dry = TRUE]}

StageInit ==
    /\ subject \in {"drive", "collection"}
    /\ Init /\ CollectionInit
    /\ subject # "drive" => cfg = Plain
    /\ subject # "collection" => p6.mode = "runtime"

StageNext ==
    /\ UNCHANGED subject
    /\ \/ subject = "drive" /\ Next /\ UNCHANGED p6Vars
       \/ subject = "collection" /\ CollectionNext /\ UNCHANGED vars

\* The fairness of DriveLifecycle and of P6Collection, each where it is explored.
Collecting == subject = "collection"

StageSpec ==
    /\ StageInit /\ [][StageNext]_<<vars, p6Vars, subject>>
    /\ WF_vars(subject = "drive" /\ Next)
    /\ WF_p6Vars(Collecting /\ Configure) /\ WF_p6Vars(Collecting /\ Station) /\ WF_p6Vars(Collecting /\ Runtime)
    /\ WF_p6Vars(Collecting /\ SinkStep) /\ WF_p6Vars(Collecting /\ GazeStep)
    /\ \A p \in Posts : WF_p6Vars(Collecting /\ Handle(p) /\ UNCHANGED <<p6, gazeVars>>)
=============================================================================
