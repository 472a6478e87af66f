---- MODULE P6Collection ----
(* Both programs that collect with P6.  serve_tablet: the tablet's station, each of   *)
(* whose events is in its file before it is answered, until the operator interrupts   *)
(* it.  P6Runtime: the research run's synthetic gaze and its tablet, whose events are *)
(* written when the runtime is stopped.                                               *)
EXTENDS TabletStation, GazeSidecar

CONSTANTS Reporters,  \* the requests of Posts that reach the runtime's tablet
          Viewers,    \* bound: requests of Posts that only tell that a video ended
          Closes      \* bound: calls of P6Runtime.close after the first

ASSUME P6Assumption == Reporters \cup Viewers \subseteq Posts /\ Closes \in Nat

VARIABLE p6  \* [mode, pc, closed, events (the tablet file of the runtime), open (it is), closes, raised]

p6Vars == <<tabletVars, gazeVars, p6>>

CollectionInit ==
    /\ \E mode \in {"serve", "runtime"}, task \in {"SURT", "NO_SURT", "VIDEO", "MISSING"} :
         /\ TabletInit(IF mode = "serve" THEN task ELSE "none", mode = "serve")
         /\ p6 = [mode |-> mode, pc |-> IF mode = "serve" THEN "configure" ELSE "new",
                   closed |-> FALSE, events |-> {}, open |-> mode = "runtime", closes |-> 0,
                   raised |-> FALSE]
    /\ GazeInit

Step(mode, from, to) == p6.mode = mode /\ p6.pc = from /\ p6' = [p6 EXCEPT !.pc = to]
Raise(to) == p6' = [p6 EXCEPT !.pc = to, !.raised = TRUE]

-----------------------------------------------------------------------------
(* serve_tablet                                                             *)

\* _configure_tablet: its prepare and request_start use the sink like any request.
Configure == p6.pc = "configure" /\ Handle(Main) /\ UNCHANGED <<p6, gazeVars>>

\* A first trial that is refused, or not written, and a port that is taken, end serve_tablet
\* in its outer finally.
ServeFails ==
    /\ p6.pc = "configure" /\ post[Main].pc \in {"idle", "answered", "refused", "broken"}
    /\ Raise("writer") /\ UNCHANGED <<tabletVars, gazeVars>>

Serve == Step("serve", "configure", "serving") /\ OpenServer /\ UNCHANGED gazeVars

Interrupt == Step("serve", "serving", "closing") /\ UNCHANGED <<tabletVars, gazeVars>>

ServerCloses == Step("serve", "closing", "writer") /\ CloseServer /\ UNCHANGED gazeVars

WriterIsTold == Step("serve", "writer", "join") /\ StopWriter /\ UNCHANGED gazeVars

WriterIsJoined ==
    /\ p6.pc = "join" /\ WriterJoined
    /\ p6' = [p6 EXCEPT !.pc = "returned", !.raised = @ \/ sink.error]
    /\ UNCHANGED gazeVars

-----------------------------------------------------------------------------
(* P6Runtime                                                                *)

\* start: a server that cannot be bound leaves the writer's worker running, and the
\* runtime not running.
RuntimeStarts ==
    /\ Step("runtime", "new", "started") /\ GazeStart /\ UNCHANGED tabletVars

ServerOpens ==
    /\ p6.mode = "runtime" /\ p6.pc = "started"
    /\ \/ Step("runtime", "started", "subscribe") /\ OpenServer
       \/ Step("runtime", "started", "subscribe") /\ UNCHANGED tabletVars
       \/ Raise("halted") /\ UNCHANGED tabletVars
    /\ UNCHANGED gazeVars

Subscribes == Step("runtime", "subscribe", "running") /\ Subscribe /\ UNCHANGED tabletVars

\* stop, and close of a runtime that runs.
StopBegins == Step("runtime", "running", "unsubscribe") /\ Unsubscribe /\ UNCHANGED tabletVars

\* The source's thread ended, or its join timed out: either way the runtime goes on.
Unsubscribed ==
    /\ Step("runtime", "unsubscribe", "server") /\ UNCHANGED <<tabletVars, gazeVars>>

ServerStops ==
    /\ Step("runtime", "server", "end")
    /\ \/ CloseServer
       \/ server = "closed" /\ UNCHANGED tabletVars
    /\ UNCHANGED gazeVars

\* _finalize: tablet.end appends to the ledger, whoever does so at the same time.
TabletEnds ==
    /\ p6.mode = "runtime" /\ p6.pc = "end" /\ ~p6.closed
    /\ tab' = [tab EXCEPT !.stage = "EXPERIMENT_STOPPED"]
    /\ ledger' = Append(ledger, [id |-> <<Main, "end", p6.closes>>, by |-> Main, what |-> "end",
                                 kind |-> "none", trial |-> NoItem,
                                 disp |-> Recorded("accepted", <<Main, "end", p6.closes>>)])
    /\ p6' = [p6 EXCEPT !.pc = "write"]
    /\ UNCHANGED <<post, sink, server, gazeVars>>

\* The events known now are written; a file that a failed _finalize closed is refused.
TabletWritten ==
    /\ p6.mode = "runtime" /\ p6.pc = "write"
    /\ IF p6.open
       THEN \/ p6' = [p6 EXCEPT !.pc = "gaze", !.open = FALSE,
                                  !.events = {ledger[i].id : i \in 1..Len(ledger)}]
            \/ Raise("halted")
       ELSE Raise("halted")
    /\ UNCHANGED <<tabletVars, gazeVars>>

GazeTold == Step("runtime", "gaze", "gaze_join") /\ GazeCloses /\ UNCHANGED tabletVars

\* close joins the worker for five seconds: a worker that still owns the file raises.
GazeJoined ==
    /\ p6.mode = "runtime" /\ p6.pc = "gaze_join"
    /\ \/ ~WorkerAlive /\ p6' = [p6 EXCEPT !.pc = "returned", !.closed = TRUE, !.raised = @ \/ gaze.error]
       \/ WorkerAlive /\ Raise("halted")
    /\ UNCHANGED <<tabletVars, gazeVars>>

\* close once more: a runtime that is not running is finalized, unless it is closed.
CloseAgain ==
    /\ p6.mode = "runtime" /\ p6.pc \in {"new", "halted", "returned"} /\ p6.closes < Closes
    /\ p6' = [p6 EXCEPT !.closes = @ + 1, !.pc = IF p6.closed THEN @ ELSE "end"]
    /\ UNCHANGED <<tabletVars, gazeVars>>

-----------------------------------------------------------------------------
(* Everybody else                                                           *)

\* The station's page sends what its stage allows; the runtime's tablet has no task, and
\* its page can only report.
Request ==
    /\ \/ p6.mode = "serve" /\ \E p \in Posts : Send(p, IF p \in Viewers THEN {"ended"} ELSE EventKinds)
       \/ p6.mode = "runtime" /\ \E p \in Reporters : Send(p, {"error", "sync", "reset"})
       \/ \E p \in Posts : Handle(p)
    /\ UNCHANGED <<p6, gazeVars>>

SinkStep == (Take \/ \E fails \in BOOLEAN : WriteEvent(fails)) /\ UNCHANGED <<p6, gazeVars>>

GazeStep == (Worker \/ Captured \/ SourceEnds) /\ UNCHANGED <<p6, tabletVars>>

Station == ServeFails \/ Serve \/ ServerCloses \/ WriterIsTold \/ WriterIsJoined
Runtime == ServerOpens \/ Subscribes \/ Unsubscribed \/ ServerStops \/ TabletEnds \/ TabletWritten
           \/ GazeTold \/ GazeJoined

CollectionNext == \/ Configure \/ Station \/ Interrupt \/ RuntimeStarts \/ Runtime \/ StopBegins \/ CloseAgain
        \/ Request \/ SinkStep \/ GazeStep

\* Threads run; the operator and the runtime's owner need not do anything.
CollectionSpec ==
    /\ CollectionInit /\ [][CollectionNext]_p6Vars
    /\ WF_p6Vars(Configure) /\ WF_p6Vars(Station) /\ WF_p6Vars(Runtime)
    /\ WF_p6Vars(SinkStep) /\ WF_p6Vars(GazeStep)
    /\ \A p \in Posts : WF_p6Vars(Handle(p) /\ UNCHANGED <<p6, gazeVars>>)

-----------------------------------------------------------------------------
(* Properties                                                               *)

\* An answer of the station means that its event, and those of the trial that it began,
\* are in the file: whoever reads the file after an interrupt finds what the page was told.
AnsweredIsStored ==
    p6.mode = "serve" =>
      \A i \in 1..Len(ledger) :
         (ledger[i].by \in Posts /\ post[ledger[i].by].pc = "answered")
            => <<ledger[i].by, ledger[i].what>> \in sink.file

\* A runtime that says it is closed holds no file: its gaze worker is gone, its tablet file
\* is closed and tells the end of the experiment.
ClosedMeansClosed ==
    (p6.mode = "runtime" /\ p6.closed) =>
       ~WorkerAlive /\ ~p6.open /\ \E n \in 0..Closes : <<Main, "end", n>> \in p6.events

\* An interrupted station returns, whatever its file's worker met, as long as fewer
\* requests are open than its queue takes.
InterruptedReturns == p6.pc = "closing" ~> p6.pc = "returned"

\* What the collection says is so: an event counts once and is in the file before its
\* answer, every gaze sample is in the file, overflowed or unconfirmed, and closed means closed.
CollectionIsWhole ==
    CountedOnce /\ AnsweredIsStored /\ EverySampleIsAccounted /\ ClosedMeansClosed
====
