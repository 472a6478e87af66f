---- MODULE TabletStation ----
(* The tablet of a session: TabletSession behind an HTTP server that answers every   *)
(* POST on a thread of its own, the ledger of its events, and the sidecar file to    *)
(* which the stand-alone station writes each event before it answers.  The session's *)
(* state has no lock, only the ledger has one: a request reads the state, changes    *)
(* it, appends its event and waits for the file in separate steps.                   *)
EXTENDS Integers, Sequences, FiniteSets

CONSTANTS Posts,         \* the requests that reach the server
          Main,          \* the thread of serve_tablet, which prepares the first trial
          Capacity,      \* config.queue_capacity of the sidecar's writer
          NoItem

ASSUME TabletAssumption ==
    /\ Main \notin Posts /\ NoItem \notin Posts \cup {Main} /\ Capacity \in Nat \ {0}
    /\ \A p \in Posts \cup {Main} : \A what \in {"request", "prepare", "start"} :
          NoItem # <<p, what>>

VARIABLES tab,      \* TabletSessionState
          ledger,   \* TabletEventLedger._events
          post,     \* what each thread does
          sink,     \* TabletEventSidecarWriter: queue, file, worker
          server    \* TabletHttpServer: accepts connections, or has been closed

tabletVars == <<tab, ledger, post, sink, server>>

Threads == Posts \cup {Main}
Idle == [pc |-> "idle", kind |-> "none", id |-> NoItem, epoch |-> 0, trial |-> NoItem,
         disp |-> "accepted", what |-> "request"]

\* configure_module_one and configure_module_two.
Configured(task) ==
    [epoch |-> 1, trial |-> NoItem, task |-> task, before |-> "none", paused |-> FALSE, meta |-> FALSE,
     stage |-> CASE task = "SURT" -> "SURT_READY" [] task = "NO_SURT" -> "BLANK"
                 [] task = "VIDEO" -> "VIDEO_READY" [] task = "MISSING" -> "MEDIA_MISSING"
                 [] OTHER -> "IDLE"]

TabletInit(task, streaming) ==
    /\ tab = Configured(task)
    /\ ledger = << >>
    /\ post = [p \in Threads |->
                  IF p = Main /\ task \in {"SURT", "VIDEO", "MISSING"}
                  THEN [Idle EXCEPT !.pc = "prepare"] ELSE Idle]
    /\ sink = [on |-> streaming, queue |-> << >>, unfinished |-> 0, item |-> NoItem,
               file |-> {}, error |-> FALSE, worker |-> IF streaming THEN "alive" ELSE "none"]
    /\ server = "closed"

-----------------------------------------------------------------------------
(* The ledger and its dispositions                                          *)

Known(id) == \E i \in 1..Len(ledger) : ledger[i].id = id

EpochDisposition(r) == IF r.epoch = tab.epoch THEN "accepted" ELSE "stale_epoch"

EventDisposition(r) ==
    IF Known(r.id) THEN "duplicate"
    ELSE IF r.epoch # tab.epoch THEN "stale_epoch"
    ELSE IF tab.trial = NoItem \/ r.trial # tab.trial THEN "stale_trial"
    ELSE "accepted"

Goto(p, pc) == post' = [post EXCEPT ![p].pc = pc]

\* Under the ledger's lock: an identifier that is known makes the event a duplicate.
Recorded(asked, id) == IF Known(id) THEN "duplicate" ELSE asked

\* The session's own events (prepare, start_requested) have fresh identifiers.
EventId(p) == IF post[p].what = "request" THEN post[p].id ELSE <<p, post[p].what>>

RecordEvent(p) ==
    /\ post[p].pc = "append"
    /\ ledger' = Append(ledger, [id |-> EventId(p), by |-> p, what |-> post[p].what,
                                 kind |-> post[p].kind, trial |-> post[p].trial,
                                 disp |-> Recorded(post[p].disp, EventId(p))])
    /\ Goto(p, IF sink.on THEN "put" ELSE "appended")
    /\ UNCHANGED <<tab, sink, server>>

-----------------------------------------------------------------------------
(* TabletEventSidecarWriter                                                 *)

\* capture: put blocks while the queue is full; a closed writer is refused.
Put(p) ==
    /\ post[p].pc = "put"
    /\ IF sink.worker = "none" THEN Goto(p, "broken") /\ UNCHANGED sink
       ELSE /\ Len(sink.queue) < Capacity
            /\ sink' = [sink EXCEPT !.queue = Append(@, <<p, post[p].what>>),
                                    !.unfinished = @ + 1]
            /\ Goto(p, "join")
    /\ UNCHANGED <<tab, ledger, server>>

\* slip: the capture does not wait for the queue
JoinAtOnce(p) == post[p].pc = "join" /\ Goto(p, "appended") /\ UNCHANGED <<tab, ledger, sink, server>>

\* capture waits until the queue has no unfinished task; an error of the worker is not
\* one that the handler answers.
Join(p) ==
    /\ post[p].pc = "join" /\ sink.unfinished = 0
    /\ Goto(p, IF sink.error THEN "broken" ELSE "appended")
    /\ UNCHANGED <<tab, ledger, sink, server>>

\* _run: the end marker is taken without task_done and ends the worker.
Take ==
    /\ sink.worker = "alive" /\ sink.item = NoItem /\ sink.queue # << >>
    /\ sink' = IF Head(sink.queue) = NoItem
               THEN [sink EXCEPT !.queue = Tail(@), !.worker = "dead"]
               ELSE [sink EXCEPT !.queue = Tail(@), !.item = Head(sink.queue)]
    /\ UNCHANGED <<tab, ledger, post, server>>

\* Written or not, the task is done; a worker that failed returns, and what is still
\* queued keeps its waiters.
WriteEvent(fails) ==
    /\ sink.item # NoItem
    /\ sink' = [sink EXCEPT !.item = NoItem, !.unfinished = @ - 1,
                            !.file = IF fails THEN @ ELSE @ \cup {sink.item},
                            !.error = fails, !.worker = IF fails THEN "dead" ELSE @]
    /\ UNCHANGED <<tab, ledger, post, server>>

-----------------------------------------------------------------------------
(* The requests                                                             *)

\* Each page shows the state it polled; a request is made of it, or sent once more.
EventKinds == {"shown", "media_playing", "visibility", "metadata", "touch", "pause", "resume",
          "ended", "error", "sync", "reset"}

\* The pages that send a request: its script's own conditions.
Sent(kind) ==
    CASE kind = "shown" -> tab.task = "SURT" /\ tab.stage = "START_REQUESTED"
      [] kind = "touch" -> tab.task = "SURT" /\ tab.stage \in {"START_REQUESTED", "STIMULUS_SHOWN"}
      [] kind \in {"metadata", "media_playing"} -> tab.task = "VIDEO" /\ tab.stage = "START_REQUESTED"
      [] kind = "ended" -> tab.task = "VIDEO" /\ tab.stage = "MEDIA_PLAYING"
      [] kind = "visibility" -> tab.trial # NoItem
      [] kind \in {"pause", "resume"} -> tab.task # "VIDEO"
      [] OTHER -> TRUE

Send(p, kinds) ==
    /\ server = "open" /\ post[p].pc = "idle"
    /\ \/ \E kind \in kinds : Sent(kind) /\
             post' = [post EXCEPT ![p] = [Idle EXCEPT !.pc = "sent", !.kind = kind, !.id = p,
                                          !.epoch = tab.epoch, !.trial = tab.trial]]
       \/ \E q \in Posts : post[q].pc # "idle" /\ post[q].kind \in kinds /\ post[q].id = q /\
             post' = [post EXCEPT ![p] = [Idle EXCEPT !.pc = "sent", !.kind = post[q].kind,
                                          !.id = q, !.epoch = post[q].epoch,
                                          !.trial = post[q].trial]]
    /\ UNCHANGED <<tab, ledger, sink, server>>

Reads(p, kinds) == post[p].pc = "sent" /\ post[p].kind \in kinds

\* The state is changed, if it is, before the event is appended.
Decided(p, disp, next) ==
    /\ post' = [post EXCEPT ![p].pc = "append", ![p].disp = disp]
    /\ tab' = next
    /\ UNCHANGED <<ledger, sink, server>>

Refuse(p) == Goto(p, "refused") /\ UNCHANGED <<tab, ledger, sink, server>>

\* acknowledge
Acknowledge(p) ==
    /\ Reads(p, {"shown", "media_playing", "visibility"})
    /\ LET r == post[p]
           d == EventDisposition(r)
           ready == tab.stage = "START_REQUESTED"
       IN  CASE d # "accepted" \/ r.kind = "visibility" -> Decided(p, d, tab)
             [] d = "accepted" /\ r.kind = "shown" ->
                  IF tab.task \in {"SURT", "NO_SURT"} /\ ready
                  THEN Decided(p, d, [tab EXCEPT !.stage = "STIMULUS_SHOWN"])
                  ELSE Decided(p, "invalid_stage", tab)
             [] d = "accepted" /\ r.kind = "media_playing" ->
                  IF tab.task # "VIDEO" \/ ~ready THEN Decided(p, "invalid_stage", tab)
                  ELSE IF ~tab.meta THEN Refuse(p)
                  ELSE Decided(p, d, [tab EXCEPT !.stage = "MEDIA_PLAYING"])

\* record_video_metadata: metadata that does not fit the task is refused.
VideoMetadata(p) ==
    /\ Reads(p, {"metadata"})
    /\ LET d == EventDisposition(post[p])
       IN  \/ Decided(p, d, IF d = "accepted" THEN [tab EXCEPT !.meta = TRUE] ELSE tab)
           \/ d = "accepted" /\ Refuse(p)

\* touch: only on a stimulus that is shown, and not while the task is paused.
Touch(p) ==
    /\ Reads(p, {"touch"})
    /\ LET d == EventDisposition(post[p])
       IN  Decided(p, IF d # "accepted" THEN d
                      ELSE IF tab.paused THEN "paused"
                      ELSE IF tab.stage # "STIMULUS_SHOWN" THEN "pre_show" ELSE d, tab)

\* pause remembers the stage it finds, whatever it is.
Pause(p) ==
    /\ Reads(p, {"pause"})
    /\ IF tab.task # "SURT" THEN Refuse(p)
       ELSE LET d == EpochDisposition(post[p])
            IN  Decided(p, d, IF d # "accepted" THEN tab
                              ELSE [tab EXCEPT !.before = tab.stage, !.paused = TRUE,
                                               !.stage = "PAUSED"])

Resume(p) ==
    /\ Reads(p, {"resume"})
    /\ IF tab.task # "SURT" THEN Refuse(p)
       ELSE LET d == EpochDisposition(post[p])
            IN  Decided(p, d, IF d # "accepted" \/ ~tab.paused THEN tab
                              ELSE [tab EXCEPT !.before = "none", !.paused = FALSE,
                                       !.stage = IF tab.before = "none" THEN "SURT_READY"
                                                                        ELSE tab.before])

\* record_media_ended: a video that ends before its time is an error of the stage.
MediaEnded(p) ==
    /\ Reads(p, {"ended"})
    /\ LET d == EventDisposition(post[p])
       IN  \E early \in BOOLEAN :
             IF d = "accepted" /\ tab.stage = "MEDIA_PLAYING" /\ early
             THEN Decided(p, "early_end", [tab EXCEPT !.stage = "ERROR"])
             ELSE Decided(p, d, tab)

\* record_error, sync_mark, and reset_new_run up to its event.
PageReport(p) ==
    /\ Reads(p, {"error", "sync", "reset"})
    /\ LET d == EpochDisposition(post[p])
       IN  Decided(p, d, IF d = "accepted" /\ post[p].kind = "error"
                         THEN [tab EXCEPT !.stage = "ERROR"] ELSE tab)

\* What follows the event: a touch that counts prepares the next trial, a reset clears
\* the state and begins an epoch, everything else is answered with the state.
Follow(p) ==
    /\ post[p].pc = "appended"
    /\ LET r == post[p]
       IN  CASE r.what = "request" /\ r.kind = "touch" /\ r.disp = "accepted" ->
                  Goto(p, "prepare") /\ UNCHANGED tab
             [] r.what = "request" /\ r.kind = "reset" /\ r.disp = "accepted" ->
                  Goto(p, "answered") /\ tab' = [Configured("IDLE") EXCEPT !.epoch = tab.epoch + 1]
             [] r.what = "prepare" -> Goto(p, "start") /\ UNCHANGED tab
             [] OTHER -> Goto(p, "answered") /\ UNCHANGED tab
    /\ UNCHANGED <<ledger, sink, server>>

\* prepare: a new trial, named after the thread that made it, of the task configured now.
Prepare(p) ==
    /\ post[p].pc = "prepare"
    /\ IF tab.task \notin {"SURT", "VIDEO"} THEN Refuse(p)
       ELSE /\ tab' = [tab EXCEPT !.trial = p, !.stage = "PREPARED"]
            /\ post' = [post EXCEPT ![p].pc = "append", ![p].what = "prepare", ![p].trial = p,
                                    ![p].disp = "accepted"]
            /\ UNCHANGED <<ledger, sink, server>>

\* request_start: the trial must still be the current one.
RequestStart(p) ==
    /\ post[p].pc = "start"
    /\ IF tab.trial # post[p].trial THEN Refuse(p)
       ELSE /\ tab' = [tab EXCEPT !.stage = "START_REQUESTED"]
            /\ post' = [post EXCEPT ![p].pc = "append", ![p].what = "start"]
            /\ UNCHANGED <<ledger, sink, server>>

Handle(p) ==
    \/ Acknowledge(p) \/ VideoMetadata(p) \/ Touch(p) \/ Pause(p) \/ Resume(p)
    \/ MediaEnded(p) \/ PageReport(p) \/ Follow(p) \/ Prepare(p) \/ RequestStart(p)
    \/ RecordEvent(p) \/ Put(p) \/ Join(p)

-----------------------------------------------------------------------------
(* serve_tablet                                                             *)

\* The server opens when the first trial was started, or none is needed.
OpenServer ==
    /\ server = "closed" /\ post[Main].pc \in {"idle", "answered"}
    /\ server' = "open"
    /\ UNCHANGED <<tab, ledger, post, sink>>

\* TabletHttpServer.close: the handlers' threads are not waited for.
CloseServer ==
    /\ server = "open" /\ server' = "gone"
    /\ UNCHANGED <<tab, ledger, post, sink>>

\* slip: the writer waits for what is queued before it ends its worker
StopWriterQuietly ==
    /\ Len(sink.queue) < Capacity /\ sink.unfinished = 0
    /\ sink' = [sink EXCEPT !.queue = Append(@, NoItem), !.unfinished = @ + 1]
    /\ UNCHANGED <<tab, ledger, post, server>>

\* TabletEventSidecarWriter.close: the end marker is queued, and the worker joined.
StopWriter ==
    /\ Len(sink.queue) < Capacity
    /\ sink' = [sink EXCEPT !.queue = Append(@, NoItem), !.unfinished = @ + 1]
    /\ UNCHANGED <<tab, ledger, post, server>>

WriterJoined ==
    /\ sink.worker = "dead" /\ sink' = [sink EXCEPT !.worker = "none"]
    /\ UNCHANGED <<tab, ledger, post, server>>

-----------------------------------------------------------------------------
(* Properties                                                               *)

\* However requests are sent again and whichever threads overlap, an identifier is
\* counted once: at most one event of it is accepted.
CountedOnce ==
    \A i, j \in 1..Len(ledger) :
       (i # j /\ ledger[i].id = ledger[j].id) => ~(ledger[i].disp = "accepted" /\ ledger[j].disp = "accepted")

====
