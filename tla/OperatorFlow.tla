---------------------------- MODULE OperatorFlow ----------------------------
(***************************************************************************)
(* The operator's program around one session: the window and its event     *)
(* loop (src/p8/operator_ui.py, operator_ui_runtime.py), the controller    *)
(* (operator_controller.py), the executor of one bounded drive             *)
(* (operator_execution.py) and the command line that catches what they let *)
(* through (operator_cli.py).  The session itself is module Session, whose *)
(* actions are the calls made here.                                        *)
(*                                                                         *)
(* Everything runs in one thread.  A handler is a list of commands (todo); *)
(* a command that is a session call takes that call's steps, "execute" the *)
(* steps of the executor (ex).  Errors unwind the way Python's do.         *)
(***************************************************************************)
EXTENDS Session, FiniteSets

CONSTANTS
  Configs,     \* the [v1, nominal, gaze] options the command line may set
  MaxMishaps,  \* bound on devices, drives and reductions that fail
  MaxQueue     \* bound on input events waiting in the window's queue

\* What the argument parser lets through.
Accepted(c) == c.v1 => c.nominal

ASSUME FlowAssumption ==
  /\ Operator
  /\ Configs \subseteq [v1 : BOOLEAN, nominal : BOOLEAN, gaze : BOOLEAN]
  /\ \A c \in Configs : Accepted(c)
  /\ << "calibration_boundary", "EXTERNAL_OPERATOR_STEP" >> \in Answers
  /\ MaxMishaps \in Nat /\ MaxQueue \in Nat

VARIABLES
  cfg,       \* the options of this process
  where,     \* "start", "events", "handle", "render", "hold", "ended",
             \* "cli", "returned"
  todo,      \* the commands the running handler still has to make
  held,      \* app.runtime_error is set
  practice,  \* app.warning_practice: "none", "hidden", "playing", "ready"
  blocked,   \* SPACE is in keys_down or awaits its release
  pressed,   \* SPACE is physically down
  queue,     \* events the window system holds
  batch,     \* events pygame.event.get() returned and not yet looked at
  discard,   \* app.discard_key_batch
  asked,     \* the press that started the last script
  runs,      \* components.runs
  slots,     \* the stages of components.exit_slots
  ex,        \* the executor of the drive
  open,      \* what the drive holds: its runtime, its gaze capture
  bound,     \* the continuity's bound session
  export,    \* the ZIP could not be written
  code,      \* the exit code
  mishaps,   \* failures injected so far
  breaks     \* Ctrl+Cs delivered so far

keyboard == << blocked, pressed, queue, batch, discard, asked >>
drive == << runs, slots, ex, open, bound >>
window == << where, todo, held, practice, code >>
flow == << cfg, window, keyboard, drive, export, mishaps, breaks >>

Screens == {"EYE_TRACKER_CALIBRATION", "MODULE_1_PREPARE", "REST",
            "MODULE_2_PREPARE", "SESSION_COMPLETE", "ABORTED"}
Errors == {"P8", "other", "cancel"}
NoDrive == [at |-> "off", stage |-> "NONE", first |-> "none", others |-> FALSE,
            outcome |-> "none", confirmed |-> "none", clean |-> TRUE]

Mishap == mishaps < MaxMishaps /\ mishaps' = mishaps + 1
Fine == UNCHANGED mishaps
Registered == pc \notin {"new", "init"}
Executed == { runs[i].stage : i \in 1..Len(runs) }
HandsOff(stage) == stage = "MODULE_2_RUNNING" /\ cfg.nominal /\ ~cfg.v1

\* The lists of commands: start, _run_training, _handle_key and _run_module.
Training == << "execute", "show", "policy", "advance" >>
StartScript == << "register", "advance", "policy", "advance", "train" >>
Check == IF cfg.gaze THEN << "check", "restore" >> ELSE << "check" >>
Script(stage) ==
  CASE stage = "EYE_TRACKER_CALIBRATION" -> << "receipt", "advance" >>
    [] stage = "REST" -> << "advance" >>
    [] stage = "MODULE_1_PREPARE" ->
         Check \o << "advance", "execute", "restore", "policy", "advance", "advance" >>
    [] stage = "MODULE_2_PREPARE" ->
         Check \o << "advance", "execute", "restore", "after" >>
    [] stage \in Terminal -> << >>
    [] OTHER -> << "raiseP8" >>
AfterM2 == (IF ~cfg.nominal \/ state = "MODULE_2_RUNNING"
            THEN << "policy", "advance", "policy" >> ELSE << >>)
             \o << "advance", "policy", "advance" >>
Handoff == << "policy", "advance", "policy", "handed" >>

FlowInit ==
  /\ Init
  /\ cfg \in Configs
  /\ where = "start" /\ todo = StartScript /\ held = FALSE /\ practice = "none"
  /\ blocked = FALSE /\ pressed = FALSE /\ queue = << >> /\ batch = << >>
  /\ discard = FALSE /\ asked = "none"
  /\ runs = << >> /\ slots = {} /\ ex = NoDrive /\ open = {} /\ bound = FALSE
  /\ export = FALSE /\ code = "none" /\ mishaps = 0 /\ breaks = 0

SessionRests == pc \in {"idle", "closed"}
NoSession == UNCHANGED vars
Proceed == todo' = Tail(todo) /\ UNCHANGED << where, held, practice, code >>

\* An exception leaves the handler it was raised in (run_operator_ui,
\* handle_events, main): a P8Error of a key is only shown, another error is
\* held on the screen, Ctrl+C goes to the command line.
Raise(kind) ==
  /\ todo' = << >> /\ UNCHANGED << held, practice >>
  /\ IF kind = "KI" THEN where' = "cli" /\ code' = "130"
     ELSE /\ UNCHANGED code
          /\ where' = IF where = "handle" /\ kind = "P8"
                      THEN IF state = "ABORTED" THEN "ended" ELSE "handle"
                      ELSE "hold"

-----------------------------------------------------------------------------
(***************************************************************************)
(* Commands.                                                               *)
(***************************************************************************)
Commanded(c) == /\ where \in {"start", "handle"} /\ todo # << >> /\ Head(todo) = c
                /\ ex.at \in {"off", "handoff"}
Issue(c) == Commanded(c) /\ SessionRests

\* A session call that has been started takes its steps; the command is done
\* when the call returns.  During a drive only the handoff makes calls.
SessionCall ==
  /\ where \in {"start", "handle", "cli"} /\ ex.at \in {"off", "handoff"}
  /\ where # "cli" => todo # << >>
  /\ pc = "new" => where = "start"
  /\ CallStep /\ UNCHANGED << mode, interrupts >>
  /\ todo' = IF pc' \in {"idle", "closed"} /\ where # "cli" THEN Tail(todo) ELSE todo
  /\ \/ export' = export /\ Fine
     \/ pc = "export" /\ Mishap /\ export' = TRUE
  /\ UNCHANGED << cfg, where, held, practice, code, keyboard, drive, breaks >>

\* register_id before there is a session: the claim or the run directory is
\* refused.
RegisterFails ==
  /\ where = "start" /\ pc = "new" /\ Mishap
  /\ \E kind \in {"P8", "other"} : Raise(kind)
  /\ UNCHANGED << vars, cfg, keyboard, drive, export, breaks >>

\* What is left of the handler once the handoff is over.
AtDrive == SubSeq(todo, CHOOSE i \in 1..Len(todo) : todo[i] = "execute", Len(todo))

\* A controller call that refuses: inside the handoff the drive catches it.
Refuse == IF ex.at = "handoff"
          THEN /\ ex' = [ex EXCEPT !.at = "stopgaze", !.first = "P8"]
               /\ todo' = AtDrive
               /\ UNCHANGED << where, held, practice, code >>
          ELSE Raise("P8") /\ UNCHANGED ex

Advance ==
  /\ Issue("advance")
  /\ IF pc = "idle" /\ state \notin Terminal /\ Guard
     THEN /\ RequestTransition /\ UNCHANGED << mode, interrupts >>
          /\ UNCHANGED << window, ex >>
     ELSE NoSession /\ Refuse
  /\ UNCHANGED << cfg, keyboard, runs, slots, open, bound, export, mishaps, breaks >>

\* record_execution_policy_outcome wants the drive of a driving stage, except
\* inside the handoff, which asks the session directly.
Policy ==
  /\ Issue("policy")
  /\ IF ex.at = "handoff" \/ state \notin Modules \cup {"TRAINING"} \/ state \in Executed
     THEN /\ RecordPolicyOutcome /\ UNCHANGED << mode, interrupts >>
          /\ Proceed /\ UNCHANGED ex
     ELSE NoSession /\ Refuse
  /\ UNCHANGED << cfg, keyboard, runs, slots, open, bound, export, mishaps, breaks >>

RecordBoundary ==
  /\ Issue("receipt")
  /\ Acknowledge("calibration_boundary", "EXTERNAL_OPERATOR_STEP")
  /\ UNCHANGED << mode, interrupts >> /\ Proceed
  /\ UNCHANGED << cfg, keyboard, drive, export, mishaps, breaks >>

\* abort(reason) of the controller; the command is popped when it returns.
AbortCommand ==
  /\ \/ Issue("abort") /\ Abort("ABORTED")
     \/ Issue("collide") /\ Abort("ENDED_AFTER_HAZARD_COLLISION")
  /\ UNCHANGED << mode, interrupts, flow >>

\* With the version 1 hazard the warning sound is practised first.
Train ==
  /\ Issue("train")
  /\ IF cfg.v1 THEN practice' = "hidden" /\ todo' = << >>
     ELSE todo' = Training /\ UNCHANGED practice
  /\ UNCHANGED << vars, cfg, where, held, code, keyboard, drive, export, mishaps,
                  breaks >>

\* prepare_module_gaze: the operator passes, excludes or goes back.
GazeCheck ==
  /\ Issue("check")
  /\ \/ Proceed
     \/ /\ cfg.gaze /\ todo' = << "restore" >>
        /\ UNCHANGED << where, held, practice, code >>
  /\ UNCHANGED << vars, cfg, keyboard, drive, export, mishaps, breaks >>

\* _restore_display forgets every key event that is waiting: what is left are the
\* closings of the window.
NoKeys(events) ==
  [i \in 1 .. Cardinality({j \in 1..Len(events) : events[j] = "quit"}) |-> "quit"]
Restored(require) ==
  /\ queue' = NoKeys(queue)
  /\ discard' = require /\ blocked' = (require \/ pressed)
  /\ UNCHANGED << batch, pressed, asked >>

RestoreDisplay ==
  /\ \/ Issue("restore") /\ Restored(TRUE)
     \/ Issue("show") /\ Restored(FALSE)
     \/ /\ Issue("deafen")  \* the practice's tail in _handle_key
        /\ discard' = TRUE /\ blocked' = TRUE
        /\ UNCHANGED << queue, batch, pressed, asked >>
  /\ Proceed /\ Fine
  /\ UNCHANGED << vars, cfg, drive, export, breaks >>

DisplayLost ==
  /\ Issue("restore") \/ Issue("show")
  /\ Mishap /\ Raise("other")
  /\ UNCHANGED << vars, cfg, keyboard, drive, export, breaks >>

Expand ==
  /\ Issue("after") /\ todo' = AfterM2
  /\ UNCHANGED << vars, cfg, where, held, practice, code, keyboard, drive, export,
                  mishaps, breaks >>

RaiseCommand ==
  /\ \/ Issue("raiseP8") /\ Raise("P8")
     \/ Issue("raiseOther") /\ Raise("other")
     \/ /\ Issue("stop") /\ where' = "ended" /\ todo' = << >>
        /\ UNCHANGED << held, practice, code >>
  /\ UNCHANGED << vars, cfg, keyboard, drive, export, mishaps, breaks >>
-----------------------------------------------------------------------------
(***************************************************************************)
(* The executor of one drive: OperatorRunExecutor.execute, the continuity  *)
(* and the scope of the gaze capture around it.                            *)
(***************************************************************************)
Driving(at) == ex.at = at
Move(at) == ex' = [ex EXCEPT !.at = at]

\* The first error is the one that is raised; a later one is only noted.
Failed(at, kind) ==
  ex' = IF ex.first = "none" THEN [ex EXCEPT !.at = at, !.first = kind]
        ELSE [ex EXCEPT !.at = at, !.others = TRUE]
Breaks(at, kinds) == Mishap /\ \E kind \in kinds : Failed(at, kind)

Drives == /\ UNCHANGED << vars, cfg, keyboard, export, breaks >>
StillTodo == UNCHANGED window

\* One drive per stage, whatever became of it (execute_training,
\* execute_current_module, execute).
Execute ==
  /\ Issue("execute") /\ pc = "idle" /\ Driving("off")
  /\ IF state \in Executed THEN Raise("P8") /\ UNCHANGED ex
     ELSE ex' = [NoDrive EXCEPT !.at = "build", !.stage = state] /\ StillTodo
  /\ UNCHANGED << runs, slots, open, bound, mishaps >> /\ Drives

BuildRunner ==
  /\ Driving("build") /\ StillTodo
  /\ \/ Move("open") /\ Fine
     \/ Breaks("fail", {"other"})
  /\ UNCHANGED << runs, slots, open, bound >> /\ Drives

\* continuity.session: the runtime, and for a nominal second module the
\* binding the final hazard would continue on.
OpenRuntime ==
  /\ Driving("open") /\ StillTodo
  /\ IF bound THEN Failed("settle", "P8") /\ UNCHANGED << open, bound >> /\ Fine
     ELSE \/ /\ Move("gaze") /\ Fine
             /\ open' = {"runtime"} /\ bound' = HandsOff(ex.stage)
          \/ Breaks("settle", Errors) /\ UNCHANGED << open, bound >>
  /\ UNCHANGED << runs, slots >> /\ Drives

\* A gaze capture that does not start or does not close never stops a drive.
StartGaze ==
  /\ Driving("gaze") /\ StillTodo /\ Move("drive") /\ Fine
  /\ open' \in {open} \cup (IF cfg.gaze THEN {open \cup {"gaze"}} ELSE {})
  /\ UNCHANGED << runs, slots, bound >> /\ Drives

\* actual.run comes back, or raises; a training may be finished early.
DriveEnds ==
  /\ Driving("drive")
  /\ \/ /\ HandsOff(ex.stage) /\ Move("handoff") /\ Fine
        /\ todo' = Handoff \o todo /\ UNCHANGED << where, held, practice, code >>
     \/ /\ ~HandsOff(ex.stage)
        /\ ex' = [ex EXCEPT !.at = "stopgaze", !.outcome = "TIME_LIMIT_REACHED"]
        /\ Fine /\ StillTodo
     \/ /\ ex' = [ex EXCEPT !.at = "stopgaze", !.outcome = "USER_ABORT"]
        /\ Fine /\ StillTodo
     \/ /\ Breaks("stopgaze", Errors) /\ StillTodo
  /\ UNCHANGED << runs, slots, open, bound >> /\ Drives

HandedOff ==
  /\ Issue("handed") /\ ex.at = "handoff" /\ Proceed
  /\ ex' = [ex EXCEPT !.at = "stopgaze", !.outcome = "TIME_LIMIT_REACHED"]
  /\ Fine
  /\ UNCHANGED << runs, slots, open, bound >> /\ Drives

\* OperatorRecovery.handle: an error inside the viewer's guard pauses the
\* drive until the operator retries, successfully, or ends it.
Pause == /\ Driving("drive") /\ Mishap /\ Move("paused") /\ StillTodo
         /\ UNCHANGED << runs, slots, open, bound >> /\ Drives
AnswerPause ==
  /\ Driving("paused") /\ StillTodo
  /\ \/ Move("drive") /\ Fine
     \/ Mishap /\ UNCHANGED ex
     \/ /\ ex' = [ex EXCEPT !.at = "stopgaze", !.outcome = "USER_ABORT"] /\ Fine
  /\ UNCHANGED << runs, slots, open, bound >> /\ Drives

\* HazardCollisionStop.wait: contact with the obstacle ends the second
\* module; every step of the stop may fail and is noted.
Collide ==
  /\ Driving("drive") /\ ex.stage = "MODULE_2_RUNNING" /\ cfg.v1 /\ StillTodo
  /\ \/ ex' = [ex EXCEPT !.at = "notice", !.outcome = "HAZARD_COLLISION"] /\ Fine
     \/ /\ ex' = [ex EXCEPT !.at = "notice", !.outcome = "HAZARD_COLLISION",
                            !.clean = FALSE]
        /\ Mishap
  /\ UNCHANGED << runs, slots, open, bound >> /\ Drives
AnswerNotice ==
  /\ Driving("notice") /\ StillTodo /\ Fine
  /\ \E answer \in {"SPACE", "OPERATOR_ESCAPE", "WINDOW_CLOSE"} :
       ex' = [ex EXCEPT !.at = "stopgaze", !.confirmed = answer]
  /\ UNCHANGED << runs, slots, open, bound >> /\ Drives

StopGaze == /\ Driving("stopgaze") /\ Move("close") /\ StillTodo /\ Fine
            /\ open' = open \ {"gaze"}
            /\ UNCHANGED << runs, slots, bound >> /\ Drives

CloseWhenFine ==  \* slip: a drive that failed is not closed
  /\ Driving("close") /\ StillTodo /\ Move("settle") /\ Fine
  /\ open' = IF ex.first = "none" THEN {} ELSE open
  /\ bound' = FALSE
  /\ UNCHANGED << runs, slots >> /\ Drives

\* live_evidence and the exit of the runtime's context: whatever else fails,
\* the runtime is closed and the continuity is unbound.
CloseRuntime ==
  /\ Driving("close") /\ StillTodo
  /\ \/ Move("settle") /\ Fine
     \/ Breaks("settle", {"P8", "other"})
  /\ open' = {} /\ bound' = FALSE
  /\ UNCHANGED << runs, slots >> /\ Drives

\* after_cleanup_evidence and the diagnostics event, then the decision.
Settle ==
  /\ Driving("settle") /\ StillTodo
  /\ \/ Move(IF ex.first = "none" THEN "reduce" ELSE "fail") /\ Fine
     \/ Breaks("fail", {"other"})
  /\ UNCHANGED << runs, slots, open, bound >> /\ Drives

\* reduce_module_run and configured_exit_result over what was persisted.
ReduceDrive ==
  /\ Driving("reduce") /\ StillTodo
  /\ \/ Move("store") /\ Fine
     \/ Breaks("fail", {"P8", "other"})
  /\ UNCHANGED << runs, slots, open, bound >> /\ Drives

Run == [stage |-> ex.stage, reason |-> ex.outcome, confirmed |-> ex.confirmed,
        clean |-> ex.clean]

\* What the session sees of a stored drive: the work of the stage it is in.
Works == IF state = ex.stage THEN PerformWork /\ UNCHANGED << mode, interrupts >>
         ELSE NoSession

\* _handle_run_result, and what _run_module makes of a collision.
Handle(outcome) ==
  CASE outcome = "HAZARD_COLLISION" -> << "collide", "stop" >>
    [] outcome = "USER_ABORT" -> << "abort", "raiseP8" >>
    [] OTHER -> Tail(todo)

StoreRun ==
  /\ Driving("store")
  /\ runs' = Append(runs, Run) /\ slots' = slots \cup {ex.stage}
  /\ todo' = Handle(ex.outcome) /\ ex' = NoDrive
  /\ Works
  /\ UNCHANGED << cfg, where, held, practice, code, keyboard, open, bound, export,
                  mishaps, breaks >>

\* The controller's except clauses and _record_runtime_fault: a confirmed
\* collision whose partial run is stored ends the session as one, a cancelled
\* preparation aborts it, any other error goes on.
Surface(partial) ==
  IF partial /\ ex.first # "KI" /\ ex.confirmed # "none"
  THEN /\ todo' = Handle("HAZARD_COLLISION")
       /\ UNCHANGED << where, held, practice, code >>
  ELSE IF ex.first = "cancel"
  THEN /\ todo' = << "abort", "raiseOther" >>
       /\ UNCHANGED << where, held, practice, code >>
  ELSE Raise(ex.first)

\* The failing end: an exit result, for a collision the partial run, then the
\* first error goes on to _record_runtime_fault.
FailRun ==
  /\ Driving("fail")
  /\ slots' = slots \cup {ex.stage}
  /\ \/ /\ ex.outcome = "HAZARD_COLLISION" /\ Fine
        /\ runs' = Append(runs, [Run EXCEPT !.clean = FALSE]) /\ Works
        /\ Surface(TRUE)
     \/ /\ UNCHANGED runs /\ NoSession
        /\ IF ex.outcome = "HAZARD_COLLISION" THEN Mishap ELSE Fine
        /\ Surface(FALSE)
  /\ ex' = NoDrive
  /\ UNCHANGED << cfg, keyboard, open, bound, export, breaks >>

-----------------------------------------------------------------------------
(***************************************************************************)
(* The window: hold_runtime_error and the loop of run_operator_ui.         *)
(***************************************************************************)
Loop(next) == where' = next /\ UNCHANGED << todo, held, practice, code >>
Apart == UNCHANGED << vars, cfg, drive, export, breaks >>
Done == todo = << >> /\ pc \in {"new", "idle", "closed"} /\ ex.at = "off"

StartDone == /\ where = "start" /\ Done /\ Loop("events")
             /\ UNCHANGED << keyboard, mishaps >> /\ Apart

\* A closed session ends the window; otherwise the error stays on it, and the
\* display that shows it may fail in turn.
Hold ==
  /\ where = "hold"
  /\ IF Registered /\ closed THEN Loop("ended") /\ UNCHANGED << keyboard, mishaps >>
     ELSE /\ held' = TRUE /\ UNCHANGED << todo, practice >>
          /\ \/ /\ Restored(TRUE) /\ Fine
                /\ where' = "events" /\ UNCHANGED code
             \/ /\ Mishap /\ UNCHANGED keyboard
                /\ where' = "cli" /\ code' = "2"
  /\ Apart

\* What the hand and the window system put into the queue; it is only read
\* when the loop asks, so it moves only there and while a drive runs.
Hands ==
  /\ \/ where = "events" \/ ex.at \in {"drive", "paused"}
     \/ todo # << >> /\ Head(todo) = "check"
  /\ Len(queue) < MaxQueue
  /\ \/ /\ ~pressed /\ pressed' = TRUE
        /\ queue' = Append(queue, IF ex.at = "off" THEN "space" ELSE "stale")
     \/ pressed /\ pressed' = FALSE /\ queue' = Append(queue, "release")
     \/ \E e \in {"esc", "quit"} :
          where = "events" /\ queue' = Append(queue, e) /\ UNCHANGED pressed
  /\ UNCHANGED << vars, cfg, window, blocked, batch, discard, asked, drive, export,
                  mishaps, breaks >>

FetchEvents ==
  /\ where = "events"
  /\ Loop("handle") /\ batch' = queue /\ queue' = << >>
  /\ UNCHANGED << blocked, pressed, discard, asked, mishaps >> /\ Apart

BatchDone ==
  /\ where = "handle" /\ Done /\ batch = << >>
  /\ discard' = FALSE /\ Loop("render")
  /\ UNCHANGED << blocked, pressed, queue, batch, asked, mishaps >> /\ Apart

QuitForgets ==  \* slip: an open session is aborted but the window stays
  /\ practice' = "none" /\ UNCHANGED where
  /\ IF pc = "idle" THEN Abort("ABORTED") /\ UNCHANGED << mode, interrupts >>
                          /\ todo' = << "abort" >>
     ELSE NoSession /\ todo' = << >>
  /\ UNCHANGED << held, code, blocked, discard, asked >>

\* ESC and closing the window: _abort, unless the session is closed.
Quit ==
  /\ practice' = "none"
  /\ IF pc = "idle" THEN Abort("ABORTED") /\ UNCHANGED << mode, interrupts >>
                          /\ todo' = << "abort", "stop" >> /\ UNCHANGED where
     ELSE NoSession /\ todo' = << >> /\ where' = "ended"
  /\ UNCHANGED << held, code, blocked, discard, asked >>

SpaceAlways(e) ==  \* slip: a held error does not stop the keys
  /\ UNCHANGED << vars, where, held, code, discard >>
  /\ blocked' = TRUE
  /\ IF practice \in {"hidden", "playing"} THEN UNCHANGED << todo, practice, asked >>
     ELSE /\ practice' = "none" /\ asked' = e
          /\ todo' = IF practice = "ready" THEN Training \o << "deafen" >> ELSE Script(state)

\* SPACE: in the practice it acknowledges a cue that has been heard.
Space(e) ==
  /\ UNCHANGED << vars, where, held, code, discard >>
  /\ blocked' = TRUE
  /\ IF held \/ practice \in {"hidden", "playing"} THEN UNCHANGED << todo, practice, asked >>
     ELSE /\ practice' = "none"
          /\ todo' = IF practice = "ready" THEN Training \o << "deafen" >> ELSE Script(state)
          /\ asked' = IF todo' \in {<< >>, << "raiseP8" >>} THEN asked ELSE e

HandleEvent ==
  /\ where = "handle" /\ Done /\ batch # << >>
  /\ LET e == Head(batch)
     IN \/ e = "quit" /\ Quit
        \/ /\ e # "quit" /\ discard
           /\ UNCHANGED << vars, window, blocked, discard, asked >>
        \/ /\ e = "release" /\ ~discard /\ blocked' = FALSE
           /\ UNCHANGED << vars, window, discard, asked >>
        \/ e = "esc" /\ ~discard /\ Quit
        \/ /\ e \in {"space", "stale"} /\ ~discard /\ blocked
           /\ UNCHANGED << vars, window, blocked, discard, asked >>
        \/ e \in {"space", "stale"} /\ ~discard /\ ~blocked /\ Space(e)
  /\ batch' = Tail(batch)
  /\ UNCHANGED << cfg, pressed, queue, drive, export, mishaps, breaks >>

\* render has a page for the stages an operator should see; the practice's
\* first cue plays after its page has been shown once.
Render ==
  /\ where = "render" /\ UNCHANGED << todo, held >>
  /\ IF held \/ practice # "none" \/ state \in Screens
     THEN /\ where' = "events" /\ UNCHANGED code
          /\ practice' \in IF held \/ practice # "hidden" THEN {practice}
                           ELSE {"playing", "ready"}
     ELSE where' = "cli" /\ code' = "2" /\ UNCHANGED practice
  /\ UNCHANGED << keyboard, mishaps >> /\ Apart

CueEnds == /\ practice = "playing" /\ practice' = "ready"
           /\ UNCHANGED << where, todo, held, code, keyboard, mishaps >> /\ Apart

\* The exit code of run_operator_ui.
Earned ==
  /\ closed /\ ~export
  /\ \/ state = "SESSION_COMPLETE"
     \/ \E i \in 1..Len(runs) : /\ runs[i].reason = "HAZARD_COLLISION"
                               /\ runs[i].confirmed = "SPACE" /\ runs[i].clean
Return ==
  /\ where = "ended" /\ where' = "returned"
  /\ code' = IF Registered /\ Earned THEN "0" ELSE "2"
  /\ practice' = "none" /\ UNCHANGED << todo, held, keyboard, mishaps >> /\ Apart

-----------------------------------------------------------------------------
(***************************************************************************)
(* The command line, and Ctrl+C.                                           *)
(***************************************************************************)
CliAbortAgain ==  \* slip: a closed session is aborted once more
  /\ where = "cli" /\ pc \in {"idle", "closed"} /\ Caught("ABORTED")
  /\ UNCHANGED << mode, interrupts, flow, place, records, entry, work, components,
                  ending, disks, faults >>

CliAbort ==
  /\ where = "cli" /\ Abort("ABORTED") /\ UNCHANGED << mode, interrupts, flow >>

CliReturn ==
  /\ where = "cli" /\ pc \in {"new", "closed"} /\ Loop("returned")
  /\ UNCHANGED << keyboard, mishaps >> /\ Apart

ToCli == /\ where' = "cli" /\ code' = "130" /\ todo' = << >>
         /\ UNCHANGED << held, practice >>

\* Ctrl+C unwinds a drive through the executor, which closes what is open; a
\* session call it hits is one that the command line aborts; in the command
\* line's own abort it ends the process.
CtrlC ==
  /\ breaks < MaxInterrupts /\ breaks' = breaks + 1
  /\ where # "returned"
  /\ \/ /\ where = "cli" /\ pc \notin {"new", "idle", "closed"} /\ NoSession
        /\ where' = "returned" /\ code' = "died"
        /\ UNCHANGED << todo, held, practice, ex >>
     \/ /\ where # "cli" /\ ex.at \in {"off", "handoff"} /\ pc \notin {"new", "idle"}
        /\ Interrupt /\ UNCHANGED mode
        /\ IF pc' = "reduce" THEN UNCHANGED << window, ex >>
           ELSE IF ex.at = "off" THEN ToCli /\ UNCHANGED ex
           ELSE /\ Failed("stopgaze", "KI") /\ todo' = AtDrive
                /\ UNCHANGED << where, held, practice, code >>
     \/ /\ where # "cli" /\ ex.at = "off" /\ pc \in {"new", "idle", "closed"}
        /\ NoSession /\ ToCli /\ UNCHANGED ex
     \/ /\ ex.at \in {"gaze", "drive", "paused", "notice"} /\ NoSession
        /\ Failed("stopgaze", "KI") /\ UNCHANGED window
     \/ /\ ex.at \in {"build", "reduce"} /\ NoSession
        /\ Failed("fail", "KI") /\ UNCHANGED window
     \/ /\ ex.at = "open" /\ NoSession /\ Failed("settle", "KI") /\ UNCHANGED window
     \/ /\ ex.at = "close" /\ NoSession /\ Failed("close", "KI") /\ UNCHANGED window
  /\ UNCHANGED << cfg, keyboard, runs, slots, open, bound, export, mishaps >>

-----------------------------------------------------------------------------
Command ==
  \/ SessionCall \/ RegisterFails \/ Advance \/ Policy \/ RecordBoundary
  \/ AbortCommand \/ Train \/ GazeCheck \/ RestoreDisplay \/ DisplayLost
  \/ Expand \/ RaiseCommand

Executor ==
  \/ Execute \/ BuildRunner \/ OpenRuntime \/ StartGaze \/ DriveEnds \/ HandedOff
  \/ Pause \/ AnswerPause \/ Collide \/ AnswerNotice \/ StopGaze \/ CloseRuntime
  \/ Settle \/ ReduceDrive \/ StoreRun \/ FailRun

Window ==
  \/ StartDone \/ Hold \/ FetchEvents \/ BatchDone \/ HandleEvent \/ Render
  \/ CueEnds \/ Return \/ CliAbort \/ CliReturn

Program == Command \/ Executor \/ Window
Over == where = "returned" /\ UNCHANGED << vars, flow >>

FlowNext == Program \/ Hands \/ CtrlC \/ Over
FlowSpec == FlowInit /\ [][FlowNext]_<< vars, flow >>

\* The program is one thread that never stops of itself: a drive has a time
\* limit, and an operator who is asked by a notice answers it.
FairFlow == FlowSpec /\ WF_<< vars, flow >>(Program)

-----------------------------------------------------------------------------
(***************************************************************************)
(* Properties.                                                             *)
(***************************************************************************)

\* An error the window holds is never worked around: from then on no drive is
\* started or stored and the session goes nowhere but to ABORTED (the held
\* page: "the session is not completed arbitrarily or changed into a new
\* drive", operator_ui.py:115).
HeldIsNeverResumed ==
  [][ held => /\ held' /\ runs' = runs /\ ex' = ex
              /\ state' \in {state, "ABORTED"} ]_<< vars, flow >>

\* Exit code 0 is earned: the session is closed and exported, and either every
\* driving stage was driven exactly once and to its end, or the obstacle was
\* hit and the operator confirmed a stop that had no errors.
ExitZeroIsEarned ==
  code = "0" =>
    /\ closed /\ ~export
    /\ \/ /\ state = "SESSION_COMPLETE" /\ Len(runs) = 3
          /\ Executed = Modules \cup {"TRAINING"} /\ slots = Executed
          /\ \A i \in 1..3 : runs[i].reason = "TIME_LIMIT_REACHED"
       \/ /\ verdict = "ENDED_AFTER_HAZARD_COLLISION"
          /\ \E i \in 1..Len(runs) : runs[i].confirmed = "SPACE" /\ runs[i].clean

\* Whatever a drive holds is given back before the session ends: the runtime
\* and the gaze capture write into a log that is still open, also when the
\* handoff, the drive or its shutdown fails or Ctrl+C strikes in one of them.
OpenDriveHasALog ==
  open # {} => ~logClosed /\ pc \notin Finalizing \cup {"closed"}

\* A press made during a drive never starts anything after it (the comment in
\* _handle_key: "Do not forward the acknowledgement or a queued repeat").
NoStalePress == asked # "stale"

\* Whatever the window, the drive and the command line do to their session,
\* with failures and Ctrl+C anywhere, is a behaviour of Session: no call is
\* made on a session that is closed, busy or gone, and what is proved of
\* Session holds of the program.
SessionSpec == Spec

\* Closing the window brings the program to its end whatever was going on,
\* with the session closed, unless a second Ctrl+C killed the closing itself
\* or an earlier event of the same batch raised: then the rest of the batch is
\* lost and the window shows the error instead (handle_events).
QuitReturns ==
  (\E i \in 1..Len(batch) : batch[i] = "quit")
    ~> \/ where = "returned" /\ (closed \/ pc = "new" \/ code = "died")
       \/ held

\* What the program reports of its drives is true: exit code 0 is earned by the runs it
\* names, and a drive that is open still has the session's log.
DrivesAreAccounted == ExitZeroIsEarned /\ OpenDriveHasALog

\* A key means what its page showed: a press from a drive starts nothing, and no key
\* leads around an error that the window holds.
KeysAreHeeded == []NoStalePress /\ HeldIsNeverResumed

-----------------------------------------------------------------------------
(***************************************************************************)
(* The inductive invariant behind these properties (SessionProofs).        *)
(***************************************************************************)
FirstCommand == todo[1]
Issuing == where \in {"start", "handle"}
Inside == ex.at \notin {"off", "handoff"}
DrivingStages == << "TRAINING", "MODULE_1_RUNNING", "MODULE_2_RUNNING" >>
Routine == {"receipt", "advance", "policy", "restore", "show", "deafen", "after"}
Closings == {"abort", "collide", "stop", "raiseOther", "raiseP8"}
Commands == Routine \cup Closings \cup {"register", "train", "check", "execute", "handed"}
Runs == [stage : Stages, reason : {"TIME_LIMIT_REACHED", "USER_ABORT", "HAZARD_COLLISION"},
         confirmed : {"none", "SPACE", "OPERATOR_ESCAPE", "WINDOW_CLOSE"}, clean : BOOLEAN]

Points == {"off", "build", "open", "gaze", "drive", "handoff", "paused", "notice", "stopgaze",
           "close", "settle", "reduce", "store", "fail"}
Executors ==
  [at : Points, stage : Stages \cup {"NONE"}, first : Errors \cup {"none", "KI"},
   others : BOOLEAN, outcome : {"none", "TIME_LIMIT_REACHED", "USER_ABORT", "HAZARD_COLLISION"},
   confirmed : {"none", "SPACE", "OPERATOR_ESCAPE", "WINDOW_CLOSE"}, clean : BOOLEAN]

FlowTypes ==
  /\ cfg \in Configs
  /\ where \in {"start", "events", "handle", "render", "hold", "ended", "cli", "returned"}
  /\ todo \in Seq(Commands) /\ held \in BOOLEAN
  /\ practice \in {"none", "hidden", "playing", "ready"}
  /\ queue \in Seq({"space", "stale", "release", "esc", "quit"})
  /\ batch \in Seq({"space", "release", "esc", "quit"})
  /\ asked # "stale"
  /\ runs \in Seq(Runs)
  /\ slots \subseteq Stages
  /\ ex \in Executors
  /\ open \subseteq {"runtime", "gaze"}
  /\ approval = "none"

\* Where the window stands says where the call to the session can be.
CallInv ==
  /\ pc # "dead"
  /\ pc \in {"new", "init"} =>
       \/ (where = "start" /\ todo = StartScript /\ ~held)
       \/ pc = "new" /\ where # "start" /\ (held \/ where \in {"hold", "ended", "cli", "returned"})
  /\ pc \in Busy => /\ Issuing /\ todo # << >> /\ FirstCommand = "advance"
                    /\ ~Inside /\ ~held
  /\ pc \in Aborting \cup Finalizing =>
       \/ /\ Issuing /\ ex.at = "off" /\ todo # << >> /\ FirstCommand \in {"abort", "collide"}
          /\ position < Last
       \/ /\ Issuing /\ ex.at = "off" /\ todo # << >> /\ FirstCommand = "advance"
          /\ position = Last /\ pc \in Finalizing /\ ~held
       \/ where \in {"cli", "returned"}
       \/ Inside /\ ex.first = "KI" /\ pc = "abort"
  /\ ~Issuing => todo = << >> /\ ex.at = "off"
  /\ todo = << >> => ex.at = "off"
  /\ todo = << >> /\ where \notin {"cli", "returned"} => pc \in {"new", "idle", "closed"}
  /\ where = "ended" => pc \in {"new", "closed"}
  /\ where = "cli" => pc \notin Busy \cup {"init"}
  /\ pc \in Underway => ~logClosed /\ ~lifecycle /\ ~errors

\* The position the running command was issued at.
Standing == IF pc \in {"enter", "activate", "persist", "complete"} THEN position - 1 ELSE position

\* The lists of commands: routine, a closing, the way to the first drive, a drive that is
\* the i-th command to come with what leads there, and the handoff inside one.
RoutineList(l) == \A j \in 1..Len(l) : l[j] \in Routine
ClosingLists ==
  { << "abort", "stop" >>, << "abort", "raiseP8" >>, << "abort", "raiseOther" >>,
    << "collide", "stop" >>, << "stop" >>, << "raiseP8" >>, << "raiseOther" >> }
Starting(l, n) ==
  \/ l = << "advance", "policy", "advance", "train" >> /\ n = 1
  \/ l = << "policy", "advance", "train" >> /\ n = 2
  \/ l = << "advance", "train" >> /\ n = 2
  \/ l = << "train" >> /\ n = 3
DriveAt(l, i) ==
  /\ i < Len(l) /\ l[i] = "execute" /\ l[i + 1] \in {"show", "restore"}
  /\ \A j \in i + 1 .. Len(l) : l[j] \in Routine
Approach(l, i, n) ==
  /\ DriveAt(l, i) /\ n \in {5, 9} /\ l[i - 1] = "advance"
  /\ \A j \in 1 .. i - 2 : l[j] \in {"check", "restore"}
HandsOver(l, i, n) ==
  /\ DriveAt(l, i) /\ n = (IF i > 3 THEN 10 ELSE 11)
  /\ \A j \in 1 .. i - 1 : l[j] = Handoff[j + 5 - i]

ScriptInv ==
  \/ ex.at = "off" /\ RoutineList(todo)
  \/ ex.at = "off" /\ todo \in ClosingLists
  \/ /\ ex.at = "off" /\ pc \in {"idle"} \cup Busy /\ where = "start"
     /\ Starting(todo, Standing)
  \/ ex.at = "off" /\ todo = StartScript /\ pc \in {"new", "init"} /\ Standing = 1
  \/ ex.at # "handoff" /\ DriveAt(todo, 1) /\ (ex.at = "off" => Standing \in {3, 6, 10})
  \/ ex.at = "off" /\ \E i \in 2..4 : Approach(todo, i, Standing)
  \/ ex.at = "handoff" /\ \E i \in 2..5 : HandsOver(todo, i, Standing)

\* A page that holds an error, a press without a meaning, the end of a closing, and the
\* practice before the first drive.
PageInv ==
  /\ held => todo \in {<< >>, << "abort", "stop" >>, << "stop" >>} /\ practice = "none"
  /\ todo = << "raiseP8" >> =>
       \/ closed /\ state = "ABORTED"
       \/ /\ where = "handle" /\ pc = "idle" /\ ~held
          /\ state \notin Screens /\ practice = "none"
  /\ todo \in {<< "stop" >>, << "raiseOther" >>} => closed
  /\ practice # "none" =>
       \/ where \in {"cli", "returned"}
       \/ todo = << >> /\ state = "TRAINING" /\ pc = "idle" /\ where # "hold"

\* What a drive holds and where it can be: it has an outcome once it has been driven, and
\* leaves its stage only in the handoff.
Early(e) == e.at \in {"build", "open", "gaze", "drive", "paused", "notice"}
DriveInv ==
  /\ ex.at = "off" => ex = NoDrive
  /\ open # {} => ex.at \in {"gaze", "drive", "handoff", "paused", "notice", "stopgaze", "close"}
  /\ ex.at # "off" =>
       /\ ex.stage \in {"TRAINING", "MODULE_1_RUNNING", "MODULE_2_RUNNING"}
       /\ ex.stage \notin Executed
       /\ ~held /\ ~logClosed /\ practice = "none"
       /\ Inside => pc = "idle" \/ (pc = "abort" /\ ex.first = "KI")
       /\ pc = "idle" =>
            \/ state = ex.stage
            \/ ex.stage = "MODULE_2_RUNNING" /\ state = "FINAL_HAZARD" /\ ~Early(ex)
       /\ state # "SESSION_COMPLETE" /\ (pc = "abort" => ex.outcome # "HAZARD_COLLISION")
       /\ ex.at \in {"build", "open", "gaze", "drive", "paused", "notice", "handoff",
                     "reduce", "store"} => ex.first = "none"
       /\ ex.at \in {"stopgaze", "close", "settle", "reduce", "store"} /\ ex.first = "none" =>
            ex.outcome # "none"
       /\ ex.at \in {"build", "open", "gaze", "drive", "paused", "handoff"} => ex.outcome = "none"
       /\ ex.at = "notice" => ex.outcome = "HAZARD_COLLISION"
       /\ ex.at = "handoff" => ex.stage = "MODULE_2_RUNNING" /\ pc \in {"idle"} \cup Busy

\* A window that can only close.
DeadEnd ==
  \/ held
  \/ where \in {"hold", "ended", "cli", "returned"}
  \/ todo # << >> /\ FirstCommand \in Closings
  \/ /\ where \in {"handle", "render"} /\ todo = << >> /\ practice = "none"
     /\ state \notin Screens

\* What was pressed during a drive is forgotten before the window asks.
StaleInv ==
  (\E i \in 1..Len(queue) : queue[i] = "stale") =>
    \/ ex.at # "off"
    \/ todo # << >> /\ FirstCommand \in {"show", "restore"}
    \/ where \in {"cli", "returned"}
    \/ DeadEnd /\ ~held

\* The session stands at its stage or is aborted; the runs are the driving stages in
\* their order, and no driving stage is behind the
\* session without its run, its running drive or a failure of it.
Driven(stage) == stage \in Executed \/ stage \in slots \/ (ex.at # "off" /\ ex.stage = stage)
Ready(n) ==
  /\ n >= 3 => "TRAINING" \in Executed
  /\ n >= 6 => "MODULE_1_RUNNING" \in Executed
  /\ n >= 10 => Driven("MODULE_2_RUNNING")
RunsInv ==
  /\ state \in {Sequence[position], "ABORTED"}
  /\ work \subseteq Executed /\ Executed \subseteq slots
  /\ Len(runs) <= 3 /\ \A i \in 1..Len(runs) : runs[i].stage = DrivingStages[i]
  /\ Ready(IF pc \in {"leave", "end", "begin"} THEN position ELSE position - 1)
  /\ policy # "none" =>
       /\ state = "MODULE_1_RUNNING" => state \in Executed
       /\ state = "MODULE_2_RUNNING" => Driven(state)

\* A drive that failed or was given up, or that hit the obstacle, is the last.
Spoiled == slots # Executed \/ \E i \in 1..Len(runs) : runs[i].reason # "TIME_LIMIT_REACHED"
SpoiledInv ==
  Spoiled => /\ ex.at = "off" /\ DeadEnd
             /\ state # "SESSION_COMPLETE" /\ pc \notin Busy \cup {"new", "init"}

\* A confirmed stop without errors closes the session as such, unless Ctrl+C strikes.
Stopped == \E i \in 1..Len(runs) : /\ runs[i].reason = "HAZARD_COLLISION"
                                   /\ runs[i].confirmed = "SPACE" /\ runs[i].clean
StoppedInv ==
  Stopped =>
    \/ where = "cli" \/ (where = "returned" /\ code # "0")
    \/ /\ ~errors /\ ~lifecycle
       /\ pc \notin {"verdict", "closed"} \cup AfterClose => ~logClosed
       /\ \/ todo = << "collide", "stop" >> /\ pc = "idle"
          \/ /\ verdict = "ENDED_AFTER_HAZARD_COLLISION"
             /\ \/ todo = << "collide", "stop" >> /\ pc \in Aborting \cup Finalizing
                \/ todo = << "stop" >> /\ pc = "closed"
                \/ where \in {"ended", "returned"} /\ pc = "closed"

ProgramInv ==
  /\ SessionInv /\ FinalInv /\ FlowTypes /\ CallInv /\ ScriptInv /\ PageInv /\ DriveInv
  /\ StaleInv /\ RunsInv /\ SpoiledInv /\ StoppedInv
  /\ code = "0" => where = "returned" /\ ExitZeroIsEarned
=============================================================================
