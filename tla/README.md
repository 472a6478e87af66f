# Formal models of the driving-experiment software

TLA+ models of the program in `src/`, the TLC configurations that check them on small
instances, and theorems about them that TLAPS checks for every value of the constants.
The program runs a driving experiment with human participants in the CARLA simulator:
it leads an operator through a fixed protocol of stages, hands the car back and forth
between the participant and an automation ("NoA", built on CARLA's Traffic Manager, or in
development drives on a controller of its own), stages one final hazard, and collects
telemetry, gaze and tablet data into one result directory and ZIP per run.

Run a check with `tlc -config MCSession_dev.cfg MCSession`, a proof with
`tlapm SessionProofs.tla`; the other modules with theorems are `HazardProofs`, `HostProofs`,
`ExitProofs`, `ControlProofs`, `DriveProofs`, `GazeProofs` and `PartsProofs`.
`PROJECT.json` lists the runs, the deliberate faults (mutants), the lines each definition
stands for, the finding, the hazards and the theorems.

## 1. The system

| Part | State it keeps | Operations | Talks to |
|---|---|---|---|
| Experiment session, `src/p8/orchestrator.py`, `model.py`, `runner.py` | stage, records of the stages entered, receipts, outcomes, clean-up report, closed | `initialize`, `acknowledge`, `approve_dev_outcome`, `record_execution_policy_outcome`, `transition`, `abort`, `_finalize` | services (event log, manifest), the component graph |
| Session services, `src/p8/services.py`, `collection_safe_logger.py` | log files, `session_manifest.json` and its temporary | `emit`, `save_manifest`, `close` | disk |
| Component graphs, `src/p8/components.py`, `operator_components.py` | exit slots, hazard, bounded runs, owned tokens | `enter`, `leave`, `completion_blocker`, `flush`, `cleanup` | P5, P6, P7 and the simulator |
| Recovery and export, `src/p8/crash_recovery.py`, `operator_results.py`, `collection_report.py`, `tools/run_pilot_supervised.py`, `tools/recover_pilot.py` | the run directory, its recovery copy and report, the ZIP | `supervise`, `recover_stopped_run`, `export_operator_results`, `finalize_collection` | the worker process through its exit and its files only |
| Operator controller and UI, `src/p8/operator_*.py` | registered session, page, what was executed, the drive that is open | register, record, advance, run training/module, pause, abort, quit | session, components, drives |
| Names and registration, `pilot_identity.py`, `operator_registration.py` | reservation and claim files | `reserve_pilot_run`, `claim_registration` | other processes through exclusive files |
| A drive, `src/scenario/research_noa_*.py` | log, vehicle, viewer, stage rows, queue of events | session, initialize, run, close | everything below |
| Automation interaction, `src/experiment/automation*.py` | control mode, activation gate | driver inputs, `after_control_applied` | a control backend |
| Traffic Manager control and lane changes, `src/scenario/*lane_change*.py`, `research_noa_traffic_manager.py` | request, executor generation, command in flight, owner | signal, decide, execute, observe, enter and leave NoA | Traffic Manager |
| Own controller, `src/experiment/*_control.py`, `noa_runtime.py`, `src/vehicle/carla_noa_*control.py` | speed integral, target, timeline, steering override | enter, leave, step | vehicle |
| Exit assistance, `src/experiment/exit_*.py`, `p8/operator_exit_result.py` | state of the one opportunity, its events, its result | observe, present, decide, finish, classify | view, route, event file |
| Final hazard, `src/p7/`, `src/p8/operator_m2_hazard.py`, `clear_road_hazard.py`, `operator_hazard.py` | scenario, occurrence file, owned actors, raw samples | arm, update, advance, reveal, finalize | actors, event sink, simulator |
| Gaze, `src/p8/pilot_gaze.py`, `m2_gaze_check.py` | capture thread, window geometry, pending directory, check's decision | check, start, publish window, stop | tracker process, view |
| Tablet and gaze sidecar, `src/p6` | tablet state, ledger, queues, workers | events over HTTP, capture, stop | clients, files |
| Wheel and force feedback, `src/p8/tsxw_*.py`, `ffb_*.py` | device, pressed commands, evaluator state | poll, recover, evaluate, disable | SDL, output process |
| View and its measurements, `driver_view.py`, `research_camera_diagnostics.py` | camera feeds, loop and camera statistics | draw, flip, replace a camera, freeze | sensor threads, scene |
| Native trace, `native_tm_diagnostics.py`, `tm_runtime_attestation.py` | who owns the port, rows of the trace | attest, poll, close | Traffic Manager, operating system |
| Map generation, routes, audio, HUD, native patches | none that outlives a frame or a build | | files, screen, speakers |

What makes it hard: the session is one thread, but each of its statements does I/O that
can raise, and Ctrl+C may land between any two; the process may die and is then judged
by another process that sees only its files; the owner of the car's control lives in
another program (Traffic Manager) whose answers arrive late or not at all; sensors,
tracker and tablet call back on threads of their own; the hazard may happen once per
participant whatever restarts.

What makes each part correct, in one line: a **session** follows the protocol in order,
never claims what was not done and always ends in a closed, final manifest; **recovery**
keeps the evidence, invents nothing and tells the operator; the **ZIP** shows the run as
it ended; a **name** and a **claim** have one owner; the **hazard** occurs at most once and
its record tells what happened; the **car** has one controller at a time and is braked and
given up at the end; an **exit opportunity** gets one outcome, and only one it earned; a
**lane change** is sent once for a request and never after the driver took over; **gaze**,
**tablet** and **trace** data are whole or say what is missing; **force** never outlives
its evaluation; one **press** is one command.

## 2. Modules

| Module | Models | State and actions against the code |
|---|---|---|
| `DurableSession` | what a run directory promises its readers (abstract) | `outcome`, `history`; one save that decides |
| `Session` | `ExperimentSession` with its services and what the component graphs decide | `records`, `receipts`, `state`, `closed` are the fields of the same name; `approval`/`policy` the two outcomes of the last record; `disk`/`tmp` the manifest and its temporary; `pc` the statement a call has reached |
| `SessionRecovery` | worker, supervisor, recovery, export, retry; extends `Session` | `task` the point of `supervise`/`recover_stopped_run`; `copied`, `backup`, `report`, `reduced`, `archive` the files |
| `OperatorFlow` | the operator's window, pages, controller, executor of drives and command line; extends `Session`, whose actions are the calls it makes | `todo` the commands left of a handler, `ex` the point in the executor's nested handlers, `batch` the events waiting |
| `RunIdentity` | several starts of the program that share only files, and their supervisors | `starts` where each one is and the name it goes by; `reservations`, `registrations`, `folders`, `occurrences`, `archives` the directories; `settled` the folders that recovery leaves alone |
| `OwnedVehicle` | what a drive promises of its vehicle (abstract) | absent, held, driven, braked, gone |
| `DriveLifecycle` | one drive from `ResearchNoARuntime.session` to its return: log, P6, vehicle, probe, bundle, viewer, transmission, stage rows, the frame loop and the nested clean-up | `pc` the call reached; `own` what must be given back, `log` rows, queue and clock, `car` the transmission and the last command |
| `NoAControl`, `LaneChangeOrder` | who drives under the Traffic Manager: interaction, runtime controller, lane change executor, request and tracker, lamp, loop, pause and shutdown; and what one requested lane change may become (abstract) | `c` the control state, `t` the `LaneChangeTracker`, `drv` the pending `DriverInput`, `lamp` asked for and read back, `pc` the point of the iteration; `h` is history |
| `CustomControl` | the development drives' own controller: frame loop, interaction, speed policy, PI control, backend | `pi` the longitudinal controller, `backend` activity, override and timeline, `applied` the last command; `engagement` is history |
| `ExitAssistance`, `ExitOpportunity` | the signal-guided exit: coordinator, observer, view, and the backend that chooses the fork; and what the hazard relies on about it (abstract) | `x` the coordinator with the route it submitted, `view` the controller of `research_exit_view.py`; `visible`, `released` are histories |
| `ExitResult` | what a module's run tells of its exit: events, queue and flush, file with lost rows, second attempt, classification | `offer` the coordinator as far as its events go, `spoken` its events, `ledger` the rows, `told` the slot in the manifest |
| `HazardScene` | the production hazard of module 2, `ClearRoadM2Hazard` with its bases, backend, occurrence registry and collision stop, in `DriverView.run`'s iteration | `claim` the participant's file, `pc` the point of an iteration, `state`/`failed`/`stop` the scene's; `pending`/`held`/`counted` where a collision is on its way to the record |
| `MovingHazard` | the other subclass of the same bases: a lead with a hidden cargo, placed, revealed and handed to the Traffic Manager | `mpc` the point of an iteration, `world`/`stamp` the simulator's frames and its callback, `owned`, `pairOff`, `handed` the actors |
| `RawSamples`, `SampleStream` | the raw input log with `hazard_metrics` as its reader; and what a consumer may rely on (abstract) | `raw` the queue, `pendingBatch` the batch being retried, `file` the rows, `frozen` samples a failed batch shares with the scene |
| `HazardScenario` | `p7/hazard.py` with metrics, policy and claim, one call a chain of stages that may raise | `h` the scenario, `disk` the claim, `rested`/`struck` history |
| `OperatorHazardLoop` | the operator's loop around it: hand-back, display, rescue, record | `opc` the point of the loop, `backend`, `rescue`, `record` |
| `StaticHazardDrive` | `p7/live.py` around it: actors, traffic, sensor thread, log | `spc` the point of `execute`, `owned`, `listening`, `queued` |
| `GazeDuration`, `GazeCapture` | interval labels; the capture of one stage: renderer, tracker, receiver thread, gaze thread | `view`, `geo`, `pipe`, `rec`, `cap`, `file`, `dur` are those parties' states |
| `GazePrecheck`, `PilotGaze` | the check before a module and its decision; check and capture of a module, composed | `chk`, `quality` |
| `TabletStation`, `GazeSidecar`, `P6Collection` | the tablet behind its threaded server with the ledger and the sidecar writer; the gaze writer; both programs that use them, composed | `tab`, `ledger`, `post` (one per request thread), `sink`; `source`, `gaze`; `p6` |
| `FfbSafety` | evaluator, dispatcher and receiver of force feedback | `ffb`, `command`, `dispatcher`, `output`, `held` a command that may be delivered again |
| `WheelInput` | device, subsystem, merging of button and key, loss and recovery | `adapter`, `commands`, `key`, `button`, `frame` |
| `NativeTrace` | attestation of the Traffic Manager's port, the rehearsal's barrier, the ring and its collector | `port`, `barrier`, `trace`, `collector` (what it counted, remembers and put in the file are three things), `step` |
| `ViewMeasurement` | camera callbacks, the view's loop, the two sets of diagnostics | `feeds`, `callbacks`, `times`, `loops`, `view`; `receipts` is history |
| `SessionProofs` | the theorems about `Session`, `SessionRecovery` and `OperatorFlow` | |
| `ControlProofs`, `DriveProofs` | the theorems about `NoAControl`, `DriveLifecycle` | |
| `HazardProofs` | the theorems about `HazardScene` and `ExitResult` | |
| `ExitProofs` | the theorems about `ExitAssistance` and `MovingHazard` | |
| `HostProofs` | the theorems about `OperatorHazardLoop`, `StaticHazardDrive` and `P6Collection` | |
| `GazeProofs` | the theorems about `PilotGaze` | |
| `PartsProofs` | the theorems about `FfbSafety`, `ViewMeasurement`, `NativeTrace`, `CustomControl`, `RunIdentity`, `WheelInput`, `RawSamples` | |
| `MCSession`, `MCRecovery`, `MCOperator`, `MCM2Hazard`, `MCHazardLoop`, `MCStage`, `MCParts` | instances for TLC (`hazard`, `exit`, `control` and `gaze` check their module directly, with `MCHazard.cfg`, `MCExit.cfg`, `MCControl.cfg`, `MCGaze.cfg`) | receipt tables, configurations, bounds |

How they fit together. `OperatorFlow` and `SessionRecovery` extend `Session`: the same
actions are there called by the window and watched by the supervisor. `SessionSpec` says
that the window, the drives and the command line make no call that `Session` does not
allow, so what is proved of `Session` holds of the program. A drive is one step of
`OperatorFlow` for its executor, and `DriveLifecycle` inside; inside the drive's loop are
`NoAControl` or `CustomControl`, `ExitAssistance`, `HazardScene` or its relatives,
`WheelInput` and `ViewMeasurement`. They meet in an abstract module where one relies on the other:
`HazardScene` takes from `ExitAssistance` only what `ExitOpportunity` allows, and
`SampleStream`, `LaneChangeOrder`, `OwnedVehicle` and `DurableSession` are implemented by
`RawSamples`, `NoAControl`, `DriveLifecycle` and `SessionRecovery`.

`pc` splits a call exactly at the statements that do I/O. `EndStage`, for instance, is
lines 210-218 of `transition`: the record is changed first, then its event is written,
and when that raises the call goes on in `abort` with the record already ended. A
definition marked `\* slip` (or `\* Mutant`) is not a model of the code: it is the faulty
variant of the definition that follows it, used to see that a property notices the fault.

Data is abstracted to what decides control: a record keeps its stage, its status and
whether it is open; receipts keep their status and not their value; distances and angles
are the places or answers the code tells apart.

## 3. Runs

A property of a run may be the conjunction of several named parts; the module says which.

| Run | Instance | Properties and what they show |
|---|---|---|
| `session_dev` | development and participant, receipts answered or refused, 2 I/O faults, 1 Ctrl+C | `ProtocolOrder`, `HonestCompletion`: stages in order, complete only with what the stage requires. `RecordsAreSettled`: nothing left open, complete means complete, what is saved is settled. `HistoryFrozen`: an ended record stays |
| `operator` | the program around a session: 3 configurations, 2 mishaps (device, drive, reduction), 1 Ctrl+C, 2 waiting events | `DrivesAreAccounted`: exit code 0 is earned by the runs named, an open drive has its log. `KeysAreHeeded`: a press means what its page showed. `SessionSpec`: every call is one `Session` allows. `QuitReturns`: closing the window ends the program |
| `recovery` | one worker of either collection version that may die anywhere, 1 fault, 1 retry | `RecoveryIsHonest`: nothing invented, ZIP final, silence means saved. `EvidencePreserved`. `DurableSpec`: refinement for the whole life of the directory. `SupervisorFinishes` |
| `recovery_gaze` | the current collection version, without faults | expected violation, see section 5 |
| `hazard` | the participant driven twice, the first drive may die anywhere, 2 faults, one collision of each kind | `OneReveal`, `ContactsConserved`. `SceneIsHonest`: the reveal in its place, what a valid record may claim, a contact ends the scene, a failed scene is over. `DriveEnds` |
| `m2_hazard` | the raw log with either logger and writes that raise before or after the row is in the file; and the scene behind a moving lead with a simulator, a stamping callback and a sensor beside it | `SamplesAreWhole`, `StreamSpec` (refinement): retries repeat the same bytes, no hole in a valid scene. `SceneIsSound`: an exposure follows its command, placement and motion; the lead has one driver at a time; nothing outlives the scene unless the record says so |
| `hazard_loop` | the p7 scenario under the operator's loop or the static drive, 2 faults | `HazardIsRecordedAsMet`: outcome, rescue and response are those of the scene. `ActorsAreReturned` |
| `exit` | one opportunity, one pause, every Traffic Manager answer | `ExitIsInvited`: the exit is taken only under a standing consent to visible guidance. `OpportunitySpec` (refinement). `GuidanceEnds` |
| `control` | a drive with or without an exit observer, 1 fault at any statement or call, 2 requests, activations up to generation 4 | `OneCommander`: mode, registration and backend agree, a maneuver keeps its lock, a quiet end has released the car. `OrderSpec` (refinement). `WaitEnds` |
| `stage` | the life of a drive in 6 configurations with 2 faults of either kind at any call; or the P6 collection with 3 requests, 3 samples | `DriveIsAccounted`: all given back, rows tell stages and end, the clock accepts each. `VehicleSpec` (refinement). `CollectionIsWhole`: answered is stored, counted once, each sample in the file, the overflow or the unconfirmed range, closed means closed. `InterruptedReturns` |
| `gaze` | check and capture of a module, 2 samples, 1 change of the window, 1 fault | `GazeIsTrue`: labels of their own window, intervals witnessed at both ends, only what was measured for this module is analysed. `MovedIsQuiet`: nothing is written after the move |
| `parts` | seven parts that share no state, each explored alone | `EffectsAreLawful` (force feedback), `PressesAreCounted` (wheel), `StartsKeepApart` (names and claims), `BackendIsSound` (own controller), `TraceIsTrue` (attestation and ring), `ViewReportsTruly` (what is reported as shown was drawn, counted in its module), `ResultIsTrue` (an outcome that is told was reached in this run) |

Sizes are between fourteen thousand (`session_dev`) and 3.8 million distinct states
(`gaze`); each run ends within about four minutes on two cores.

### Bounds

- *Session.* The protocol has its real thirteen stages. Two faults are enough for a failure
  while handling a failure; a Ctrl+C on top gives the abort of an abort. The seven training
  receipts are treated alike by the code and stand as one. One retry is enough to run
  recovery over what a recovery left. `recovery` and `operator` bring no interrupts or
  faults where `session_dev` does.
- *Hazard scenes.* The clocks have only the landmarks the code compares times with, a tick
  or two apart, so that a frame falls on either side of each. One collision of each kind
  separates "touched" from "counted twice". Three samples and batches of two give a full
  batch, a rest and a retry. In `MovingHazard` three simulator frames, of which the callback
  remembers two, give a frame asked for, one confirmed and one missed; preflight failures,
  road departure and the blockers of P5 are deferrals that may come at any time. In
  `HazardScenario` four observations hold arming, trigger, reveal and a later contact; one pedal
  stands for brake and steering.
- *Exit.* The vehicle is in one of nine places, which is what the route's geometry decides
  for the coordinator; a gap in the observed frames may skip a place. Its time is two facts:
  the response time has passed, the eligibility window is before, in or over. One pause
  releases NoA behind the coordinator's back. `ExitResult` lets two driver inputs act in a first run and
  none in a second one that starts with at most one row in the file, one lost row in all.
- *Control.* A call to the Traffic Manager is done, refused, or done and reported as failed,
  and a roll-back too. Four generations hold two activations with the releases between,
  which a stale request needs; two requests let one find the other's lock. `CustomControl`
  counts in small integers (speeds to 3 against a limit of 2, gains of 1), with two
  engagements, since state that survives the first shows in the second. The world may
  repeat a frame, skip one or start its clock again.
- *Drive.* Two frames; the configurations are the operator's drive with its scene, the first
  version's with a continuation, and the development drives. Two faults reach the failure of a clean-up that
  handles a failure.
- *Collection.* Three requests, of which one only tells the end of a video and one reaches
  the runtime's tablet; a gaze queue of one, so that it overflows. `InterruptedReturns`
  needs fewer open requests than the station's queue takes, 2048 in the code.
- *Gaze.* Two areas stand for four, one of them looked at twice; five readings of the clock;
  the decisions followed are those that left no area or both of them.
- *Parts.* Two force contexts, strengths to 3, three calls in three ticks; three events in a
  frame, four frames, one button and key for four; three starts for one participant with two
  names of the pilot pattern and one that is not, of which two may be given theirs by
  hand: two may race for a name while the third died or runs; a ring of two that takes four records; two images from each
  camera, three cameras, two iterations and one that raises.

Deadlock is not checked (`CHECK_DEADLOCK FALSE`) where the system really stops: a closed
session, a closed scene or drive, a station that has returned, a supervisor that has shown
its notice. It is checked in `operator`, whose window waits for ever.

### Fairness

`Session!FairSpec` is weakly fair to the statements of a call that has been made: one
thread, no statement waits. Nothing is assumed of the operator. `OperatorFlow!FairFlow` is
weakly fair to the program, one thread that acts while it has something to do. In
`RecoverySpec` only the supervisor is fair: it is another process, blocked in
`worker.wait()`, and runs on when the worker is gone; the worker may stop at any point
and promises nothing. `HazardScene!LiveSpec` is weakly fair to the view loop, one thread
whose statements do not wait, and strongly to the step in which its clock has moved on:
an iteration may be faster than a tick, but not all of them. It also assumes that the
person at the wheel answers the collision notice and the operator the pause; the code
waits for both without a limit (`hazard_collision_stop.py:91`, `operator_recovery.py:52`).
`ExitAssistance!LiveSpec` is weakly fair to the iterations of the same loop and to the clock,
`NoAControl!LiveSpec` to the loop, to the second that a request waits for its
lamp, and to the operator's answer at the notice; nothing is assumed of the lamp.
`MCStage` is weakly fair to the drive's thread and to each thread of the collection,
none of which waits for a person. `gaze`, `m2_hazard`, `hazard_loop` and `parts` check safety
without fairness.

## 4. Proofs

The theorems hold for every value of the constants that the modules' assumptions admit: every
receipt table, clock, capacity, rate and limit, any number of faults, interrupts, runs,
requests and images. Each rests on an inductive invariant, which TLC checked on a small
instance before it was proved. `PROJECT.json` lists the theorems.

### The session and its recovery

`SessionProofs`, from `SessionAssumption` alone: `TypeCorrect`, `StagesInOrder`,
`CompletionIsHonest`, `RecordsAreClosed`, `HistoryIsFrozen`, `VerdictStays`,
`RecordsStaySettled` and the refinement `SessionIsDurable`. The invariant that carries the first
six, `SessionInv`, ties the place a call has reached to the rest: `PlaceInv` (inside a
transition the number of records is the position in the protocol, and before a record is
ended by `transition` its guard still holds), `RecordInv` (which statement runs with the
last record open), `OrderInv` (`ProtocolOrder` with its witness, and how many ABORTED
records the interrupts so far allow), `DiskInv` (a final manifest is only behind a call
past its last save). `Guard` at `leave` and `end` is what makes a completed record
honest, and it must survive `components.leave`, which is between the check and the use.
`SettledInv` adds what is on disk: a record that is entered is open until it ends, a
verdict of a complete flow is behind thirteen completed records from the moment it is
chosen (`FlowInv`), and the manifest is an earlier, coarser copy of the records
(`LedgerInv`). `LedgerInv` is also the refinement: a save extends the settled stages by
settled stages, because the records it replaces have not moved since.

The same module carries this through the worker's death: `RecoveryStaysHonest`,
`EvidenceIsPreserved` and `RecoveredSessionIsDurable`. The session's own invariant holds as long
as the worker lives; after it, only the files count, so `RecoveryInv` restates of the manifest
what recovery needs (`ManifestInv`), and keeps that no file is rewritten before a whole
copy exists (`CopyInv`) and who may write in which order (`WorkerInv`).

### The operator's program

Also in `SessionProofs`: `ProgramKeepsSession` is the refinement of `Session` by the program around it
(every step of the window, a drive or the command line is a call that `Session` allows, or
none), so that each theorem about `Session` is one about the program (`ProgramKeepsRecords`).
`DrivesAlwaysAccounted` and `KeysAlwaysHeeded` rest on `ProgramInv`, which follows one thread
through nested handlers: `CallInv` says which command a session call can belong to and what an
unfinished one leaves of the session, `ScriptInv` that the commands left of a handler are one of a few
kinds of list and at which stage the session stands for it (a drive is only in front of its own
stage's list, the handoff only inside a drive), `DriveInv` what an executor may have open and in which
stage, `RunsInv` that the runs stored are the driving stages in their order, one for each stage
the session has passed. The properties fail one step behind where they are broken, and so
the invariant must see the failure coming: a drive that failed or was given up (`Spoiled`)
leaves a window that can only close (`DeadEnd`), hence no later command completes the session and exit
code 0 is out of reach; a confirmed collision (`Stopped`) keeps the log open and its verdict through the closing,
except for a Ctrl+C, which changes the exit code as well; and what was pressed during a drive
(`StaleInv`) is in the queue only until the display is restored, or the window is a dead end.

### The hazard and the exit before it

`HazardProofs`: `RevealedOnce`, `RevealedInOrder`, `FailureStays`, `EveryContactIsCounted`
and `SceneStaysHonest`, without an assumption on the order of the clock's landmarks. The first
three rest on `SceneInv`: `ClaimInv` (the run at the reveal holds the claim and nothing
has been revealed yet, which exclusive creation gives and a later run cannot undo),
`FailedInv` and `StopInv` (a scene that failed or met its obstacle is outside its own
steps) and `RevealInv` (what the attempt checked before it claimed still holds when it
reveals: the loop's clock and the exit do not move back in between). `ContactInv` says
where every reported collision is: counted, in the callback's queue, or handed back by a
clean-up and not yet counted. The callback may run between any two steps, so the silence
of a stopped sensor is part of it (`SilentInv`). `HonestInv` is what the record may
claim: what was shown was placed by this run and judged (`ShownInv`), after a clean-up only
what it names is left and a scene that goes on has expired (`GoneInv`), a counted contact is
remembered and only a failed or closed scene follows it (`MetInv`), and a record of success
is the last word on a scene that gave everything back (`EndInv`).

`ExitProofs`: `ExitStaysInvited` and the refinement `OpportunityIsKept`, which `HazardScene`
takes as given. `ExitInv` relates what the Traffic Manager was told, what the guidance
shows and what the driver said (`Routed`, `Told`, `Armed`, `Agreed`); the two parts that
fail one at a time are the route that is armed although its cancellation failed, which
must be known, and the guidance that is closed but still drawn.

### What is told of an exit

`HazardProofs` also has `ResultIsAlwaysTrue`, for any number of runs, inputs and lost rows. `ResultInv` ties
four records of one opportunity together. `SpokenInv`: each event the coordinator keeps is true of the
opportunity (a completion that was said was reached, a decision that was said was made), what was reached
was said, a completion is said once and no other outcome follows it. `StoredInv`: what waits was said by this run, and
the configuration row says nothing of a driver. `PlainInv`: in a first run without a failure, the file behind its
configuration row, followed by the queue in order, is exactly what was said in order. `ToldInv`: what is told
is the classification of the file as it stands. `RunInv` says by place of the run what may be queued.

The rows are sorted by timestamp twice, by each flush and by the reader, and many share one, so that what
the reader takes as the latest depends on the sort being stable. The model's sort puts each row in the
place that its rank gives it (`Rank`: how many come earlier, of two with one timestamp the first). `Ranks`
shows that the ranks are a permutation, `OneOrder` that nothing else puts the rows in order, `InTimeConcat`
that rows flushed in parts, each later than the ones before it, are sorted as a whole; and
`LatestWithout` that leaving out the configuration row changes nothing that is read.

### The scene behind a moving lead

`ExitProofs` also has `MovingSceneIsSound`, for every number of frames and every lag of the callback.
A frame is read at one point of an iteration and used at several later ones, while the simulator
goes on: the cargo's request carries a later frame than the one the iteration looks at.
`NumbersInv` orders the frames (request, placement, motion, exposure) and says that an iteration
that has not come to the reveal looks at a later frame than any motion so far, so an
exposure found there cannot have been made in the same frame. `PlanInv` has the scene prepared and revealed
once, and only under the participant's occurrence; `ExposureInv` has an invalid exposure end the scene or, when
the row that tells it raises first, end it with the record FAILED;
`LeadInv` has the lead handed over before a retired scene goes on.

### What hosts a hazard

`HostProofs`: `HazardRecorded` and `StaticActorsReturned`, for every bound on faults and
observations. The loop and the scenario see one contact at two different times and keep it in two places
(`backend`, the record), so `OperatorInv` says by place of the loop which of the two is
ahead: what the scenario met is what the record will say, unless the loop still holds the
observation; a rescue is asked for once and only behind the contact it answers; and the
response kept is the first one after the reveal. `StaticInv` follows the actors through the nested clean-up: what is owned
between its creation and its return, and that a clean-up that
skipped one is a drive with an error.

### The collection and the gaze

`HostProofs` also has `CollectionWhole`. `TabletInv` joins the threads of the requests, the station and
the ledger: an answer is given behind the row that stores it (`StoredInv`), what a worker has
taken is counted once (`SinkInv`), and what is neither on disk nor waiting was told as lost. `GazeInv`
is the same for the samples, where a full queue turns the newest one away and a row whose own write or
flush raised is unconfirmed: it may be in the file or not, and so may the overflow's before it. The file
therefore shares at most the one sample with the unconfirmed range that divides the two. `RuntimeInv` and
`ProgramInv` order the two stops, so that a closed writer has no thread behind it
(`CollectionInv`).

`GazeProofs`: `GazeTrue` and `MovedQuiet`. Six parties write here, of which three are threads, so
`StageInv` has one part for each meeting of two.

- `WindowInv` and `GeometryInv`: the display, what was published of it and what the gaze thread read
  of that are three ages of one window; a sample may be labelled only between a probe and a second
  reading that agree, and the window it saw is then the last one presented before it.
- `ReceiverInv` and `ThreadsInv`: where each sample is between tracker, queue and file, and who may
  still write. The gaze thread keeps its files until the receiver has stopped, which is what
  `MovedIsQuiet` rests on.
- `DurationInv` and `EligibleInv`: an interval that is counted has two samples, its ends, both labelled
  under one window and neighbours in time. Its parts follow the accumulator
  through a reset and a late sample.
- `CheckInv`: before the decision no quality exists, and after it only the areas that the check
  of this attempt measured are left, whichever attempt came before.

### The drive

`DriveProofs`: `DriveStaysAccounted` with its four parts, and `VehicleIsNeverLeftDriving`, the
safety half of `OwnedVehicle`, for every set of configurations that `Valid` admits.
The models of the clean-up are nested `finally` blocks that are always left forwards, so `OwnInv`
can say by place what may still be held; a place is reached by an error from many calls, and the
invariant is that each of them is behind the opening of what the block gives back. `LogInv`
keeps the order of the stamps: what waits in the queue is not older than the clock's latest, unless a
write has failed, and the shutdown's stamp, which is taken long before its rows are written, is not older
than any event flushed in between. `ErrInv` and `RunInv` say which errors a place has behind it, so that
a drive that ends without one had none. `StageInv` says by place which of five stories the rows
tell so far (no attempt, an attempt, driving, driven, a hazard under its own label), as long as
no row was lost, and `StageKeeps` that each step tells at most one row and that the story
allows it; the counts of `StageRowsTell` follow from the stories.

### Control

`ControlProofs`: `OneCommanderHolds` and the refinement `OrderIsKept` of `LaneChangeOrder`. A
call may be done, refused, or done and reported as failed, so that neither mode nor
registration alone says who drives. The invariant compares generations: each entry
and each release counts one further, a request remembers the one it was made under, and a lane change
in flight belongs to the generation that is running (`DriverInv`, `RequestInv`). A request of an
earlier activation can then be recognised but never be sent. `StartInv` and `ShutdownInv` say what an
initialisation that failed half-way and a shutdown have left.

### The parts

`PartsProofs` proves what the parts that share no state promise.

- `EffectsStayLawful`: a command that permits a strength expires with its input, also
  one that is held and may be delivered again (`CommandsInv`), and while evaluation runs it
  was enabled in its own context (`EvaluationInv`); softness over several
  steps needs that what two waits allow adds up (`GrowthAdds`).
- `ViewStaysTrue`: what each callback counted is what the window has taken over and
  what it has not, per camera and per replacement (`ReceiptsInv`, `CountsInv`, `WindowInv`),
  and the two diagnostics count the same iterations wherever one of them raises.
- `TraceStaysTrue`: the ring is the latest records, the collector remembers the latest
  rows it counted, both in order; the file holds these and, where a flush raised behind a write, one that
  was not counted and may be written again next to it (`FileInv`). A COMPLETE coverage then has no gap because remembering as
  many rows as the ring holds is enough (`KnownIsWritten`, a counting argument: a record that
  is in the ring and forgotten would have a whole ring of later ones behind it).
- `BackendStaysSound` with `HandsOverCleanly`, `EarnsItsEffort` and `CommandsItsEngagement`: an idle
  backend is as reset as one that never ran, the sum of speed errors grows only while the
  controller integrates, and what it aims at is the engagement's target (and its steering the wheel's of this frame
  or the lane law's) at each point
  between two frames, although the target is held by the session, entered by the backend
  and applied by the controller in different calls.
- `StartsAreKeptApart`: who owns which reservation, claim and directory, from the
  exclusive creation that gave it (`ReservationInv`, `OwnersInv`, `HoldersInv`); a start that
  died keeps its files. A start that reserved a name can be turned away from it, and its supervisor find
  another's session under it, only where a start was given that name by hand, which the command line
  does not prevent; the property says exactly that.
- `EveryPressIsCounted`: the events of a frame are folded three times, into what the key physically was,
  what the commands know and what the frame has heard. The lemmas follow the three folds
  together (`KnownKeysFollow`, `HeardFollows`) and relate each rise of the key to the one event that is heeded
  (`EventHeeded`), for frames of any length.
- `SamplesWhole` and the refinement `RawImplementsStream`: the reader either has what was
  acknowledged or one batch more, the batch that is being retried (`Held`, `Ahead`), and a retry is the
  same batch under the same name because nothing amends a sample of a scene that has failed. `TakenInv` has the polls in order,
  and complete while the scene is valid.

The last two are about folds of any length. The induction they need is not the library's, which
takes an operator for a parameter: a set of numbers that has zero and the successor of each of its members has them all
(`NumbersFollow`, from the least-number argument), and a step that is a function can be followed through any sequence
(`FoldExists`), so that a recursive function is what its recursion says.

The assumptions on constants that exist for the proofs keep the models' marks apart from what they mark: no participant
is called `"other"` (a name outside the pilot starts' pattern), no force context `"NONE"`, no time of the gaze clock is
`NoTime` and no duration `NoStart`, and no tablet item is `NoItem`. One is of substance: the answers
`Session` knows include the one the operator gives at the calibration boundary.

### Only model-checked

The liveness properties, since ENABLED is out of the prover's reach: `SupervisorFinishes`, `DriveEnds`,
`GuidanceEnds`, `WaitEnds`, `QuitReturns`, `InterruptedReturns`, and of `VehicleSpec` that a drive
gives its vehicle up in the end (its safety half is proved). Every
invariant that a run checks is stated by a theorem.

## 5. Findings

**Recovered gaze is never reduced** (`recovery_gaze`). `crash_recovery.py:201` asks for
`P8_COLLECTION_V1`; `services.py:249` writes `P8_COLLECTION_V2_QPC`. The copied pending
gaze of a stopped run is kept but not reduced, against `docs/P8_Log_Collection.md:68-69`.

Other disagreements with the documents or within the code that the models made visible, and that the
properties above are stated around:

- One failed development save is for ever: the exclusive open of `.session_manifest.tmp`
  (`services.py:205`) fails on what a failed save left, so the abort's final save fails
  too (`docs/P8_Full_Experiment_Integration.md:531-533`).
- `finalize` counts the collisions the clean-up hands back but decides `partial_data`
  without them (`operator_m2_hazard.py:647`, `docs/P8_P7_V5_Hazard_Status.md:84`).
- When the guidance appeared in MANUAL and NoA was activated under it, the NORESPONSE
  committed under NoA is overwritten by the first lateral movement
  (`exit_assistance_observation.py:243`, `docs/signal_confirmed_module_exit.md:75`).
- A consent outlives NoA: a pause requests MANUAL without telling the coordinator; when NoA
  is back in the next update, the consent stands (`exit_signal.py:58`,
  `docs/signal_confirmed_module_exit.md:31`).
- The operator's window closes on a `P8Error` of a key when the session was aborted by it, and
  drops the rest of a batch of events when one of them raises.
- A second pause of the tablet overwrites the remembered stage with PAUSED, so that
  resume restores PAUSED (`p6/tablet.py:137`); two touches of one trial that arrive together
  may both be answered as its first.
- A worker that dies between the final manifest and `finalize_collection` leaves a run whose
  ZIP has no reports in it (`crash_recovery.py:151-153` only exports).
- In a drive without an exit observer, a request of an earlier activation that is still there
  after a pause is never sent or completed, but new ones are rejected as ongoing until the next take-over
  or until it is found stale. Since the lamp's readback lags, a LEFT request may be sent
  while the driver has already asked for the RIGHT lamp (`research_lane_change.py:264`).
- An exit that is interrupted after it was presented is never resolved
  (`exit_assistance.py:510`), because the observer stops with it, so the hazard that waits
  for its resolution (`exit_before_hazard.py`) is withheld for the rest of the drive.
- `research_noa_log_setup.py` leaves both files of a log open when the first row fails;
  `P6Runtime.start` that fails after its server was opened leaves the server open, since
  `stop` does nothing before a start. After a write failure that was swallowed, direct writes overtake queued
  events, which the session clock then refuses (`NothingIsRefused` is stated without one).
- In the static drive, an abort row that raises in the `finally` clause skips the return of the
  actors (`ActorsAreReturned` is stated without it). A claim whose file was created but not
  filled is recorded as not claimed. A contact in the arming observation is ignored, and two
  kinds of contact in one observation leave no outcome.
- A registration claim is never removed: an untyped participant whose start died between
  claim and folder is never admitted again under that name.
- A wheel button held while the device is reopened gives a command; the notice page swallows
  releases, so that the press after it may be lost.
- The native trace's summary says COMPLETE before the stream is closed; a failing close
  is only told as the run's error. A row whose flush raises is in the file but not remembered
  (`native_tm_diagnostics_jsonl.py:82-93`, `native_tm_diagnostics.py:235-244`), so the final read may write it twice.
- An invalid exposure whose `display_candidate` row raises (`operator_m2_hazard.py:459`) leaves the state as it
  was, and `finalize` records it as EXPOSURE_CANDIDATE (`:634-640`) with the status FAILED.
- `--run-id` takes any name. A pilot start whose name was taken by hand between its reservation and its
  registration is turned away, and its supervisor then recovers what is under the name
  (`run_pilot_supervised.py:116-128`): the other session's manifest, which may be live, becomes ABORTED
  and its ZIP is published.
- A second attempt of a stage never tells an exit's outcome when the first left rows: both have the
  same name in the file, so that the result is INCOMPLETE or TECHNICAL_ERROR.
- A camera whose replacement cannot be spawned leaves its last image on the display; right after a replacement
  the remembered sensor is the new one while the image is the old one's.

## 6. Assumptions and what is not modelled

What the modules assume beyond the code: the Traffic Manager, the simulator, the tracker and the
force-feedback receiver are external and answer in every way their callers handle. A step of a
request that reads and changes the tablet's state is one step (the interpreter's lock makes it
so only per statement); append, put and join are separate. The native ring is read oldest
record first. One callback at a time runs per camera. Actors left by a process that died are
part of the road for the next. In `FfbSafety` the dispatcher cannot produce an invalid
target, request or deadline, so the refusals of those are not reached. In the gaze check the
phases of an error are one, `failed`; an unsubscribe may raise past the wait. `exit` shows that
an opportunity moves from not presented to presented to resolved, which `HazardScene` takes as given.

Not modelled, and why:

- The floating-point laws: lateral control, lane geometry, path projection, time to
  collision and minimum distance. Their results are choices.
- Map generation, vehicle routes and lane graphs: offline text, or queries of the simulator's
  map whose answers are choices here.
- Drawing, HUD, mirrors, audio: output on which no property depends.
- The statistics of the collection reports and the readiness reports: reductions of finished files.
- The older confirm/reject policy of the exit (`exit_assistance.py:305-425`) and the P5 and
  automatic-exit requests, which no production configuration builds; `dry.execute` of p7.
- `set_external_availability` and other code that only tests call.
- SDL, the Tobii protocol, the TCP table of the operating system, hashing and the native patches.

What would come next: the older exit policy; the inner
development adapters of `components.py`. Liveness and ENABLED stay with TLC.
