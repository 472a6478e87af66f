-------------------------- MODULE SessionRecovery --------------------------
(***************************************************************************)
(* A supervised run: the worker process that owns one operator session     *)
(* (module Session), which may die between any two of its steps, the       *)
(* supervisor that waits for it (tools/run_pilot_supervised.py), the       *)
(* recovery of what it left (src/p8/crash_recovery.py), the ZIP export     *)
(* (src/p8/operator_results.py) and the operator's later retry of it       *)
(* (tools/recover_pilot.py).  Only the files survive the worker.           *)
(***************************************************************************)
EXTENDS Session

CONSTANTS
  CollectionVersions, \* what the run's manifest may carry: manifest_base of
                      \* services.py writes P8_COLLECTION_V2_QPC, a stopped
                      \* run of an older build has P8_COLLECTION_V1
  MaxRetries          \* bound on the operator's retries

ASSUME RecoveryAssumption ==
  /\ CollectionVersions \subseteq {"P8_COLLECTION_V1", "P8_COLLECTION_V2_QPC"}
  /\ Provenance = "ACTUAL_BOUNDED_OPERATOR"
  /\ MaxRetries \in Nat

VARIABLES
  collection_version,  \* of the build that runs
  worker,    \* "running", or how the process ended: "exited" with a code the
             \* command line returns, or "killed"
  task,      \* the point recovery has reached
  copied,    \* session_manifest.before_recovery.json: "none", "torn", "whole"
  backup,    \* its content
  report,    \* crash_recovery/report.json exists
  reduced,   \* the reports of collection/ were built, pending gaze included
  archive,   \* the published ZIP, NoArchive when there is none
  notified,  \* the operator was shown a notice
  retries    \* retries so far

files == << copied, backup, report, reduced, archive >>
rvars == << vars, worker, task, files, notified, retries >>

NoArchive == [manifest |-> NoManifest, reduced |-> FALSE]

RecoveryInit ==
  /\ Init
  /\ collection_version \in CollectionVersions
  /\ worker = "running" /\ task = "watch"
  /\ copied = "none" /\ backup = NoManifest /\ report = FALSE
  /\ reduced = FALSE /\ archive = NoArchive
  /\ notified = FALSE /\ retries = 0

Final == disk.state \in Terminal

(***************************************************************************)
(* export_operator_results: publishes once, by a link that never replaces, *)
(* and only what a terminal manifest describes.                            *)
(***************************************************************************)
Package == [manifest |-> disk, reduced |-> reduced]
PublishAny ==  \* slip: whatever the directory holds is published
  \/ archive = NoArchive /\ archive' = Package /\ UNCHANGED faults
  \/ archive # NoArchive /\ UNCHANGED << archive, faults >>
Publish ==
  \/ Final /\ archive \in {NoArchive, Package}
     /\ archive' = Package /\ UNCHANGED faults
  \/ ~Final /\ UNCHANGED << archive, faults >>
  \/ archive \notin {NoArchive, Package} /\ UNCHANGED << archive, faults >>
  \/ Fault /\ UNCHANGED archive

\* finalize_collection: writes the reports or a failure status, never raises.
BuildReports == \/ reduced' = TRUE /\ UNCHANGED faults
                \/ Fault /\ UNCHANGED reduced

-----------------------------------------------------------------------------
(***************************************************************************)
(* The worker.                                                             *)
(***************************************************************************)
supervisor == << task, copied, backup, report, notified, retries >>

\* Any step of the session but the two that write outside of it.
SessionStep ==
  /\ Next /\ ~(pc = "reduce" /\ pc' = "export") /\ ~(pc = "export")
  /\ UNCHANGED << reduced, archive >>

\* The same two statements of _finalize, with what they write.
untouched == << mode, place, records, entry, work, components, verdict, ending,
                disks, interrupts >>
WorkerReduce == /\ pc = "reduce" /\ pc' = "export"
                /\ BuildReports /\ UNCHANGED << untouched, archive >>
WorkerExport == /\ pc = "export" /\ pc' = "closed"
                /\ logClosed /\ Publish
                /\ UNCHANGED << untouched, reduced >>

Work == /\ worker = "running"
        /\ SessionStep \/ WorkerReduce \/ WorkerExport
        /\ UNCHANGED << worker, supervisor >>

\* The session is over and the process returns; the session's caller aborts
\* one that is still open, so this is the only way out.
Exit == /\ worker = "running" /\ pc \in {"closed", "dead"}
        /\ worker' = "exited"
        /\ UNCHANGED << vars, supervisor, reduced, archive >>

\* A native fault or an uncaught exception: nothing after it runs.
Die == /\ worker = "running"
       /\ worker' = "killed"
       /\ UNCHANGED << vars, supervisor, reduced, archive >>

-----------------------------------------------------------------------------
(***************************************************************************)
(* supervise and recover_stopped_run.                                      *)
(***************************************************************************)
session == << mode, pc, place, records, entry, work, components, verdict,
              ending, tmp, interrupts >>

Enter(next) == task' = next /\ UNCHANGED notified
Finish == task' = "done" /\ notified' = TRUE

\* Any exception on the way ends in a notice, never in another attempt.
Raises == Fault /\ Finish

InspectNothing ==  \* slip: every killed worker's run is recovered
  /\ task = "watch" /\ worker # "running" /\ Enter("backup")
  /\ UNCHANGED << session, disk, faults, files, worker, retries >>

\* worker.wait returned: the registration and the manifest are read.
Inspect ==
  /\ task = "watch" /\ worker # "running"
  /\ \/ Raises
     \/ ~Final /\ Enter("backup") /\ UNCHANGED faults
     \/ Final /\ archive = NoArchive /\ Enter("zip") /\ UNCHANGED faults
     \/ /\ Final /\ archive # NoArchive /\ UNCHANGED faults
        /\ task' = "done" /\ notified' = (worker = "killed")
  /\ UNCHANGED << session, disk, files, worker, retries >>

BackupOnce ==  \* slip: an existing copy is in the way
  /\ task = "backup" /\ copied = "none"
  /\ \/ copied' = "whole" /\ backup' = disk /\ Enter("copy") /\ UNCHANGED faults
     \/ Raises /\ copied' \in {"none", "torn"} /\ UNCHANGED backup
  /\ UNCHANGED << session, disk, report, reduced, archive, worker, retries >>
Backup ==
  /\ task = "backup"
  /\ \/ /\ disk = NoManifest \/ copied # "none"
        /\ Enter("copy") /\ UNCHANGED << copied, backup, faults >>
     \/ /\ disk # NoManifest /\ copied = "none"
        /\ \/ copied' = "whole" /\ backup' = disk /\ Enter("copy")
              /\ UNCHANGED faults
           \/ Raises /\ copied' \in {"none", "torn"} /\ UNCHANGED backup
  /\ UNCHANGED << session, disk, report, reduced, archive, worker, retries >>

\* The diagnostics and every pending gaze directory.
CopyEvidence ==
  /\ task = "copy"
  /\ (Enter("report") /\ UNCHANGED faults) \/ Raises
  /\ UNCHANGED << session, disk, files, worker, retries >>

WriteReport ==
  /\ task = "report"
  /\ \/ report' = TRUE /\ Enter("rewrite") /\ UNCHANGED faults
     \/ Raises /\ UNCHANGED report
  /\ UNCHANGED << session, disk, copied, backup, reduced, archive, worker, retries >>

RecoveredAs(m, stage_) ==
  [m EXCEPT !.state = "ABORTED", !.status = "ABORTED", !.cleaned = FALSE,
            !.stages = [i \in 1..Len(m.stages) |->
               IF m.stages[i].status = "RUNNING"
               THEN [m.stages[i] EXCEPT !.status = stage_] ELSE m.stages[i]]]

\* A running stage is marked ABORTED, and still has no end.
Recovered(m) == RecoveredAs(m, "ABORTED")

Rewrite ==
  /\ task = "rewrite"
  /\ \/ /\ disk' = Recovered(disk) /\ UNCHANGED faults
        /\ Enter(IF disk # NoManifest /\ collection_version = "P8_COLLECTION_V1"
                 THEN "reduce" ELSE "zip")
     \/ Raises /\ UNCHANGED disk
  /\ UNCHANGED << session, files, worker, retries >>

ReduceRecovered ==
  /\ task = "reduce" /\ BuildReports /\ Enter("zip")
  /\ UNCHANGED << session, disk, copied, backup, report, archive, worker, retries >>

\* Both callers of the export show what came of it.
Zip ==
  /\ task = "zip" /\ Publish /\ Finish
  /\ UNCHANGED << session, disk, copied, backup, report, reduced, worker, retries >>

RetryAnything ==  \* slip: no report is asked for
  /\ task = "done" /\ retries < MaxRetries /\ retries' = retries + 1
  /\ Enter(IF Final THEN "zip" ELSE "backup")
  /\ UNCHANGED << session, disk, faults, files, worker >>

\* recover_pilot --retry-export, which insists on a manifest and a report.
Retry ==
  /\ task = "done" /\ report /\ disk # NoManifest
  /\ retries < MaxRetries /\ retries' = retries + 1
  /\ Enter(IF Final THEN "zip" ELSE "backup")
  /\ UNCHANGED << session, disk, faults, files, worker >>

Recover == \/ Inspect \/ Backup \/ CopyEvidence \/ WriteReport \/ Rewrite
           \/ ReduceRecovered \/ Zip

RecoveryNext == /\ Work \/ Exit \/ Die \/ Recover \/ Retry
                /\ UNCHANGED collection_version

\* The supervisor's process runs on; the worker promises nothing.
RecoverySpec == RecoveryInit /\ [][RecoveryNext]_<<rvars, collection_version>> /\ WF_rvars(Recover)

-----------------------------------------------------------------------------
(***************************************************************************)
(* Properties.                                                             *)
(***************************************************************************)

\* Recovery claims nothing the session did not do: whatever the manifest or
\* the ZIP calls completed, the worker had completed under its contract
\* ("No missing time, hazard outcome, completed M2 or simulator cleanup is
\* invented", docs/P8_RPC_Recovery_20261019.md).
RecoveryInventsNothing ==
  \A m \in {disk, archive.manifest} : \A i \in 1..Len(m.stages) :
    /\ m.stages[i].stage = records[i].stage
    /\ m.stages[i].status = "DEV_COMPLETED" =>
         records[i].status = "DEV_COMPLETED" /\ records[i].backed

\* The manifest is rewritten only behind a whole copy of what the worker
\* left, even when an earlier attempt failed half-way and was retried.
EvidencePreserved ==
  [][ Rewrite /\ disk' # disk /\ disk # NoManifest
        => copied = "whole" /\ backup = disk ]_rvars

\* The ZIP shows the run as its directory does, decided: it is published
\* after the manifest's last rewrite, whoever publishes it.
ArchiveIsFinal ==
  archive # NoArchive => archive.manifest = disk /\ Final

\* If the supervisor ends without a word, the results are decided and saved.
QuietMeansSaved ==
  task = "done" /\ ~notified => Final /\ archive # NoArchive

\* The supervisor gets there, wherever the worker stopped.
SupervisorFinishes == worker # "running" ~> task = "done"

\* docs/P8_Log_Collection.md:68-69: after the process died, the supervisor
\* recovers from the saved records, and in runs of the new collection version
\* the copied pending gaze is reduced as partial records too.
RecoveredGazeIsReduced ==
  report /\ task = "done" /\ faults = 0 /\ backup # NoManifest => reduced

\* What the supervisor leaves is true: no stage completed that the session did not
\* complete, no archive of a manifest that has since changed, and silence only over a
\* final manifest with its archive.
RecoveryIsHonest == RecoveryInventsNothing /\ ArchiveIsFinal /\ QuietMeansSaved

-----------------------------------------------------------------------------
(***************************************************************************)
(* The inductive invariant behind these properties (SessionProofs).        *)
(***************************************************************************)

\* While the worker runs its session keeps its own invariants, nobody else has
\* begun, and an archive is the last thing it makes.
WorkerInv ==
  worker = "running" =>
    /\ SessionInv /\ SettledInv
    /\ task = "watch" /\ copied = "none" /\ ~report
    /\ archive # NoArchive => pc = "closed"

\* The manifest shows what the session recorded, before and after recovery.
ManifestInv ==
  /\ disk \in Manifest /\ records \in Seq(Record) /\ Len(disk.stages) <= Len(records)
  /\ \A i \in 1..Len(disk.stages) :
       /\ disk.stages[i].stage = records[i].stage
       /\ disk.stages[i].status = "DEV_COMPLETED" =>
            records[i].status = "DEV_COMPLETED" /\ records[i].backed
  /\ Final <=> disk.status \in Verdicts
  /\ ~Final => SavedStagesSettled /\ LedgerInv

\* Recovery works on a manifest that decides nothing, and has a whole copy of it
\* from the point where it goes on; a torn copy is never taken for one.
CopyInv ==
  /\ task \in {"backup", "copy", "report", "rewrite"} => ~Final
  /\ task \in {"copy", "report", "rewrite"} => disk = NoManifest \/ copied = "whole"
  /\ copied = "whole" /\ ~Final => backup = disk
  /\ copied = "torn" => task = "done" /\ ~report
  /\ report /\ ~Final => disk = NoManifest \/ copied = "whole"
  /\ copied \in {"none", "torn", "whole"}

RecoveryInv == WorkerInv /\ ManifestInv /\ CopyInv /\ ArchiveIsFinal /\ QuietMeansSaved
=============================================================================
