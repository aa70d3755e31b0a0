---------------------------- MODULE PatchCommits ----------------------------
(***************************************************************************)
(* The patch workflow on one package: plan, dry run, commit, verification  *)
(* and rollback.  The disk is written by processes of their own: the       *)
(* AssetPatch commandlet, which copies the package to the backup root and  *)
(* saves its change, and ue-agent patch rollback, which makes a safety     *)
(* copy and puts the backup in place.                                      *)
(*                                                                         *)
(* A script that exceeds its time limit is killed and so is the server, but*)
(* the process it started runs on.  The user works in an Editor of his own *)
(* and saves the package at any time.                                      *)
(***************************************************************************)
EXTENDS Naturals, FiniteSets

CONSTANTS
  Jobs,           \* processes that may run at the same time
  MaxContents,    \* bound: contents the package ever has
  MaxScripts,     \* bound: scripts that write, ever started
  MaxPatchFaults  \* bound: failures of a write, timeouts and restarts

ASSUME PatchAssumption ==
  MaxContents \in Nat \ {0} /\ MaxScripts \in Nat /\ MaxPatchFaults \in Nat

VARIABLES
  disk,      \* content of the package file, contents numbered as they appear
  indexed,   \* content the session's index and Revision Export describe
  backups,   \* contents in the backup root: raw backups and safety copies
  job,       \* the processes that write
  patch,     \* what the session holds of the patch
  editor,    \* the user's Editor and whether it has the package loaded
  spared,    \* history: contents no tool may lose
  patchLeft  \* steps still allowed by the bounds, contents used

patchVars == <<disk, indexed, backups, job, patch, editor, spared, patchLeft>>

Contents == 1..MaxContents
None == 0

NoJob == [kind |-> "none", step |-> "ended", attached |-> FALSE,
          before |-> None, after |-> None, copy |-> None]
\* plan and apply: what ue_plan_patch and ue_apply_patch leave in the session;
\* a plan's dry run and an apply's rollback dry run are receipts for one use.
NoPatch == [plan |-> None, dryRun |-> FALSE, manifest |-> FALSE,
            before |-> None, after |-> None, rolledBack |-> FALSE,
            rollbackDryRun |-> FALSE, stale |-> FALSE]
Committed(before, after) ==
  [plan |-> None, dryRun |-> FALSE, manifest |-> TRUE, before |-> before, after |-> after,
   rolledBack |-> FALSE, rollbackDryRun |-> FALSE, stale |-> TRUE]

JobStates == [kind : {"none", "commit", "rollback"},
              step : {"ended", "started", "checked", "copied", "written", "done"},
              attached : BOOLEAN, before : 0..MaxContents, after : 0..MaxContents,
              copy : 0..MaxContents]
PatchStates == [plan : 0..MaxContents, dryRun : BOOLEAN, manifest : BOOLEAN,
                before : 0..MaxContents, after : 0..MaxContents, rolledBack : BOOLEAN,
                rollbackDryRun : BOOLEAN, stale : BOOLEAN]

PatchTypeOK ==
  /\ disk \in Contents /\ indexed \in Contents
  /\ backups \subseteq Contents /\ spared \subseteq Contents
  /\ job \in [Jobs -> JobStates]
  /\ patch \in PatchStates
  /\ editor \in {"closed", "open", "loaded"}
  /\ patchLeft \in [contents : 0..MaxContents, scripts : 0..MaxScripts, faults : 0..MaxPatchFaults]
  /\ Cardinality({j \in Jobs : job[j].attached}) <= 1

\* The session's lock is held while it waits for a script.
NoServerCall == \A j \in Jobs : ~job[j].attached

\* Index, Revision Export and disk agree and no commit of the session is open.
AssetFresh == indexed = disk /\ ~patch.stale

NextContent == MaxContents - patchLeft.contents + 1

-----------------------------------------------------------------------------
(* The tools.  Policy, digests and paths never change here.                *)

PlanPatch ==
  /\ NoServerCall /\ AssetFresh
  /\ patch' = [NoPatch EXCEPT !.plan = disk]
  /\ UNCHANGED <<disk, indexed, backups, job, editor, spared, patchLeft>>

\* The commandlet checks the revision, applies, and leaves without saving.
DryRunPatch ==
  /\ NoServerCall /\ patch.plan # None /\ AssetFresh /\ disk = patch.plan
  /\ patch' = [patch EXCEPT !.dryRun = TRUE]
  /\ UNCHANGED <<disk, indexed, backups, job, editor, spared, patchLeft>>

StartJob(kind, before, after) ==
  /\ patchLeft.scripts > 0
  /\ \E j \in Jobs :
       /\ job[j].step = "ended"
       /\ job' = [job EXCEPT ![j] = [kind |-> kind, step |-> "started", attached |-> TRUE,
                                     before |-> before, after |-> after, copy |-> None]]
  /\ patchLeft' = [patchLeft EXCEPT !.scripts = @ - 1]

\* No check of the Editor: the commandlet runs whether the package is open or not.
ApplyPatch ==
  /\ NoServerCall /\ patch.plan # None /\ patch.dryRun /\ AssetFresh /\ ~patch.manifest
  /\ StartJob("commit", patch.plan, None)
  /\ UNCHANGED <<disk, indexed, backups, patch, editor, spared>>

\* The mistake of not comparing the package with the commit's result.
StillCommitted_Always(after) == TRUE

StillCommitted(after) == disk = after

RollbackValid(before, after) == StillCommitted(after) /\ before \in backups

RollbackDryRun ==
  /\ NoServerCall /\ patch.before # None /\ ~patch.rolledBack
  /\ RollbackValid(patch.before, patch.after)
  /\ patch' = [patch EXCEPT !.rollbackDryRun = TRUE]
  /\ UNCHANGED <<disk, indexed, backups, job, editor, spared, patchLeft>>

\* The bridge: no Editor, or an Editor without the target.
TargetUnloaded == editor # "loaded"

\* The script looks for processes on the project only if the bridge found no Editor.
ProjectClosed == \A j \in Jobs : job[j].kind # "commit" \/ job[j].step = "ended"

RollbackCommit ==
  /\ NoServerCall /\ patch.before # None /\ ~patch.rolledBack /\ patch.rollbackDryRun
  /\ TargetUnloaded /\ (editor = "closed" => ProjectClosed)
  /\ StartJob("rollback", patch.before, patch.after)
  /\ UNCHANGED <<disk, indexed, backups, patch, editor, spared>>

-----------------------------------------------------------------------------
(* The processes.                                                          *)

At(j, kind, step) == job[j].kind = kind /\ job[j].step = step

Steps(j, step) == job' = [job EXCEPT ![j].step = step]

Ends(j) == job' = [job EXCEPT ![j] = NoJob]

\* The commandlet loads the package, which must have the planned revision.
CheckCommit(j) ==
  /\ At(j, "commit", "started")
  /\ IF disk = job[j].before THEN Steps(j, "checked") ELSE Ends(j)
  /\ UNCHANGED <<disk, indexed, backups, patch, editor, spared, patchLeft>>

CheckRollback(j) ==
  /\ At(j, "rollback", "started")
  /\ IF RollbackValid(job[j].before, job[j].after) THEN Steps(j, "checked") ELSE Ends(j)
  /\ UNCHANGED <<disk, indexed, backups, patch, editor, spared, patchLeft>>

CopyJob(j) ==
  job' = [job EXCEPT ![j] =
    IF @.kind = "rollback" /\ ~StillCommitted(@.after) THEN NoJob
    ELSE [@ EXCEPT !.step = "copied", !.copy = disk]]

\* The mistake of one backup file for every commit of a plan, written last.
Copy_Single(j) ==
  /\ job[j].step = "checked" /\ CopyJob(j)
  /\ backups' = {disk}
  /\ UNCHANGED <<disk, indexed, patch, editor, spared, patchLeft>>

\* Raw backup or safety copy, each under a name of its own.  The rollback compares
\* its copy with what it expects; the commit's manifest does that after the save.
Copy(j) ==
  /\ job[j].step = "checked" /\ CopyJob(j)
  /\ backups' = backups \cup {disk}
  /\ UNCHANGED <<disk, indexed, patch, editor, spared, patchLeft>>

\* What the process had copied is put back over whatever is there now.
PutBack(j) ==
  /\ patchLeft.faults > 0
  /\ disk' = job[j].copy
  /\ Ends(j)
  /\ patchLeft' = [patchLeft EXCEPT !.faults = @ - 1]
  /\ UNCHANGED <<indexed, backups, patch, editor, spared>>

SavePatched(j) ==
  /\ At(j, "commit", "copied") /\ patchLeft.contents > 0
  /\ disk' = NextContent /\ Steps(j, "written")
  /\ patchLeft' = [patchLeft EXCEPT !.contents = @ - 1]
  /\ UNCHANGED <<indexed, backups, patch, editor, spared>>

\* The save fails, or after it the report.
CommitFails(j) ==
  /\ At(j, "commit", "copied") \/ At(j, "commit", "written")
  /\ PutBack(j)

\* The report names whatever the package has become as the commit's result.
ReportCommit(j) ==
  /\ At(j, "commit", "written")
  /\ job' = [job EXCEPT ![j] = IF @.attached THEN [@ EXCEPT !.step = "done", !.after = disk] ELSE NoJob]
  /\ UNCHANGED <<disk, indexed, backups, patch, editor, spared, patchLeft>>

ReplacePackage(j) ==
  /\ At(j, "rollback", "copied")
  /\ disk' = job[j].before /\ Steps(j, "written")
  /\ UNCHANGED <<indexed, backups, patch, editor, spared, patchLeft>>

\* A package that is not what was just put there counts as a failed rollback, as
\* does a receipt that cannot be written.
RollbackFails(j) == At(j, "rollback", "written") /\ PutBack(j)

CheckReplaced(j) ==
  /\ At(j, "rollback", "written")
  /\ IF disk = job[j].before
     THEN /\ IF job[j].attached THEN Steps(j, "done") ELSE Ends(j)
          /\ UNCHANGED disk
     ELSE disk' = job[j].copy /\ Ends(j)
  /\ UNCHANGED <<indexed, backups, patch, editor, spared, patchLeft>>

-----------------------------------------------------------------------------
(* The server takes the result.                                            *)

\* The raw backup must be of the planned revision, and the package must have changed.
ManifestMade(j) == job[j].copy = job[j].before /\ job[j].after # job[j].before

RecordCommit(j) ==
  /\ At(j, "commit", "done")
  /\ patch' = IF ManifestMade(j) THEN Committed(job[j].before, job[j].after) ELSE patch
  /\ Ends(j)
  /\ UNCHANGED <<disk, indexed, backups, editor, spared, patchLeft>>

\* An independent process must load what was restored.
ExportVerified(j) == disk = job[j].before

\* The stale mark goes if index, export and disk agree again.
StaleAfterRollback == indexed # disk

RecordRollback(j) ==
  /\ At(j, "rollback", "done")
  /\ patch' = IF ExportVerified(j)
              THEN [patch EXCEPT !.rolledBack = TRUE, !.rollbackDryRun = FALSE,
                                 !.stale = StaleAfterRollback]
              ELSE patch
  /\ Ends(j)
  /\ UNCHANGED <<disk, indexed, backups, editor, spared, patchLeft>>

\* subprocess.run kills the script, perhaps after it made the manifest; the process
\* below it runs on.
Timeout(j) ==
  /\ job[j].attached /\ patchLeft.faults > 0
  /\ job' = [job EXCEPT ![j] = IF @.step = "done" THEN NoJob ELSE [@ EXCEPT !.attached = FALSE]]
  /\ patch' = [patch EXCEPT !.manifest = @ \/ (At(j, "commit", "done") /\ ManifestMade(j))]
  /\ patchLeft' = [patchLeft EXCEPT !.faults = @ - 1]
  /\ UNCHANGED <<disk, indexed, backups, editor, spared>>

\* Plans and receipts live in memory.  The server that starts next may find the
\* index rebuilt.
Restart ==
  /\ patchLeft.faults > 0
  /\ patch' = NoPatch
  /\ job' = [j \in Jobs |-> IF job[j].step = "done" THEN NoJob ELSE [job[j] EXCEPT !.attached = FALSE]]
  /\ indexed' \in {indexed, disk}
  /\ patchLeft' = [patchLeft EXCEPT !.faults = @ - 1]
  /\ UNCHANGED <<disk, backups, editor, spared>>

-----------------------------------------------------------------------------
(* The user.                                                               *)

\* A process that has made its copy may still write.
AtWork(j) == job[j].step \in {"copied", "written"}

\* What the user replaces himself, and what he saves while a process is at work, is
\* not for the tools to keep.
UserSaves ==
  /\ editor = "loaded" /\ patchLeft.contents > 0
  /\ disk' = NextContent
  /\ spared' = (spared \ {disk}) \cup IF \E j \in Jobs : AtWork(j) THEN {} ELSE {NextContent}
  /\ patchLeft' = [patchLeft EXCEPT !.contents = @ - 1]
  /\ UNCHANGED <<indexed, backups, job, patch, editor>>

EditorMoves ==
  /\ editor' \in {"closed", "open", "loaded"} \ {editor}
  /\ UNCHANGED <<disk, indexed, backups, job, patch, spared, patchLeft>>

-----------------------------------------------------------------------------
PatchInit ==
  /\ disk = 1 /\ indexed = 1 /\ backups = {}
  /\ job = [j \in Jobs |-> NoJob]
  /\ patch = NoPatch
  /\ editor = "closed"
  /\ spared = {1}
  /\ patchLeft = [contents |-> MaxContents - 1, scripts |-> MaxScripts, faults |-> MaxPatchFaults]

PatchTools ==
  PlanPatch \/ DryRunPatch \/ ApplyPatch \/ RollbackDryRun \/ RollbackCommit \/ Restart

PatchProcess(j) ==
  \/ CheckCommit(j) \/ CheckRollback(j) \/ Copy(j) \/ SavePatched(j) \/ CommitFails(j) \/ ReportCommit(j)
  \/ ReplacePackage(j) \/ RollbackFails(j) \/ CheckReplaced(j)
  \/ RecordCommit(j) \/ RecordRollback(j) \/ Timeout(j)

PatchNext ==
  \/ PatchTools \/ UserSaves \/ EditorMoves
  \/ \E j \in Jobs : PatchProcess(j)

PatchSpec == PatchInit /\ [][PatchNext]_patchVars

-----------------------------------------------------------------------------
\* Whatever the user saved while no process was between its copy and its end is on
\* disk or in a backup until he replaces it himself: through failed saves, timeouts,
\* commandlets that finish late, retries and restarts of the server.
UserSavesKept == spared \subseteq {disk} \cup backups

\* A rollback takes away the commit and never something the user saved since.
RollbackTakesOnlyTheCommit ==
  [][\A j \in Jobs : ReplacePackage(j) /\ disk > job[j].before => disk \notin spared]_patchVars
=============================================================================
