--------------------------- MODULE CommitProofs ---------------------------
(***************************************************************************)
(* Proofs about the tools that write packages and source control: what     *)
(* PatchCommits and SourceControl keep safe, for every number of           *)
(* processes, files, changelists and faults.                               *)
(***************************************************************************)
EXTENDS PatchCommits, SourceControl, FiniteSetTheorems, TLAPS

(***************************************************************************)
(* Patch commits.                                                          *)
(***************************************************************************)

\* Contents are numbered as they appear.
Used == MaxContents - patchLeft.contents

\* The scripts the server waits for: at most one.
OneCall == \A i, j \in Jobs : job[i].attached /\ job[j].attached => i = j

\* Only what has appeared is anywhere.
PatchUsed(p) == p.plan <= Used /\ p.before <= Used /\ p.after <= Used
JobUsed(r) == r.before <= Used /\ r.after <= Used /\ r.copy <= Used
ContentsAreUsed == disk <= Used /\ PatchUsed(patch) /\ \A j \in Jobs : JobUsed(job[j])

\* While a process may still write, everything spared is in a backup and not newer than
\* what the process copied: putting the copy back loses nothing.
CopiesCoverSaves ==
  \A j \in Jobs : AtWork(j) =>
    /\ job[j].copy \in Contents
    /\ spared \subseteq backups /\ \A x \in spared : x <= job[j].copy
    /\ job[j].kind = "rollback" => job[j].copy = job[j].after

\* Nothing spared appeared between what a commit replaced and its result.
NothingSparedBetween(before, after) == \A x \in spared : x <= before \/ x > after
CommitsSpareSaves ==
  /\ patch.before # None => NothingSparedBetween(patch.before, patch.after)
  /\ \A j \in Jobs :
       /\ job[j].kind = "rollback" => job[j].before # None /\ NothingSparedBetween(job[j].before, job[j].after)
       /\ At(j, "commit", "done") /\ ManifestMade(j) => NothingSparedBetween(job[j].before, job[j].after)
       /\ job[j].kind = "commit" => job[j].before # None

PatchInv ==
  /\ PatchTypeOK
  /\ OneCall
  /\ ContentsAreUsed
  /\ \A x \in spared : x <= disk
  /\ CopiesCoverSaves
  /\ CommitsSpareSaves
  /\ UserSavesKept

\* The parts of a process and of a patch have their types.
LEMMA PatchParts ==
  /\ NoJob \in JobStates /\ NoPatch \in PatchStates
  /\ \A before, after \in Contents : Committed(before, after) \in PatchStates
  <1>1. Contents \subseteq 0..MaxContents /\ None \in 0..MaxContents
    BY PatchAssumption DEF Contents, None
  <1>2. NoJob \in JobStates
    BY <1>1 DEF NoJob, JobStates
  <1>3. NoPatch \in PatchStates
    BY <1>1 DEF NoPatch, PatchStates
  <1>4. \A before, after \in Contents : Committed(before, after) \in PatchStates
    BY <1>1 DEF Committed, PatchStates
  <1> QED
    BY <1>2, <1>3, <1>4

\* The bounds count down.
LEMMA PatchBounds ==
  ASSUME PatchInv
  PROVE  /\ MaxContents \in Nat /\ Used \in Nat /\ NextContent = Used + 1 /\ disk \in 1..MaxContents
         /\ patchLeft \in [contents : 0..MaxContents, scripts : 0..MaxScripts, faults : 0..MaxPatchFaults]
         /\ patchLeft.contents > 0 => NextContent \in Contents
  BY PatchAssumption DEF PatchInv, PatchTypeOK, Used, NextContent, Contents

\* At most one script is waited for.
LEMMA OneCallIsOne ==
  ASSUME NEW processes, \A i, j \in Jobs : processes[i].attached /\ processes[j].attached => i = j
  PROVE  Cardinality({j \in Jobs : processes[j].attached}) <= 1
  <1>1. PICK waited : waited = {j \in Jobs : processes[j].attached}
    OBVIOUS
  <1>2. CASE waited = {}
    BY <1>1, <1>2, FS_EmptySet
  <1>3. CASE waited # {}
    <2>1. PICK j : j \in waited
      BY <1>3
    <2>2. waited = {j}
      BY <1>1, <2>1
    <2>3. Cardinality(waited) = 1
      BY <2>2, FS_Singleton
    <2> QED
      BY <1>1, <2>3
  <1> QED
    BY <1>2, <1>3

\* A step of the server's tools or of one process that leaves the disk and what is spared.
LEMMA JobGoesOn ==
  ASSUME PatchInv, UNCHANGED <<disk, editor, spared>>, backups \subseteq backups', backups' \subseteq Contents,
         indexed' \in Contents, job' \in [Jobs -> JobStates], patch' \in PatchStates, OneCall',
         patchLeft' \in [contents : 0..MaxContents, scripts : 0..MaxScripts, faults : 0..MaxPatchFaults],
         patchLeft'.contents = patchLeft.contents, PatchUsed(patch'),
         \A j \in Jobs : JobUsed(job'[j]),
         CopiesCoverSaves', CommitsSpareSaves'
  PROVE  PatchInv'
  <1>1. Used' = Used
    BY DEF Used
  <1>2. PatchTypeOK'
    <2>1. Cardinality({j \in Jobs : job'[j].attached}) <= 1
      BY OneCallIsOne DEF OneCall
    <2> QED
      BY <2>1 DEF PatchInv, PatchTypeOK
  <1>3. ContentsAreUsed'
    BY <1>1 DEF PatchInv, ContentsAreUsed, PatchUsed, JobUsed
  <1>4. UserSavesKept' /\ \A x \in spared' : x <= disk'
    BY DEF PatchInv, UserSavesKept
  <1> QED
    BY <1>2, <1>3, <1>4 DEF PatchInv

\* Plans, receipts and the user's Editor: no process moves.
LEMMA ReceiptsKeepInv ==
  ASSUME PatchInv, PlanPatch \/ DryRunPatch \/ RollbackDryRun \/ EditorMoves
  PROVE  PatchInv'
  <1>1. UNCHANGED <<disk, indexed, backups, job, spared, patchLeft>>
    BY DEF PlanPatch, DryRunPatch, RollbackDryRun, EditorMoves
  <1>2. /\ patch' \in PatchStates /\ patch'.plan \in {disk, patch.plan}
        /\ \/ patch'.before = None /\ patch'.after = None
           \/ patch'.before = patch.before /\ patch'.after = patch.after
    <2>1. CASE PlanPatch
      <3>1. disk \in 0..MaxContents
        BY PatchBounds
      <3>2. patch' = [NoPatch EXCEPT !.plan = disk]
        BY <2>1 DEF PlanPatch
      <3>3. NoPatch.before = None /\ NoPatch.after = None
        BY DEF NoPatch
      <3> QED
        BY <3>1, <3>2, <3>3, PatchParts DEF PatchStates
    <2>2. CASE DryRunPatch \/ RollbackDryRun \/ EditorMoves
      BY <2>2 DEF DryRunPatch, RollbackDryRun, EditorMoves, PatchInv, PatchTypeOK, PatchStates
    <2> QED
      BY <2>1, <2>2
  <1>3. editor' \in {"closed", "open", "loaded"}
    BY DEF PlanPatch, DryRunPatch, RollbackDryRun, EditorMoves, PatchInv, PatchTypeOK
  <1>4. Used' = Used /\ Used \in Nat
    BY <1>1, PatchBounds DEF Used
  <1>5. PatchTypeOK'
    BY <1>1, <1>2, <1>3 DEF PatchInv, PatchTypeOK
  <1>6. OneCall' /\ ContentsAreUsed' /\ CopiesCoverSaves' /\ UserSavesKept'
    <2>1. PatchUsed(patch')
      BY <1>2, <1>4 DEF PatchInv, ContentsAreUsed, PatchUsed, None
    <2> QED
      BY <1>1, <1>4, <2>1 DEF PatchInv, OneCall, ContentsAreUsed, PatchUsed, JobUsed, CopiesCoverSaves, AtWork, UserSavesKept
  <1>7. CommitsSpareSaves'
    BY <1>1, <1>2 DEF PatchInv, CommitsSpareSaves, NothingSparedBetween, At, ManifestMade
  <1> QED
    BY <1>1, <1>5, <1>6, <1>7 DEF PatchInv

\* A process starts.
LEMMA StartsKeepInv ==
  ASSUME PatchInv, ApplyPatch \/ RollbackCommit
  PROVE  PatchInv'
  <1>1. PICK kind \in {"commit", "rollback"}, before \in 0..MaxContents, after \in 0..MaxContents :
          /\ StartJob(kind, before, after) /\ before # None /\ before <= Used /\ after <= Used
          /\ kind = "rollback" => NothingSparedBetween(before, after)
    <2>1. patch \in PatchStates
      BY DEF PatchInv, PatchTypeOK
    <2>2. CASE ApplyPatch
      BY <2>1, <2>2, PatchBounds DEF ApplyPatch, PatchStates, None, PatchInv, ContentsAreUsed, PatchUsed
    <2>3. CASE RollbackCommit
      BY <2>1, <2>3 DEF RollbackCommit, PatchStates, PatchInv, CommitsSpareSaves, ContentsAreUsed, PatchUsed
    <2> QED
      BY <2>2, <2>3
  <1>2. PICK new : new = [kind |-> kind, step |-> "started", attached |-> TRUE,
                          before |-> before, after |-> after, copy |-> None]
    OBVIOUS
  <1>3. /\ new \in JobStates /\ new.kind = kind /\ new.step = "started" /\ new.attached
        /\ new.before = before /\ new.after = after /\ new.copy = None
    BY <1>2, PatchAssumption DEF JobStates, None
  <1>4. PICK j \in Jobs : job' = [job EXCEPT ![j] = new]
    BY <1>1, <1>2 DEF StartJob
  <1>5. NoServerCall /\ UNCHANGED <<disk, indexed, backups, patch, editor, spared>>
    BY DEF ApplyPatch, RollbackCommit
  <1>6. /\ job' \in [Jobs -> JobStates] /\ job'[j] = new
        /\ \A i \in Jobs : i # j => job'[i] = job[i]
    BY <1>3, <1>4 DEF PatchInv, PatchTypeOK
  <1>7. /\ patchLeft' \in [contents : 0..MaxContents, scripts : 0..MaxScripts, faults : 0..MaxPatchFaults]
        /\ patchLeft'.contents = patchLeft.contents
    BY <1>1, PatchBounds, PatchAssumption DEF StartJob
  <1>8. OneCall'
    BY <1>5, <1>6 DEF NoServerCall, OneCall
  <1>9. CopiesCoverSaves'
    BY <1>3, <1>5, <1>6 DEF PatchInv, CopiesCoverSaves, AtWork
  <1>10. CommitsSpareSaves'
    BY <1>1, <1>3, <1>5, <1>6 DEF PatchInv, CommitsSpareSaves, NothingSparedBetween, At, ManifestMade
  <1>11. \A i \in Jobs : JobUsed(job'[i])
    BY <1>1, <1>3, <1>6, PatchBounds DEF PatchInv, ContentsAreUsed, JobUsed, None
  <1> QED
    BY <1>5, <1>6, <1>7, <1>8, <1>9, <1>10, <1>11, JobGoesOn DEF PatchInv, PatchTypeOK, ContentsAreUsed

\* A process goes on from one step to the next: what it becomes, and what its step must
\* have seen to.
LEMMA ProcessGoesOn ==
  ASSUME PatchInv, NEW j \in Jobs, NEW new \in JobStates, job' = [job EXCEPT ![j] = new],
         UNCHANGED <<disk, editor, spared>>, backups \subseteq backups', backups' \subseteq Contents,
         indexed' \in Contents, patch' \in PatchStates,
         patchLeft' \in [contents : 0..MaxContents, scripts : 0..MaxScripts, faults : 0..MaxPatchFaults],
         patchLeft'.contents = patchLeft.contents, PatchUsed(patch'),
         patch'.before # None => NothingSparedBetween(patch'.before, patch'.after),
         new.attached => job[j].attached, JobUsed(new),
         new.kind = "rollback" => new.before # None /\ NothingSparedBetween(new.before, new.after),
         new.kind = "commit" => new.before # None,
         new.kind = "commit" /\ new.step = "done" /\ new.copy = new.before => NothingSparedBetween(new.before, new.after),
         new.step \in {"copied", "written"} =>
           /\ new.copy \in Contents
           /\ spared \subseteq backups' /\ \A x \in spared : x <= new.copy
           /\ new.kind = "rollback" => new.copy = new.after
  PROVE  PatchInv'
  <1>1. /\ job' \in [Jobs -> JobStates] /\ job'[j] = new
        /\ \A i \in Jobs : i # j => job'[i] = job[i]
    BY DEF PatchInv, PatchTypeOK
  <1>2. OneCall'
    BY <1>1 DEF PatchInv, OneCall
  <1>3. \A i \in Jobs : JobUsed(job'[i])
    BY <1>1 DEF PatchInv, ContentsAreUsed
  <1>4. CopiesCoverSaves'
    BY <1>1 DEF PatchInv, CopiesCoverSaves, AtWork
  <1>5. CommitsSpareSaves'
    BY <1>1 DEF PatchInv, CommitsSpareSaves, NothingSparedBetween, At, ManifestMade
  <1> QED
    BY <1>1, <1>2, <1>3, <1>4, <1>5, JobGoesOn

\* What holds of the process that moves, before it does.
LEMMA ProcessFacts ==
  ASSUME PatchInv, NEW j \in Jobs
  PROVE  /\ job[j] \in JobStates /\ JobUsed(job[j]) /\ patch \in PatchStates /\ PatchUsed(patch)
         /\ backups \subseteq Contents /\ indexed \in Contents /\ None \in 0..MaxContents /\ None <= Used
         /\ NoJob \in JobStates /\ NoJob.kind = "none" /\ NoJob.step = "ended" /\ ~NoJob.attached /\ JobUsed(NoJob)
         /\ patch.before # None => NothingSparedBetween(patch.before, patch.after)
         /\ job[j].kind = "rollback" => job[j].before # None /\ NothingSparedBetween(job[j].before, job[j].after)
         /\ job[j].kind = "commit" => job[j].before # None
         /\ job[j].kind = "commit" /\ job[j].step = "done" /\ ManifestMade(j)
              => NothingSparedBetween(job[j].before, job[j].after)
         /\ AtWork(j) => /\ job[j].copy \in Contents /\ spared \subseteq backups /\ \A x \in spared : x <= job[j].copy
                         /\ job[j].kind = "rollback" => job[j].copy = job[j].after
  <1>1. None \in 0..MaxContents /\ None <= Used
    BY PatchBounds, PatchAssumption DEF None
  <1>2. NoJob \in JobStates /\ NoJob.kind = "none" /\ NoJob.step = "ended" /\ ~NoJob.attached /\ JobUsed(NoJob)
    BY <1>1, PatchParts DEF NoJob, JobUsed
  <1>3. job[j] \in JobStates /\ JobUsed(job[j]) /\ patch \in PatchStates /\ PatchUsed(patch)
    BY DEF PatchInv, PatchTypeOK, ContentsAreUsed
  <1>4. backups \subseteq Contents /\ indexed \in Contents
    BY DEF PatchInv, PatchTypeOK
  <1>5. AtWork(j) => /\ job[j].copy \in Contents /\ spared \subseteq backups /\ \A x \in spared : x <= job[j].copy
                     /\ job[j].kind = "rollback" => job[j].copy = job[j].after
    BY DEF PatchInv, CopiesCoverSaves
  <1> QED
    BY <1>1, <1>2, <1>3, <1>4, <1>5 DEF PatchInv, CommitsSpareSaves, At, ManifestMade

\* The checks before the copy, and the copy itself: from it on the copy covers what is spared.
LEMMA ChecksKeepInv ==
  ASSUME PatchInv, NEW j \in Jobs, CheckCommit(j) \/ CheckRollback(j) \/ Copy(j)
  PROVE  PatchInv'
  <1> USE ProcessFacts
  <1>1. UNCHANGED <<disk, indexed, patch, editor, spared, patchLeft>>
    BY DEF CheckCommit, CheckRollback, Copy
  <1>2. CASE CheckCommit(j) \/ CheckRollback(j)
    <2>1. PICK new \in JobStates :
            /\ job' = [job EXCEPT ![j] = new]
            /\ new.step \notin {"copied", "written", "done"} /\ (new.attached => job[j].attached)
            /\ JobUsed(new) /\ new.kind \in {"none", job[j].kind}
            /\ new.kind # "none" => new.before = job[j].before /\ new.after = job[j].after
      <3>1. CASE Ends(j)
        BY <3>1 DEF Ends
      <3>2. CASE Steps(j, "checked")
        <4>1. PICK new : new = [job[j] EXCEPT !.step = "checked"]
          OBVIOUS
        <4>2. /\ new \in JobStates /\ new.step = "checked" /\ new.attached = job[j].attached /\ new.after = job[j].after
              /\ new.kind = job[j].kind /\ new.before = job[j].before /\ new.copy = job[j].copy
          BY <4>1 DEF JobStates
        <4>3. job' = [job EXCEPT ![j] = new]
          BY <3>2, <4>1 DEF Steps, PatchInv, PatchTypeOK
        <4> QED
          BY <4>2, <4>3 DEF JobUsed
      <3> QED
        BY <1>2, <3>1, <3>2 DEF CheckCommit, CheckRollback
    <2>2. backups' = backups
      BY <1>2 DEF CheckCommit, CheckRollback
    <2> QED
      BY <1>1, <2>1, <2>2, PatchBounds, ProcessGoesOn
  <1>3. CASE Copy(j)
    <2>1. /\ backups' = backups \cup {disk} /\ disk \in Contents /\ spared \subseteq backups'
          /\ \A x \in spared : x <= disk
      BY <1>3 DEF Copy, PatchInv, PatchTypeOK, UserSavesKept
    <2>2. PICK new : new = IF job[j].kind = "rollback" /\ ~StillCommitted(job[j].after) THEN NoJob
                           ELSE [job[j] EXCEPT !.step = "copied", !.copy = disk]
      OBVIOUS
    <2>3. job' = [job EXCEPT ![j] = new]
      BY <1>3, <2>2 DEF Copy, CopyJob, PatchInv, PatchTypeOK
    <2>4. CASE new = NoJob
      BY <1>1, <2>1, <2>3, <2>4, PatchBounds, ProcessGoesOn
    <2>5. CASE new = [job[j] EXCEPT !.step = "copied", !.copy = disk] /\ (job[j].kind = "rollback" => disk = job[j].after)
      <3>1. PICK m : m = [job[j] EXCEPT !.step = "copied"]
        OBVIOUS
      <3>2. /\ m \in JobStates /\ m.step = "copied" /\ m.attached = job[j].attached /\ m.after = job[j].after
            /\ m.kind = job[j].kind /\ m.before = job[j].before
        BY <3>1 DEF JobStates
      <3>3. new = [m EXCEPT !.copy = disk] /\ disk \in 0..MaxContents
        BY <2>1, <2>5, <3>1, PatchBounds
      <3>4. /\ new \in JobStates /\ new.step = "copied" /\ new.attached = job[j].attached /\ new.after = job[j].after
            /\ new.kind = job[j].kind /\ new.before = job[j].before /\ new.copy = disk
        BY <3>2, <3>3 DEF JobStates
      <3>5. /\ new.copy \in Contents /\ spared \subseteq backups' /\ \A x \in spared : x <= new.copy
            /\ new.kind = "rollback" => new.copy = new.after
        BY <2>1, <2>5, <3>4
      <3>6. /\ new.kind = "rollback" => new.before # None /\ NothingSparedBetween(new.before, new.after)
            /\ new.kind = "commit" => new.before # None
            /\ new.step # "done" /\ JobUsed(new) /\ (new.attached => job[j].attached)
        BY <3>4 DEF JobUsed, PatchInv, ContentsAreUsed
      <3>7. /\ backups \subseteq backups' /\ backups' \subseteq Contents /\ indexed' \in Contents /\ patch' \in PatchStates
            /\ patchLeft' \in [contents : 0..MaxContents, scripts : 0..MaxScripts, faults : 0..MaxPatchFaults]
            /\ patchLeft'.contents = patchLeft.contents /\ PatchUsed(patch')
            /\ patch'.before # None => NothingSparedBetween(patch'.before, patch'.after)
        BY <1>1, <2>1, PatchBounds
      <3> HIDE ProcessFacts
      <3> QED
        BY <1>1, <2>3, <3>4, <3>5, <3>6, <3>7, ProcessGoesOn
    <2> QED
      BY <2>2, <2>4, <2>5 DEF StillCommitted
  <1> QED
    BY <1>2, <1>3

\* A process that has made its copy writes: a new content, what a commit replaced, or the
\* copy itself.  Whatever the disk held, what is spared is in a backup.
LEMMA WriteKeepsInv ==
  ASSUME PatchInv, NEW j \in Jobs, AtWork(j), NEW new \in JobStates, job' = [job EXCEPT ![j] = new],
         UNCHANGED <<indexed, backups, patch, editor, spared>>,
         patchLeft' \in [contents : 0..MaxContents, scripts : 0..MaxScripts, faults : 0..MaxPatchFaults],
         Used <= Used', disk' \in Contents, disk' <= Used', \A x \in spared : x <= disk',
         \/ new = NoJob
         \/ /\ new.kind = job[j].kind /\ new.step \in {"written", "done"} /\ new.attached = job[j].attached
            /\ new.before = job[j].before /\ new.copy = job[j].copy
            /\ new.after \in {job[j].after, disk'}
            /\ new.after # job[j].after => new.kind = "commit"
            /\ new.kind = "commit" /\ new.step = "done" =>
                 new.after = disk /\ disk' = disk
  PROVE  PatchInv'
  <1> USE ProcessFacts
  <1>1. /\ job' \in [Jobs -> JobStates] /\ job'[j] = new
        /\ \A i \in Jobs : i # j => job'[i] = job[i]
    BY DEF PatchInv, PatchTypeOK
  <1>2. OneCall'
    BY <1>1 DEF PatchInv, OneCall
  <1>3. PatchTypeOK'
    <2>1. Cardinality({i \in Jobs : job'[i].attached}) <= 1
      BY <1>2, OneCallIsOne DEF OneCall
    <2> QED
      BY <1>1, <2>1 DEF PatchInv, PatchTypeOK
  <1>4. Used \in Nat /\ Used' \in Nat /\ disk' \in Nat /\ Contents \subseteq Nat
    BY <1>3, PatchBounds, PatchAssumption DEF PatchTypeOK, Used, Contents
  <1>5. \A r \in JobStates : JobUsed(r) => r.before <= Used' /\ r.after <= Used' /\ r.copy <= Used'
    BY <1>4, PatchBounds DEF JobUsed, JobStates
  <1>6. ContentsAreUsed'
    <2>1. \A i \in Jobs : i # j => job[i] \in JobStates /\ JobUsed(job[i])
      BY DEF PatchInv, PatchTypeOK, ContentsAreUsed
    <2>2. new.before <= Used' /\ new.after <= Used' /\ new.copy <= Used'
      BY <1>5
    <2>3. \A i \in Jobs : job'[i].before <= Used' /\ job'[i].after <= Used' /\ job'[i].copy <= Used'
      BY <1>1, <1>5, <2>1, <2>2
    <2>4. patch.plan <= Used' /\ patch.before <= Used' /\ patch.after <= Used'
      BY <1>4, PatchBounds DEF PatchUsed, PatchStates
    <2> QED
      BY <2>3, <2>4 DEF ContentsAreUsed, PatchUsed, JobUsed
  <1>7. UserSavesKept'
    BY DEF UserSavesKept
  <1>8. CopiesCoverSaves'
    <2>1. AtWork(j)' => /\ new.copy \in Contents /\ \A x \in spared : x <= new.copy
                        /\ new.kind = "rollback" => new.copy = new.after
      BY <1>1 DEF AtWork
    <2> QED
      BY <1>1, <2>1 DEF PatchInv, CopiesCoverSaves, AtWork
  <1>9. CommitsSpareSaves'
    <2>1. ASSUME new.kind = "rollback"
          PROVE  new.before # None /\ NothingSparedBetween(new.before, new.after)
      BY <2>1
    <2>2. ASSUME new.kind = "commit"
          PROVE  new.before # None
      BY <2>2
    <2>3. ASSUME new.kind = "commit", new.step = "done", new.copy = new.before
          PROVE  NothingSparedBetween(new.before, new.after)
      BY <2>3 DEF NothingSparedBetween
    <2> QED
      BY <1>1, <2>1, <2>2, <2>3 DEF PatchInv, CommitsSpareSaves, NothingSparedBetween, At, ManifestMade
  <1> QED
    BY <1>2, <1>3, <1>6, <1>7, <1>8, <1>9 DEF PatchInv

\* A step of a process, all else but the disk unchanged.
LEMMA StepsTo ==
  ASSUME PatchInv, NEW j \in Jobs, NEW step \in {"written", "done"}, Steps(j, step)
  PROVE  \E new \in JobStates :
           /\ job' = [job EXCEPT ![j] = new]
           /\ new.kind = job[j].kind /\ new.step = step /\ new.attached = job[j].attached
           /\ new.before = job[j].before /\ new.copy = job[j].copy /\ new.after = job[j].after
  <1>1. job[j] \in JobStates /\ job \in [Jobs -> JobStates]
    BY DEF PatchInv, PatchTypeOK
  <1>2. PICK new : new = [job[j] EXCEPT !.step = step]
    OBVIOUS
  <1>3. /\ new \in JobStates
        /\ new.kind = job[j].kind /\ new.step = step /\ new.attached = job[j].attached
        /\ new.before = job[j].before /\ new.copy = job[j].copy /\ new.after = job[j].after
    BY <1>1, <1>2 DEF JobStates
  <1>4. job' = [job EXCEPT ![j] = new]
    BY <1>1, <1>2 DEF Steps
  <1> QED
    BY <1>3, <1>4

\* The save of a commit, the replacement by a rollback, and what goes wrong with them.
LEMMA WritesKeepInv ==
  ASSUME PatchInv, NEW j \in Jobs,
         SavePatched(j) \/ CommitFails(j) \/ ReplacePackage(j) \/ RollbackFails(j) \/ CheckReplaced(j)
  PROVE  PatchInv'
  <1> USE ProcessFacts
  <1>1. AtWork(j) /\ UNCHANGED <<indexed, backups, patch, editor, spared>>
    BY DEF SavePatched, CommitFails, ReplacePackage, RollbackFails, CheckReplaced, PutBack, At, AtWork
  <1>2. PatchTypeOK
    BY DEF PatchInv
  <1>3. CASE SavePatched(j)
    <2>1. PICK new \in JobStates :
            /\ job' = [job EXCEPT ![j] = new]
            /\ new.kind = job[j].kind /\ new.step = "written" /\ new.attached = job[j].attached
            /\ new.before = job[j].before /\ new.copy = job[j].copy /\ new.after = job[j].after
      BY <1>3, StepsTo DEF SavePatched
    <2>2. /\ patchLeft' \in [contents : 0..MaxContents, scripts : 0..MaxScripts, faults : 0..MaxPatchFaults]
          /\ Used' = Used + 1 /\ disk' = Used + 1 /\ disk' \in Contents
      BY <1>3, PatchBounds DEF SavePatched, Used
    <2>3. \A x \in spared : x <= disk'
      BY <2>2, PatchBounds DEF PatchInv, PatchTypeOK, ContentsAreUsed, Contents
    <2>4. Used <= Used' /\ disk' <= Used'
      BY <2>2, PatchBounds
    <2> HIDE ProcessFacts
    <2> QED
      BY <1>1, <2>1, <2>2, <2>3, <2>4, WriteKeepsInv
  <1>4. ASSUME disk' = job[j].copy, Ends(j), patchLeft'.contents = patchLeft.contents,
               patchLeft' \in [contents : 0..MaxContents, scripts : 0..MaxScripts, faults : 0..MaxPatchFaults]
        PROVE  PatchInv'
    <2>1. disk' \in Contents /\ (\A x \in spared : x <= disk') /\ disk' <= Used /\ Used' = Used
      BY <1>1, <1>4 DEF JobUsed, Used
    <2>2. job' = [job EXCEPT ![j] = NoJob] /\ Used <= Used' /\ disk' <= Used'
      BY <1>4, <2>1, PatchBounds DEF Ends
    <2> QED
      BY <1>1, <1>4, <2>1, <2>2, WriteKeepsInv
  <1>5. CASE CommitFails(j) \/ RollbackFails(j)
    <2>1. PutBack(j)
      BY <1>5 DEF CommitFails, RollbackFails
    <2>2. disk' = job[j].copy /\ Ends(j) /\ patchLeft.faults > 0 /\ patchLeft' = [patchLeft EXCEPT !.faults = @ - 1]
      BY <2>1 DEF PutBack
    <2> HIDE ProcessFacts
    <2>3. /\ patchLeft' \in [contents : 0..MaxContents, scripts : 0..MaxScripts, faults : 0..MaxPatchFaults]
          /\ patchLeft'.contents = patchLeft.contents
      BY <2>2, PatchBounds, PatchAssumption
    <2> QED
      BY <1>4, <2>2, <2>3
  <1>6. CASE ReplacePackage(j)
    <2>1. PICK new \in JobStates :
            /\ job' = [job EXCEPT ![j] = new]
            /\ new.kind = job[j].kind /\ new.step = "written" /\ new.attached = job[j].attached
            /\ new.before = job[j].before /\ new.copy = job[j].copy /\ new.after = job[j].after
      BY <1>6, StepsTo DEF ReplacePackage
    <2>2. /\ job[j].before # None /\ NothingSparedBetween(job[j].before, job[j].after)
          /\ \A x \in spared : x <= job[j].after
      BY <1>1, <1>6 DEF ReplacePackage, At
    <2>3. disk' = job[j].before /\ disk' \in Contents
      BY <1>6, <2>2, PatchBounds DEF ReplacePackage, JobStates, Contents, None
    <2>4. \A x \in spared : x <= disk'
      <3>1. \A x \in spared : x \in Nat
        BY <1>2, PatchAssumption DEF PatchTypeOK, Contents
      <3>2. job[j].before \in Nat /\ job[j].after \in Nat
        BY PatchBounds DEF JobStates
      <3> QED
        BY <2>2, <2>3, <3>1, <3>2 DEF NothingSparedBetween
    <2>5. patchLeft' = patchLeft /\ Used' = Used /\ disk' <= Used
      BY <1>6, <2>3 DEF ReplacePackage, Used, JobUsed
    <2>6. Used <= Used' /\ disk' <= Used'
      BY <2>5, PatchBounds
    <2> HIDE ProcessFacts
    <2> QED
      BY <1>1, <2>1, <2>3, <2>4, <2>5, <2>6, PatchBounds, WriteKeepsInv
  <1>7. CASE CheckReplaced(j)
    <2>1. patchLeft' = patchLeft
      BY <1>7 DEF CheckReplaced
    <2>2. CASE disk' = job[j].copy /\ Ends(j)
      BY <1>4, <2>1, <2>2, PatchBounds
    <2>3. CASE disk' = disk
      <3>1. PICK new \in JobStates :
              /\ job' = [job EXCEPT ![j] = new]
              /\ \/ new = NoJob
                 \/ /\ new.kind = job[j].kind /\ new.step = "done" /\ new.attached = job[j].attached
                    /\ new.before = job[j].before /\ new.copy = job[j].copy /\ new.after = job[j].after
        <4>1. CASE Steps(j, "done")
          BY <4>1, StepsTo
        <4>2. CASE Ends(j)
          BY <4>2 DEF Ends
        <4> QED
          BY <1>7, <4>1, <4>2 DEF CheckReplaced
      <3>2. job[j].kind = "rollback"
        BY <1>7 DEF CheckReplaced, At
      <3>3. Used' = Used /\ disk' \in Contents /\ disk' <= Used' /\ Used <= Used' /\ \A x \in spared : x <= disk'
        BY <1>2, <2>1, <2>3, PatchBounds DEF Used, PatchInv, ContentsAreUsed, PatchTypeOK
      <3>4. \/ new = NoJob
            \/ /\ new.kind = job[j].kind /\ new.step \in {"written", "done"} /\ new.attached = job[j].attached
               /\ new.before = job[j].before /\ new.copy = job[j].copy
               /\ new.after \in {job[j].after, disk'}
               /\ new.after # job[j].after => new.kind = "commit"
               /\ new.kind = "commit" /\ new.step = "done" =>
                    new.after = disk /\ disk' = disk
        BY <3>1, <3>2
      <3> HIDE ProcessFacts
      <3> QED
        BY <1>1, <2>1, <3>1, <3>3, <3>4, PatchBounds, WriteKeepsInv
    <2> QED
      BY <1>7, <2>2, <2>3 DEF CheckReplaced
  <1> QED
    BY <1>3, <1>5, <1>6, <1>7

\* The report of a commit: what the disk is then is the commit's result, and nothing spared
\* is newer than what the commit copied.
LEMMA ReportKeepsInv ==
  ASSUME PatchInv, NEW j \in Jobs, ReportCommit(j)
  PROVE  PatchInv'
  <1> USE ProcessFacts
  <1>1. /\ UNCHANGED <<disk, indexed, backups, patch, editor, spared, patchLeft>>
        /\ job[j].kind = "commit" /\ job[j].step = "written" /\ AtWork(j)
    BY DEF ReportCommit, At, AtWork
  <1>2. PICK m : m = [job[j] EXCEPT !.step = "done"]
    OBVIOUS
  <1>3. /\ m \in JobStates /\ m.step = "done" /\ m.attached = job[j].attached
        /\ m.kind = job[j].kind /\ m.before = job[j].before /\ m.copy = job[j].copy
    BY <1>2 DEF JobStates
  <1>4. PICK new : new = IF job[j].attached THEN [m EXCEPT !.after = disk] ELSE NoJob
    OBVIOUS
  <1>5. disk \in 0..MaxContents
    BY PatchBounds
  <1>6. job' = [job EXCEPT ![j] = new]
    BY <1>2, <1>4 DEF ReportCommit, PatchInv, PatchTypeOK
  <1>7. CASE new = NoJob
    BY <1>1, <1>6, <1>7, PatchBounds, ProcessGoesOn
  <1>8. CASE new = [m EXCEPT !.after = disk]
    <2>1. /\ new \in JobStates /\ new.kind = "commit" /\ new.step = "done" /\ new.attached = job[j].attached
          /\ new.before = job[j].before /\ new.copy = job[j].copy /\ new.after = disk
      BY <1>1, <1>3, <1>5, <1>8 DEF JobStates
    <2>2. disk' \in Contents /\ Used' = Used /\ disk' <= Used' /\ Used <= Used' /\ \A x \in spared : x <= disk'
      BY <1>1, PatchBounds DEF Used, PatchInv, ContentsAreUsed, PatchTypeOK
    <2>3. patchLeft' \in [contents : 0..MaxContents, scripts : 0..MaxScripts, faults : 0..MaxPatchFaults]
      BY <1>1, PatchBounds
    <2> HIDE ProcessFacts
    <2> QED
      BY <1>1, <1>6, <2>1, <2>2, <2>3, WriteKeepsInv
  <1> QED
    BY <1>4, <1>7, <1>8

\* The server takes a result: the manifest of a commit, the receipt of a rollback.
LEMMA RecordsKeepInv ==
  ASSUME PatchInv, NEW j \in Jobs, RecordCommit(j) \/ RecordRollback(j)
  PROVE  PatchInv'
  <1> USE ProcessFacts
  <1>1. /\ UNCHANGED <<disk, indexed, backups, editor, spared, patchLeft>>
        /\ job' = [job EXCEPT ![j] = NoJob]
    BY DEF RecordCommit, RecordRollback, Ends
  <1>2. /\ patch' \in PatchStates /\ PatchUsed(patch')
        /\ patch'.before # None => NothingSparedBetween(patch'.before, patch'.after)
    <2>1. CASE RecordCommit(j)
      <3>1. job[j].kind = "commit" /\ job[j].step = "done"
        BY <2>1 DEF RecordCommit, At
      <3>2. CASE ManifestMade(j) /\ patch' = Committed(job[j].before, job[j].after)
        <4>1. job[j].before \in 0..MaxContents /\ job[j].after \in 0..MaxContents
          BY DEF JobStates
        <4>2. patch' \in PatchStates
          BY <3>2, <4>1, PatchBounds DEF Committed, PatchStates, None
        <4>3. patch'.plan = None /\ patch'.before = job[j].before /\ patch'.after = job[j].after
          BY <3>2 DEF Committed
        <4> QED
          BY <3>1, <3>2, <4>2, <4>3 DEF ManifestMade, PatchUsed, JobUsed
      <3>3. CASE patch' = patch
        BY <3>3 DEF PatchUsed
      <3> QED
        BY <2>1, <3>2, <3>3 DEF RecordCommit
    <2>2. CASE RecordRollback(j)
      <3>1. PICK m1 : m1 = [patch EXCEPT !.rolledBack = TRUE]
        OBVIOUS
      <3>2. m1 \in PatchStates /\ m1.plan = patch.plan /\ m1.before = patch.before /\ m1.after = patch.after
        BY <3>1 DEF PatchStates
      <3>3. PICK m2 : m2 = [m1 EXCEPT !.rollbackDryRun = FALSE]
        OBVIOUS
      <3>4. m2 \in PatchStates /\ m2.plan = patch.plan /\ m2.before = patch.before /\ m2.after = patch.after
        BY <3>2, <3>3 DEF PatchStates
      <3>5. StaleAfterRollback \in BOOLEAN
        BY DEF StaleAfterRollback
      <3>6. PICK m3 : m3 = [m2 EXCEPT !.stale = StaleAfterRollback]
        OBVIOUS
      <3>7. m3 \in PatchStates /\ m3.plan = patch.plan /\ m3.before = patch.before /\ m3.after = patch.after
        BY <3>4, <3>5, <3>6 DEF PatchStates
      <3>8. patch' \in {m3, patch}
        BY <2>2, <3>1, <3>3, <3>6 DEF RecordRollback
      <3> QED
        BY <3>7, <3>8 DEF PatchUsed
    <2> QED
      BY <2>1, <2>2
  <1> HIDE ProcessFacts
  <1>3. /\ NoJob \in JobStates /\ NoJob.kind = "none" /\ NoJob.step = "ended" /\ ~NoJob.attached /\ JobUsed(NoJob)
        /\ backups \subseteq Contents /\ indexed \in Contents
    BY ProcessFacts
  <1> QED
    BY <1>1, <1>2, <1>3, PatchBounds, ProcessGoesOn

\* The script is killed and the process runs on.
LEMMA TimeoutKeepsInv ==
  ASSUME PatchInv, NEW j \in Jobs, Timeout(j)
  PROVE  PatchInv'
  <1> USE ProcessFacts
  <1>1. /\ UNCHANGED <<disk, indexed, backups, editor, spared>>
        /\ patchLeft' \in [contents : 0..MaxContents, scripts : 0..MaxScripts, faults : 0..MaxPatchFaults]
        /\ patchLeft'.contents = patchLeft.contents
    <2>1. patchLeft.faults > 0 /\ patchLeft' = [patchLeft EXCEPT !.faults = @ - 1]
      BY DEF Timeout
    <2> QED
      BY <2>1, PatchBounds, PatchAssumption DEF Timeout
  <1>2. /\ patch' \in PatchStates /\ PatchUsed(patch')
        /\ patch'.before # None => NothingSparedBetween(patch'.before, patch'.after)
    <2>1. PICK made \in BOOLEAN : patch' = [patch EXCEPT !.manifest = made]
      <3>1. (patch.manifest \/ (At(j, "commit", "done") /\ ManifestMade(j))) \in BOOLEAN
        BY DEF PatchStates, At, ManifestMade
      <3> QED
        BY <3>1 DEF Timeout
    <2>2. patch' \in PatchStates
      BY <2>1 DEF PatchStates
    <2>3. patch'.plan = patch.plan /\ patch'.before = patch.before /\ patch'.after = patch.after
      BY <2>1 DEF PatchStates
    <2> QED
      BY <2>2, <2>3 DEF PatchUsed
  <1>3. PICK new : new = IF job[j].step = "done" THEN NoJob ELSE [job[j] EXCEPT !.attached = FALSE]
    OBVIOUS
  <1>4. job' = [job EXCEPT ![j] = new]
    BY <1>3 DEF Timeout, PatchInv, PatchTypeOK
  <1>5. CASE new = NoJob
    BY <1>1, <1>2, <1>4, <1>5, ProcessGoesOn
  <1>6. CASE new = [job[j] EXCEPT !.attached = FALSE] /\ job[j].step # "done"
    <2>1. /\ new \in JobStates /\ new.kind = job[j].kind /\ new.step = job[j].step /\ ~new.attached
          /\ new.before = job[j].before /\ new.copy = job[j].copy /\ new.after = job[j].after
      BY <1>6 DEF JobStates
    <2>2. /\ new.kind = "rollback" => new.before # None /\ NothingSparedBetween(new.before, new.after)
          /\ new.kind = "commit" => new.before # None
          /\ new.step # "done" /\ JobUsed(new)
      BY <1>6, <2>1 DEF JobUsed
    <2>3. new.step \in {"copied", "written"} =>
           /\ new.copy \in Contents
           /\ spared \subseteq backups' /\ \A x \in spared : x <= new.copy
           /\ new.kind = "rollback" => new.copy = new.after
      BY <1>1, <2>1 DEF AtWork
    <2>4. backups \subseteq backups' /\ backups' \subseteq Contents /\ indexed' \in Contents
      BY <1>1
    <2> HIDE ProcessFacts
    <2> QED
      BY <1>1, <1>2, <1>4, <2>1, <2>2, <2>3, <2>4, ProcessGoesOn
  <1> QED
    BY <1>3, <1>5, <1>6

\* The server starts again: every script loses its caller.
LEMMA RestartKeepsInv ==
  ASSUME PatchInv, Restart
  PROVE  PatchInv'
  <1>1. /\ UNCHANGED <<disk, backups, editor, spared>> /\ indexed' \in Contents /\ backups' \subseteq Contents
        /\ patchLeft' \in [contents : 0..MaxContents, scripts : 0..MaxScripts, faults : 0..MaxPatchFaults]
        /\ patchLeft'.contents = patchLeft.contents
    <2>1. patchLeft.faults > 0 /\ patchLeft' = [patchLeft EXCEPT !.faults = @ - 1]
      BY DEF Restart
    <2> QED
      BY <2>1, PatchBounds, PatchAssumption DEF Restart, PatchInv, PatchTypeOK
  <1>2. patch' \in PatchStates /\ PatchUsed(patch') /\ patch'.before = None
    <2>1. patch'.plan = None /\ patch'.before = None /\ patch'.after = None
      BY DEF Restart, NoPatch
    <2>2. None <= Used
      BY PatchBounds DEF None
    <2> QED
      BY <2>1, <2>2, PatchParts DEF Restart, PatchUsed
  <1>3. ASSUME NEW j \in Jobs
        PROVE  /\ job'[j] \in JobStates /\ ~job'[j].attached /\ JobUsed(job'[j])
               /\ \/ job'[j].kind = "none" /\ job'[j].step = "ended"
                  \/ /\ job'[j].kind = job[j].kind /\ job'[j].step = job[j].step /\ job[j].step # "done"
                     /\ job'[j].before = job[j].before /\ job'[j].copy = job[j].copy /\ job'[j].after = job[j].after
    <2>1. job'[j] = IF job[j].step = "done" THEN NoJob ELSE [job[j] EXCEPT !.attached = FALSE]
      BY DEF Restart
    <2>2. CASE job'[j] = NoJob
      BY <2>2, ProcessFacts
    <2>3. CASE job'[j] = [job[j] EXCEPT !.attached = FALSE] /\ job[j].step # "done"
      <3>1. PICK new : new = [job[j] EXCEPT !.attached = FALSE]
        OBVIOUS
      <3>2. job[j] \in JobStates /\ JobUsed(job[j])
        BY ProcessFacts
      <3>3. /\ new \in JobStates /\ ~new.attached /\ new.kind = job[j].kind /\ new.step = job[j].step
            /\ new.before = job[j].before /\ new.copy = job[j].copy /\ new.after = job[j].after
        BY <3>1, <3>2 DEF JobStates
      <3>4. JobUsed(new)
        BY <3>2, <3>3 DEF JobUsed
      <3>5. job'[j] = new
        BY <2>3, <3>1
      <3> QED
        BY <2>3, <3>3, <3>4, <3>5
    <2> QED
      BY <2>1, <2>2, <2>3
  <1>4. job' \in [Jobs -> JobStates]
    <2>1. job' = [j \in Jobs |-> IF job[j].step = "done" THEN NoJob ELSE [job[j] EXCEPT !.attached = FALSE]]
      BY DEF Restart
    <2>2. \A j \in Jobs : (IF job[j].step = "done" THEN NoJob ELSE [job[j] EXCEPT !.attached = FALSE]) \in JobStates
      BY <1>3, <2>1
    <2> QED
      BY <2>1, <2>2
  <1>5. OneCall'
    BY <1>3 DEF OneCall
  <1>6. CopiesCoverSaves'
    BY <1>1, <1>3 DEF PatchInv, CopiesCoverSaves, AtWork
  <1>7. CommitsSpareSaves'
    BY <1>1, <1>2, <1>3 DEF PatchInv, CommitsSpareSaves, NothingSparedBetween, At, ManifestMade
  <1>8. \A j \in Jobs : JobUsed(job'[j])
    BY <1>3
  <1> QED
    BY <1>1, <1>2, <1>4, <1>5, <1>6, <1>7, <1>8, JobGoesOn

\* The user saves: a content newer than all others, which he may count on if no process is
\* at work.
LEMMA UserSavesKeepsInv ==
  ASSUME PatchInv, UserSaves
  PROVE  PatchInv'
  <1>1. /\ UNCHANGED <<indexed, backups, job, patch, editor>>
        /\ disk' = Used + 1 /\ Used' = Used + 1 /\ disk' \in Contents
        /\ patchLeft' \in [contents : 0..MaxContents, scripts : 0..MaxScripts, faults : 0..MaxPatchFaults]
        /\ Used \in Nat
    BY PatchBounds DEF UserSaves, Used
  <1>2. /\ spared' \subseteq (spared \ {disk}) \cup {disk'}
        /\ (\E j \in Jobs : AtWork(j)) => spared' \subseteq spared \ {disk}
    BY <1>1, PatchBounds DEF UserSaves
  <1>3. spared \subseteq Contents /\ Contents \subseteq Nat /\ \A x \in spared : x <= Used
    <2>1. spared \subseteq Contents /\ (\A x \in spared : x <= disk) /\ disk <= Used
      BY DEF PatchInv, PatchTypeOK, ContentsAreUsed
    <2>2. Contents \subseteq Nat /\ disk \in Nat
      BY PatchBounds, PatchAssumption DEF Contents
    <2> QED
      BY <1>1, <2>1, <2>2
  <1>4. PatchTypeOK'
    <2>1. spared' \subseteq Contents
      BY <1>1, <1>2, <1>3
    <2> QED
      BY <1>1, <2>1 DEF PatchInv, PatchTypeOK
  <1>5. OneCall' /\ UserSavesKept' /\ \A x \in spared' : x <= disk'
    <2>1. OneCall' /\ UserSavesKept'
      BY <1>1, <1>2 DEF PatchInv, OneCall, UserSavesKept
    <2>2. \A x \in spared' : x <= disk'
      BY <1>1, <1>2, <1>3
    <2> QED
      BY <2>1, <2>2
  <1>6. \A k \in Nat : k <= Used => k <= Used'
    BY <1>1
  <1>7. ContentsAreUsed'
    <2>1. disk' <= Used'
      BY <1>1
    <2>2. patch.plan \in Nat /\ patch.before \in Nat /\ patch.after \in Nat
      BY PatchAssumption DEF PatchInv, PatchTypeOK, PatchStates
    <2>3. ASSUME NEW j \in Jobs
          PROVE  job[j].before \in Nat /\ job[j].after \in Nat /\ job[j].copy \in Nat
      <3>1. job[j] \in JobStates
        BY DEF PatchInv, PatchTypeOK
      <3> QED
        BY <3>1, PatchAssumption DEF JobStates
    <2>4. /\ patch.plan <= Used /\ patch.before <= Used /\ patch.after <= Used
          /\ \A j \in Jobs : job[j].before <= Used /\ job[j].after <= Used /\ job[j].copy <= Used
      BY DEF PatchInv, ContentsAreUsed, PatchUsed, JobUsed
    <2>5. /\ patch.plan <= Used' /\ patch.before <= Used' /\ patch.after <= Used'
          /\ \A j \in Jobs : job[j].before <= Used' /\ job[j].after <= Used' /\ job[j].copy <= Used'
      BY <1>6, <2>2, <2>3, <2>4
    <2> QED
      BY <1>1, <2>1, <2>5 DEF ContentsAreUsed, PatchUsed, JobUsed
  <1>8. CopiesCoverSaves'
    BY <1>1, <1>2 DEF PatchInv, CopiesCoverSaves, AtWork
  <1>9. \A before, after \in 0..MaxContents :
           after <= Used /\ NothingSparedBetween(before, after) => \A x \in spared' : x <= before \/ x > after
    <2> SUFFICES ASSUME NEW before \in 0..MaxContents, NEW after \in 0..MaxContents,
                        after <= Used, NothingSparedBetween(before, after),
                        NEW x \in spared'
                 PROVE  x <= before \/ x > after
      BY DEF NothingSparedBetween
    <2>1. CASE x \in spared
      BY <2>1 DEF NothingSparedBetween
    <2>2. CASE x = Used + 1
      BY <1>1, <2>2
    <2> QED
      BY <1>1, <1>2, <2>1, <2>2
  <1>10. CommitsSpareSaves'
    <2>1. /\ patch.before \in 0..MaxContents /\ patch.after \in 0..MaxContents /\ patch.after <= Used
          /\ patch.before # None => NothingSparedBetween(patch.before, patch.after)
      BY DEF PatchInv, PatchTypeOK, PatchStates, ContentsAreUsed, PatchUsed, CommitsSpareSaves
    <2>2. patch'.before # None => \A x \in spared' : x <= patch'.before \/ x > patch'.after
      BY <1>1, <1>9, <2>1
    <2>3. ASSUME NEW j \in Jobs
          PROVE  /\ job[j].before \in 0..MaxContents /\ job[j].after \in 0..MaxContents /\ job[j].after <= Used
                 /\ NothingSparedBetween(job[j].before, job[j].after) =>
                      \A x \in spared' : x <= job[j].before \/ x > job[j].after
      <3>1. job[j].before \in 0..MaxContents /\ job[j].after \in 0..MaxContents /\ job[j].after <= Used
        BY ProcessFacts DEF JobStates, JobUsed
      <3> QED
        BY <1>1, <1>9, <3>1
    <2> QED
      BY <1>1, <2>2, <2>3 DEF PatchInv, CommitsSpareSaves, NothingSparedBetween, At, ManifestMade
  <1> QED
    BY <1>4, <1>5, <1>7, <1>8, <1>10 DEF PatchInv

\* No script runs at the start, and the content of the disk is spared.
LEMMA PatchStarts ==
  PatchInit => PatchInv
  <1> SUFFICES ASSUME PatchInit
               PROVE  PatchInv
    OBVIOUS
  <1>1. Used = 1 /\ patchLeft \in [contents : 0..MaxContents, scripts : 0..MaxScripts, faults : 0..MaxPatchFaults]
    BY PatchAssumption DEF PatchInit, Used
  <1>2. 1 \in Contents
    BY PatchAssumption DEF Contents
  <1>3. \A j \in Jobs : job[j] = NoJob
    BY DEF PatchInit
  <1>4. /\ NoJob.kind = "none" /\ NoJob.step = "ended" /\ ~NoJob.attached
        /\ NoJob.before = None /\ NoJob.after = None /\ NoJob.copy = None
        /\ NoPatch.plan = None /\ NoPatch.before = None /\ NoPatch.after = None
    BY DEF NoJob, NoPatch
  <1>5. OneCall
    BY <1>3, <1>4 DEF OneCall
  <1>6. PatchTypeOK
    <2>1. Cardinality({j \in Jobs : job[j].attached}) <= 1
      BY <1>5, OneCallIsOne DEF OneCall
    <2>2. job \in [Jobs -> JobStates]
      BY PatchParts DEF PatchInit
    <2> QED
      BY <1>1, <1>2, <2>1, <2>2, PatchParts DEF PatchInit, PatchTypeOK
  <1>7. ContentsAreUsed
    BY <1>1, <1>3, <1>4 DEF PatchInit, ContentsAreUsed, PatchUsed, JobUsed, None
  <1>8. CopiesCoverSaves /\ CommitsSpareSaves
    BY <1>3, <1>4 DEF PatchInit, CopiesCoverSaves, AtWork, CommitsSpareSaves, At
  <1> QED
    BY <1>5, <1>6, <1>7, <1>8 DEF PatchInit, PatchInv, UserSavesKept

\* Every step keeps the invariant.
LEMMA PatchStep ==
  PatchInv /\ [PatchNext]_patchVars => PatchInv'
  <1> SUFFICES ASSUME PatchInv, [PatchNext]_patchVars
               PROVE  PatchInv'
    OBVIOUS
  <1>1. CASE PatchTools
    BY <1>1, ReceiptsKeepInv, StartsKeepInv, RestartKeepsInv DEF PatchTools
  <1>2. CASE UserSaves
    BY <1>2, UserSavesKeepsInv
  <1>3. CASE EditorMoves
    BY <1>3, ReceiptsKeepInv
  <1>4. ASSUME NEW j \in Jobs, PatchProcess(j)
        PROVE  PatchInv'
    BY <1>4, ChecksKeepInv, WritesKeepInv, ReportKeepsInv, RecordsKeepInv, TimeoutKeepsInv DEF PatchProcess
  <1>5. CASE UNCHANGED patchVars
    BY <1>5 DEF patchVars, PatchInv, PatchTypeOK, OneCall, ContentsAreUsed, Used, PatchUsed, JobUsed, CopiesCoverSaves,
       AtWork, CommitsSpareSaves, NothingSparedBetween, At, ManifestMade, UserSavesKept
  <1> QED
    BY <1>1, <1>2, <1>3, <1>4, <1>5 DEF PatchNext

\* The inductive invariant of the patch workflow.
THEOREM PatchInvariant == PatchSpec => []PatchInv
  BY PatchStarts, PatchStep, PTL DEF PatchSpec

\* Whatever the user saved while no process was between its copy and its end is on disk or
\* in a backup, for every number of processes that were left behind.
THEOREM UserSavesAreKept == PatchSpec => []UserSavesKept
  <1>1. PatchInv => UserSavesKept
    BY DEF PatchInv
  <1> QED
    BY <1>1, PatchInvariant, PTL

\* A rollback that replaces the package never takes away something the user saved after
\* the commit: what it copied is the commit's result, and nothing spared is newer.
THEOREM RollbacksTakeOnlyTheCommit == PatchSpec => RollbackTakesOnlyTheCommit
  <1>1. ASSUME PatchInv, NEW j \in Jobs, ReplacePackage(j), disk > job[j].before
        PROVE  disk \notin spared
    <2>1. /\ job[j].kind = "rollback" /\ AtWork(j)
      BY <1>1 DEF ReplacePackage, At, AtWork
    <2>2. /\ \A x \in spared : x <= job[j].after
          /\ NothingSparedBetween(job[j].before, job[j].after)
      BY <1>1, <2>1, ProcessFacts
    <2>3. disk \in Nat /\ job[j].before \in Nat /\ job[j].after \in Nat
      BY <1>1, ProcessFacts, PatchBounds DEF JobStates
    <2> QED
      BY <1>1, <2>2, <2>3 DEF NothingSparedBetween
  <1>2. PatchInv => \A j \in Jobs : ReplacePackage(j) /\ disk > job[j].before => disk \notin spared
    BY <1>1
  <1> QED
    BY <1>2, PatchInvariant, PTL DEF RollbackTakesOnlyTheCommit

-----------------------------------------------------------------------------
(***************************************************************************)
(* Source control.                                                         *)
(***************************************************************************)

\* A file that is edited, closed and still read-only: the one p4 would sync over.
Exposed(workspace, f) ==
  f \in workspace.edited /\ workspace.open[f] = NotOpen /\ f \notin workspace.writable

\* No file waits for a sync of the agent that would lose edits.
SyncsAreSafe == \A f \in call.sync : ~Exposed(client, f)

\* Every file of a prepare_changelist is either checked after the moves or counted as failed.
FilesAreTriedOrFailed == call.tool = "changelist" => call.files \subseteq call.tried \cup call.failed

ScInv == ScTypeOK /\ NoLocalWorkLost /\ SyncsAreSafe /\ FilesAreTriedOrFailed

\* A workspace that may follow: of the right type, and no file is exposed that was not.
Follows(after, before) == after \in Clients /\ \A f \in ScFiles : Exposed(after, f) => Exposed(before, f)

\* The numbers of changelists.
LEMMA ChangeNumbers ==
  /\ DefaultChange \in 0..MaxChanges /\ NewChange \in 0..MaxChanges /\ NotOpen \in 0..NotOpen /\ NotOpen \notin 0..MaxChanges
  /\ 0..MaxChanges \subseteq 0..NotOpen /\ ChangeIds \subseteq 0..MaxChanges
  BY ScAssumption DEF DefaultChange, NewChange, NotOpen, ChangeIds

\* One part of a workspace changes.
LEMMA ClientField ==
  ASSUME NEW c \in Clients
  PROVE  /\ \A v \in [ScFiles -> 1..MaxHead] : LET m == [c EXCEPT !.have = v] IN
              m \in Clients /\ m.open = c.open /\ m.edited = c.edited /\ m.writable = c.writable /\ m.unresolved = c.unresolved
         /\ \A v \in [ScFiles -> 0..NotOpen] : LET m == [c EXCEPT !.open = v] IN
              m \in Clients /\ m.open = v /\ m.edited = c.edited /\ m.writable = c.writable /\ m.unresolved = c.unresolved
         /\ \A v \in SUBSET ScFiles : LET m == [c EXCEPT !.unresolved = v] IN
              m \in Clients /\ m.open = c.open /\ m.edited = c.edited /\ m.writable = c.writable
         /\ \A v \in SUBSET ScFiles : LET m == [c EXCEPT !.edited = v] IN
              m \in Clients /\ m.open = c.open /\ m.edited = v /\ m.writable = c.writable /\ m.unresolved = c.unresolved
         /\ \A v \in SUBSET ScFiles : LET m == [c EXCEPT !.writable = v] IN
              m \in Clients /\ m.open = c.open /\ m.edited = c.edited /\ m.writable = v /\ m.unresolved = c.unresolved
  BY DEF Clients

\* A sync exposes no file, and overwrites edits only of an exposed one.
LEMMA SyncFollows ==
  ASSUME ScTypeOK, NEW f \in ScFiles
  PROVE  /\ Follows(Synced(f), client)
         /\ ~SyncRefused(f) /\ ~Exposed(client, f) => Overwritten(f) = {}
  <1>1. client \in Clients /\ depot.head \in [ScFiles -> 1..MaxHead]
    BY DEF ScTypeOK
  <1>2. ~SyncRefused(f) /\ ~Exposed(client, f) => Overwritten(f) = {}
    BY DEF SyncRefused, Exposed, Overwritten, IsOpen
  <1>3. CASE ~Behind(f)
    BY <1>1, <1>2, <1>3 DEF Synced, Follows
  <1>4. CASE Behind(f)
    <2>1. PICK have : have = [client.have EXCEPT ![f] = depot.head[f]]
      OBVIOUS
    <2>2. have \in [ScFiles -> 1..MaxHead]
      BY <1>1, <2>1 DEF Clients
    <2>3. PICK m1 : m1 = [client EXCEPT !.have = have]
      OBVIOUS
    <2>4. m1 \in Clients /\ m1.open = client.open /\ m1.edited = client.edited /\ m1.writable = client.writable
      BY <1>1, <2>2, <2>3, ClientField
    <2>5. PICK unresolved : unresolved = IF IsOpen(f) THEN client.unresolved \cup {f} ELSE client.unresolved
      OBVIOUS
    <2>6. PICK m2 : m2 = [m1 EXCEPT !.unresolved = unresolved]
      OBVIOUS
    <2>7. unresolved \in SUBSET ScFiles
      BY <1>1, <2>5 DEF Clients
    <2>8. m2 \in Clients /\ m2.open = client.open /\ m2.edited = client.edited /\ m2.writable = client.writable
      BY <2>4, <2>6, <2>7, ClientField
    <2>9. PICK edited : edited = IF IsOpen(f) THEN client.edited ELSE client.edited \ {f}
      OBVIOUS
    <2>10. PICK m3 : m3 = [m2 EXCEPT !.edited = edited]
      OBVIOUS
    <2>11. edited \in SUBSET client.edited /\ edited \in SUBSET ScFiles
      BY <1>1, <2>9 DEF Clients
    <2>12. m3 \in Clients /\ m3.open = client.open /\ m3.edited = edited /\ m3.writable = client.writable
      BY <2>8, <2>10, <2>11, ClientField
    <2>13. Synced(f) = m3
      BY <1>4, <2>1, <2>3, <2>5, <2>6, <2>9, <2>10 DEF Synced
    <2> QED
      BY <1>2, <2>11, <2>12, <2>13 DEF Follows, Exposed
  <1> QED
    BY <1>3, <1>4

\* A p4 edit opens the file.
LEMMA EditFollows ==
  ASSUME client \in Clients, NEW f \in ScFiles
  PROVE  Follows(Edited(f), client)
  <1>1. PICK change : change = IF IsOpen(f) THEN client.open[f] ELSE DefaultChange
    OBVIOUS
  <1>2. PICK open : open = [client.open EXCEPT ![f] = change]
    OBVIOUS
  <1>3. open \in [ScFiles -> 0..NotOpen] /\ \A g \in ScFiles : open[g] = NotOpen => client.open[g] = NotOpen
    BY <1>1, <1>2, ChangeNumbers DEF Clients, IsOpen
  <1>4. PICK m1 : m1 = [client EXCEPT !.open = open]
    OBVIOUS
  <1>5. m1 \in Clients /\ m1.open = open /\ m1.edited = client.edited /\ m1.writable = client.writable
    BY <1>3, <1>4, ClientField
  <1>6. PICK writable : writable = client.writable \cup {f}
    OBVIOUS
  <1>7. PICK m2 : m2 = [m1 EXCEPT !.writable = writable]
    OBVIOUS
  <1>8. writable \in SUBSET ScFiles
    BY <1>6 DEF Clients
  <1>9. m2 \in Clients /\ m2.open = open /\ m2.edited = client.edited /\ m2.writable = writable
    BY <1>5, <1>7, <1>8, ClientField
  <1>10. Edited(f) = m2
    BY <1>1, <1>2, <1>4, <1>6, <1>7 DEF Edited
  <1> QED
    BY <1>3, <1>6, <1>9, <1>10 DEF Follows, Exposed

\* One file changes its changelist.
LEMMA MoveFollows ==
  ASSUME client \in Clients, NEW f \in ScFiles, NEW c \in 0..MaxChanges
  PROVE  Follows([client EXCEPT !.open[f] = c], client)
  <1>1. PICK open : open = [client.open EXCEPT ![f] = c]
    OBVIOUS
  <1>2. open \in [ScFiles -> 0..NotOpen] /\ \A g \in ScFiles : open[g] = NotOpen => client.open[g] = NotOpen
    BY <1>1, ChangeNumbers DEF Clients
  <1>3. PICK m : m = [client EXCEPT !.open = open]
    OBVIOUS
  <1>4. m \in Clients /\ m.open = open /\ m.edited = client.edited /\ m.writable = client.writable
    BY <1>2, <1>3, ClientField
  <1>5. [client EXCEPT !.open[f] = c] = m
    BY <1>1, <1>3
  <1> QED
    BY <1>2, <1>4, <1>5 DEF Follows, Exposed

\* A form moves files into a changelist and out of it to the default one.
LEMMA FormFollows ==
  ASSUME client \in Clients, NEW c \in 0..MaxChanges, NEW listed \in SUBSET ScFiles
  PROVE  Follows(FormApplied(c, listed), client)
  <1>1. PICK open : open = [f \in ScFiles |-> IF f \in listed THEN c
                                              ELSE IF client.open[f] = c THEN DefaultChange ELSE client.open[f]]
    OBVIOUS
  <1>2. open \in [ScFiles -> 0..NotOpen] /\ \A g \in ScFiles : open[g] = NotOpen => client.open[g] = NotOpen
    BY <1>1, ChangeNumbers DEF Clients
  <1>3. PICK m : m = [client EXCEPT !.open = open]
    OBVIOUS
  <1>4. m \in Clients /\ m.open = open /\ m.edited = client.edited /\ m.writable = client.writable
    BY <1>2, <1>3, ClientField
  <1>5. FormApplied(c, listed) = m
    BY <1>1, <1>3 DEF FormApplied
  <1> QED
    BY <1>2, <1>4, <1>5 DEF Follows, Exposed

\* A file becomes writable, edited or not; a file is resolved.
LEMMA WritableFollows ==
  ASSUME client \in Clients, NEW f \in ScFiles
  PROVE  /\ Follows([client EXCEPT !.writable = @ \cup {f}], client)
         /\ Follows([client EXCEPT !.edited = @ \cup {f}, !.writable = @ \cup {f}], client)
         /\ Follows([client EXCEPT !.unresolved = @ \ {f}], client)
  <1>1. /\ client.writable \cup {f} \in SUBSET ScFiles /\ client.edited \cup {f} \in SUBSET ScFiles
        /\ client.unresolved \ {f} \in SUBSET ScFiles
    BY DEF Clients
  <1>2. PICK m1 : m1 = [client EXCEPT !.writable = client.writable \cup {f}]
    OBVIOUS
  <1>3. PICK m2 : m2 = [m1 EXCEPT !.edited = client.edited \cup {f}]
    OBVIOUS
  <1>4. PICK m3 : m3 = [client EXCEPT !.unresolved = client.unresolved \ {f}]
    OBVIOUS
  <1>5. m1 \in Clients /\ m1.open = client.open /\ m1.edited = client.edited /\ m1.writable = client.writable \cup {f}
    BY <1>1, <1>2, ClientField
  <1>6. m2 \in Clients /\ m2.open = client.open /\ m2.edited = client.edited \cup {f} /\ m2.writable = client.writable \cup {f}
    BY <1>1, <1>3, <1>5, ClientField
  <1>7. m3 \in Clients /\ m3.open = client.open /\ m3.edited = client.edited /\ m3.writable = client.writable
    BY <1>1, <1>4, ClientField
  <1>8. /\ [client EXCEPT !.writable = @ \cup {f}] = m1
        /\ [client EXCEPT !.edited = @ \cup {f}, !.writable = @ \cup {f}] = m2
        /\ [client EXCEPT !.unresolved = @ \ {f}] = m3
    BY <1>2, <1>3, <1>4, <1>5
  <1>9. Follows(m1, client) /\ Follows(m2, client) /\ Follows(m3, client)
    BY <1>5, <1>6, <1>7 DEF Follows, Exposed
  <1> QED
    BY <1>8, <1>9

\* The user reverts a file: its edits go with it.
LEMMA RevertFollows ==
  ASSUME client \in Clients, NEW f \in ScFiles, UserReverts(f)
  PROVE  Follows(client', client)
  <1>1. PICK open : open = [client.open EXCEPT ![f] = NotOpen]
    OBVIOUS
  <1>2. open \in [ScFiles -> 0..NotOpen] /\ \A g \in ScFiles \ {f} : open[g] = client.open[g]
    BY <1>1, ChangeNumbers DEF Clients
  <1>3. PICK m1 : m1 = [client EXCEPT !.open = open]
    OBVIOUS
  <1>4. m1 \in Clients /\ m1.open = open /\ m1.edited = client.edited /\ m1.writable = client.writable /\ m1.unresolved = client.unresolved
    BY <1>2, <1>3, ClientField
  <1>5. PICK m2 : m2 = [m1 EXCEPT !.unresolved = client.unresolved \ {f}]
    OBVIOUS
  <1>6. client.unresolved \ {f} \in SUBSET ScFiles /\ client.edited \ {f} \in SUBSET ScFiles /\ client.writable \ {f} \in SUBSET ScFiles
    BY DEF Clients
  <1>7. m2 \in Clients /\ m2.open = open /\ m2.edited = client.edited /\ m2.writable = client.writable
    BY <1>4, <1>5, <1>6, ClientField
  <1>8. PICK m3 : m3 = [m2 EXCEPT !.edited = client.edited \ {f}]
    OBVIOUS
  <1>9. m3 \in Clients /\ m3.open = open /\ m3.edited = client.edited \ {f} /\ m3.writable = client.writable
    BY <1>6, <1>7, <1>8, ClientField
  <1>10. PICK m4 : m4 = [m3 EXCEPT !.writable = client.writable \ {f}]
    OBVIOUS
  <1>11. m4 \in Clients /\ m4.open = open /\ m4.edited = client.edited \ {f} /\ m4.writable = client.writable \ {f}
    BY <1>6, <1>9, <1>10, ClientField
  <1>12. client' = m4
    BY <1>1, <1>3, <1>5, <1>8, <1>10 DEF UserReverts
  <1> QED
    BY <1>2, <1>11, <1>12 DEF Follows, Exposed

\* The user submits a changelist: its files are closed, read-only and no longer edited.
LEMMA SubmitFollows ==
  ASSUME ScTypeOK, NEW c \in ChangeIds, UserSubmits(c)
  PROVE  /\ Follows(client', client)
         /\ depot' \in [head : [ScFiles -> 1..MaxHead], others : SUBSET ScFiles]
         /\ changes' \in [ChangeIds -> [state : {"none", "pending", "submitted"}, text : Texts]]
  <1>1. /\ client \in Clients /\ depot \in [head : [ScFiles -> 1..MaxHead], others : SUBSET ScFiles]
        /\ changes \in [ChangeIds -> [state : {"none", "pending", "submitted"}, text : Texts]]
    BY DEF ScTypeOK
  <1>2. PICK files : files = FilesIn(c)
    OBVIOUS
  <1>3. files \subseteq ScFiles /\ \A f \in files : depot.head[f] < MaxHead
    BY <1>2 DEF UserSubmits, FilesIn
  <1>4. PICK newHead : newHead = [f \in ScFiles |-> depot.head[f] + (IF f \in files THEN 1 ELSE 0)]
    OBVIOUS
  <1>5. newHead \in [ScFiles -> 1..MaxHead]
    <2>1. ASSUME NEW f \in ScFiles
          PROVE  depot.head[f] + (IF f \in files THEN 1 ELSE 0) \in 1..MaxHead
      <3>1. depot.head[f] \in 1..MaxHead
        BY <1>1
      <3> QED
        BY <1>3, <3>1, ScAssumption
    <2> QED
      BY <1>4, <2>1
  <1>6. depot' = [depot EXCEPT !.head = newHead]
    BY <1>2, <1>4 DEF UserSubmits
  <1>7. depot' \in [head : [ScFiles -> 1..MaxHead], others : SUBSET ScFiles]
    BY <1>1, <1>5, <1>6
  <1>8. changes' \in [ChangeIds -> [state : {"none", "pending", "submitted"}, text : Texts]]
    <2>1. PICK r : r = [changes[c] EXCEPT !.state = "submitted"]
      OBVIOUS
    <2>2. r \in [state : {"none", "pending", "submitted"}, text : Texts]
      BY <1>1, <2>1
    <2>3. changes' = [changes EXCEPT ![c] = r]
      BY <2>1 DEF UserSubmits
    <2> QED
      BY <1>1, <2>2, <2>3
  <1>9. PICK have : have = [f \in ScFiles |-> IF f \in files THEN newHead[f] ELSE client.have[f]]
    OBVIOUS
  <1>10. have \in [ScFiles -> 1..MaxHead]
    <2>1. \A f \in ScFiles : newHead[f] \in 1..MaxHead /\ client.have[f] \in 1..MaxHead
      BY <1>1, <1>5 DEF Clients
    <2> QED
      BY <1>9, <2>1
  <1>11. PICK open : open = [f \in ScFiles |-> IF f \in files THEN NotOpen ELSE client.open[f]]
    OBVIOUS
  <1>12. open \in [ScFiles -> 0..NotOpen] /\ \A f \in ScFiles \ files : open[f] = client.open[f]
    BY <1>1, <1>11, ChangeNumbers DEF Clients
  <1>13. PICK m1 : m1 = [client EXCEPT !.have = have]
    OBVIOUS
  <1>14. m1 \in Clients /\ m1.open = client.open /\ m1.edited = client.edited /\ m1.writable = client.writable
    BY <1>1, <1>10, <1>13, ClientField
  <1>15. PICK m2 : m2 = [m1 EXCEPT !.open = open]
    OBVIOUS
  <1>16. m2 \in Clients /\ m2.open = open /\ m2.edited = client.edited /\ m2.writable = client.writable
    BY <1>12, <1>14, <1>15, ClientField
  <1>17. client.edited \ files \in SUBSET ScFiles /\ client.writable \ files \in SUBSET ScFiles
    BY <1>1 DEF Clients
  <1>18. PICK m3 : m3 = [m2 EXCEPT !.edited = client.edited \ files]
    OBVIOUS
  <1>19. m3 \in Clients /\ m3.open = open /\ m3.edited = client.edited \ files /\ m3.writable = client.writable
    BY <1>16, <1>17, <1>18, ClientField
  <1>20. PICK m4 : m4 = [m3 EXCEPT !.writable = client.writable \ files]
    OBVIOUS
  <1>21. m4 \in Clients /\ m4.open = open /\ m4.edited = client.edited \ files /\ m4.writable = client.writable \ files
    BY <1>17, <1>19, <1>20, ClientField
  <1>22. client' = m4
    BY <1>2, <1>4, <1>9, <1>11, <1>13, <1>15, <1>18, <1>20 DEF UserSubmits
  <1>23. Follows(client', client)
    BY <1>12, <1>21, <1>22 DEF Follows, Exposed
  <1> QED
    BY <1>7, <1>8, <1>23

\* One part of a call changes.
LEMMA CallField ==
  ASSUME NEW c \in Calls
  PROVE  /\ \A v \in SUBSET ScFiles : LET m == [c EXCEPT !.sync = v] IN
              m \in Calls /\ m.tool = c.tool /\ m.files = c.files /\ m.sync = v /\ m.tried = c.tried /\ m.failed = c.failed /\ m.edit = c.edit
         /\ \A v \in SUBSET ScFiles : LET m == [c EXCEPT !.edit = v] IN
              m \in Calls /\ m.tool = c.tool /\ m.files = c.files /\ m.sync = c.sync /\ m.tried = c.tried /\ m.failed = c.failed
                /\ m.override = c.override
         /\ \A v \in SUBSET ScFiles : LET m == [c EXCEPT !.override = v] IN
              m \in Calls /\ m.tool = c.tool /\ m.files = c.files /\ m.sync = c.sync /\ m.tried = c.tried /\ m.failed = c.failed
         /\ \A v \in SUBSET ScFiles : LET m == [c EXCEPT !.move = v] IN
              m \in Calls /\ m.tool = c.tool /\ m.files = c.files /\ m.sync = c.sync /\ m.tried = c.tried /\ m.failed = c.failed
         /\ \A v \in SUBSET ScFiles : LET m == [c EXCEPT !.listed = v] IN
              m \in Calls /\ m.tool = c.tool /\ m.files = c.files /\ m.sync = c.sync /\ m.tried = c.tried /\ m.failed = c.failed
         /\ \A v \in SUBSET ScFiles : LET m == [c EXCEPT !.failed = v] IN
              m \in Calls /\ m.tool = c.tool /\ m.files = c.files /\ m.sync = c.sync /\ m.tried = c.tried /\ m.failed = v
         /\ \A v \in 0..MaxChanges : LET m == [c EXCEPT !.target = v] IN
              m \in Calls /\ m.tool = c.tool /\ m.files = c.files /\ m.sync = c.sync /\ m.tried = c.tried /\ m.failed = c.failed
         /\ \A v \in {"run", "create", "read", "write", "check", "move", "verify", "status", "answer"} :
              LET m == [c EXCEPT !.step = v] IN
              m \in Calls /\ m.tool = c.tool /\ m.files = c.files /\ m.sync = c.sync /\ m.tried = c.tried /\ m.failed = c.failed
  BY DEF Calls

\* No call: nothing is synced or tried.
LEMMA NoCallParts ==
  NoCall \in Calls /\ NoCall.tool = "none" /\ NoCall.sync = {}
  BY ChangeNumbers DEF NoCall, Calls, Texts

\* What a fault costs.
LEMMA FaultsCount ==
  ASSUME ScTypeOK
  PROVE  /\ \A refused \in BOOLEAN : \A o \in Outcomes(refused) :
              Pay(o) \in [calls : 0..MaxCalls, outside : 0..MaxOutside, faults : 0..MaxScFaults]
         /\ \A ok \in Queries :
              PayQuery(ok) \in [calls : 0..MaxCalls, outside : 0..MaxOutside, faults : 0..MaxScFaults]
         /\ left.calls > 0 => \A ok \in Queries :
              Paid(ok) \in [calls : 0..MaxCalls, outside : 0..MaxOutside, faults : 0..MaxScFaults]
  <1>1. left \in [calls : 0..MaxCalls, outside : 0..MaxOutside, faults : 0..MaxScFaults]
    BY DEF ScTypeOK
  <1>2. left.faults \in Nat /\ left.faults <= MaxScFaults /\ left.calls \in Nat /\ left.calls <= MaxCalls
    BY <1>1, ScAssumption
  <1>3. left.faults > 0 => [left EXCEPT !.faults = @ - 1] \in [calls : 0..MaxCalls, outside : 0..MaxOutside, faults : 0..MaxScFaults]
    BY <1>1, <1>2, ScAssumption
  <1>4. [left EXCEPT !.faults = left.faults] = left
    BY <1>1
  <1>5. ASSUME NEW refused \in BOOLEAN, NEW o \in Outcomes(refused)
        PROVE  Pay(o) \in [calls : 0..MaxCalls, outside : 0..MaxOutside, faults : 0..MaxScFaults]
    <2>1. Raised(o) => left.faults > 0
      BY <1>2, <1>5 DEF Outcomes, Raised
    <2>2. Pay(o) = IF Raised(o) THEN [left EXCEPT !.faults = @ - 1] ELSE left
      BY <1>4 DEF Pay
    <2> QED
      BY <1>1, <1>3, <2>1, <2>2
  <1>6. ASSUME NEW ok \in Queries
        PROVE  /\ PayQuery(ok) \in [calls : 0..MaxCalls, outside : 0..MaxOutside, faults : 0..MaxScFaults]
               /\ PayQuery(ok).calls = left.calls
    <2>1. ~ok => left.faults > 0
      <3>1. left.faults = 0 => ok
        BY <1>6, Zenon DEF Queries
      <3> QED
        BY <1>2, <3>1
    <2>2. PayQuery(ok) = IF ok THEN left ELSE [left EXCEPT !.faults = @ - 1]
      BY <1>4 DEF PayQuery
    <2>3. [left EXCEPT !.faults = @ - 1].calls = left.calls
      BY <1>1
    <2> QED
      BY <1>1, <1>3, <2>1, <2>2, <2>3
  <1>7. ASSUME NEW ok \in Queries, left.calls > 0
        PROVE  Paid(ok) \in [calls : 0..MaxCalls, outside : 0..MaxOutside, faults : 0..MaxScFaults]
    <2>1. PICK paid : paid = PayQuery(ok)
      OBVIOUS
    <2>2. paid \in [calls : 0..MaxCalls, outside : 0..MaxOutside, faults : 0..MaxScFaults] /\ paid.calls = left.calls
      BY <1>6, <2>1
    <2>3. left.calls - 1 \in 0..MaxCalls
      BY <1>2, <1>7, ScAssumption
    <2>4. [paid EXCEPT !.calls = @ - 1] \in [calls : 0..MaxCalls, outside : 0..MaxOutside, faults : 0..MaxScFaults]
      BY <2>2, <2>3
    <2> QED
      BY <2>1, <2>4 DEF Paid
  <1> QED
    BY <1>5, <1>6, <1>7

\* A step that loses no work: no file becomes exposed and the agent syncs none that it would
\* not have synced before.
LEMMA ScGoesOn ==
  ASSUME ScInv, Follows(client', client),
         depot' \in [head : [ScFiles -> 1..MaxHead], others : SUBSET ScFiles],
         changes' \in [ChangeIds -> [state : {"none", "pending", "submitted"}, text : Texts]],
         cache' \in {"unprobed", "up", "down"}, call' \in Calls, lostWork' = lostWork,
         left' \in [calls : 0..MaxCalls, outside : 0..MaxOutside, faults : 0..MaxScFaults],
         call'.sync \subseteq call.sync,
         call'.tool = "changelist" => call'.files \subseteq call'.tried \cup call'.failed
  PROVE  ScInv'
  <1>1. ScTypeOK' /\ NoLocalWorkLost' /\ FilesAreTriedOrFailed'
    BY DEF ScInv, ScTypeOK, NoLocalWorkLost, FilesAreTriedOrFailed, Follows
  <1>2. call.sync \subseteq ScFiles
    BY DEF ScInv, ScTypeOK, Calls
  <1>3. SyncsAreSafe'
    <2>1. \A f \in ScFiles : Exposed(client', f) => Exposed(client, f)
      BY DEF Follows
    <2>2. \A f \in call.sync : ~Exposed(client, f)
      BY DEF ScInv, SyncsAreSafe
    <2>3. \A f \in call'.sync : ~Exposed(client', f)
      BY <1>2, <2>1, <2>2
    <2> QED
      BY <2>3 DEF SyncsAreSafe, Exposed
  <1> QED
    BY <1>1, <1>3 DEF ScInv

\* What holds before a step.
LEMMA ScFacts ==
  ASSUME ScInv
  PROVE  /\ ScTypeOK /\ client \in Clients /\ Follows(client, client)
         /\ depot \in [head : [ScFiles -> 1..MaxHead], others : SUBSET ScFiles]
         /\ changes \in [ChangeIds -> [state : {"none", "pending", "submitted"}, text : Texts]]
         /\ cache \in {"unprobed", "up", "down"} /\ call \in Calls
         /\ left \in [calls : 0..MaxCalls, outside : 0..MaxOutside, faults : 0..MaxScFaults]
         /\ call.tool = "changelist" => call.files \subseteq call.tried \cup call.failed
         /\ call.sync \subseteq ScFiles /\ call.edit \subseteq ScFiles /\ call.override \subseteq ScFiles
         /\ call.move \subseteq ScFiles /\ call.listed \subseteq ScFiles /\ call.failed \subseteq ScFiles
         /\ call.tried \subseteq ScFiles /\ call.files \subseteq ScFiles /\ call.target \in 0..MaxChanges
         /\ NoCall \in Calls /\ NoCall.tool = "none" /\ NoCall.sync = {}
  <1>1. call \in Calls /\ client \in Clients
    BY DEF ScInv, ScTypeOK
  <1>2. /\ call.sync \subseteq ScFiles /\ call.edit \subseteq ScFiles /\ call.override \subseteq ScFiles
        /\ call.move \subseteq ScFiles /\ call.listed \subseteq ScFiles /\ call.failed \subseteq ScFiles
        /\ call.tried \subseteq ScFiles /\ call.files \subseteq ScFiles /\ call.target \in 0..MaxChanges
    BY <1>1 DEF Calls
  <1> QED
    BY <1>1, <1>2, NoCallParts DEF ScInv, ScTypeOK, FilesAreTriedOrFailed, Follows

\* The call in progress is one.
LEMMA CallIsTyped == ScInv => call \in Calls
  BY DEF ScInv, ScTypeOK

\* A file that may be synced is not exposed.
LEMMA PermittedIsNotExposed ==
  ASSUME NEW f, NEW diffOk \in BOOLEAN, SafeSyncPermitted(f, diffOk)
  PROVE  ~Exposed(client, f)
  BY DEF SafeSyncPermitted, LocalModified, IsOpen, Exposed

\* A prepare_write chooses what to sync.
LEMMA WriteBeginsSafely ==
  ASSUME ScInv, NEW files \in SUBSET ScFiles, NEW override \in BOOLEAN, NEW safeSync \in BOOLEAN,
         BeginPrepareWrite(files, override, safeSync)
  PROVE  ScInv'
  <1>1. PICK ok \in Queries, diffOk \in Queries :
          /\ cache' = IF ok THEN "up" ELSE "down"
          /\ left' = Paid(ok /\ diffOk)
          /\ LET closed == {f \in files : ~IsOpen(f)}
             IN call' = IF ~ok THEN NoCall ELSE
                  [NoCall EXCEPT
                     !.tool = "write", !.files = files,
                     !.sync = {f \in closed : safeSync /\ SafeSyncPermitted(f, diffOk)},
                     !.edit = {f \in closed : ~Behind(f)},
                     !.override = {f \in closed : override /\ f \notin client.writable}]
    BY DEF BeginPrepareWrite
  <1>2. UNCHANGED <<depot, client, changes, lostWork>> /\ left.calls > 0
    BY DEF BeginPrepareWrite, Begins
  <1>3. Queries \subseteq BOOLEAN /\ (ok /\ diffOk) \in Queries
    <2>1. Queries \subseteq BOOLEAN
      BY Zenon DEF Queries
    <2>2. (ok /\ diffOk) = ok \/ (ok /\ diffOk) = diffOk
      BY <2>1, Zenon
    <2> QED
      BY <2>1, <2>2, Zenon
  <1>4. left' \in [calls : 0..MaxCalls, outside : 0..MaxOutside, faults : 0..MaxScFaults]
    BY <1>1, <1>2, <1>3, FaultsCount, ScFacts
  <1>5. cache' \in {"unprobed", "up", "down"}
    BY <1>1
  <1>6. CASE call' = NoCall
    BY <1>2, <1>4, <1>5, <1>6, ScFacts, ScGoesOn
  <1>7. CASE call' # NoCall
    <2>1. PICK sync \in SUBSET ScFiles, edit \in SUBSET ScFiles, permitted \in SUBSET ScFiles :
            /\ call' = [NoCall EXCEPT !.tool = "write", !.files = files, !.sync = sync, !.edit = edit,
                                      !.override = permitted]
            /\ \A f \in sync : SafeSyncPermitted(f, diffOk)
      <3>1. PICK closed \in SUBSET ScFiles : closed = {f \in files : ~IsOpen(f)}
        OBVIOUS
      <3>2. PICK sync : sync = {f \in closed : safeSync /\ SafeSyncPermitted(f, diffOk)}
        OBVIOUS
      <3>3. PICK edit : edit = {f \in closed : ~Behind(f)}
        OBVIOUS
      <3>4. PICK permitted : permitted = {f \in closed : override /\ f \notin client.writable}
        OBVIOUS
      <3>5. call' = [NoCall EXCEPT !.tool = "write", !.files = files, !.sync = sync, !.edit = edit,
                                   !.override = permitted]
        BY <1>1, <1>7, <3>1, <3>2, <3>3, <3>4
      <3>6. sync \in SUBSET ScFiles /\ edit \in SUBSET ScFiles /\ permitted \in SUBSET ScFiles
        BY <3>1, <3>2, <3>3, <3>4
      <3>7. \A f \in sync : SafeSyncPermitted(f, diffOk)
        BY <3>2
      <3> QED
        BY <3>5, <3>6, <3>7
    <2>2. call' \in Calls /\ call'.tool = "write" /\ call'.sync = sync
      BY <2>1, ChangeNumbers DEF NoCall, Calls, Texts
    <2>3. \A f \in call'.sync : ~Exposed(client, f)
      BY <1>3, <2>1, <2>2, PermittedIsNotExposed
    <2>4. ScTypeOK' /\ NoLocalWorkLost' /\ FilesAreTriedOrFailed'
      BY <1>2, <1>4, <1>5, <2>2 DEF ScInv, ScTypeOK, NoLocalWorkLost, FilesAreTriedOrFailed
    <2>5. SyncsAreSafe'
      BY <1>2, <2>3 DEF SyncsAreSafe, Exposed
    <2> QED
      BY <2>4, <2>5 DEF ScInv
  <1> QED
    BY <1>6, <1>7

\* A prepare_changelist: a file whose status is unknown or that is not open counts as failed.
LEMMA ChangelistBeginsSafely ==
  ASSUME ScInv, NEW files \in SUBSET ScFiles, NEW target \in 0..MaxChanges, NEW text \in Texts, NEW package \in BOOLEAN,
         BeginPrepareChangelist(files, target, text, package)
  PROVE  ScInv'
  <1>1. PICK ok \in Queries :
          /\ cache' = IF ok THEN "up" ELSE "down"
          /\ left' = Paid(ok)
          /\ LET open == IF ok THEN {f \in files : IsOpen(f)} ELSE {}
             IN call' = IF target # NewChange /\ ~Pending(target) THEN NoCall ELSE
               [NoCall EXCEPT
                  !.tool = "changelist",
                  !.step = IF target = NewChange THEN "create"
                           ELSE IF changes[target].text # text THEN "read" ELSE "move",
                  !.files = files, !.target = target, !.text = text, !.package = package,
                  !.move = IF target = NewChange THEN open
                           ELSE {f \in open : client.open[f] # target},
                  !.tried = open, !.failed = files \ open]
    BY DEF BeginPrepareChangelist
  <1>2. UNCHANGED <<depot, client, changes, lostWork>> /\ left.calls > 0
    BY DEF BeginPrepareChangelist, Begins
  <1>3. left' \in [calls : 0..MaxCalls, outside : 0..MaxOutside, faults : 0..MaxScFaults]
    BY <1>1, <1>2, FaultsCount, ScFacts
  <1>4. cache' \in {"unprobed", "up", "down"}
    BY <1>1
  <1>5. /\ call' \in Calls /\ call'.sync = {}
        /\ call'.tool = "changelist" => call'.files \subseteq call'.tried \cup call'.failed
    <2>1. CASE call' = NoCall
      BY <2>1, NoCallParts
    <2>2. CASE call' # NoCall
      <3>1. PICK open \in SUBSET files : open = IF ok THEN {f \in files : IsOpen(f)} ELSE {}
        OBVIOUS
      <3>2. PICK step : step = IF target = NewChange THEN "create"
                               ELSE IF changes[target].text # text THEN "read" ELSE "move"
        OBVIOUS
      <3>3. PICK move : move = IF target = NewChange THEN open ELSE {f \in open : client.open[f] # target}
        OBVIOUS
      <3>4. call' = [NoCall EXCEPT !.tool = "changelist", !.step = step, !.files = files, !.target = target,
                                   !.text = text, !.package = package, !.move = move, !.tried = open,
                                   !.failed = files \ open]
        BY <1>1, <2>2, <3>1, <3>2, <3>3
      <3>5. step \in {"create", "read", "move"} /\ move \in SUBSET ScFiles /\ open \in SUBSET ScFiles
        BY <3>1, <3>2, <3>3
      <3>6. files \ open \in SUBSET ScFiles
        OBVIOUS
      <3>7. call' \in Calls
        BY <3>4, <3>5, <3>6, ChangeNumbers DEF NoCall, Calls
      <3>8. call'.sync = {} /\ call'.files = files /\ call'.tried = open /\ call'.failed = files \ open
        BY <3>4 DEF NoCall
      <3> QED
        BY <3>7, <3>8
    <2> QED
      BY <2>1, <2>2
  <1> QED
    BY <1>2, <1>3, <1>4, <1>5, ScFacts, ScGoesOn

\* A resolve_text previews the merges.
LEMMA ResolveBeginsSafely ==
  ASSUME ScInv, NEW files \in SUBSET ScFiles, NEW scope \in 0..MaxChanges, PreviewResolve(files, scope)
  PROVE  ScInv'
  <1>1. PICK ok \in Queries, previewOk \in Queries :
          /\ cache' = IF ok THEN "up" ELSE "down"
          /\ left' = Paid(ok /\ previewOk)
          /\ call' = IF scope # NewChange /\ ~Pending(scope) THEN NoCall ELSE
               [NoCall EXCEPT !.tool = "resolve", !.step = "status", !.files = files, !.target = scope,
                              !.listed = IF ok /\ previewOk THEN files \cap client.unresolved ELSE {}]
    BY DEF PreviewResolve
  <1>2. UNCHANGED <<depot, client, changes, lostWork>> /\ left.calls > 0
    BY DEF PreviewResolve, Begins
  <1>3. (ok /\ previewOk) \in Queries
    <2>1. Queries \subseteq BOOLEAN
      BY Zenon DEF Queries
    <2>2. (ok /\ previewOk) = ok \/ (ok /\ previewOk) = previewOk
      BY <2>1, Zenon
    <2> QED
      BY <2>1, <2>2, Zenon
  <1>4. left' \in [calls : 0..MaxCalls, outside : 0..MaxOutside, faults : 0..MaxScFaults]
    BY <1>1, <1>2, <1>3, FaultsCount, ScFacts
  <1>5. cache' \in {"unprobed", "up", "down"}
    BY <1>1
  <1>6. call' \in Calls /\ call'.sync = {} /\ call'.tool # "changelist"
    <2>1. CASE call' = NoCall
      BY <2>1, NoCallParts
    <2>2. CASE call' # NoCall
      <3>1. PICK listed \in SUBSET files : listed = IF ok /\ previewOk THEN files \cap client.unresolved ELSE {}
        OBVIOUS
      <3>2. call' = [NoCall EXCEPT !.tool = "resolve", !.step = "status", !.files = files, !.target = scope,
                                   !.listed = listed]
        BY <1>1, <2>2, <3>1
      <3>3. listed \in SUBSET ScFiles
        BY <3>1
      <3>4. call' \in Calls
        BY <3>2, <3>3, ChangeNumbers DEF NoCall, Calls, Texts
      <3>5. call'.sync = {} /\ call'.tool = "resolve"
        BY <3>2 DEF NoCall
      <3> QED
        BY <3>4, <3>5
    <2> QED
      BY <2>1, <2>2
  <1> QED
    BY <1>2, <1>4, <1>5, <1>6, ScFacts, ScGoesOn

\* A sync of the agent: the file was not exposed when the status was read, and nothing the
\* user did since exposed it.
LEMMA SyncKeepsInv ==
  ASSUME ScInv, NEW f \in ScFiles, SyncFile(f)
  PROVE  ScInv'
  <1>1. PICK o \in Outcomes(SyncRefused(f)) :
          /\ client' = IF Ran(o) THEN Synced(f) ELSE client
          /\ lostWork' = IF Ran(o) THEN lostWork \cup Overwritten(f) ELSE lostWork
          /\ call' = [call EXCEPT !.sync = @ \ {f},
                                  !.edit = IF o = "done" THEN @ \cup {f} ELSE @]
          /\ left' = Pay(o)
    BY DEF SyncFile
  <1>2. UNCHANGED <<depot, changes, cache>> /\ f \in call.sync
    BY DEF SyncFile
  <1>3. SyncRefused(f) \in BOOLEAN
    BY DEF SyncRefused, Behind, IsOpen
  <1>4. left' \in [calls : 0..MaxCalls, outside : 0..MaxOutside, faults : 0..MaxScFaults]
    BY <1>1, <1>3, FaultsCount, ScFacts
  <1>5. Follows(client', client)
    BY <1>1, SyncFollows, ScFacts
  <1>6. lostWork' = lostWork
    <2>1. Ran(o) => ~SyncRefused(f)
      BY <1>1 DEF Ran, Outcomes
    <2>2. ~Exposed(client, f)
      BY <1>2 DEF ScInv, SyncsAreSafe
    <2> QED
      BY <1>1, <2>1, <2>2, SyncFollows, ScFacts
  <1>7. /\ call' \in Calls /\ call'.sync \subseteq call.sync
        /\ call'.tool = "changelist" => call'.files \subseteq call'.tried \cup call'.failed
    <2>1. PICK edit : edit = IF o = "done" THEN call.edit \cup {f} ELSE call.edit
      OBVIOUS
    <2>2. PICK m1 : m1 = [call EXCEPT !.sync = call.sync \ {f}]
      OBVIOUS
    <2>3. PICK m2 : m2 = [m1 EXCEPT !.edit = edit]
      OBVIOUS
    <2>4. call.sync \ {f} \in SUBSET ScFiles /\ edit \in SUBSET ScFiles
      BY <2>1, ScFacts
    <2>5. /\ m1 \in Calls /\ m1.tool = call.tool /\ m1.files = call.files /\ m1.sync = call.sync \ {f}
          /\ m1.tried = call.tried /\ m1.failed = call.failed
      BY <2>2, <2>4, CallField, CallIsTyped
    <2>6. /\ m2 \in Calls /\ m2.tool = call.tool /\ m2.files = call.files /\ m2.sync = call.sync \ {f}
          /\ m2.tried = call.tried /\ m2.failed = call.failed
      BY <2>3, <2>4, <2>5, CallField
    <2>7. call' = m2
      BY <1>1, <2>1, <2>2, <2>3
    <2> QED
      BY <2>6, <2>7, ScFacts
  <1> QED
    BY <1>2, <1>4, <1>5, <1>6, <1>7, ScFacts, ScGoesOn

\* A p4 edit, or the local override of the read-only flag.
LEMMA EditKeepsInv ==
  ASSUME ScInv, NEW f \in ScFiles, EditFile(f) \/ OverrideFile(f)
  PROVE  ScInv'
  <1>1. CASE EditFile(f)
    <2>1. PICK o \in Outcomes(EditRefused(f)) :
            /\ client' = IF Ran(o) THEN Edited(f) ELSE client
            /\ call' = [call EXCEPT !.edit = @ \ {f},
                                    !.override = IF o = "done" THEN @ \ {f} ELSE @]
            /\ left' = Pay(o)
      BY <1>1 DEF EditFile
    <2>2. UNCHANGED <<depot, changes, cache, lostWork>>
      BY <1>1 DEF EditFile
    <2>3. EditRefused(f) \in BOOLEAN
      BY DEF EditRefused, IsOpen, LockedByOther
    <2>4. left' \in [calls : 0..MaxCalls, outside : 0..MaxOutside, faults : 0..MaxScFaults]
      BY <2>1, <2>3, FaultsCount, ScFacts
    <2>5. Follows(client', client)
      BY <2>1, EditFollows, ScFacts
    <2>6. /\ call' \in Calls /\ call'.sync \subseteq call.sync
          /\ call'.tool = "changelist" => call'.files \subseteq call'.tried \cup call'.failed
      <3>1. PICK override : override = IF o = "done" THEN call.override \ {f} ELSE call.override
        OBVIOUS
      <3>2. PICK m1 : m1 = [call EXCEPT !.edit = call.edit \ {f}]
        OBVIOUS
      <3>3. PICK m2 : m2 = [m1 EXCEPT !.override = override]
        OBVIOUS
      <3>4. call.edit \ {f} \in SUBSET ScFiles /\ override \in SUBSET ScFiles
        BY <3>1, ScFacts
      <3>5. /\ m1 \in Calls /\ m1.tool = call.tool /\ m1.files = call.files /\ m1.sync = call.sync
            /\ m1.tried = call.tried /\ m1.failed = call.failed
        BY <3>2, <3>4, CallField, CallIsTyped
      <3>6. /\ m2 \in Calls /\ m2.tool = call.tool /\ m2.files = call.files /\ m2.sync = call.sync
            /\ m2.tried = call.tried /\ m2.failed = call.failed
        BY <3>3, <3>4, <3>5, CallField
      <3>7. call' = m2
        BY <2>1, <3>1, <3>2, <3>3
      <3> QED
        BY <3>6, <3>7, ScFacts
    <2> QED
      BY <2>2, <2>4, <2>5, <2>6, ScFacts, ScGoesOn
  <1>2. CASE OverrideFile(f)
    <2>1. UNCHANGED <<depot, changes, cache, lostWork, left>>
      BY <1>2 DEF OverrideFile
    <2>2. Follows(client', client)
      BY <1>2, WritableFollows, ScFacts DEF OverrideFile
    <2>3. /\ call' \in Calls /\ call'.sync \subseteq call.sync
          /\ call'.tool = "changelist" => call'.files \subseteq call'.tried \cup call'.failed
      <3>1. call' = [call EXCEPT !.override = call.override \ {f}]
        BY <1>2 DEF OverrideFile
      <3>2. call.override \ {f} \in SUBSET ScFiles
        BY ScFacts
      <3>3. /\ call' \in Calls /\ call'.tool = call.tool /\ call'.files = call.files /\ call'.sync = call.sync
            /\ call'.tried = call.tried /\ call'.failed = call.failed
        BY <3>1, <3>2, CallField, CallIsTyped
      <3> QED
        BY <3>3, ScFacts
    <2> QED
      BY <2>1, <2>2, <2>3, ScFacts, ScGoesOn
  <1> QED
    BY <1>1, <1>2

\* A changelist is made.
LEMMA CreateKeepsInv ==
  ASSUME ScInv, CreatePendingChangelist
  PROVE  ScInv'
  <1>1. PICK c \in ChangeIds, o \in Outcomes(FALSE) :
          /\ changes' = IF Ran(o) THEN [changes EXCEPT ![c] = [state |-> "pending", text |-> call.text]]
                        ELSE changes
          /\ call' = IF o = "done" THEN [call EXCEPT !.step = "move", !.target = c] ELSE NoCall
          /\ left' = Pay(o)
    BY DEF CreatePendingChangelist
  <1>2. UNCHANGED <<depot, client, cache, lostWork>>
    BY DEF CreatePendingChangelist
  <1>3. left' \in [calls : 0..MaxCalls, outside : 0..MaxOutside, faults : 0..MaxScFaults]
    BY <1>1, FaultsCount, ScFacts
  <1>4. changes' \in [ChangeIds -> [state : {"none", "pending", "submitted"}, text : Texts]]
    <2>1. call.text \in Texts
      BY ScFacts DEF Calls
    <2>2. PICK new : new = [state |-> "pending", text |-> call.text]
      OBVIOUS
    <2>3. new \in [state : {"none", "pending", "submitted"}, text : Texts]
      BY <2>1, <2>2
    <2>4. [changes EXCEPT ![c] = new] \in [ChangeIds -> [state : {"none", "pending", "submitted"}, text : Texts]]
      BY <2>3, ScFacts
    <2> QED
      BY <1>1, <2>2, <2>4, ScFacts
  <1>5. /\ call' \in Calls /\ call'.sync \subseteq call.sync
        /\ call'.tool = "changelist" => call'.files \subseteq call'.tried \cup call'.failed
    <2>1. PICK m1 : m1 = [call EXCEPT !.step = "move"]
      OBVIOUS
    <2>2. PICK m2 : m2 = [m1 EXCEPT !.target = c]
      OBVIOUS
    <2>3. /\ m1 \in Calls /\ m1.tool = call.tool /\ m1.files = call.files /\ m1.sync = call.sync
          /\ m1.tried = call.tried /\ m1.failed = call.failed
      BY <2>1, CallField, CallIsTyped
    <2>4. /\ m2 \in Calls /\ m2.tool = call.tool /\ m2.files = call.files /\ m2.sync = call.sync
          /\ m2.tried = call.tried /\ m2.failed = call.failed
      <3>1. c \in 0..MaxChanges
        BY ChangeNumbers
      <3> QED
        BY <2>2, <2>3, <3>1, CallField
    <2>5. call' = m2 \/ call' = NoCall
      BY <1>1, <2>1, <2>2
    <2> QED
      BY <2>4, <2>5, ScFacts
  <1> QED
    BY <1>2, <1>3, <1>4, <1>5, ScFacts, ScGoesOn

\* The form is read, written and read again.
LEMMA FormKeepsInv ==
  ASSUME ScInv, ReadForm \/ WriteForm \/ CheckForm
  PROVE  ScInv'
  <1>1. CASE ReadForm \/ CheckForm
    <2>1. UNCHANGED <<depot, client, changes, cache, lostWork>>
      BY <1>1 DEF ReadForm, CheckForm
    <2>2. PICK ok \in Queries, step \in {"write", "move"}, listed \in SUBSET ScFiles :
            left' = PayQuery(ok) /\ call' \in {[call EXCEPT !.step = step, !.listed = listed], NoCall}
      <3>1. FilesIn(call.target) \in SUBSET ScFiles /\ {} \in SUBSET ScFiles
        BY DEF FilesIn
      <3> QED
        BY <1>1, <3>1 DEF ReadForm, CheckForm
    <2>3. left' \in [calls : 0..MaxCalls, outside : 0..MaxOutside, faults : 0..MaxScFaults]
      BY <2>2, FaultsCount, ScFacts
    <2>4. /\ call' \in Calls /\ call'.sync \subseteq call.sync
          /\ call'.tool = "changelist" => call'.files \subseteq call'.tried \cup call'.failed
      <3>1. PICK m1 : m1 = [call EXCEPT !.step = step]
        OBVIOUS
      <3>2. PICK m2 : m2 = [m1 EXCEPT !.listed = listed]
        OBVIOUS
      <3>3. /\ m1 \in Calls /\ m1.tool = call.tool /\ m1.files = call.files /\ m1.sync = call.sync
            /\ m1.tried = call.tried /\ m1.failed = call.failed
        <4>1. step \in {"run", "create", "read", "write", "check", "move", "verify", "status", "answer"}
          OBVIOUS
        <4> QED
          BY <3>1, <4>1, CallField, CallIsTyped
      <3>4. /\ m2 \in Calls /\ m2.tool = call.tool /\ m2.files = call.files /\ m2.sync = call.sync
            /\ m2.tried = call.tried /\ m2.failed = call.failed
        BY <3>2, <3>3, CallField
      <3>5. call' = m2 \/ call' = NoCall
        BY <2>2, <3>1, <3>2
      <3> QED
        BY <3>4, <3>5, ScFacts
    <2> QED
      BY <2>1, <2>3, <2>4, ScFacts, ScGoesOn
  <1>2. CASE WriteForm
    <2>1. PICK o \in Outcomes(FormRefused(call.target, call.listed)) :
            /\ client' = IF Ran(o) THEN FormApplied(call.target, call.listed) ELSE client
            /\ changes' = IF Ran(o) THEN [changes EXCEPT ![call.target].text = call.text] ELSE changes
            /\ call' = IF o = "done" THEN [call EXCEPT !.step = "check"] ELSE NoCall
            /\ left' = Pay(o)
      BY <1>2 DEF WriteForm
    <2>2. UNCHANGED <<depot, cache, lostWork>>
      BY <1>2 DEF WriteForm
    <2>3. FormRefused(call.target, call.listed) \in BOOLEAN
      BY DEF FormRefused
    <2>4. left' \in [calls : 0..MaxCalls, outside : 0..MaxOutside, faults : 0..MaxScFaults]
      BY <2>1, <2>3, FaultsCount, ScFacts
    <2>5. Follows(client', client)
      BY <2>1, FormFollows, ScFacts
    <2>6. changes' \in [ChangeIds -> [state : {"none", "pending", "submitted"}, text : Texts]]
      <3>1. call.text \in Texts
        BY ScFacts DEF Calls
      <3>2. PICK new : new = [changes[call.target] EXCEPT !.text = call.text]
        OBVIOUS
      <3>3. call.target \in ChangeIds => new \in [state : {"none", "pending", "submitted"}, text : Texts]
        BY <3>1, <3>2, ScFacts
      <3>4. [changes EXCEPT ![call.target] = new] \in [ChangeIds -> [state : {"none", "pending", "submitted"}, text : Texts]]
        BY <3>3, ScFacts
      <3> QED
        BY <2>1, <3>2, <3>4, ScFacts
    <2>7. /\ call' \in Calls /\ call'.sync \subseteq call.sync
          /\ call'.tool = "changelist" => call'.files \subseteq call'.tried \cup call'.failed
      <3>1. PICK m : m = [call EXCEPT !.step = "check"]
        OBVIOUS
      <3>2. /\ m \in Calls /\ m.tool = call.tool /\ m.files = call.files /\ m.sync = call.sync
            /\ m.tried = call.tried /\ m.failed = call.failed
        BY <3>1, CallField, CallIsTyped
      <3>3. call' = m \/ call' = NoCall
        BY <2>1, <3>1
      <3> QED
        BY <3>2, <3>3, ScFacts
    <2> QED
      BY <2>2, <2>4, <2>5, <2>6, <2>7, ScFacts, ScGoesOn
  <1> QED
    BY <1>1, <1>2

\* A file is moved or merged: what fails is added to the failed ones.
LEMMA MovesKeepInv ==
  ASSUME ScInv, NEW f \in ScFiles, ReopenFile(f) \/ MergeFile(f)
  PROVE  ScInv'
  <1>1. PICK refused \in BOOLEAN : \E o \in Outcomes(refused), failed \in {call.failed, call.failed \cup {f}} :
          /\ call' = [call EXCEPT !.move = call.move \ {f}, !.failed = failed]
          /\ left' = Pay(o)
    <2>1. CASE ReopenFile(f)
      <3>1. ReopenRefused(f, call.target) \in BOOLEAN
        BY DEF ReopenRefused, IsOpen
      <3>2. PICK o \in Outcomes(ReopenRefused(f, call.target)) :
              /\ call' = [call EXCEPT !.move = @ \ {f}, !.failed = IF Raised(o) THEN @ \cup {f} ELSE @]
              /\ left' = Pay(o)
        BY <2>1 DEF ReopenFile
      <3>3. PICK failed : failed = IF Raised(o) THEN call.failed \cup {f} ELSE call.failed
        OBVIOUS
      <3>4. call' = [call EXCEPT !.move = call.move \ {f}, !.failed = failed]
        BY <3>2, <3>3
      <3>5. failed \in {call.failed, call.failed \cup {f}}
        BY <3>3
      <3> QED
        BY <3>1, <3>2, <3>4, <3>5
    <2>2. CASE MergeFile(f)
      <3>1. (~IsOpen(f)) \in BOOLEAN
        BY DEF IsOpen
      <3>2. PICK o \in Outcomes(~IsOpen(f)), failed \in {call.failed, call.failed \cup {f}} :
              /\ call' = [call EXCEPT !.move = call.move \ {f}, !.failed = failed]
              /\ left' = Pay(o)
        <4>1. PICK o \in Outcomes(~IsOpen(f)), conflict \in BOOLEAN :
                LET merged == Ran(o) /\ f \in client.unresolved /\ ~conflict
                IN /\ call' = [call EXCEPT !.move = @ \ {f},
                                           !.failed = IF o = "done" /\ merged THEN @ ELSE @ \cup {f}]
                   /\ left' = Pay(o)
          BY <2>2 DEF MergeFile
        <4>2. PICK failed : failed = IF o = "done" /\ (Ran(o) /\ f \in client.unresolved /\ ~conflict)
                                     THEN call.failed ELSE call.failed \cup {f}
          OBVIOUS
        <4>3. call' = [call EXCEPT !.move = call.move \ {f}, !.failed = failed]
          BY <4>1, <4>2
        <4>4. failed \in {call.failed, call.failed \cup {f}}
          BY <4>2
        <4> QED
          BY <4>1, <4>3, <4>4
      <3> QED
        BY <3>1, <3>2
    <2> QED
      BY <2>1, <2>2
  <1>2. PICK o \in Outcomes(refused), failed \in {call.failed, call.failed \cup {f}} :
          /\ call' = [call EXCEPT !.move = call.move \ {f}, !.failed = failed]
          /\ left' = Pay(o)
    BY <1>1
  <1>3. UNCHANGED <<depot, changes, cache, lostWork>>
    BY DEF ReopenFile, MergeFile
  <1>4. left' \in [calls : 0..MaxCalls, outside : 0..MaxOutside, faults : 0..MaxScFaults]
    BY <1>2, FaultsCount, ScFacts
  <1>5. Follows(client', client)
    <2>1. client' = client \/ client' = [client EXCEPT !.open[f] = call.target] \/ client' = [client EXCEPT !.unresolved = @ \ {f}]
      BY DEF ReopenFile, MergeFile
    <2>2. client \in Clients /\ call.target \in 0..MaxChanges /\ Follows(client, client)
      BY ScFacts
    <2>3. Follows([client EXCEPT !.open[f] = call.target], client)
      BY <2>2, MoveFollows
    <2>4. Follows([client EXCEPT !.unresolved = @ \ {f}], client)
      BY <2>2, WritableFollows
    <2> QED
      BY <2>1, <2>2, <2>3, <2>4
  <1>6. /\ call' \in Calls /\ call'.sync \subseteq call.sync
        /\ call'.tool = "changelist" => call'.files \subseteq call'.tried \cup call'.failed
    <2>1. PICK m1 : m1 = [call EXCEPT !.move = call.move \ {f}]
      OBVIOUS
    <2>2. PICK m2 : m2 = [m1 EXCEPT !.failed = failed]
      OBVIOUS
    <2>3. call.move \ {f} \in SUBSET ScFiles /\ failed \in SUBSET ScFiles /\ call.failed \subseteq failed
      BY ScFacts
    <2>4. /\ m1 \in Calls /\ m1.tool = call.tool /\ m1.files = call.files /\ m1.sync = call.sync
          /\ m1.tried = call.tried /\ m1.failed = call.failed
      BY <2>1, <2>3, CallField, CallIsTyped
    <2>5. /\ m2 \in Calls /\ m2.tool = call.tool /\ m2.files = call.files /\ m2.sync = call.sync
          /\ m2.tried = call.tried /\ m2.failed = failed
      BY <2>2, <2>3, <2>4, CallField
    <2>6. call' = m2
      BY <1>2, <2>1, <2>2
    <2> QED
      BY <2>3, <2>5, <2>6, ScFacts
  <1> QED
    BY <1>3, <1>4, <1>5, <1>6, ScFacts, ScGoesOn

\* The moves are checked; the merges are chosen.
LEMMA ChecksOfMovesKeepInv ==
  ASSUME ScInv, VerifyMoves \/ ChooseMerges
  PROVE  ScInv'
  <1>1. CASE VerifyMoves
    <2>1. PICK ok \in Queries, unconfirmed \in SUBSET ScFiles :
            /\ call' = [call EXCEPT !.step = "answer", !.failed = call.failed \cup unconfirmed]
            /\ left' = PayQuery(ok)
      <3>1. PICK ok \in (IF call.tried = {} THEN {TRUE} ELSE Queries) :
              /\ call' = [call EXCEPT !.step = "answer",
                                      !.failed = @ \cup {f \in call.tried : ~ok \/ Unconfirmed(f)}]
              /\ left' = PayQuery(ok)
        BY <1>1 DEF VerifyMoves
      <3>2. ok \in Queries
        BY <3>1, Zenon DEF Queries
      <3>3. {f \in call.tried : ~ok \/ Unconfirmed(f)} \in SUBSET ScFiles
        BY ScFacts
      <3> QED
        BY <3>1, <3>2, <3>3
    <2>2. UNCHANGED <<depot, client, changes, cache, lostWork>>
      BY <1>1 DEF VerifyMoves
    <2>3. left' \in [calls : 0..MaxCalls, outside : 0..MaxOutside, faults : 0..MaxScFaults]
      BY <2>1, FaultsCount, ScFacts
    <2>4. /\ call' \in Calls /\ call'.sync \subseteq call.sync
          /\ call'.tool = "changelist" => call'.files \subseteq call'.tried \cup call'.failed
      <3>1. PICK m1 : m1 = [call EXCEPT !.step = "answer"]
        OBVIOUS
      <3>2. PICK m2 : m2 = [m1 EXCEPT !.failed = call.failed \cup unconfirmed]
        OBVIOUS
      <3>3. call.failed \cup unconfirmed \in SUBSET ScFiles
        BY ScFacts
      <3>4. /\ m1 \in Calls /\ m1.tool = call.tool /\ m1.files = call.files /\ m1.sync = call.sync
            /\ m1.tried = call.tried /\ m1.failed = call.failed
        BY <3>1, CallField, CallIsTyped
      <3>5. /\ m2 \in Calls /\ m2.tool = call.tool /\ m2.files = call.files /\ m2.sync = call.sync
            /\ m2.tried = call.tried /\ m2.failed = call.failed \cup unconfirmed
        BY <3>2, <3>3, <3>4, CallField
      <3>6. call' = m2
        BY <2>1, <3>1, <3>2
      <3> QED
        BY <3>5, <3>6, ScFacts
    <2> QED
      BY <2>2, <2>3, <2>4, ScFacts, ScGoesOn
  <1>2. CASE ChooseMerges
    <2>1. PICK ok \in Queries, move \in SUBSET ScFiles, failed \in SUBSET ScFiles :
            /\ cache' = AfterStatus(ok)
            /\ left' = PayQuery(ok)
            /\ call' = [call EXCEPT !.step = "move", !.move = move, !.listed = {}, !.failed = failed]
      <3>1. PICK ok \in Queries :
              LET inScope == {f \in call.files : IsOpen(f)
                                       /\ (call.target # NewChange => client.open[f] = call.target)}
                  open == IF ok /\ cache = "up" THEN inScope ELSE {}
                  merges == (open \cap call.listed) \ Packages
              IN /\ cache' = AfterStatus(ok)
                 /\ left' = PayQuery(ok)
                 /\ call' = [call EXCEPT !.step = "move", !.move = merges, !.listed = {},
                                         !.failed = call.files \ (merges \cup (open \ call.listed))]
        BY <1>2 DEF ChooseMerges
      <3>2. PICK inScope : inScope = {f \in call.files : IsOpen(f)
                                       /\ (call.target # NewChange => client.open[f] = call.target)}
        OBVIOUS
      <3>3. PICK open : open = IF ok /\ cache = "up" THEN inScope ELSE {}
        OBVIOUS
      <3>4. PICK merges : merges = (open \cap call.listed) \ Packages
        OBVIOUS
      <3>5. PICK failed : failed = call.files \ (merges \cup (open \ call.listed))
        OBVIOUS
      <3>6. merges \in SUBSET ScFiles /\ failed \in SUBSET ScFiles
        BY <3>4, <3>5, ScFacts
      <3>7. /\ cache' = AfterStatus(ok) /\ left' = PayQuery(ok)
            /\ call' = [call EXCEPT !.step = "move", !.move = merges, !.listed = {}, !.failed = failed]
        BY <3>1, <3>2, <3>3, <3>4, <3>5
      <3> QED
        BY <3>6, <3>7
    <2>2. UNCHANGED <<depot, client, changes, lostWork>> /\ call.tool = "resolve"
      BY <1>2 DEF ChooseMerges
    <2>3. left' \in [calls : 0..MaxCalls, outside : 0..MaxOutside, faults : 0..MaxScFaults]
      BY <2>1, FaultsCount, ScFacts
    <2>4. cache' \in {"unprobed", "up", "down"}
      BY <2>1, ScFacts DEF AfterStatus
    <2>5. call' \in Calls /\ call'.sync = call.sync /\ call'.tool = "resolve"
      <3>1. PICK m1 : m1 = [call EXCEPT !.step = "move"]
        OBVIOUS
      <3>2. PICK m2 : m2 = [m1 EXCEPT !.move = move]
        OBVIOUS
      <3>3. PICK m3 : m3 = [m2 EXCEPT !.listed = {}]
        OBVIOUS
      <3>4. PICK m4 : m4 = [m3 EXCEPT !.failed = failed]
        OBVIOUS
      <3>5. m1 \in Calls /\ m1.tool = call.tool /\ m1.sync = call.sync
        BY <3>1, CallField, CallIsTyped
      <3>6. m2 \in Calls /\ m2.tool = call.tool /\ m2.sync = call.sync
        BY <3>2, <3>5, CallField
      <3>7. m3 \in Calls /\ m3.tool = call.tool /\ m3.sync = call.sync
        <4>1. {} \in SUBSET ScFiles
          OBVIOUS
        <4> QED
          BY <3>3, <3>6, <4>1, CallField
      <3>8. m4 \in Calls /\ m4.tool = call.tool /\ m4.sync = call.sync
        BY <3>4, <3>7, CallField
      <3>9. call' = m4
        BY <2>1, <3>1, <3>2, <3>3, <3>4
      <3> QED
        BY <2>2, <3>8, <3>9
    <2> QED
      BY <2>2, <2>3, <2>4, <2>5, ScFacts, ScGoesOn
  <1> QED
    BY <1>1, <1>2

\* A tool answers, or cannot begin.
LEMMA AnswersKeepInv ==
  ASSUME ScInv, ProbeFails \/ AnswerPrepareWrite \/ AnswerPrepareChangelist \/ AnswerResolveText
  PROVE  ScInv'
  <1>1. /\ UNCHANGED <<depot, client, changes, lostWork>>
        /\ call' = call \/ call' = NoCall
    BY DEF ProbeFails, AnswerPrepareWrite, AnswerPrepareChangelist, AnswerResolveText, Answers
  <1>2. PICK ok \in Queries : left' = PayQuery(ok)
    <2>1. CASE ProbeFails
      <3>1. FALSE \in Queries
        <4>1. left.faults # 0
          BY <2>1, ScFacts, ScAssumption DEF ProbeFails
        <4> QED
          BY <4>1, Zenon DEF Queries
      <3> QED
        BY <2>1, <3>1 DEF ProbeFails
    <2>2. CASE AnswerPrepareWrite \/ AnswerPrepareChangelist \/ AnswerResolveText
      BY <2>2 DEF AnswerPrepareWrite, AnswerPrepareChangelist, AnswerResolveText, Answers
    <2> QED
      BY <2>1, <2>2
  <1>3. cache' \in {"unprobed", "up", "down"}
    BY ScFacts DEF ProbeFails, AnswerPrepareWrite, AnswerPrepareChangelist, AnswerResolveText, Answers, Probed, AfterStatus
  <1>4. left' \in [calls : 0..MaxCalls, outside : 0..MaxOutside, faults : 0..MaxScFaults]
    BY <1>2, FaultsCount, ScFacts
  <1> QED
    BY <1>1, <1>3, <1>4, ScFacts, ScGoesOn

\* What the user, other users and a restart do.
LEMMA OutsideKeepsInv ==
  ASSUME ScInv, OutsideSteps
  PROVE  ScInv'
  <1>1. Outside /\ left' \in [calls : 0..MaxCalls, outside : 0..MaxOutside, faults : 0..MaxScFaults]
    <2>1. Outside
      BY DEF OutsideSteps, OtherOpens, OtherSubmits, OnClient, UserEdits, UserOpens, UserSyncs, UserResolves, UserReverts,
         UserMoves, UserSubmits, ScRestart
    <2>2. left.outside > 0 /\ left' = [left EXCEPT !.outside = @ - 1]
      BY <2>1 DEF Outside
    <2> QED
      BY <2>1, <2>2, ScFacts, ScAssumption
  <1>2. ASSUME NEW f \in ScFiles, OtherOpens(f) \/ OtherSubmits(f)
        PROVE  ScInv'
    <2>1. UNCHANGED <<client, changes, cache, call, lostWork>>
      BY <1>2 DEF OtherOpens, OtherSubmits
    <2>2. depot' \in [head : [ScFiles -> 1..MaxHead], others : SUBSET ScFiles]
      <3>1. CASE OtherOpens(f)
        BY <3>1, ScFacts DEF OtherOpens
      <3>2. CASE OtherSubmits(f)
        <4>1. PICK head : head = [depot.head EXCEPT ![f] = depot.head[f] + 1]
          OBVIOUS
        <4>2. depot.head[f] \in 1..MaxHead /\ depot.head[f] < MaxHead
          BY <3>2, ScFacts DEF OtherSubmits
        <4>3. head \in [ScFiles -> 1..MaxHead]
          BY <4>1, <4>2, ScFacts, ScAssumption
        <4>4. PICK m1 : m1 = [depot EXCEPT !.others = depot.others \ {f}]
          OBVIOUS
        <4>5. m1 \in [head : [ScFiles -> 1..MaxHead], others : SUBSET ScFiles]
          BY <4>4, ScFacts
        <4>6. PICK m2 : m2 = [m1 EXCEPT !.head = head]
          OBVIOUS
        <4>7. m2 \in [head : [ScFiles -> 1..MaxHead], others : SUBSET ScFiles]
          BY <4>3, <4>5, <4>6
        <4>8. depot' = m2
          BY <3>2, <4>1, <4>4, <4>6 DEF OtherSubmits
        <4> QED
          BY <4>7, <4>8
      <3> QED
        BY <1>2, <3>1, <3>2
    <2> QED
      BY <1>1, <2>1, <2>2, ScFacts, ScGoesOn
  <1>3. ASSUME NEW f \in ScFiles,
               \/ UserEdits(f) \/ UserOpens(f) \/ UserSyncs(f) \/ UserResolves(f) \/ UserReverts(f)
               \/ \E c \in 0..MaxChanges : UserMoves(f, c)
        PROVE  ScInv'
    <2>1. UNCHANGED <<depot, changes, cache, call, lostWork>>
      BY <1>3 DEF OnClient, UserEdits, UserOpens, UserSyncs, UserResolves, UserReverts, UserMoves
    <2>2. Follows(client', client)
      <3>1. CASE UserEdits(f)
        BY <3>1, WritableFollows, ScFacts DEF UserEdits
      <3>2. CASE UserOpens(f)
        BY <3>2, EditFollows, ScFacts DEF UserOpens
      <3>3. CASE UserSyncs(f)
        BY <3>3, SyncFollows, ScFacts DEF UserSyncs
      <3>4. CASE UserResolves(f)
        BY <3>4, WritableFollows, ScFacts DEF UserResolves
      <3>5. CASE UserReverts(f)
        BY <3>5, RevertFollows, ScFacts
      <3>6. ASSUME NEW c \in 0..MaxChanges, UserMoves(f, c)
            PROVE  Follows(client', client)
        BY <3>6, MoveFollows, ScFacts DEF UserMoves
      <3> QED
        BY <1>3, <3>1, <3>2, <3>3, <3>4, <3>5, <3>6
    <2> QED
      BY <1>1, <2>1, <2>2, ScFacts, ScGoesOn
  <1>4. ASSUME NEW c \in ChangeIds, UserSubmits(c)
        PROVE  ScInv'
    <2>1. UNCHANGED <<cache, call, lostWork>>
      BY <1>4 DEF UserSubmits
    <2>2. /\ Follows(client', client)
          /\ depot' \in [head : [ScFiles -> 1..MaxHead], others : SUBSET ScFiles]
          /\ changes' \in [ChangeIds -> [state : {"none", "pending", "submitted"}, text : Texts]]
      BY <1>4, SubmitFollows, ScFacts
    <2> QED
      BY <1>1, <2>1, <2>2, ScFacts, ScGoesOn
  <1>5. CASE ScRestart
    BY <1>1, <1>5, ScFacts, ScGoesOn DEF ScRestart
  <1> QED
    BY <1>2, <1>3, <1>4, <1>5 DEF OutsideSteps

\* At the start no call is in progress.
LEMMA ScStarts ==
  ScInit => ScInv
  <1> SUFFICES ASSUME ScInit
               PROVE  ScInv
    OBVIOUS
  <1>1. client \in Clients
    <2>1. [f \in ScFiles |-> 1] \in [ScFiles -> 1..MaxHead] /\ [f \in ScFiles |-> NotOpen] \in [ScFiles -> 0..NotOpen]
      BY ScAssumption, ChangeNumbers
    <2> QED
      BY <2>1 DEF ScInit, Clients
  <1>2. ScTypeOK
    BY <1>1, NoCallParts, ScAssumption DEF ScInit, ScTypeOK, Texts
  <1> QED
    BY <1>2, NoCallParts DEF ScInit, ScInv, NoLocalWorkLost, SyncsAreSafe, FilesAreTriedOrFailed

\* Every step keeps the invariant.
LEMMA ScStep ==
  ScInv /\ [ScNext]_scvars => ScInv'
  <1> SUFFICES ASSUME ScInv, [ScNext]_scvars
               PROVE  ScInv'
    OBVIOUS
  <1>1. CASE ToolBegins
    BY <1>1, WriteBeginsSafely, ChangelistBeginsSafely, ResolveBeginsSafely DEF ToolBegins
  <1>2. CASE ToolSteps
    BY <1>2, SyncKeepsInv, EditKeepsInv, CreateKeepsInv, FormKeepsInv, MovesKeepInv, ChecksOfMovesKeepInv, AnswersKeepInv
       DEF ToolSteps
  <1>3. CASE OutsideSteps
    BY <1>3, OutsideKeepsInv
  <1>4. CASE ProbeFails
    BY <1>4, AnswersKeepInv
  <1>5. CASE UNCHANGED scvars
    BY <1>5 DEF scvars, ScInv, ScTypeOK, NoLocalWorkLost, SyncsAreSafe, Exposed, FilesAreTriedOrFailed
  <1> QED
    BY <1>1, <1>2, <1>3, <1>4, <1>5 DEF ScNext

\* The inductive invariant of the source control tools.
THEOREM ScInvariant == ScSpec => []ScInv
  BY ScStarts, ScStep, PTL DEF ScSpec

\* No tool of the agent overwrites local edits: what it decided to sync was not exposed when
\* the status was read, and no step of the user, of p4 or of the agent exposes a file.
THEOREM LocalWorkIsKept == ScSpec => []NoLocalWorkLost
  <1>1. ScInv => NoLocalWorkLost
    BY DEF ScInv
  <1> QED
    BY <1>1, ScInvariant, PTL

\* A prepare_changelist that counts no file as failed has just seen every file it was given
\* in the target changelist.
THEOREM AnswersAreConfirmed == ScSpec => AnswersOnlyConfirmedMoves
  <1>1. ASSUME ScInv, [ScNext]_scvars, call.step = "move", call'.step = "answer", call'.failed = {}
        PROVE  \A f \in call.files : client.open[f] = call.target
    <2>1. VerifyMoves
      <3>1. CASE ToolBegins
        <4>1. call'.step \in {"run", "create", "read", "move", "status"}
          <5>1. PICK files \in SUBSET ScFiles :
                  \/ \E override, safeSync \in BOOLEAN : BeginPrepareWrite(files, override, safeSync)
                  \/ \E target \in 0..MaxChanges, text \in Texts, package \in BOOLEAN :
                       BeginPrepareChangelist(files, target, text, package)
                  \/ \E scope \in 0..MaxChanges : PreviewResolve(files, scope)
            BY <3>1 DEF ToolBegins
          <5>2. CASE \E override, safeSync \in BOOLEAN : BeginPrepareWrite(files, override, safeSync)
            BY <5>2 DEF BeginPrepareWrite, NoCall
          <5>3. CASE \E target \in 0..MaxChanges, text \in Texts, package \in BOOLEAN :
                       BeginPrepareChangelist(files, target, text, package)
            BY <5>3 DEF BeginPrepareChangelist, NoCall
          <5>4. CASE \E scope \in 0..MaxChanges : PreviewResolve(files, scope)
            BY <5>4 DEF PreviewResolve, NoCall
          <5> QED
            BY <5>1, <5>2, <5>3, <5>4
        <4> QED
          BY <1>1, <4>1
      <3>2. CASE ToolSteps /\ ~VerifyMoves
        <4>1. ASSUME NEW f \in ScFiles,
                     SyncFile(f) \/ EditFile(f) \/ OverrideFile(f) \/ ReopenFile(f) \/ MergeFile(f)
              PROVE  call'.step = call.step
          BY <1>1, <4>1, ScFacts DEF SyncFile, EditFile, OverrideFile, ReopenFile, MergeFile, Calls
        <4>2. ~(\E f \in ScFiles : SyncFile(f) \/ EditFile(f) \/ OverrideFile(f) \/ ReopenFile(f) \/ MergeFile(f))
          BY <1>1, <4>1
        <4>3. NoCall.step = "run"
          BY DEF NoCall
        <4>4. ~CreatePendingChangelist /\ ~ReadForm /\ ~WriteForm /\ ~CheckForm /\ ~ChooseMerges
          BY <1>1 DEF CreatePendingChangelist, ReadForm, WriteForm, CheckForm, InUpdate, ChooseMerges
        <4>5. ~AnswerPrepareWrite /\ ~AnswerPrepareChangelist /\ ~AnswerResolveText
          BY <1>1, <4>3 DEF AnswerPrepareWrite, AnswerPrepareChangelist, AnswerResolveText, Answers
        <4> QED
          BY <3>2, <4>2, <4>4, <4>5 DEF ToolSteps
      <3>3. CASE OutsideSteps \/ ProbeFails \/ UNCHANGED scvars
        <4>1. call' = call \/ call' = NoCall
          BY <3>3 DEF OutsideSteps, OtherOpens, OtherSubmits, OnClient, UserEdits, UserOpens, UserSyncs, UserResolves,
             UserReverts, UserMoves, UserSubmits, ScRestart, ProbeFails, scvars
        <4> QED
          BY <1>1, <4>1 DEF NoCall
      <3> QED
        BY <1>1, <3>1, <3>2, <3>3 DEF ScNext
    <2>2. PICK ok \in BOOLEAN, failed \in SUBSET ScFiles :
            /\ failed = call.failed \cup {f \in call.tried : ~ok \/ Unconfirmed(f)}
            /\ call' = [call EXCEPT !.step = "answer", !.failed = failed]
      <3>1. PICK ok \in (IF call.tried = {} THEN {TRUE} ELSE Queries) :
              call' = [call EXCEPT !.step = "answer",
                                   !.failed = @ \cup {f \in call.tried : ~ok \/ Unconfirmed(f)}]
        BY <2>1 DEF VerifyMoves
      <3>2. ok \in BOOLEAN
        BY <3>1, Zenon DEF Queries
      <3>3. PICK failed : failed = call.failed \cup {f \in call.tried : ~ok \/ Unconfirmed(f)}
        OBVIOUS
      <3>4. failed \in SUBSET ScFiles
        BY <1>1, <3>3, ScFacts
      <3>5. call' = [call EXCEPT !.step = "answer", !.failed = failed]
        BY <3>1, <3>3
      <3> QED
        BY <3>2, <3>3, <3>4, <3>5
    <2>3. call'.failed = failed
      <3>1. PICK m : m = [call EXCEPT !.step = "answer"]
        OBVIOUS
      <3>2. m \in Calls
        BY <1>1, <3>1, CallField, CallIsTyped
      <3>3. call' = [m EXCEPT !.failed = failed]
        BY <2>2, <3>1
      <3> QED
        BY <3>2, <3>3, CallField
    <2>4. call.files \subseteq call.tried
      <3>1. call.tool = "changelist"
        BY <2>1 DEF VerifyMoves, InUpdate
      <3> QED
        BY <1>1, <2>2, <2>3, <3>1, ScFacts
    <2> QED
      BY <1>1, <2>2, <2>3, <2>4 DEF Unconfirmed
  <1>2. ScInv /\ [ScNext]_scvars =>
          (call.step = "move" /\ call'.step = "answer" /\ call'.failed = {} => \A f \in call.files : client.open[f] = call.target)
    BY <1>1
  <1> QED
    BY <1>2, ScInvariant, PTL DEF ScSpec, AnswersOnlyConfirmedMoves
=============================================================================
