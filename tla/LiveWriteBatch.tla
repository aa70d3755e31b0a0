---------------------------- MODULE LiveWriteBatch ----------------------------
(***************************************************************************)
(* One bounded batch of live writes over several assets, from the apply    *)
(* through the checkpoint set that saves it and the aggregate              *)
(* verification to its recovery (BoundedBatchService, CheckpointSetService,*)
(* BatchRecoveryService), over the Editor of LiveEditor.                   *)
(*                                                                         *)
(* A batch tool calls the workflow once per operation or asset and writes  *)
(* its own record to disk after each.  The calls are steps of their own:   *)
(* the user works between them, and the server may die between them and    *)
(* between a call and the record of its result.  What a restart finds are  *)
(* the three JSON records; a call in progress, plans and save              *)
(* authorizations are gone.                                                *)
(***************************************************************************)
EXTENDS LiveEditor

CONSTANTS
  Batch,         \* the planned operations in order, grouped by asset
  Faults,        \* what goes wrong in a run, a subset of FaultKinds
  MaxSets,       \* bound: checkpoint sets prepared (MAX_CHECKPOINT_SETS)
  MaxRecoveries  \* bound: recoveries prepared (MAX_RECOVERIES)

FaultKinds == {"crash", "lost", "reject"}

ASSUME FaultsAssumption == Faults \subseteq FaultKinds
ASSUME BatchAssumption ==
  /\ Batch \in Seq([asset : Assets, target : Targets, value : Values])
  /\ Batch # <<>>
  /\ MaxSets \in Nat /\ MaxRecoveries \in Nat

Ops == DOMAIN Batch
SetIds == 1..MaxSets
RecoveryIds == 1..MaxRecoveries
NoRev == MaxRev + 1
NoSet == 0
NoSession == 0
BoundSession == 1   \* the Editor session the change set was created in

OpsOf(a) == {i \in Ops : Batch[i].asset = a}
BatchAssets == {Batch[i].asset : i \in Ops}

FirstOp(ops) == CHOOSE i \in ops : \A j \in ops : i <= j
LastOp(ops) == CHOOSE i \in ops : \A j \in ops : i >= j
FirstAsset(assets) == Batch[FirstOp(UNION {OpsOf(c) : c \in assets})].asset
LastAsset(assets) == Batch[LastOp(UNION {OpsOf(c) : c \in assets})].asset

\* execution.json, checkpoint-set.json with its child checkpoints, and
\* recovery.json.
Executions == [state : {"none", "applying", "applied", "partially_applied", "failed"},
               op    : [Ops -> {"pending", "verified", "applied_unverified", "no-op", "failed"}],
               tx    : [Ops -> {NoTx} \cup TxIds],
               order : SUBSET Ops]
CheckpointSets ==
  [state     : {"none", "checkpoint_prepared", "saving", "saved", "partially_saved", "failed"},
   child     : [Assets -> {"none", "prepared", "saved", "saved_unrecoverable", "failed"}],
   cp        : [Assets -> {"none", "prepared", "saved", "verified", "stale"}],
   after     : [Assets -> 0..NoRev],
   persisted : SUBSET Assets,
   included  : SUBSET Ops,
   verification : {"none", "verifying", "verified", "partially_verified", "failed"},
   checked   : SUBSET Assets]
Recoveries ==
  [state    : {"none", "recovery_prepared", "blocked", "recovering", "partially_recovered",
               "failed", "recovered"},
   set      : {NoSet} \cup SetIds,
   undone   : SUBSET Ops,
   restored : SUBSET Assets]
Backups == [set : SetIds, asset : Assets, content : Contents, rev : 0..MaxRev, after : 0..NoRev]
\* The call in progress: what it still has to do, and what only it knows.
Calls == [tool   : {"none", "apply", "save", "verify", "recover"},
          phase  : {"start", "verify", "write", "promote", "restore"},
          id     : 0..(MaxSets + MaxRecoveries),
          ops    : SUBSET Ops,
          assets : SUBSET Assets,
          tx     : {NoTx} \cup TxIds,
          done   : SUBSET Assets]

Idle == [tool |-> "none", phase |-> "start", id |-> 0, ops |-> {}, assets |-> {},
         tx |-> NoTx, done |-> {}]

VARIABLES
  call,      \* the batch tool call in progress, or Idle
  service,   \* in memory only: the batch plan, authorizations of checkpoint sets
  exec,      \* the execution record on disk
  sets,      \* the checkpoint set records on disk
  firstSet,  \* the set whose random name sorts first in the directory
  recs,      \* the recovery records on disk
  backups,   \* backup_root/live-save
  live,      \* operations with an unsaved live write record (on disk)
  place      \* history: where an operation's write is now

batchVars == <<call, service, exec, sets, firstSet, recs, backups, live, place>>
vars == <<editorVars, batchVars>>

BatchTypeOK ==
  /\ EditorTypeOK
  /\ call \in Calls
  /\ service \in [planned : BOOLEAN, auths : SUBSET SetIds]
  /\ exec \in Executions
  /\ sets \in [SetIds -> CheckpointSets]
  /\ firstSet \in {NoSet} \cup SetIds
  /\ recs \in [RecoveryIds -> Recoveries]
  /\ backups \subseteq Backups
  /\ live \subseteq Ops
  /\ place \in [Ops -> {"nowhere", "memory", "disk"}]

BatchInit ==
  /\ EditorInit
  /\ call = Idle
  /\ service = [planned |-> TRUE, auths |-> {}]
  /\ exec = [state |-> "none", op |-> [i \in Ops |-> "pending"],
             tx |-> [i \in Ops |-> NoTx], order |-> {}]
  /\ sets = [s \in SetIds |->
              [state |-> "none", child |-> [a \in Assets |-> "none"],
               cp |-> [a \in Assets |-> "none"], after |-> [a \in Assets |-> NoRev],
               persisted |-> {}, included |-> {}, verification |-> "none", checked |-> {}]]
  /\ firstSet = NoSet
  /\ recs = [r \in RecoveryIds |->
              [state |-> "none", set |-> NoSet, undone |-> {}, restored |-> {}]]
  /\ backups = {}
  /\ live = {}
  /\ place = [i \in Ops |-> "nowhere"]

-----------------------------------------------------------------------------
(* The workflow's view of an operation                                     *)

\* The frozen index describes revision 0 of every package.
Fresh(a) == rev[a] = 0

Moved(ops, from, to) ==
  [i \in Ops |-> IF i \in ops /\ place[i] = from THEN to ELSE place[i]]

Mutated_VerifiedOnly(e) == {i \in Ops : e.op[i] = "verified"}

Mutated(e) == {i \in Ops : e.op[i] \in {"verified", "applied_unverified"}}

\* The change set's last operation, when it is on the same asset and applied.
PreviousTransaction(i) ==
  IF i > 1 /\ Batch[i - 1].asset = Batch[i].asset /\ exec.op[i - 1] = "verified"
  THEN exec.tx[i - 1] ELSE NoTx

\* Unsaved writes of the change set to this asset, the effective ones, and
\* whether the Editor still holds them.
Included(a) == IF session = BoundSession THEN live \cap OpsOf(a) ELSE {}
Effective(ops) ==
  {i \in ops : \A j \in ops :
     Batch[j].asset = Batch[i].asset /\ Batch[j].target = Batch[i].target => j <= i}
Holds(content, ops) ==
  \A i \in Effective(ops) : content[Batch[i].asset][Batch[i].target] = Batch[i].value

-----------------------------------------------------------------------------
(* ue_apply_live_write_batch                                               *)

ApplyBatch ==
  /\ call = Idle
  /\ service.planned /\ exec.state = "none"
  /\ exec' = [exec EXCEPT !.state = "applying"]
  /\ call' = [Idle EXCEPT !.tool = "apply", !.ops = Ops]
  /\ UNCHANGED <<editorVars, service, sets, firstSet, recs, backups, live, place>>

InApply(phase, i) ==
  /\ call.tool = "apply" /\ call.phase = phase
  /\ call.ops # {} /\ i = FirstOp(call.ops)

WithOp(e, i, status, tx) == [e EXCEPT !.op[i] = status, !.tx[i] = tx]

\* _finalize_apply_failure: what was written is what recovery has to undo.
Finalized(e) ==
  [e EXCEPT !.order = Mutated(e),
            !.state = IF Mutated(e) # {} THEN "partially_applied" ELSE "failed"]

StopApply(i, status, tx) ==
  /\ exec' = Finalized(WithOp(exec, i, status, tx))
  /\ call' = Idle

OpAccepted(i) == session = BoundSession /\ link # "closed" /\ Fresh(Batch[i].asset)

\* The live record is on disk once the answer is there; the execution record
\* learns of the write only after its fast verification.
ApplyOp(i) ==
  LET op == Batch[i] IN
  /\ InApply("start", i)
  /\ OpAccepted(i)
  /\ ApplyChanged(op.asset, op.target, op.value, PreviousTransaction(i))
  /\ place' = [place EXCEPT ![i] = "memory"]
  /\ \/ /\ live' = live \cup {i}
        /\ call' = [call EXCEPT !.phase = "verify", !.tx = lastTx + 1]
        /\ UNCHANGED exec
     \/ /\ "lost" \in Faults
        /\ StopApply(i, "failed", NoTx)
        /\ UNCHANGED live
  /\ UNCHANGED <<service, sets, firstSet, recs, backups>>

ApplyOpUnchanged(i) ==
  LET op == Batch[i] IN
  /\ InApply("start", i)
  /\ OpAccepted(i)
  /\ ApplyUnchanged(op.asset, PreviousTransaction(i))
  /\ \/ /\ resident[op.asset][op.target] = op.value
        /\ exec' = WithOp(exec, i, "no-op", NoTx)
        /\ call' = [call EXCEPT !.ops = @ \ {i}]
     \/ /\ "reject" \in Faults
        /\ StopApply(i, "failed", NoTx)
  /\ UNCHANGED <<service, sets, firstSet, recs, backups, live, place>>

ApplyOpRefused(i) ==
  /\ InApply("start", i)
  /\ ~(OpAccepted(i) /\ ApplyAllowed(Batch[i].asset, PreviousTransaction(i)))
  /\ StopApply(i, "failed", NoTx)
  /\ UNCHANGED <<editorVars, service, sets, firstSet, recs, backups, live, place>>

VerifyOp(i) ==
  /\ InApply("verify", i)
  /\ IF /\ link # "closed" /\ session = BoundSession
        /\ resident[Batch[i].asset][Batch[i].target] = Batch[i].value
     THEN /\ exec' = WithOp(exec, i, "verified", call.tx)
          /\ call' = [call EXCEPT !.phase = "start", !.ops = @ \ {i}, !.tx = NoTx]
     ELSE StopApply(i, "applied_unverified", call.tx)
  /\ UNCHANGED <<editorVars, service, sets, firstSet, recs, backups, live, place>>

FinishApply ==
  /\ call.tool = "apply" /\ call.ops = {}
  /\ exec' = [exec EXCEPT !.state = "applied", !.order = Mutated(exec)]
  /\ call' = Idle
  /\ UNCHANGED <<editorVars, service, sets, firstSet, recs, backups, live, place>>

ApplySteps ==
  \/ ApplyBatch \/ FinishApply
  \/ \E i \in Ops : ApplyOp(i) \/ ApplyOpUnchanged(i) \/ ApplyOpRefused(i) \/ VerifyOp(i)

-----------------------------------------------------------------------------
(* ue_save_change_set_checkpoint                                           *)

Unused(table, id) ==
  table[id].state = "none" /\ \A k \in DOMAIN table : k < id => table[k].state # "none"

Savable(a) ==
  SaveAllowed(a) /\ Fresh(a) /\ Included(a) # {} /\ Holds(resident, Included(a))

\* Every asset is previewed, or the set is recorded as failed.
PreviewSet(s) ==
  /\ call = Idle
  /\ exec.state = "applied"
  /\ Unused(sets, s)
  /\ IF \A a \in BatchAssets : Savable(a)
     THEN /\ sets' = [sets EXCEPT
               ![s].state = "checkpoint_prepared",
               ![s].child = [a \in Assets |-> IF a \in BatchAssets THEN "prepared" ELSE "none"],
               ![s].cp    = [a \in Assets |-> IF a \in BatchAssets THEN "prepared" ELSE "none"],
               ![s].included = UNION {Included(a) : a \in BatchAssets}]
          /\ service' = [service EXCEPT !.auths = @ \cup {s}]
     ELSE sets' = [sets EXCEPT ![s].state = "failed"] /\ UNCHANGED service
  /\ firstSet' \in IF firstSet = NoSet THEN {s} ELSE {firstSet, s}
  /\ UNCHANGED <<editorVars, call, exec, recs, backups, live, place>>

\* preflight_checkpoint_commit, which the child's own Commit repeats: the
\* writes are still the previewed ones and still in Editor memory.
Preflight(s, a) ==
  /\ s \in service.auths
  /\ sets[s].cp[a] = "prepared"
  /\ link = "available" /\ session = BoundSession
  /\ Fresh(a)
  /\ Included(a) = sets[s].included \cap OpsOf(a)
  /\ Holds(resident, Included(a))

CommitSet(s) ==
  /\ call = Idle
  /\ sets[s].state = "checkpoint_prepared"
  /\ IF \A a \in BatchAssets : Preflight(s, a)
     THEN /\ sets' = [sets EXCEPT ![s].state = "saving"]
          /\ call' = [Idle EXCEPT !.tool = "save", !.id = s, !.assets = BatchAssets]
     ELSE sets' = [sets EXCEPT ![s].state = "failed"] /\ UNCHANGED call
  /\ UNCHANGED <<editorVars, service, exec, firstSet, recs, backups, live, place>>

InSave(phase, s, a) ==
  /\ call.tool = "save" /\ call.phase = phase /\ call.id = s
  /\ call.assets # {} /\ a = FirstAsset(call.assets)

SavedChildren(s) == {a \in BatchAssets : sets[s].child[a] = "saved"}

\* The loop's except branches: only the finished children count as persisted.
StopSave(s, a, childState) ==
  /\ sets' = [sets EXCEPT
       ![s].child[a]  = childState,
       ![s].persisted = SavedChildren(s),
       ![s].state     = IF SavedChildren(s) # {} THEN "partially_saved" ELSE "failed"]
  /\ call' = Idle

HasBackup(s, a) == \E b \in backups : b.set = s /\ b.asset = a

\* The checks and the backup of a child's Commit; the Editor saves later.
SaveChildBackup(s, a) ==
  /\ InSave("start", s, a)
  /\ IF SaveAllowed(a) /\ Preflight(s, a) /\ ~HasBackup(s, a)
     THEN /\ backups' = backups \cup {[set |-> s, asset |-> a, content |-> disk[a],
                                       rev |-> rev[a], after |-> NoRev]}
          /\ call' = [call EXCEPT !.phase = "write"]
          /\ UNCHANGED sets
     ELSE StopSave(s, a, "failed") /\ UNCHANGED backups
  /\ UNCHANGED <<editorVars, service, exec, firstSet, recs, live, place>>

SaveChildWrite(s, a) ==
  /\ InSave("write", s, a)
  /\ SaveAsset(a)
  /\ place' = Moved(OpsOf(a), "memory", "disk")
  /\ \/ /\ sets' = [sets EXCEPT ![s].cp[a] = "saved", ![s].after[a] = rev'[a]]
        /\ live' = live \ OpsOf(a)
        /\ call' = [call EXCEPT !.phase = "promote"]
     \/ /\ "lost" \in Faults
        /\ StopSave(s, a, "failed")
        /\ UNCHANGED live
  /\ UNCHANGED <<service, exec, firstSet, recs, backups>>

SaveChildRefused(s, a) ==
  /\ InSave("write", s, a)
  /\ ~SaveAllowed(a)
  /\ StopSave(s, a, "failed")
  /\ UNCHANGED <<editorVars, service, exec, firstSet, recs, backups, live, place>>

\* create_authorized_save_rollback_manifest; persistedAssets is written when the
\* loop ends, not here.
SaveChildPromote(s, a) ==
  /\ InSave("promote", s, a)
  /\ \/ /\ backups' = {IF b.set = s /\ b.asset = a THEN [b EXCEPT !.after = rev[a]] ELSE b
                         : b \in backups}
        /\ sets' = [sets EXCEPT ![s].child[a] = "saved"]
        /\ call' = [call EXCEPT !.phase = "start", !.assets = @ \ {a}]
     \/ /\ "reject" \in Faults
        /\ StopSave(s, a, "saved_unrecoverable")
        /\ UNCHANGED backups
  /\ UNCHANGED <<editorVars, service, exec, firstSet, recs, live, place>>

FinishSave(s) ==
  /\ call.tool = "save" /\ call.id = s /\ call.assets = {}
  /\ sets' = [sets EXCEPT ![s].state = "saved", ![s].persisted = BatchAssets]
  /\ call' = Idle
  /\ UNCHANGED <<editorVars, service, exec, firstSet, recs, backups, live, place>>

SaveSteps ==
  \E s \in SetIds :
    \/ PreviewSet(s) \/ CommitSet(s) \/ FinishSave(s)
    \/ \E a \in BatchAssets :
         \/ SaveChildBackup(s, a) \/ SaveChildWrite(s, a)
         \/ SaveChildRefused(s, a) \/ SaveChildPromote(s, a)

-----------------------------------------------------------------------------
(* ue_verify_change_set_checkpoint                                         *)

\* Children an earlier call verified are not verified again.
VerifySet(s) ==
  /\ call = Idle
  /\ sets[s].state = "saved" /\ sets[s].verification # "verified"
  /\ sets' = [sets EXCEPT ![s].verification = "verifying"]
  /\ call' = [Idle EXCEPT !.tool = "verify", !.id = s, !.assets = BatchAssets \ sets[s].checked,
                          !.done = sets[s].checked]
  /\ UNCHANGED <<editorVars, service, exec, firstSet, recs, backups, live, place>>

ChildHolds_RevisionOnly(s, a) ==
  sets[s].cp[a] = "verified" \/ (sets[s].cp[a] = "saved" /\ rev[a] = sets[s].after[a])

\* verify_live_write_checkpoint: an independent process exports the package file.
ChildHolds(s, a) ==
  \/ sets[s].cp[a] = "verified"
  \/ /\ sets[s].cp[a] = "saved" /\ rev[a] = sets[s].after[a]
     /\ Holds(disk, sets[s].included \cap OpsOf(a))

VerifiedCheckpoint_ChildState(s, a, ok) == IF ok THEN "verified" ELSE "failed"

VerifiedCheckpoint(s, a, ok) ==
  IF ok THEN "verified"
  ELSE IF sets[s].cp[a] = "saved" /\ rev[a] # sets[s].after[a] THEN "stale"
  ELSE sets[s].cp[a]

\* The results are on disk once all children have one.  The process may fail.
VerifyChild(s, a) ==
  /\ call.tool = "verify" /\ call.id = s
  /\ call.assets # {} /\ a = FirstAsset(call.assets)
  /\ \E ok \in {ChildHolds(s, a), FALSE} :
       LET done == call.done \cup (IF ok THEN {a} ELSE {}) IN
       /\ sets' = [sets EXCEPT ![s].cp[a] = VerifiedCheckpoint(s, a, ok),
                               ![s].checked = IF call.assets = {a} THEN done ELSE @]
       /\ call' = [call EXCEPT !.assets = @ \ {a}, !.done = done]
  /\ UNCHANGED <<editorVars, service, exec, firstSet, recs, backups, live, place>>

\* complete: the semantic diff, the required actions and the trust verdict.
FinishVerify(s) ==
  /\ call.tool = "verify" /\ call.id = s /\ call.assets = {}
  /\ \E complete \in BOOLEAN :
       sets' = [sets EXCEPT ![s].verification =
                 IF complete /\ call.done = BatchAssets THEN "verified"
                 ELSE IF call.done # {} THEN "partially_verified" ELSE "failed"]
  /\ call' = Idle
  /\ UNCHANGED <<editorVars, service, exec, firstSet, recs, backups, live, place>>

VerifySteps ==
  \E s \in SetIds :
    VerifySet(s) \/ FinishVerify(s) \/ \E a \in BatchAssets : VerifyChild(s, a)

-----------------------------------------------------------------------------
(* ue_recover_live_write_batch                                             *)

\* _build_plan: the packages to roll back and the operations to undo.
PersistedIn(s) == IF s = NoSet THEN {} ELSE sets[s].persisted
SavedIn(s) ==
  {a \in PersistedIn(s) : /\ sets[s].state \in {"saved", "partially_saved", "failed"}
                          /\ sets[s].child[a] \in {"saved", "saved_unrecoverable"}}
ResidentOps_AllSetAssets(s) ==
  {i \in exec.order : s = NoSet \/ sets[s].child[Batch[i].asset] = "none"}

ResidentOps(s) == {i \in exec.order : Batch[i].asset \notin PersistedIn(s)}

\* The session of a plan is that of its first operation; a no-op has none.
PlanSession == IF exec.op[1] \in {"verified", "applied_unverified"} THEN BoundSession ELSE NoSession

\* _preflight
Blocked(s, ops, assets) ==
  \/ \E a \in assets : ~\E b \in backups : b.set = s /\ b.asset = a /\ b.after # NoRev
  \/ ops # {} /\ (link = "closed" \/ session # PlanSession)

PreviewRecovery(r) ==
  /\ call = Idle
  /\ exec.state # "none"
  /\ Unused(recs, r)
  /\ recs' = [recs EXCEPT
       ![r].set   = firstSet,
       ![r].state = IF Blocked(firstSet, ResidentOps(firstSet), SavedIn(firstSet))
                    THEN "blocked" ELSE "recovery_prepared"]
  /\ UNCHANGED <<editorVars, call, service, exec, sets, firstSet, backups, live, place>>

CommitRecovery(r) ==
  LET s      == IF recs[r].set = NoSet THEN firstSet ELSE recs[r].set
      ops    == ResidentOps(s) \ recs[r].undone
      assets == SavedIn(s) \ recs[r].restored
      stale  == \E a \in recs[r].restored : rev[a] # 0
  IN
  /\ call = Idle
  /\ recs[r].state \in {"recovery_prepared", "blocked", "partially_recovered"}
  /\ IF stale \/ Blocked(s, ops, assets)
     THEN recs' = [recs EXCEPT ![r].state = "blocked"] /\ UNCHANGED call
     ELSE /\ recs' = [recs EXCEPT ![r].state = "recovering"]
          /\ call' = [Idle EXCEPT !.tool = "recover", !.id = r, !.ops = ops, !.assets = assets]
  /\ UNCHANGED <<editorVars, service, exec, sets, firstSet, backups, live, place>>

InUndo(r, i) ==
  /\ call.tool = "recover" /\ call.id = r
  /\ call.ops # {} /\ i = LastOp(call.ops)

InRollback_AnyTime(phase, r, a) ==
  /\ call.tool = "recover" /\ call.id = r /\ call.phase = phase
  /\ call.assets # {} /\ a = LastAsset(call.assets)

InRollback(phase, r, a) ==
  /\ call.tool = "recover" /\ call.id = r /\ call.phase = phase
  /\ call.ops = {}
  /\ call.assets # {} /\ a = LastAsset(call.assets)

StopRecovery(r, otherwise) ==
  /\ recs' = [recs EXCEPT ![r].state =
               IF recs[r].undone # {} \/ recs[r].restored # {}
               THEN "partially_recovered" ELSE otherwise]
  /\ call' = Idle

UndoOp(r, i) ==
  /\ InUndo(r, i)
  /\ RevertWrite(Batch[i].asset, exec.tx[i], BoundSession, TRUE)
  /\ place' = Moved({i}, "memory", "nowhere")
  /\ \/ /\ recs' = [recs EXCEPT ![r].undone = @ \cup {i}]
        /\ call' = [call EXCEPT !.ops = @ \ {i}]
        /\ live' = live \ {i}
     \/ /\ "lost" \in Faults
        /\ StopRecovery(r, "blocked")
        /\ UNCHANGED live
  /\ UNCHANGED <<service, exec, sets, firstSet, backups>>

UndoOpRefused(r, i) ==
  /\ InUndo(r, i)
  /\ ~RevertAllowed(Batch[i].asset, exec.tx[i], BoundSession)
  /\ StopRecovery(r, "blocked")
  /\ UNCHANGED <<editorVars, service, exec, sets, firstSet, backups, live, place>>

\* prepare_asset_for_disk_rollback; without an Editor there is nothing to unload.
PrepareRollback(r, a) ==
  /\ InRollback("start", r, a)
  /\ \/ PrepareDiskRollback(a)
     \/ (link = "closed" \/ (link = "available" /\ ~loaded[a])) /\ UNCHANGED editorVars
  /\ call' = [call EXCEPT !.phase = "restore"]
  /\ UNCHANGED <<service, exec, sets, firstSet, recs, backups, live, place>>

PrepareRollbackFails(r, a) ==
  /\ InRollback("start", r, a)
  /\ \/ PrepareDiskRollbackFails(a)
     \/ ~(link # "playing" /\ (loaded[a] => ~dirty[a])) /\ UNCHANGED editorVars
  /\ StopRecovery(r, "failed")
  /\ UNCHANGED <<service, exec, sets, firstSet, backups, live, place>>

\* The manifest still describes the package and nobody opened it again.
RollbackPermitted(s, a) ==
  ~loaded[a] /\ \E b \in backups : b.set = s /\ b.asset = a /\ b.after = rev[a]

SetOf(r) == IF recs[r].set = NoSet THEN firstSet ELSE recs[r].set

\* rollback_authorized_live_save, Dry Run and Commit.
RestoreAsset(r, a) ==
  /\ InRollback("restore", r, a)
  /\ RollbackPermitted(SetOf(r), a)
  /\ \E b \in backups :
       b.set = SetOf(r) /\ b.asset = a /\ RestoreFile(a, b.content, b.rev)
  /\ place' = Moved(OpsOf(a), "disk", "nowhere")
  /\ \/ /\ recs' = [recs EXCEPT ![r].restored = @ \cup {a}]
        /\ call' = [call EXCEPT !.phase = "start", !.assets = @ \ {a}]
     \/ "lost" \in Faults /\ StopRecovery(r, "failed")
  /\ UNCHANGED <<service, exec, sets, firstSet, backups, live>>

RestoreAssetRefused(r, a) ==
  /\ InRollback("restore", r, a)
  /\ ~RollbackPermitted(SetOf(r), a)
  /\ StopRecovery(r, "failed")
  /\ UNCHANGED <<editorVars, service, exec, sets, firstSet, backups, live, place>>

FinishRecovery(r) ==
  /\ call.tool = "recover" /\ call.id = r
  /\ call.ops = {} /\ call.assets = {}
  /\ recs' = [recs EXCEPT ![r].state = "recovered"]
  /\ call' = Idle
  /\ UNCHANGED <<editorVars, service, exec, sets, firstSet, backups, live, place>>

RecoverySteps ==
  \E r \in RecoveryIds :
    \/ PreviewRecovery(r) \/ CommitRecovery(r) \/ FinishRecovery(r)
    \/ \E i \in Ops : UndoOp(r, i) \/ UndoOpRefused(r, i)
    \/ \E a \in BatchAssets :
         \/ PrepareRollback(r, a) \/ PrepareRollbackFails(r, a)
         \/ RestoreAsset(r, a) \/ RestoreAssetRefused(r, a)

-----------------------------------------------------------------------------
(* The server dies; the user works; the Editor comes and goes              *)

ServerCrash ==
  /\ "crash" \in Faults
  /\ call' = Idle
  /\ service' = [planned |-> FALSE, auths |-> {}]
  /\ UNCHANGED <<editorVars, exec, sets, firstSet, recs, backups, live, place>>

UserStep ==
  /\ \/ \E a \in Assets, t \in Targets, v \in Values : UserEdit(a, t, v) /\ UNCHANGED place
     \/ \E a \in Assets : UserSave(a) /\ place' = Moved(OpsOf(a), "memory", "disk")
     \/ \E a \in Assets : UserOpen(a) /\ UNCHANGED place
     \/ EditorExit /\ place' = Moved(Ops, "memory", "nowhere")
     \/ EditorStart /\ UNCHANGED place
  /\ UNCHANGED <<call, service, exec, sets, firstSet, recs, backups, live>>

BatchNext ==
  \/ ApplySteps \/ SaveSteps \/ VerifySteps \/ RecoverySteps
  \/ ServerCrash \/ UserStep

BatchSpec == BatchInit /\ [][BatchNext]_vars

-----------------------------------------------------------------------------
(* Properties                                                              *)

\* Once an execution is finished, in whatever way, every write of it the Editor
\* still holds is in the recovery order, or is the one operation reported as
\* failed (apply_live_write_batch, _finalize_apply_failure): nothing else that a
\* batch did in the Editor is lost to recovery, whoever interfered and whenever
\* the server died.
FinishedExecutionAccountsForWrites ==
  exec.state \in {"applied", "partially_applied", "failed"} =>
    \A i \in Ops : place[i] = "memory" => i \in exec.order \/ exec.op[i] = "failed"

\* A recovery that ends as recovered has taken back every write of its
\* execution's recovery order, in memory or on disk, over failed, interrupted and
\* resumed attempts, whatever the checkpoint set persisted and restarts of the Editor.
RecoveredMeansTakenBack ==
  [][\A r \in RecoveryIds :
       recs[r].state # "recovered" /\ recs'[r].state = "recovered" =>
         \A i \in exec.order : place[i] = "nowhere"]_vars

\* "Recover resident unsaved transactions first so package unload cannot
\* invalidate unrelated transaction identities that still require exact Undo":
\* when a package is unloaded, which empties the Undo buffer, no write of the
\* batch is left in memory.
UndoneBeforeUnload ==
  [][\A r \in RecoveryIds, a \in BatchAssets :
       PrepareRollback(r, a) /\ loaded[a] => \A i \in Ops : place[i] # "memory"]_vars

\* What a set reports as verified is on disk: the last value of each target, in
\* every package not saved again, although the user may edit between the last
\* look at the memory and the save and children are verified in several calls.
VerifiedSetHoldsTheBatch ==
  \A s \in SetIds : sets[s].verification = "verified" =>
    \A a \in BatchAssets : rev[a] = sets[s].after[a] =>
      Holds(disk, sets[s].included \cap OpsOf(a))

\* "durable recovery for one W4 Batch Execution", fullyRecovered: nothing the
\* batch wrote is left, in Editor memory or on disk.
RecoveredLeavesNoWrite ==
  [][\A r \in RecoveryIds :
       recs[r].state # "recovered" /\ recs'[r].state = "recovered" =>
         \A i \in Ops : place[i] = "nowhere"]_vars
=============================================================================
