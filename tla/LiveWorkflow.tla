---------------------------- MODULE LiveWorkflow ----------------------------
(***************************************************************************)
(* The live-write workflow of the MCP server (PatchWorkflowService) over   *)
(* one Editor: plan and apply, undo and discard, authorized saves, save    *)
(* checkpoints, independent verification, disk rollback, and the change    *)
(* sets that tie a task's operations together.                             *)
(*                                                                         *)
(* The service holds one lock for a whole tool call, so a call is one      *)
(* step; between two calls the user works in the Editor.  Every record a   *)
(* call changes is written to its journal file before the next one is      *)
(* changed, so what a crash leaves behind is one of the call's             *)
(* intermediate states, loaded again by Loaded.                            *)
(*                                                                         *)
(* A change set also lists the patches a task commits offline.  Here they  *)
(* write packages other than Assets; what they do to their file is in      *)
(* PatchCommits.                                                           *)
(***************************************************************************)
EXTENDS LiveEditor, ChangeSets

CONSTANTS
  ChangeSetIds,  \* change sets that can be created
  Tools,         \* what happens in a run, a subset of ToolKinds
  MaxSlots,      \* MAX_CHANGE_SETS
  MaxOps,        \* MAX_CHANGE_SET_RECEIPTS
  MaxLive,       \* MAX_WORKFLOW_RECORDS, for live write records
  MaxSaves       \* bound: save receipts ever issued

ToolKinds == {"unbound", "revert", "immediate", "checkpoint", "rollback",
              "patch", "refresh", "crash", "lost"}

ASSUME ToolsAssumption == Tools \subseteq ToolKinds
ASSUME WorkflowBoundsAssumption ==
  /\ MaxSlots \in Nat \ {0} /\ MaxOps \in Nat \ {0} /\ MaxLive \in Nat \ {0}
  /\ MaxSaves \in Nat

NoChangeSet == "none"   \* a call without change_set_id
NoReceipt == 0          \* a no-op operation, or a committed patch, has no live write
OtherPackage == "other" \* what a committed patch writes
NoSession == 0
NoRev == MaxRev + 1

Receipts == TxIds       \* a live write is known by its transaction
SaveIds == 1..MaxSaves

\* ChangeSetOperationRecord, LiveApplyRecord, LiveWriteCheckpointRecord,
\* SaveAuthorizationRecord and a backup directory with its manifests.
\* apply: the ApplyRecord the server holds under the receipt of a committed
\* patch, which is saved when it is bound.
Operations ==
  {op \in [receipt : Receipts \cup {NoReceipt}, asset : Assets \cup {OtherPackage},
           status : OperationStatuses, apply : {"none", "unverified", "verified"}] :
     op.apply # "none" => /\ op.receipt = NoReceipt
                          /\ op.status \in {"saved", "verified"}
                          /\ op.apply = "unverified" => op.status = "saved"}
LiveApplies == [receipt : Receipts, asset : Assets, target : Targets,
                after : Values, sess : 1..MaxSessions,
                saved : BOOLEAN, save : SaveIds \cup {0}]
Writes == [receipt : Receipts, target : Targets, after : Values]
Checkpoints == [id : SaveIds, cs : ChangeSetIds, asset : Assets,
                state : {"prepared", "saved", "verified", "stale"},
                sess : 1..MaxSessions, afterRev : 0..NoRev,
                effective : SUBSET Writes, superseded : SUBSET Receipts]
Authorizations == [id : SaveIds, kind : {"immediate", "checkpoint"},
                   asset : Assets, rev : 0..MaxRev, sess : 1..MaxSessions]
\* after: the afterRevision of the rollback manifest; wrote: history, the
\* revision the authorized save put on disk.
Backups == [id : SaveIds, asset : Assets, content : Contents, rev : 0..MaxRev,
            after : 0..NoRev, wrote : 0..NoRev]

VARIABLES
  server,    \* the service: phase, ops, bound, live, cps, auths
  indexRev,  \* revision of each asset in the active index generation
  backups,   \* backup_root/live-save
  lastSave   \* save receipts issued

workflowVars == <<server, indexRev, backups, lastSave>>
vars == <<editorVars, workflowVars>>

Servers ==
  [phase : [ChangeSetIds -> {"new", "open", "gone"}],
   ops   : [ChangeSetIds -> Seq(Operations)],
   bound : [ChangeSetIds -> 0..MaxSessions],
   live  : SUBSET LiveApplies,
   cps   : SUBSET Checkpoints,
   auths : SUBSET Authorizations]

WorkflowTypeOK ==
  /\ server \in Servers
  /\ indexRev \in [Assets -> 0..MaxRev]
  /\ backups \subseteq Backups
  /\ lastSave \in 0..MaxSaves

WorkflowInit ==
  /\ EditorInit
  /\ server = [phase |-> [c \in ChangeSetIds |-> "new"],
               ops   |-> [c \in ChangeSetIds |-> <<>>],
               bound |-> [c \in ChangeSetIds |-> NoSession],
               live  |-> {}, cps |-> {}, auths |-> {}]
  /\ indexRev = rev
  /\ backups = {}
  /\ lastSave = 0

-----------------------------------------------------------------------------
(* Records                                                                 *)

EditorAvailable == link # "closed"

\* The index, its revision export and the package on disk agree, and no
\* authorized save of this session changed the package.
Fresh(a) == rev[a] = indexRev[a]

Statuses(m, c) == {m.ops[c][i].status : i \in DOMAIN m.ops[c]}
BoundReceipts(m, c) == {m.ops[c][i].receipt : i \in DOMAIN m.ops[c]} \ {NoReceipt}
StatusOf(m, c, r) ==
  (CHOOSE op \in {m.ops[c][i] : i \in DOMAIN m.ops[c]} : op.receipt = r).status

IsLive(m, r) == \E l \in m.live : l.receipt = r
LiveApply(m, r) == CHOOSE l \in m.live : l.receipt = r
WithoutLive_WholeAsset(m, r) ==
  [m EXCEPT !.live = {l \in @ : l.asset # LiveApply(m, r).asset}]
WithoutLive(m, r) == [m EXCEPT !.live = {l \in @ : l.receipt # r}]

MarkSaved(m, receipts, id) ==
  [m EXCEPT !.live = {IF l.receipt \in receipts
                      THEN [l EXCEPT !.saved = TRUE, !.save = id] ELSE l : l \in @}]

\* _assert_change_set_member, for a call that may come without a change set.
IsMember(m, c, r) ==
  c # NoChangeSet => m.phase[c] = "open" /\ r \in BoundReceipts(m, c)

WithStatus(op, status) == [op EXCEPT !.status = status]

SetStatus(m, c, receipts, status) ==
  IF c = NoChangeSet THEN m
  ELSE [m EXCEPT !.ops[c] =
         [i \in DOMAIN @ |-> IF @[i].receipt \in receipts
                             THEN WithStatus(@[i], status) ELSE @[i]]]

AppendOperation(m, c, a, r, status) ==
  [m EXCEPT !.ops[c] = Append(@, [receipt |-> r, asset |-> a, status |-> status,
                                  apply |-> "none"]),
            !.bound[c] = IF r # NoReceipt \/ @ = NoSession THEN session ELSE @]

\* What the apply and live records and the Editor's session say of an operation now.
ReconciledStatus_SupersededToo(m, op) ==
  IF op.apply # "none" THEN IF op.apply = "verified" THEN "verified" ELSE "saved"
  ELSE IF ~IsLive(m, op.receipt) THEN IF op.status = "applied" THEN "unknown" ELSE op.status
  ELSE LET l == LiveApply(m, op.receipt) IN
         IF l.saved THEN "saved"
         ELSE IF EditorAvailable /\ l.sess = session THEN "applied"
         ELSE IF op.status \in {"applied", "unknown"} THEN "unknown"
         ELSE op.status

ReconciledStatus(m, op) ==
  IF op.status = "superseded" /\ op.apply = "none" THEN op.status
  ELSE ReconciledStatus_SupersededToo(m, op)

\* The mistake of leaving an operation alone whose live record is gone.
Reconciled_OnlyLive(m, c) ==
  [m EXCEPT !.ops[c] =
    [i \in DOMAIN @ |-> IF IsLive(m, @[i].receipt)
                        THEN WithStatus(@[i], ReconciledStatus(m, @[i])) ELSE @[i]]]

Reconciled(m, c) ==
  [m EXCEPT !.ops[c] =
    [i \in DOMAIN @ |-> WithStatus(@[i], ReconciledStatus(m, @[i]))]]

WithApply(op, apply) == [op EXCEPT !.apply = apply]

\* A restart: records come back from their journals, an applied operation has
\* to be proven again, apply records, one-time authorizations and plans are gone.
Loaded(m) ==
  [m EXCEPT !.ops = [c \in ChangeSetIds |->
                      [i \in DOMAIN @[c] |->
                        LET op == WithApply(@[c][i], "none") IN
                          IF op.status = "applied" THEN WithStatus(op, "unknown") ELSE op]],
            !.auths = {}]

\* _prune_records: a new live record displaces older ones, the oldest first; after
\* a restart the order is that of the journals' file names, which is arbitrary.
Prunings(live) ==
  {kept \in SUBSET live :
     \/ kept = live /\ Cardinality(live) <= MaxLive
     \/ /\ Cardinality(kept) = MaxLive
        /\ \A l \in live \ kept : \E k \in kept : k.receipt > l.receipt}
Pruned(m, kept) == [m EXCEPT !.live = kept]

\* A call ends in m, or the server dies in one of its intermediate states.
Finish(m, partial) ==
  \/ server' = m
  \/ "crash" \in Tools /\ \E p \in partial : server' = Loaded(p)

-----------------------------------------------------------------------------
(* ue_create_change_set, ue_get_change_set, discard_empty_change_set       *)

OpenChangeSets == {c \in ChangeSetIds : server.phase[c] = "open"}

Forget(m, forgotten) ==
  [m EXCEPT !.phase = [c \in ChangeSetIds |-> IF c \in forgotten THEN "gone" ELSE @[c]],
            !.ops = [c \in ChangeSetIds |-> IF c \in forgotten THEN <<>> ELSE @[c]]]

Prunable_AnyOpen(c) == TRUE

\* _prune_terminal_change_sets: only terminal change sets make room.
Prunable(c) == IsTerminal(Statuses(server, c))

CreateChangeSet(c) ==
  /\ server.phase[c] = "new"
  /\ \E forgotten \in SUBSET {d \in OpenChangeSets : Prunable(d)} :
       /\ Cardinality(OpenChangeSets \ forgotten) < MaxSlots
       /\ \A d \in forgotten : Cardinality(OpenChangeSets \ forgotten) = MaxSlots - 1
       /\ LET m == Forget(server, forgotten) IN
            Finish([m EXCEPT !.phase[c] = "open",
                             !.bound[c] = IF EditorAvailable THEN session ELSE NoSession],
                   {m})
  /\ UNCHANGED <<editorVars, indexRev, backups, lastSave>>

GetChangeSet(c) ==
  /\ server.phase[c] = "open"
  /\ Finish(Reconciled(server, c), {})
  /\ UNCHANGED <<editorVars, indexRev, backups, lastSave>>

DiscardEmpty(c) ==
  /\ server.phase[c] = "open" /\ server.ops[c] = <<>>
  /\ Finish(Forget(server, {c}), {})
  /\ UNCHANGED <<editorVars, indexRev, backups, lastSave>>

-----------------------------------------------------------------------------
(* ue_apply_asset_property_live                                            *)

\* The change set as the call leaves it even when it then refuses the write.
Begun(c) == IF c = NoChangeSet THEN server ELSE Reconciled(server, c)

Accepts(m, c) ==
  c # NoChangeSet =>
    /\ m.phase[c] = "open"
    /\ ~IsClosed(Statuses(m, c))
    /\ Len(m.ops[c]) < MaxOps
    /\ m.bound[c] \in {NoSession, session}

\* Only the write the change set made last, on this asset and still applied,
\* may be continued on a dirty package.
PreviousTransaction(m, c, a) ==
  IF c = NoChangeSet \/ m.ops[c] = <<>> THEN NoTx
  ELSE LET op == m.ops[c][Len(m.ops[c])] IN
         IF op.asset = a /\ op.status = "applied" THEN op.receipt ELSE NoTx

WithWrite(m, a, t, v) ==
  [m EXCEPT !.live = @ \cup {[receipt |-> lastTx + 1, asset |-> a, target |-> t,
                              after |-> v, sess |-> session, saved |-> FALSE, save |-> 0]}]

ApplyCallable(c) == IF c = NoChangeSet THEN "unbound" \in Tools ELSE server.phase[c] = "open"

Apply(c, a, t, v) ==
  /\ ApplyCallable(c)
  /\ LET begun   == Begun(c)
         journal == WithWrite(begun, a, t, v)
         bound   == IF c = NoChangeSet THEN journal
                    ELSE AppendOperation(journal, c, a, lastTx + 1, "applied")
     IN
       /\ Accepts(begun, c)
       /\ Fresh(a)
       /\ ApplyChanged(a, t, v, PreviousTransaction(begun, c, a))
       /\ \/ \E kept \in Prunings(bound.live) :
               Finish(Pruned(bound, kept), {begun, journal, bound})
          \/ "lost" \in Tools /\ server' = begun
  /\ UNCHANGED <<indexRev, backups, lastSave>>

\* No value change: a no-op operation.  A value the Editor rejects, or a failed
\* compile, changes nothing either, and binds nothing.
ApplyNoChange(c, a) ==
  /\ ApplyCallable(c)
  /\ LET begun == Begun(c) IN
       /\ Accepts(begun, c)
       /\ Fresh(a)
       /\ ApplyUnchanged(a, PreviousTransaction(begun, c, a))
       /\ \/ server' = begun
          \/ /\ c # NoChangeSet
             /\ Finish(AppendOperation(begun, c, a, NoReceipt, "no-op"), {begun})
  /\ UNCHANGED <<indexRev, backups, lastSave>>

-----------------------------------------------------------------------------
(* ue_undo_asset_property_live, ue_discard_asset_property_live             *)

RevertStatuses == {"undone", "discarded"}

\* Without a change set the Editor also undoes a write the server has no record
\* of any more.
Revert(c, a, r, status) ==
  /\ "revert" \in Tools
  /\ c # NoChangeSet => IsLive(server, r) /\ IsMember(server, c, r)
  /\ RevertWrite(a, r, session, status = "undone")
  /\ LET updated == SetStatus(server, c, {r}, status) IN
       \/ Finish(WithoutLive(updated, r), {server, updated})
       \/ "lost" \in Tools /\ UNCHANGED server
  /\ UNCHANGED <<indexRev, backups, lastSave>>

-----------------------------------------------------------------------------
(* ue_save_authorized_asset                                                *)

HasLiveWriteOn(c, a) ==
  c # NoChangeSet =>
    /\ server.phase[c] = "open"
    /\ \E l \in server.live : l.asset = a /\ l.receipt \in BoundReceipts(server, c)

SaveCallable(c, a) == HasLiveWriteOn(c, a) /\ Fresh(a) /\ SaveAllowed(a)

Authorization_LastReceipt(a, kind) ==
  [id |-> lastSave, kind |-> kind, asset |-> a, rev |-> rev[a], sess |-> session]

Authorization(a, kind) ==
  [id |-> lastSave + 1, kind |-> kind, asset |-> a, rev |-> rev[a], sess |-> session]

ImmediatePreview(c, a) ==
  /\ "immediate" \in Tools
  /\ SaveCallable(c, a)
  /\ lastSave < MaxSaves
  /\ lastSave' = lastSave + 1
  /\ server' = [server EXCEPT !.auths = @ \cup {Authorization(a, "immediate")}]
  /\ UNCHANGED <<editorVars, indexRev, backups>>

\* The authorization still fits; its backup directory must not exist yet.
Authorized(auth, a) ==
  /\ auth.asset = a /\ auth.rev = rev[a] /\ auth.sess = session
  /\ \A b \in backups : b.id # auth.id

WithBackup(id, a, wrote) ==
  backups \cup {[id |-> id, asset |-> a, content |-> disk[a], rev |-> rev[a],
                 after |-> NoRev, wrote |-> wrote]}

Consumed(m, auth) == [m EXCEPT !.auths = @ \ {auth}]

\* The write an immediate save marks: the latest unsaved one of this asset and
\* session, of the change set if one is given.
ImmediatelySaved(c, a) ==
  LET candidates == {l.receipt : l \in {k \in server.live :
                       /\ k.asset = a /\ k.sess = session /\ ~k.saved
                       /\ c # NoChangeSet => k.receipt \in BoundReceipts(server, c)}}
  IN {r \in candidates : \A s \in candidates : s <= r}

\* A checkpoint's authorization passes here as well.
ImmediateCommit(c, a, auth) ==
  /\ "immediate" \in Tools
  /\ SaveCallable(c, a)
  /\ Authorized(auth, a)
  /\ SaveAsset(a)
  /\ backups' = WithBackup(auth.id, a, rev'[a])
  /\ LET receipts == ImmediatelySaved(c, a)
         marked   == MarkSaved(Consumed(server, auth), receipts, auth.id)
     IN Finish(SetStatus(marked, c, receipts, "saved"), {server, marked})
  /\ UNCHANGED <<indexRev, lastSave>>

\* The bridge call fails, or its answer or the export after it is lost once the
\* package is on disk.  The receipt keeps its backup and cannot be used again.
SaveFails(c, a, auth) ==
  /\ "lost" \in Tools
  /\ SaveCallable(c, a)
  /\ Authorized(auth, a)
  /\ \/ SaveAsset(a) /\ backups' = WithBackup(auth.id, a, rev'[a])
     \/ UNCHANGED editorVars /\ backups' = WithBackup(auth.id, a, NoRev)
  /\ UNCHANGED <<server, indexRev, lastSave>>

-----------------------------------------------------------------------------
(* verification_mode=checkpoint                                            *)

\* _derive_checkpoint_operations: the applied, unsaved writes of this asset and
\* session; the last one of each target is effective.
Included(c, a) ==
  {l \in server.live :
     /\ l.asset = a /\ l.sess = session /\ ~l.saved
     /\ l.receipt \in BoundReceipts(server, c)
     /\ StatusOf(server, c, l.receipt) = "applied"}
Effective(c, a) ==
  {l \in Included(c, a) : \A k \in Included(c, a) : k.target = l.target => k.receipt <= l.receipt}
AsWrites(applies) ==
  {[receipt |-> l.receipt, target |-> l.target, after |-> l.after] : l \in applies}
SupersededBy(c, a) == {l.receipt : l \in Included(c, a) \ Effective(c, a)}

\* _fast_verify_live_record
ResidentIn(a, writes) == \A w \in writes : resident[a][w.target] = w.after

CheckpointPreview(c, a) ==
  /\ "checkpoint" \in Tools
  /\ SaveCallable(c, a)
  /\ Effective(c, a) # {}
  /\ ResidentIn(a, AsWrites(Effective(c, a)))
  /\ lastSave < MaxSaves
  /\ lastSave' = lastSave + 1
  /\ LET journal == [server EXCEPT !.cps = @ \cup
           {[id |-> lastSave + 1, cs |-> c, asset |-> a, state |-> "prepared",
             sess |-> session, afterRev |-> NoRev, effective |-> AsWrites(Effective(c, a)),
             superseded |-> SupersededBy(c, a)]}]
     IN Finish([journal EXCEPT !.auths = @ \cup {Authorization(a, "checkpoint")}], {journal})
  /\ UNCHANGED <<editorVars, indexRev, backups>>

WithCheckpoint(m, cp, state, afterRev) ==
  [m EXCEPT !.cps = (@ \ {cp}) \cup {[cp EXCEPT !.state = state, !.afterRev = afterRev]}]

\* A loop over S that makes two updates per item, cut anywhere.
Stages(S) ==
  {p \in (SUBSET S) \X (SUBSET S) : p[2] \subseteq p[1] /\ Cardinality(p[1] \ p[2]) <= 1}

Superseded_RecordsKept(m, cp, updated, removed) ==
  SetStatus(m, cp.cs, updated, "superseded")

Superseded(m, cp, updated, removed) ==
  LET marked == SetStatus(m, cp.cs, updated, "superseded") IN
    [marked EXCEPT !.live = {l \in @ : l.receipt \notin removed}]

SavedEffective(m, cp, marked, updated) ==
  SetStatus(MarkSaved(m, marked, cp.id), cp.cs, updated, "saved")

Prepared_OnlyState(cp, c, a) == cp.state = "prepared" /\ cp.cs = c

\* The set of writes is still the previewed one and still in Editor memory.
Prepared(cp, c, a) ==
  /\ cp.state = "prepared" /\ cp.cs = c
  /\ cp.effective = AsWrites(Effective(c, a)) /\ cp.superseded = SupersededBy(c, a)
  /\ ResidentIn(a, cp.effective)

CheckpointCommit(c, a, auth, cp) ==
  /\ "checkpoint" \in Tools
  /\ SaveCallable(c, a)
  /\ auth.kind = "checkpoint" /\ cp.id = auth.id
  /\ Authorized(auth, a)
  /\ Prepared(cp, c, a)
  /\ SaveAsset(a)
  /\ backups' = WithBackup(auth.id, a, rev'[a])
  /\ LET receipts == {w.receipt : w \in cp.effective}
         saved    == WithCheckpoint(Consumed(server, auth), cp, "saved", rev'[a])
         marked   == SavedEffective(saved, cp, receipts, receipts)
     IN Finish(Superseded(marked, cp, cp.superseded, cp.superseded),
               {server}
               \cup {SavedEffective(saved, cp, p[1], p[2]) : p \in Stages(receipts)}
               \cup {Superseded(marked, cp, p[1], p[2]) : p \in Stages(cp.superseded)})
  /\ UNCHANGED <<indexRev, lastSave>>

-----------------------------------------------------------------------------
(* ue_verify_live_write, ue_verify_live_write_checkpoint                   *)

\* A dirty package is answered not-saved without any change of state.
VerifyLiveWrite(c, r) ==
  /\ EditorAvailable
  /\ IsMember(server, c, r)
  /\ \E l \in server.live :
       /\ l.receipt = r /\ l.saved
       /\ loaded[l.asset] /\ ~dirty[l.asset]
       /\ ~Fresh(l.asset)
       /\ disk[l.asset][l.target] = l.after
  /\ LET updated == SetStatus(server, c, {r}, "verified") IN
       Finish(WithoutLive(updated, r), {updated})
  /\ UNCHANGED <<editorVars, indexRev, backups, lastSave>>

VerifiedEffective(m, cp, updated, removed) ==
  LET marked == IF m.phase[cp.cs] = "open" THEN SetStatus(m, cp.cs, updated, "verified") ELSE m IN
    [marked EXCEPT !.live = {l \in @ : l.receipt \notin removed}]

VerifyCheckpoint(cp) ==
  /\ cp.state = "saved"
  /\ rev[cp.asset] = cp.afterRev
  /\ \A w \in cp.effective : disk[cp.asset][w.target] = w.after
  /\ LET receipts == {w.receipt : w \in cp.effective}
         verified == WithCheckpoint(server, cp, "verified", cp.afterRev)
     IN Finish(VerifiedEffective(verified, cp, receipts, receipts),
               {VerifiedEffective(verified, cp, p[1], p[2]) : p \in Stages(receipts)})
  /\ UNCHANGED <<editorVars, indexRev, backups, lastSave>>

CheckpointTurnsStale(cp) ==
  /\ cp.state = "saved"
  /\ rev[cp.asset] # cp.afterRev
  /\ Finish(WithCheckpoint(server, cp, "stale", cp.afterRev), {})
  /\ UNCHANGED <<editorVars, indexRev, backups, lastSave>>

-----------------------------------------------------------------------------
(* create_authorized_save_rollback_manifest, rollback_authorized_live_save *)

PromoteManifest(l, b) ==
  /\ "rollback" \in Tools
  /\ l.saved /\ l.save = b.id /\ l.asset = b.asset
  /\ rev[b.asset] # b.rev
  /\ b.after = NoRev
  /\ backups' = (backups \ {b}) \cup {[b EXCEPT !.after = rev[b.asset]]}
  /\ UNCHANGED <<editorVars, server, indexRev, lastSave>>

\* prepare_asset_for_disk_rollback, a bridge call without server state.
PrepareRollback(a) ==
  /\ "rollback" \in Tools
  /\ PrepareDiskRollback(a) \/ PrepareDiskRollbackFails(a)
  /\ UNCHANGED workflowVars

\* _inspect_rollback_live_state: with the project open the asset must be out of
\* memory and in no asset editor; with the project closed nothing is loaded.
RollbackCallable(a) == ~loaded[a]

\* The Dry Run makes the same tests without writing.  The live record stays.  Whose
\* write it is, is asked only when the file is back: the call then fails.
RollbackCommit(b, c, r) ==
  /\ "rollback" \in Tools
  /\ RollbackCallable(b.asset)
  /\ b.after = rev[b.asset]
  /\ RestoreFile(b.asset, b.content, b.rev)
  /\ IF IsMember(server, c, r)
     THEN Finish(SetStatus(server, c, {r}, "undone"), {server})
     ELSE Finish(server, {})
  /\ UNCHANGED <<indexRev, backups, lastSave>>

-----------------------------------------------------------------------------
(* ue_apply_patch, ue_verify_asset                                         *)

\* _bind_committed_apply: the operation is saved and belongs to no Editor session.
AppendPatch(m, c) ==
  [m EXCEPT !.ops[c] = Append(@, [receipt |-> NoReceipt, asset |-> OtherPackage,
                                  status |-> "saved", apply |-> "unverified"])]

\* The apply records of bound patches, each known by its operation's place.
Places == ChangeSetIds \X (1..MaxOps)
Applies(m) ==
  {p \in Places : p[2] \in DOMAIN m.ops[p[1]] /\ m.ops[p[1]][p[2]].apply # "none"}

\* _prune_records: patches of any task displace older apply records.
WithoutApplies(m, dropped) ==
  [m EXCEPT !.ops = [c \in ChangeSetIds |->
                      [i \in DOMAIN @[c] |->
                        IF <<c, i>> \in dropped THEN WithApply(@[c][i], "none") ELSE @[c][i]]]]

\* Whether the list is full is asked only when the package is written: the call
\* then fails like one whose script failed, and the patch is in no change set.
CommitPatch(c) ==
  /\ "patch" \in Tools
  /\ server.phase[c] = "open"
  /\ LET begun == Reconciled(server, c)
     IN /\ ~IsClosed(Statuses(begun, c))
        /\ \/ Finish(begun, {})
           \/ /\ Len(begun.ops[c]) < MaxOps
              /\ \E dropped \in SUBSET Applies(begun) :
                   Finish(AppendPatch(WithoutApplies(begun, dropped), c),
                          {begun, AppendPatch(begun, c)})
  /\ UNCHANGED <<editorVars, indexRev, backups, lastSave>>

CommitUnboundPatch ==
  /\ "patch" \in Tools /\ "unbound" \in Tools
  /\ \E dropped \in SUBSET Applies(server) : Finish(WithoutApplies(server, dropped), {})
  /\ UNCHANGED <<editorVars, indexRev, backups, lastSave>>

PatchVerified(m, c, i, status) ==
  [m EXCEPT !.ops[c][i] = WithStatus(WithApply(@, "verified"), status)]

\* Without a change set only the record is marked; the change set learns of it when
\* it is reconciled.  A package that does not have the expected revision changes
\* nothing.
VerifyPatch(c, i) ==
  /\ "patch" \in Tools
  /\ <<c, i>> \in Applies(server)
  /\ \/ Finish(PatchVerified(server, c, i, "verified"), {server})
     \/ /\ "unbound" \in Tools
        /\ Finish(PatchVerified(server, c, i, server.ops[c][i].status), {})
  /\ UNCHANGED <<editorVars, indexRev, backups, lastSave>>

-----------------------------------------------------------------------------
(* Server and index life cycle                                             *)

ServerCrash ==
  /\ "crash" \in Tools
  /\ server' = Loaded(server)
  /\ UNCHANGED <<editorVars, indexRev, backups, lastSave>>

\* _inspect_refresh_live_state: unsaved Editor changes are not snapshotted.
RefreshCallable(a) == EditorAvailable => ~dirty[a]

\* ue_refresh_asset_snapshot switches the index generation; every further call
\* is refused until the server is restarted.
RefreshAndRestart(a) ==
  /\ "refresh" \in Tools
  /\ RefreshCallable(a)
  /\ indexRev' = [indexRev EXCEPT ![a] = rev[a]]
  /\ server' = Loaded(server)
  /\ UNCHANGED <<editorVars, backups, lastSave>>

MaybeChangeSet == ChangeSetIds \cup {NoChangeSet}
OptionalChangeSet == IF "unbound" \in Tools THEN MaybeChangeSet ELSE ChangeSetIds

ChangeSetTools ==
  \E c \in ChangeSetIds : CreateChangeSet(c) \/ GetChangeSet(c) \/ DiscardEmpty(c)

WriteTools ==
  \E c \in OptionalChangeSet, a \in Assets :
    \/ \E t \in Targets, v \in Values : Apply(c, a, t, v)
    \/ ApplyNoChange(c, a)
    \/ \E r \in Receipts, s \in RevertStatuses : Revert(c, a, r, s)

SaveTools ==
  \E c \in OptionalChangeSet, a \in Assets :
    \/ ImmediatePreview(c, a)
    \/ c # NoChangeSet /\ CheckpointPreview(c, a)
    \/ \E auth \in server.auths :
         \/ ImmediateCommit(c, a, auth)
         \/ SaveFails(c, a, auth)
         \/ \E cp \in server.cps : c # NoChangeSet /\ CheckpointCommit(c, a, auth, cp)

VerifyTools ==
  \/ \E c \in OptionalChangeSet, r \in Receipts : VerifyLiveWrite(c, r)
  \/ \E cp \in server.cps : VerifyCheckpoint(cp) \/ CheckpointTurnsStale(cp)

RollbackTools ==
  \/ \E l \in server.live, b \in backups : PromoteManifest(l, b)
  \/ \E a \in Assets : PrepareRollback(a)
  \/ \E b \in backups, c \in OptionalChangeSet, r \in Receipts : RollbackCommit(b, c, r)

PatchTools ==
  \/ \E c \in ChangeSetIds : CommitPatch(c) \/ \E i \in 1..MaxOps : VerifyPatch(c, i)
  \/ CommitUnboundPatch

WorkflowNext ==
  \/ ChangeSetTools \/ WriteTools \/ SaveTools \/ VerifyTools \/ RollbackTools
  \/ PatchTools
  \/ ServerCrash
  \/ \E a \in Assets : RefreshAndRestart(a)
  \/ User /\ UNCHANGED workflowVars

WorkflowSpec == WorkflowInit /\ [][WorkflowNext]_vars

-----------------------------------------------------------------------------
(* Properties                                                              *)

\* No package is dirty behind the server's back: as long as only the agent
\* writes and every answer arrives, a dirty package has an unsaved live write of
\* this Editor session in the journal, through undos, saves, checkpoints,
\* restarts and index refreshes.  Otherwise nobody can save or undo that work.
DirtyPackagesAreAccounted ==
  \A a \in Assets : dirty[a] =>
    \E l \in server.live : l.asset = a /\ l.sess = session /\ ~l.saved

\* The converse, for checkpoint saves: a write the server still counts as
\* pending in this session is one the Editor can still undo.
PendingWritesCanBeUndone ==
  \A l \in server.live : ~l.saved /\ l.sess = session /\ link # "closed" =>
    \E r \in records[l.asset] : r.id = l.receipt /\ r.target = l.target /\ r.after = l.after

\* A change set takes a further write or patch only while each earlier operation it
\* counts as applied is proven: a live record of the running Editor session.
AppliedWritesAreProven ==
  [][\A c \in ChangeSetIds :
       Len(server'.ops[c]) > Len(server.ops[c]) =>
         \A i \in DOMAIN server.ops[c] :
           /\ server'.ops[c][i].status # "unknown"
           /\ server'.ops[c][i].status = "applied" =>
                \E l \in server.live : l.receipt = server.ops[c][i].receipt /\ l.sess = session]_vars

\* What a checkpoint reports as saved is what the package file holds, for as
\* long as nobody saves it again: the writes it lists, on top of the backup.
CheckpointHoldsItsWrites ==
  \A cp \in server.cps : cp.state \in {"saved", "verified"} /\ rev[cp.asset] = cp.afterRev =>
    \A w \in cp.effective : disk[cp.asset][w.target] = w.after

\* And nothing else, when only the agent writes.
CheckpointHoldsOnlyItsWrites ==
  \A cp \in server.cps, b \in backups :
    cp.state \in {"saved", "verified"} /\ b.id = cp.id /\ rev[cp.asset] = cp.afterRev =>
      \A t \in Targets :
        disk[cp.asset][t] # b.content[t] => \E w \in cp.effective : w.target = t

\* A write a later one replaced at a checkpoint never counts as pending, saved or
\* verified again, whatever a crash of the server left in the journals.
SupersededNeverCounts ==
  [][\A c \in ChangeSetIds : \A i \in DOMAIN server.ops[c] :
       server.ops[c][i].status = "superseded" =>
         \/ server'.phase[c] = "gone"
         \/ server'.ops[c][i].status \in {"superseded", "undone", "discarded"}]_vars

\* The change sets' histories implement OperationLifecycle: terminal operations
\* are final, saved work never counts as pending again, a closed change set takes
\* neither a write nor a patch, and only finished change sets are forgotten.
Lifecycle == INSTANCE OperationLifecycle
  WITH history <- [c \in ChangeSetIds |->
                    [i \in DOMAIN server.ops[c] |-> server.ops[c][i].status]]
FollowsLifecycle == Lifecycle!LifecycleSpec

\* "This Change Set is terminal": an operation that was undone, discarded or
\* verified stays so (disk rollback and crashes break this).
TerminalOperationsStay ==
  [][\A c \in ChangeSetIds : \A i \in DOMAIN server.ops[c] :
       server.ops[c][i].status \in TerminalStatuses =>
         \/ server'.phase[c] = "gone"
         \/ server'.ops[c][i].status = server.ops[c][i].status]_vars

\* "Save and verify the remaining applied operations, or undo/discard them": an
\* operation a change set shows as applied can be, its package being dirty.
AppliedOperationsCanBeFinished ==
  \A c \in ChangeSetIds :
    \A i \in DOMAIN server.ops[c] :
      ReconciledStatus(server, server.ops[c][i]) = "applied" => dirty[server.ops[c][i].asset]

\* The manifest of a save allows its rollback only while the package is what
\* that save wrote; a later save by the user is not thrown away.
RollbackSparesLaterSaves ==
  \A b \in backups : b.after # NoRev => b.after = b.wrote
=============================================================================
