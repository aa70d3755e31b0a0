------------------------ MODULE LiveWriteBatchProofs ------------------------
(***************************************************************************)
(* Theorems about LiveWriteBatch for every batch, every set of assets,     *)
(* targets and values, every fault and every bound.                        *)
(***************************************************************************)
EXTENDS LiveWriteBatch, LiveEditorProofs, WellFoundedInduction, TLAPS

(***************************************************************************)
(* The invariant.                                                          *)
(***************************************************************************)

\* No record of the bridge has this identifier: the transaction is not the agent's.
NotRecorded(id) == \A a \in Assets : \A r \in records[a] : r.id # id

\* A write that has been saved since is not on top of the Undo buffer while its package
\* is dirty: what made the package dirty again lies above it, and the bridge does not
\* take that away.
SavedWritesAreCovered ==
  \A a \in Assets : \A r \in records[a] :
    dirty[a] /\ r.id <= savedTx[a] /\ (\E m \in 1..Len(undo) : undo[m].id = r.id) =>
      \E n \in 1..Len(undo) : undo[n].id > r.id /\ NotRecorded(undo[n].id)

\* Revisions and saves refer to what has been given out.
SavesArePast == \A a \in Assets : rev[a] <= lastRev /\ savedTx[a] <= lastTx

EditorPart == EditorInv /\ UnloadedHasNoRecords /\ SavedWritesAreCovered /\ SavesArePast

\* What a batch tool or the user does in the Editor.
EditorMove ==
  \/ UNCHANGED editorVars
  \/ \E a \in Assets, t \in Targets, v \in Values, p \in 0..lastTx : BridgeApply(a, t, v, p)
  \/ \E a \in Assets, id \in 1..lastTx : RevertWrite(a, id, session, TRUE)
  \/ \E a \in Assets :
       \/ SaveAsset(a) \/ PrepareDiskRollback(a) \/ PrepareDiskRollbackFails(a)
       \/ UserSave(a) \/ UserOpen(a)
  \/ \E a \in Assets, t \in Targets, v \in Values : UserEdit(a, t, v)
  \/ EditorExit \/ EditorStart
  \/ \E a \in Assets, c \in Contents : RestoreFile(a, c, 0)

\* The invariant of the Editor survives what a batch and its user do in it.
LEMMA MovesKeepEditorInv ==
  ASSUME EditorPart, EditorMove
  PROVE  EditorInv' /\ UnloadedHasNoRecords'
  <1>1. EditorInv /\ UnloadedHasNoRecords
    BY DEF EditorPart
  <1>2. CASE \E a \in Assets, c \in Contents : RestoreFile(a, c, 0)
    <2>1. PICK a \in Assets, c \in Contents : RestoreFile(a, c, 0)
      BY <1>2
    <2>2. 0 \in 0..lastRev
      BY <1>1, BoundsAssumption DEF EditorInv, EditorTypeOK
    <2>3. EditorInv'
      BY <1>1, <2>1, <2>2, RestoreKeepsInv
    <2> QED
      BY <1>1, <2>1, <2>3 DEF RestoreFile, UnloadedHasNoRecords
  <1>3. CASE ~\E a \in Assets, c \in Contents : RestoreFile(a, c, 0)
    <2>1. [EditorNext]_editorVars
      BY <1>3 DEF EditorMove, EditorNext, Bridge, User
    <2> QED
      BY <1>1, <2>1, StepKeepsInv, StepKeepsUnloaded
  <1> QED
    BY <1>2, <1>3

\* What is given out only grows, and a save takes the numbers given out last.
LEMMA MovesAreMonotone ==
  ASSUME EditorPart, EditorMove
  PROVE  /\ lastTx <= lastTx' /\ lastRev <= lastRev'
         /\ \A a \in Assets : savedTx'[a] = savedTx[a] \/ savedTx'[a] = lastTx
         /\ \A a \in Assets : \/ rev'[a] = rev[a] /\ disk'[a] = disk[a]
                              \/ rev'[a] = 0
                              \/ rev'[a] = lastRev + 1 /\ lastRev < MaxRev /\ lastRev' = lastRev + 1
         /\ SavesArePast'
  <1>1. /\ lastTx \in Nat /\ lastRev \in Nat /\ rev \in [Assets -> 0..MaxRev] /\ savedTx \in [Assets -> 0..MaxTx]
        /\ disk \in [Assets -> Contents] /\ MaxRev \in Nat
        /\ \A a \in Assets : rev[a] <= lastRev /\ savedTx[a] <= lastTx
    BY BoundsAssumption DEF EditorPart, EditorInv, EditorTypeOK, SavesArePast
  <1> USE <1>1
  <1>2. CASE UNCHANGED <<disk, rev, lastRev, savedTx>> /\ lastTx' \in {lastTx, lastTx + 1}
    BY <1>2 DEF SavesArePast
  <1>3. CASE \E a \in Assets : WriteToDisk(a) /\ lastTx' = lastTx
    BY <1>3 DEF SavesArePast, WriteToDisk
  <1>4. CASE \E a \in Assets, c \in Contents : RestoreFile(a, c, 0)
    BY <1>4 DEF SavesArePast, RestoreFile, historyVars
  <1>5. ASSUME NEW a \in Assets, NEW t \in Targets, NEW v \in Values, NEW p \in 0..lastTx, BridgeApply(a, t, v, p)
        PROVE  UNCHANGED <<disk, rev, lastRev, savedTx>> /\ lastTx' \in {lastTx, lastTx + 1}
    BY <1>5 DEF BridgeApply, ApplyChanged, ApplyUnchanged, RecordTransaction, diskVars, historyVars
  <1>6. ASSUME NEW a \in Assets, NEW id \in 1..lastTx, RevertWrite(a, id, session, TRUE)
        PROVE  UNCHANGED <<disk, rev, lastRev, savedTx>> /\ lastTx' = lastTx
    BY <1>6 DEF RevertWrite, diskVars, historyVars
  <1>7. ASSUME NEW a \in Assets, SaveAsset(a) \/ UserSave(a)
        PROVE  WriteToDisk(a) /\ lastTx' = lastTx
    BY <1>7 DEF SaveAsset, UserSave
  <1>8. ASSUME NEW a \in Assets, PrepareDiskRollback(a) \/ PrepareDiskRollbackFails(a) \/ UserOpen(a)
        PROVE  UNCHANGED <<disk, rev, lastRev, savedTx>> /\ lastTx' = lastTx
    BY <1>8 DEF PrepareDiskRollback, PrepareDiskRollbackFails, UserOpen, diskVars, historyVars
  <1>9. ASSUME NEW a \in Assets, NEW t \in Targets, NEW v \in Values, UserEdit(a, t, v)
        PROVE  UNCHANGED <<disk, rev, lastRev, savedTx>> /\ lastTx' = lastTx + 1
    BY <1>9 DEF UserEdit, RecordTransaction, diskVars, historyVars
  <1>10. ASSUME EditorExit \/ EditorStart \/ UNCHANGED editorVars
         PROVE  UNCHANGED <<disk, rev, lastRev, savedTx>> /\ lastTx' = lastTx
    BY <1>10 DEF EditorExit, EditorStart, editorVars, diskVars, historyVars
  <1> QED
    BY <1>2, <1>3, <1>4, <1>5, <1>6, <1>7, <1>8, <1>9, <1>10 DEF EditorMove

\* Where the Undo buffer and the records do not change, a saved write stays covered
\* unless its package becomes dirty.
LEMMA CoverStays ==
  ASSUME SavedWritesAreCovered, undo' = undo,
         \A a \in Assets : records'[a] \subseteq records[a],
         \A a \in Assets : \/ ~dirty'[a]
                           \/ (dirty[a] /\ savedTx'[a] = savedTx[a])
  PROVE  SavedWritesAreCovered'
  BY DEF SavedWritesAreCovered, NotRecorded

\* A saved write stays covered.
LEMMA MovesKeepCover ==
  ASSUME EditorPart, EditorMove
  PROVE  SavedWritesAreCovered'
  <1>1. /\ lastTx \in Nat /\ dirty \in [Assets -> BOOLEAN] /\ undo \in Seq(Transactions)
        /\ savedTx \in [Assets -> 0..MaxTx] /\ records \in [Assets -> SUBSET Records]
        /\ SavedWritesAreCovered /\ SavesArePast
    BY DEF EditorPart, EditorInv, EditorTypeOK
  <1>2. /\ \A m \in 1..Len(undo) : undo[m].id \in Nat /\ undo[m].id <= lastTx
        /\ \A a \in Assets : \A r \in records[a] : r.id \in Nat /\ r.id <= lastTx
    BY IdsAreNumbers DEF EditorPart, Entries
  <1>3. CASE undo' = <<>>
    <2>1. 1..Len(undo') = {}
      BY <1>3, EmptyFacts
    <2> QED
      BY <2>1 DEF SavedWritesAreCovered
  <1>4. ASSUME NEW a \in Assets, NEW t \in Targets, NEW v \in Values, NEW p \in 0..lastTx, ApplyChanged(a, t, v, p)
        PROVE  SavedWritesAreCovered'
    <2>1. PICK e : e = [id |-> lastTx + 1, asset |-> a, agent |-> TRUE, before |-> resident[a],
                        after |-> [resident[a] EXCEPT ![t] = v]]
      OBVIOUS
    <2>2. /\ undo' = Append(undo, e) /\ e.id = lastTx + 1 /\ savedTx' = savedTx
          /\ dirty' = [dirty EXCEPT ![a] = TRUE]
          /\ records' = [records EXCEPT ![a] = RetainedRecords(a) \cup {NewRecord(a, t, v)}]
      BY <1>4, <2>1 DEF ApplyChanged, RecordTransaction, diskVars
    <2>3. /\ Len(undo') = Len(undo) + 1 /\ Len(undo) \in Nat
          /\ \A m \in 1..Len(undo) : undo'[m] = undo[m]
          /\ undo'[Len(undo) + 1].id = lastTx + 1
      BY <1>1, <2>2
    <2>4. \A b \in Assets : \A r \in records'[b] :
            \/ r \in records[b] /\ (dirty'[b] => dirty[b])
            \/ r.id = lastTx + 1
      BY <1>1, <2>2 DEF RetainedRecords, NewRecord
    <2> SUFFICES ASSUME NEW b \in Assets, NEW r \in records'[b], dirty'[b], r.id <= savedTx'[b],
                        NEW m \in 1..Len(undo'), undo'[m].id = r.id
                 PROVE  \E n \in 1..Len(undo') : /\ undo'[n].id > r.id
                                                /\ \A c \in Assets : \A q \in records'[c] : q.id # undo'[n].id
      BY DEF SavedWritesAreCovered, NotRecorded
    <2>5. r.id # lastTx + 1
      BY <1>1, <2>2 DEF SavesArePast
    <2>6. r \in records[b] /\ dirty[b] /\ r.id <= savedTx[b]
      BY <2>2, <2>4, <2>5
    <2>7. m \in 1..Len(undo)
      BY <2>3, <2>5
    <2>8. PICK n \in 1..Len(undo) : undo[n].id > r.id /\ \A c \in Assets : \A q \in records[c] : q.id # undo[n].id
      BY <1>1, <2>3, <2>6, <2>7 DEF SavedWritesAreCovered, NotRecorded
    <2>9. \A c \in Assets : \A q \in records'[c] : q.id # undo[n].id
      BY <1>1, <1>2, <2>4, <2>8
    <2> QED
      BY <2>3, <2>8, <2>9
  <1>5. ASSUME NEW a \in Assets, NEW t \in Targets, NEW v \in Values, UserEdit(a, t, v)
        PROVE  SavedWritesAreCovered'
    <2>1. PICK e : e = [id |-> lastTx + 1, asset |-> a, agent |-> FALSE, before |-> resident[a],
                        after |-> [resident[a] EXCEPT ![t] = v]]
      OBVIOUS
    <2>2. /\ undo' = Append(undo, e) /\ e.id = lastTx + 1 /\ savedTx' = savedTx /\ records' = records
      BY <1>5, <2>1 DEF UserEdit, RecordTransaction, diskVars
    <2>3. /\ Len(undo') = Len(undo) + 1 /\ Len(undo) \in Nat
          /\ undo'[Len(undo) + 1].id = lastTx + 1
      BY <1>1, <2>2
    <2>4. \A b \in Assets : \A r \in records'[b] : r.id \in Nat /\ r.id < lastTx + 1
      BY <1>1, <1>2, <2>2
    <2>5. Len(undo) + 1 \in 1..Len(undo')
      BY <2>3
    <2>6. \A c \in Assets : \A q \in records'[c] : q.id # undo'[Len(undo) + 1].id
      BY <2>3, <2>4
    <2> QED
      BY <1>1, <2>3, <2>4, <2>5, <2>6 DEF SavedWritesAreCovered, NotRecorded
  <1>6. ASSUME NEW a \in Assets, NEW id \in 1..lastTx, RevertWrite(a, id, session, TRUE)
        PROVE  SavedWritesAreCovered'
    <2>1. /\ dirty[a] /\ IsTop(id) /\ \E r \in records[a] : r.id = id
          /\ undo' = Pop(undo) /\ savedTx' = savedTx
      BY <1>6 DEF RevertWrite, RevertAllowed, diskVars
    <2>2. PICK r0 \in records[a] : /\ dirty' = [dirty EXCEPT ![a] = RestoredDirty(r0)]
                                   /\ records' = [records EXCEPT ![a] = @ \ {r0}]
      BY <1>6 DEF RevertWrite
    <2>3. /\ undo # <<>> /\ Len(undo) \in Nat \ {0} /\ Len(undo') = Len(undo) - 1
          /\ \A m \in 1..(Len(undo) - 1) : undo'[m] = undo[m]
          /\ undo[Len(undo)].id = id
      BY <1>1, <2>1, PopFacts DEF IsTop
    <2>4. \A b \in Assets : records'[b] \subseteq records[b] /\ (dirty'[b] => dirty[b])
      BY <1>1, <2>1, <2>2
    <2> SUFFICES ASSUME NEW b \in Assets, NEW r \in records'[b], dirty'[b], r.id <= savedTx'[b],
                        NEW m \in 1..Len(undo'), undo'[m].id = r.id
                 PROVE  \E n \in 1..Len(undo') : /\ undo'[n].id > r.id
                                                /\ \A c \in Assets : \A q \in records'[c] : q.id # undo'[n].id
      BY DEF SavedWritesAreCovered, NotRecorded
    <2>5. r \in records[b] /\ dirty[b] /\ r.id <= savedTx[b]
      BY <2>1, <2>4
    <2>6. /\ \A n : n \in 1..Len(undo) /\ n # Len(undo) => n \in 1..(Len(undo) - 1)
          /\ 1..Len(undo') = 1..(Len(undo) - 1) /\ 1..(Len(undo) - 1) \subseteq 1..Len(undo)
      BY <2>3
    <2>7. m \in 1..Len(undo) /\ undo[m].id = r.id
      BY <2>3, <2>6
    <2>8. PICK n \in 1..Len(undo) : undo[n].id > r.id /\ \A c \in Assets : \A q \in records[c] : q.id # undo[n].id
      BY <1>1, <2>5, <2>7 DEF SavedWritesAreCovered, NotRecorded
    <2>9. n # Len(undo)
      BY <2>1, <2>3, <2>8
    <2>10. n \in 1..Len(undo') /\ undo'[n] = undo[n]
      BY <2>3, <2>6, <2>9
    <2> QED
      BY <2>4, <2>8, <2>10
  <1>7. ASSUME NEW a \in Assets, SaveAsset(a) \/ UserSave(a)
        PROVE  SavedWritesAreCovered'
    <2>1. /\ undo' = undo /\ records' = records
          /\ dirty' = [dirty EXCEPT ![a] = FALSE] /\ savedTx' = [savedTx EXCEPT ![a] = lastTx]
      BY <1>7 DEF SaveAsset, UserSave, WriteToDisk, bufferVars
    <2> QED
      BY <1>1, <2>1, CoverStays
  <1>8. ASSUME NEW a \in Assets, PrepareDiskRollbackFails(a), undo' # <<>>
        PROVE  SavedWritesAreCovered'
    <2>1. /\ undo' = undo /\ records' = [records EXCEPT ![a] = {}] /\ dirty' = dirty /\ savedTx' = savedTx
      BY <1>8 DEF PrepareDiskRollbackFails, bufferVars, memoryVars, diskVars
    <2> QED
      BY <1>1, <2>1, CoverStays
  <1>9. ASSUME \/ UNCHANGED editorVars \/ EditorStart
               \/ \E a \in Assets : \/ UserOpen(a) \/ \E c \in Contents : RestoreFile(a, c, 0)
                                    \/ \E p \in 0..lastTx : ApplyUnchanged(a, p)
        PROVE  SavedWritesAreCovered'
    <2>1. /\ undo' = undo /\ dirty' = dirty /\ savedTx' = savedTx
          /\ \A a \in Assets : records'[a] \subseteq records[a]
      BY <1>1, <1>9 DEF editorVars, EditorStart, UserOpen, RestoreFile, ApplyUnchanged, RetainedRecords,
                        bufferVars, memoryVars, diskVars
    <2> QED
      BY <1>1, <2>1, CoverStays
  <1>10. ASSUME EditorExit \/ \E a \in Assets : PrepareDiskRollback(a)
         PROVE  undo' = <<>>
    BY <1>10 DEF EditorExit, PrepareDiskRollback
  <1> QED
    BY <1>3, <1>4, <1>5, <1>6, <1>7, <1>8, <1>9, <1>10 DEF EditorMove, BridgeApply

\* The Editor's part of the invariant survives what a batch and its user do.
LEMMA MovesKeepEditorPart ==
  ASSUME EditorPart, EditorMove
  PROVE  EditorPart'
  BY MovesKeepEditorInv, MovesAreMonotone, MovesKeepCover DEF EditorPart

(***************************************************************************)
(* The records of the batch.                                               *)
(***************************************************************************)

\* The operation whose write has been answered but not verified yet.
AtVerify(i) == call.tool = "apply" /\ call.phase = "verify" /\ i = FirstOp(call.ops)

\* Every write that took effect is in the execution record, or is the one just answered;
\* a server that died before its verification leaves an execution that never ends.
WritesAreKnown ==
  \A i \in Ops :
    \/ place[i] = "nowhere" \/ AtVerify(i)
    \/ exec.op[i] \in {"verified", "applied_unverified", "failed"}
    \/ exec.state = "applying" /\ call.tool # "apply"

\* An execution goes through its operations in order and ends with the recovery order of
\* what it wrote.
ExecutionAdvances ==
  /\ exec.state = "none" => call.tool # "apply" /\ \A i \in Ops : exec.op[i] = "pending"
  /\ call.tool = "apply" =>
       /\ exec.state = "applying"
       /\ \A i \in Ops : exec.op[i] \in {"pending", "verified", "no-op"}
       /\ \A i \in call.ops : exec.op[i] = "pending"
       /\ call.phase \in {"start", "verify"}
       /\ call.phase = "verify" => call.ops # {}
  /\ exec.state = "applied" => \A i \in Ops : exec.op[i] # "failed"
  /\ exec.state \in {"applied", "partially_applied", "failed"} => exec.order = Mutated(exec)
  /\ exec.state \in {"none", "applying"} => exec.order = {}

\* Transactions of the batch have been given out, and those of saved writes before the
\* save.
TransactionsArePast ==
  /\ call.tx <= lastTx
  /\ \A i \in Ops :
       /\ exec.tx[i] <= lastTx
       /\ place[i] = "disk" => exec.tx[i] <= savedTx[Batch[i].asset]
       /\ place[i] = "disk" /\ AtVerify(i) => call.tx <= savedTx[Batch[i].asset]

ExecutionPart == WritesAreKnown /\ ExecutionAdvances /\ TransactionsArePast

InMemory(a) == \E i \in OpsOf(a) : place[i] = "memory"
WrittenStates == {"saved", "verified", "stale"}

\* What a checkpoint set says of itself: only saved children count as persisted, and only
\* verified checkpoints as checked.
SetFits(z) ==
  /\ z.state = "none" => \A a \in Assets : z.cp[a] = "none"
  /\ \A a \in z.persisted : a \in BatchAssets /\ z.child[a] = "saved"
  /\ z.persisted # {} => z.state \in {"saved", "partially_saved"}
  /\ \A a \in Assets : z.child[a] = "saved" => z.cp[a] \in WrittenStates
  /\ \A a \in Assets : z.cp[a] = "verified" => z.state = "saved"
  /\ \A a \in z.checked : z.cp[a] = "verified"
  /\ z.verification = "verified" => \A a \in BatchAssets : z.cp[a] = "verified"

\* What a set says of the Editor and the disk: no write of a saved child is in memory
\* only, its revision is none of the index, and the file of a verified child holds what
\* the set includes as long as it is this revision.
SetIsTrue(z) ==
  /\ z.state # "none" => exec.state = "applied"
  /\ \A a \in Assets :
       /\ z.cp[a] \in WrittenStates => ~InMemory(a)
       /\ z.after[a] # 0 /\ (z.after[a] <= lastRev \/ z.after[a] = NoRev)
       /\ z.cp[a] = "verified" /\ rev[a] = z.after[a] => Holds(disk, z.included \cap OpsOf(a))

SetsAreTrue == \A s \in SetIds : SetFits(sets[s]) /\ SetIsTrue(sets[s])

\* The call that saves or verifies a set.
SetCallFits ==
  /\ call.tool = "save" =>
       /\ call.id \in SetIds /\ sets[call.id].state = "saving" /\ call.assets \subseteq BatchAssets
       /\ \A a \in call.assets : sets[call.id].child[a] # "saved"
       /\ \A a \in BatchAssets \ call.assets : sets[call.id].child[a] = "saved"
       /\ call.phase = "promote" => sets[call.id].cp[FirstAsset(call.assets)] = "saved"
  /\ call.tool = "verify" =>
       /\ call.id \in SetIds /\ sets[call.id].state = "saved"
       /\ \A a \in call.done : sets[call.id].cp[a] = "verified"

SetPart ==
  /\ SetCallFits
  /\ SetsAreTrue
  /\ \A b \in backups : b.rev = 0

\* What a recovery has done is done, and what the running one still has to do is on its
\* list.
RecoveryPart ==
  /\ \A r \in RecoveryIds :
       /\ recs[r].state # "none" => exec.state # "none" /\ call.tool # "apply"
       /\ recs[r].state = "none" => recs[r].undone = {} /\ recs[r].restored = {}
       /\ \A i \in recs[r].undone : place[i] = "nowhere"
       /\ \A a \in recs[r].restored : \A i \in OpsOf(a) : place[i] = "nowhere"
  /\ call.tool = "recover" =>
       /\ call.id \in RecoveryIds /\ recs[call.id].state # "none"
       /\ \A i \in exec.order : i \in call.ops \/ Batch[i].asset \in call.assets \/ place[i] = "nowhere"
       /\ call.assets # {} => exec.state = "applied"
       /\ \A a \in call.assets : a \in BatchAssets /\ ~InMemory(a)

RecordTypes ==
  /\ call \in Calls
  /\ service \in [planned : BOOLEAN, auths : SUBSET SetIds]
  /\ exec \in Executions
  /\ sets \in [SetIds -> CheckpointSets]
  /\ firstSet \in {NoSet} \cup SetIds
  /\ recs \in [RecoveryIds -> Recoveries]
  /\ backups \subseteq Backups
  /\ live \subseteq Ops
  /\ place \in [Ops -> {"nowhere", "memory", "disk"}]

BatchInv == EditorPart /\ RecordTypes /\ ExecutionPart /\ SetPart /\ RecoveryPart

\* Operations and assets of the batch.
LEMMA BatchFacts ==
  /\ Len(Batch) \in Nat /\ Ops = 1..Len(Batch) /\ Ops \subseteq Nat
  /\ \A i \in Ops : Batch[i].asset \in Assets /\ Batch[i].target \in Targets /\ Batch[i].value \in Values
  /\ BatchAssets \subseteq Assets /\ BatchAssets # {}
  /\ \A a : OpsOf(a) \subseteq Ops
  /\ \A a \in BatchAssets : OpsOf(a) # {}
  <1> DEFINE Op == [asset : Assets, target : Targets, value : Values]
  <1>1. /\ Len(Batch) \in Nat /\ Len(Batch) # 0 /\ Ops = 1..Len(Batch)
        /\ \A i \in Ops : Batch[i].asset \in Assets /\ Batch[i].target \in Targets /\ Batch[i].value \in Values
    <2>1. Batch \in Seq(Op) /\ Batch # <<>>
      BY BatchAssumption
    <2>2. \A o \in Op : o.asset \in Assets /\ o.target \in Targets /\ o.value \in Values
      OBVIOUS
    <2> HIDE DEF Op
    <2>3. Len(Batch) \in Nat /\ Len(Batch) # 0 /\ Ops = 1..Len(Batch) /\ \A i \in Ops : Batch[i] \in Op
      BY <2>1 DEF Ops
    <2> QED
      BY <2>2, <2>3
  <1>2. 1 \in Ops
    BY <1>1
  <1> QED
    BY <1>1, <1>2 DEF OpsOf, BatchAssets

\* A set of numbers has a least one.
LEMMA LeastNumber ==
  ASSUME NEW S \in SUBSET Nat, S # {}
  PROVE  \E x \in S : \A y \in S : x <= y
  <1> DEFINE Less == {p \in Nat \X Nat : p[1] < p[2]}
  <1>1. IsWellFoundedOn(Less, Nat)
    BY NatLessThanWellFounded DEF OpToRel
  <1>2. \E x \in S : \A y \in S : <<y, x>> \notin Less
    <2> HIDE DEF Less
    <2> QED
      BY <1>1, WFMin
  <1>3. \A x, y \in Nat : <<y, x>> \notin Less => x <= y
    OBVIOUS
  <1> QED
    BY <1>2, <1>3

\* The first and the last operation of a set are in it.
LEMMA EndsOfOps ==
  ASSUME NEW S \in SUBSET Ops, S # {}
  PROVE  FirstOp(S) \in S /\ LastOp(S) \in S
  <1>1. S \in SUBSET Nat /\ Len(Batch) \in Nat /\ \A i \in S : i \in 1..Len(Batch)
    BY BatchFacts
  <1>2. \E x \in S : \A y \in S : x <= y
    BY <1>1, LeastNumber
  <1>3. FirstOp(S) \in S
    BY <1>2 DEF FirstOp
  <1>4. {Len(Batch) - i : i \in S} \in SUBSET Nat /\ {Len(Batch) - i : i \in S} # {}
    BY <1>1
  <1>5. PICK d \in {Len(Batch) - i : i \in S} : \A y \in {Len(Batch) - i : i \in S} : d <= y
    BY <1>4, LeastNumber
  <1>6. PICK x \in S : d = Len(Batch) - x
    BY <1>5
  <1>7. \A y \in S : x >= y
    <2> SUFFICES ASSUME NEW y \in S PROVE x >= y
      OBVIOUS
    <2>1. Len(Batch) - x <= Len(Batch) - y
      BY <1>5, <1>6
    <2> QED
      BY <1>1, <2>1
  <1>8. LastOp(S) \in S
    BY <1>7 DEF LastOp
  <1> QED
    BY <1>3, <1>8

\* The first and the last asset of a set of the batch's assets are in it.
LEMMA EndsOfAssets ==
  ASSUME NEW A \in SUBSET BatchAssets, A # {}
  PROVE  FirstAsset(A) \in A /\ LastAsset(A) \in A
  <1>1. PICK S : S = UNION {OpsOf(c) : c \in A}
    OBVIOUS
  <1>2. S \in SUBSET Ops /\ S # {}
    BY <1>1, BatchFacts
  <1>3. FirstOp(S) \in S /\ LastOp(S) \in S
    BY <1>2, EndsOfOps
  <1>4. \A i \in S : Batch[i].asset \in A
    BY <1>1 DEF OpsOf
  <1> QED
    BY <1>1, <1>3, <1>4 DEF FirstAsset, LastAsset

\* Writes move from one place to another; those elsewhere stay where they are.
LEMMA MovedFacts ==
  ASSUME RecordTypes, NEW S \in SUBSET Ops, NEW from, NEW to \in {"nowhere", "memory", "disk"},
         place' = Moved(S, from, to)
  PROVE  /\ place' \in [Ops -> {"nowhere", "memory", "disk"}]
         /\ \A i \in Ops : place'[i] = IF i \in S /\ place[i] = from THEN to ELSE place[i]
  BY DEF RecordTypes, Moved

\* One part of a record changes.
LEMMA CallField ==
  ASSUME NEW c \in Calls
  PROVE  /\ \A v \in {"start", "verify", "write", "promote", "restore"} : \A m : m = [c EXCEPT !.phase = v] =>
              /\ m \in Calls /\ m.tool = c.tool /\ m.phase = v /\ m.id = c.id
              /\ m.ops = c.ops /\ m.assets = c.assets /\ m.tx = c.tx /\ m.done = c.done
         /\ \A v \in SUBSET Ops : \A m : m = [c EXCEPT !.ops = v] =>
              /\ m \in Calls /\ m.tool = c.tool /\ m.phase = c.phase /\ m.id = c.id
              /\ m.ops = v /\ m.assets = c.assets /\ m.tx = c.tx /\ m.done = c.done
         /\ \A v \in SUBSET Assets : \A m : m = [c EXCEPT !.assets = v] =>
              /\ m \in Calls /\ m.tool = c.tool /\ m.phase = c.phase /\ m.id = c.id
              /\ m.ops = c.ops /\ m.assets = v /\ m.tx = c.tx /\ m.done = c.done
         /\ \A v \in {NoTx} \cup TxIds : \A m : m = [c EXCEPT !.tx = v] =>
              /\ m \in Calls /\ m.tool = c.tool /\ m.phase = c.phase /\ m.id = c.id
              /\ m.ops = c.ops /\ m.assets = c.assets /\ m.tx = v /\ m.done = c.done
         /\ \A v \in SUBSET Assets : \A m : m = [c EXCEPT !.done = v] =>
              /\ m \in Calls /\ m.tool = c.tool /\ m.phase = c.phase /\ m.id = c.id
              /\ m.ops = c.ops /\ m.assets = c.assets /\ m.tx = c.tx /\ m.done = v
  BY DEF Calls

\* One part of a checkpoint set changes.
LEMMA SetField ==
  ASSUME NEW z \in CheckpointSets
  PROVE  /\ \A v \in {"none", "checkpoint_prepared", "saving", "saved", "partially_saved", "failed"} :
              \A m : m = [z EXCEPT !.state = v] =>
              /\ m \in CheckpointSets /\ m.state = v /\ m.child = z.child /\ m.cp = z.cp /\ m.after = z.after
              /\ m.persisted = z.persisted /\ m.included = z.included
              /\ m.verification = z.verification /\ m.checked = z.checked
         /\ \A v \in [Assets -> {"none", "prepared", "saved", "saved_unrecoverable", "failed"}] :
              \A m : m = [z EXCEPT !.child = v] =>
              /\ m \in CheckpointSets /\ m.state = z.state /\ m.child = v /\ m.cp = z.cp /\ m.after = z.after
              /\ m.persisted = z.persisted /\ m.included = z.included
              /\ m.verification = z.verification /\ m.checked = z.checked
         /\ \A v \in [Assets -> {"none", "prepared", "saved", "verified", "stale"}] :
              \A m : m = [z EXCEPT !.cp = v] =>
              /\ m \in CheckpointSets /\ m.state = z.state /\ m.child = z.child /\ m.cp = v /\ m.after = z.after
              /\ m.persisted = z.persisted /\ m.included = z.included
              /\ m.verification = z.verification /\ m.checked = z.checked
         /\ \A v \in [Assets -> 0..NoRev] :
              \A m : m = [z EXCEPT !.after = v] =>
              /\ m \in CheckpointSets /\ m.state = z.state /\ m.child = z.child /\ m.cp = z.cp /\ m.after = v
              /\ m.persisted = z.persisted /\ m.included = z.included
              /\ m.verification = z.verification /\ m.checked = z.checked
         /\ \A v \in SUBSET Assets :
              \A m : m = [z EXCEPT !.persisted = v] =>
              /\ m \in CheckpointSets /\ m.state = z.state /\ m.child = z.child /\ m.cp = z.cp /\ m.after = z.after
              /\ m.persisted = v /\ m.included = z.included
              /\ m.verification = z.verification /\ m.checked = z.checked
         /\ \A v \in SUBSET Ops :
              \A m : m = [z EXCEPT !.included = v] =>
              /\ m \in CheckpointSets /\ m.state = z.state /\ m.child = z.child /\ m.cp = z.cp /\ m.after = z.after
              /\ m.persisted = z.persisted /\ m.included = v
              /\ m.verification = z.verification /\ m.checked = z.checked
         /\ \A v \in {"none", "verifying", "verified", "partially_verified", "failed"} :
              \A m : m = [z EXCEPT !.verification = v] =>
              /\ m \in CheckpointSets /\ m.state = z.state /\ m.child = z.child /\ m.cp = z.cp /\ m.after = z.after
              /\ m.persisted = z.persisted /\ m.included = z.included
              /\ m.verification = v /\ m.checked = z.checked
         /\ \A v \in SUBSET Assets :
              \A m : m = [z EXCEPT !.checked = v] =>
              /\ m \in CheckpointSets /\ m.state = z.state /\ m.child = z.child /\ m.cp = z.cp /\ m.after = z.after
              /\ m.persisted = z.persisted /\ m.included = z.included
              /\ m.verification = z.verification /\ m.checked = v
  BY DEF CheckpointSets

\* One part of the execution record changes.
LEMMA ExecField ==
  ASSUME NEW e \in Executions
  PROVE  /\ \A v \in {"none", "applying", "applied", "partially_applied", "failed"} : \A m : m = [e EXCEPT !.state = v] =>
              m \in Executions /\ m.state = v /\ m.op = e.op /\ m.tx = e.tx /\ m.order = e.order
         /\ \A v \in [Ops -> {"pending", "verified", "applied_unverified", "no-op", "failed"}] : \A m : m = [e EXCEPT !.op = v] =>
              m \in Executions /\ m.state = e.state /\ m.op = v /\ m.tx = e.tx /\ m.order = e.order
         /\ \A v \in [Ops -> {NoTx} \cup TxIds] : \A m : m = [e EXCEPT !.tx = v] =>
              m \in Executions /\ m.state = e.state /\ m.op = e.op /\ m.tx = v /\ m.order = e.order
         /\ \A v \in SUBSET Ops : \A m : m = [e EXCEPT !.order = v] =>
              m \in Executions /\ m.state = e.state /\ m.op = e.op /\ m.tx = e.tx /\ m.order = v
  BY DEF Executions

\* One part of a recovery changes.
LEMMA RecoveryField ==
  ASSUME NEW z \in Recoveries
  PROVE  /\ \A v \in {"none", "recovery_prepared", "blocked", "recovering", "partially_recovered", "failed", "recovered"} :
              \A m : m = [z EXCEPT !.state = v] =>
              m \in Recoveries /\ m.state = v /\ m.set = z.set /\ m.undone = z.undone /\ m.restored = z.restored
         /\ \A v \in {NoSet} \cup SetIds : \A m : m = [z EXCEPT !.set = v] =>
              m \in Recoveries /\ m.state = z.state /\ m.set = v /\ m.undone = z.undone /\ m.restored = z.restored
         /\ \A v \in SUBSET Ops : \A m : m = [z EXCEPT !.undone = v] =>
              m \in Recoveries /\ m.state = z.state /\ m.set = z.set /\ m.undone = v /\ m.restored = z.restored
         /\ \A v \in SUBSET Assets : \A m : m = [z EXCEPT !.restored = v] =>
              m \in Recoveries /\ m.state = z.state /\ m.set = z.set /\ m.undone = z.undone /\ m.restored = v
  BY DEF Recoveries

\* The Editor's counters are numbers, before and after what happens in it.
LEMMA EditorNumbers ==
  ASSUME BatchInv, EditorMove
  PROVE  /\ lastTx \in Nat /\ lastTx' \in Nat /\ lastTx <= lastTx'
         /\ lastRev \in Nat /\ lastRev' \in Nat /\ lastRev <= lastRev' /\ MaxRev \in Nat
         /\ savedTx \in [Assets -> 0..MaxTx] /\ rev \in [Assets -> 0..MaxRev]
         /\ \A a \in Assets : /\ savedTx[a] \in Nat /\ savedTx[a] <= lastTx
                             /\ rev[a] \in Nat /\ rev[a] <= lastRev
         /\ \A a \in Assets : savedTx'[a] = savedTx[a] \/ savedTx'[a] = lastTx
         /\ \A a \in Assets : \/ rev'[a] = rev[a] /\ disk'[a] = disk[a]
                              \/ rev'[a] = 0
                              \/ rev'[a] = lastRev + 1 /\ lastRev < MaxRev /\ lastRev' = lastRev + 1
  <1>1. EditorPart /\ EditorPart'
    BY MovesKeepEditorPart DEF BatchInv
  <1>2. EditorTypeOK /\ EditorTypeOK' /\ SavesArePast
    BY <1>1 DEF EditorPart, EditorInv
  <1>3. /\ lastTx \in Nat /\ lastTx' \in Nat /\ lastRev \in Nat /\ lastRev' \in Nat /\ MaxRev \in Nat
        /\ savedTx \in [Assets -> 0..MaxTx] /\ rev \in [Assets -> 0..MaxRev]
    BY <1>2, BoundsAssumption DEF EditorTypeOK
  <1>4. \A a \in Assets : /\ savedTx[a] \in Nat /\ savedTx[a] <= lastTx
                         /\ rev[a] \in Nat /\ rev[a] <= lastRev
    BY <1>2, <1>3, BoundsAssumption DEF SavesArePast
  <1>5. /\ lastTx <= lastTx' /\ lastRev <= lastRev'
        /\ \A a \in Assets : savedTx'[a] = savedTx[a] \/ savedTx'[a] = lastTx
        /\ \A a \in Assets : \/ rev'[a] = rev[a] /\ disk'[a] = disk[a]
                             \/ rev'[a] = 0
                             \/ rev'[a] = lastRev + 1 /\ lastRev < MaxRev /\ lastRev' = lastRev + 1
    BY <1>1, MovesAreMonotone
  <1> QED
    BY <1>3, <1>4, <1>5

\* The execution stays accounted for while no operation of it takes effect.
LEMMA ExecutionFrame ==
  ASSUME BatchInv, EditorMove, exec' = exec,
         \/ call' = call
         \/ call'.tool # "apply" /\ call'.tx \in {NoTx, call.tx} /\ (call.tool = "apply" => call' = Idle),
         \A i \in Ops : \/ place'[i] \in {place[i], "nowhere"}
                        \/ place[i] # "nowhere" /\ savedTx'[Batch[i].asset] = lastTx
  PROVE  ExecutionPart'
  <1>1. /\ call \in Calls /\ exec \in Executions /\ ExecutionPart
        /\ lastTx \in Nat /\ lastTx <= lastTx' /\ lastTx' \in Nat
        /\ savedTx \in [Assets -> 0..MaxTx] /\ \A a \in Assets : savedTx[a] <= lastTx
        /\ \A a \in Assets : savedTx'[a] = savedTx[a] \/ savedTx'[a] = lastTx
    <2>1. call \in Calls /\ exec \in Executions /\ ExecutionPart
      BY DEF BatchInv, RecordTypes
    <2> QED
      BY <2>1, EditorNumbers
  <1>2. /\ call.tx \in Nat /\ \A i \in Ops : exec.tx[i] \in Nat
        /\ \A i \in Ops : Batch[i].asset \in Assets
    <2>1. call.tx \in {NoTx} \cup TxIds
      BY <1>1 DEF Calls
    <2>2. \A i \in Ops : exec.tx[i] \in {NoTx} \cup TxIds
      BY <1>1 DEF Executions
    <2>3. {NoTx} \cup TxIds \subseteq Nat
      BY DEF NoTx, TxIds
    <2> QED
      BY <2>1, <2>2, <2>3, BatchFacts
  <1>3. WritesAreKnown'
    <2> SUFFICES ASSUME NEW i \in Ops, place'[i] # "nowhere",
                        ~(call'.tool = "apply" /\ call'.phase = "verify" /\ i = FirstOp(call'.ops)),
                        ~(exec.state = "applying" /\ call'.tool # "apply")
                 PROVE  exec.op[i] \in {"verified", "applied_unverified", "failed"}
      BY DEF WritesAreKnown, AtVerify
    <2>1. call' = call \/ call.tool # "apply"
      BY <1>1 DEF ExecutionPart, ExecutionAdvances, Idle
    <2>2. ~AtVerify(i)
      BY <2>1 DEF AtVerify
    <2>3. place[i] # "nowhere"
      OBVIOUS
    <2> QED
      BY <1>1, <2>1, <2>2, <2>3 DEF ExecutionPart, WritesAreKnown
  <1>4. ExecutionAdvances'
    BY <1>1 DEF ExecutionPart, ExecutionAdvances, Idle, Mutated
  <1>5. TransactionsArePast'
    <2>1. call'.tx <= lastTx'
      BY <1>1, <1>2 DEF ExecutionPart, TransactionsArePast, NoTx
    <2> SUFFICES ASSUME NEW i \in Ops
                 PROVE  /\ exec.tx[i] <= lastTx'
                        /\ place'[i] = "disk" => exec.tx[i] <= savedTx'[Batch[i].asset]
                        /\ place'[i] = "disk" /\ call'.tool = "apply" /\ call'.phase = "verify" /\ i = FirstOp(call'.ops)
                             => call'.tx <= savedTx'[Batch[i].asset]
      BY <2>1 DEF TransactionsArePast, AtVerify
    <2>2. exec.tx[i] <= lastTx /\ call.tx <= lastTx
      BY <1>1 DEF ExecutionPart, TransactionsArePast
    <2>3. call'.tool = "apply" /\ call'.phase = "verify" /\ i = FirstOp(call'.ops) => call' = call /\ AtVerify(i)
      BY DEF AtVerify
    <2>4. CASE savedTx'[Batch[i].asset] = lastTx
      BY <1>1, <1>2, <2>2, <2>3, <2>4
    <2>5. CASE savedTx'[Batch[i].asset] # lastTx
      <3>1. savedTx'[Batch[i].asset] = savedTx[Batch[i].asset] /\ (place'[i] = "disk" => place[i] = "disk")
        BY <1>1, <1>2, <2>5
      <3> QED
        BY <1>1, <1>2, <2>2, <2>3, <3>1 DEF ExecutionPart, TransactionsArePast
    <2> QED
      BY <2>4, <2>5
  <1> QED
    BY <1>3, <1>4, <1>5 DEF ExecutionPart

\* What recoveries did stays done while no operation of the batch takes effect.
LEMMA RecoveryFrame ==
  ASSUME BatchInv, exec' = exec, recs' = recs, call' = call \/ call'.tool \notin {"apply", "recover"},
         \A i \in Ops : /\ place[i] = "nowhere" => place'[i] = "nowhere"
                        /\ place'[i] = "memory" => place[i] = "memory"
  PROVE  RecoveryPart'
  <1>1. /\ RecoveryPart /\ exec.order \subseteq Ops /\ \A r \in RecoveryIds : recs[r].undone \subseteq Ops
        /\ \A a : OpsOf(a) \subseteq Ops
    BY BatchFacts DEF BatchInv, RecordTypes, Executions, Recoveries
  <1>2. \A a : InMemory(a)' => InMemory(a)
    BY <1>1 DEF InMemory
  <1> QED
    BY <1>1, <1>2 DEF RecoveryPart

\* What is true of a set stays true whatever happens in the Editor: a saved revision gets
\* a number of its own, and a restored one is that of the index.
LEMMA TruthStays ==
  ASSUME BatchInv, EditorMove, NEW z \in CheckpointSets, SetIsTrue(z),
         exec'.state = exec.state \/ z.state = "none" \/ (exec.state # "applied"),
         z.state = "none" => \A a \in Assets : z.cp[a] = "none",
         \A i \in Ops : place'[i] = "memory" => place[i] = "memory" \/ z.state = "none"
  PROVE  SetIsTrue(z)'
  <1>1. /\ lastRev \in Nat /\ lastRev <= lastRev' /\ lastRev' \in Nat /\ MaxRev \in Nat
        /\ \A a \in Assets : \/ rev'[a] = rev[a] /\ disk'[a] = disk[a]
                             \/ rev'[a] = 0
                             \/ rev'[a] = lastRev + 1 /\ lastRev < MaxRev /\ lastRev' = lastRev + 1
    BY EditorNumbers
  <1>2. \A a \in Assets : z.after[a] \in 0..(MaxRev + 1)
    BY DEF CheckpointSets, NoRev
  <1>3. z.state # "none" => exec'.state = "applied"
    BY DEF SetIsTrue
  <1> SUFFICES ASSUME NEW a \in Assets
               PROVE  /\ z.cp[a] \in WrittenStates => ~\E i \in OpsOf(a) : place'[i] = "memory"
                      /\ z.after[a] # 0 /\ (z.after[a] <= lastRev' \/ z.after[a] = NoRev)
                      /\ z.cp[a] = "verified" /\ rev'[a] = z.after[a] => Holds(disk', z.included \cap OpsOf(a))
    BY <1>3 DEF SetIsTrue, InMemory
  <1>4. ASSUME z.cp[a] \in WrittenStates
        PROVE  ~\E i \in OpsOf(a) : place'[i] = "memory"
    <2>1. z.state # "none"
      BY <1>4 DEF WrittenStates
    <2>2. ~\E i \in OpsOf(a) : place[i] = "memory"
      BY <1>4 DEF SetIsTrue, InMemory
    <2>3. OpsOf(a) \subseteq Ops
      BY BatchFacts
    <2> SUFFICES ASSUME NEW i \in OpsOf(a), place'[i] = "memory" PROVE FALSE
      OBVIOUS
    <2>4. i \in Ops /\ place[i] # "memory"
      BY <2>2, <2>3
    <2> QED
      BY <2>1, <2>4
  <1>5. z.after[a] # 0 /\ (z.after[a] <= lastRev' \/ z.after[a] = NoRev)
    <2>1. z.after[a] # 0 /\ (z.after[a] <= lastRev \/ z.after[a] = NoRev)
      BY DEF SetIsTrue
    <2>2. z.after[a] \in Nat
      BY <1>1, <1>2
    <2> QED
      BY <1>1, <2>1, <2>2
  <1>6. ASSUME z.cp[a] = "verified", rev'[a] = z.after[a]
        PROVE  Holds(disk', z.included \cap OpsOf(a))
    <2>1. rev'[a] = rev[a] /\ disk'[a] = disk[a]
      <3>1. z.after[a] # 0 /\ (z.after[a] <= lastRev \/ z.after[a] = MaxRev + 1)
        BY DEF SetIsTrue, NoRev
      <3>2. rev'[a] # 0
        BY <1>6, <3>1
      <3>3. ~(rev'[a] = lastRev + 1 /\ lastRev < MaxRev)
        BY <1>1, <1>6, <3>1
      <3> QED
        BY <1>1, <3>2, <3>3
    <2>2. Holds(disk, z.included \cap OpsOf(a))
      BY <1>6, <2>1 DEF SetIsTrue
    <2> QED
      BY <2>1, <2>2 DEF Holds, Effective, OpsOf
  <1> QED
    BY <1>4, <1>5, <1>6

\* What every set says stays true while none of them changes.
LEMMA SetsStayTrue ==
  ASSUME BatchInv, EditorMove, sets' = sets,
         exec'.state = exec.state \/ exec.state # "applied",
         \A i \in Ops : place'[i] = "memory" => place[i] = "memory" \/ exec.state # "applied"
  PROVE  SetsAreTrue'
  <1> SUFFICES ASSUME NEW s \in SetIds
               PROVE  SetFits(sets'[s]) /\ SetIsTrue(sets[s])'
    BY DEF SetsAreTrue, SetFits
  <1>1. PICK z \in CheckpointSets : z = sets[s]
    BY DEF BatchInv, RecordTypes
  <1>2. SetFits(z) /\ SetIsTrue(z)
    BY <1>1 DEF BatchInv, SetPart, SetsAreTrue
  <1>3. /\ z.state = "none" => \A a \in Assets : z.cp[a] = "none"
        /\ z.state # "none" => exec.state = "applied"
    BY <1>2 DEF SetFits, SetIsTrue
  <1>4. SetIsTrue(z)'
    BY <1>2, <1>3, TruthStays
  <1> QED
    BY <1>1, <1>2, <1>4 DEF SetIsTrue

\* One set changes and the others stay true.
LEMMA OneSetChanges ==
  ASSUME BatchInv, EditorMove, exec' = exec,
         \A i \in Ops : place'[i] = "memory" => place[i] = "memory",
         NEW s \in SetIds, NEW z \in CheckpointSets, sets' = [sets EXCEPT ![s] = z],
         SetFits(z), SetIsTrue(z)'
  PROVE  /\ sets' \in [SetIds -> CheckpointSets] /\ sets'[s] = z
         /\ \A t \in SetIds : t # s => sets'[t] = sets[t]
         /\ SetsAreTrue'
  <1>1. sets \in [SetIds -> CheckpointSets]
    BY DEF BatchInv, RecordTypes
  <1>2. /\ sets' \in [SetIds -> CheckpointSets] /\ sets'[s] = z
        /\ \A t \in SetIds : t # s => sets'[t] = sets[t]
    BY <1>1
  <1>3. ASSUME NEW t \in SetIds, t # s
        PROVE  SetFits(sets'[t]) /\ SetIsTrue(sets[t])'
    <2>1. PICK y \in CheckpointSets : y = sets[t]
      BY <1>1
    <2>2. SetFits(y) /\ SetIsTrue(y)
      BY <2>1 DEF BatchInv, SetPart, SetsAreTrue
    <2>3. y.state = "none" => \A a \in Assets : y.cp[a] = "none"
      BY <2>2 DEF SetFits
    <2>4. SetIsTrue(y)'
      BY <2>2, <2>3, TruthStays
    <2>5. sets'[t] = y
      BY <1>2, <1>3, <2>1
    <2> QED
      BY <2>2, <2>4, <2>5 DEF SetIsTrue
  <1>4. SetFits(sets'[s]) /\ SetIsTrue(sets[s])'
    BY <1>2 DEF SetIsTrue
  <1> QED
    BY <1>2, <1>3, <1>4 DEF SetsAreTrue, SetFits

\* What the sets say stays true while no save or verification moves on.
LEMMA SetFrame ==
  ASSUME BatchInv, EditorMove, sets' = sets, \A b \in backups' : b.rev = 0,
         call' = call \/ call'.tool \notin {"save", "verify"},
         exec'.state = exec.state \/ exec.state # "applied",
         \A i \in Ops : place'[i] = "memory" => place[i] = "memory" \/ exec.state # "applied"
  PROVE  SetPart'
  <1>1. SetsAreTrue'
    BY SetsStayTrue
  <1>2. SetCallFits'
    BY DEF BatchInv, SetPart, SetCallFits
  <1> QED
    BY <1>1, <1>2 DEF SetPart

\* While the batch is applied there is no recovery of it.
LEMMA NoRecoveryYet ==
  ASSUME BatchInv, exec.state = "none" \/ call.tool = "apply", recs' = recs, call'.tool # "recover"
  PROVE  RecoveryPart'
  <1>1. \A r \in RecoveryIds : recs[r].state = "none" /\ recs[r].undone = {} /\ recs[r].restored = {}
    BY DEF BatchInv, RecoveryPart
  <1> QED
    BY <1>1 DEF RecoveryPart

\* One recovery changes and the others stay true.
LEMMA OneRecoveryChanges ==
  ASSUME BatchInv, exec' = exec, exec.state # "none", call'.tool # "apply",
         \A i \in Ops : /\ place[i] = "nowhere" => place'[i] = "nowhere"
                        /\ place'[i] = "memory" => place[i] = "memory",
         NEW r \in RecoveryIds, NEW z \in Recoveries, recs' = [recs EXCEPT ![r] = z],
         z.state # "none",
         \A i \in z.undone : place'[i] = "nowhere",
         \A a \in z.restored : \A i \in OpsOf(a) : place'[i] = "nowhere",
         call'.tool = "recover" =>
           /\ call'.id = r
           /\ \A i \in exec.order : i \in call'.ops \/ Batch[i].asset \in call'.assets \/ place'[i] = "nowhere"
           /\ call'.assets # {} => exec.state = "applied"
           /\ \A a \in call'.assets : a \in BatchAssets /\ ~InMemory(a)
  PROVE  recs' \in [RecoveryIds -> Recoveries] /\ RecoveryPart'
  <1>1. /\ RecoveryPart /\ recs \in [RecoveryIds -> Recoveries]
        /\ \A t \in RecoveryIds : recs[t].undone \subseteq Ops
        /\ \A a : OpsOf(a) \subseteq Ops
    BY BatchFacts DEF BatchInv, RecordTypes, Recoveries
  <1>2. /\ recs' \in [RecoveryIds -> Recoveries] /\ recs'[r] = z
        /\ \A t \in RecoveryIds : t # r => recs'[t] = recs[t]
    BY <1>1
  <1>3. \A a : (\E i \in OpsOf(a) : place'[i] = "memory") => InMemory(a)
    BY <1>1 DEF InMemory
  <1>4. \A t \in RecoveryIds :
          /\ recs'[t].state # "none" => exec'.state # "none" /\ call'.tool # "apply"
          /\ recs'[t].state = "none" => recs'[t].undone = {} /\ recs'[t].restored = {}
          /\ \A i \in recs'[t].undone : place'[i] = "nowhere"
          /\ \A a \in recs'[t].restored : \A i \in OpsOf(a) : place'[i] = "nowhere"
    <2> SUFFICES ASSUME NEW t \in RecoveryIds
                 PROVE  /\ recs'[t].state # "none" => exec'.state # "none" /\ call'.tool # "apply"
                        /\ recs'[t].state = "none" => recs'[t].undone = {} /\ recs'[t].restored = {}
                        /\ \A i \in recs'[t].undone : place'[i] = "nowhere"
                        /\ \A a \in recs'[t].restored : \A i \in OpsOf(a) : place'[i] = "nowhere"
      OBVIOUS
    <2>1. CASE t = r
      BY <1>2, <2>1
    <2>2. CASE t # r
      BY <1>1, <1>2, <2>2 DEF RecoveryPart
    <2> QED
      BY <2>1, <2>2
  <1>5. call'.tool = "recover" =>
          /\ call'.id \in RecoveryIds /\ recs'[call'.id].state # "none"
          /\ \A i \in exec'.order : i \in call'.ops \/ Batch[i].asset \in call'.assets \/ place'[i] = "nowhere"
          /\ call'.assets # {} => exec'.state = "applied"
          /\ \A a \in call'.assets : a \in BatchAssets /\ ~\E i \in OpsOf(a) : place'[i] = "memory"
    BY <1>2, <1>3
  <1> QED
    BY <1>2, <1>4, <1>5 DEF RecoveryPart, InMemory

(***************************************************************************)
(* The user and the server's end.                                          *)
(***************************************************************************)

\* The invariant survives whatever the user does between two calls.
LEMMA UserStepKeeps == ASSUME BatchInv, UserStep PROVE BatchInv'
  <1>1. EditorMove
    BY DEF UserStep, EditorMove
  <1>2. UNCHANGED <<call, service, exec, sets, firstSet, recs, backups, live>>
    BY DEF UserStep
  <1>3. /\ place' \in [Ops -> {"nowhere", "memory", "disk"}]
        /\ \A i \in Ops : /\ place[i] = "nowhere" => place'[i] = "nowhere"
                          /\ place'[i] = "memory" => place[i] = "memory"
        /\ \A i \in Ops : \/ place'[i] \in {place[i], "nowhere"}
                          \/ place[i] # "nowhere" /\ savedTx'[Batch[i].asset] = lastTx
    <2>1. CASE UNCHANGED place
      BY <2>1 DEF BatchInv, RecordTypes
    <2>2. ASSUME NEW a \in Assets, UserSave(a), place' = Moved(OpsOf(a), "memory", "disk")
          PROVE  <1>3
      <3>1. savedTx' = [savedTx EXCEPT ![a] = lastTx]
        BY <2>2 DEF UserSave, WriteToDisk
      <3>2. savedTx'[a] = lastTx
        BY <3>1 DEF BatchInv, EditorPart, EditorInv, EditorTypeOK
      <3>3. OpsOf(a) \in SUBSET Ops /\ RecordTypes
        BY BatchFacts DEF BatchInv
      <3>4. /\ place' \in [Ops -> {"nowhere", "memory", "disk"}]
            /\ \A i \in Ops : place'[i] = IF i \in OpsOf(a) /\ place[i] = "memory" THEN "disk" ELSE place[i]
        <4>1. "disk" \in {"nowhere", "memory", "disk"}
          OBVIOUS
        <4>2. place' = Moved(OpsOf(a), "memory", "disk")
          BY <2>2
        <4> QED
          BY <3>3, <4>1, <4>2, MovedFacts
      <3> QED
        BY <3>2, <3>4 DEF OpsOf
    <2>3. ASSUME place' = Moved(Ops, "memory", "nowhere")
          PROVE  <1>3
      <3>1. /\ place' \in [Ops -> {"nowhere", "memory", "disk"}]
            /\ \A i \in Ops : place'[i] = IF i \in Ops /\ place[i] = "memory" THEN "nowhere" ELSE place[i]
        BY <2>3, MovedFacts DEF BatchInv
      <3> QED
        BY <3>1
    <2> QED
      BY <2>1, <2>2, <2>3 DEF UserStep
  <1>4. EditorPart'
    BY <1>1, MovesKeepEditorPart DEF BatchInv
  <1>5. RecordTypes'
    BY <1>2, <1>3 DEF BatchInv, RecordTypes
  <1>6. ExecutionPart'
    BY <1>1, <1>2, <1>3, ExecutionFrame
  <1>7. SetPart'
    <2>1. \A b \in backups' : b.rev = 0
      BY <1>2 DEF BatchInv, SetPart
    <2> QED
      BY <1>1, <1>2, <1>3, <2>1, SetFrame
  <1>8. RecoveryPart'
    BY <1>2, <1>3, RecoveryFrame
  <1> QED
    BY <1>4, <1>5, <1>6, <1>7, <1>8 DEF BatchInv

\* What the idle server is.
LEMMA IdleFacts ==
  /\ Idle \in Calls /\ Idle.tool = "none" /\ Idle.phase = "start" /\ Idle.id = 0
  /\ Idle.ops = {} /\ Idle.assets = {} /\ Idle.tx = NoTx /\ Idle.done = {}
  <1>1. MaxSets \in Nat /\ MaxRecoveries \in Nat
    BY BatchAssumption
  <1>2. 0 \in 0..(MaxSets + MaxRecoveries)
    BY <1>1
  <1> QED
    BY <1>2 DEF Idle, Calls

\* The invariant survives the end of the server.
LEMMA ServerCrashKeeps == ASSUME BatchInv, ServerCrash PROVE BatchInv'
  <1>1. EditorMove
    BY DEF ServerCrash, EditorMove
  <1>2. /\ call' = Idle /\ service' = [planned |-> FALSE, auths |-> {}]
        /\ UNCHANGED <<exec, sets, firstSet, recs, backups, live, place>>
    BY DEF ServerCrash
  <1>3. RecordTypes'
    <2>1. service' \in [planned : BOOLEAN, auths : SUBSET SetIds]
      BY <1>2
    <2> QED
      BY <1>2, <2>1, IdleFacts DEF BatchInv, RecordTypes
  <1>4. ExecutionPart'
    BY <1>1, <1>2, IdleFacts, ExecutionFrame
  <1>5. SetPart'
    <2>1. \A b \in backups' : b.rev = 0
      BY <1>2 DEF BatchInv, SetPart
    <2> QED
      BY <1>1, <1>2, <2>1, IdleFacts, SetFrame
  <1>6. RecoveryPart'
    BY <1>2, IdleFacts, RecoveryFrame
  <1>7. EditorPart'
    BY <1>1, MovesKeepEditorPart DEF BatchInv
  <1> QED
    BY <1>3, <1>4, <1>5, <1>6, <1>7 DEF BatchInv

(***************************************************************************)
(* The apply tool.                                                         *)
(***************************************************************************)

\* The results of an operation.
Results == {"pending", "verified", "applied_unverified", "no-op", "failed"}

\* The result of one operation enters the execution record.
LEMMA WithOpFacts ==
  ASSUME NEW e \in Executions, NEW i \in Ops, NEW tx \in {NoTx} \cup TxIds,
         NEW status \in Results,
         NEW w, w = WithOp(e, i, status, tx)
  PROVE  /\ w \in Executions /\ w.state = e.state /\ w.order = e.order
         /\ w.op[i] = status /\ w.tx[i] = tx
         /\ \A j \in Ops \ {i} : w.op[j] = e.op[j] /\ w.tx[j] = e.tx[j]
  <1>1. /\ e.op \in [Ops -> Results]
        /\ e.tx \in [Ops -> {NoTx} \cup TxIds]
    BY DEF Executions, Results
  <1>2. PICK f : f = [e.op EXCEPT ![i] = status]
    OBVIOUS
  <1>3. PICK g : g = [e.tx EXCEPT ![i] = tx]
    OBVIOUS
  <1>4. /\ f \in [Ops -> Results]
        /\ \A j \in Ops : (j = i => f[j] = status) /\ (j # i => f[j] = e.op[j])
    BY <1>1, <1>2
  <1>5. /\ g \in [Ops -> {NoTx} \cup TxIds]
        /\ \A j \in Ops : (j = i => g[j] = tx) /\ (j # i => g[j] = e.tx[j])
    BY <1>1, <1>3
  <1>6. PICK m : m = [e EXCEPT !.op = f]
    OBVIOUS
  <1>7. PICK n : n = [m EXCEPT !.tx = g]
    OBVIOUS
  <1>8. m \in Executions /\ m.state = e.state /\ m.op = f /\ m.tx = e.tx /\ m.order = e.order
    BY <1>4, <1>6, ExecField DEF Results
  <1>9. n \in Executions /\ n.state = e.state /\ n.op = f /\ n.tx = g /\ n.order = e.order
    BY <1>5, <1>7, <1>8, ExecField
  <1>10. WithOp(e, i, status, tx) = n
    BY <1>2, <1>3, <1>6, <1>7, <1>8 DEF WithOp, Executions
  <1> QED
    BY <1>4, <1>5, <1>9, <1>10

\* A failed apply closes the record with the recovery order of what it wrote.
LEMMA FinalizedFacts ==
  ASSUME NEW e \in Executions
  PROVE  \A f : f = Finalized(e) =>
           /\ f \in Executions /\ f.op = e.op /\ f.tx = e.tx /\ f.order = Mutated(f)
           /\ f.state \in {"partially_applied", "failed"}
  <1>1. Mutated(e) \in SUBSET Ops
    BY DEF Mutated
  <1>2. PICK v \in {"partially_applied", "failed"} : v = IF Mutated(e) # {} THEN "partially_applied" ELSE "failed"
    OBVIOUS
  <1>3. PICK m : m = [e EXCEPT !.order = Mutated(e)]
    OBVIOUS
  <1>4. PICK n : n = [m EXCEPT !.state = v]
    OBVIOUS
  <1>5. m \in Executions /\ m.state = e.state /\ m.op = e.op /\ m.tx = e.tx /\ m.order = Mutated(e)
    BY <1>1, <1>3, ExecField
  <1>6. n \in Executions /\ n.state = v /\ n.op = e.op /\ n.tx = e.tx /\ n.order = Mutated(e)
    BY <1>4, <1>5, ExecField
  <1>7. Finalized(e) = n
    BY <1>2, <1>3, <1>4 DEF Finalized
  <1>8. Mutated(n) = Mutated(e)
    BY <1>6 DEF Mutated
  <1> QED
    BY <1>6, <1>7, <1>8

\* An apply that stops at an operation leaves an execution that accounts for it.
LEMMA StopApplyKeeps ==
  ASSUME BatchInv, EditorMove, call.tool = "apply", NEW i \in Ops, i = FirstOp(call.ops),
         NEW status \in {"failed", "applied_unverified"}, NEW tx \in {NoTx} \cup TxIds,
         StopApply(i, status, tx), tx <= lastTx,
         place'[i] = "disk" => tx <= savedTx[Batch[i].asset],
         \A j \in Ops : j # i => place'[j] = place[j],
         UNCHANGED <<rev, savedTx>>
  PROVE  exec' \in Executions /\ exec.state = "applying" /\ call' = Idle /\ ExecutionPart'
  <1>1. PICK e : e = WithOp(exec, i, status, tx)
    OBVIOUS
  <1>2. /\ exec \in Executions /\ ExecutionPart /\ call \in Calls
        /\ lastTx \in Nat /\ lastTx' \in Nat /\ lastTx <= lastTx'
    BY EditorNumbers DEF BatchInv, RecordTypes
  <1>3. /\ e \in Executions
        /\ e.op[i] = status /\ e.tx[i] = tx
        /\ \A j \in Ops \ {i} : e.op[j] = exec.op[j] /\ e.tx[j] = exec.tx[j]
    <2>1. status \in Results
      BY DEF Results
    <2> QED
      BY <1>1, <1>2, <2>1, WithOpFacts
  <1>4. exec' = Finalized(e) /\ call' = Idle
    BY <1>1 DEF StopApply
  <1>5. /\ exec' \in Executions /\ exec'.op = e.op /\ exec'.tx = e.tx /\ exec'.order = Mutated(exec')
        /\ exec'.state \in {"partially_applied", "failed"}
    BY <1>3, <1>4, FinalizedFacts
  <1>6. exec.state = "applying"
    BY <1>2 DEF ExecutionPart, ExecutionAdvances
  <1>7. WritesAreKnown'
    <2> SUFFICES ASSUME NEW j \in Ops, place'[j] # "nowhere"
                 PROVE  exec'.op[j] \in {"verified", "applied_unverified", "failed"}
      BY DEF WritesAreKnown
    <2>1. CASE j = i
      BY <1>3, <1>5, <2>1
    <2>2. CASE j # i
      <3>1. ~AtVerify(j) /\ place[j] # "nowhere"
        BY <2>2 DEF AtVerify
      <3>2. exec.op[j] \in {"verified", "applied_unverified", "failed"}
        BY <1>2, <3>1 DEF ExecutionPart, WritesAreKnown
      <3> QED
        BY <1>3, <1>5, <2>2, <3>2
    <2> QED
      BY <2>1, <2>2
  <1>8. ExecutionAdvances'
    <2>1. Mutated(exec)' = Mutated(exec')
      BY DEF Mutated
    <2> QED
      BY <1>4, <1>5, <2>1, IdleFacts DEF ExecutionAdvances
  <1>9. TransactionsArePast'
    <2>1. call'.tx <= lastTx' /\ call'.tool # "apply"
      BY <1>2, <1>4, IdleFacts DEF NoTx
    <2>2. exec'.tx[i] = tx /\ \A j \in Ops \ {i} : exec'.tx[j] = exec.tx[j]
      BY <1>3, <1>5
    <2>3. \A j \in Ops : exec.tx[j] \in Nat /\ exec.tx[j] <= lastTx
      <3>1. \A j \in Ops : exec.tx[j] \in {NoTx} \cup TxIds
        BY <1>2 DEF Executions
      <3>2. {NoTx} \cup TxIds \subseteq Nat
        BY DEF NoTx, TxIds
      <3> QED
        BY <1>2, <3>1, <3>2 DEF ExecutionPart, TransactionsArePast
    <2>4. \A j \in Ops : j # i /\ place'[j] = "disk" => exec.tx[j] <= savedTx'[Batch[j].asset]
      BY <1>2 DEF ExecutionPart, TransactionsArePast
    <2>5. tx \in Nat
      BY DEF NoTx, TxIds
    <2> SUFFICES ASSUME NEW j \in Ops
                 PROVE  /\ exec'.tx[j] <= lastTx'
                        /\ place'[j] = "disk" => exec'.tx[j] <= savedTx'[Batch[j].asset]
      BY <2>1 DEF TransactionsArePast, AtVerify
    <2>6. CASE j = i
      BY <1>2, <2>2, <2>5, <2>6
    <2>7. CASE j # i
      BY <1>2, <2>2, <2>3, <2>4, <2>7
    <2> QED
      BY <2>6, <2>7
  <1> QED
    BY <1>4, <1>5, <1>6, <1>7, <1>8, <1>9 DEF ExecutionPart

\* An apply that goes on to the next operation accounts for the one it leaves.
LEMMA AnsweredKeeps ==
  ASSUME BatchInv, EditorMove, call.tool = "apply", NEW i \in Ops, i = FirstOp(call.ops),
         NEW status \in {"verified", "no-op"}, NEW tx \in {NoTx} \cup TxIds,
         exec' = WithOp(exec, i, status, tx), tx <= lastTx,
         call'.tool = "apply", call'.phase = "start", call'.ops = call.ops \ {i}, call'.tx \in {NoTx, call.tx},
         status = "no-op" => place[i] = "nowhere",
         place[i] = "disk" => tx <= savedTx[Batch[i].asset],
         UNCHANGED <<place, savedTx>>
  PROVE  exec' \in Executions /\ exec.state = "applying" /\ exec'.state = "applying" /\ ExecutionPart'
  <1>1. /\ exec \in Executions /\ ExecutionPart /\ call \in Calls
        /\ lastTx \in Nat /\ lastTx' \in Nat /\ lastTx <= lastTx'
    BY EditorNumbers DEF BatchInv, RecordTypes
  <1>2. /\ exec' \in Executions /\ exec'.state = exec.state /\ exec'.order = exec.order
        /\ exec'.op[i] = status /\ exec'.tx[i] = tx
        /\ \A j \in Ops \ {i} : exec'.op[j] = exec.op[j] /\ exec'.tx[j] = exec.tx[j]
    <2>1. status \in Results
      BY DEF Results
    <2>2. PICK w : w = WithOp(exec, i, status, tx)
      OBVIOUS
    <2>3. /\ w \in Executions /\ w.state = exec.state /\ w.order = exec.order
          /\ w.op[i] = status /\ w.tx[i] = tx
          /\ \A j \in Ops \ {i} : w.op[j] = exec.op[j] /\ w.tx[j] = exec.tx[j]
      BY <1>1, <2>1, <2>2, WithOpFacts
    <2> QED
      BY <2>2, <2>3
  <1>3. exec.state = "applying" /\ \A j \in Ops : exec.op[j] \in {"pending", "verified", "no-op"}
    BY <1>1 DEF ExecutionPart, ExecutionAdvances
  <1>4. WritesAreKnown'
    <2> SUFFICES ASSUME NEW j \in Ops, place'[j] # "nowhere"
                 PROVE  exec'.op[j] \in {"verified", "applied_unverified", "failed"}
      BY DEF WritesAreKnown
    <2>1. CASE j = i
      BY <1>2, <2>1
    <2>2. CASE j # i
      <3>1. ~AtVerify(j) /\ place[j] # "nowhere"
        BY <2>2 DEF AtVerify
      <3>2. exec.op[j] \in {"verified", "applied_unverified", "failed"}
        BY <1>1, <3>1 DEF ExecutionPart, WritesAreKnown
      <3> QED
        BY <1>2, <2>2, <3>2
    <2> QED
      BY <2>1, <2>2
  <1>5. ExecutionAdvances'
    <2>1. \A j \in call'.ops : exec'.op[j] = "pending"
      <3>1. call.ops \subseteq Ops /\ \A j \in call.ops : exec.op[j] = "pending"
        BY <1>1 DEF ExecutionPart, ExecutionAdvances, Calls
      <3> QED
        BY <1>2, <3>1
    <2>2. \A j \in Ops : exec'.op[j] \in {"pending", "verified", "no-op"}
      BY <1>2, <1>3
    <2>3. exec'.state = "applying" /\ exec'.order = {}
      BY <1>1, <1>2, <1>3 DEF ExecutionPart, ExecutionAdvances
    <2> QED
      BY <2>1, <2>2, <2>3 DEF ExecutionAdvances
  <1>6. TransactionsArePast'
    <2>1. {NoTx} \cup TxIds \subseteq Nat
      BY DEF NoTx, TxIds
    <2>2. call'.tx <= lastTx'
      <3>1. call.tx \in Nat /\ call.tx <= lastTx
        BY <1>1, <2>1 DEF ExecutionPart, TransactionsArePast, Calls
      <3> QED
        BY <1>1, <3>1 DEF NoTx
    <2>3. \A j \in Ops : exec.tx[j] \in Nat /\ exec.tx[j] <= lastTx
      <3>1. \A j \in Ops : exec.tx[j] \in {NoTx} \cup TxIds
        BY <1>1 DEF Executions
      <3> QED
        BY <1>1, <2>1, <3>1 DEF ExecutionPart, TransactionsArePast
    <2>4. \A j \in Ops : j # i /\ place'[j] = "disk" => exec.tx[j] <= savedTx'[Batch[j].asset]
      BY <1>1 DEF ExecutionPart, TransactionsArePast
    <2> SUFFICES ASSUME NEW j \in Ops
                 PROVE  /\ exec'.tx[j] <= lastTx'
                        /\ place'[j] = "disk" => exec'.tx[j] <= savedTx'[Batch[j].asset]
      BY <2>2 DEF TransactionsArePast, AtVerify
    <2>5. CASE j = i
      BY <1>1, <1>2, <2>1, <2>5
    <2>6. CASE j # i
      BY <1>1, <1>2, <2>3, <2>4, <2>6
    <2> QED
      BY <2>5, <2>6
  <1> QED
    BY <1>2, <1>3, <1>4, <1>5, <1>6 DEF ExecutionPart

\* While the batch is applied no set and no recovery of it is touched.
LEMMA ApplyFrame ==
  ASSUME BatchInv, EditorMove, exec.state = "none" \/ call.tool = "apply",
         UNCHANGED <<service, sets, firstSet, recs, backups>>,
         call' \in Calls, call'.tool \in {"apply", "none"}, exec' \in Executions, live' \subseteq Ops,
         place' \in [Ops -> {"nowhere", "memory", "disk"}], ExecutionPart'
  PROVE  BatchInv'
  <1>1. exec.state # "applied"
    BY DEF BatchInv, ExecutionPart, ExecutionAdvances
  <1>2. EditorPart'
    BY MovesKeepEditorPart DEF BatchInv
  <1>3. RecordTypes'
    BY DEF BatchInv, RecordTypes
  <1>4. SetPart'
    <2>1. \A b \in backups' : b.rev = 0
      BY DEF BatchInv, SetPart
    <2>2. sets' = sets /\ call'.tool \notin {"save", "verify"}
      OBVIOUS
    <2> QED
      BY <1>1, <2>1, <2>2, SetFrame
  <1>5. RecoveryPart'
    BY NoRecoveryYet
  <1> QED
    BY <1>2, <1>3, <1>4, <1>5 DEF BatchInv

\* The operation an apply works on.
LEMMA ApplyFacts ==
  ASSUME BatchInv, NEW i \in Ops, call.tool = "apply", call.ops # {}, i = FirstOp(call.ops)
  PROVE  /\ i \in call.ops /\ call.ops \subseteq Ops /\ exec.op[i] = "pending"
         /\ exec.state = "applying"
         /\ call \in Calls /\ exec \in Executions /\ ExecutionPart
         /\ call.phase # "verify" => place[i] = "nowhere"
         /\ place \in [Ops -> {"nowhere", "memory", "disk"}]
  <1>1. call \in Calls /\ exec \in Executions /\ ExecutionPart /\ place \in [Ops -> {"nowhere", "memory", "disk"}]
    BY DEF BatchInv, RecordTypes
  <1>2. call.ops \in SUBSET Ops
    BY <1>1 DEF Calls
  <1>3. i \in call.ops
    BY <1>2, EndsOfOps
  <1>4. exec.op[i] = "pending" /\ exec.state = "applying"
    BY <1>1, <1>3 DEF ExecutionPart, ExecutionAdvances
  <1>5. call.phase # "verify" => place[i] = "nowhere"
    BY <1>1, <1>4 DEF ExecutionPart, WritesAreKnown, AtVerify
  <1> QED
    BY <1>1, <1>2, <1>3, <1>4, <1>5

\* The transaction an operation builds on has been given out.
LEMMA PreviousIsPast ==
  ASSUME BatchInv, NEW i \in Ops
  PROVE  PreviousTransaction(i) \in 0..lastTx
  <1>1. lastTx \in Nat
    BY DEF BatchInv, EditorPart, EditorInv, EditorTypeOK
  <1>2. \A j \in Ops : exec.tx[j] \in 0..lastTx
    <2>1. \A j \in Ops : exec.tx[j] \in {NoTx} \cup TxIds
      BY DEF BatchInv, RecordTypes, Executions
    <2>2. {NoTx} \cup TxIds \subseteq Nat
      BY DEF NoTx, TxIds
    <2>3. \A j \in Ops : exec.tx[j] <= lastTx
      BY DEF BatchInv, ExecutionPart, TransactionsArePast
    <2> QED
      BY <1>1, <2>1, <2>2, <2>3
  <1>3. i > 1 => i - 1 \in Ops
    BY BatchFacts
  <1>4. NoTx \in 0..lastTx
    BY <1>1 DEF NoTx
  <1> QED
    BY <1>2, <1>3, <1>4 DEF PreviousTransaction

\* The invariant survives the start of an apply.
LEMMA ApplyBatchKeeps == ASSUME BatchInv, ApplyBatch PROVE BatchInv'
  <1>1. EditorMove /\ exec.state = "none" /\ UNCHANGED <<service, sets, firstSet, recs, backups, live, place>>
    BY DEF ApplyBatch, EditorMove
  <1>2. PICK c : c = [Idle EXCEPT !.tool = "apply"]
    OBVIOUS
  <1>3. c \in Calls /\ c.tool = "apply" /\ c.phase = "start" /\ c.tx = NoTx
    BY <1>2, IdleFacts DEF Calls, Idle
  <1>4. PICK m : m = [c EXCEPT !.ops = Ops]
    OBVIOUS
  <1>5. m \in Calls /\ m.tool = "apply" /\ m.phase = "start" /\ m.ops = Ops /\ m.tx = NoTx
    BY <1>3, <1>4, CallField
  <1>6. call' = m
    BY <1>2, <1>4 DEF ApplyBatch
  <1>7. exec \in Executions /\ ExecutionPart /\ call = Idle
    BY DEF BatchInv, RecordTypes, ApplyBatch
  <1>8. exec' \in Executions /\ exec'.state = "applying" /\ exec'.op = exec.op /\ exec'.tx = exec.tx /\ exec'.order = exec.order
    BY <1>7, ExecField DEF ApplyBatch
  <1>9. ExecutionPart'
    <2>1. WritesAreKnown'
      <3>1. \A i \in Ops : exec.op[i] = "pending" /\ ~AtVerify(i)
        BY <1>1, <1>7, IdleFacts DEF ExecutionPart, ExecutionAdvances, AtVerify
      <3>2. \A i \in Ops : place'[i] = "nowhere"
        BY <1>1, <1>7, <3>1 DEF ExecutionPart, WritesAreKnown
      <3> QED
        BY <3>2 DEF WritesAreKnown
    <2>2. ExecutionAdvances'
      BY <1>1, <1>5, <1>6, <1>7, <1>8 DEF ExecutionPart, ExecutionAdvances
    <2>3. TransactionsArePast'
      <3>1. NoTx <= lastTx
        BY DEF BatchInv, EditorPart, EditorInv, EditorTypeOK, NoTx
      <3>2. UNCHANGED <<lastTx, savedTx>>
        BY DEF ApplyBatch, editorVars, historyVars, diskVars
      <3>3. \A i \in Ops : ~(call'.tool = "apply" /\ call'.phase = "verify" /\ i = FirstOp(call'.ops))
        BY <1>5, <1>6
      <3> QED
        BY <1>1, <1>5, <1>6, <1>7, <1>8, <3>1, <3>2, <3>3 DEF ExecutionPart, TransactionsArePast, AtVerify
    <2> QED
      BY <2>1, <2>2, <2>3 DEF ExecutionPart
  <1> QED
    BY <1>1, <1>5, <1>6, <1>8, <1>9, ApplyFrame DEF BatchInv, RecordTypes

\* The invariant survives the end of an apply.
LEMMA FinishApplyKeeps == ASSUME BatchInv, FinishApply PROVE BatchInv'
  <1>1. /\ EditorMove /\ call.tool = "apply" /\ call.ops = {} /\ call' = Idle
        /\ UNCHANGED <<service, sets, firstSet, recs, backups, live, place>>
    BY DEF FinishApply, EditorMove
  <1>2. exec \in Executions /\ ExecutionPart
    BY DEF BatchInv, RecordTypes
  <1>3. Mutated(exec) \in SUBSET Ops
    BY DEF Mutated
  <1>4. PICK m : m = [exec EXCEPT !.state = "applied"]
    OBVIOUS
  <1>5. PICK n : n = [m EXCEPT !.order = Mutated(exec)]
    OBVIOUS
  <1>6. m \in Executions /\ m.state = "applied" /\ m.op = exec.op /\ m.tx = exec.tx
    BY <1>2, <1>4, ExecField
  <1>7. n \in Executions /\ n.state = "applied" /\ n.op = exec.op /\ n.tx = exec.tx /\ n.order = Mutated(exec)
    BY <1>3, <1>5, <1>6, ExecField
  <1>8. exec' = n
    BY <1>4, <1>5 DEF FinishApply
  <1>9. ExecutionPart'
    <2>1. WritesAreKnown'
      <3>1. \A i \in Ops : ~AtVerify(i)
        BY <1>1, <1>2 DEF ExecutionPart, ExecutionAdvances, AtVerify
      <3> QED
        BY <1>1, <1>2, <1>7, <1>8, <3>1 DEF ExecutionPart, WritesAreKnown
    <2>2. ExecutionAdvances'
      <3>1. \A i \in Ops : exec'.op[i] # "failed"
        BY <1>1, <1>2, <1>7, <1>8 DEF ExecutionPart, ExecutionAdvances
      <3>2. exec'.order = Mutated(exec')
        BY <1>7, <1>8 DEF Mutated
      <3> QED
        BY <1>1, <1>7, <1>8, <3>1, <3>2, IdleFacts DEF ExecutionAdvances, Mutated
    <2>3. TransactionsArePast'
      <3>1. NoTx <= lastTx
        BY DEF BatchInv, EditorPart, EditorInv, EditorTypeOK, NoTx
      <3>2. UNCHANGED <<lastTx, savedTx>>
        BY DEF FinishApply, editorVars, historyVars, diskVars
      <3> QED
        BY <1>1, <1>2, <1>7, <1>8, <3>1, <3>2, IdleFacts DEF ExecutionPart, TransactionsArePast, AtVerify
    <2> QED
      BY <2>1, <2>2, <2>3 DEF ExecutionPart
  <1> QED
    BY <1>1, <1>7, <1>8, <1>9, IdleFacts, ApplyFrame DEF BatchInv, RecordTypes

\* The invariant survives a refused operation.
LEMMA ApplyOpRefusedKeeps == ASSUME BatchInv, NEW i \in Ops, ApplyOpRefused(i) PROVE BatchInv'
  <1>1. /\ EditorMove /\ call.tool = "apply" /\ call.phase = "start" /\ call.ops # {} /\ i = FirstOp(call.ops)
        /\ StopApply(i, "failed", NoTx)
        /\ UNCHANGED <<service, sets, firstSet, recs, backups, live, place>>
    BY DEF ApplyOpRefused, EditorMove, InApply
  <1>2. UNCHANGED <<rev, savedTx, lastTx>>
    BY DEF ApplyOpRefused, editorVars, historyVars, diskVars
  <1>3. NoTx <= lastTx /\ NoTx \in {NoTx} \cup TxIds
    BY DEF BatchInv, EditorPart, EditorInv, EditorTypeOK, NoTx
  <1>4. place'[i] # "disk"
    BY <1>1, ApplyFacts
  <1>5. exec' \in Executions /\ call' = Idle /\ ExecutionPart'
    BY <1>1, <1>2, <1>3, <1>4, StopApplyKeeps
  <1> QED
    BY <1>1, <1>5, IdleFacts, ApplyFrame DEF BatchInv, RecordTypes

\* The invariant survives an operation that changes nothing.
LEMMA ApplyOpUnchangedKeeps == ASSUME BatchInv, NEW i \in Ops, ApplyOpUnchanged(i) PROVE BatchInv'
  <1>1. /\ call.tool = "apply" /\ call.phase = "start" /\ call.ops # {} /\ i = FirstOp(call.ops)
        /\ ApplyUnchanged(Batch[i].asset, PreviousTransaction(i))
        /\ UNCHANGED <<service, sets, firstSet, recs, backups, live, place>>
    BY DEF ApplyOpUnchanged, InApply
  <1>2. UNCHANGED <<rev, savedTx, lastTx>>
    BY <1>1 DEF ApplyUnchanged, historyVars, diskVars
  <1>3. NoTx <= lastTx /\ NoTx \in {NoTx} \cup TxIds
    BY DEF BatchInv, EditorPart, EditorInv, EditorTypeOK, NoTx
  <1>4. place[i] = "nowhere" /\ i \in call.ops /\ call.ops \subseteq Ops /\ call \in Calls
    BY <1>1, ApplyFacts
  <1>5. EditorMove
    <2>1. /\ Batch[i].asset \in Assets /\ Batch[i].target \in Targets /\ Batch[i].value \in Values
          /\ PreviousTransaction(i) \in 0..lastTx
      BY BatchFacts, PreviousIsPast
    <2>2. BridgeApply(Batch[i].asset, Batch[i].target, Batch[i].value, PreviousTransaction(i))
      BY <1>1 DEF BridgeApply
    <2> QED
      BY <2>1, <2>2 DEF EditorMove
  <1>6. CASE exec' = WithOp(exec, i, "no-op", NoTx) /\ call' = [call EXCEPT !.ops = @ \ {i}]
    <2>1. PICK v \in SUBSET Ops : v = call.ops \ {i}
      BY <1>4
    <2>2. /\ call' \in Calls /\ call'.tool = "apply" /\ call'.phase = "start" /\ call'.ops = call.ops \ {i}
          /\ call'.tx = call.tx
      BY <1>1, <1>4, <1>6, <2>1, CallField
    <2>3. exec' \in Executions /\ ExecutionPart'
      BY <1>1, <1>2, <1>3, <1>4, <1>5, <1>6, <2>2, AnsweredKeeps
    <2> QED
      BY <1>1, <1>5, <2>2, <2>3, ApplyFrame DEF BatchInv, RecordTypes
  <1>7. CASE StopApply(i, "failed", NoTx)
    <2>1. exec' \in Executions /\ call' = Idle /\ ExecutionPart'
      BY <1>1, <1>2, <1>3, <1>4, <1>5, <1>7, StopApplyKeeps
    <2> QED
      BY <1>1, <1>5, <2>1, IdleFacts, ApplyFrame DEF BatchInv, RecordTypes
  <1> QED
    BY <1>6, <1>7 DEF ApplyOpUnchanged

\* The invariant survives the fast verification of an operation.
LEMMA VerifyOpKeeps == ASSUME BatchInv, NEW i \in Ops, VerifyOp(i) PROVE BatchInv'
  <1>1. /\ EditorMove /\ call.tool = "apply" /\ call.phase = "verify" /\ call.ops # {} /\ i = FirstOp(call.ops)
        /\ UNCHANGED <<service, sets, firstSet, recs, backups, live, place>>
    BY DEF VerifyOp, EditorMove, InApply
  <1>2. UNCHANGED <<rev, savedTx, lastTx>>
    BY DEF VerifyOp, editorVars, historyVars, diskVars
  <1>3. i \in call.ops /\ call.ops \subseteq Ops /\ call \in Calls /\ ExecutionPart
    BY <1>1, ApplyFacts
  <1>4. /\ call.tx <= lastTx /\ call.tx \in {NoTx} \cup TxIds
        /\ place[i] = "disk" => call.tx <= savedTx[Batch[i].asset]
    BY <1>1, <1>3 DEF ExecutionPart, TransactionsArePast, AtVerify, Calls
  <1>5. CASE /\ exec' = WithOp(exec, i, "verified", call.tx)
             /\ call' = [call EXCEPT !.phase = "start", !.ops = @ \ {i}, !.tx = NoTx]
    <2>1. PICK v \in SUBSET Ops : v = call.ops \ {i}
      BY <1>3
    <2>2. PICK c1 : c1 = [call EXCEPT !.phase = "start"]
      OBVIOUS
    <2>3. PICK c2 : c2 = [c1 EXCEPT !.ops = v]
      OBVIOUS
    <2>4. PICK c3 : c3 = [c2 EXCEPT !.tx = NoTx]
      OBVIOUS
    <2>5. c1 \in Calls /\ c1.tool = "apply" /\ c1.phase = "start"
      BY <1>1, <1>3, <2>2, CallField
    <2>6. c2 \in Calls /\ c2.tool = "apply" /\ c2.phase = "start" /\ c2.ops = v
      BY <2>3, <2>5, CallField
    <2>7. c3 \in Calls /\ c3.tool = "apply" /\ c3.phase = "start" /\ c3.ops = v /\ c3.tx = NoTx
      BY <2>4, <2>6, CallField
    <2>8. call' = c3
      BY <1>5, <2>1, <2>2, <2>3, <2>4 DEF Calls
    <2>9. exec' \in Executions /\ ExecutionPart'
      BY <1>1, <1>2, <1>4, <1>5, <2>1, <2>7, <2>8, AnsweredKeeps
    <2> QED
      BY <1>1, <2>7, <2>8, <2>9, ApplyFrame DEF BatchInv, RecordTypes
  <1>6. CASE StopApply(i, "applied_unverified", call.tx)
    <2>1. exec' \in Executions /\ call' = Idle /\ ExecutionPart'
      BY <1>1, <1>2, <1>4, <1>6, StopApplyKeeps
    <2> QED
      BY <1>1, <2>1, IdleFacts, ApplyFrame DEF BatchInv, RecordTypes
  <1> QED
    BY <1>5, <1>6 DEF VerifyOp

\* The invariant survives an operation that takes effect, whether its answer arrives or is
\* lost.
LEMMA ApplyOpKeeps == ASSUME BatchInv, NEW i \in Ops, ApplyOp(i) PROVE BatchInv'
  <1>1. /\ call.tool = "apply" /\ call.phase = "start" /\ call.ops # {} /\ i = FirstOp(call.ops)
        /\ ApplyChanged(Batch[i].asset, Batch[i].target, Batch[i].value, PreviousTransaction(i))
        /\ place' = [place EXCEPT ![i] = "memory"]
        /\ UNCHANGED <<service, sets, firstSet, recs, backups>>
    BY DEF ApplyOp, InApply
  <1>2. lastTx < MaxTx /\ lastTx' = lastTx + 1 /\ UNCHANGED <<rev, savedTx>>
    BY <1>1 DEF ApplyChanged, RecordTransaction, diskVars
  <1>3. lastTx \in Nat /\ MaxTx \in Nat /\ NoTx <= lastTx /\ NoTx \in {NoTx} \cup TxIds
    BY BoundsAssumption DEF BatchInv, EditorPart, EditorInv, EditorTypeOK, NoTx
  <1>4. /\ i \in call.ops /\ call.ops \subseteq Ops /\ call \in Calls /\ exec \in Executions
        /\ ExecutionPart /\ exec.op[i] = "pending" /\ exec.state = "applying"
        /\ place \in [Ops -> {"nowhere", "memory", "disk"}]
    BY <1>1, ApplyFacts
  <1>5. /\ place' \in [Ops -> {"nowhere", "memory", "disk"}]
        /\ place'[i] = "memory" /\ \A j \in Ops : j # i => place'[j] = place[j]
    BY <1>1, <1>4
  <1>6. EditorMove
    <2>1. /\ Batch[i].asset \in Assets /\ Batch[i].target \in Targets /\ Batch[i].value \in Values
          /\ PreviousTransaction(i) \in 0..lastTx
      BY BatchFacts, PreviousIsPast
    <2>2. BridgeApply(Batch[i].asset, Batch[i].target, Batch[i].value, PreviousTransaction(i))
      BY <1>1 DEF BridgeApply
    <2> QED
      BY <2>1, <2>2 DEF EditorMove
  <1>7. CASE live' = live \cup {i} /\ call' = [call EXCEPT !.phase = "verify", !.tx = lastTx + 1] /\ UNCHANGED exec
    <2>1. PICK v : v = lastTx + 1
      OBVIOUS
    <2>2. v \in {NoTx} \cup TxIds
      BY <1>2, <1>3, <2>1 DEF TxIds
    <2>3. PICK c1 : c1 = [call EXCEPT !.phase = "verify"]
      OBVIOUS
    <2>4. PICK c2 : c2 = [c1 EXCEPT !.tx = v]
      OBVIOUS
    <2>5. c1 \in Calls /\ c1.tool = "apply" /\ c1.phase = "verify" /\ c1.ops = call.ops
      BY <1>1, <1>4, <2>3, CallField
    <2>6. c2 \in Calls /\ c2.tool = "apply" /\ c2.phase = "verify" /\ c2.ops = call.ops /\ c2.tx = v
      BY <2>2, <2>4, <2>5, CallField
    <2>7. call' = c2
      BY <1>7, <2>1, <2>3, <2>4
    <2>8. WritesAreKnown'
      <3> SUFFICES ASSUME NEW j \in Ops, place'[j] # "nowhere", j # i
                   PROVE  exec'.op[j] \in {"verified", "applied_unverified", "failed"}
        BY <1>1, <2>6, <2>7 DEF WritesAreKnown, AtVerify
      <3>1. ~AtVerify(j) /\ place[j] # "nowhere"
        BY <1>1, <1>5 DEF AtVerify
      <3> QED
        BY <1>1, <1>4, <1>7, <3>1 DEF ExecutionPart, WritesAreKnown
    <2>9. ExecutionAdvances'
      <3>1. exec' = exec /\ call.ops # {}
        BY <1>1, <1>7
      <3>2. /\ \A j \in Ops : exec.op[j] \in {"pending", "verified", "no-op"}
            /\ \A j \in call.ops : exec.op[j] = "pending"
            /\ exec.order = {}
        BY <1>1, <1>4 DEF ExecutionPart, ExecutionAdvances
      <3> QED
        BY <1>4, <2>6, <2>7, <3>1, <3>2 DEF ExecutionAdvances
    <2>10. TransactionsArePast'
      <3>1. \A j \in Ops : exec.tx[j] \in Nat /\ exec.tx[j] <= lastTx
        <4>1. \A j \in Ops : exec.tx[j] \in {NoTx} \cup TxIds
          BY <1>4 DEF Executions
        <4>2. {NoTx} \cup TxIds \subseteq Nat
          BY DEF NoTx, TxIds
        <4> QED
          BY <1>4, <4>1, <4>2 DEF ExecutionPart, TransactionsArePast
      <3>2. call'.tx <= lastTx'
        BY <1>2, <1>3, <2>1, <2>6, <2>7
      <3> SUFFICES ASSUME NEW j \in Ops
                   PROVE  /\ exec'.tx[j] <= lastTx'
                          /\ place'[j] = "disk" => exec'.tx[j] <= savedTx'[Batch[j].asset]
                          /\ place'[j] = "disk" => j # FirstOp(call'.ops)
        BY <3>2 DEF TransactionsArePast, AtVerify
      <3>3. exec' = exec /\ savedTx' = savedTx
        BY <1>2, <1>7
      <3>4. exec'.tx[j] <= lastTx'
        BY <1>2, <1>3, <3>1, <3>3
      <3>5. place'[j] = "disk" => place[j] = "disk" /\ j # i
        BY <1>5
      <3>6. FirstOp(call'.ops) = i
        BY <1>1, <2>6, <2>7
      <3> QED
        BY <1>4, <3>3, <3>4, <3>5, <3>6 DEF ExecutionPart, TransactionsArePast
    <2>11. ExecutionPart'
      BY <2>8, <2>9, <2>10 DEF ExecutionPart
    <2>12. live' \subseteq Ops /\ exec' \in Executions
      BY <1>4, <1>7 DEF BatchInv, RecordTypes
    <2> QED
      BY <1>1, <1>5, <1>6, <2>6, <2>7, <2>11, <2>12, ApplyFrame
  <1>8. CASE StopApply(i, "failed", NoTx) /\ UNCHANGED live
    <2>1. exec' \in Executions /\ call' = Idle /\ ExecutionPart'
      BY <1>1, <1>2, <1>3, <1>5, <1>6, <1>8, StopApplyKeeps
    <2>2. live' \subseteq Ops
      BY <1>8 DEF BatchInv, RecordTypes
    <2> QED
      BY <1>1, <1>5, <1>6, <2>1, <2>2, IdleFacts, ApplyFrame
  <1> QED
    BY <1>7, <1>8 DEF ApplyOp

\* The invariant survives the apply tool.
LEMMA ApplyStepsKeep == ASSUME BatchInv, ApplySteps PROVE BatchInv'
  BY ApplyBatchKeeps, FinishApplyKeeps, ApplyOpKeeps, ApplyOpUnchangedKeeps, ApplyOpRefusedKeeps, VerifyOpKeeps
  DEF ApplySteps

(***************************************************************************)
(* The save tool.                                                          *)
(***************************************************************************)

\* A save or a verification leaves the execution and its recoveries as they are.
LEMMA SetStepKeeps ==
  ASSUME BatchInv, EditorMove, UNCHANGED <<exec, recs>>,
         call.tool \notin {"apply", "recover"}, call'.tool \notin {"apply", "recover"},
         call' \in Calls, call'.tx \in {NoTx, call.tx},
         service' \in [planned : BOOLEAN, auths : SUBSET SetIds],
         sets' \in [SetIds -> CheckpointSets], firstSet' \in {NoSet} \cup SetIds,
         backups' \subseteq Backups, live' \subseteq Ops,
         place' \in [Ops -> {"nowhere", "memory", "disk"}],
         \A i \in Ops : \/ place'[i] = place[i]
                        \/ place[i] = "memory" /\ place'[i] = "disk" /\ savedTx'[Batch[i].asset] = lastTx,
         SetPart'
  PROVE  BatchInv'
  <1>1. EditorPart'
    BY MovesKeepEditorPart DEF BatchInv
  <1>2. RecordTypes'
    BY DEF BatchInv, RecordTypes
  <1>3. ExecutionPart'
    BY ExecutionFrame
  <1>4. RecoveryPart'
    BY RecoveryFrame
  <1> QED
    BY <1>1, <1>2, <1>3, <1>4 DEF BatchInv

\* What is known of one set.
LEMMA OneSet ==
  ASSUME BatchInv, NEW s \in SetIds
  PROVE  /\ sets[s] \in CheckpointSets /\ SetFits(sets[s]) /\ SetIsTrue(sets[s])
         /\ sets[s].child \in [Assets -> {"none", "prepared", "saved", "saved_unrecoverable", "failed"}]
         /\ sets[s].cp \in [Assets -> {"none", "prepared", "saved", "verified", "stale"}]
         /\ sets[s].after \in [Assets -> 0..NoRev]
         /\ sets[s].persisted \subseteq Assets /\ sets[s].included \subseteq Ops /\ sets[s].checked \subseteq Assets
  <1>1. sets[s] \in CheckpointSets
    BY DEF BatchInv, RecordTypes
  <1>2. SetFits(sets[s]) /\ SetIsTrue(sets[s])
    BY DEF BatchInv, SetPart, SetsAreTrue
  <1> QED
    BY <1>1, <1>2 DEF CheckpointSets

\* Before a set is saved, nothing of it counts as persisted, verified or checked.
LEMMA UnsavedSet ==
  ASSUME NEW z \in CheckpointSets, SetFits(z), z.state \notin {"saved", "partially_saved"}
  PROVE  /\ z.persisted = {} /\ z.checked = {} /\ z.verification # "verified"
         /\ \A a \in Assets : z.cp[a] # "verified"
  <1>1. \A a \in Assets : z.cp[a] # "verified"
    BY DEF SetFits
  <1>2. z.checked \subseteq Assets
    BY DEF CheckpointSets
  <1>3. z.verification # "verified"
    BY <1>1, BatchFacts DEF SetFits
  <1> QED
    BY <1>1, <1>2, <1>3 DEF SetFits

\* What is true of a set is true of one with the same checkpoints.
LEMMA TruthCarries ==
  ASSUME BatchInv, EditorMove, exec' = exec,
         \A i \in Ops : place'[i] = "memory" => place[i] = "memory",
         NEW s \in SetIds, NEW z \in CheckpointSets,
         z.cp = sets[s].cp, z.after = sets[s].after, z.included = sets[s].included,
         sets[s].state # "none"
  PROVE  SetIsTrue(z)'
  <1>1. PICK y \in CheckpointSets : y = sets[s]
    BY OneSet
  <1>2. SetFits(y) /\ SetIsTrue(y)
    BY <1>1, OneSet
  <1>3. SetIsTrue(y)'
    BY <1>1, <1>2, TruthStays DEF SetFits
  <1>4. exec'.state = "applied"
    BY <1>1, <1>2 DEF SetIsTrue
  <1> QED
    BY <1>1, <1>3, <1>4 DEF SetIsTrue

\* The invariant survives the preview of a set.
LEMMA PreviewSetKeeps == ASSUME BatchInv, NEW s \in SetIds, PreviewSet(s) PROVE BatchInv'
  <1>1. /\ EditorMove /\ call = Idle /\ exec.state = "applied" /\ sets[s].state = "none"
        /\ firstSet' \in IF firstSet = NoSet THEN {s} ELSE {firstSet, s}
        /\ UNCHANGED <<call, exec, recs, backups, live, place>>
    BY DEF PreviewSet, EditorMove, Unused
  <1>2. PICK y \in CheckpointSets : y = sets[s]
    BY OneSet
  <1>3. /\ SetFits(y) /\ y.state = "none" /\ \A a \in Assets : y.cp[a] = "none" /\ y.child[a] # "saved"
        /\ \A a \in Assets : y.after[a] # 0 /\ (y.after[a] <= lastRev \/ y.after[a] = NoRev)
    BY <1>1, <1>2, OneSet DEF SetFits, SetIsTrue, WrittenStates
  <1>4. y.persisted = {} /\ y.checked = {} /\ y.verification # "verified"
    BY <1>3, UnsavedSet
  <1>5. lastRev' = lastRev
    BY DEF PreviewSet, editorVars, diskVars
  <1>6. ASSUME NEW z \in CheckpointSets, sets' = [sets EXCEPT ![s] = z], z.state # "none",
               z.after = y.after, z.persisted = y.persisted, z.checked = y.checked, z.verification = y.verification,
               \A a \in Assets : z.cp[a] \in {"none", "prepared"} /\ z.child[a] # "saved",
               service' \in [planned : BOOLEAN, auths : SUBSET SetIds]
        PROVE  BatchInv'
    <2>1. SetFits(z)
      BY <1>3, <1>4, <1>6 DEF SetFits, WrittenStates
    <2>2. SetIsTrue(z)'
      BY <1>1, <1>3, <1>5, <1>6 DEF SetIsTrue, WrittenStates
    <2>3. sets' \in [SetIds -> CheckpointSets] /\ SetsAreTrue'
      BY <1>1, <1>6, <2>1, <2>2, OneSetChanges
    <2>4. SetPart'
      BY <1>1, <2>3, IdleFacts DEF BatchInv, SetPart, SetCallFits
    <2>5. firstSet' \in {NoSet} \cup SetIds
      BY <1>1 DEF BatchInv, RecordTypes
    <2>6. backups' \subseteq Backups /\ live' \subseteq Ops /\ place' \in [Ops -> {"nowhere", "memory", "disk"}]
      BY <1>1 DEF BatchInv, RecordTypes
    <2> QED
      BY <1>1, <1>6, <2>3, <2>4, <2>5, <2>6, IdleFacts, SetStepKeeps
  <1>7. CASE \A a \in BatchAssets : Savable(a)
    <2>1. PICK ch : ch = [a \in Assets |-> IF a \in BatchAssets THEN "prepared" ELSE "none"]
      OBVIOUS
    <2>2. /\ ch \in [Assets -> {"none", "prepared", "saved", "saved_unrecoverable", "failed"}]
          /\ ch \in [Assets -> {"none", "prepared", "saved", "verified", "stale"}]
          /\ \A a \in Assets : ch[a] \in {"none", "prepared"} /\ ch[a] # "saved"
      BY <2>1
    <2>3. PICK inc : inc = UNION {Included(a) : a \in BatchAssets}
      OBVIOUS
    <2>4. inc \in SUBSET Ops
      <3>1. \A a : Included(a) \subseteq Ops
        BY BatchFacts DEF Included
      <3> QED
        BY <2>3, <3>1
    <2>5. PICK z1 : z1 = [y EXCEPT !.state = "checkpoint_prepared"]
      OBVIOUS
    <2>6. PICK z2 : z2 = [z1 EXCEPT !.child = ch]
      OBVIOUS
    <2>7. PICK z3 : z3 = [z2 EXCEPT !.cp = ch]
      OBVIOUS
    <2>8. PICK z4 : z4 = [z3 EXCEPT !.included = inc]
      OBVIOUS
    <2>9. /\ z1 \in CheckpointSets /\ z1.state = "checkpoint_prepared" /\ z1.after = y.after
          /\ z1.persisted = y.persisted /\ z1.checked = y.checked /\ z1.verification = y.verification
      BY <2>5, SetField
    <2>10. /\ z2 \in CheckpointSets /\ z2.state = "checkpoint_prepared" /\ z2.after = y.after /\ z2.child = ch
           /\ z2.persisted = y.persisted /\ z2.checked = y.checked /\ z2.verification = y.verification
      BY <2>2, <2>6, <2>9, SetField
    <2>11. /\ z3 \in CheckpointSets /\ z3.state = "checkpoint_prepared" /\ z3.after = y.after /\ z3.child = ch /\ z3.cp = ch
           /\ z3.persisted = y.persisted /\ z3.checked = y.checked /\ z3.verification = y.verification
      BY <2>2, <2>7, <2>10, SetField
    <2>12. /\ z4 \in CheckpointSets /\ z4.state = "checkpoint_prepared" /\ z4.after = y.after /\ z4.child = ch /\ z4.cp = ch
           /\ z4.persisted = y.persisted /\ z4.checked = y.checked /\ z4.verification = y.verification
      BY <2>4, <2>8, <2>11, SetField
    <2>13. sets' = [sets EXCEPT ![s] = z4]
      BY <1>2, <1>7, <2>1, <2>3, <2>5, <2>6, <2>7, <2>8 DEF PreviewSet
    <2>14. service' \in [planned : BOOLEAN, auths : SUBSET SetIds]
      <3>1. service \in [planned : BOOLEAN, auths : SUBSET SetIds]
        BY DEF BatchInv, RecordTypes
      <3>2. PICK v \in SUBSET SetIds : v = service.auths \cup {s}
        BY <3>1
      <3>3. service' = [service EXCEPT !.auths = v]
        BY <1>7, <3>2 DEF PreviewSet
      <3> QED
        BY <3>1, <3>3
    <2> QED
      BY <1>6, <2>2, <2>12, <2>13, <2>14
  <1>8. CASE ~\A a \in BatchAssets : Savable(a)
    <2>1. PICK z : z = [y EXCEPT !.state = "failed"]
      OBVIOUS
    <2>2. /\ z \in CheckpointSets /\ z.state = "failed" /\ z.after = y.after /\ z.child = y.child /\ z.cp = y.cp
          /\ z.persisted = y.persisted /\ z.checked = y.checked /\ z.verification = y.verification
      BY <2>1, SetField
    <2>3. sets' = [sets EXCEPT ![s] = z]
      BY <1>2, <1>8, <2>1 DEF PreviewSet
    <2>4. service' \in [planned : BOOLEAN, auths : SUBSET SetIds]
      BY <1>8 DEF PreviewSet, BatchInv, RecordTypes
    <2> QED
      BY <1>3, <1>6, <2>2, <2>3, <2>4
  <1> QED
    BY <1>7, <1>8

\* The invariant survives the start of a save.
LEMMA CommitSetKeeps == ASSUME BatchInv, NEW s \in SetIds, CommitSet(s) PROVE BatchInv'
  <1>1. /\ EditorMove /\ call = Idle /\ sets[s].state = "checkpoint_prepared"
        /\ UNCHANGED <<service, exec, firstSet, recs, backups, live, place>>
    BY DEF CommitSet, EditorMove
  <1>2. PICK y \in CheckpointSets : y = sets[s]
    BY OneSet
  <1>3. SetFits(y) /\ y.state = "checkpoint_prepared"
    BY <1>1, <1>2, OneSet
  <1>4. y.persisted = {} /\ y.checked = {} /\ y.verification # "verified" /\ \A a \in Assets : y.cp[a] # "verified"
    BY <1>3, UnsavedSet
  <1>5. /\ service' \in [planned : BOOLEAN, auths : SUBSET SetIds] /\ firstSet' \in {NoSet} \cup SetIds
        /\ backups' \subseteq Backups /\ live' \subseteq Ops /\ place' \in [Ops -> {"nowhere", "memory", "disk"}]
        /\ \A b \in backups' : b.rev = 0
    BY <1>1 DEF BatchInv, RecordTypes, SetPart
  <1>6. ASSUME NEW v \in {"saving", "failed"}, NEW z, z = [y EXCEPT !.state = v], sets' = [sets EXCEPT ![s] = z]
        PROVE  /\ z \in CheckpointSets /\ z.state = v /\ z.cp = y.cp /\ z.child = y.child
               /\ sets' \in [SetIds -> CheckpointSets] /\ sets'[s] = z /\ SetsAreTrue'
    <2>1. v \in {"none", "checkpoint_prepared", "saving", "saved", "partially_saved", "failed"}
      OBVIOUS
    <2>2. /\ z \in CheckpointSets /\ z.state = v /\ z.after = y.after /\ z.child = y.child /\ z.cp = y.cp
          /\ z.persisted = y.persisted /\ z.checked = y.checked /\ z.verification = y.verification
          /\ z.included = y.included
      BY <1>6, <2>1, SetField
    <2>3. SetFits(z)
      BY <1>3, <1>4, <2>2 DEF SetFits
    <2>4. SetIsTrue(z)'
      BY <1>1, <1>2, <2>2, TruthCarries
    <2> QED
      BY <1>1, <1>6, <2>2, <2>3, <2>4, OneSetChanges
  <1>7. CASE \A a \in BatchAssets : Preflight(s, a)
    <2>1. PICK z : z = [y EXCEPT !.state = "saving"]
      OBVIOUS
    <2>2. sets' = [sets EXCEPT ![s] = z]
      BY <1>2, <1>7, <2>1 DEF CommitSet
    <2>3. /\ z.state = "saving" /\ z.cp = y.cp /\ z.child = y.child
          /\ sets' \in [SetIds -> CheckpointSets] /\ sets'[s] = z /\ SetsAreTrue'
      BY <1>6, <2>1, <2>2
    <2>4. PICK c1 : c1 = [Idle EXCEPT !.tool = "save"]
      OBVIOUS
    <2>5. c1 \in Calls /\ c1.tool = "save" /\ c1.phase = "start" /\ c1.tx = NoTx
      BY <2>4, IdleFacts DEF Calls, Idle
    <2>6. PICK c2 : c2 = [c1 EXCEPT !.id = s]
      OBVIOUS
    <2>7. c2 \in Calls /\ c2.tool = "save" /\ c2.phase = "start" /\ c2.tx = NoTx /\ c2.id = s
      <3>1. s \in 0..(MaxSets + MaxRecoveries)
        BY BatchAssumption DEF SetIds
      <3> QED
        BY <2>5, <2>6, <3>1 DEF Calls
    <2>8. PICK c3 : c3 = [c2 EXCEPT !.assets = BatchAssets]
      OBVIOUS
    <2>9. c3 \in Calls /\ c3.tool = "save" /\ c3.phase = "start" /\ c3.tx = NoTx /\ c3.id = s /\ c3.assets = BatchAssets
      <3>1. BatchAssets \in SUBSET Assets
        BY BatchFacts
      <3> QED
        BY <2>7, <2>8, <3>1, CallField
    <2>10. call' = c3
      BY <1>7, <2>4, <2>6, <2>8 DEF CommitSet
    <2>11. \A a \in BatchAssets : y.child[a] # "saved"
      <3>1. \A a \in BatchAssets : y.cp[a] = "prepared"
        BY <1>2, <1>7 DEF Preflight
      <3> QED
        BY <1>3, <3>1, BatchFacts DEF SetFits, WrittenStates
    <2>12. SetCallFits'
      BY <2>3, <2>9, <2>10, <2>11 DEF SetCallFits
    <2>13. SetPart'
      BY <1>5, <2>3, <2>12 DEF SetPart
    <2> QED
      BY <1>1, <1>5, <2>3, <2>9, <2>10, <2>13, IdleFacts, SetStepKeeps
  <1>8. CASE ~\A a \in BatchAssets : Preflight(s, a)
    <2>1. PICK z : z = [y EXCEPT !.state = "failed"]
      OBVIOUS
    <2>2. sets' = [sets EXCEPT ![s] = z] /\ call' = call
      BY <1>2, <1>8, <2>1 DEF CommitSet
    <2>3. sets' \in [SetIds -> CheckpointSets] /\ SetsAreTrue'
      BY <1>6, <2>1, <2>2
    <2>4. SetPart'
      BY <1>1, <1>5, <2>2, <2>3, IdleFacts DEF SetPart, SetCallFits
    <2> QED
      BY <1>1, <1>5, <2>2, <2>3, <2>4, IdleFacts, SetStepKeeps
  <1> QED
    BY <1>7, <1>8

\* The set and the asset a save works on.
LEMMA SaveFacts ==
  ASSUME BatchInv, NEW s \in SetIds, NEW a, call.tool = "save", call.id = s,
         call.assets # {}, a = FirstAsset(call.assets)
  PROVE  /\ a \in call.assets /\ a \in BatchAssets /\ a \in Assets /\ call.assets \subseteq BatchAssets
         /\ sets[s].state = "saving" /\ call \in Calls
         /\ \A c \in call.assets : sets[s].child[c] # "saved"
         /\ \A c \in BatchAssets \ call.assets : sets[s].child[c] = "saved"
         /\ call.phase = "promote" => sets[s].cp[a] = "saved"
  <1>1. SetCallFits /\ call \in Calls
    BY DEF BatchInv, SetPart, RecordTypes
  <1>2. call.assets \in SUBSET BatchAssets
    BY <1>1 DEF SetCallFits
  <1>3. a \in call.assets /\ a \in Assets
    BY <1>2, EndsOfAssets, BatchFacts
  <1> QED
    BY <1>1, <1>2, <1>3 DEF SetCallFits

\* A save that stops records what it finished, and nothing else as persisted.
LEMMA StopSaveKeeps ==
  ASSUME BatchInv, EditorMove, UNCHANGED <<service, exec, firstSet, recs>>,
         NEW s \in SetIds, NEW a, call.tool = "save", call.id = s,
         call.assets # {}, a = FirstAsset(call.assets),
         NEW childState \in {"failed", "saved_unrecoverable"}, StopSave(s, a, childState),
         backups' \subseteq Backups, \A b \in backups' : b.rev = 0, live' \subseteq Ops,
         place' \in [Ops -> {"nowhere", "memory", "disk"}],
         \A i \in Ops : \/ place'[i] = place[i]
                        \/ place[i] = "memory" /\ place'[i] = "disk" /\ savedTx'[Batch[i].asset] = lastTx
  PROVE  BatchInv'
  <1>1. a \in Assets /\ sets[s].state = "saving" /\ sets[s].child[a] # "saved" /\ call' = Idle
    BY SaveFacts DEF StopSave
  <1>2. PICK y \in CheckpointSets : y = sets[s]
    BY OneSet
  <1>3. SetFits(y) /\ y.state = "saving"
    BY <1>1, <1>2, OneSet
  <1>4. y.checked = {} /\ y.verification # "verified" /\ \A c \in Assets : y.cp[c] # "verified"
    BY <1>3, UnsavedSet
  <1>5. PICK ch : ch = [y.child EXCEPT ![a] = childState]
    OBVIOUS
  <1>6. /\ ch \in [Assets -> {"none", "prepared", "saved", "saved_unrecoverable", "failed"}]
        /\ ch[a] # "saved" /\ \A c \in Assets : c # a => ch[c] = y.child[c]
    BY <1>1, <1>2, <1>5, OneSet
  <1>7. PICK done : done = SavedChildren(s)
    OBVIOUS
  <1>8. done \in SUBSET Assets /\ \A c \in done : c \in BatchAssets /\ ch[c] = "saved"
    <2>1. done \in SUBSET BatchAssets /\ \A c \in done : y.child[c] = "saved"
      BY <1>2, <1>7 DEF SavedChildren
    <2>2. a \notin done
      BY <1>1, <1>2, <2>1
    <2> QED
      BY <1>6, <2>1, <2>2, BatchFacts
  <1>9. PICK st : st = IF done # {} THEN "partially_saved" ELSE "failed"
    OBVIOUS
  <1>10. /\ st \in {"none", "checkpoint_prepared", "saving", "saved", "partially_saved", "failed"}
         /\ st # "none" /\ (done # {} => st = "partially_saved")
    BY <1>9
  <1>11. PICK z1 : z1 = [y EXCEPT !.child = ch]
    OBVIOUS
  <1>12. PICK z2 : z2 = [z1 EXCEPT !.persisted = done]
    OBVIOUS
  <1>13. PICK z3 : z3 = [z2 EXCEPT !.state = st]
    OBVIOUS
  <1>14. /\ z1 \in CheckpointSets /\ z1.child = ch /\ z1.cp = y.cp /\ z1.after = y.after
         /\ z1.included = y.included /\ z1.verification = y.verification /\ z1.checked = y.checked
    BY <1>6, <1>11, SetField
  <1>15. /\ z2 \in CheckpointSets /\ z2.child = ch /\ z2.cp = y.cp /\ z2.after = y.after /\ z2.persisted = done
         /\ z2.included = y.included /\ z2.verification = y.verification /\ z2.checked = y.checked
    <2>1. done \in SUBSET Assets /\ z1 \in CheckpointSets
      BY <1>8, <1>14
    <2>2. /\ z2 \in CheckpointSets /\ z2.child = z1.child /\ z2.cp = z1.cp /\ z2.after = z1.after /\ z2.persisted = done
          /\ z2.included = z1.included /\ z2.verification = z1.verification /\ z2.checked = z1.checked
      BY <1>12, <2>1 DEF CheckpointSets
    <2> QED
      BY <1>14, <2>2
  <1>16. /\ z3 \in CheckpointSets /\ z3.state = st /\ z3.child = ch /\ z3.cp = y.cp /\ z3.after = y.after /\ z3.persisted = done
         /\ z3.included = y.included /\ z3.verification = y.verification /\ z3.checked = y.checked
    BY <1>10, <1>13, <1>15, SetField
  <1>17. sets' = [sets EXCEPT ![s] = z3]
    BY <1>2, <1>5, <1>7, <1>9, <1>11, <1>12, <1>13 DEF StopSave
  <1>18. SetFits(z3)
    <2>1. \A c \in Assets : z3.child[c] = "saved" => z3.cp[c] \in WrittenStates
      BY <1>3, <1>6, <1>16 DEF SetFits
    <2> QED
      BY <1>4, <1>8, <1>10, <1>16, <2>1 DEF SetFits
  <1>19. SetIsTrue(z3)'
    BY <1>1, <1>2, <1>16, TruthCarries
  <1>20. sets' \in [SetIds -> CheckpointSets] /\ SetsAreTrue'
    BY <1>16, <1>17, <1>18, <1>19, OneSetChanges
  <1>21. SetPart'
    BY <1>1, <1>20, IdleFacts DEF SetPart, SetCallFits
  <1>22. /\ service' \in [planned : BOOLEAN, auths : SUBSET SetIds] /\ firstSet' \in {NoSet} \cup SetIds
    BY DEF BatchInv, RecordTypes
  <1> QED
    BY <1>1, <1>20, <1>21, <1>22, IdleFacts, SetStepKeeps

\* The invariant survives the backup of a child.
LEMMA SaveChildBackupKeeps == ASSUME BatchInv, NEW s \in SetIds, NEW a, SaveChildBackup(s, a) PROVE BatchInv'
  <1>1. /\ EditorMove /\ call.tool = "save" /\ call.phase = "start" /\ call.id = s
        /\ call.assets # {} /\ a = FirstAsset(call.assets)
        /\ UNCHANGED <<editorVars, service, exec, firstSet, recs, live, place>>
    BY DEF SaveChildBackup, InSave, EditorMove
  <1>2. /\ service' \in [planned : BOOLEAN, auths : SUBSET SetIds] /\ firstSet' \in {NoSet} \cup SetIds
        /\ live' \subseteq Ops /\ place' \in [Ops -> {"nowhere", "memory", "disk"}]
        /\ backups \subseteq Backups /\ \A b \in backups : b.rev = 0
        /\ sets \in [SetIds -> CheckpointSets] /\ call \in Calls /\ SetCallFits
    BY <1>1 DEF BatchInv, RecordTypes, SetPart
  <1>3. CASE SaveAllowed(a) /\ Preflight(s, a) /\ ~HasBackup(s, a)
    <2>1. /\ backups' = backups \cup {[set |-> s, asset |-> a, content |-> disk[a], rev |-> rev[a], after |-> NoRev]}
          /\ call' = [call EXCEPT !.phase = "write"] /\ sets' = sets
      BY <1>3 DEF SaveChildBackup
    <2>2. rev[a] = 0
      BY <1>3 DEF Preflight, Fresh
    <2>3. PICK b0 : b0 = [set |-> s, asset |-> a, content |-> disk[a], rev |-> rev[a], after |-> NoRev]
      OBVIOUS
    <2>4. b0 \in Backups /\ b0.rev = 0
      <3>1. a \in Assets /\ disk[a] \in Contents
        BY <1>1, SaveFacts DEF BatchInv, EditorPart, EditorInv, EditorTypeOK
      <3>2. 0 \in 0..MaxRev /\ NoRev \in 0..NoRev
        BY BoundsAssumption DEF NoRev
      <3> QED
        BY <2>2, <2>3, <3>1, <3>2 DEF Backups
    <2>5. backups' \subseteq Backups /\ \A b \in backups' : b.rev = 0
      BY <1>2, <2>1, <2>3, <2>4
    <2>6. /\ call' \in Calls /\ call'.tool = "save" /\ call'.phase = "write" /\ call'.id = call.id
          /\ call'.assets = call.assets /\ call'.tx = call.tx
      BY <1>1, <1>2, <2>1, CallField
    <2>7. SetsAreTrue'
      BY <1>1, <2>1, SetsStayTrue
    <2>8. SetCallFits'
      BY <1>1, <1>2, <2>1, <2>6 DEF SetCallFits
    <2>9. SetPart'
      BY <2>5, <2>7, <2>8 DEF SetPart
    <2>10. sets' \in [SetIds -> CheckpointSets]
      BY <1>2, <2>1
    <2> QED
      BY <1>1, <1>2, <2>5, <2>6, <2>9, <2>10, SetStepKeeps
  <1>4. CASE StopSave(s, a, "failed") /\ UNCHANGED backups
    <2>1. backups' \subseteq Backups /\ \A b \in backups' : b.rev = 0
      BY <1>2, <1>4
    <2> QED
      BY <1>1, <1>2, <1>4, <2>1, StopSaveKeeps
  <1> QED
    BY <1>3, <1>4 DEF SaveChildBackup

\* The invariant survives a refused save of a child.
LEMMA SaveChildRefusedKeeps == ASSUME BatchInv, NEW s \in SetIds, NEW a, SaveChildRefused(s, a) PROVE BatchInv'
  <1>1. /\ EditorMove /\ call.tool = "save" /\ call.id = s
        /\ call.assets # {} /\ a = FirstAsset(call.assets) /\ StopSave(s, a, "failed")
        /\ UNCHANGED <<service, exec, firstSet, recs, backups, live, place>>
    BY DEF SaveChildRefused, InSave, EditorMove
  <1>2. /\ live' \subseteq Ops /\ place' \in [Ops -> {"nowhere", "memory", "disk"}]
        /\ backups' \subseteq Backups /\ \A b \in backups' : b.rev = 0
    BY <1>1 DEF BatchInv, RecordTypes, SetPart
  <1> QED
    BY <1>1, <1>2, StopSaveKeeps

\* The invariant survives the rollback manifest of a child.
LEMMA SaveChildPromoteKeeps == ASSUME BatchInv, NEW s \in SetIds, NEW a, SaveChildPromote(s, a) PROVE BatchInv'
  <1>1. /\ EditorMove /\ call.tool = "save" /\ call.phase = "promote" /\ call.id = s
        /\ call.assets # {} /\ a = FirstAsset(call.assets)
        /\ UNCHANGED <<editorVars, service, exec, firstSet, recs, live, place>>
    BY DEF SaveChildPromote, InSave, EditorMove
  <1>2. /\ service' \in [planned : BOOLEAN, auths : SUBSET SetIds] /\ firstSet' \in {NoSet} \cup SetIds
        /\ live' \subseteq Ops /\ place' \in [Ops -> {"nowhere", "memory", "disk"}]
        /\ backups \subseteq Backups /\ \A b \in backups : b.rev = 0
        /\ sets \in [SetIds -> CheckpointSets] /\ call \in Calls
    BY <1>1 DEF BatchInv, RecordTypes, SetPart
  <1>3. /\ a \in call.assets /\ a \in Assets /\ call.assets \subseteq BatchAssets
        /\ sets[s].state = "saving" /\ sets[s].cp[a] = "saved"
        /\ \A c \in call.assets : sets[s].child[c] # "saved"
        /\ \A c \in BatchAssets \ call.assets : sets[s].child[c] = "saved"
    BY <1>1, SaveFacts
  <1>4. CASE /\ backups' = {IF b.set = s /\ b.asset = a THEN [b EXCEPT !.after = rev[a]] ELSE b : b \in backups}
             /\ sets' = [sets EXCEPT ![s].child[a] = "saved"]
             /\ call' = [call EXCEPT !.phase = "start", !.assets = @ \ {a}]
    <2>1. PICK y \in CheckpointSets : y = sets[s]
      BY OneSet
    <2>2. SetFits(y) /\ y.state = "saving"
      BY <1>3, <2>1, OneSet
    <2>3. PICK ch : ch = [y.child EXCEPT ![a] = "saved"]
      OBVIOUS
    <2>4. /\ ch \in [Assets -> {"none", "prepared", "saved", "saved_unrecoverable", "failed"}]
          /\ ch[a] = "saved" /\ \A c \in Assets : c # a => ch[c] = y.child[c]
      BY <1>3, <2>1, <2>3, OneSet
    <2>5. PICK z : z = [y EXCEPT !.child = ch]
      OBVIOUS
    <2>6. /\ z \in CheckpointSets /\ z.state = y.state /\ z.child = ch /\ z.cp = y.cp /\ z.after = y.after
          /\ z.persisted = y.persisted
          /\ z.included = y.included /\ z.verification = y.verification /\ z.checked = y.checked
      BY <2>4, <2>5, SetField
    <2>7. sets' = [sets EXCEPT ![s] = z]
      BY <1>4, <2>1, <2>3, <2>5
    <2>8. SetFits(z)
      <3>1. y.persisted = {} /\ y.checked = {} /\ y.verification # "verified" /\ \A c \in Assets : y.cp[c] # "verified"
        BY <2>2, UnsavedSet
      <3>2. \A c \in Assets : z.child[c] = "saved" => z.cp[c] \in WrittenStates
        BY <1>3, <2>1, <2>2, <2>4, <2>6 DEF SetFits, WrittenStates
      <3> QED
        BY <2>2, <2>6, <3>1, <3>2 DEF SetFits
    <2>9. SetIsTrue(z)'
      BY <1>1, <1>3, <2>1, <2>6, TruthCarries
    <2>10. sets' \in [SetIds -> CheckpointSets] /\ sets'[s] = z /\ SetsAreTrue'
      BY <1>1, <2>6, <2>7, <2>8, <2>9, OneSetChanges
    <2>11. PICK v \in SUBSET Assets : v = call.assets \ {a}
      BY <1>3, BatchFacts
    <2>12. PICK c1 : c1 = [call EXCEPT !.phase = "start"]
      OBVIOUS
    <2>13. PICK c2 : c2 = [c1 EXCEPT !.assets = v]
      OBVIOUS
    <2>14. c1 \in Calls /\ c1.tool = "save" /\ c1.phase = "start" /\ c1.id = s /\ c1.tx = call.tx
      BY <1>1, <1>2, <2>12, CallField
    <2>15. c2 \in Calls /\ c2.tool = "save" /\ c2.phase = "start" /\ c2.id = s /\ c2.tx = call.tx /\ c2.assets = v
      BY <2>13, <2>14, CallField
    <2>16. call' = c2
      BY <1>4, <2>11, <2>12, <2>13
    <2>17. SetCallFits'
      <3>1. \A c \in v : ch[c] # "saved"
        BY <1>3, <2>1, <2>4, <2>11, BatchFacts
      <3>2. \A c \in BatchAssets \ v : ch[c] = "saved"
        BY <1>3, <2>1, <2>4, <2>11, BatchFacts
      <3> QED
        BY <1>3, <2>2, <2>6, <2>10, <2>11, <2>15, <2>16, <3>1, <3>2 DEF SetCallFits
    <2>18. backups' \subseteq Backups /\ \A b \in backups' : b.rev = 0
      <3> SUFFICES ASSUME NEW d \in backups'
                   PROVE  d \in Backups /\ d.rev = 0
        OBVIOUS
      <3>1. PICK b \in backups : d = IF b.set = s /\ b.asset = a THEN [b EXCEPT !.after = rev[a]] ELSE b
        BY <1>4
      <3>2. rev[a] \in 0..NoRev
        BY <1>3, BoundsAssumption DEF BatchInv, EditorPart, EditorInv, EditorTypeOK, NoRev
      <3>3. PICK v0 \in 0..NoRev : v0 = rev[a]
        BY <3>2
      <3>4. b \in Backups /\ b.rev = 0
        BY <1>2
      <3>5. [b EXCEPT !.after = v0] \in Backups /\ [b EXCEPT !.after = v0].rev = 0
        BY <3>4 DEF Backups
      <3> QED
        BY <3>1, <3>3, <3>4, <3>5
    <2>19. SetPart'
      BY <2>10, <2>17, <2>18 DEF SetPart
    <2> QED
      BY <1>1, <1>2, <2>10, <2>15, <2>16, <2>18, <2>19, SetStepKeeps
  <1>5. CASE StopSave(s, a, "saved_unrecoverable") /\ UNCHANGED backups
    <2>1. backups' \subseteq Backups /\ \A b \in backups' : b.rev = 0
      BY <1>2, <1>5
    <2> QED
      BY <1>1, <1>2, <1>5, <2>1, StopSaveKeeps
  <1> QED
    BY <1>4, <1>5 DEF SaveChildPromote

\* The invariant survives the save of a child, whether its answer arrives or is lost.
LEMMA SaveChildWriteKeeps == ASSUME BatchInv, NEW s \in SetIds, NEW a, SaveChildWrite(s, a) PROVE BatchInv'
  <1>1. /\ call.tool = "save" /\ call.phase = "write" /\ call.id = s
        /\ call.assets # {} /\ a = FirstAsset(call.assets)
        /\ SaveAsset(a) /\ place' = Moved(OpsOf(a), "memory", "disk")
        /\ UNCHANGED <<service, exec, firstSet, recs, backups>>
    BY DEF SaveChildWrite, InSave
  <1>2. /\ service' \in [planned : BOOLEAN, auths : SUBSET SetIds] /\ firstSet' \in {NoSet} \cup SetIds
        /\ backups' \subseteq Backups /\ \A b \in backups' : b.rev = 0
        /\ sets \in [SetIds -> CheckpointSets] /\ call \in Calls /\ live \subseteq Ops
        /\ rev \in [Assets -> 0..MaxRev] /\ savedTx \in [Assets -> 0..MaxTx] /\ lastRev \in Nat /\ MaxRev \in Nat
    BY <1>1, BoundsAssumption DEF BatchInv, RecordTypes, SetPart, EditorPart, EditorInv, EditorTypeOK
  <1>3. /\ a \in call.assets /\ a \in Assets /\ call.assets \subseteq BatchAssets
        /\ sets[s].state = "saving"
        /\ \A c \in call.assets : sets[s].child[c] # "saved"
        /\ \A c \in BatchAssets \ call.assets : sets[s].child[c] = "saved"
    BY <1>1, SaveFacts
  <1>4. EditorMove
    BY <1>1, <1>3 DEF EditorMove
  <1>5. /\ rev'[a] = lastRev + 1 /\ lastRev' = lastRev + 1 /\ lastRev < MaxRev /\ savedTx'[a] = lastTx
    BY <1>1, <1>2, <1>3 DEF SaveAsset, WriteToDisk
  <1>6. /\ place' \in [Ops -> {"nowhere", "memory", "disk"}]
        /\ \A i \in Ops : \/ place'[i] = place[i]
                          \/ place[i] = "memory" /\ place'[i] = "disk" /\ savedTx'[Batch[i].asset] = lastTx
        /\ ~\E i \in OpsOf(a) : place'[i] = "memory"
    <2>1. OpsOf(a) \in SUBSET Ops /\ RecordTypes /\ "disk" \in {"nowhere", "memory", "disk"}
      BY BatchFacts DEF BatchInv
    <2>2. place' = Moved(OpsOf(a), "memory", "disk")
      BY <1>1
    <2>3. /\ place' \in [Ops -> {"nowhere", "memory", "disk"}]
          /\ \A i \in Ops : place'[i] = IF i \in OpsOf(a) /\ place[i] = "memory" THEN "disk" ELSE place[i]
      BY <2>1, <2>2, MovedFacts
    <2>4. \A i \in OpsOf(a) : i \in Ops /\ Batch[i].asset = a
      BY DEF OpsOf
    <2> QED
      BY <1>5, <2>3, <2>4
  <1>7. CASE /\ sets' = [sets EXCEPT ![s].cp[a] = "saved", ![s].after[a] = rev'[a]]
             /\ live' = live \ OpsOf(a)
             /\ call' = [call EXCEPT !.phase = "promote"]
    <2>1. PICK y \in CheckpointSets : y = sets[s]
      BY OneSet
    <2>2. SetFits(y) /\ SetIsTrue(y) /\ y.state = "saving"
      BY <1>3, <2>1, OneSet
    <2>3. y.persisted = {} /\ y.checked = {} /\ y.verification # "verified" /\ \A c \in Assets : y.cp[c] # "verified"
      BY <2>2, UnsavedSet
    <2>4. PICK cps : cps = [y.cp EXCEPT ![a] = "saved"]
      OBVIOUS
    <2>5. PICK n : n = rev'[a]
      OBVIOUS
    <2>6. PICK af : af = [y.after EXCEPT ![a] = n]
      OBVIOUS
    <2>7. /\ cps \in [Assets -> {"none", "prepared", "saved", "verified", "stale"}]
          /\ cps[a] = "saved" /\ \A c \in Assets : c # a => cps[c] = y.cp[c]
      BY <1>3, <2>1, <2>4, OneSet
    <2>8. /\ af \in [Assets -> 0..NoRev]
          /\ af[a] = n /\ \A c \in Assets : c # a => af[c] = y.after[c]
      <3>1. n \in 0..NoRev
        BY <1>2, <1>5, <2>5 DEF NoRev
      <3> QED
        BY <1>3, <2>1, <2>6, <3>1, OneSet
    <2>9. PICK z1 : z1 = [y EXCEPT !.cp = cps]
      OBVIOUS
    <2>10. PICK z : z = [z1 EXCEPT !.after = af]
      OBVIOUS
    <2>11. /\ z1 \in CheckpointSets /\ z1.state = y.state /\ z1.child = y.child /\ z1.cp = cps
           /\ z1.persisted = y.persisted
           /\ z1.included = y.included /\ z1.verification = y.verification /\ z1.checked = y.checked
      BY <2>7, <2>9, SetField
    <2>12. /\ z \in CheckpointSets /\ z.state = y.state /\ z.child = y.child /\ z.cp = cps /\ z.after = af
           /\ z.persisted = y.persisted
           /\ z.included = y.included /\ z.verification = y.verification /\ z.checked = y.checked
      BY <2>8, <2>10, <2>11, SetField
    <2>13. sets' = [sets EXCEPT ![s] = z]
      BY <1>2, <1>7, <2>1, <2>4, <2>5, <2>6, <2>9, <2>10
    <2>14. \A c \in Assets : z.cp[c] # "verified"
      BY <2>3, <2>7, <2>12
    <2>15. SetFits(z)
      <3>1. \A c \in Assets : z.child[c] = "saved" => z.cp[c] \in WrittenStates
        BY <2>2, <2>7, <2>12 DEF SetFits, WrittenStates
      <3> QED
        BY <2>2, <2>3, <2>12, <2>14, <3>1 DEF SetFits
    <2>16. SetIsTrue(z)'
      <3>1. SetIsTrue(y)'
        BY <1>1, <1>4, <1>6, <2>2, TruthStays DEF SetFits
      <3>2. exec'.state = "applied"
        BY <1>1, <2>2 DEF SetIsTrue
      <3> SUFFICES ASSUME NEW c \in Assets
                   PROVE  /\ z.cp[c] \in WrittenStates => ~\E i \in OpsOf(c) : place'[i] = "memory"
                          /\ z.after[c] # 0 /\ (z.after[c] <= lastRev' \/ z.after[c] = NoRev)
        BY <2>14, <3>2 DEF SetIsTrue, InMemory
      <3>3. CASE c = a
        <4>1. z.after[c] = lastRev + 1
          BY <1>5, <2>5, <2>8, <2>12, <3>3
        <4> QED
          BY <1>2, <1>5, <1>6, <3>3, <4>1
      <3>4. CASE c # a
        <4>1. z.cp[c] = y.cp[c] /\ z.after[c] = y.after[c]
          BY <2>7, <2>8, <2>12, <3>4
        <4> QED
          BY <3>1, <4>1 DEF SetIsTrue, InMemory
      <3> QED
        BY <3>3, <3>4
    <2>17. sets' \in [SetIds -> CheckpointSets] /\ sets'[s] = z /\ SetsAreTrue'
      BY <1>1, <1>4, <1>6, <2>12, <2>13, <2>15, <2>16, OneSetChanges
    <2>18. /\ call' \in Calls /\ call'.tool = "save" /\ call'.phase = "promote" /\ call'.id = s
           /\ call'.assets = call.assets /\ call'.tx = call.tx
      BY <1>1, <1>2, <1>7, CallField
    <2>19. SetCallFits'
      BY <1>1, <1>3, <2>1, <2>2, <2>7, <2>12, <2>17, <2>18 DEF SetCallFits
    <2>20. SetPart'
      BY <1>2, <2>17, <2>19 DEF SetPart
    <2>21. live' \subseteq Ops
      BY <1>2, <1>7
    <2> QED
      BY <1>1, <1>2, <1>4, <1>6, <2>17, <2>18, <2>20, <2>21, SetStepKeeps
  <1>8. CASE StopSave(s, a, "failed") /\ UNCHANGED live
    <2>1. live' \subseteq Ops
      BY <1>2, <1>8
    <2> QED
      BY <1>1, <1>2, <1>4, <1>6, <1>8, <2>1, StopSaveKeeps
  <1> QED
    BY <1>7, <1>8 DEF SaveChildWrite

\* One field of the record of a set changes that is none of its checkpoints.
LEMMA SetRecordChanges ==
  ASSUME BatchInv, UNCHANGED <<editorVars, service, exec, firstSet, recs, backups, live, place>>,
         NEW s \in SetIds, NEW z \in CheckpointSets, sets' = [sets EXCEPT ![s] = z],
         z.cp = sets[s].cp, z.after = sets[s].after, z.included = sets[s].included, sets[s].state # "none",
         SetFits(z), SetCallFits', call' \in Calls, call'.tx \in {NoTx, call.tx},
         call.tool \notin {"apply", "recover"}, call'.tool \notin {"apply", "recover"}
  PROVE  BatchInv'
  <1>1. EditorMove
    BY DEF EditorMove
  <1>2. SetIsTrue(z)'
    BY <1>1, TruthCarries
  <1>3. sets' \in [SetIds -> CheckpointSets] /\ SetsAreTrue'
    BY <1>1, <1>2, OneSetChanges
  <1>4. SetPart'
    BY <1>3 DEF BatchInv, SetPart
  <1>5. /\ service' \in [planned : BOOLEAN, auths : SUBSET SetIds] /\ firstSet' \in {NoSet} \cup SetIds
        /\ backups' \subseteq Backups /\ live' \subseteq Ops
        /\ place' \in [Ops -> {"nowhere", "memory", "disk"}]
    BY DEF BatchInv, RecordTypes
  <1> QED
    BY <1>1, <1>3, <1>4, <1>5, SetStepKeeps

\* The invariant survives the end of a save.
LEMMA FinishSaveKeeps == ASSUME BatchInv, NEW s \in SetIds, FinishSave(s) PROVE BatchInv'
  <1>1. /\ call.tool = "save" /\ call.id = s /\ call.assets = {} /\ call' = Idle
        /\ UNCHANGED <<editorVars, service, exec, firstSet, recs, backups, live, place>>
    BY DEF FinishSave
  <1>2. /\ sets[s].state = "saving" /\ \A c \in BatchAssets : sets[s].child[c] = "saved"
    BY <1>1 DEF BatchInv, SetPart, SetCallFits
  <1>3. PICK y \in CheckpointSets : y = sets[s]
    BY OneSet
  <1>4. SetFits(y)
    BY <1>3, OneSet
  <1>5. PICK A \in SUBSET Assets : A = BatchAssets
    BY BatchFacts
  <1>6. PICK z1 : z1 = [y EXCEPT !.state = "saved"]
    OBVIOUS
  <1>7. PICK z : z = [z1 EXCEPT !.persisted = A]
    OBVIOUS
  <1>8. /\ z1 \in CheckpointSets /\ z1.state = "saved" /\ z1.child = y.child /\ z1.cp = y.cp /\ z1.after = y.after
        /\ z1.included = y.included /\ z1.verification = y.verification /\ z1.checked = y.checked
    BY <1>6, SetField
  <1>9. /\ z \in CheckpointSets /\ z.state = "saved" /\ z.child = y.child /\ z.cp = y.cp /\ z.after = y.after
        /\ z.persisted = A
        /\ z.included = y.included /\ z.verification = y.verification /\ z.checked = y.checked
    BY <1>7, <1>8, SetField
  <1>10. sets' = [sets EXCEPT ![s] = z]
    BY <1>3, <1>5, <1>6, <1>7 DEF FinishSave, BatchInv, RecordTypes
  <1>11. SetFits(z)
    BY <1>2, <1>3, <1>4, <1>5, <1>9 DEF SetFits
  <1>12. SetCallFits'
    BY <1>1, IdleFacts DEF SetCallFits
  <1> QED
    BY <1>1, <1>2, <1>3, <1>9, <1>10, <1>11, <1>12, IdleFacts, SetRecordChanges

\* The invariant survives the save tool.
LEMMA SaveStepsKeep == ASSUME BatchInv, SaveSteps PROVE BatchInv'
  BY PreviewSetKeeps, CommitSetKeeps, FinishSaveKeeps, SaveChildBackupKeeps, SaveChildWriteKeeps,
     SaveChildRefusedKeeps, SaveChildPromoteKeeps
  DEF SaveSteps

(***************************************************************************)
(* The verification tool.                                                  *)
(***************************************************************************)

\* The invariant survives the start of a verification.
LEMMA VerifySetKeeps == ASSUME BatchInv, NEW s \in SetIds, VerifySet(s) PROVE BatchInv'
  <1>1. /\ call = Idle /\ sets[s].state = "saved"
        /\ UNCHANGED <<editorVars, service, exec, firstSet, recs, backups, live, place>>
    BY DEF VerifySet
  <1>2. PICK y \in CheckpointSets : y = sets[s]
    BY OneSet
  <1>3. SetFits(y) /\ y.checked \in SUBSET Assets /\ BatchAssets \in SUBSET Assets
    BY <1>2, OneSet, BatchFacts
  <1>4. PICK z : z = [y EXCEPT !.verification = "verifying"]
    OBVIOUS
  <1>5. /\ z \in CheckpointSets /\ z.state = y.state /\ z.child = y.child /\ z.cp = y.cp /\ z.after = y.after
        /\ z.persisted = y.persisted /\ z.included = y.included /\ z.verification = "verifying"
        /\ z.checked = y.checked
    BY <1>4, SetField
  <1>6. sets' = [sets EXCEPT ![s] = z] /\ sets'[s] = z
    BY <1>2, <1>4 DEF VerifySet, BatchInv, RecordTypes
  <1>7. SetFits(z)
    BY <1>3, <1>5 DEF SetFits
  <1>8. PICK A \in SUBSET Assets : A = BatchAssets \ y.checked
    BY <1>3
  <1>9. PICK D \in SUBSET Assets : D = y.checked
    BY <1>3
  <1>10. PICK c1 : c1 = [Idle EXCEPT !.tool = "verify"]
    OBVIOUS
  <1>11. c1 \in Calls /\ c1.tool = "verify" /\ c1.tx = NoTx
    BY <1>10, IdleFacts DEF Calls, Idle
  <1>12. PICK c2 : c2 = [c1 EXCEPT !.id = s]
    OBVIOUS
  <1>13. c2 \in Calls /\ c2.tool = "verify" /\ c2.tx = NoTx /\ c2.id = s
    <2>1. s \in 0..(MaxSets + MaxRecoveries)
      BY BatchAssumption DEF SetIds
    <2> QED
      BY <1>11, <1>12, <2>1 DEF Calls
  <1>14. PICK c3 : c3 = [c2 EXCEPT !.assets = A]
    OBVIOUS
  <1>15. c3 \in Calls /\ c3.tool = "verify" /\ c3.tx = NoTx /\ c3.id = s
    BY <1>13, <1>14, CallField
  <1>16. PICK c4 : c4 = [c3 EXCEPT !.done = D]
    OBVIOUS
  <1>17. c4 \in Calls /\ c4.tool = "verify" /\ c4.tx = NoTx /\ c4.id = s /\ c4.done = D
    BY <1>15, <1>16, CallField
  <1>18. call' = c4
    BY <1>2, <1>8, <1>9, <1>10, <1>12, <1>14, <1>16 DEF VerifySet
  <1>19. SetCallFits'
    BY <1>1, <1>2, <1>3, <1>5, <1>6, <1>9, <1>17, <1>18 DEF SetCallFits, SetFits
  <1> QED
    BY <1>1, <1>2, <1>5, <1>6, <1>7, <1>17, <1>18, <1>19, IdleFacts, SetRecordChanges

\* The invariant survives the end of a verification.
LEMMA FinishVerifyKeeps == ASSUME BatchInv, NEW s \in SetIds, FinishVerify(s) PROVE BatchInv'
  <1>1. /\ call.tool = "verify" /\ call.id = s /\ call' = Idle
        /\ UNCHANGED <<editorVars, service, exec, firstSet, recs, backups, live, place>>
    BY DEF FinishVerify
  <1>2. sets[s].state = "saved" /\ \A a \in call.done : sets[s].cp[a] = "verified"
    BY <1>1 DEF BatchInv, SetPart, SetCallFits
  <1>3. PICK y \in CheckpointSets : y = sets[s]
    BY OneSet
  <1>4. SetFits(y)
    BY <1>3, OneSet
  <1>5. PICK v : /\ sets' = [sets EXCEPT ![s].verification = v]
                 /\ v \in {"verified", "partially_verified", "failed"}
                 /\ v = "verified" => call.done = BatchAssets
    <2>1. PICK complete \in BOOLEAN :
            sets' = [sets EXCEPT ![s].verification =
                      IF complete /\ call.done = BatchAssets THEN "verified"
                      ELSE IF call.done # {} THEN "partially_verified" ELSE "failed"]
      BY DEF FinishVerify
    <2>2. PICK v : v = IF complete /\ call.done = BatchAssets THEN "verified"
                       ELSE IF call.done # {} THEN "partially_verified" ELSE "failed"
      OBVIOUS
    <2>3. sets' = [sets EXCEPT ![s].verification = v]
      BY <2>1, <2>2
    <2>4. v \in {"verified", "partially_verified", "failed"} /\ (v = "verified" => call.done = BatchAssets)
      BY <2>2
    <2> QED
      BY <2>3, <2>4
  <1>6. v \in {"none", "verifying", "verified", "partially_verified", "failed"}
    BY <1>5
  <1>7. PICK z : z = [y EXCEPT !.verification = v]
    OBVIOUS
  <1>8. /\ z \in CheckpointSets /\ z.state = y.state /\ z.child = y.child /\ z.cp = y.cp /\ z.after = y.after
        /\ z.persisted = y.persisted /\ z.included = y.included /\ z.verification = v
        /\ z.checked = y.checked
    BY <1>6, <1>7, SetField
  <1>9. sets' = [sets EXCEPT ![s] = z]
    BY <1>3, <1>5, <1>7 DEF BatchInv, RecordTypes
  <1>10. SetFits(z)
    BY <1>2, <1>3, <1>4, <1>5, <1>8 DEF SetFits
  <1>11. SetCallFits'
    BY <1>1, IdleFacts DEF SetCallFits
  <1> QED
    BY <1>1, <1>2, <1>3, <1>8, <1>9, <1>10, <1>11, IdleFacts, SetRecordChanges

\* What the verification of a child makes of its checkpoint: written stays written,
\* verified stays verified, and newly verified means that the file holds the writes.
LEMMA CheckpointVerdict ==
  ASSUME BatchInv, NEW s \in SetIds, NEW a \in Assets, NEW ok \in {ChildHolds(s, a), FALSE},
         NEW k, k = VerifiedCheckpoint(s, a, ok)
  PROVE  /\ k \in {"none", "prepared", "saved", "verified", "stale"}
         /\ ok => k = "verified"
         /\ sets[s].cp[a] \in WrittenStates <=> k \in WrittenStates
         /\ sets[s].cp[a] = "verified" => k = "verified"
         /\ k = "verified" /\ rev[a] = sets[s].after[a] => Holds(disk, sets[s].included \cap OpsOf(a))
  <1>1. PICK c \in {"none", "prepared", "saved", "verified", "stale"} : c = sets[s].cp[a]
    BY OneSet
  <1>2. c = "verified" /\ rev[a] = sets[s].after[a] => Holds(disk, sets[s].included \cap OpsOf(a))
    BY <1>1, OneSet DEF SetIsTrue
  <1>3. CASE ok
    <2>1. ChildHolds(s, a) /\ k = "verified"
      BY <1>3 DEF VerifiedCheckpoint
    <2>2. \/ c = "verified"
          \/ c = "saved" /\ Holds(disk, sets[s].included \cap OpsOf(a))
      BY <1>1, <2>1 DEF ChildHolds
    <2> QED
      BY <1>1, <1>2, <2>1, <2>2 DEF WrittenStates
  <1>4. CASE ~ok
    <2>1. k = c \/ (c = "saved" /\ k = "stale")
      BY <1>1, <1>4 DEF VerifiedCheckpoint
    <2> QED
      BY <1>1, <1>2, <1>4, <2>1 DEF WrittenStates
  <1> QED
    BY <1>3, <1>4

\* The invariant survives the verification of a child.
LEMMA VerifyChildKeeps == ASSUME BatchInv, NEW s \in SetIds, NEW a \in BatchAssets, VerifyChild(s, a) PROVE BatchInv'
  <1>1. /\ EditorMove /\ call.tool = "verify" /\ call.id = s
        /\ UNCHANGED <<editorVars, service, exec, firstSet, recs, backups, live, place>>
    BY DEF VerifyChild, EditorMove
  <1>2. /\ service' \in [planned : BOOLEAN, auths : SUBSET SetIds] /\ firstSet' \in {NoSet} \cup SetIds
        /\ live' \subseteq Ops /\ place' \in [Ops -> {"nowhere", "memory", "disk"}]
        /\ backups' \subseteq Backups /\ \A b \in backups' : b.rev = 0
        /\ sets \in [SetIds -> CheckpointSets] /\ call \in Calls
    BY <1>1 DEF BatchInv, RecordTypes, SetPart
  <1>3. /\ sets[s].state = "saved" /\ \A c \in call.done : sets[s].cp[c] = "verified"
        /\ a \in Assets
    BY <1>1, BatchFacts DEF BatchInv, SetPart, SetCallFits
  <1>4. PICK y \in CheckpointSets : y = sets[s]
    BY OneSet
  <1>5. SetFits(y) /\ SetIsTrue(y) /\ y.checked \in SUBSET Assets /\ call.done \in SUBSET Assets /\ call.assets \in SUBSET Assets
    BY <1>2, <1>4, OneSet DEF Calls
  <1>6. PICK ok \in {ChildHolds(s, a), FALSE} :
          LET done == call.done \cup (IF ok THEN {a} ELSE {}) IN
          /\ sets' = [sets EXCEPT ![s].cp[a] = VerifiedCheckpoint(s, a, ok),
                                  ![s].checked = IF call.assets = {a} THEN done ELSE @]
          /\ call' = [call EXCEPT !.assets = @ \ {a}, !.done = done]
    BY DEF VerifyChild
  <1>7. PICK D : D = call.done \cup (IF ok THEN {a} ELSE {})
    OBVIOUS
  <1>8. PICK C : C = IF call.assets = {a} THEN D ELSE y.checked
    OBVIOUS
  <1>9. PICK k : k = VerifiedCheckpoint(s, a, ok)
    OBVIOUS
  <1>10. /\ k \in {"none", "prepared", "saved", "verified", "stale"}
         /\ ok => k = "verified"
         /\ y.cp[a] \in WrittenStates <=> k \in WrittenStates
         /\ y.cp[a] = "verified" => k = "verified"
         /\ k = "verified" /\ rev[a] = y.after[a] => Holds(disk, y.included \cap OpsOf(a))
    BY <1>3, <1>4, <1>9, CheckpointVerdict
  <1>11. PICK cps : cps = [y.cp EXCEPT ![a] = k]
    OBVIOUS
  <1>12. /\ cps \in [Assets -> {"none", "prepared", "saved", "verified", "stale"}]
         /\ cps[a] = k /\ \A c \in Assets : c # a => cps[c] = y.cp[c]
    BY <1>3, <1>4, <1>10, <1>11, OneSet
  <1>13. \A c \in Assets : /\ y.cp[c] \in WrittenStates <=> cps[c] \in WrittenStates
                           /\ y.cp[c] = "verified" => cps[c] = "verified"
                           /\ cps[c] = "verified" /\ rev[c] = y.after[c] => Holds(disk, y.included \cap OpsOf(c))
    <2> SUFFICES ASSUME NEW c \in Assets
                 PROVE  /\ y.cp[c] \in WrittenStates <=> cps[c] \in WrittenStates
                        /\ y.cp[c] = "verified" => cps[c] = "verified"
                        /\ cps[c] = "verified" /\ rev[c] = y.after[c] => Holds(disk, y.included \cap OpsOf(c))
      OBVIOUS
    <2>1. CASE c = a
      BY <1>10, <1>12, <2>1
    <2>2. CASE c # a
      BY <1>5, <1>12, <2>2 DEF SetIsTrue
    <2> QED
      BY <2>1, <2>2
  <1>14. /\ D \in SUBSET Assets /\ \A c \in D : cps[c] = "verified"
    <2>1. D \in SUBSET Assets
      BY <1>3, <1>5, <1>7
    <2>2. \A c \in call.done : c \in Assets /\ cps[c] = "verified"
      BY <1>3, <1>4, <1>5, <1>13
    <2> QED
      BY <1>7, <1>10, <1>12, <2>1, <2>2
  <1>15. C \in SUBSET Assets /\ \A c \in C : cps[c] = "verified"
    <2>1. \A c \in y.checked : c \in Assets /\ cps[c] = "verified"
      BY <1>5, <1>13 DEF SetFits
    <2> QED
      BY <1>5, <1>8, <1>14, <2>1
  <1>16. PICK z1 : z1 = [y EXCEPT !.cp = cps]
    OBVIOUS
  <1>17. PICK z : z = [z1 EXCEPT !.checked = C]
    OBVIOUS
  <1>18. /\ z1 \in CheckpointSets /\ z1.state = y.state /\ z1.child = y.child /\ z1.cp = cps /\ z1.after = y.after
         /\ z1.persisted = y.persisted /\ z1.included = y.included /\ z1.verification = y.verification
    BY <1>12, <1>16, SetField
  <1>19. C \in SUBSET Assets /\ z1 \in CheckpointSets
    BY <1>15, <1>18
  <1>20. /\ z \in CheckpointSets /\ z.state = z1.state /\ z.child = z1.child /\ z.cp = z1.cp /\ z.after = z1.after
         /\ z.persisted = z1.persisted /\ z.included = z1.included /\ z.verification = z1.verification
         /\ z.checked = C
    BY <1>17, <1>19 DEF CheckpointSets
  <1>21. sets' = [sets EXCEPT ![s] = z]
    BY <1>2, <1>4, <1>6, <1>7, <1>8, <1>9, <1>11, <1>16, <1>17
  <1>22. SetFits(z)
    <2>1. z.state = "saved" /\ z.cp = cps /\ z.child = y.child /\ z.persisted = y.persisted /\ z.verification = y.verification
      BY <1>3, <1>4, <1>18, <1>20
    <2>2. \A c \in Assets : z.child[c] = "saved" => z.cp[c] \in WrittenStates
      BY <1>5, <1>13, <2>1 DEF SetFits
    <2>3. z.verification = "verified" => \A c \in BatchAssets : z.cp[c] = "verified"
      BY <1>5, <1>13, <2>1, BatchFacts DEF SetFits
    <2>4. \A c \in z.checked : z.cp[c] = "verified"
      BY <1>15, <1>20, <2>1
    <2>5. \A c \in z.persisted : c \in BatchAssets /\ z.child[c] = "saved"
      BY <1>5, <2>1 DEF SetFits
    <2> QED
      BY <2>1, <2>2, <2>3, <2>4, <2>5 DEF SetFits
  <1>23. SetIsTrue(z)'
    <2>1. SetIsTrue(y)'
      BY <1>1, <1>5, TruthStays DEF SetFits
    <2>2. /\ exec'.state = "applied"
          /\ disk' = disk /\ rev' = rev
      BY <1>1, <1>3, <1>4, <1>5 DEF SetIsTrue, editorVars, diskVars
    <2>3. z.cp = cps /\ z.after = y.after /\ z.included = y.included
      BY <1>18, <1>20
    <2> SUFFICES ASSUME NEW c \in Assets
                 PROVE  /\ z.cp[c] \in WrittenStates => ~\E i \in OpsOf(c) : place'[i] = "memory"
                        /\ z.after[c] # 0 /\ (z.after[c] <= lastRev' \/ z.after[c] = NoRev)
                        /\ z.cp[c] = "verified" /\ rev'[c] = z.after[c] => Holds(disk', z.included \cap OpsOf(c))
      BY <2>2 DEF SetIsTrue, InMemory
    <2>4. y.cp[c] \in WrittenStates => ~\E i \in OpsOf(c) : place'[i] = "memory"
      BY <2>1 DEF SetIsTrue, InMemory
    <2>5. y.after[c] # 0 /\ (y.after[c] <= lastRev' \/ y.after[c] = NoRev)
      BY <2>1 DEF SetIsTrue
    <2>6. z.cp[c] = "verified" /\ rev'[c] = z.after[c] => Holds(disk', z.included \cap OpsOf(c))
      <3>1. cps[c] = "verified" /\ rev[c] = y.after[c] => Holds(disk, y.included \cap OpsOf(c))
        BY <1>13
      <3>2. Holds(disk, y.included \cap OpsOf(c)) => Holds(disk', y.included \cap OpsOf(c))
        BY <2>2 DEF Holds, Effective
      <3> QED
        BY <2>2, <2>3, <3>1, <3>2
    <2>7. z.cp[c] \in WrittenStates => ~\E i \in OpsOf(c) : place'[i] = "memory"
      BY <1>13, <2>3, <2>4
    <2> QED
      BY <2>3, <2>5, <2>6, <2>7
  <1>24. sets' \in [SetIds -> CheckpointSets] /\ sets'[s] = z /\ SetsAreTrue'
    BY <1>1, <1>20, <1>21, <1>22, <1>23, OneSetChanges
  <1>25. PICK A \in SUBSET Assets : A = call.assets \ {a}
    BY <1>5
  <1>26. PICK c1 : c1 = [call EXCEPT !.assets = A]
    OBVIOUS
  <1>27. c1 \in Calls /\ c1.tool = "verify" /\ c1.id = s /\ c1.tx = call.tx
    BY <1>1, <1>2, <1>26 DEF Calls
  <1>28. PICK c2 : c2 = [c1 EXCEPT !.done = D]
    OBVIOUS
  <1>29. c2 \in Calls /\ c2.tool = "verify" /\ c2.id = s /\ c2.tx = call.tx /\ c2.done = D
    <2>1. D \in SUBSET Assets /\ c1 \in Calls
      BY <1>14, <1>27
    <2>2. c2 \in Calls /\ c2.tool = c1.tool /\ c2.id = c1.id /\ c2.tx = c1.tx /\ c2.done = D
      BY <1>28, <2>1 DEF Calls
    <2> QED
      BY <1>27, <2>2
  <1>30. call' = c2
    BY <1>6, <1>7, <1>25, <1>26, <1>28
  <1>31. SetCallFits'
    BY <1>3, <1>4, <1>14, <1>18, <1>20, <1>24, <1>29, <1>30 DEF SetCallFits
  <1>32. SetPart'
    BY <1>2, <1>24, <1>31 DEF SetPart
  <1> QED
    BY <1>1, <1>2, <1>24, <1>29, <1>30, <1>32, SetStepKeeps

\* The invariant survives the verification tool.
LEMMA VerifyStepsKeep == ASSUME BatchInv, VerifySteps PROVE BatchInv'
  BY VerifySetKeeps, FinishVerifyKeeps, VerifyChildKeeps DEF VerifySteps

(***************************************************************************)
(* The recovery tool.                                                      *)
(***************************************************************************)

\* A recovery leaves the execution and the sets as they are.
LEMMA RecoveryStepKeeps ==
  ASSUME BatchInv, EditorMove, UNCHANGED <<service, exec, sets, firstSet, backups>>,
         call.tool \notin {"apply", "save", "verify"}, call'.tool \notin {"apply", "save", "verify"},
         call' \in Calls, call'.tx \in {NoTx, call.tx}, live' \subseteq Ops,
         place' \in [Ops -> {"nowhere", "memory", "disk"}],
         \A i \in Ops : place'[i] \in {place[i], "nowhere"},
         recs' \in [RecoveryIds -> Recoveries], RecoveryPart'
  PROVE  BatchInv'
  <1>1. EditorPart'
    BY MovesKeepEditorPart DEF BatchInv
  <1>2. RecordTypes'
    BY DEF BatchInv, RecordTypes
  <1>3. ExecutionPart'
    BY ExecutionFrame
  <1>4. SetPart'
    <2>1. \A b \in backups' : b.rev = 0
      BY DEF BatchInv, SetPart
    <2>2. \A i \in Ops : place'[i] = "memory" => place[i] = "memory"
      OBVIOUS
    <2>3. sets' = sets /\ exec'.state = exec.state /\ call'.tool \notin {"save", "verify"}
      OBVIOUS
    <2> QED
      BY <2>1, <2>2, <2>3, SetFrame
  <1> QED
    BY <1>1, <1>2, <1>3, <1>4 DEF BatchInv

\* What is known of one recovery.
LEMMA OneRecovery ==
  ASSUME BatchInv, NEW r \in RecoveryIds
  PROVE  /\ recs[r] \in Recoveries /\ recs[r].set \in {NoSet} \cup SetIds
         /\ recs[r].undone \subseteq Ops /\ recs[r].restored \subseteq Assets
         /\ recs[r].state # "none" => exec.state # "none" /\ call.tool # "apply"
         /\ recs[r].state = "none" => recs[r].undone = {} /\ recs[r].restored = {}
         /\ \A i \in recs[r].undone : place[i] = "nowhere"
         /\ \A a \in recs[r].restored : \A i \in OpsOf(a) : place[i] = "nowhere"
  <1>1. recs[r] \in Recoveries
    BY DEF BatchInv, RecordTypes
  <1>2. /\ recs[r].set \in {NoSet} \cup SetIds
        /\ recs[r].undone \subseteq Ops /\ recs[r].restored \subseteq Assets
    BY <1>1 DEF Recoveries
  <1> QED
    BY <1>1, <1>2 DEF BatchInv, RecoveryPart

\* What is known of the running recovery.
LEMMA RunningRecovery ==
  ASSUME BatchInv, call.tool = "recover"
  PROVE  /\ call \in Calls /\ call.id \in RecoveryIds /\ recs[call.id].state # "none" /\ exec.state # "none"
         /\ call.ops \in SUBSET Ops /\ call.assets \in SUBSET BatchAssets /\ exec.order \in SUBSET Ops
         /\ \A i \in exec.order : i \in call.ops \/ Batch[i].asset \in call.assets \/ place[i] = "nowhere"
         /\ call.assets # {} => exec.state = "applied"
         /\ \A a \in call.assets : a \in BatchAssets /\ ~InMemory(a)
         /\ place \in [Ops -> {"nowhere", "memory", "disk"}] /\ live \subseteq Ops
         /\ recs \in [RecoveryIds -> Recoveries]
  <1>1. /\ call \in Calls /\ exec \in Executions /\ place \in [Ops -> {"nowhere", "memory", "disk"}] /\ live \subseteq Ops
        /\ recs \in [RecoveryIds -> Recoveries] /\ RecoveryPart
    BY DEF BatchInv, RecordTypes
  <1>2. call.ops \in SUBSET Ops /\ exec.order \in SUBSET Ops
    BY <1>1 DEF Calls, Executions
  <1> QED
    BY <1>1, <1>2 DEF RecoveryPart

\* A recovery that stops keeps what it has taken back.
LEMMA StopRecoveryKeeps ==
  ASSUME BatchInv, EditorMove, UNCHANGED <<service, exec, sets, firstSet, backups>>,
         NEW r \in RecoveryIds, call.tool = "recover", call.id = r,
         NEW otherwise \in {"blocked", "failed"}, StopRecovery(r, otherwise),
         live' \subseteq Ops, place' \in [Ops -> {"nowhere", "memory", "disk"}],
         \A i \in Ops : place'[i] \in {place[i], "nowhere"}
  PROVE  BatchInv'
  <1>1. recs[r].state # "none" /\ exec.state # "none" /\ recs \in [RecoveryIds -> Recoveries]
    BY RunningRecovery
  <1>2. PICK y \in Recoveries : y = recs[r]
    BY OneRecovery
  <1>3. /\ y.undone \subseteq Ops /\ \A i \in y.undone : place[i] = "nowhere"
        /\ \A a \in y.restored : \A i \in OpsOf(a) : place[i] = "nowhere"
    BY <1>2, OneRecovery
  <1>4. PICK v : v = IF recs[r].undone # {} \/ recs[r].restored # {} THEN "partially_recovered" ELSE otherwise
    OBVIOUS
  <1>5. v \in {"none", "recovery_prepared", "blocked", "recovering", "partially_recovered", "failed", "recovered"} /\ v # "none"
    BY <1>4
  <1>6. PICK z : z = [y EXCEPT !.state = v]
    OBVIOUS
  <1>7. z \in Recoveries /\ z.state = v /\ z.undone = y.undone /\ z.restored = y.restored
    BY <1>5, <1>6, RecoveryField
  <1>8. recs' = [recs EXCEPT ![r] = z] /\ call' = Idle
    BY <1>1, <1>2, <1>4, <1>6 DEF StopRecovery
  <1>9. \A i \in z.undone : place'[i] = "nowhere"
    BY <1>3, <1>7
  <1>10. \A a \in z.restored : \A i \in OpsOf(a) : place'[i] = "nowhere"
    BY <1>3, <1>7, BatchFacts
  <1>11. recs' \in [RecoveryIds -> Recoveries] /\ RecoveryPart'
    BY <1>1, <1>5, <1>7, <1>8, <1>9, <1>10, IdleFacts, OneRecoveryChanges
  <1> QED
    BY <1>8, <1>11, IdleFacts, RecoveryStepKeeps

\* The invariant survives the preview of a recovery.
LEMMA PreviewRecoveryKeeps == ASSUME BatchInv, NEW r \in RecoveryIds, PreviewRecovery(r) PROVE BatchInv'
  <1>1. /\ EditorMove /\ call = Idle /\ exec.state # "none"
        /\ UNCHANGED <<call, service, exec, sets, firstSet, backups, live, place>>
    BY DEF PreviewRecovery, EditorMove
  <1>2. PICK y \in Recoveries : y = recs[r]
    BY OneRecovery
  <1>3. /\ y.undone \subseteq Ops /\ \A i \in y.undone : place[i] = "nowhere"
        /\ \A a \in y.restored : \A i \in OpsOf(a) : place[i] = "nowhere"
    BY <1>2, OneRecovery
  <1>4. PICK v : v = IF Blocked(firstSet, ResidentOps(firstSet), SavedIn(firstSet)) THEN "blocked" ELSE "recovery_prepared"
    OBVIOUS
  <1>5. v \in {"none", "recovery_prepared", "blocked", "recovering", "partially_recovered", "failed", "recovered"} /\ v # "none"
    BY <1>4
  <1>6. PICK z1 : z1 = [y EXCEPT !.set = firstSet]
    OBVIOUS
  <1>7. PICK z : z = [z1 EXCEPT !.state = v]
    OBVIOUS
  <1>8. z1 \in Recoveries /\ z1.undone = y.undone /\ z1.restored = y.restored
    BY <1>6, RecoveryField DEF BatchInv, RecordTypes
  <1>9. z \in Recoveries /\ z.state = v /\ z.undone = y.undone /\ z.restored = y.restored
    BY <1>5, <1>7, <1>8, RecoveryField
  <1>10. recs' = [recs EXCEPT ![r] = z]
    BY <1>2, <1>4, <1>6, <1>7 DEF PreviewRecovery, BatchInv, RecordTypes
  <1>11. call'.tool = "none"
    BY <1>1, IdleFacts
  <1>12. recs' \in [RecoveryIds -> Recoveries] /\ RecoveryPart'
    <2>1. \A i \in z.undone : place'[i] = "nowhere"
      BY <1>1, <1>3, <1>9
    <2>2. \A a \in z.restored : \A i \in OpsOf(a) : place'[i] = "nowhere"
      BY <1>1, <1>3, <1>9
    <2> QED
      BY <1>1, <1>5, <1>9, <1>10, <1>11, <2>1, <2>2, OneRecoveryChanges
  <1>13. /\ call' \in Calls /\ live' \subseteq Ops /\ place' \in [Ops -> {"nowhere", "memory", "disk"}]
         /\ \A i \in Ops : place'[i] \in {place[i], "nowhere"}
    BY <1>1 DEF BatchInv, RecordTypes
  <1> QED
    BY <1>1, <1>11, <1>12, <1>13, RecoveryStepKeeps

\* The plan of a recovery covers the recovery order: what it does not undo it rolls back,
\* and what it does neither with is gone already.
LEMMA PlanCoversOrder ==
  ASSUME BatchInv, NEW r \in RecoveryIds, NEW s \in {NoSet} \cup SetIds
  PROVE  /\ \A i \in exec.order : \/ i \in ResidentOps(s) \ recs[r].undone
                                  \/ Batch[i].asset \in SavedIn(s) \ recs[r].restored
                                  \/ place[i] = "nowhere"
         /\ SavedIn(s) # {} => exec.state = "applied"
         /\ \A a \in SavedIn(s) : a \in BatchAssets /\ ~InMemory(a)
  <1>1. exec.order \subseteq Ops
    BY DEF BatchInv, RecordTypes, Executions
  <1>2. \A a \in PersistedIn(s) :
          /\ a \in SavedIn(s) /\ exec.state = "applied" /\ a \in BatchAssets /\ ~InMemory(a)
    <2>1. CASE s = NoSet
      BY <2>1 DEF PersistedIn
    <2>2. CASE s # NoSet
      <3>1. s \in SetIds /\ PersistedIn(s) = sets[s].persisted
        BY <2>2 DEF PersistedIn
      <3>2. SetFits(sets[s]) /\ SetIsTrue(sets[s])
        BY <3>1, OneSet
      <3> SUFFICES ASSUME NEW a \in PersistedIn(s)
                   PROVE  a \in SavedIn(s) /\ exec.state = "applied" /\ a \in BatchAssets /\ ~InMemory(a)
        OBVIOUS
      <3>3. a \in BatchAssets /\ a \in Assets /\ sets[s].child[a] = "saved" /\ sets[s].state \in {"saved", "partially_saved"}
        BY <3>1, <3>2, BatchFacts DEF SetFits
      <3>4. sets[s].cp[a] \in WrittenStates
        BY <3>2, <3>3 DEF SetFits
      <3> QED
        BY <3>2, <3>3, <3>4 DEF SetIsTrue, SavedIn
    <2> QED
      BY <2>1, <2>2
  <1>3. \A a \in SavedIn(s) : a \in PersistedIn(s)
    BY DEF SavedIn
  <1>4. ASSUME NEW i \in exec.order
        PROVE  \/ i \in ResidentOps(s) \ recs[r].undone
               \/ Batch[i].asset \in SavedIn(s) \ recs[r].restored
               \/ place[i] = "nowhere"
    <2>1. i \in OpsOf(Batch[i].asset)
      BY <1>1 DEF OpsOf
    <2>2. CASE Batch[i].asset \in PersistedIn(s)
      BY <1>2, <2>1, <2>2, OneRecovery
    <2>3. CASE Batch[i].asset \notin PersistedIn(s)
      <3>1. i \in ResidentOps(s)
        BY <2>3 DEF ResidentOps
      <3> QED
        BY <3>1, OneRecovery
    <2> QED
      BY <2>2, <2>3
  <1> QED
    BY <1>2, <1>3, <1>4

\* The invariant survives the start of a recovery.
LEMMA CommitRecoveryKeeps == ASSUME BatchInv, NEW r \in RecoveryIds, CommitRecovery(r) PROVE BatchInv'
  <1> DEFINE stale == \E a \in recs[r].restored : rev[a] # 0
  <1>1. PICK s : s = IF recs[r].set = NoSet THEN firstSet ELSE recs[r].set
    OBVIOUS
  <1>2. PICK ops : ops = ResidentOps(s) \ recs[r].undone
    OBVIOUS
  <1>3. PICK assets : assets = SavedIn(s) \ recs[r].restored
    OBVIOUS
  <1>4. /\ EditorMove /\ call = Idle /\ recs[r].state # "none"
        /\ UNCHANGED <<service, exec, sets, firstSet, backups, live, place>>
        /\ \/ recs' = [recs EXCEPT ![r].state = "blocked"] /\ UNCHANGED call
           \/ /\ recs' = [recs EXCEPT ![r].state = "recovering"]
              /\ call' = [Idle EXCEPT !.tool = "recover", !.id = r, !.ops = ops, !.assets = assets]
    BY <1>1, <1>2, <1>3 DEF CommitRecovery, EditorMove
  <1>5. s \in {NoSet} \cup SetIds
    <2>1. recs[r].set \in {NoSet} \cup SetIds /\ firstSet \in {NoSet} \cup SetIds
      BY OneRecovery DEF BatchInv, RecordTypes
    <2> QED
      BY <1>1, <2>1
  <1>6. /\ \A i \in exec.order : i \in ops \/ Batch[i].asset \in assets \/ place[i] = "nowhere"
        /\ assets # {} => exec.state = "applied"
        /\ \A a \in assets : a \in BatchAssets /\ ~InMemory(a)
    BY <1>2, <1>3, <1>5, PlanCoversOrder
  <1>7. ops \in SUBSET Ops /\ assets \in SUBSET Assets
    <2>1. exec.order \subseteq Ops
      BY DEF BatchInv, RecordTypes, Executions
    <2> QED
      BY <1>2, <1>6, <2>1, BatchFacts DEF ResidentOps
  <1>8. PICK y \in Recoveries : y = recs[r]
    BY OneRecovery
  <1>9. /\ y.undone \subseteq Ops /\ \A i \in y.undone : place[i] = "nowhere" /\ exec.state # "none"
        /\ \A a \in y.restored : \A i \in OpsOf(a) : place[i] = "nowhere"
    BY <1>4, <1>8, OneRecovery
  <1>10. /\ exec.state # "none" /\ live' \subseteq Ops /\ place' \in [Ops -> {"nowhere", "memory", "disk"}]
         /\ \A i \in Ops : place'[i] \in {place[i], "nowhere"} /\ place'[i] = place[i]
         /\ recs \in [RecoveryIds -> Recoveries]
    BY <1>4, OneRecovery DEF BatchInv, RecordTypes
  <1>11. ASSUME NEW v \in {"blocked", "recovering"}, recs' = [recs EXCEPT ![r].state = v],
                call'.tool # "apply",
                call'.tool = "recover" => call'.id = r /\ call'.ops = ops /\ call'.assets = assets
         PROVE  recs' \in [RecoveryIds -> Recoveries] /\ RecoveryPart'
    <2>1. v \in {"none", "recovery_prepared", "blocked", "recovering", "partially_recovered", "failed", "recovered"} /\ v # "none"
      OBVIOUS
    <2>2. PICK z : z = [y EXCEPT !.state = v]
      OBVIOUS
    <2>3. z \in Recoveries /\ z.state = v /\ z.undone = y.undone /\ z.restored = y.restored
      BY <2>1, <2>2, RecoveryField
    <2>4. recs' = [recs EXCEPT ![r] = z]
      BY <1>8, <1>10, <1>11, <2>2
    <2>5. \A i \in z.undone : place'[i] = "nowhere"
      BY <1>4, <1>9, <2>3
    <2>6. \A a \in z.restored : \A i \in OpsOf(a) : place'[i] = "nowhere"
      BY <1>4, <1>9, <2>3
    <2>7. call'.tool = "recover" =>
            /\ call'.id = r
            /\ \A i \in exec.order : i \in call'.ops \/ Batch[i].asset \in call'.assets \/ place'[i] = "nowhere"
            /\ call'.assets # {} => exec.state = "applied"
            /\ \A a \in call'.assets : a \in BatchAssets /\ ~InMemory(a)
      BY <1>4, <1>6, <1>11
    <2>8. \A i \in Ops : /\ place[i] = "nowhere" => place'[i] = "nowhere"
                         /\ place'[i] = "memory" => place[i] = "memory"
      BY <1>4
    <2>9. exec' = exec /\ exec.state # "none" /\ z.state # "none"
      BY <1>4, <1>10, <2>1, <2>3
    <2> QED
      BY <1>11, <2>3, <2>4, <2>5, <2>6, <2>7, <2>8, <2>9, OneRecoveryChanges
  <1>12. CASE recs' = [recs EXCEPT ![r].state = "blocked"] /\ UNCHANGED call
    <2>1. call' \in Calls /\ call'.tool = "none" /\ call.tool = "none" /\ call'.tx = call.tx
      BY <1>4, <1>12, IdleFacts
    <2>2. recs' \in [RecoveryIds -> Recoveries] /\ RecoveryPart'
      BY <1>11, <1>12, <2>1
    <2> QED
      BY <1>4, <1>10, <2>1, <2>2, RecoveryStepKeeps
  <1>13. CASE /\ recs' = [recs EXCEPT ![r].state = "recovering"]
              /\ call' = [Idle EXCEPT !.tool = "recover", !.id = r, !.ops = ops, !.assets = assets]
    <2>1. PICK c1 : c1 = [Idle EXCEPT !.tool = "recover"]
      OBVIOUS
    <2>2. c1 \in Calls /\ c1.tool = "recover" /\ c1.tx = NoTx
      BY <2>1, IdleFacts DEF Calls, Idle
    <2>3. PICK c2 : c2 = [c1 EXCEPT !.id = r]
      OBVIOUS
    <2>4. c2 \in Calls /\ c2.tool = "recover" /\ c2.tx = NoTx /\ c2.id = r
      <3>1. r \in 0..(MaxSets + MaxRecoveries)
        BY BatchAssumption DEF RecoveryIds
      <3> QED
        BY <2>2, <2>3, <3>1 DEF Calls
    <2>5. PICK c3 : c3 = [c2 EXCEPT !.ops = ops]
      OBVIOUS
    <2>6. c3 \in Calls /\ c3.tool = "recover" /\ c3.tx = NoTx /\ c3.id = r /\ c3.ops = ops
      BY <1>7, <2>4, <2>5 DEF Calls
    <2>7. PICK c4 : c4 = [c3 EXCEPT !.assets = assets]
      OBVIOUS
    <2>8. c4 \in Calls /\ c4.tool = "recover" /\ c4.tx = NoTx /\ c4.id = r /\ c4.ops = ops /\ c4.assets = assets
      BY <1>7, <2>6, <2>7 DEF Calls
    <2>9. call' = c4
      BY <1>13, <2>1, <2>3, <2>5, <2>7
    <2>10. recs' \in [RecoveryIds -> Recoveries] /\ RecoveryPart'
      BY <1>11, <1>13, <2>8, <2>9
    <2> QED
      BY <1>4, <1>10, <2>8, <2>9, <2>10, IdleFacts, RecoveryStepKeeps
  <1> QED
    BY <1>4, <1>12, <1>13

\* The invariant survives the end of a recovery.
LEMMA FinishRecoveryKeeps == ASSUME BatchInv, NEW r \in RecoveryIds, FinishRecovery(r) PROVE BatchInv'
  <1>1. /\ EditorMove /\ call.tool = "recover" /\ call.id = r /\ call' = Idle
        /\ UNCHANGED <<service, exec, sets, firstSet, backups, live, place>>
    BY DEF FinishRecovery, EditorMove
  <1>2. /\ exec.state # "none" /\ recs \in [RecoveryIds -> Recoveries]
        /\ place \in [Ops -> {"nowhere", "memory", "disk"}] /\ live \subseteq Ops
    BY <1>1, RunningRecovery
  <1>3. PICK y \in Recoveries : y = recs[r]
    BY OneRecovery
  <1>4. /\ \A i \in y.undone : place[i] = "nowhere"
        /\ \A a \in y.restored : \A i \in OpsOf(a) : place[i] = "nowhere"
    BY <1>3, OneRecovery
  <1>5. PICK z : z = [y EXCEPT !.state = "recovered"]
    OBVIOUS
  <1>6. z \in Recoveries /\ z.state = "recovered" /\ z.undone = y.undone /\ z.restored = y.restored
    BY <1>5, RecoveryField
  <1>7. recs' = [recs EXCEPT ![r] = z]
    BY <1>2, <1>3, <1>5 DEF FinishRecovery
  <1>8. recs' \in [RecoveryIds -> Recoveries] /\ RecoveryPart'
    BY <1>1, <1>2, <1>4, <1>6, <1>7, IdleFacts, OneRecoveryChanges
  <1> QED
    BY <1>1, <1>2, <1>8, IdleFacts, RecoveryStepKeeps

\* What the bridge still lets a batch undo is in memory, not on disk.
LEMMA UndoableIsUnsaved ==
  ASSUME BatchInv, NEW i \in Ops, RevertAllowed(Batch[i].asset, exec.tx[i], BoundSession)
  PROVE  place[i] # "disk" /\ exec.tx[i] \in 1..lastTx /\ BoundSession = session
  <1>1. /\ dirty[Batch[i].asset] /\ IsTop(exec.tx[i]) /\ BoundSession = session
        /\ \E r \in records[Batch[i].asset] : r.id = exec.tx[i]
    BY DEF RevertAllowed
  <1>2. Batch[i].asset \in Assets
    BY BatchFacts
  <1>3. EditorPart /\ EditorInv /\ undo \in Seq(Transactions) /\ lastTx \in Nat
    BY DEF BatchInv, EditorPart, EditorInv, EditorTypeOK
  <1>4. /\ undo # <<>> /\ Len(undo) \in Nat \ {0} /\ undo[Len(undo)].id = exec.tx[i]
        /\ Len(undo) \in 1..Len(undo)
    <2>1. undo # <<>> /\ undo[Len(undo)].id = exec.tx[i]
      BY <1>1 DEF IsTop
    <2>2. Len(undo) \in Nat \ {0}
      BY <1>3, <2>1, EmptyFacts
    <2> QED
      BY <2>1, <2>2
  <1>5. exec.tx[i] \in 1..lastTx
    <2>1. undo[Len(undo)] \in Transactions
      BY <1>3, <1>4
    <2>2. exec.tx[i] \in TxIds
      BY <1>4, <2>1 DEF Transactions
    <2>3. exec.tx[i] <= lastTx
      BY DEF BatchInv, ExecutionPart, TransactionsArePast
    <2> QED
      BY <1>3, <2>2, <2>3 DEF TxIds
  <1>6. \A n \in 1..Len(undo) : undo[n].id \in Nat /\ undo[n].id <= exec.tx[i]
    <2>1. \A n \in 1..Len(undo) : undo[n].id \in Nat
      BY <1>3, IdsAreNumbers DEF Entries
    <2>2. \A n \in 1..Len(undo) : n < Len(undo) => undo[n].id < undo[Len(undo)].id
      BY <1>3, <1>4 DEF EditorInv, BufferOrder
    <2> SUFFICES ASSUME NEW n \in 1..Len(undo)
                 PROVE  undo[n].id <= exec.tx[i]
      BY <2>1
    <2>3. CASE n = Len(undo)
      BY <1>4, <2>1, <2>3
    <2>4. CASE n # Len(undo)
      <3>1. n < Len(undo)
        BY <1>4, <2>4
      <3> QED
        BY <1>4, <2>1, <2>2, <3>1
    <2> QED
      BY <2>3, <2>4
  <1>7. ASSUME place[i] = "disk"
        PROVE  FALSE
    <2>1. exec.tx[i] <= savedTx[Batch[i].asset]
      BY <1>7 DEF BatchInv, ExecutionPart, TransactionsArePast
    <2>2. PICK r \in records[Batch[i].asset] : r.id = exec.tx[i]
      BY <1>1
    <2>3. \E n \in 1..Len(undo) : undo[n].id > exec.tx[i]
      BY <1>1, <1>2, <1>3, <1>4, <2>1, <2>2 DEF EditorPart, SavedWritesAreCovered
    <2> QED
      BY <1>5, <1>6, <2>3
  <1> QED
    BY <1>1, <1>5, <1>7

\* The invariant survives the undo of an operation, whether its answer arrives or is lost.
LEMMA UndoOpKeeps == ASSUME BatchInv, NEW r \in RecoveryIds, NEW i \in Ops, UndoOp(r, i) PROVE BatchInv'
  <1>1. /\ call.tool = "recover" /\ call.id = r /\ call.ops # {} /\ i = LastOp(call.ops)
        /\ RevertWrite(Batch[i].asset, exec.tx[i], BoundSession, TRUE)
        /\ place' = Moved({i}, "memory", "nowhere")
        /\ UNCHANGED <<service, exec, sets, firstSet, backups>>
    BY DEF UndoOp, InUndo
  <1>2. place[i] # "disk" /\ exec.tx[i] \in 1..lastTx /\ BoundSession = session
    BY <1>1, UndoableIsUnsaved DEF RevertWrite
  <1>3. EditorMove
    <2>1. Batch[i].asset \in Assets
      BY BatchFacts
    <2>2. RevertWrite(Batch[i].asset, exec.tx[i], session, TRUE)
      BY <1>1, <1>2
    <2> QED
      BY <1>2, <2>1, <2>2 DEF EditorMove
  <1>4. /\ call \in Calls /\ exec.state # "none" /\ recs[r].state # "none" /\ call.ops \in SUBSET Ops
        /\ \A j \in exec.order : j \in call.ops \/ Batch[j].asset \in call.assets \/ place[j] = "nowhere"
        /\ call.assets # {} => exec.state = "applied"
        /\ \A a \in call.assets : a \in BatchAssets /\ ~InMemory(a)
        /\ place \in [Ops -> {"nowhere", "memory", "disk"}] /\ live \subseteq Ops
        /\ recs \in [RecoveryIds -> Recoveries] /\ exec.order \in SUBSET Ops
    BY <1>1, RunningRecovery
  <1>5. /\ place' \in [Ops -> {"nowhere", "memory", "disk"}]
        /\ \A j \in Ops : place'[j] \in {place[j], "nowhere"}
        /\ place'[i] = "nowhere"
    <2>1. {i} \in SUBSET Ops /\ RecordTypes /\ "nowhere" \in {"nowhere", "memory", "disk"}
      BY DEF BatchInv
    <2>2. place' = Moved({i}, "memory", "nowhere")
      BY <1>1
    <2>3. /\ place' \in [Ops -> {"nowhere", "memory", "disk"}]
          /\ \A j \in Ops : place'[j] = IF j \in {i} /\ place[j] = "memory" THEN "nowhere" ELSE place[j]
      BY <2>1, <2>2, MovedFacts
    <2>4. place[i] \in {"nowhere", "memory"}
      BY <1>2, <1>4
    <2> QED
      BY <2>3, <2>4
  <1>6. CASE /\ recs' = [recs EXCEPT ![r].undone = @ \cup {i}]
             /\ call' = [call EXCEPT !.ops = @ \ {i}]
             /\ live' = live \ {i}
    <2>1. PICK y \in Recoveries : y = recs[r]
      BY OneRecovery
    <2>2. /\ y.undone \subseteq Ops /\ \A j \in y.undone : place[j] = "nowhere" /\ y.state # "none"
          /\ \A a \in y.restored : \A j \in OpsOf(a) : place[j] = "nowhere"
      BY <1>4, <2>1, OneRecovery
    <2>3. PICK U \in SUBSET Ops : U = y.undone \cup {i}
      BY <2>2
    <2>4. PICK z : z = [y EXCEPT !.undone = U]
      OBVIOUS
    <2>5. z \in Recoveries /\ z.state = y.state /\ z.undone = U /\ z.restored = y.restored
      BY <2>4, RecoveryField
    <2>6. recs' = [recs EXCEPT ![r] = z]
      BY <1>4, <1>6, <2>1, <2>3, <2>4
    <2>7. PICK O \in SUBSET Ops : O = call.ops \ {i}
      BY <1>4
    <2>8. /\ call' \in Calls /\ call'.tool = "recover" /\ call'.id = r /\ call'.ops = O
          /\ call'.assets = call.assets /\ call'.tx = call.tx
      BY <1>1, <1>4, <1>6, <2>7 DEF Calls
    <2>9. y.state # "none"
      BY <1>4, <2>1
    <2>10. \A j \in z.undone : place'[j] = "nowhere"
      BY <1>5, <2>2, <2>3, <2>5
    <2>11. \A a \in z.restored : \A j \in OpsOf(a) : place'[j] = "nowhere"
      BY <1>5, <2>2, <2>5, BatchFacts
    <2>12. \A j \in exec.order : j \in call'.ops \/ Batch[j].asset \in call'.assets \/ place'[j] = "nowhere"
      <3> SUFFICES ASSUME NEW j \in exec.order
                   PROVE  j \in call'.ops \/ Batch[j].asset \in call'.assets \/ place'[j] = "nowhere"
        OBVIOUS
      <3>1. j \in Ops /\ (j \in call.ops \/ Batch[j].asset \in call.assets \/ place[j] = "nowhere")
        BY <1>4
      <3>2. CASE j = i
        BY <1>5, <3>2
      <3>3. CASE j # i
        BY <1>5, <2>7, <2>8, <3>1, <3>3
      <3> QED
        BY <3>2, <3>3
    <2>13. \A a \in call'.assets : a \in BatchAssets /\ ~InMemory(a)
      BY <1>4, <2>8
    <2>14. /\ \A j \in Ops : /\ place[j] = "nowhere" => place'[j] = "nowhere"
                             /\ place'[j] = "memory" => place[j] = "memory"
           /\ exec' = exec /\ exec.state # "none" /\ call'.tool # "apply"
           /\ call'.assets # {} => exec.state = "applied"
      BY <1>1, <1>4, <1>5, <2>8
    <2>15. recs' \in [RecoveryIds -> Recoveries] /\ RecoveryPart'
      BY <2>5, <2>6, <2>8, <2>9, <2>10, <2>11, <2>12, <2>13, <2>14, OneRecoveryChanges
    <2>16. live' \subseteq Ops
      BY <1>4, <1>6
    <2> QED
      BY <1>1, <1>3, <1>5, <2>8, <2>15, <2>16, RecoveryStepKeeps
  <1>7. CASE StopRecovery(r, "blocked") /\ UNCHANGED live
    <2>1. live' \subseteq Ops
      BY <1>4, <1>7
    <2> QED
      BY <1>1, <1>3, <1>5, <1>7, <2>1, StopRecoveryKeeps
  <1> QED
    BY <1>6, <1>7 DEF UndoOp

\* The invariant survives a refused undo.
LEMMA UndoOpRefusedKeeps == ASSUME BatchInv, NEW r \in RecoveryIds, NEW i \in Ops, UndoOpRefused(r, i) PROVE BatchInv'
  <1>1. /\ EditorMove /\ call.tool = "recover" /\ call.id = r /\ StopRecovery(r, "blocked")
        /\ UNCHANGED <<service, exec, sets, firstSet, backups, live, place>>
    BY DEF UndoOpRefused, InUndo, EditorMove
  <1>2. /\ live' \subseteq Ops /\ place' \in [Ops -> {"nowhere", "memory", "disk"}]
        /\ \A i1 \in Ops : place'[i1] \in {place[i1], "nowhere"}
    BY <1>1 DEF BatchInv, RecordTypes
  <1> QED
    BY <1>1, <1>2, StopRecoveryKeeps

\* The invariant survives a refused rollback of a package.
LEMMA RestoreAssetRefusedKeeps == ASSUME BatchInv, NEW r \in RecoveryIds, NEW a, RestoreAssetRefused(r, a) PROVE BatchInv'
  <1>1. /\ EditorMove /\ call.tool = "recover" /\ call.id = r /\ StopRecovery(r, "failed")
        /\ UNCHANGED <<service, exec, sets, firstSet, backups, live, place>>
    BY DEF RestoreAssetRefused, InRollback, EditorMove
  <1>2. /\ live' \subseteq Ops /\ place' \in [Ops -> {"nowhere", "memory", "disk"}]
        /\ \A i \in Ops : place'[i] \in {place[i], "nowhere"}
    BY <1>1 DEF BatchInv, RecordTypes
  <1> QED
    BY <1>1, <1>2, StopRecoveryKeeps

\* The invariant survives a package that cannot be unloaded.
LEMMA PrepareRollbackFailsKeeps ==
  ASSUME BatchInv, NEW r \in RecoveryIds, NEW a \in BatchAssets, PrepareRollbackFails(r, a) PROVE BatchInv'
  <1>1. /\ call.tool = "recover" /\ call.id = r /\ StopRecovery(r, "failed")
        /\ PrepareDiskRollbackFails(a) \/ UNCHANGED editorVars
        /\ UNCHANGED <<service, exec, sets, firstSet, backups, live, place>>
    BY DEF PrepareRollbackFails, InRollback
  <1>2. EditorMove
    BY <1>1, BatchFacts DEF EditorMove
  <1>3. /\ live' \subseteq Ops /\ place' \in [Ops -> {"nowhere", "memory", "disk"}]
        /\ \A i \in Ops : place'[i] \in {place[i], "nowhere"}
    BY <1>1 DEF BatchInv, RecordTypes
  <1> QED
    BY <1>1, <1>2, <1>3, StopRecoveryKeeps

\* The invariant survives the unload of a package.
LEMMA PrepareRollbackKeeps ==
  ASSUME BatchInv, NEW r \in RecoveryIds, NEW a \in BatchAssets, PrepareRollback(r, a) PROVE BatchInv'
  <1>1. /\ call.tool = "recover" /\ call.id = r
        /\ PrepareDiskRollback(a) \/ UNCHANGED editorVars
        /\ call' = [call EXCEPT !.phase = "restore"]
        /\ UNCHANGED <<service, exec, sets, firstSet, recs, backups, live, place>>
    BY DEF PrepareRollback, InRollback
  <1>2. EditorMove
    BY <1>1, BatchFacts DEF EditorMove
  <1>3. call \in Calls /\ recs \in [RecoveryIds -> Recoveries] /\ RecoveryPart
    BY DEF BatchInv, RecordTypes
  <1>4. /\ call' \in Calls /\ call'.tool = "recover" /\ call'.id = call.id /\ call'.ops = call.ops
        /\ call'.assets = call.assets /\ call'.tx = call.tx
    BY <1>1, <1>3 DEF Calls
  <1>5. RecoveryPart'
    BY <1>1, <1>3, <1>4 DEF RecoveryPart, InMemory
  <1>6. /\ live' \subseteq Ops /\ place' \in [Ops -> {"nowhere", "memory", "disk"}]
        /\ \A i \in Ops : place'[i] \in {place[i], "nowhere"}
    BY <1>1 DEF BatchInv, RecordTypes
  <1> QED
    BY <1>1, <1>2, <1>3, <1>4, <1>5, <1>6, RecoveryStepKeeps

\* The invariant survives the rollback of a package, whether its result arrives or is lost.
LEMMA RestoreAssetKeeps ==
  ASSUME BatchInv, NEW r \in RecoveryIds, NEW a \in BatchAssets, RestoreAsset(r, a) PROVE BatchInv'
  <1>1. /\ call.tool = "recover" /\ call.id = r /\ call.assets # {} /\ a = LastAsset(call.assets)
        /\ place' = Moved(OpsOf(a), "disk", "nowhere")
        /\ UNCHANGED <<service, exec, sets, firstSet, backups, live>>
    BY DEF RestoreAsset, InRollback
  <1>2. PICK b \in backups : RestoreFile(a, b.content, b.rev)
    BY DEF RestoreAsset
  <1>3. a \in Assets
    BY BatchFacts
  <1>4. EditorMove
    <2>1. b \in Backups /\ b.rev = 0
      BY DEF BatchInv, RecordTypes, SetPart
    <2>2. b.content \in Contents /\ RestoreFile(a, b.content, 0)
      BY <1>2, <2>1 DEF Backups
    <2> QED
      BY <1>3, <2>2 DEF EditorMove
  <1>5. /\ call \in Calls /\ exec.state # "none" /\ recs[r].state # "none" /\ call.assets \in SUBSET BatchAssets
        /\ \A j \in exec.order : j \in call.ops \/ Batch[j].asset \in call.assets \/ place[j] = "nowhere"
        /\ call.assets # {} => exec.state = "applied"
        /\ \A c \in call.assets : c \in BatchAssets /\ ~InMemory(c)
        /\ place \in [Ops -> {"nowhere", "memory", "disk"}] /\ live \subseteq Ops
        /\ recs \in [RecoveryIds -> Recoveries] /\ exec.order \in SUBSET Ops
    BY <1>1, RunningRecovery
  <1>6. a \in call.assets
    BY <1>1, <1>5, EndsOfAssets
  <1>7. /\ place' \in [Ops -> {"nowhere", "memory", "disk"}]
        /\ \A j \in Ops : place'[j] \in {place[j], "nowhere"}
        /\ \A j \in OpsOf(a) : place'[j] = "nowhere"
    <2>1. OpsOf(a) \in SUBSET Ops /\ RecordTypes /\ "nowhere" \in {"nowhere", "memory", "disk"}
      BY BatchFacts DEF BatchInv
    <2>2. place' = Moved(OpsOf(a), "disk", "nowhere")
      BY <1>1
    <2>3. /\ place' \in [Ops -> {"nowhere", "memory", "disk"}]
          /\ \A j \in Ops : place'[j] = IF j \in OpsOf(a) /\ place[j] = "disk" THEN "nowhere" ELSE place[j]
      BY <2>1, <2>2, MovedFacts
    <2>4. \A j \in OpsOf(a) : j \in Ops /\ place[j] \in {"nowhere", "disk"}
      BY <1>5, <1>6, <2>1 DEF InMemory
    <2> QED
      BY <2>3, <2>4
  <1>8. live' \subseteq Ops
    BY <1>1, <1>5
  <1>9. CASE /\ recs' = [recs EXCEPT ![r].restored = @ \cup {a}]
             /\ call' = [call EXCEPT !.phase = "start", !.assets = @ \ {a}]
    <2>1. PICK y \in Recoveries : y = recs[r]
      BY OneRecovery
    <2>2. /\ y.undone \subseteq Ops /\ \A j \in y.undone : place[j] = "nowhere"
          /\ \A c \in y.restored : \A j \in OpsOf(c) : place[j] = "nowhere"
          /\ y.restored \subseteq Assets
      BY <2>1, OneRecovery
    <2>3. PICK R \in SUBSET Assets : R = y.restored \cup {a}
      BY <1>3, <2>2
    <2>4. PICK z : z = [y EXCEPT !.restored = R]
      OBVIOUS
    <2>5. z \in Recoveries /\ z.state = y.state /\ z.undone = y.undone /\ z.restored = R
      BY <2>4, RecoveryField
    <2>6. recs' = [recs EXCEPT ![r] = z]
      BY <1>5, <1>9, <2>1, <2>3, <2>4
    <2>7. PICK A \in SUBSET Assets : A = call.assets \ {a}
      BY <1>5, BatchFacts
    <2>8. PICK c1 : c1 = [call EXCEPT !.phase = "start"]
      OBVIOUS
    <2>9. /\ c1 \in Calls /\ c1.tool = "recover" /\ c1.id = r /\ c1.ops = call.ops /\ c1.tx = call.tx
      BY <1>1, <1>5, <2>8 DEF Calls
    <2>10. PICK c2 : c2 = [c1 EXCEPT !.assets = A]
      OBVIOUS
    <2>11. /\ c2 \in Calls /\ c2.tool = "recover" /\ c2.id = r /\ c2.ops = call.ops /\ c2.tx = call.tx /\ c2.assets = A
      BY <2>9, <2>10 DEF Calls
    <2>12. call' = c2
      BY <1>9, <2>7, <2>8, <2>10
    <2>13. y.state # "none"
      BY <1>5, <2>1
    <2>14. \A j \in z.undone : place'[j] = "nowhere"
      BY <1>7, <2>2, <2>5
    <2>15. \A c \in z.restored : \A j \in OpsOf(c) : place'[j] = "nowhere"
      BY <1>7, <2>2, <2>3, <2>5, BatchFacts
    <2>16. \A j \in exec.order : j \in call'.ops \/ Batch[j].asset \in call'.assets \/ place'[j] = "nowhere"
      <3> SUFFICES ASSUME NEW j \in exec.order
                   PROVE  j \in call'.ops \/ Batch[j].asset \in call'.assets \/ place'[j] = "nowhere"
        OBVIOUS
      <3>1. j \in Ops /\ (j \in call.ops \/ Batch[j].asset \in call.assets \/ place[j] = "nowhere")
        BY <1>5
      <3>2. CASE Batch[j].asset = a
        <4>1. j \in OpsOf(a)
          BY <3>1, <3>2 DEF OpsOf
        <4> QED
          BY <1>7, <4>1
      <3>3. CASE Batch[j].asset # a
        BY <1>7, <2>7, <2>11, <2>12, <3>1, <3>3
      <3> QED
        BY <3>2, <3>3
    <2>17. \A c \in call'.assets : c \in BatchAssets /\ ~InMemory(c)
      BY <1>5, <2>7, <2>11, <2>12
    <2>18. /\ \A j \in Ops : /\ place[j] = "nowhere" => place'[j] = "nowhere"
                             /\ place'[j] = "memory" => place[j] = "memory"
           /\ exec' = exec /\ exec.state # "none" /\ call'.tool # "apply" /\ call'.id = r
           /\ call'.assets # {} => exec.state = "applied"
      BY <1>1, <1>5, <1>7, <2>7, <2>11, <2>12
    <2>19. recs' \in [RecoveryIds -> Recoveries] /\ RecoveryPart'
      BY <2>5, <2>6, <2>13, <2>14, <2>15, <2>16, <2>17, <2>18, OneRecoveryChanges
    <2> QED
      BY <1>1, <1>4, <1>7, <1>8, <2>11, <2>12, <2>19, RecoveryStepKeeps
  <1>10. CASE StopRecovery(r, "failed")
    BY <1>1, <1>4, <1>7, <1>8, <1>10, StopRecoveryKeeps
  <1> QED
    BY <1>9, <1>10 DEF RestoreAsset

\* The invariant survives the recovery tool.
LEMMA RecoveryStepsKeep == ASSUME BatchInv, RecoverySteps PROVE BatchInv'
  BY PreviewRecoveryKeeps, CommitRecoveryKeeps, FinishRecoveryKeeps, UndoOpKeeps, UndoOpRefusedKeeps,
     PrepareRollbackKeeps, PrepareRollbackFailsKeeps, RestoreAssetKeeps, RestoreAssetRefusedKeeps
  DEF RecoverySteps

(***************************************************************************)
(* The inductive invariant and what it is for.                             *)
(***************************************************************************)

\* The invariant survives a step in which nothing happens.
LEMMA StutterKeeps == ASSUME BatchInv, UNCHANGED vars PROVE BatchInv'
  <1>1. /\ EditorMove
        /\ UNCHANGED <<call, service, exec, sets, firstSet, recs, backups, live, place>>
    BY DEF vars, batchVars, EditorMove
  <1>2. EditorPart'
    BY <1>1, MovesKeepEditorPart DEF BatchInv
  <1>3. RecordTypes'
    BY <1>1 DEF BatchInv, RecordTypes
  <1>4. ExecutionPart'
    BY <1>1, ExecutionFrame
  <1>5. SetPart'
    <2>1. \A b \in backups' : b.rev = 0
      BY <1>1 DEF BatchInv, SetPart
    <2> QED
      BY <1>1, <2>1, SetFrame
  <1>6. RecoveryPart'
    BY <1>1, RecoveryFrame
  <1> QED
    BY <1>2, <1>3, <1>4, <1>5, <1>6 DEF BatchInv

\* The invariant holds before the first call.
LEMMA InitEstablishesBatchInv == BatchInit => BatchInv
  <1> SUFFICES ASSUME BatchInit PROVE BatchInv
    OBVIOUS
  <1>1. /\ \A a \in Assets : records[a] = {} /\ rev[a] = 0 /\ savedTx[a] = 0
        /\ lastTx = 0 /\ lastRev = 0
    BY DEF BatchInit, EditorInit
  <1>2. EditorPart
    <2>1. EditorInv /\ UnloadedHasNoRecords
      BY InitEstablishesInv DEF BatchInit
    <2> QED
      BY <1>1, <2>1 DEF EditorPart, SavedWritesAreCovered, SavesArePast
  <1>3. /\ exec.state = "none" /\ exec.op = [i \in Ops |-> "pending"]
        /\ exec.tx = [i \in Ops |-> NoTx] /\ exec.order = {} /\ exec \in Executions
    <2>1. NoTx \in {NoTx} \cup TxIds
      OBVIOUS
    <2> QED
      BY <2>1 DEF BatchInit, Executions
  <1>4. /\ call = Idle /\ call \in Calls /\ call.tool = "none" /\ call.tx = NoTx
    BY IdleFacts DEF BatchInit
  <1>5. ASSUME NEW s \in SetIds
        PROVE  /\ sets[s] \in CheckpointSets /\ sets[s].state = "none" /\ sets[s].persisted = {}
               /\ sets[s].checked = {} /\ sets[s].verification = "none" /\ sets[s].included = {}
               /\ \A a \in Assets : sets[s].child[a] = "none" /\ sets[s].cp[a] = "none" /\ sets[s].after[a] = NoRev
    <2>1. NoRev \in 0..NoRev
      BY BoundsAssumption DEF NoRev
    <2>2. PICK ch \in [Assets -> {"none", "prepared", "saved", "saved_unrecoverable", "failed"}] :
            ch = [a \in Assets |-> "none"]
      OBVIOUS
    <2>3. PICK cp \in [Assets -> {"none", "prepared", "saved", "verified", "stale"}] : cp = [a \in Assets |-> "none"]
      OBVIOUS
    <2>4. PICK af \in [Assets -> 0..NoRev] : af = [a \in Assets |-> NoRev]
      BY <2>1
    <2>5. sets[s] = [state |-> "none", child |-> ch, cp |-> cp, after |-> af, persisted |-> {}, included |-> {},
                     verification |-> "none", checked |-> {}]
      BY <2>2, <2>3, <2>4 DEF BatchInit
    <2>6. sets[s] \in CheckpointSets
      BY <2>5 DEF CheckpointSets
    <2>7. /\ sets[s].state = "none" /\ sets[s].persisted = {} /\ sets[s].checked = {} /\ sets[s].verification = "none"
          /\ sets[s].included = {} /\ sets[s].child = ch /\ sets[s].cp = cp /\ sets[s].after = af
      BY <2>5
    <2> QED
      BY <2>2, <2>3, <2>4, <2>6, <2>7
  <1>6. ASSUME NEW r \in RecoveryIds
        PROVE  /\ recs[r] \in Recoveries /\ recs[r].state = "none"
               /\ recs[r].undone = {} /\ recs[r].restored = {}
    <2>1. recs[r] = [state |-> "none", set |-> NoSet, undone |-> {}, restored |-> {}]
      BY DEF BatchInit
    <2> QED
      BY <2>1 DEF Recoveries
  <1>7. RecordTypes
    <2>1. sets \in [SetIds -> CheckpointSets]
      BY <1>5 DEF BatchInit
    <2>2. recs \in [RecoveryIds -> Recoveries]
      BY <1>6 DEF BatchInit
    <2>3. service \in [planned : BOOLEAN, auths : SUBSET SetIds]
      BY DEF BatchInit
    <2>4. /\ firstSet \in {NoSet} \cup SetIds /\ backups \subseteq Backups /\ live \subseteq Ops
          /\ place \in [Ops -> {"nowhere", "memory", "disk"}]
      BY DEF BatchInit
    <2> QED
      BY <1>3, <1>4, <2>1, <2>2, <2>3, <2>4 DEF RecordTypes
  <1>8. \A i \in Ops : place[i] = "nowhere"
    BY DEF BatchInit
  <1>9. ExecutionPart
    BY <1>1, <1>3, <1>4, <1>8 DEF ExecutionPart, WritesAreKnown, ExecutionAdvances, TransactionsArePast, NoTx
  <1>10. SetPart
    <2>1. ASSUME NEW s \in SetIds PROVE SetFits(sets[s]) /\ SetIsTrue(sets[s])
      <3>1. NoRev # 0
        BY BoundsAssumption DEF NoRev
      <3> QED
        BY <1>5, <2>1, <3>1 DEF SetFits, SetIsTrue, WrittenStates
    <2>2. backups = {}
      BY DEF BatchInit
    <2> QED
      BY <1>4, <2>1, <2>2 DEF SetPart, SetsAreTrue, SetCallFits
  <1>11. RecoveryPart
    BY <1>4, <1>6 DEF RecoveryPart
  <1> QED
    BY <1>2, <1>7, <1>9, <1>10, <1>11 DEF BatchInv

\* Whatever a batch tool, its user and the end of the server do in whatever order, the
\* records agree with the Editor and the disk as BatchInv says.
THEOREM BatchInvariant == BatchSpec => []BatchInv
  <1>1. BatchInit => BatchInv
    BY InitEstablishesBatchInv
  <1>2. BatchInv /\ [BatchNext]_vars => BatchInv'
    BY ApplyStepsKeep, SaveStepsKeep, VerifyStepsKeep, RecoveryStepsKeep, ServerCrashKeeps, UserStepKeeps, StutterKeeps
    DEF BatchNext
  <1> QED
    BY <1>1, <1>2, PTL DEF BatchSpec

\* Every variable of the batch, its records and the Editor keeps its type.
THEOREM BatchTypeCorrect == BatchSpec => []BatchTypeOK
  <1>1. BatchInv => BatchTypeOK
    BY DEF BatchInv, EditorPart, EditorInv, RecordTypes, BatchTypeOK
  <1> QED
    BY <1>1, BatchInvariant, PTL

\* A write that an ended execution does not call failed is in its recovery order, if it
\* took effect.
LEMMA OrderHasWrites ==
  ASSUME BatchInv, exec.state \in {"applied", "partially_applied", "failed"},
         NEW i \in Ops, place[i] # "nowhere", exec.op[i] # "failed"
  PROVE  i \in exec.order
  <1>1. WritesAreKnown /\ ExecutionAdvances
    BY DEF BatchInv, ExecutionPart
  <1>2. call.tool # "apply" /\ exec.order = Mutated(exec)
    BY <1>1 DEF ExecutionAdvances
  <1>3. exec.op[i] \in {"verified", "applied_unverified"}
    BY <1>1, <1>2 DEF WritesAreKnown, AtVerify
  <1> QED
    BY <1>2, <1>3 DEF Mutated

\* Once apply_live_write_batch has ended, however it ended, every write the Editor holds is
\* in the order that recovery undoes, or is the operation it reports as failed.
THEOREM FinishedExecutionsAccountForWrites == BatchSpec => []FinishedExecutionAccountsForWrites
  <1>1. BatchInv => FinishedExecutionAccountsForWrites
    BY OrderHasWrites DEF FinishedExecutionAccountsForWrites
  <1> QED
    BY <1>1, BatchInvariant, PTL

\* What verify_change_set_checkpoint reported as verified is on disk, in every package that
\* has not been saved again.
THEOREM VerifiedSetsHoldTheBatch == BatchSpec => []VerifiedSetHoldsTheBatch
  <1>1. BatchInv => VerifiedSetHoldsTheBatch
    <2> SUFFICES ASSUME BatchInv, NEW s \in SetIds, sets[s].verification = "verified",
                        NEW a \in BatchAssets, rev[a] = sets[s].after[a]
                 PROVE  Holds(disk, sets[s].included \cap OpsOf(a))
      BY DEF VerifiedSetHoldsTheBatch
    <2>1. a \in Assets
      BY BatchFacts
    <2>2. SetFits(sets[s]) /\ SetIsTrue(sets[s])
      BY DEF BatchInv, SetPart, SetsAreTrue
    <2>3. sets[s].cp[a] = "verified"
      BY <2>2 DEF SetFits
    <2> QED
      BY <2>1, <2>2, <2>3 DEF SetIsTrue
  <1> QED
    BY <1>1, BatchInvariant, PTL

\* The package of an asset is unloaded, which takes the Undo buffer with it, only when no
\* write of the batch is left in the Editor's memory.
THEOREM UndoComesBeforeUnload == BatchSpec => UndoneBeforeUnload
  <1>1. BatchInv => \A r \in RecoveryIds, a \in BatchAssets :
                      PrepareRollback(r, a) /\ loaded[a] => \A i \in Ops : place[i] # "memory"
    <2> SUFFICES ASSUME BatchInv, NEW r \in RecoveryIds, NEW a \in BatchAssets, PrepareRollback(r, a),
                        NEW i \in Ops, place[i] = "memory"
                 PROVE  FALSE
      OBVIOUS
    <2>1. call.tool = "recover" /\ call.ops = {} /\ call.assets # {}
      BY DEF PrepareRollback, InRollback
    <2>2. exec.state = "applied"
      BY <2>1, RunningRecovery
    <2>3. exec.op[i] # "failed"
      BY <2>2 DEF BatchInv, ExecutionPart, ExecutionAdvances
    <2>4. i \in exec.order
      BY <2>2, <2>3, OrderHasWrites
    <2>5. Batch[i].asset \in call.assets
      BY <2>1, <2>4, RunningRecovery
    <2>6. ~InMemory(Batch[i].asset)
      BY <2>1, <2>5, RunningRecovery
    <2> QED
      BY <2>6 DEF InMemory, OpsOf
  <1> QED
    BY <1>1, BatchInvariant, PTL DEF UndoneBeforeUnload

\* A recovery gets the state "recovered" from the end of its call alone.
LEMMA RecoveredByFinish ==
  ASSUME BatchInv, [BatchNext]_vars, NEW r \in RecoveryIds,
         recs[r].state # "recovered", recs'[r].state = "recovered"
  PROVE  call.tool = "recover" /\ call.ops = {} /\ call.assets = {} /\ place' = place /\ exec' = exec
  <1>1. recs \in [RecoveryIds -> Recoveries] /\ recs[r] \in Recoveries /\ recs' # recs
    BY OneRecovery DEF BatchInv, RecordTypes
  <1>2. ~UNCHANGED vars
    BY <1>1 DEF vars, batchVars
  <1>3. ~UserStep /\ ~ServerCrash
    BY <1>1 DEF UserStep, ServerCrash
  <1>4. ~VerifySteps
    BY <1>1 DEF VerifySteps, VerifySet, VerifyChild, FinishVerify
  <1>5. ~SaveSteps
    BY <1>1 DEF SaveSteps, PreviewSet, CommitSet, FinishSave, SaveChildBackup, SaveChildWrite, SaveChildRefused,
                SaveChildPromote
  <1>6. ~ApplySteps
    BY <1>1 DEF ApplySteps, ApplyBatch, FinishApply, ApplyOp, ApplyOpUnchanged, ApplyOpRefused, VerifyOp
  <1>7. PICK q \in RecoveryIds :
          \/ PreviewRecovery(q) \/ CommitRecovery(q) \/ FinishRecovery(q)
          \/ \E i \in Ops : UndoOp(q, i) \/ UndoOpRefused(q, i)
          \/ \E a \in BatchAssets :
               \/ PrepareRollback(q, a) \/ PrepareRollbackFails(q, a)
               \/ RestoreAsset(q, a) \/ RestoreAssetRefused(q, a)
    BY <1>2, <1>3, <1>4, <1>5, <1>6 DEF BatchNext, RecoverySteps
  <1>8. ASSUME NEW v, v # "recovered", recs' = [recs EXCEPT ![q].state = v]
        PROVE  FALSE
    BY <1>1, <1>8 DEF Recoveries
  <1>9. ASSUME NEW otherwise \in {"blocked", "failed"}, StopRecovery(q, otherwise)
        PROVE  FALSE
    <2>1. PICK v : v = IF recs[q].undone # {} \/ recs[q].restored # {} THEN "partially_recovered" ELSE otherwise
      OBVIOUS
    <2>2. v # "recovered" /\ recs' = [recs EXCEPT ![q].state = v]
      BY <1>9, <2>1 DEF StopRecovery
    <2> QED
      BY <1>8, <2>2
  <1>10. CASE PreviewRecovery(q)
    <2>1. PICK v : /\ v = IF Blocked(firstSet, ResidentOps(firstSet), SavedIn(firstSet)) THEN "blocked" ELSE "recovery_prepared"
                   /\ recs' = [recs EXCEPT ![q].set = firstSet, ![q].state = v]
      BY <1>10 DEF PreviewRecovery
    <2>2. v # "recovered"
      BY <2>1
    <2> QED
      BY <1>1, <2>1, <2>2 DEF Recoveries
  <1>11. CASE CommitRecovery(q)
    <2>1. recs' = [recs EXCEPT ![q].state = "blocked"] \/ recs' = [recs EXCEPT ![q].state = "recovering"]
      BY <1>11 DEF CommitRecovery
    <2> QED
      BY <1>8, <2>1
  <1>12. CASE FinishRecovery(q)
    BY <1>12 DEF FinishRecovery
  <1>13. ASSUME NEW i \in Ops, UndoOp(q, i) \/ UndoOpRefused(q, i)
         PROVE  FALSE
    <2>1. CASE recs' = [recs EXCEPT ![q].undone = @ \cup {i}]
      BY <1>1, <2>1 DEF Recoveries
    <2>2. CASE StopRecovery(q, "blocked")
      BY <1>9, <2>2
    <2> QED
      BY <1>13, <2>1, <2>2 DEF UndoOp, UndoOpRefused
  <1>14. ASSUME NEW a \in BatchAssets,
                \/ PrepareRollback(q, a) \/ PrepareRollbackFails(q, a)
                \/ RestoreAsset(q, a) \/ RestoreAssetRefused(q, a)
         PROVE  FALSE
    <2>1. CASE recs' = [recs EXCEPT ![q].restored = @ \cup {a}]
      BY <1>1, <2>1 DEF Recoveries
    <2>2. CASE StopRecovery(q, "failed")
      BY <1>9, <2>2
    <2> QED
      BY <1>1, <1>14, <2>1, <2>2 DEF PrepareRollback, PrepareRollbackFails, RestoreAsset, RestoreAssetRefused
  <1> QED
    BY <1>7, <1>10, <1>11, <1>12, <1>13, <1>14

\* A recovery that ends as recovered has taken back every write of the recovery order.
THEOREM RecoveredIsTakenBack == BatchSpec => RecoveredMeansTakenBack
  <1>1. BatchInv /\ [BatchNext]_vars =>
          \A r \in RecoveryIds :
            recs[r].state # "recovered" /\ recs'[r].state = "recovered" =>
              \A i \in exec.order : place[i] = "nowhere"
    BY RecoveredByFinish, RunningRecovery
  <1> QED
    BY <1>1, BatchInvariant, PTL DEF BatchSpec, RecoveredMeansTakenBack
-----------------------------------------------------------------------------
(* Where no answer is lost and the server does not die                     *)

\* The apply runs to its end, and an operation it reports as failed wrote nothing.
NothingLost ==
  /\ exec.state = "applying" => call.tool = "apply"
  /\ \A i \in Ops : exec.op[i] = "failed" => place[i] = "nowhere"

\* What is nowhere stays so in every step but a write.
LEMMA OthersKeepNothingLost ==
  ASSUME BatchInv, NothingLost, exec' = exec,
         exec.state = "applying" => call'.tool = "apply",
         \A i \in Ops : place[i] = "nowhere" => place'[i] = "nowhere"
  PROVE  NothingLost'
  BY DEF NothingLost

\* An apply that stops has written all it reports as written.
LEMMA StopKeepsNothingLost ==
  ASSUME BatchInv, NothingLost, NEW i \in Ops, NEW status \in Results, NEW tx \in {NoTx} \cup TxIds,
         StopApply(i, status, tx), place' = place, status = "failed" => place[i] = "nowhere"
  PROVE  NothingLost'
  <1>1. exec \in Executions
    BY DEF BatchInv, RecordTypes
  <1>2. PICK w : w = WithOp(exec, i, status, tx)
    OBVIOUS
  <1>3. w \in Executions /\ w.op[i] = status /\ \A j \in Ops \ {i} : w.op[j] = exec.op[j]
    BY <1>1, <1>2, WithOpFacts
  <1>4. exec' = Finalized(w)
    BY <1>2 DEF StopApply
  <1>5. exec'.op = w.op /\ exec'.state # "applying"
    BY <1>3, <1>4, FinalizedFacts
  <1> QED
    BY <1>3, <1>5 DEF NothingLost

LEMMA ApplyKeepsNothingLost ==
  ASSUME BatchInv, NothingLost, ApplySteps, "lost" \notin Faults
  PROVE  NothingLost'
  <1>1. exec \in Executions /\ call \in Calls
    BY DEF BatchInv, RecordTypes
  <1>2. ASSUME ApplyBatch PROVE NothingLost'
    <2>1. exec' = [exec EXCEPT !.state = "applying"] /\ call' = [Idle EXCEPT !.tool = "apply", !.ops = Ops] /\ place' = place
      BY <1>2 DEF ApplyBatch
    <2>2. exec'.op = exec.op /\ call'.tool = "apply"
      BY <1>1, <2>1 DEF Executions, Idle
    <2> QED
      BY <2>1, <2>2 DEF NothingLost
  <1>3. ASSUME FinishApply PROVE NothingLost'
    <2>1. exec' = [exec EXCEPT !.state = "applied", !.order = Mutated(exec)] /\ place' = place
      BY <1>3 DEF FinishApply
    <2>2. exec'.op = exec.op /\ exec'.state = "applied"
      BY <1>1, <2>1 DEF Executions
    <2> QED
      BY <2>1, <2>2 DEF NothingLost
  <1>4. ASSUME NEW i \in Ops, ApplyOp(i) PROVE NothingLost'
    <2>1. InApply("start", i) /\ exec' = exec /\ call' = [call EXCEPT !.phase = "verify", !.tx = lastTx + 1]
          /\ place' = [place EXCEPT ![i] = "memory"]
      BY <1>4 DEF ApplyOp
    <2>2. exec.op[i] = "pending" /\ place \in [Ops -> {"nowhere", "memory", "disk"}] /\ call.tool = "apply"
      BY <2>1, ApplyFacts DEF InApply
    <2>3. call'.tool = "apply"
      BY <1>1, <2>1, <2>2 DEF Calls
    <2> QED
      BY <2>1, <2>2, <2>3 DEF NothingLost
  <1>5. ASSUME NEW i \in Ops, ApplyOpUnchanged(i) PROVE NothingLost'
    <2>1. InApply("start", i) /\ place' = place
      BY <1>5 DEF ApplyOpUnchanged
    <2>2. place[i] = "nowhere" /\ call.tool = "apply"
      BY <2>1, ApplyFacts DEF InApply
    <2>3. CASE StopApply(i, "failed", NoTx)
      BY <2>1, <2>2, <2>3, StopKeepsNothingLost DEF Results
    <2>4. CASE exec' = WithOp(exec, i, "no-op", NoTx) /\ call' = [call EXCEPT !.ops = @ \ {i}]
      <3>1. PICK w : w = WithOp(exec, i, "no-op", NoTx) /\ exec' = w
        BY <2>4
      <3>2. w.op[i] = "no-op" /\ \A j \in Ops \ {i} : w.op[j] = exec.op[j]
        BY <1>1, <3>1, WithOpFacts DEF Results
      <3>3. call'.tool = "apply"
        BY <1>1, <2>2, <2>4 DEF Calls
      <3> QED
        BY <2>1, <3>1, <3>2, <3>3 DEF NothingLost
    <2> QED
      BY <1>5, <2>3, <2>4 DEF ApplyOpUnchanged
  <1>6. ASSUME NEW i \in Ops, ApplyOpRefused(i) PROVE NothingLost'
    <2>1. InApply("start", i) /\ place' = place /\ StopApply(i, "failed", NoTx)
      BY <1>6 DEF ApplyOpRefused
    <2>2. place[i] = "nowhere"
      BY <2>1, ApplyFacts DEF InApply
    <2> QED
      BY <2>1, <2>2, StopKeepsNothingLost DEF Results
  <1>7. ASSUME NEW i \in Ops, VerifyOp(i) PROVE NothingLost'
    <2>1. InApply("verify", i) /\ place' = place /\ call.tool = "apply" /\ call.tx \in {NoTx} \cup TxIds
      BY <1>1, <1>7 DEF VerifyOp, InApply, Calls
    <2>2. CASE StopApply(i, "applied_unverified", call.tx)
      BY <2>1, <2>2, StopKeepsNothingLost DEF Results
    <2>3. CASE /\ exec' = WithOp(exec, i, "verified", call.tx)
               /\ call' = [call EXCEPT !.phase = "start", !.ops = @ \ {i}, !.tx = NoTx]
      <3>1. PICK w : w = WithOp(exec, i, "verified", call.tx) /\ exec' = w
        BY <2>3
      <3>2. w.op[i] = "verified" /\ \A j \in Ops \ {i} : w.op[j] = exec.op[j]
        BY <1>1, <2>1, <3>1, WithOpFacts DEF Results
      <3>3. call'.tool = "apply"
        BY <1>1, <2>1, <2>3 DEF Calls
      <3> QED
        BY <2>1, <3>1, <3>2, <3>3 DEF NothingLost
    <2> QED
      BY <1>7, <2>2, <2>3 DEF VerifyOp
  <1> QED
    BY <1>2, <1>3, <1>4, <1>5, <1>6, <1>7 DEF ApplySteps

LEMMA OtherStepsKeepNothingLost ==
  ASSUME BatchInv, NothingLost, SaveSteps \/ VerifySteps \/ RecoverySteps
  PROVE  NothingLost'
  <1>1. RecordTypes /\ \A a : OpsOf(a) \in SUBSET Ops
    BY DEF BatchInv, OpsOf
  <1>2. Idle.tool = "none"
    BY DEF Idle
  <1>3. /\ exec' = exec
        /\ call = Idle \/ call.tool = "save" \/ call.tool = "verify" \/ call.tool = "recover"
    <2>1. CASE SaveSteps
      BY <2>1 DEF SaveSteps, PreviewSet, CommitSet, FinishSave, SaveChildBackup, SaveChildWrite,
           SaveChildRefused, SaveChildPromote, InSave
    <2>2. CASE VerifySteps
      BY <2>2 DEF VerifySteps, VerifySet, FinishVerify, VerifyChild
    <2>3. CASE RecoverySteps
      BY <2>3 DEF RecoverySteps, PreviewRecovery, CommitRecovery, FinishRecovery, UndoOp, UndoOpRefused, InUndo,
           PrepareRollback, PrepareRollbackFails, RestoreAsset, RestoreAssetRefused, InRollback
    <2> QED
      BY <2>1, <2>2, <2>3
  <1>4. \/ place' = place
        \/ \E S \in SUBSET Ops : place' = Moved(S, "memory", "disk") \/ place' = Moved(S, "memory", "nowhere")
                                 \/ place' = Moved(S, "disk", "nowhere")
    <2>1. CASE SaveSteps
      BY <1>1, <2>1 DEF SaveSteps, PreviewSet, CommitSet, FinishSave, SaveChildBackup, SaveChildWrite,
           SaveChildRefused, SaveChildPromote
    <2>2. CASE VerifySteps
      BY <2>2 DEF VerifySteps, VerifySet, FinishVerify, VerifyChild
    <2>3. CASE RecoverySteps
      <3>1. \A i \in Ops : {i} \in SUBSET Ops
        OBVIOUS
      <3> QED
        BY <1>1, <2>3, <3>1 DEF RecoverySteps, PreviewRecovery, CommitRecovery, FinishRecovery, UndoOp,
             UndoOpRefused, PrepareRollback, PrepareRollbackFails, RestoreAsset, RestoreAssetRefused
    <2> QED
      BY <2>1, <2>2, <2>3
  <1>5. \A i \in Ops : place[i] = "nowhere" => place'[i] = "nowhere"
    BY <1>1, <1>4, MovedFacts
  <1> QED
    BY <1>2, <1>3, <1>5, OthersKeepNothingLost DEF NothingLost

LEMMA UserKeepsNothingLost ==
  ASSUME BatchInv, NothingLost, UserStep
  PROVE  NothingLost'
  <1>1. RecordTypes /\ \A a : OpsOf(a) \in SUBSET Ops
    BY DEF BatchInv, OpsOf
  <1>2. \/ place' = place
        \/ \E S \in SUBSET Ops : place' = Moved(S, "memory", "disk") \/ place' = Moved(S, "memory", "nowhere")
    BY <1>1 DEF UserStep
  <1>3. \A i \in Ops : place[i] = "nowhere" => place'[i] = "nowhere"
    BY <1>1, <1>2, MovedFacts
  <1>4. call' = call /\ exec' = exec
    BY DEF UserStep
  <1> QED
    BY <1>3, <1>4, OthersKeepNothingLost DEF NothingLost

\* The other side of the run batch_recovery: where no answer is lost and the server does not
\* die, a recovery reported as recovered has taken back every write of the batch, whatever the
\* Editor refused, the user edited or saved, and however often the Editor was restarted.
THEOREM RecoveredBatchesLeaveNoWrite ==
  ASSUME "crash" \notin Faults, "lost" \notin Faults
  PROVE  BatchSpec => RecoveredLeavesNoWrite
  <1>1. BatchInit => NothingLost
    BY DEF BatchInit, NothingLost
  <1>2. BatchInv /\ NothingLost /\ [BatchNext]_vars => NothingLost'
    <2> SUFFICES ASSUME BatchInv, NothingLost, [BatchNext]_vars PROVE NothingLost'
      OBVIOUS
    <2>1. CASE UNCHANGED vars
      BY <2>1 DEF vars, batchVars, NothingLost
    <2>2. ~ServerCrash
      BY DEF ServerCrash
    <2> QED
      BY <2>1, <2>2, ApplyKeepsNothingLost, OtherStepsKeepNothingLost, UserKeepsNothingLost DEF BatchNext
  <1>3. BatchInv /\ NothingLost /\ [BatchNext]_vars =>
          \A r \in RecoveryIds :
            recs[r].state # "recovered" /\ recs'[r].state = "recovered" =>
              \A i \in Ops : place[i] = "nowhere"
    <2> SUFFICES ASSUME BatchInv, NothingLost, [BatchNext]_vars, NEW r \in RecoveryIds,
                        recs[r].state # "recovered", recs'[r].state = "recovered",
                        NEW i \in Ops
                 PROVE  place[i] = "nowhere"
      OBVIOUS
    <2>1. call.tool = "recover" /\ call.ops = {} /\ call.assets = {}
      BY RecoveredByFinish
    <2>2. /\ exec.state # "none" /\ exec \in Executions
          /\ \A j \in exec.order : place[j] = "nowhere"
      BY <2>1, RunningRecovery DEF BatchInv, RecordTypes
    <2>3. exec.state \in {"applied", "partially_applied", "failed"}
      BY <2>1, <2>2 DEF NothingLost, Executions
    <2>4. exec.order = Mutated(exec) /\ WritesAreKnown
      BY <2>3 DEF BatchInv, ExecutionPart, ExecutionAdvances
    <2>5. ~AtVerify(i)
      BY <2>1 DEF AtVerify
    <2> QED
      BY <2>2, <2>3, <2>4, <2>5 DEF WritesAreKnown, Mutated, NothingLost
  <1> QED
    BY <1>1, <1>2, <1>3, BatchInvariant, PTL DEF BatchSpec, RecoveredLeavesNoWrite
=============================================================================
