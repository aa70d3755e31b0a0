----------------------------- MODULE LiveEditor -----------------------------
(***************************************************************************)
(* The Unreal Editor seen through the UE Agent Kit Editor Bridge: assets   *)
(* loaded in memory, their Dirty flags, the global Undo/Redo stack, and    *)
(* the map LiveWriteTransactionRecords in which the bridge keeps every     *)
(* confirmed agent write it may still have to undo.                        *)
(*                                                                         *)
(* Bridge requests run on the game thread, so each is one step.  Between   *)
(* two of them the user works in the same Editor: edits, Ctrl+Z, Ctrl+Y,   *)
(* Ctrl+S, play sessions, closing and reopening.                           *)
(***************************************************************************)
EXTENDS Naturals, Sequences, FiniteSets

CONSTANTS
  Assets,       \* exact asset paths
  Targets,      \* writable targets (properties, parameters, cells) of an asset
  Values,       \* values a target can hold
  UserActions,  \* what the user does in a run, a subset of UserKinds
  MaxTx,        \* bound: transactions ever recorded in the Undo buffer
  MaxSessions,  \* bound: Editor processes
  MaxRev        \* bound: saves of package files

UserKinds == {"edit", "undo", "redo", "save", "play", "restart", "restore"}

ASSUME UserActionsAssumption == UserActions \subseteq UserKinds
ASSUME BoundsAssumption ==
  MaxTx \in Nat /\ MaxSessions \in Nat \ {0} /\ MaxRev \in Nat

Contents == [Targets -> Values]
NoTx == 0
TxIds == 1..MaxTx

\* An entry of the Undo buffer.  The engine restores whole objects, so it
\* carries the content of the asset before and after.  agent is a history field:
\* the engine cannot tell the bridge's transactions from the user's.
Transactions == [id : TxIds, asset : Assets, agent : BOOLEAN,
                 before : Contents, after : Contents]

\* FLiveWriteTransactionRecord.  bDirtyAfter is TRUE in every record: a write
\* that did not dirty its package was restored and cancelled.
Records == [id : TxIds, target : Targets, after : Values, dirtyBefore : BOOLEAN]

VARIABLES
  session,   \* SessionId of the running (or last) bridge
  link,      \* "available", "playing" (PIE or SIE) or "closed"
  loaded,    \* asset objects in memory
  resident,  \* content in Editor memory; equals disk when not loaded
  dirty,     \* UPackage::IsDirty
  disk,      \* content of the package file
  rev,       \* revision (SHA-256) of the package file
  lastRev,   \* revisions given out; a file restored from a backup gets its old one
  undo,      \* Undo buffer, oldest first
  redo,      \* undone entries, the next one to redo last
  records,   \* LiveWriteTransactionRecords
  lastTx,    \* transaction ids given out
  savedTx,   \* history: lastTx at the asset's last save to disk
  tainted    \* history: the bridge undid a write of this asset that a save
             \* had already put on disk (until the next save or unload)

memoryVars == <<loaded, resident, dirty>>
diskVars == <<disk, rev, lastRev, savedTx>>
historyVars == <<lastTx, tainted>>
bufferVars == <<undo, redo>>
linkVars == <<session, link>>
editorVars == <<memoryVars, diskVars, bufferVars, linkVars, records, historyVars>>

EditorTypeOK ==
  /\ session \in 1..MaxSessions
  /\ link \in {"available", "playing", "closed"}
  /\ loaded \in [Assets -> BOOLEAN]
  /\ resident \in [Assets -> Contents]
  /\ dirty \in [Assets -> BOOLEAN]
  /\ disk \in [Assets -> Contents]
  /\ rev \in [Assets -> 0..MaxRev]
  /\ lastRev \in 0..MaxRev
  /\ undo \in Seq(Transactions)
  /\ redo \in Seq(Transactions)
  /\ records \in [Assets -> SUBSET Records]
  /\ lastTx \in 0..MaxTx
  /\ savedTx \in [Assets -> 0..MaxTx]
  /\ tainted \in [Assets -> BOOLEAN]

EditorInit ==
  /\ session = 1
  /\ link = "available"
  /\ loaded = [a \in Assets |-> TRUE]
  /\ \E c \in Contents : disk = [a \in Assets |-> c]
  /\ resident = disk
  /\ dirty = [a \in Assets |-> FALSE]
  /\ rev = [a \in Assets |-> 0]
  /\ lastRev = 0
  /\ undo = <<>>
  /\ redo = <<>>
  /\ records = [a \in Assets |-> {}]
  /\ lastTx = 0
  /\ savedTx = [a \in Assets |-> 0]
  /\ tainted = [a \in Assets |-> FALSE]

-----------------------------------------------------------------------------
(* Helpers                                                                 *)

IsTop(id) == undo # <<>> /\ undo[Len(undo)].id = id
Pop(s) == SubSeq(s, 1, Len(s) - 1)
Top(s) == s[Len(s)]

\* One write of value v to target t of asset a enters the Undo buffer; like
\* every new transaction it drops what could be redone.
RecordTransaction(a, content, byAgent) ==
  /\ lastTx < MaxTx
  /\ lastTx' = lastTx + 1
  /\ undo' = Append(undo, [id |-> lastTx + 1, asset |-> a, agent |-> byAgent,
                           before |-> resident[a], after |-> content])
  /\ redo' = <<>>
  /\ resident' = [resident EXCEPT ![a] = content]
  /\ dirty' = [dirty EXCEPT ![a] = TRUE]

WriteToDisk(a) ==
  /\ lastRev < MaxRev
  /\ disk' = [disk EXCEPT ![a] = resident[a]]
  /\ lastRev' = lastRev + 1
  /\ rev' = [rev EXCEPT ![a] = lastRev + 1]
  /\ dirty' = [dirty EXCEPT ![a] = FALSE]
  /\ savedTx' = [savedTx EXCEPT ![a] = lastTx]
  /\ tainted' = [tainted EXCEPT ![a] = FALSE]

-----------------------------------------------------------------------------
(* Bridge: editor.applyAssetPropertyLive                                   *)

ContinuesChain_AnyPosition(a, previous) ==
  \E r \in records[a] : r.id = previous /\ resident[a][r.target] = r.after

\* The dirty package is backed by the exact previous agent write: its record
\* is retained, it is on top of the Undo stack and its target is unchanged.
ContinuesChain(a, previous) ==
  \E r \in records[a] :
    /\ r.id = previous
    /\ IsTop(previous)
    /\ resident[a][r.target] = r.after

ApplyAllowed(a, previous) ==
  /\ link = "available"
  /\ loaded[a]
  /\ IF dirty[a] THEN ContinuesChain(a, previous) ELSE previous = NoTx

\* A write that does not continue a chain first drops the asset's old records.
RetainedRecords(a) == IF dirty[a] THEN records[a] ELSE {}

NewRecord_PreviousTransaction(a, t, v) ==
  [id |-> lastTx, target |-> t, after |-> v, dirtyBefore |-> dirty[a]]

NewRecord(a, t, v) ==
  [id |-> lastTx + 1, target |-> t, after |-> v, dirtyBefore |-> dirty[a]]

ApplyChanged(a, t, v, previous) ==
  /\ ApplyAllowed(a, previous)
  /\ v # resident[a][t]
  /\ RecordTransaction(a, [resident[a] EXCEPT ![t] = v], TRUE)
  /\ records' = [records EXCEPT ![a] = RetainedRecords(a) \cup {NewRecord(a, t, v)}]
  /\ UNCHANGED <<loaded, diskVars, linkVars, tainted>>

\* Semantically equal values, a rejected value or a failed compile: snapshot
\* restored, Dirty flag restored, transaction cancelled; the old records of a
\* clean asset are gone all the same.
ApplyUnchanged(a, previous) ==
  /\ ApplyAllowed(a, previous)
  /\ records' = [records EXCEPT ![a] = RetainedRecords(a)]
  /\ UNCHANGED <<memoryVars, diskVars, bufferVars, linkVars, historyVars>>

-----------------------------------------------------------------------------
(* Bridge: editor.undoAssetPropertyLive, editor.discardAssetPropertyLive   *)

RevertAllowed(a, id, expectedSession) ==
  /\ link = "available"
  /\ loaded[a]
  /\ expectedSession = session
  /\ dirty[a]
  /\ IsTop(id)
  /\ \E r \in records[a] : r.id = id /\ resident[a][r.target] = r.after

RestoredDirty_AlwaysClean(r) == FALSE

\* SetDirtyFlag(bDirtyBefore) after the Undo.
RestoredDirty(r) == r.dirtyBefore

\* UndoTransaction(bCanRedo), the Dirty flag by hand, the record removed.
RevertWrite(a, id, expectedSession, redoable) ==
  /\ RevertAllowed(a, id, expectedSession)
  /\ \E r \in records[a] :
       /\ r.id = id
       /\ dirty' = [dirty EXCEPT ![a] = RestoredDirty(r)]
       /\ records' = [records EXCEPT ![a] = @ \ {r}]
  /\ resident' = [resident EXCEPT ![a] = Top(undo).before]
  /\ undo' = Pop(undo)
  /\ redo' = IF redoable THEN Append(redo, Top(undo)) ELSE <<>>
  /\ tainted' = [tainted EXCEPT ![a] = @ \/ id <= savedTx[a]]
  /\ UNCHANGED <<loaded, diskVars, linkVars, lastTx>>

-----------------------------------------------------------------------------
(* Bridge: editor.saveAuthorizedAsset, editor.prepareAssetForDiskRollback  *)

SaveAllowed(a) == link = "available" /\ loaded[a] /\ dirty[a]

SaveAsset(a) ==
  /\ SaveAllowed(a)
  /\ WriteToDisk(a)
  /\ UNCHANGED <<loaded, resident, bufferVars, linkVars, records, lastTx>>

RollbackAllowed(a) == link = "available" /\ loaded[a] /\ ~dirty[a]

\* The asset leaves memory; UnloadPackages resets the global Undo buffer, so
\* agent writes to the other assets lose their transactions too.
PrepareDiskRollback(a) ==
  /\ RollbackAllowed(a)
  /\ loaded' = [loaded EXCEPT ![a] = FALSE]
  /\ resident' = [resident EXCEPT ![a] = disk[a]]
  /\ records' = [records EXCEPT ![a] = {}]
  /\ undo' = <<>> /\ redo' = <<>>
  /\ tainted' = [tainted EXCEPT ![a] = FALSE]
  /\ UNCHANGED <<dirty, diskVars, linkVars, lastTx>>

\* The engine keeps the asset loaded: the request fails, but its records are
\* gone by then, and the Undo buffer may have been reset.
PrepareDiskRollbackFails(a) ==
  /\ RollbackAllowed(a)
  /\ records' = [records EXCEPT ![a] = {}]
  /\ UNCHANGED bufferVars \/ (undo' = <<>> /\ redo' = <<>>)
  /\ UNCHANGED <<memoryVars, diskVars, linkVars, historyVars>>

-----------------------------------------------------------------------------
(* The user                                                                *)

UserEdit(a, t, v) ==
  /\ "edit" \in UserActions
  /\ link # "closed" /\ loaded[a]
  /\ v # resident[a][t]
  /\ RecordTransaction(a, [resident[a] EXCEPT ![t] = v], FALSE)
  /\ UNCHANGED <<loaded, diskVars, linkVars, records, tainted>>

\* After Ctrl+Z or Ctrl+Y a package counts as dirty; the engine may mark it
\* clean again only when its content is the saved one.
DirtyAfterHistoryStep(a, content) ==
  \E d \in BOOLEAN :
    /\ d \/ content = disk[a]
    /\ dirty' = [dirty EXCEPT ![a] = d]

UserUndo ==
  /\ "undo" \in UserActions
  /\ link # "closed" /\ undo # <<>>
  /\ LET tx == Top(undo) IN
       /\ resident' = [resident EXCEPT ![tx.asset] = tx.before]
       /\ DirtyAfterHistoryStep(tx.asset, tx.before)
       /\ redo' = Append(redo, tx)
  /\ undo' = Pop(undo)
  /\ UNCHANGED <<loaded, diskVars, linkVars, records, historyVars>>

UserRedo ==
  /\ "redo" \in UserActions
  /\ link # "closed" /\ redo # <<>>
  /\ LET tx == Top(redo) IN
       /\ resident' = [resident EXCEPT ![tx.asset] = tx.after]
       /\ DirtyAfterHistoryStep(tx.asset, tx.after)
       /\ undo' = Append(undo, tx)
  /\ redo' = Pop(redo)
  /\ UNCHANGED <<loaded, diskVars, linkVars, records, historyVars>>

UserSave(a) ==
  /\ "save" \in UserActions
  /\ link # "closed" /\ loaded[a] /\ dirty[a]
  /\ WriteToDisk(a)
  /\ UNCHANGED <<loaded, resident, bufferVars, linkVars, records, lastTx>>

UserOpen(a) ==
  /\ link # "closed" /\ ~loaded[a]
  /\ loaded' = [loaded EXCEPT ![a] = TRUE]
  /\ UNCHANGED <<resident, dirty, diskVars, bufferVars, linkVars, records, historyVars>>

\* A rollback script puts back an earlier revision of a package file while the
\* asset is out of memory.
RestoreFile(a, content, revision) ==
  /\ ~loaded[a]
  /\ disk' = [disk EXCEPT ![a] = content]
  /\ resident' = [resident EXCEPT ![a] = content]
  /\ rev' = [rev EXCEPT ![a] = revision]
  /\ UNCHANGED <<loaded, dirty, lastRev, savedTx, bufferVars, linkVars, records, historyVars>>

UserPlay ==
  /\ "play" \in UserActions
  /\ link # "closed"
  /\ link' = IF link = "playing" THEN "available" ELSE "playing"
  /\ UNCHANGED <<session, memoryVars, diskVars, bufferVars, records, historyVars>>

\* The Editor exits or crashes: everything unsaved is gone.
EditorExit ==
  /\ "restart" \in UserActions
  /\ link # "closed"
  /\ link' = "closed"
  /\ loaded' = [a \in Assets |-> FALSE]
  /\ resident' = disk
  /\ dirty' = [a \in Assets |-> FALSE]
  /\ undo' = <<>>
  /\ redo' = <<>>
  /\ records' = [a \in Assets |-> {}]
  /\ tainted' = [a \in Assets |-> FALSE]
  /\ UNCHANGED <<session, diskVars, lastTx>>

\* A new process writes a new bridge descriptor with a new session id.
EditorStart ==
  /\ link = "closed"
  /\ session < MaxSessions
  /\ link' = "available"
  /\ session' = session + 1
  /\ UNCHANGED <<memoryVars, diskVars, bufferVars, records, historyVars>>

User ==
  \/ \E a \in Assets, t \in Targets, v \in Values : UserEdit(a, t, v)
  \/ UserUndo
  \/ UserRedo
  \/ \E a \in Assets : UserSave(a) \/ UserOpen(a)
  \/ \E a \in Assets, c \in Contents, r \in 0..lastRev :
       "restore" \in UserActions /\ RestoreFile(a, c, r)
  \/ UserPlay
  \/ EditorExit
  \/ EditorStart

-----------------------------------------------------------------------------
(* The bridge under any authenticated client                               *)

BridgeApply(a, t, v, previous) ==
  ApplyChanged(a, t, v, previous) \/ ApplyUnchanged(a, previous)

Bridge ==
  \/ \E a \in Assets, t \in Targets, v \in Values, p \in 0..lastTx :
       BridgeApply(a, t, v, p)
  \/ \E a \in Assets, id \in 1..lastTx, redoable \in BOOLEAN :
       RevertWrite(a, id, session, redoable)
  \/ \E a \in Assets : SaveAsset(a) \/ PrepareDiskRollback(a) \/ PrepareDiskRollbackFails(a)

EditorNext == Bridge \/ User

EditorSpec == EditorInit /\ [][EditorNext]_editorVars

-----------------------------------------------------------------------------
(* Properties                                                              *)

\* A package the Editor shows as clean has on disk what it has in memory,
\* unless the bridge undid a write that a save had already persisted.  The
\* bridge sets the Dirty flag by hand after every Undo (SetDirtyFlag), so this
\* relates the flag, the Undo buffer, the records and the disk over any mix of
\* agent writes, user edits, saves and undos.
CleanMeansSaved ==
  \A a \in Assets : ~dirty[a] /\ ~tainted[a] => resident[a] = disk[a]

\* The agent never builds on the user's unfinished work.  When a write is
\* accepted on a dirty package (a continued chain), everything the Undo buffer
\* holds for that asset above the oldest retained agent write is agent work: a
\* user edit in between would be swept into the agent's chain, its authorized
\* save and its Undo.
ChainSparesUserEdits ==
  [][\A a \in Assets, t \in Targets, v \in Values, p \in TxIds :
       ApplyChanged(a, t, v, p) =>
         \A i \in 1..Len(undo), r \in records[a] :
           dirty[a] /\ undo[i].asset = a /\ undo[i].id > r.id => undo[i].agent]_editorVars

\* The bridge's refusal "The target package was saved after the live write; the
\* write can no longer be undone", and the same promise in the specification
\* of the bridge: no Undo or Discard reverts a write that is already on disk.
SavedWritesAreNotUndone ==
  \A a \in Assets : ~tainted[a]

=============================================================================
