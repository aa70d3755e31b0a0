# Verification of UE Agent Kit

UE Agent Kit lets an AI agent change assets of a running Unreal Editor. An MCP
server written in Python plans a change, sends it to a bridge inside the
Editor, has the result saved under an explicit authorization, verifies the saved
file in an independent Unreal process, and can undo what it did at every stage.
The user keeps working in the same Editor all the time.

This directory holds TLA+ models of the parts of that system whose correctness
depends on order: who wrote, undid or saved first, what a crash left behind,
which record still speaks the truth. TLC checks them on small instances and
TLAPS proves theorems about them for all instances.

## 1. The system

Paths are relative to the repository; `py/` stands for `src/ue_agent_kit/` and
`cpp/` for `Plugin/UEAgentKit/Source/UEAgentKitEditor/Private/`.

| Component | State | Operations | Talks to | Hard part |
|---|---|---|---|---|
| Editor bridge, live writes (`cpp/EditorBridgeWriteHandlers.cpp`, `EditorBridgeSaveHandlers.cpp`, `EditorBridgeNavigationHandlers.cpp`, `LiveWriteTransaction.cpp`) | `LiveWriteTransactionRecords` per asset; the engine's Undo buffer, Dirty flags, loaded objects, package files | apply, undo, discard, save one asset, unload for a rollback | server (JSON over a socket), user (same Editor) | the user edits, undoes, redoes, saves and plays between any two requests; one global Undo buffer for all assets |
| Live-write workflow (`py/workflow_live.py`, `workflow_plan.py`, `workflow_verify.py`, `workflow_common.py`) | live records, change sets, checkpoints, authorizations, backups, each with journal files | apply, undo, discard, save preview and commit in two modes, verify, promote manifest, roll back | bridge, file system, Unreal commandlets | several records per fact, written one after the other; server or Editor restarts; answers that are lost |
| Change sets (`py/change_sets.py`) | ordered operations with statuses | bind, update, derive a status, reconcile, prune | all workflow tools | a status is only as good as the last reconciliation |
| Freshness and snapshots (`py/freshness.py`, `workflow_batch.py`, `snapshot_lifecycle.py`, `index_snapshot.py`) | frozen index generation, active pointer, assets marked stale | inspect, mark after a save or rollback, refresh and publish a generation | workflow, SQLite, export tree | a saved asset differs from the index until refresh and restart; publishing is several file operations |
| Patch workflow (`py/workflow_plan.py` 86-715, `patches.py`, `backups.py`) | plans, Dry Run and Apply receipts, manifests | plan, Dry Run, Apply, verify, roll back, in commandlets | file system, Unreal processes | one-time receipts; failure between safety copy and restore |
| Batches (`py/bounded_batch.py`, `checkpoint_sets.py`, `batch_recovery.py`) | batch plans, executions, checkpoint sets, recoveries on disk | apply, save, verify and recover several assets in order | workflow tools | partial failure; resuming after a crash |
| Batch tasks (`cpp/EditorBridgeBatchTaskManager.cpp`, `py/realtime_tasks.py`) | one task in the Editor: a position in the world and what it counted | start, tick, poll, cancel | bridge ticker | the user changes the world between two slices; a task nobody can cancel |
| Source control (`py/source_control.py`) | one cached answer about the provider | prepare a write, prepare a changelist, resolve text files | Perforce server, user and other users of the depot | many commands per tool and facts read at the start; commands that time out after they ran |
| Bridge client (`py/editor_bridge.py`) | descriptor, one connection per call | call with time limit | bridge | an answer later than the limit |
| Project memory, mounts (`py/project_memory.py`, `memory_*.py`, `memory_mount/`, `active_work.py`) | events, records with statuses, staged proposals | capture, distil, add, supersede, validate; propose, review, publish | SQLite file shared by processes, report files | one record per transaction, reads outside of transactions, processes that die |
| Layout broker (`py/layout_broker/`) | remembered request ids, rate window, one job | answer a preview request, one at a time | Editor plugin, client | a job that outlives its deadline; replayed ids |
| Graph contracts (`py/graph_contracts/`) | record and lock per idempotency key, recovery marker | plan, apply and compensate a graph patch | graph tools | operations that build on one another and fail; retries by several processes |
| Animation, retarget, diagnosis tools | executions of the tools above | multi-step fixes | workflow tools | same as batches |
| Index, queries, registration, CLI, web, scripts | read-only index | build, query, start | everything | none beyond data |

The core of the program is the first three rows and the part of the fourth that
decides whether an asset may be touched; they are modelled in most detail, over
one common Editor. The other components are modelled by themselves. They meet in
one place: a patch a task commits becomes an operation of its change set. So
`LiveWorkflow` has the records of committed patches as well, while what a patch
does to its file is in `PatchCommits`.

**What makes them correct**

* Bridge: the Dirty flag, set by hand after an undo, never hides unsaved work;
  an agent's chain of writes never swallows a user's edit; a revert never
  reaches below a save.
* Workflow: every unsaved agent write has a record by which it can be saved or
  undone; a checkpoint says what the file holds; a permitted rollback destroys nobody's
  later work; a crash between
  two journal writes never invents or revives a write.
* Change sets: operations only move forward; a finished task stays finished.
* Batches: what a batch wrote is saved, taken back or reported, across crashes
  between any two calls.
* Patches: what the user saved survives failures, retries and late processes.
* Generations: the active pair is whole, a running session's pair never changes,
  and a refresh keeps the earlier ones.
* Source control: no tool overwrites local work or claims a move it has not seen.
* Graph patches: a failed patch leaves the graph as it was; a key takes effect
  once.
* Project memory: an event that counts as distilled has left its records, and
  contradicting records are marked.
* Batch tasks: every task ends; a full scan counts each actor once; a report
  stays as the client saw it.

## 2. Modules

| Module | Models | Extends |
|---|---|---|
| `LiveEditor` | the Editor and the bridge's handlers under any client and any user | |
| `LiveEditorMC` | instances | `LiveEditor` |
| `LiveEditorProofs` | invariant and theorems | `LiveEditor` |
| `ChangeSets` | statuses and their derivation | |
| `OperationLifecycle` | what a change set promises, abstractly | `ChangeSets` |
| `LiveWorkflow` | the MCP server's live-write workflow over one Editor | `LiveEditor`, `ChangeSets`; refines `OperationLifecycle` |
| `LiveWorkflowMC` | instances, symmetry | `LiveWorkflow` |
| `LiveWorkflowProofs` | what each tool does to the server's records; types, the Editor under the workflow, checkpoints | `LiveWorkflow`, `LiveEditorProofs` |
| `LiveHistoryProofs` | the change sets' histories: the refinement, the agreement with the Editor, replaced writes | `LiveWorkflowProofs` |
| `LiveWriteBatch` | a batch of live writes, its checkpoint set, verification and recovery | `LiveEditor` |
| `LiveWriteBatchMC` | the batch of the runs | `LiveWriteBatch` |
| `LiveWriteBatchProofs` | invariant and theorems | `LiveWriteBatch`, `LiveEditorProofs` |
| `BatchScan` | the Editor's batch task against a user who changes the world | |
| `BatchScanProofs` | invariant and theorems | `BatchScan` |
| `SourceControl` | the Perforce tools against a user and a shared depot | |
| `Snapshots` | index generations, the active pointer and sessions of several servers | |
| `PatchCommits` | plan, Dry Run, commit and rollback of a patch by processes of their own | |
| `GraphPatch` | one graph patch: order, validation, application, compensation | |
| `GraphIdempotency` | records, locks and marker around graph patches of several processes | |
| `LayoutBroker` | the broker's accept thread, job slot, replay memory and rate window | |
| `ProjectMemory` | events, their distillation, records and validations by several processes | |
| `GraphContractProofs` | invariants and theorems about keys and compensation | `GraphIdempotency`, `GraphPatch` |
| `ServerStateProofs` | invariants and theorems about what servers remember; the theorem about `OperationLifecycle`; all components side by side | `ServerMC`, the proofs of its components |
| `CommitProofs` | invariants and theorems about what a tool takes from the user | `PatchCommits`, `SourceControl` |
| `ServerMC` | one behaviour per component that shares no state with the others | `OperationLifecycle`, `BatchScan`, `SourceControl`, `Snapshots`, `PatchCommits`, `GraphPatch`, `GraphIdempotency`, `LayoutBroker`, `ProjectMemory` |

### LiveEditor

The state is the Editor's: which assets are loaded, their content in memory and
in the package file, the Dirty flag, the revision of the file (a number where
the code has a SHA-256), the Undo buffer and the redo stack, and the bridge's
records. A transaction carries the asset's whole content before and after, since
the engine restores objects and not single values. Bridge requests run on the
game thread, so each handler is one action:

| Action | Handler |
|---|---|
| `ApplyChanged`, `ApplyUnchanged` | `TryApplyAssetPropertyLiveResult` with `RunLiveWriteTransaction`; a rejected value, an equal value and a failed compile all restore the snapshot and cancel the transaction, but the old records of a clean asset have been dropped by then |
| `RevertWrite` | `RevertLiveWriteTransaction`, for undo (can be redone) and discard |
| `SaveAsset` | `TrySaveAuthorizedAssetResult` |
| `PrepareDiskRollback`, `PrepareDiskRollbackFails` | `TryPrepareAssetForDiskRollbackResult` |
| `UserEdit`, `UserUndo`, `UserRedo`, `UserSave`, `UserOpen`, `UserPlay`, `EditorExit`, `EditorStart`, `RestoreFile` | the user, the engine and the rollback script, as far as the handlers depend on them |

The user's actions are outside the repository. After Ctrl+Z and Ctrl+Y the
engine may or may not count the package as clean when its content equals the
file, so the model lets it choose. `savedTx`, `tainted` and the `agent` field of
a transaction are history: no action reads them.

Not in the model: the write operations' own value conversions, asset classes and
policies (a write is a target and a value), and snapshots that fail to restore.

### ChangeSets and OperationLifecycle

`ChangeSets` translates `derive_change_set_status` and `is_terminal_change_set`.
Both depend only on the set of statuses that occur, so the operators take a set.
`OperationLifecycle` is the abstract specification: per change set a list of
statuses; each status may move along `Moves`, a list grows at its end by one
operation if the change set is not closed, and only terminal change sets are
forgotten. An operation comes in as applied or no-op when it is a write, and as
saved when it is a committed patch. (`_bind_committed_apply` binds a patch whose
record says so as verified; but a record just made never does.) "Closed" is the code's test for accepting a write; it is weaker than
"not terminal" (see "Also observed").

### LiveWorkflow

`server` is everything the server keeps in memory and in its journals: change
sets (`phase`, `ops`, `bound`), live records (`live`), checkpoints (`cps`) and
authorizations (`auths`). `backups` are the backup directories with their
manifests, `indexRev` the revisions in the active index generation.

* The service holds one lock for a whole call, so a call is one step. Inside it,
  records are changed and journaled one by one; `Finish(m, partial)` ends a step
  either in `m` or, if `"crash" \in Tools`, in any intermediate state in
  `partial` as it is loaded again (`Loaded`): applied operations become unknown,
  authorizations are gone.
* A lost answer (`"lost" \in Tools`) leaves the Editor's effect in place and the
  server without it.
* Every call begins by what the code reads first: `Begun` reconciles the change
  set before a write, and the reconciled statuses stay even when the write is
  then refused by the Editor.
* `Fresh` stands for the comparison of index, revision export and file, and for
  the stale mark an authorized save leaves, as a saved file always gets a new
  revision here. (A save that writes identical bytes is not modelled.)
* A live write is identified by its transaction; plan ids, confirmations and
  digests are not modelled: the caller is assumed to quote them correctly, and
  a wrong quote is refused before anything changes.
* `CommitPatch` is the end of an Apply with a change set: what it writes is a
  package of its own (`OtherPackage`), and `_bind_committed_apply` adds an
  operation without a live record. That the list is full, or that the server dies,
  is noticed after the package is written: the patch is then committed and in no
  change set. `apply` is the server's apply record, kept at the operation it
  decides: it is lost with the server and with its record list, which patches of
  any task fill, so that an earlier one may be dropped at any commit. While it is
  there, the reconciliation goes by it. `VerifyPatch` is the verification of such a
  package, with the change set or without.
* Live records are dropped oldest first, but after a restart their order is that
  of their journals' file names (`Prunings`).
* A rollback recorded on a change set that does not have the write restores the
  file first and then fails.
* `verified` of a live record is not kept: the record is removed in the same
  call. A rollback's Dry Run makes the same tests as its commit and is merged
  with it. Read-only tools (fast verify, semantic diff, trust verdict) are left
  out.
* `RefreshAndRestart` is a refresh together with the restart it requires: until
  it, every further workflow call is refused. A refresh covers one asset.

### BatchScan

`task` is the manager's one task with its position (level, slot) and the actors
it has counted; `slots` and `alive` are the world's levels as the user leaves
them. `StartScanCurrentWorld`, `Cancel`, `Tick` and `BridgeStops` are the
manager's operations.

* A tick reads up to 256 slots within about 2 ms; the time may run out after any
  slot. So a slice is one slot, with the levels the loop passes before and after
  it (`Skipping`): every longer tick is a sequence of these, during which nobody
  else happens to act.
* The user is outside the repository. The engine is assumed to leave a deleted
  actor's slot empty and to append new actors; if it compacted the array between
  two ticks, actors could be missed. Levels loaded after the start are not in
  the task's list and not in the model.
* The task knows its world by an id the engine may give to another world later
  (`WorldIds`), and its levels by weak pointers that cannot confuse worlds.
* `steady` is history: the actors in the world ever since the task started.
* Status is read-only. Component details, totals, limits of the output and paging
  are left out.

### LiveWriteBatch

The batch services call the workflow once per operation or asset and write their
own record after each call, so here a call is a step of its own and the user,
or the end of the server, comes between any two. `exec`, `sets` and `recs` are
`execution.json`, `checkpoint-set.json` and `recovery.json`; `call` is the tool
call in progress and is lost with the server, like `service` (plans and save
authorizations). `place` is history: where the effect of each operation is (in
memory, on disk, nowhere).

| Actions | Code |
|---|---|
| `ApplyBatch`, `ApplyOp`, `ApplyOpUnchanged`, `ApplyOpRefused`, `VerifyOp`, `FinishApply` | `apply_live_write_batch` of `bounded_batch.py` |
| `PreviewSet`, `CommitSet`, `SaveChildBackup`, `SaveChildWrite`, `SaveChildRefused`, `SaveChildPromote`, `FinishSave` | preview and commit of `checkpoint_sets.py` |
| `VerifySet`, `VerifyChild`, `FinishVerify` | aggregate verification |
| `PreviewRecovery`, `CommitRecovery`, `UndoOp`, `PrepareRollback`, `RestoreAsset` and their refusals, `FinishRecovery` | `batch_recovery.py` |
| `ServerCrash`, `UserStep` | the server dies; the user and the Editor of `LiveEditor` |

The commit of one child is split where it leaves the server: backup, save in the
Editor, promotion. The user may act between the last look at memory and the
save. Whatever these services ask of the workflow is translated as far as it
decides whether the call is accepted; `LiveWorkflow` is not extended, since a
batch owns its change set alone.

### SourceControl

`depot` is the server, `client` the workspace, `changes` the pending
changelists; they are outside the repository and behave like Perforce with its
default options: an open file is never overwritten, a form written back with
`change -i` replaces the list of files, binary packages are opened by one client
at a time. Every command may fail, or time out before or after it ran
(`Outcomes`). `call` is the tool's progress with the facts read at its start;
one action per command. A merge that finds its file resolved already has failed,
as its command has. The cached answer about the provider (`cache`) is sticky
as in the code. The status of all files is read in one step, every path is
mapped; the audit file, validation of arguments and the text of a merge are left
out.

### Snapshots

`generations` are the directories with a SQLite index and a Revision Export (a
revision per asset each), `pointer` is `active-snapshot.json`, `configured` the
pair the user's own export and index runs rebuild. A session freezes a copy of
the export and reads the index of the generation it started with. `build` is a
refresh in progress: clone (`CloneExport`), build the index, publish the
directory, move the pointer; each may fail and the server may die between any
two. The dirty check before a refresh, disk space and side files are left out.

### PatchCommits

`disk` and `backups` hold contents by number. `job` are the processes the scripts
start: the commandlet copies, saves and reports (`Copy`, `SavePatched`,
`ReportCommit`) or puts back (`CommitFails`), the rollback copies, replaces and
checks. A script that exceeds its limit is killed (`Timeout`) but its job goes
on, and the session plans anew. `patch` is what the session holds: plan,
receipts, manifest; a commit whose safety copy is of another revision than the
planned one, or that changed nothing, makes no manifest (`ManifestMade`). `spared` is history: what the user saved and may expect to
find again. Verification only reads; the Blueprint commandlet has the same
steps; policy, digests and side files are left out.

### GraphPatch and GraphIdempotency

`GraphPatch` is `simulate_apply` on a graph whose nodes have one input and one
output pin. Any sequence of operations within the bound, with one explicit
dependency, is submitted; `PlanOperation` takes the operations in the order of
the topological sort and validates each against the graph so far; an accepted
plan is applied step by step with its inverses recorded, may fail anywhere, and
`TakeBack` runs the inverses backwards. A node to create is not looked for in the
graph: the code takes its identity from the patch's. A plan that sets a default
after connecting its pin is refused when both operations name the pin in the same
way; names are left out, so it may or may not be. `mark` is position, comment and
bounds, which the semantic hash does not cover; the enabled flag is in it. In the repository patches are applied by tests and candidate
code only.

`GraphIdempotency` is what several processes share: a record per key, a lock file
created with `O_EXCL` that nobody removes after a crash, and the recovery marker.
What an application does is one of three outcomes; the steps are those of the
files.

### LayoutBroker

One request is served at a time; `serving` is how far it is. `jobs` is the
executor, whose worker computes on after the deadline. `seen` is the bounded
memory of ids, which refused requests fill too, `window` the rate limit.
`claims` is history. Framing, authentication and the plan change nothing.

### ProjectMemory

`records` are the records of one subject, and of one more for a rejection, with
status, content, revision and replacement; valid and unverified are one status,
`current`, since no handler here tells them apart. `report` is the report file,
rewritten after every further write; an event remembers the version whose digest
it has. `policy` is what the Policy file says of the rejected operation: a
rejection becomes a rule of the project while it names that Policy, and a known
issue otherwise. `worker` is a process inside a call.

| Actions | Code |
|---|---|
| `CaptureEvent` | `memory_l0.py`: `append_events` |
| `SelectEvents`, `HashArtifact`, `ApplyRule`, `FindRecord`, `CreateRecord`, `MarkDistilled` | `memory_distill.py`: `distill`, for verified writes, rejections and events no rule applies to |
| `AddNote` | `create_memory_record`, with the conflict detection of its transaction (`Created`) |
| `CheckSuperseded`, `WriteSuperseded` | `mark_memory_record_superseded` |
| `ReadBindings`, `CheckStatus`, `WriteStale` | `validate_source_bindings` (mode `sources`) and `invalidate_memory_revisions` (mode `index`) |
| `ProcessDies` | anything uncommitted is gone |

Python's sqlite3 begins a transaction at the first change, so reads before it are
steps of their own.

An event of a change set makes no record. The code has a rule for the operations
such a change set replaced, and takes old and new value and a stable target from
the journal of the live write. The journals the server writes have none of the
three (`_serialize_live_apply_record`, `py/workflow_live.py:63`), and the journal of
a replaced write is deleted at the checkpoint, before the change set that shows it
is captured (`py/workflow_verify.py:543`, 623). The rule then makes nothing and the
event is marked as distilled, which is all the model has of it. The digest test of
a change set's report is a choice. The rule for semantic differences has the shape
of the verified write. Search, knowledge nodes, evidence chains, work items and
mounts are left out.

## 3. Runs

Every run's bounds are in its `.cfg`. `MaxTx`, `MaxRev`, `MaxSessions`, `MaxOps`,
`MaxLive`, `MaxSaves` bound transactions, file revisions, Editor processes,
operations per change set, live records and save receipts; `Tools` and
`UserActions` choose what happens. Deadlock is not checked: at the bounds, and
when the user and the agent both stop, nothing has to happen.

| Run | Instance | Shows |
|---|---|---|
| `editor` | 1 asset, 2 targets, 2 values, 3 transactions, every user action | `CleanMeansSaved`: a clean package is what is on disk; `ChainSparesUserEdits`: continuing a chain takes no user edit into it |
| `workflow_agent` | 1 task, 3 writes, undo, 2 checkpoint saves, Editor restart, refresh | `DirtyPackagesAreAccounted`, `PendingWritesCanBeUndone`, `CheckpointHoldsOnlyItsWrites`: journal, Undo buffer and file agree |
| `workflow_tasks` | 2 tasks and calls without a task on 1 asset, 2 operations each, writes and patches, 1 change-set slot, 1 live record, one save in either mode, lost answers, user saves, Editor restarts | types; `AppliedWritesAreProven`; `FollowsLifecycle`, the refinement of `OperationLifecycle` |
| `workflow_crash` | crashes between any two journal writes, lost answers, undos, discards, rollbacks, user edits, undoes and saves | `CheckpointHoldsItsWrites`, `SupersededNeverCounts` |
| `batch` | 3 writes over 2 assets (two to one target), 1 checkpoint set, 1 recovery, crashes, lost answers, refusals, user edits and saves, Editor restart | types; `FinishedExecutionAccountsForWrites`, `VerifiedSetHoldsTheBatch`, `RecoveredMeansTakenBack`, `UndoneBeforeUnload` |
| `server` | the components of `ServerMC`, one per behaviour (below) | types and the properties below |

The `server` run checks components that share no state: the value of `part` is
chosen at the start, only that component moves, and the others stay as they
start. One run instead of nine says the same and is read as one report.

| `part` | Instance | Shows |
|---|---|---|
| lifecycle | 1 change set, 3 operations | `FinalReportsStay` |
| scan | 2 levels of up to 2 slots, 2 actors, 1 task, a limit, 2 worlds, every user action | `FullScanCountsEachActorOnce`, `FinalTasksStay`, `EveryTaskEnds` |
| source control | 1 text file and 1 package, 2 tool calls, 2 steps of others, 1 failing command, 1 changelist | `NoLocalWorkLost`, `AnswersOnlyConfirmedMoves` |
| snapshots | 2 servers, 2 assets, 1 save, 2 generations, 2 candidates | `ActivePairIsWhole`, `FrozenPairsNeverChange`, `RefreshKeepsEarlierOnes` |
| patch | 2 processes at a time, 3 scripts, 4 contents, 1 failure, timeout or restart | `UserSavesKept`, `RollbackTakesOnlyTheCommit` |
| graph | 2 nodes, 1 new node, every patch of up to 3 operations | `CompensationRestores` |
| idempotency | 2 processes, 1 key, 2 payloads, 4 calls, 1 crash | `KeyTakesEffectOnce` |
| broker | 3 request ids, 2 remembered, 2 per window, 5 arrivals | `ReplaysAreFarApart`; `BrokerTypeOK` says too that jobs never queue |
| memory | 2 processes, 2 report versions, a rejection and a Policy that comes and goes, 3 notes, 3 captures, notes and other calls, any process may die | `DistilledEventsLeaveRecords`, `ContradictionsAreMarked` |

Why the bounds are enough to be interesting: three writes over two targets give
a chain with one superseded and two effective writes, and an undo in the middle;
two values let a value return to an earlier one; two saves (in `workflow_agent`
and `workflow_crash`) let one happen after an undo, after another save, or by the
user in between; two sessions let a
record outlive its Editor; one slot for two tasks forces pruning, and one live
record forces the oldest to be dropped. Two operations in `workflow_tasks` let a
write follow a patch, a patch follow a write, and one find its list full; that
longer lists hold nothing else is said by the theorem. In `batch` the first and last operation
are no-ops for one of the two initial contents, and two assets let a failure
leave one saved and one not. Two servers or processes are enough to overtake one
another between any two steps, and one fault is enough to leave every half-done
state behind; the calls that follow it are within the bounds. Three operations
let a graph patch create a node, use it and fail. Three records of one subject
let a contradiction meet two that are marked already. Each property has a mutant of the code
(a dropped guard, a missing reset, an older record left behind) that makes its
run fail, so each of these cases does occur.

Where a run leaves something out, the property would be false with it, and
rightly or knowingly so:

* `workflow_agent` has no user edits: they make a package dirty without a live
  record, and Ctrl+Z takes a write from the Undo buffer. It has no lost answers
  for the same reason.
* `workflow_tasks` has no user edits or Ctrl+Z: finding 1 moves a saved package
  back under an older write, and an operation shown as undone can be shown as
  verified afterwards. It has no crashes and no recorded rollbacks, which let a
  terminal operation move (finding 2 and the first item of "Also observed").
* `RefreshKeepsEarlierOnes` speaks of refreshes no other server overtook: two
  servers that refresh from the same generation lose the earlier refresh.
* `UserSavesKept` and `RollbackTakesOnlyTheCommit` leave out what the user saves
  while a process is between its copy and its end ("Also observed").
* The source control part of `server` makes no claim on which files move; finding 6.
* `workflow_crash` has no immediate save: it marks the latest live record of the
  asset, which after a crash inside a checkpoint may be one of a superseded write.
  What such a crash leaves can still be undone or discarded, and
  `SupersededNeverCounts` allows both statuses: neither counts.

Fairness is assumed for the scan only, and only for `Tick`: the bridge
registers a ticker that the engine calls every 0.01 s as long as the bridge runs
(`cpp/EditorBridge.cpp:518`). Neither clients nor the user nor the clock have to
act. In the program levels are unbounded, and the deadline ends a scan that
cannot catch up with a user who adds actors; here `MaxSlots` does, so that the
clock is not needed. All other properties are safety properties.

### Findings

Six runs show that the program does not do what a document, a message or a
comment of the repository says. Each checks one property.

1. `editor_saved`, `SavedWritesAreNotUndone`: the bridge undoes a write that is
   on disk. It takes a clean package for the only sign of a save, but undoing a
   later write makes a saved package dirty again.
   (`cpp/EditorBridgeWriteHandlers.cpp:507`)
2. `workflow_undone`, `TerminalOperationsStay`: a rollback recorded on a change
   set sets the operation to undone; the next reconciliation reads the live
   record, which is still marked saved, and sets it back to saved.
   (`py/workflow_verify.py:1262`)
3. `workflow_finish`, `AppliedOperationsCanBeFinished`: an immediate save persists
   all pending writes of the asset and marks the latest; the others stay applied
   and can never be finished. (`py/workflow_verify.py:926`)
4. `workflow_manifest`, `RollbackSparesLaterSaves`: a rollback manifest takes over
   whatever revision the file has when it is made, so the rollback may throw away
   a later save by the user. (`py/workflow_verify.py:1037`)
5. `batch_recovery`, `RecoveredLeavesNoWrite`: a server that dies in the middle of
   an apply leaves an execution without a recovery order; its recovery undoes
   nothing and reports the batch as recovered. (`py/batch_recovery.py:221`)
6. `source_control_form`, `OnlyGivenFilesMove`: the description update writes back
   a form read earlier, and takes out of the changelist what the user has moved
   into it since. (`py/source_control.py:1759`)

### Also observed

The model, or writing it, shows more behaviours that no document speaks about, so
no run refutes anything with them:

* A crash between the two journal writes of an undo leaves the undone write's
  live record behind, and reconciliation shows the operation as applied again
  (`py/workflow_live.py:529`).
* A change set with one undone and one discarded operation is terminal in every
  operation but derives `partially_applied`, and takes another write
  (`py/workflow_live.py:229`).
* At 128 live records the oldest is dropped even when it is pending; its operation
  is shown as unknown afterwards (`py/workflow_common.py:1200`).
* `actorLimitReached` compares the slots read with the number of slots at the
  start of the scan. After the user has added actors, a scan that stopped at its
  limit can report that it did not (`cpp/EditorBridgeBatchTaskManager.cpp:209`).
* A scan whose world was replaced by one with a reused id finds its levels gone
  and reports completed instead of invalidated
  (`cpp/EditorBridgeBatchTaskManager.cpp:157`); `OpenWorld` allows it.
* A checkpoint set whose server dies in state `saving` has no `persistedAssets`;
  the operations it did save are treated as unsaved by the recovery
  (`py/checkpoint_sets.py:524`). A recovery that dies in state `recovering`
  cannot be resumed (`py/batch_recovery.py`).
* A commit of a patch does not ask whether the package is open in an Editor: a
  later save from memory overwrites the patch. The commandlet reports as its
  result whatever the package is after its save, so that a save of the user in
  between is rolled back with it (`cpp/AssetPatchCommandlet.cpp:2248`). A rollback
  that finds another package than the one it put there restores its safety copy
  over it (`py/backups.py:788`), and one whose verification fails leaves the disk
  rolled back and the patch recorded as applied.
* The recovery marker of a graph asset is read while the patch is planned, before
  the key is reserved (`py/graph_contracts/graph_patch.py:783`); a mark that meets
  a held lock leaves the record reserved for good.
* In source control a changelist whose creation times out is left behind, a
  failed preview of a resolve is reported as already resolved, and the answer
  `submit_ready` does not look at unresolved files.
* A broker's restart forgets the ids it has seen, and its clean-up reads the
  descriptor before it unlinks it, so that it may remove a newer broker's.
* A record's status is read before the transaction that makes it stale, so a
  record superseded in between becomes stale again, although
  `spec/PROJECT_MEMORY.md:134` calls superseded terminal
  (`py/project_memory.py:775`). Two processes that supersede two records by one
  another at the same time make a cycle.
* An artifact is read twice, for its digest and for its content
  (`py/memory_distill.py:329`, 338): a report rewritten in between leaves a record
  of the older event with the newer revision. An event whose report has been
  rewritten stays pending for good, and a distillation takes the oldest 100, so
  that enough of them keep all later ones from being distilled.
* No replaced operation of a change set ever gets its record, although there is a
  rule for it: the journals do not hold what the rule reads (section 2).
* A change set that is full is told so only after the patch is on disk: the answer
  is an error, and the patch is in no change set (`py/workflow_plan.py:1197`).

## 4. Proofs

TLAPS checks the following for every value of the constants that satisfies the
named assumptions in the modules.

`LiveEditorProofs`. Neither `CleanMeansSaved` nor `ChainSparesUserEdits` is
inductive: an undo restores the Dirty flag a record remembers, and whether that
is honest depends on what the Undo buffer holds and on the saves since. The
inductive invariant `EditorInv` is the conjunction of

* `EditorTypeOK`;
* `IdsBounded`: every identifier in the buffers and the records has been given
  out, so a new transaction is newer than all of them;
* `BufferOrder`: the Undo buffer, and the redo entries on top of it, are in the
  order of their identifiers, so that "on top" means "newest";
* `CleanMeansSaved`;
* `FirstWriteRestoresDisk`: if a record says its package was clean before the
  write, and the write has not been saved since (`savedTx`) nor mixed with a
  user's change (`tainted`), then the content its transaction goes back to is the
  content on disk;
* `NoUserEditInsideChain`: no user edit of an asset lies between two of its
  retained agent writes.

`EditorInvariant` proves it inductive, action by action; a revert that makes the
package clean is where `FirstWriteRestoresDisk` is needed, and a write that
continues a chain is where `BufferOrder` and `NoUserEditInsideChain` are. Proved along
with it is `UnloadedHasNoRecords` (an asset out of memory has no record), which
restoring a package file relies on.
`EditorTypeCorrect`, `CleanPackagesAreSaved` and `ChainsSpareUserEdits` follow.
The assumptions on the constants are named in `LiveEditor`.

`SavedWritesStayWithoutHistorySteps` is the other side of the violation run
`editor_saved`: with Ctrl+Z or Ctrl+Y, below a save, the bridge may undo what is on disk; as long
as the user leaves both alone, it never does (`SavedWritesAreNotUndone` is a
theorem). The bridge only reverts the newest transaction of a dirty package, so the
invariant `RecentInv` has to say why that one is unsaved: a dirty package whose
transactions are still in the buffer has an unsaved one there (`DirtyIsRecent`),
also below a write that continued a chain (`ChainIsRecent`), because the flag that
write restores is the one it found.

`FinalReportsAreFinal`, in `ServerStateProofs`: a status a change set is
finally reported under never changes. The argument is on the set of statuses:
final statuses allow only terminal operations (one lemma per derived status),
terminal operations do not move, and a change set in a final status is closed,
so it does not grow, by writes or by patches. Since `LiveWorkflow` implements `OperationLifecycle` in
`workflow_tasks`, the same holds there.

`BatchScanProofs`. `FullScanCorrect` needs to know at every moment which actors
have been counted already. The inductive invariant `ScanInv` says: an actor that
has been there all the time is counted exactly once if its slot lies before the
task's position, and not at all otherwise (`Counting`). That it survives the
user's steps rests on `SingleSlot` (an actor lies in one slot, and stays there);
that it survives skipping rests on `UnloadedIsEmpty` and, when the world was
replaced, on `SteadyIsInWorld`. When the position is past the last level, every
steady actor lies before it. `FinalTasksStayFinal` needs of the types that the
task is always the last one started, so that a new task has a new identifier.
`EveryTaskEnds` is a liveness property and only model-checked.

`GraphContractProofs`. That a key takes effect once does not follow from the lock,
which is free while a patch is applied and held for ever after a crash. The
inductive invariant `IdempotencyInv` makes the reservation carry the ownership:
the record of a process between its reservation and its mark is that reservation
(`OwnersHoldReservations`), no two processes own a key (`OneOwnerPerKey`), and a
key that can be reserved, or whose owner has not run yet or has failed, has had
no effect (`FreshKeysHaveNoEffect`). For compensation, `GraphInv` holds on to the
chain of graphs the plan went through (`Turns`): what is applied is valid in that
chain although it is validated only once, and every inverse leads back one link
(`LeadBack`). That a node to create is not there is what validation does not ask
(`CreatedOnce`, `CreatedSoFar`): a patch creates it once and nothing else adds it. Its core is a lemma per operation type: on a graph whose edges join
its nodes, the recorded inverse of a valid operation restores the graph exactly,
`mark` included. Assumed are finite bounds, and for the keys that there is a key
and a payload. `GraphTypeCorrect` bounds the plan and the inverses by
the patch: an operation is planned at most once (`DoneOnce`), so there are never more of
either than operations (`DoneFits`).

`ServerStateProofs`. Three independent parts, and all components side by side.

* Broker: `BrokerInv` says what `seen` is, the last claims in their order
  (`RemembersLastClaims`); an id that is let through is not among them, so its
  last claim lies `MaxSeen` back.
* Generations: the pointer may name a directory that another server is still
  writing unless directories have owners. `BuildsOwnDirectories` says that a build's
  generation is not named by the pointer, by a session or by another build until
  it moves the pointer; `BuildsAreConsistent` what the copy holds after each step,
  relative to the generation the session started with; `SessionsStartAtPointer`
  that this is the active one unless another server moved it. `RevisionsFit` and
  the bound on used identifiers keep revisions and names in their types.
* Memory: `RulesFitTheirEvents` says of a process at work what the rule made of its
  event, and that a process about to mark the event has found a record with the
  content it derived itself, or has written it. It survives the other processes
  because they never remove a record nor change what it says, only its status. The
  report and the Policy may change at every step; what a record says is then older
  than the files, but whole.
  `ContradictionsAreMarked` is inductive together with
  `SupersessionsAreChecked`: a record leaves the active ones, and never comes back
  to them unmarked.
* `ServerRunsItsComponents` makes precise that the run `server` checks each component
  and nothing else: its specification implies the specification of every component,
  because each moves by its own steps or stutters (of the scan, only the safety part is
  taken over). So all that is proved of the components one by one, in this module,
  `BatchScanProofs`, `CommitProofs` and `GraphContractProofs`, holds of them together, and `ServerTypeCorrect` follows from
  their type invariants.

`CommitProofs`. Two parts.

* Patches: contents are numbered as they appear, and the user's spared saves are
  compared with these numbers. `CopiesCoverSaves`: while a process may still write,
  everything spared is in a backup and not newer than the process's copy, so
  putting the copy back loses nothing. `CommitsSpareSaves`: no spared content lies
  between what a commit replaced and its result, in a running process, in a report
  nobody has read yet and in the session's patch, so a rollback takes only the
  commit. Both hold for processes the server has given up waiting for.
* Source control: a file is exposed when it is edited, closed and still read-only,
  the only case in which p4 would sync over it silently. `SyncsAreSafe`: no file on
  the list of a coming sync is exposed. It holds when the list is made because of
  the diff before it, and is kept because no step of the user, of others or of
  the tools exposes a file (`Follows`, proved per p4 command). `FilesAreTriedOrFailed`
  is what `AnswersAreConfirmed` needs.

`LiveWriteBatchProofs`. The batch works in the Editor of `LiveEditor`, so its
invariant `BatchInv` contains `EditorInv`, and every batch action is first shown to
be a move of the Editor (`EditorMove`) that keeps it. The records on disk are then
related to the Editor in four parts.

* `SavedWritesAreCovered`: the undo of a write the user has saved in between must be
  refused, or the recovery would count as undone what is still on disk. In a
  package that is dirty again, something that is not the agent's lies above
  such a write in the Undo buffer, and the bridge undoes only the top.
* `ExecutionPart`: every write that took effect is in the execution record or is the
  one whose answer is being verified (`WritesAreKnown`); an execution ends with its
  recovery order (`ExecutionAdvances`); the transaction of a write on disk is not
  newer than the save that put it there (`TransactionsArePast`).
* `SetPart`: only saved children count as persisted and only verified ones as
  checked (`SetFits`), also between the calls of one save or verification
  (`SetCallFits`); a written child has no write of the batch left in memory, and the
  file of a verified child holds the set's writes for as long as the package has the
  revision of the checkpoint (`SetIsTrue`). A save gives out a new revision and a
  rollback restores the one of the index, which is why an old checkpoint never
  matches by accident.
* `RecoveryPart`: what a recovery has noted as undone or restored is nowhere any
  more, and a running one has every other write of the order on its list.
  Packages are unloaded only when all children it restores are out of memory.

`BatchInvariant` proves the conjunction inductive, one lemma per action. Frame lemmas
(`ExecutionFrame`, `SetFrame`, `RecoveryFrame`, `OneSetChanges`, `OneRecoveryChanges`)
say which part of the Editor each part of the invariant depends on. All five properties
that the passing run `batch` checks follow. `RecoveredBatchesLeaveNoWrite` is the other side of
the violation run `batch_recovery`: where no answer is lost and the server does not die,
`RecoveredLeavesNoWrite` is a theorem. An apply then runs to its end, and what it reports as
failed wrote nothing (`NothingLost`), so the recovery order misses no write.

`LiveWorkflowProofs`. The server is one record that a call changes in several
places, and a crash loads any of the call's intermediate records. The module
therefore says once per operator what becomes of each field (`SetStatusFacts`,
`ReconciledFacts`, `WithCheckpointFacts` and so on), what survives a restart
(`Survives`, `FinishFacts`), and, in one lemma per tool, what the tool does to
checkpoints, authorizations, backups and the length of the lists. `StepsHaveAKind`
brings every step down to seven kinds, over which the invariants are proved.

* `TypedInv`: types; a revision on disk or in a backup was given out before.
* `HeldInv`, for `CheckpointsHoldTheirWrites`: a persisted checkpoint's writes are in
  the file of its revision *and in every backup taken of that revision*, because a
  rollback can bring an old revision back; its receipt and revision are past
  (`CheckpointsArePast`), so that a commit gives out a revision no backup has, and a
  receipt is for one asset. The theorem assumes that the user does not put package
  files back by hand (`"restore"`), as the model lets such a file have any content
  under an old revision.
* `WritesFollowProvenWrites` needs no invariant but the types: only a write or a patch that the
  reconciled change set accepted adds an operation (`OnlyWritesGrow`,
  `GrowthIsAccepted`). It assumes a server that does not crash, for after a crash all
  applied operations are unknown until they are reconciled again.

* `WorkflowDrivesTheEditor` is the composition: the workflow's steps are steps or
  stutters of `LiveEditor`, so the client there stands for the server here. A rollback
  puts a file back, which is the user's `RestoreFile` there; the theorem assumes that the
  user may do so where there is a rollback. `WorkflowKeepsTheEditorsPromises` needs no
  assumption: `CleanMeansSaved` and `ChainSparesUserEdits` hold under every tool.

`LiveHistoryProofs` goes on with what the histories of the change sets say.

* `WorkflowFollowsLifecycle` is the refinement of `OperationLifecycle`: the statuses of
  the change sets' operations, read off the server's record, make its steps. Its
  invariant is `LifecycleInv`. A committed patch is in it as a write that left no live
  record: no evidence but its apply record speaks of its operation, and a type says
  that an unverified record belongs to a saved operation, so that what the
  reconciliation reads from it is where the operation is or the step to verified. That a status only moves on needs to know where the
  reconciliation can find evidence: a receipt belongs to one operation and one
  live record, both for the same asset and target (`OwnReceipts`, `OneWrite`); a live
  record not marked as saved belongs to an open operation (`LiveIsOpen`), or a
  finished one would be opened again; a saved checkpoint's operations count as
  saved (`SavedStay`) *and their transactions are not newer than the package's last
  save* (`SavedIsOnDisk`), so that a revert cannot take them back. The last one is
  kept because, without Ctrl+Z, the bridge's undo never reaches below a save:
  `RecentInv` of `LiveEditorProofs`. That only one finished change set is forgotten at a
  time is a fact about cardinalities (`ListsAreFew`). Each tool is first shown to be
  `Orderly` on the server's record; creating a change set, a write, a patch and a commit are
  the calls that do more, and have lemmas of their own. The theorem assumes what
  `OperationLifecycle` says of itself: no crash inside a call, no disk rollback, no Undo
  or Redo by the user. Without these assumptions the refinement does not hold: a crash
  between the journal and the deletion of a live record reopens an operation.
  `FinishedOperationsStayFinished` has the same assumptions, and is the other side of the
  violation run `workflow_undone`: with them, `TerminalOperationsStay` is a theorem.

* `DirtyPackagesStayAccounted`, `PendingWritesStayUndoable` and
  `CheckpointsHoldOnlyTheirWrites` are about two processes that must agree: the
  server's journal and the Editor's memory, Undo buffer and file. Their invariant
  `AgentInv` says of each side what the other relies on. In the Editor
  (`AgentEditorParts`, in `LiveEditorProofs`): a package is dirty exactly when a
  retained write is newer than its last save (`Pending`), each such write is a
  transaction in the Undo buffer, and content, also the content a transaction would
  bring back, differs from the file only where a pending write went. Between the two
  (`AgentListed`): the unsaved live records of the session are the pending writes
  (`PendingIsLive`, `LiveIsPending`). A checkpoint marks only the writes of its change
  set that count as applied, but the Editor saves the whole package; nothing is
  forgotten because all pending writes of a package belong to one change set
  (`PendingIsOwned`: a dirty package accepts only the write that continues its chain)
  and because it counts all of them as applied or none (`AllOrNoneApplied`). A restart
  makes all of them unknown, one reconciliation makes all of them applied again, and
  a checkpoint of none is refused (`CheckpointsWrite`). That the last write to each target
  is among the effective ones (`LastIsEffective`) then bounds what the file got. All
  three assume `OnlyAgentWrites`, the instance of `workflow_agent`: bound writes, undo
  and discard, checkpoint saves and refreshes; a user who only starts and stops the
  Editor and the play mode; no lost answer and no crash inside a call; and a journal with
  room for every write (`MaxTx <= MaxLive`), for beyond its limit it drops the oldest
  record even when that is pending ("Also observed").

  `AppliedOperationsStayFinishable`, under the same assumptions, is the other side of the
  violation run `workflow_finish`: as long as writes are saved by checkpoints only,
  `AppliedOperationsCanBeFinished` is a theorem. It needs that a live record is of the
  asset its operation is of (`OnTheirAssets`), which is inductive with `LifecycleInv`.

* `ReplacedWritesStayReplaced` proves `SupersededNeverCounts` for a server that may die
  between any two journal writes. A live record that a crash left behind can carry the
  receipt of a superseded write; what keeps it from counting is said by `SupersededInv`:
  such a record is not saved (`SavedIsNotSuperseded`), a saved checkpoint whose file is
  still the one on disk covers nothing superseded (`VerifiableCoverNone`), and the
  records of its writes are on its asset (`SavedOnTheirAssets`). That the next checkpoint
  does not replace them rests on the freshness test: a checkpoint is saved as a revision
  after the one the index describes (`SavedAfterTheIndex`), so the asset is not fresh
  while the file is a checkpoint's. Each tool is shown to be `Steady`, also in every
  state a crash inside it leaves. The theorem assumes no immediate save, no file put back
  by hand, and not both a refresh and a rollback: a rollback to a revision that a
  refreshed index describes makes an old checkpoint verifiable again, together with what
  was replaced after it, and the property is then false.

Each assumption is one of the run that checks the property (no `restore`, no `refresh` and
no `immediate` in `workflow_crash`; no `crash`, no `rollback` and neither Undo nor Redo in
`workflow_tasks`; `OnlyAgentWrites` in `workflow_agent`); everything else a tool, a user
or a fault can do is in the theorems.

Each invariant was a TLC invariant of a small instance before it was proved.

Every safety property of a passing run is a theorem. Only model-checked is
`EveryTaskEnds`, a liveness property under fairness, which is out of the prover's reach.
The properties of the violation runs are false as stated; for four of them the theorems
above say under which conditions they hold (`SavedWritesStayWithoutHistorySteps`,
`FinishedOperationsStayFinished`, `AppliedOperationsStayFinishable`,
`RecoveredBatchesLeaveNoWrite`).

## 5. Plan

No further module and no further proof is planned for the parts that are modelled. What
section 6 lists is where an extension would begin: the memory mounts, the broker's
client and the experimental Blueprint editing keep state of their own.

## 6. Not modelled

Value conversions and the validation of patches, graph layout and animation
algorithms, indexing and queries, code knowledge, tool registration and
formatting: they keep no state between calls that another call could see out of
order. The batch tool for animation scales (`py/animation_scale_fix_batch.py`)
and the retarget workflow run the tools modelled here one after the other under
one lock and keep their state in the session; what they depend on is in
`LiveWorkflow`, their own state machines are not modelled. The staging of memory
mounts, work items, evidence chains and knowledge nodes are not modelled, nor are
the broker's client and descriptor file, the application of layouts and the
experimental Blueprint editing behind its flags. Authentication of
the bridge and path containment are assumed to work. Failing journal writes
(`journalPersisted: false`) are not modelled: a journal write succeeds or the
server dies. In `LiveEditor`, `LiveWorkflow` and `LiveWriteBatch` files change under the server
only by the Editor, a rollback or the user's `restore` action; commandlets that
write by themselves are in `PatchCommits`.
Liveness under fairness, `ENABLED` and induction over data are out of the
prover's reach and stay with TLC.
