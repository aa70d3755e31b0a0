---------------------------- MODULE SourceControl ----------------------------
(***************************************************************************)
(* The Perforce tools of the agent (P4SourceControlService): prepare_write *)
(* syncs and opens files or makes them writable, prepare_changelist moves  *)
(* opened files into a pending changelist, resolve_text merges text files. *)
(*                                                                         *)
(* A tool runs one p4 command after the other and decides from facts it    *)
(* read at the start.  The user and other users of the depot work between  *)
(* two commands, a command may time out before or after the server did it, *)
(* and the agent's server may be restarted.                                *)
(***************************************************************************)
EXTENDS Naturals, FiniteSets

CONSTANTS
  ScFiles,      \* files of the workspace, all mapped into the depot
  Packages,     \* of which binary packages, which one client at a time may open
  MaxHead,      \* bound: revisions of a file
  MaxChanges,   \* bound: changelists ever created
  MaxCalls,     \* bound: tool calls
  MaxOutside,   \* bound: steps of the user and of others
  MaxScFaults   \* bound: commands that fail or time out

ASSUME ScAssumption ==
  /\ Packages \subseteq ScFiles
  /\ MaxHead \in Nat \ {0} /\ MaxChanges \in Nat
  /\ MaxCalls \in Nat /\ MaxOutside \in Nat /\ MaxScFaults \in Nat

ChangeIds == 1..MaxChanges
DefaultChange == 0
NotOpen == MaxChanges + 1
NewChange == 0
Texts == {"task", "other"}

VARIABLES
  depot,     \* head revision of each file, files other users have open
  client,    \* the user's workspace: revisions, opened files, local content
  changes,   \* the changelists of this client
  cache,     \* _provider_cache of the service
  call,      \* the tool call in progress
  lostWork,  \* files whose local edits a sync of the agent overwrote
  left       \* steps still allowed by the bounds

scvars == <<depot, client, changes, cache, call, lostWork, left>>

Clients == [have : [ScFiles -> 1..MaxHead], open : [ScFiles -> 0..NotOpen],
            unresolved : SUBSET ScFiles, edited : SUBSET ScFiles, writable : SUBSET ScFiles]

Calls == [tool : {"none", "write", "changelist", "resolve"},
          step : {"run", "create", "read", "write", "check", "move", "verify", "status", "answer"},
          files : SUBSET ScFiles, sync : SUBSET ScFiles, edit : SUBSET ScFiles,
          override : SUBSET ScFiles, target : 0..MaxChanges, text : Texts,
          listed : SUBSET ScFiles, move : SUBSET ScFiles, tried : SUBSET ScFiles,
          failed : SUBSET ScFiles, package : BOOLEAN]

NoCall == [tool |-> "none", step |-> "run", files |-> {}, sync |-> {}, edit |-> {},
           override |-> {}, target |-> NewChange, text |-> "task", listed |-> {}, move |-> {},
           tried |-> {}, failed |-> {}, package |-> FALSE]

ScTypeOK ==
  /\ depot \in [head : [ScFiles -> 1..MaxHead], others : SUBSET ScFiles]
  /\ client \in Clients
  /\ changes \in [ChangeIds -> [state : {"none", "pending", "submitted"}, text : Texts]]
  /\ cache \in {"unprobed", "up", "down"}
  /\ call \in Calls
  /\ lostWork \subseteq ScFiles
  /\ left \in [calls : 0..MaxCalls, outside : 0..MaxOutside, faults : 0..MaxScFaults]

-----------------------------------------------------------------------------
(* The p4 server: what a command does to the workspace.                    *)

IsOpen(f) == client.open[f] # NotOpen
Behind(f) == client.have[f] < depot.head[f]
LockedByOther(f) == f \in Packages /\ f \in depot.others
Pending(c) == c \in ChangeIds /\ changes[c].state = "pending"
FilesIn(c) == {f \in ScFiles : client.open[f] = c}

\* Without the clobber option p4 refuses to sync a writable file that is not
\* open; an open one keeps its content and must be resolved.
SyncRefused(f) == Behind(f) /\ ~IsOpen(f) /\ f \in client.writable
Synced(f) ==
  IF ~Behind(f) THEN client
  ELSE [client EXCEPT !.have[f] = depot.head[f],
                      !.unresolved = IF IsOpen(f) THEN @ \cup {f} ELSE @,
                      !.edited = IF IsOpen(f) THEN @ ELSE @ \ {f}]
Overwritten(f) == IF Behind(f) /\ ~IsOpen(f) THEN {f} \cap client.edited ELSE {}

EditRefused(f) == ~IsOpen(f) /\ LockedByOther(f)
Edited(f) == [client EXCEPT !.open[f] = IF IsOpen(f) THEN @ ELSE DefaultChange,
                            !.writable = @ \cup {f}]

ReopenRefused(f, c) == ~IsOpen(f) \/ ~Pending(c)

\* A form lists the files of the changelist: files it leaves out go back to the
\* default changelist, and it cannot list files of another numbered one.
FormRefused(c, listed) ==
  ~Pending(c) \/ \E f \in listed : client.open[f] \notin {c, DefaultChange}
FormApplied(c, listed) ==
  [client EXCEPT !.open = [f \in ScFiles |->
     IF f \in listed THEN c ELSE IF @[f] = c THEN DefaultChange ELSE @[f]]]

\* A command is done or refused; with a fault it times out before the server
\* ran it ("failed") or after ("unheard"), and the tool sees an exception.
Outcomes(refused) ==
  (IF refused THEN {"refused"} ELSE {"done"})
    \cup (IF left.faults = 0 THEN {} ELSE {"failed"} \cup (IF refused THEN {} ELSE {"unheard"}))
Ran(o) == o \in {"done", "unheard"}
Raised(o) == o \in {"failed", "unheard"}
Pay(o) == [left EXCEPT !.faults = IF Raised(o) THEN @ - 1 ELSE @]

-----------------------------------------------------------------------------
(* Queries.  One status is read in one step.                               *)

\* Opened files never differ from have for diff -se, and a writable file that
\* does not differ is not called clean.
LocalModified(f, diffOk) ==
  IF diffOk /\ ~IsOpen(f) /\ f \in client.edited THEN "yes"
  ELSE IF diffOk /\ f \notin client.writable THEN "no" ELSE "unknown"

\* The mistake of taking a file diff could not check for a clean one.
SafeSyncPermitted_UnknownIsClean(f, diffOk) ==
  /\ Behind(f)
  /\ ~IsOpen(f)
  /\ LocalModified(f, diffOk) # "yes"
  /\ f \notin client.writable
  /\ ~LockedByOther(f)

SafeSyncPermitted(f, diffOk) ==
  /\ Behind(f)
  /\ ~IsOpen(f)
  /\ LocalModified(f, diffOk) = "no"
  /\ f \notin client.writable
  /\ ~LockedByOther(f)

\* The first command asks for the provider; a failure of it, or of a status
\* later, is remembered as "no provider" until the server restarts.
Probed(ok) == IF cache = "unprobed" THEN (IF ok THEN "up" ELSE "down") ELSE cache
Queries == IF left.faults = 0 THEN {TRUE} ELSE {TRUE, FALSE}
PayQuery(ok) == [left EXCEPT !.faults = IF ok THEN @ ELSE @ - 1]
AfterStatus(ok) == IF ok THEN cache ELSE "down"

\* An info that fails at the start of a call: the tool answers "unavailable".
ProbeFails ==
  /\ call = NoCall /\ cache = "unprobed" /\ left.faults > 0
  /\ cache' = Probed(FALSE)
  /\ left' = PayQuery(FALSE)
  /\ UNCHANGED <<depot, client, changes, call, lostWork>>

Begins == call = NoCall /\ left.calls > 0 /\ cache # "down"
Paid(ok) == [PayQuery(ok) EXCEPT !.calls = @ - 1]

\* Every tool ends with a status of the files it was given.
Answers(tool) ==
  /\ call.tool = tool
  /\ \E ok \in Queries : cache' = AfterStatus(ok) /\ left' = PayQuery(ok)
  /\ call' = NoCall
  /\ UNCHANGED <<depot, client, changes, lostWork>>

-----------------------------------------------------------------------------
(* prepare_write                                                           *)

\* The initial status fails, or sorts the files: those to sync first, those to
\* open, and those a local override may be applied to.
BeginPrepareWrite(files, override, safeSync) ==
  /\ Begins
  /\ \E ok, diffOk \in Queries :
       /\ ~ok => diffOk
       /\ cache' = IF ok THEN "up" ELSE "down"
       /\ left' = Paid(ok /\ diffOk)
       /\ LET closed == {f \in files : ~IsOpen(f)}
          IN call' = IF ~ok THEN NoCall ELSE
               [NoCall EXCEPT
                  !.tool = "write", !.files = files,
                  !.sync = {f \in closed : safeSync /\ SafeSyncPermitted(f, diffOk)},
                  !.edit = {f \in closed : ~Behind(f)},
                  !.override = {f \in closed : override /\ f \notin client.writable}]
  /\ UNCHANGED <<depot, client, changes, lostWork>>

SyncFile(f) ==
  /\ call.tool = "write" /\ f \in call.sync
  /\ \E o \in Outcomes(SyncRefused(f)) :
       /\ client' = IF Ran(o) THEN Synced(f) ELSE client
       /\ lostWork' = IF Ran(o) THEN lostWork \cup Overwritten(f) ELSE lostWork
       /\ call' = [call EXCEPT !.sync = @ \ {f},
                               !.edit = IF o = "done" THEN @ \cup {f} ELSE @]
       /\ left' = Pay(o)
  /\ UNCHANGED <<depot, changes, cache>>

EditFile(f) ==
  /\ call.tool = "write" /\ call.sync = {} /\ f \in call.edit
  /\ \E o \in Outcomes(EditRefused(f)) :
       /\ client' = IF Ran(o) THEN Edited(f) ELSE client
       /\ call' = [call EXCEPT !.edit = @ \ {f},
                               !.override = IF o = "done" THEN @ \ {f} ELSE @]
       /\ left' = Pay(o)
  /\ UNCHANGED <<depot, changes, cache, lostWork>>

\* make_local_writable: the read-only flag goes, p4 is not told.
OverrideFile(f) ==
  /\ call.tool = "write" /\ call.sync = {} /\ call.edit = {} /\ f \in call.override
  /\ client' = [client EXCEPT !.writable = @ \cup {f}]
  /\ call' = [call EXCEPT !.override = @ \ {f}]
  /\ UNCHANGED <<depot, changes, cache, lostWork, left>>

AnswerPrepareWrite ==
  /\ call.sync \cup call.edit \cup call.override = {}
  /\ Answers("write")

-----------------------------------------------------------------------------
(* prepare_changelist                                                      *)

\* Which files to move follows from the initial status.  A failed status leaves
\* no file to move and does not keep the changelist from being made or changed.
BeginPrepareChangelist(files, target, text, package) ==
  /\ Begins
  /\ target = NewChange => \E c \in ChangeIds : changes[c].state = "none"
  /\ \E ok \in Queries :
       /\ cache' = IF ok THEN "up" ELSE "down"
       /\ left' = Paid(ok)
       /\ LET open == IF ok THEN {f \in files : IsOpen(f)} ELSE {}
          IN call' = IF target # NewChange /\ ~Pending(target) THEN NoCall ELSE
               [NoCall EXCEPT
                  !.tool = "changelist",
                  !.step = IF target = NewChange THEN "create"
                           ELSE IF changes[target].text # text THEN "read" ELSE "move",
                  !.files = files, !.target = target, !.text = text, !.package = package,
                  !.move = IF target = NewChange THEN open
                           ELSE {f \in open : client.open[f] # target},
                  !.tried = open, !.failed = files \ open]
  /\ UNCHANGED <<depot, client, changes, lostWork>>

\* An answer that does not arrive, or a new changelist that cannot be read back,
\* ends the call; the changelist may exist.
CreatePendingChangelist ==
  /\ call.tool = "changelist" /\ call.step = "create"
  /\ \E c \in ChangeIds :
       /\ changes[c].state = "none" /\ \A d \in 1..(c - 1) : changes[d].state # "none"
       /\ \E o \in Outcomes(FALSE) :
            /\ changes' = IF Ran(o) THEN [changes EXCEPT ![c] = [state |-> "pending", text |-> call.text]]
                          ELSE changes
            /\ call' = IF o = "done" THEN [call EXCEPT !.step = "move", !.target = c] ELSE NoCall
            /\ left' = Pay(o)
  /\ UNCHANGED <<depot, client, cache, lostWork>>

InUpdate(step) == call.tool = "changelist" /\ call.step = step

\* _update_changelist_description: read the form, write it back with the new
\* text, read it again.
ReadForm ==
  /\ InUpdate("read")
  /\ \E ok \in Queries :
       /\ call' = IF ok /\ Pending(call.target)
                  THEN [call EXCEPT !.step = "write", !.listed = FilesIn(call.target)] ELSE NoCall
       /\ left' = PayQuery(ok)
  /\ UNCHANGED <<depot, client, changes, cache, lostWork>>

WriteForm ==
  /\ InUpdate("write")
  /\ \E o \in Outcomes(FormRefused(call.target, call.listed)) :
       /\ client' = IF Ran(o) THEN FormApplied(call.target, call.listed) ELSE client
       /\ changes' = IF Ran(o) THEN [changes EXCEPT ![call.target].text = call.text] ELSE changes
       /\ call' = IF o = "done" THEN [call EXCEPT !.step = "check"] ELSE NoCall
       /\ left' = Pay(o)
  /\ UNCHANGED <<depot, cache, lostWork>>

CheckForm ==
  /\ InUpdate("check")
  /\ \E ok \in Queries :
       /\ call' = IF /\ ok /\ Pending(call.target)
                     /\ changes[call.target].text = call.text
                     /\ FilesIn(call.target) = call.listed
                  THEN [call EXCEPT !.step = "move", !.listed = {}] ELSE NoCall
       /\ left' = PayQuery(ok)
  /\ UNCHANGED <<depot, client, changes, cache, lostWork>>

\* A refused reopen counts as tried; only the check below decides about it.
ReopenFile(f) ==
  /\ InUpdate("move") /\ f \in call.move
  /\ \E o \in Outcomes(ReopenRefused(f, call.target)) :
       /\ client' = IF Ran(o) THEN [client EXCEPT !.open[f] = call.target] ELSE client
       /\ call' = [call EXCEPT !.move = @ \ {f}, !.failed = IF Raised(o) THEN @ \cup {f} ELSE @]
       /\ left' = Pay(o)
  /\ UNCHANGED <<depot, changes, cache, lostWork>>

\* The mistake of accepting a file open in any changelist.
Unconfirmed_AnyChangelist(f) == ~IsOpen(f) \/ call.package

\* The files are asked for by the names of the request: one that was given as
\* /Game/... is no name for p4, and its move is never confirmed.
Unconfirmed(f) == client.open[f] # call.target \/ call.package

VerifyMoves ==
  /\ InUpdate("move") /\ call.move = {}
  /\ \E ok \in (IF call.tried = {} THEN {TRUE} ELSE Queries) :
       /\ call' = [call EXCEPT !.step = "answer",
                               !.failed = @ \cup {f \in call.tried : ~ok \/ Unconfirmed(f)}]
       /\ left' = PayQuery(ok)
  /\ UNCHANGED <<depot, client, changes, cache, lostWork>>

AnswerPrepareChangelist == InUpdate("answer") /\ Answers("changelist")

-----------------------------------------------------------------------------
(* resolve_text                                                            *)

\* The status and the preview (resolve -n) of the files; a preview that fails
\* reports no file as unresolved.
PreviewResolve(files, scope) ==
  /\ Begins
  /\ \E ok, previewOk \in Queries :
       /\ ~ok => previewOk
       /\ cache' = IF ok THEN "up" ELSE "down"
       /\ left' = Paid(ok /\ previewOk)
       /\ call' = IF scope # NewChange /\ ~Pending(scope) THEN NoCall ELSE
            [NoCall EXCEPT !.tool = "resolve", !.step = "status", !.files = files, !.target = scope,
                           !.listed = IF ok /\ previewOk THEN files \cap client.unresolved ELSE {}]
  /\ UNCHANGED <<depot, client, changes, lostWork>>

\* A second status decides which of them may be merged.
ChooseMerges ==
  /\ call.tool = "resolve" /\ call.step = "status"
  /\ \E ok \in Queries :
       LET inScope == {f \in call.files : IsOpen(f)
                                /\ (call.target # NewChange => client.open[f] = call.target)}
           open == IF ok /\ cache = "up" THEN inScope ELSE {}
           merges == (open \cap call.listed) \ Packages
       IN /\ cache' = AfterStatus(ok)
          /\ left' = PayQuery(ok)
          /\ call' = [call EXCEPT !.step = "move", !.move = merges, !.listed = {},
                                  !.failed = call.files \ (merges \cup (open \ call.listed))]
  /\ UNCHANGED <<depot, client, changes, lostWork>>

\* resolve -am and the preview of the same file after it: merged, or skipped as
\* a conflict.  A file that needs no resolve any more is reported as an error.
MergeFile(f) ==
  /\ call.tool = "resolve" /\ call.step = "move" /\ f \in call.move
  /\ \E o \in Outcomes(~IsOpen(f)), conflict \in BOOLEAN :
       LET merged == Ran(o) /\ f \in client.unresolved /\ ~conflict
       IN /\ client' = IF merged THEN [client EXCEPT !.unresolved = @ \ {f}] ELSE client
          /\ call' = [call EXCEPT !.move = @ \ {f},
                                  !.failed = IF o = "done" /\ merged THEN @ ELSE @ \cup {f}]
          /\ left' = Pay(o)
  /\ UNCHANGED <<depot, changes, cache, lostWork>>

AnswerResolveText == call.step = "move" /\ call.move = {} /\ Answers("resolve")

-----------------------------------------------------------------------------
(* The user, the other users and the agent's server.                       *)

Outside == left.outside > 0 /\ left' = [left EXCEPT !.outside = @ - 1]
OnClient == Outside /\ UNCHANGED <<depot, changes, cache, call, lostWork>>

OtherOpens(f) ==
  /\ Outside
  /\ f \notin depot.others /\ (f \in Packages => ~IsOpen(f))
  /\ depot' = [depot EXCEPT !.others = @ \cup {f}]
  /\ UNCHANGED <<client, changes, cache, call, lostWork>>

OtherSubmits(f) ==
  /\ Outside
  /\ f \in depot.others /\ depot.head[f] < MaxHead
  /\ depot' = [depot EXCEPT !.others = @ \ {f}, !.head[f] = @ + 1]
  /\ UNCHANGED <<client, changes, cache, call, lostWork>>

\* Editing a file that is not open means making it writable first.
UserEdits(f) ==
  /\ OnClient
  /\ client' = [client EXCEPT !.edited = @ \cup {f}, !.writable = @ \cup {f}]

UserOpens(f) == OnClient /\ ~IsOpen(f) /\ ~EditRefused(f) /\ client' = Edited(f)
UserSyncs(f) == OnClient /\ Behind(f) /\ ~SyncRefused(f) /\ client' = Synced(f)
UserResolves(f) ==
  OnClient /\ f \in client.unresolved /\ client' = [client EXCEPT !.unresolved = @ \ {f}]
UserReverts(f) ==
  /\ OnClient /\ IsOpen(f)
  /\ client' = [client EXCEPT !.open[f] = NotOpen, !.unresolved = @ \ {f},
                              !.edited = @ \ {f}, !.writable = @ \ {f}]
UserMoves(f, c) ==
  /\ OnClient /\ IsOpen(f) /\ client.open[f] # c /\ (c # DefaultChange => Pending(c))
  /\ client' = [client EXCEPT !.open[f] = c]

UserSubmits(c) ==
  /\ Outside /\ Pending(c) /\ FilesIn(c) # {}
  /\ \A f \in FilesIn(c) : ~Behind(f) /\ f \notin client.unresolved /\ depot.head[f] < MaxHead
  /\ LET files == FilesIn(c)
         newHead == [f \in ScFiles |-> depot.head[f] + (IF f \in files THEN 1 ELSE 0)]
     IN /\ depot' = [depot EXCEPT !.head = newHead]
        /\ client' = [client EXCEPT
             !.have = [f \in ScFiles |-> IF f \in files THEN newHead[f] ELSE @[f]],
             !.open = [f \in ScFiles |-> IF f \in files THEN NotOpen ELSE @[f]],
             !.edited = @ \ files, !.writable = @ \ files]
  /\ changes' = [changes EXCEPT ![c].state = "submitted"]
  /\ UNCHANGED <<cache, call, lostWork>>

\* A restart forgets the provider and the call in progress.
ScRestart ==
  /\ Outside
  /\ cache' = "unprobed" /\ call' = NoCall
  /\ UNCHANGED <<depot, client, changes, lostWork>>

-----------------------------------------------------------------------------

\* A workspace as the agent finds it: up to date and closed, except that a file
\* may have been edited and set read-only again without p4.
ScInit ==
  /\ depot = [head |-> [f \in ScFiles |-> 1], others |-> {}]
  /\ \E touched \in SUBSET ScFiles :
       client = [have |-> [f \in ScFiles |-> 1], open |-> [f \in ScFiles |-> NotOpen],
                 unresolved |-> {}, edited |-> touched, writable |-> {}]
  /\ changes = [c \in ChangeIds |-> [state |-> "none", text |-> "task"]]
  /\ cache = "unprobed" /\ call = NoCall /\ lostWork = {}
  /\ left = [calls |-> MaxCalls, outside |-> MaxOutside, faults |-> MaxScFaults]

ToolBegins ==
  \E files \in SUBSET ScFiles \ {{}} :
    \/ \E override, safeSync \in BOOLEAN : BeginPrepareWrite(files, override, safeSync)
    \/ \E target \in 0..MaxChanges, text \in Texts, package \in BOOLEAN :
         BeginPrepareChangelist(files, target, text, package)
    \/ \E scope \in 0..MaxChanges : PreviewResolve(files, scope)

ToolSteps ==
  \/ \E f \in ScFiles : SyncFile(f) \/ EditFile(f) \/ OverrideFile(f)
                          \/ ReopenFile(f) \/ MergeFile(f)
  \/ CreatePendingChangelist \/ ReadForm \/ WriteForm \/ CheckForm \/ VerifyMoves
  \/ ChooseMerges
  \/ AnswerPrepareWrite \/ AnswerPrepareChangelist \/ AnswerResolveText

OutsideSteps ==
  \/ \E f \in ScFiles :
       \/ OtherOpens(f) \/ OtherSubmits(f)
       \/ UserEdits(f) \/ UserOpens(f) \/ UserSyncs(f) \/ UserResolves(f) \/ UserReverts(f)
       \/ \E c \in 0..MaxChanges : UserMoves(f, c)
  \/ \E c \in ChangeIds : UserSubmits(c)
  \/ ScRestart

ScNext == ProbeFails \/ ToolBegins \/ ToolSteps \/ OutsideSteps

ScSpec == ScInit /\ [][ScNext]_scvars

-----------------------------------------------------------------------------
(* Properties                                                              *)

\* No tool of the agent overwrites local edits: whatever the user does between
\* the status and the sync, and whatever diff and sync answered or failed to
\* answer, prepare_write syncs only over content p4 has.
NoLocalWorkLost == lostWork = {}

\* When prepare_changelist has checked its moves and counts none as failed, every
\* file it was given is open in the target changelist at that moment, though the
\* list of moves came from the initial status and the user may have reverted,
\* moved or submitted files since.
AnswersOnlyConfirmedMoves ==
  [][call.step = "move" /\ call'.step = "answer" /\ call'.failed = {}
       => \A f \in call.files : client.open[f] = call.target]_scvars

\* Of the user's opened files a prepare_changelist moves only those it was given.
OnlyGivenFilesMove ==
  [][call.tool = "changelist" /\ left'.outside = left.outside
       => \A f \in ScFiles \ call.files : client'.open[f] = client.open[f]]_scvars
=============================================================================
