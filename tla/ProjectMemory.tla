---------------------------- MODULE ProjectMemory ----------------------------
(***************************************************************************)
(* The records of one subject in Project Memory, kept by processes that    *)
(* share a SQLite file: events captured from a report the server rewrites  *)
(* and of a rejection by the Policy, their distillation into records,      *)
(* records written by hand, supersession and the two validations.          *)
(*                                                                         *)
(* A read outside a transaction and a transaction are one step each, so    *)
(* other processes act in between; a process may die between any two.      *)
(* Scopes, search, knowledge nodes and evidence chains are left out, and   *)
(* so are records of replaced operations: the rule for them asks for       *)
(* values that the journals of the server do not hold.                     *)
(***************************************************************************)
EXTENDS Naturals, Sequences, FiniteSets

CONSTANTS
  MemoryProcesses,  \* servers and command lines
  MaxVersions,      \* bound: versions of the report, each of another revision
  MaxSelected,      \* events of one distillation
  MaxNotes,         \* bound: records written by hand
  MaxMemoryCalls    \* bound: captures, records written by hand and other calls

ASSUME MemoryAssumption ==
  /\ MaxVersions \in Nat \ {0} /\ MaxSelected \in Nat \ {0}
  /\ MaxNotes \in Nat /\ MaxMemoryCalls \in Nat

VARIABLES
  report,    \* version of the report on disk
  policy,    \* the Policy on disk, as seen from the rejection
  events,    \* captured events, oldest first
  distilled, \* events marked as distilled
  records,   \* id -> record
  worker,    \* what each process does
  callsMade

memoryVars == <<report, policy, events, distilled, records, worker, callsMade>>

Versions == 1..MaxVersions
Policies == {"named", "other", "missing"}  \* named: the one the rejection names
WriteEvent(v) == <<"write", v>>    \* a verified write, in version v of the report
RejectionEvent == <<"rejection", 0>>
ChangeSetEvent == <<"change set", 0>>  \* without revisions: no rule makes a record of it
MemoryEvents == {WriteEvent(v) : v \in Versions} \cup {RejectionEvent, ChangeSetEvent}

\* Derived from the event, never from what its rule reads.
RecordId(e) == <<e[1], e[2], 0>>
NoteId(n) == <<"note", n, 0>>
RecordIds ==
  {RecordId(e) : e \in MemoryEvents \ {ChangeSetEvent}} \cup {NoteId(n) : n \in 1..MaxNotes}

\* What a rejection becomes: a rule of the project, or an issue without a source.
PolicyRule == <<"rejection", 1, 0>>
KnownIssue == <<"rejection", 0, 0>>

NoId == <<"none", 0, 0>>
ActiveStatuses == {"current", "conflicted"}  \* current: valid or unverified
Record(status, content, revision, by) ==
  [status |-> status, content |-> content, revision |-> revision, by |-> by]
NoRecord == Record("none", NoId, 0, NoId)
Output(id, content, revision) == [id |-> id, content |-> content, revision |-> revision]
NoOutput == Output(NoId, NoId, 0)

\* A call at work on events: their positions, and what the rule made of the first.
Distilling(step, todo, output) ==
  [step |-> step, todo |-> todo, output |-> output, id |-> NoId, by |-> NoId,
   targets |-> {}, mode |-> "none"]
\* A call at work on the record id: superseded by another, or the first of targets.
Reviewing(step, id, by, targets, mode) ==
  [step |-> step, todo |-> {}, output |-> NoOutput, id |-> id, by |-> by,
   targets |-> targets, mode |-> mode]
NoWork == Distilling("idle", {}, NoOutput)

Stored == {id \in RecordIds : records[id].status # "none"}
Active(id) == records[id].status \in ActiveStatuses

\* The rejection has a subject of its own.
Subject(id) == IF id[1] = "rejection" THEN 1 ELSE 0

RecordContents == {"none", "write", "rejection", "note"} \X Nat \X Nat
Outputs == [id : RecordIds, content : RecordContents, revision : {0} \cup Versions]
MemoryRecords == [status : ActiveStatuses \cup {"none", "stale", "superseded"},
                 content : RecordContents, revision : {0} \cup Versions, by : RecordIds \cup {NoId}]
WorkerStates ==
  [step : {"idle", "selected", "hashed", "output", "missing", "mark", "superseding", "check", "stale"},
   todo : SUBSET DOMAIN events, output : Outputs \cup {NoOutput},
   id : RecordIds \cup {NoId}, by : RecordIds \cup {NoId},
   targets : SUBSET RecordIds, mode : {"none", "index", "sources"}]

MemoryTypeOK ==
  /\ report \in Versions
  /\ policy \in Policies
  /\ events \in Seq(MemoryEvents)
  /\ distilled \subseteq {events[i] : i \in DOMAIN events}
  /\ records \in [RecordIds -> MemoryRecords]
  /\ \A id \in RecordIds : records[id].by # NoId => records[id].by \in Stored \ {id}
  /\ worker \in [MemoryProcesses -> WorkerStates]
  /\ callsMade \in 0..MaxMemoryCalls

CountCall == callsMade < MaxMemoryCalls /\ callsMade' = callsMade + 1
InStep(p, step) == worker[p].step = step
GoesOn(p, step) == worker' = [worker EXCEPT ![p].step = step]
Works(p, w) == worker' = [worker EXCEPT ![p] = w]
Stops(p) == Works(p, NoWork)
MemoryCall(p, w) == InStep(p, "idle") /\ CountCall /\ Works(p, w)

-----------------------------------------------------------------------------
(* Records.                                                                *)

\* Two records of one subject that do not say the same.
Contradict(id, other, content) ==
  id # other /\ Subject(id) = Subject(other) /\ records[other].content # content

\* The mistake of comparing only with records that are in no conflict yet.
Contradicted_Unmarked(id, content) ==
  {other \in Stored : Contradict(id, other, content) /\ records[other].status = "current"}

Contradicted(id, content) == {other \in Stored : Contradict(id, other, content) /\ Active(other)}

\* One transaction; the id must be new.
Created(id, content, revision) ==
  LET others == Contradicted(id, content)
  IN [x \in RecordIds |->
        CASE x = id -> Record(IF others = {} THEN "current" ELSE "conflicted", content, revision, NoId)
          [] x \in others -> [records[x] EXCEPT !.status = "conflicted"]
          [] OTHER -> records[x]]

\* By a user or a tool, with or without a binding to the revision it saw.
AddNote(n, revision) ==
  /\ CountCall /\ NoteId(n) \notin Stored /\ (n > 1 => NoteId(n - 1) \in Stored)
  /\ records' = Created(NoteId(n), NoteId(n), revision)
  /\ UNCHANGED <<report, policy, events, distilled, worker>>

CheckSuperseded(p, old, new) ==
  /\ old \in Stored /\ new \in Stored /\ old # new /\ Subject(old) = Subject(new)
  /\ records[new].status # "superseded"
  /\ MemoryCall(p, Reviewing("superseding", old, new, {}, "none"))
  /\ UNCHANGED <<report, policy, events, distilled, records>>

\* What was checked is not checked again.
WriteSuperseded(p) ==
  /\ InStep(p, "superseding")
  /\ records' = [records EXCEPT ![worker[p].id] =
                    Record("superseded", @.content, @.revision, worker[p].by)]
  /\ Stops(p)
  /\ UNCHANGED <<report, policy, events, distilled, callsMade>>

-----------------------------------------------------------------------------
(* Events.                                                                 *)

\* The server rewrites its report after another write.
RewriteReport ==
  /\ report < MaxVersions /\ report' = report + 1
  /\ UNCHANGED <<policy, events, distilled, records, worker, callsMade>>

\* A user edits the Policy, takes it away or brings it back.
EditPolicy ==
  /\ policy' \in Policies \ {policy}
  /\ UNCHANGED <<report, events, distilled, records, worker, callsMade>>

\* Captured a second time, a report of the same version is the same event.
CaptureEvent(e) ==
  /\ e \in {WriteEvent(report), RejectionEvent, ChangeSetEvent}
  /\ CountCall /\ \A i \in DOMAIN events : events[i] # e
  /\ events' = Append(events, e)
  /\ UNCHANGED <<report, policy, distilled, records, worker>>

-----------------------------------------------------------------------------
(* Distillation.                                                           *)

PendingEvents == {i \in DOMAIN events : events[i] \notin distilled}

SelectEvents(p) ==
  /\ PendingEvents # {}
  /\ MemoryCall(p, Distilling("selected",
       {i \in PendingEvents : Cardinality({j \in PendingEvents : j < i}) < MaxSelected}, NoOutput))
  /\ UNCHANGED <<report, policy, events, distilled, records>>

\* The event at work is the oldest of those the call has left.
AtEvent(p, i) == i \in worker[p].todo /\ \A j \in worker[p].todo : i <= j

\* On to the next event; without one the call ends.
SkipEvent(p, i) ==
  Works(p, IF worker[p].todo = {i} THEN NoWork ELSE Distilling("selected", worker[p].todo \ {i}, NoOutput))

\* The mistake of counting an event as done once there is some record of it.
FailEvent_Marked(p, i) == GoesOn(p, "mark")

\* A failed event stays pending, whatever record there is of it.
FailEvent(p, i) == SkipEvent(p, i)

\* A report that has been rewritten defers its event, and so may the journal of the
\* change set; a rejection has no file.
HashArtifact(p) ==
  /\ InStep(p, "selected")
  /\ \E i \in DOMAIN events :
       /\ AtEvent(p, i)
       /\ \/ events[i] \in {WriteEvent(report), RejectionEvent} /\ GoesOn(p, "hashed")
          \/ events[i] \notin {WriteEvent(report), RejectionEvent} /\ SkipEvent(p, i)
          \/ events[i] = ChangeSetEvent /\ GoesOn(p, "mark")
  /\ UNCHANGED <<report, policy, events, distilled, records, callsMade>>

\* A verified write has the revision its report holds by now; a rejection is a rule
\* only while the Policy is the one it names.
OutputOf(e) ==
  IF e = RejectionEvent
  THEN Output(RecordId(e), IF policy = "named" THEN PolicyRule ELSE KnownIssue, 0)
  ELSE Output(RecordId(e), <<"write", e[2], report>>, report)

\* The file is read again, after its digest was found to match.
ApplyRule(p) ==
  /\ InStep(p, "hashed")
  /\ \E i \in DOMAIN events :
       AtEvent(p, i) /\ Works(p, Distilling("output", worker[p].todo, OutputOf(events[i])))
  /\ UNCHANGED <<report, policy, events, distilled, records, callsMade>>

\* A record that is there already is used if it says the same.
FindRecord(p) ==
  /\ InStep(p, "output")
  /\ \E i \in DOMAIN events :
       LET found == records[worker[p].output.id]
       IN  /\ AtEvent(p, i)
           /\ IF found.status = "none" THEN GoesOn(p, "missing")
              ELSE IF found.content = worker[p].output.content THEN GoesOn(p, "mark") ELSE FailEvent(p, i)
  /\ UNCHANGED <<report, policy, events, distilled, records, callsMade>>

\* Committed by itself; another process may have inserted the id meanwhile.
CreateRecord(p) ==
  /\ InStep(p, "missing")
  /\ \E i \in DOMAIN events :
       LET o == worker[p].output
       IN  /\ AtEvent(p, i)
           /\ IF records[o.id].status = "none"
              THEN records' = Created(o.id, o.content, o.revision) /\ GoesOn(p, "mark")
              ELSE FailEvent(p, i) /\ UNCHANGED records
  /\ UNCHANGED <<report, policy, events, distilled, callsMade>>

MarkDistilled(p) ==
  /\ InStep(p, "mark")
  /\ \E i \in DOMAIN events :
       /\ AtEvent(p, i)
       /\ distilled' = distilled \cup {events[i]}
       /\ SkipEvent(p, i)
  /\ UNCHANGED <<report, policy, events, records, callsMade>>

-----------------------------------------------------------------------------
(* Validation of all records, or of the distilled ones, against an index   *)
(* that may lag behind; the distilled ones against the Policy too.         *)

Outdated(mode, indexed) ==
  {id \in Stored :
     /\ Active(id)
     /\ \/ records[id].revision \notin {0, indexed} /\ (mode = "sources" => id[1] # "note")
        \/ mode = "sources" /\ records[id].content = PolicyRule /\ policy = "other"}

ReadBindings(p, mode, indexed) ==
  /\ Outdated(mode, indexed) # {}
  /\ MemoryCall(p, Reviewing("check", NoId, NoId, Outdated(mode, indexed), mode))
  /\ UNCHANGED <<report, policy, events, distilled, records>>

\* The status of the first record is read before the transaction begins.  For a
\* superseded one the validation of all records fails.
CheckStatus(p, id) ==
  /\ InStep(p, "check") /\ id \in worker[p].targets
  /\ \/ Active(id)
        /\ Works(p, Reviewing("stale", id, NoId, worker[p].targets, worker[p].mode))
     \/ /\ records[id].status = "superseded" /\ worker[p].mode = "index"
        /\ Stops(p)
     \/ /\ records[id].status \in {"stale"} \cup (IF worker[p].mode = "sources" THEN {"superseded"} ELSE {})
        /\ Works(p, IF worker[p].targets = {id} THEN NoWork
                      ELSE Reviewing("check", NoId, NoId, worker[p].targets \ {id}, worker[p].mode))
  /\ UNCHANGED <<report, policy, events, distilled, records, callsMade>>

\* The first becomes stale whatever it is by now, the others if they still may.
WriteStale(p) ==
  /\ InStep(p, "stale")
  /\ LET first == worker[p].id
         rest == worker[p].targets \ {first}
         fails == worker[p].mode = "index" /\ \E id \in rest : records[id].status = "superseded"
     IN records' = IF fails THEN records
                   ELSE [id \in RecordIds |->
                           IF id = first \/ (id \in rest /\ Active(id))
                           THEN [records[id] EXCEPT !.status = "stale"] ELSE records[id]]
  /\ Stops(p)
  /\ UNCHANGED <<report, policy, events, distilled, callsMade>>

-----------------------------------------------------------------------------
\* What is not committed is gone with the process.
ProcessDies(p) ==
  /\ ~InStep(p, "idle") /\ Stops(p)
  /\ UNCHANGED <<report, policy, events, distilled, records, callsMade>>

MemoryInit ==
  /\ report = 1 /\ policy = "named"
  /\ events = <<>> /\ distilled = {} /\ callsMade = 0
  /\ records = [id \in RecordIds |-> NoRecord]
  /\ worker = [p \in MemoryProcesses |-> NoWork]

MemoryNext ==
  \/ RewriteReport \/ EditPolicy
  \/ \E n \in 1..MaxNotes, revision \in {0, report} : AddNote(n, revision)
  \/ \E e \in MemoryEvents : CaptureEvent(e)
  \/ \E p \in MemoryProcesses :
       \/ \E old, new \in RecordIds : CheckSuperseded(p, old, new)
       \/ WriteSuperseded(p)
       \/ SelectEvents(p) \/ HashArtifact(p) \/ ApplyRule(p)
       \/ FindRecord(p) \/ CreateRecord(p) \/ MarkDistilled(p)
       \/ \E mode \in {"index", "sources"}, indexed \in 1..report : ReadBindings(p, mode, indexed)
       \/ \E id \in RecordIds : CheckStatus(p, id)
       \/ WriteStale(p)
       \/ ProcessDies(p)

MemorySpec == MemoryInit /\ [][MemoryNext]_memoryVars

-----------------------------------------------------------------------------
\* An event that a rule applies to counts as distilled only when its record is there,
\* and a process marks it only when that record says what the process derived itself:
\* another process may have written it from a later report or under another Policy.
DistilledEventsLeaveRecords ==
  /\ \A e \in distilled \ {ChangeSetEvent} : RecordId(e) \in Stored
  /\ \A p \in MemoryProcesses :
       InStep(p, "mark") /\ worker[p].output # NoOutput
         => records[worker[p].output.id].content = worker[p].output.content

\* Whoever wrote them and in whatever order, two active records of one subject
\* that do not say the same are both shown as conflicted.
ContradictionsAreMarked ==
  \A id, other \in Stored :
    Active(id) /\ Active(other) /\ Contradict(id, other, records[id].content)
      => records[id].status = "conflicted" /\ records[other].status = "conflicted"
=============================================================================
