-------------------------- MODULE GraphIdempotency --------------------------
(***************************************************************************)
(* The files two processes share when they apply graph patches to one      *)
(* asset: a record per idempotency key, its lock file, and the marker of a *)
(* failed compensation.  What an apply does to the graph is GraphPatch;    *)
(* here it ends applied, rolled back or in need of manual recovery.        *)
(*                                                                         *)
(* A process may die at any moment.  Its lock file stays, for nothing      *)
(* removes a lock another process left.                                    *)
(***************************************************************************)
EXTENDS Naturals, FiniteSets

CONSTANTS
  Callers,     \* processes
  Keys,        \* idempotency keys
  Payloads,    \* hashes of what is to be applied
  Free,        \* no process holds the lock
  MaxPatches,  \* bound: calls of simulate_apply
  MaxCrashes   \* bound: processes that die

ASSUME IdempotencyAssumption ==
  Keys # {} /\ Payloads # {} /\ Free \notin Callers /\ MaxPatches \in Nat /\ MaxCrashes \in Nat

VARIABLES
  caller,    \* what each process is doing
  record,    \* the record of each key
  scopeLock, \* who holds the lock file of each key
  marker,    \* the asset has a recovery marker
  effects,   \* history: applications that took effect, with their key and payload
  patchesLeft

idempotencyVars == <<caller, record, scopeLock, marker, effects, patchesLeft>>

\* reserved and indeterminate block every later apply of the key.
BlockingStates == {"reserved", "indeterminate"}
RecordStates == {"none", "applied", "failed"} \cup BlockingStates
ApplyOutcomes == {"applied", "failed", "indeterminate"}
SomePayload == CHOOSE payload \in Payloads : TRUE
IdleCaller == [step |-> "idle", key |-> CHOOSE key \in Keys : TRUE, payload |-> SomePayload, outcome |-> "failed"]

CallerStates ==
  [step : {"idle", "planned", "deciding", "reserved", "applying", "applied", "marking"},
   key : Keys, payload : Payloads, outcome : ApplyOutcomes]

IdempotencyTypeOK ==
  /\ caller \in [Callers -> CallerStates]
  /\ record \in [Keys -> [state : RecordStates, payload : Payloads]]
  /\ scopeLock \in [Keys -> Callers \cup {Free}]
  /\ marker \in BOOLEAN
  /\ effects \subseteq Callers \X Keys \X Payloads \X (0..MaxPatches)
  /\ patchesLeft \in [calls : 0..MaxPatches, crashes : 0..MaxCrashes]
  /\ \A c \in Callers :  \* a process at work with the record holds the lock
       caller[c].step \in {"deciding", "reserved", "marking"} => scopeLock[caller[c].key] = c

-----------------------------------------------------------------------------
AtStep(c, step) == caller[c].step = step
GoesTo(c, step) == caller' = [caller EXCEPT ![c].step = step]
Becomes(c, step, key, payload, outcome) ==
  caller' = [caller EXCEPT ![c] = [step |-> step, key |-> key, payload |-> payload, outcome |-> outcome]]
Leaves(c) == caller' = [caller EXCEPT ![c] = IdleCaller]
Lock(c, holder) == scopeLock' = [scopeLock EXCEPT ![caller[c].key] = holder]
Key(c) == caller[c].key
SamePayload(c) == record[Key(c)].payload = caller[c].payload

\* plan_patch: validation reads the marker, here and never again.
PlanCall(c, key, payload) ==
  /\ AtStep(c, "idle") /\ patchesLeft.calls > 0 /\ ~marker
  /\ Becomes(c, "planned", key, payload, "failed")
  /\ patchesLeft' = [patchesLeft EXCEPT !.calls = @ - 1]
  /\ UNCHANGED <<record, scopeLock, marker, effects>>

\* A lock that exists is an answer and nobody waits for it.
TakeLock(c) ==
  /\ AtStep(c, "planned")
  /\ IF scopeLock[Key(c)] = Free
     THEN Lock(c, c) /\ GoesTo(c, "deciding")
     ELSE Leaves(c) /\ UNCHANGED scopeLock
  /\ UNCHANGED <<record, marker, effects, patchesLeft>>

\* The mistake of taking over what another process reserved.
Reservable_Reserved(c) ==
  record[Key(c)].state = "none"
    \/ (SamePayload(c) /\ record[Key(c)].state \in {"failed", "reserved"})

\* A failed attempt is made again with the payload it had.
Reservable(c) ==
  record[Key(c)].state = "none" \/ (SamePayload(c) /\ record[Key(c)].state = "failed")

Reserve(c) ==
  /\ AtStep(c, "deciding") /\ Reservable(c)
  /\ record' = [record EXCEPT ![Key(c)] = [state |-> "reserved", payload |-> caller[c].payload]]
  /\ GoesTo(c, "reserved")
  /\ UNCHANGED <<scopeLock, marker, effects, patchesLeft>>

\* Conflict, replay of the stored result, or a record that blocks.
AnswerFromRecord(c) ==
  /\ AtStep(c, "deciding") /\ ~Reservable(c)
  /\ Lock(c, Free) /\ Leaves(c)
  /\ UNCHANGED <<record, marker, effects, patchesLeft>>

ReleaseReserved(c) ==
  /\ AtStep(c, "reserved")
  /\ Lock(c, Free) /\ GoesTo(c, "applying")
  /\ UNCHANGED <<record, marker, effects, patchesLeft>>

\* The operations run; one that cannot be taken back leaves its marker.
RunOperations(c, outcome) ==
  /\ AtStep(c, "applying")
  /\ Becomes(c, "applied", Key(c), caller[c].payload, outcome)
  /\ effects' = IF outcome = "failed" THEN effects
                ELSE effects \cup {<<c, Key(c), caller[c].payload, patchesLeft.calls>>}
  /\ marker' = (marker \/ outcome = "indeterminate")
  /\ UNCHANGED <<record, scopeLock, patchesLeft>>

\* mark_applied, mark_failed, mark_indeterminate: a lock held by another raises, and
\* the record stays reserved.
TakeLockToMark(c) ==
  /\ AtStep(c, "applied")
  /\ IF scopeLock[Key(c)] = Free
     THEN Lock(c, c) /\ GoesTo(c, "marking")
     ELSE Leaves(c) /\ UNCHANGED scopeLock
  /\ UNCHANGED <<record, marker, effects, patchesLeft>>

Mark(c) ==
  /\ AtStep(c, "marking")
  /\ record' = IF record[Key(c)].state = "reserved" /\ SamePayload(c)
               THEN [record EXCEPT ![Key(c)].state = caller[c].outcome] ELSE record
  /\ Lock(c, Free) /\ Leaves(c)
  /\ UNCHANGED <<marker, effects, patchesLeft>>

CrashCaller(c) ==
  /\ ~AtStep(c, "idle") /\ patchesLeft.crashes > 0
  /\ Leaves(c)
  /\ patchesLeft' = [patchesLeft EXCEPT !.crashes = @ - 1]
  /\ UNCHANGED <<record, scopeLock, marker, effects>>

\* The user confirms, with the marker's evidence, that the graph is as it was.
ClearMarker ==
  /\ marker /\ marker' = FALSE
  /\ UNCHANGED <<caller, record, scopeLock, effects, patchesLeft>>

-----------------------------------------------------------------------------
IdempotencyInit ==
  /\ caller = [c \in Callers |-> IdleCaller]
  /\ record = [key \in Keys |-> [state |-> "none", payload |-> SomePayload]]
  /\ scopeLock = [key \in Keys |-> Free]
  /\ marker = FALSE /\ effects = {}
  /\ patchesLeft = [calls |-> MaxPatches, crashes |-> MaxCrashes]

CallerSteps(c) ==
  \/ \E key \in Keys, payload \in Payloads : PlanCall(c, key, payload)
  \/ TakeLock(c) \/ Reserve(c) \/ AnswerFromRecord(c) \/ ReleaseReserved(c)
  \/ \E outcome \in ApplyOutcomes : RunOperations(c, outcome)
  \/ TakeLockToMark(c) \/ Mark(c) \/ CrashCaller(c)

IdempotencyNext == ClearMarker \/ \E c \in Callers : CallerSteps(c)

IdempotencySpec == IdempotencyInit /\ [][IdempotencyNext]_idempotencyVars

-----------------------------------------------------------------------------
\* However many processes retry a key, with whatever payload, and wherever any of
\* them dies: at most one application of the key ever takes effect, and an applied
\* record, which is what replays answer from, is of that application.
KeyTakesEffectOnce ==
  \A key \in Keys :
    LET ofKey == {e \in effects : e[2] = key}
    IN  /\ Cardinality(ofKey) <= 1
        /\ record[key].state = "applied" => \E e \in ofKey : e[3] = record[key].payload
=============================================================================
