------------------------ MODULE GraphContractProofs ------------------------
(***************************************************************************)
(* Proofs about the graph contracts.  For any processes, keys and payloads *)
(* an idempotency key takes effect at most once.  For any graph and any    *)
(* patch accepted by its plan, compensation restores the graph.            *)
(***************************************************************************)
EXTENDS GraphIdempotency, GraphPatch, FiniteSetTheorems, WellFoundedInduction, TLAPS

(***************************************************************************)
(* Idempotency keys.                                                       *)
(***************************************************************************)

\* A process owns the record of its key from its reservation to its mark; the lock
\* is free in between, so the record's state has to keep the others out.
Owns(c) == caller[c].step \in {"reserved", "applying", "applied", "marking"}
HasRun(c) == caller[c].step \in {"applied", "marking"}
EffectsOf(key) == {e \in effects : e[2] = key}

\* The record of an owned key is the owner's reservation.
OwnersHoldReservations ==
  \A c \in Callers : Owns(c) =>
    record[Key(c)].state = "reserved" /\ record[Key(c)].payload = caller[c].payload

OneOwnerPerKey ==
  \A c, d \in Callers : Owns(c) /\ Owns(d) /\ Key(c) = Key(d) => c = d

\* A key that may be reserved, again or for the first time, has had no effect, and
\* neither has that of an owner who has not run or has failed.
FreshKeysHaveNoEffect ==
  /\ \A key \in Keys : record[key].state \in {"none", "failed"} => EffectsOf(key) = {}
  /\ \A c \in Callers :
       Owns(c) /\ (HasRun(c) => caller[c].outcome = "failed") => EffectsOf(Key(c)) = {}

\* An owner that has run without failing, and an applied record, have an effect of
\* their payload.
EffectsHavePayload ==
  /\ \A c \in Callers : HasRun(c) /\ caller[c].outcome # "failed" =>
       \E e \in EffectsOf(Key(c)) : e[3] = caller[c].payload
  /\ \A key \in Keys : record[key].state = "applied" =>
       \E e \in EffectsOf(key) : e[3] = record[key].payload

OneEffectPerKey == \A e, f \in effects : e[2] = f[2] => e = f

IdempotencyInv ==
  /\ IdempotencyTypeOK
  /\ OwnersHoldReservations
  /\ OneOwnerPerKey
  /\ FreshKeysHaveNoEffect
  /\ EffectsHavePayload
  /\ OneEffectPerKey

\* The values an idle process is left with are of the type.
LEMMA IdleCallerTyped ==
  /\ SomePayload \in Payloads
  /\ IdleCaller \in CallerStates
  /\ IdleCaller.step = "idle" /\ IdleCaller.outcome = "failed"
  <1>1. SomePayload \in Payloads
    BY IdempotencyAssumption DEF SomePayload
  <1>2. (CHOOSE key \in Keys : TRUE) \in Keys
    BY IdempotencyAssumption
  <1> QED
    BY <1>1, <1>2 DEF IdleCaller, ApplyOutcomes, CallerStates

\* What it is for a process to go on, or to leave.
LEMMA CallerGoesOn ==
  ASSUME IdempotencyTypeOK, NEW c \in Callers
  PROVE  /\ \A step \in {"deciding", "reserved", "applying", "applied", "marking"} : GoesTo(c, step) =>
              /\ caller'[c].step = step /\ caller'[c].key = caller[c].key
              /\ caller'[c].payload = caller[c].payload /\ caller'[c].outcome = caller[c].outcome
         /\ Leaves(c) => caller'[c].step = "idle"
         /\ \A step, key, payload, outcome : Becomes(c, step, key, payload, outcome) =>
              /\ caller'[c].step = step /\ caller'[c].key = key
              /\ caller'[c].payload = payload /\ caller'[c].outcome = outcome
  <1>1. ASSUME NEW step \in {"deciding", "reserved", "applying", "applied", "marking"}, GoesTo(c, step)
        PROVE  /\ caller'[c].step = step /\ caller'[c].key = caller[c].key
               /\ caller'[c].payload = caller[c].payload /\ caller'[c].outcome = caller[c].outcome
    BY <1>1 DEF GoesTo, IdempotencyTypeOK, CallerStates
  <1>2. Leaves(c) => caller'[c].step = "idle"
    BY IdleCallerTyped DEF Leaves, IdempotencyTypeOK
  <1>3. ASSUME NEW step, NEW key, NEW payload, NEW outcome, Becomes(c, step, key, payload, outcome)
        PROVE  /\ caller'[c].step = step /\ caller'[c].key = key
               /\ caller'[c].payload = payload /\ caller'[c].outcome = outcome
    BY <1>3 DEF Becomes, IdempotencyTypeOK
  <1> QED
    BY <1>1, <1>2, <1>3

\* What a step of one process does to its own state, and that it leaves the others'.
LEMMA OneCallerMoves ==
  ASSUME IdempotencyTypeOK, NEW c \in Callers, CallerSteps(c)
  PROVE  /\ caller' \in [Callers -> CallerStates]
         /\ \A d \in Callers \ {c} : caller'[d] = caller[d]
  <1> USE DEF IdempotencyTypeOK, AtStep, GoesTo, Leaves, Key
  <1>1. ASSUME NEW state \in CallerStates, caller' = [caller EXCEPT ![c] = state]
        PROVE  /\ caller' \in [Callers -> CallerStates]
               /\ \A d \in Callers \ {c} : caller'[d] = caller[d]
    BY <1>1
  <1>2. ASSUME NEW step \in {"deciding", "reserved", "applying", "applied", "marking"}, GoesTo(c, step)
        PROVE  /\ caller' \in [Callers -> CallerStates]
               /\ \A d \in Callers \ {c} : caller'[d] = caller[d]
    BY <1>2 DEF CallerStates
  <1>3. ASSUME NEW key \in Keys, NEW payload \in Payloads, PlanCall(c, key, payload)
        PROVE  \E state \in CallerStates : caller' = [caller EXCEPT ![c] = state]
    BY <1>3 DEF PlanCall, Becomes, CallerStates, ApplyOutcomes
  <1>4. ASSUME NEW outcome \in ApplyOutcomes, RunOperations(c, outcome)
        PROVE  \E state \in CallerStates : caller' = [caller EXCEPT ![c] = state]
    BY <1>4 DEF RunOperations, Becomes, CallerStates
  <1>5. CASE TakeLock(c) \/ Reserve(c) \/ AnswerFromRecord(c) \/ ReleaseReserved(c)
    BY <1>1, <1>2, <1>5, IdleCallerTyped DEF TakeLock, Reserve, AnswerFromRecord, ReleaseReserved
  <1>6. CASE TakeLockToMark(c) \/ Mark(c) \/ CrashCaller(c)
    BY <1>1, <1>2, <1>6, IdleCallerTyped DEF TakeLockToMark, Mark, CrashCaller
  <1> QED
    BY <1>1, <1>3, <1>4, <1>5, <1>6 DEF CallerSteps

\* Every step of a process keeps processes and shared files in their types; who is at
\* work with a record holds its lock.
LEMMA IdempotencyTypeStep ==
  ASSUME IdempotencyTypeOK, NEW c \in Callers, CallerSteps(c)
  PROVE  IdempotencyTypeOK'
  <1> USE DEF AtStep, GoesTo, Becomes, Leaves, Lock, Key
  <1>1. /\ caller' \in [Callers -> CallerStates]
        /\ \A d \in Callers \ {c} : caller'[d] = caller[d]
    BY OneCallerMoves
  <1>2. record' \in [Keys -> [state : RecordStates, payload : Payloads]]
    <2>1. CASE Reserve(c)
      BY <2>1 DEF Reserve, IdempotencyTypeOK, CallerStates, RecordStates, BlockingStates
    <2>2. CASE Mark(c)
      BY <2>2 DEF Mark, IdempotencyTypeOK, CallerStates, RecordStates, BlockingStates, ApplyOutcomes
    <2>3. CASE UNCHANGED record
      BY <2>3 DEF IdempotencyTypeOK
    <2> QED
      BY <2>1, <2>2, <2>3 DEF CallerSteps, PlanCall, TakeLock, AnswerFromRecord, ReleaseReserved,
         RunOperations, TakeLockToMark, CrashCaller
  <1>3. effects' \subseteq Callers \X Keys \X Payloads \X (0..MaxPatches) /\ marker' \in BOOLEAN
    <2>1. ASSUME NEW outcome \in ApplyOutcomes, RunOperations(c, outcome)
          PROVE  effects' \subseteq Callers \X Keys \X Payloads \X (0..MaxPatches) /\ marker' \in BOOLEAN
      BY <2>1 DEF RunOperations, IdempotencyTypeOK, CallerStates
    <2> QED
      BY <2>1 DEF CallerSteps, PlanCall, TakeLock, Reserve, AnswerFromRecord, ReleaseReserved, Mark,
         TakeLockToMark, CrashCaller, IdempotencyTypeOK
  <1>4. patchesLeft' \in [calls : 0..MaxPatches, crashes : 0..MaxCrashes]
    BY IdempotencyAssumption DEF CallerSteps, PlanCall, TakeLock, Reserve, AnswerFromRecord,
       ReleaseReserved, RunOperations, Mark, TakeLockToMark, CrashCaller, IdempotencyTypeOK
  <1> DEFINE LocksFit ==
        /\ scopeLock \in [Keys -> Callers \cup {Free}]
        /\ \A d \in Callers : caller[d].step \in {"deciding", "reserved", "marking"} => scopeLock[caller[d].key] = d
  <1>5. LocksFit'
    <2>1. ASSUME NEW key \in Keys, NEW payload \in Payloads, PlanCall(c, key, payload)
          PROVE  LocksFit'
      BY <1>1, <2>1 DEF PlanCall, IdempotencyTypeOK
    <2>2. CASE (TakeLock(c) \/ TakeLockToMark(c)) /\ scopeLock' = scopeLock
      BY <1>1, <2>2, IdempotencyAssumption, CallerGoesOn DEF TakeLock, TakeLockToMark, IdempotencyTypeOK, CallerStates
    <2>3. CASE (TakeLock(c) \/ TakeLockToMark(c)) /\ scopeLock' # scopeLock
      <3>1. /\ scopeLock[caller[c].key] = Free /\ scopeLock' = [scopeLock EXCEPT ![caller[c].key] = c]
            /\ caller'[c].key = caller[c].key /\ caller[c].key \in Keys
        BY <2>3, CallerGoesOn DEF TakeLock, TakeLockToMark, IdempotencyTypeOK, CallerStates
      <3> QED
        BY <1>1, <3>1, IdempotencyAssumption DEF IdempotencyTypeOK
    <2>6. CASE Reserve(c)
      <3>1. caller'[c].key = caller[c].key /\ caller[c].step = "deciding" /\ scopeLock' = scopeLock
        BY <2>6, CallerGoesOn DEF Reserve
      <3> QED
        BY <1>1, <3>1 DEF IdempotencyTypeOK
    <2>7. CASE AnswerFromRecord(c) \/ ReleaseReserved(c) \/ Mark(c)
      <3>1. /\ caller'[c].step \in {"idle", "applying"} /\ caller[c].key \in Keys
            /\ scopeLock[caller[c].key] = c /\ scopeLock' = [scopeLock EXCEPT ![caller[c].key] = Free]
        BY <2>7, CallerGoesOn DEF AnswerFromRecord, ReleaseReserved, Mark, IdempotencyTypeOK, CallerStates
      <3> QED
        BY <1>1, <3>1, IdempotencyAssumption DEF IdempotencyTypeOK
    <2>4. ASSUME NEW outcome \in ApplyOutcomes, RunOperations(c, outcome)
          PROVE  LocksFit'
      BY <1>1, <2>4 DEF RunOperations, IdempotencyTypeOK
    <2>5. CASE CrashCaller(c)
      BY <1>1, <2>5, CallerGoesOn DEF CrashCaller, IdempotencyTypeOK
    <2> QED
      BY <2>1, <2>2, <2>3, <2>4, <2>5, <2>6, <2>7 DEF CallerSteps
  <1> QED
    BY <1>1, <1>2, <1>3, <1>4, <1>5 DEF IdempotencyTypeOK

\* Initially nobody is at work and nothing has been applied.
LEMMA IdempotencyStarts == IdempotencyInit => IdempotencyInv
  <1> SUFFICES ASSUME IdempotencyInit PROVE IdempotencyInv
    OBVIOUS
  <1>1. \A c \in Callers : caller[c] = IdleCaller /\ caller[c].step = "idle"
    BY IdleCallerTyped DEF IdempotencyInit
  <1>2. \A key \in Keys : record[key].state = "none" /\ EffectsOf(key) = {}
    BY DEF IdempotencyInit, EffectsOf
  <1>3. IdempotencyTypeOK
    <2>1. caller \in [Callers -> CallerStates] /\ record \in [Keys -> [state : RecordStates, payload : Payloads]]
      BY IdleCallerTyped DEF IdempotencyInit, RecordStates
    <2>2. patchesLeft \in [calls : 0..MaxPatches, crashes : 0..MaxCrashes]
      BY IdempotencyAssumption DEF IdempotencyInit
    <2> QED
      BY <1>1, <2>1, <2>2 DEF IdempotencyInit, IdempotencyTypeOK
  <1>4. OwnersHoldReservations /\ OneOwnerPerKey
    BY <1>1 DEF OwnersHoldReservations, OneOwnerPerKey, Owns
  <1>5. FreshKeysHaveNoEffect /\ EffectsHavePayload
    BY <1>1, <1>2 DEF FreshKeysHaveNoEffect, EffectsHavePayload, Owns, HasRun
  <1>6. OneEffectPerKey
    BY DEF IdempotencyInit, OneEffectPerKey
  <1> QED
    BY <1>3, <1>4, <1>5, <1>6 DEF IdempotencyInv

\* A step that changes neither records nor effects and lets nobody become an owner,
\* or an owner change key, payload or outcome or become one that has run.
LEMMA OwnersStay ==
  ASSUME IdempotencyInv, NEW c \in Callers,
         \A d \in Callers \ {c} : caller'[d] = caller[d],
         record' = record, effects' = effects,
         Owns(c)' => /\ Owns(c) /\ (HasRun(c)' <=> HasRun(c))
                     /\ caller'[c].key = caller[c].key /\ caller'[c].payload = caller[c].payload
                     /\ caller'[c].outcome = caller[c].outcome
  PROVE  /\ OwnersHoldReservations' /\ OneOwnerPerKey' /\ FreshKeysHaveNoEffect'
         /\ EffectsHavePayload' /\ OneEffectPerKey'
  <1>1. \A d \in Callers : Owns(d)' =>
          /\ Owns(d) /\ (HasRun(d)' <=> HasRun(d)) /\ Key(d)' = Key(d)
          /\ caller'[d].payload = caller[d].payload /\ caller'[d].outcome = caller[d].outcome
    BY DEF Owns, HasRun, Key
  <1>2. \A d \in Callers : HasRun(d)' => Owns(d)'
    BY DEF Owns, HasRun
  <1>3. \A key : EffectsOf(key)' = EffectsOf(key)
    BY DEF EffectsOf
  <1>4. OwnersHoldReservations'
    BY <1>1 DEF IdempotencyInv, OwnersHoldReservations
  <1>5. OneOwnerPerKey'
    BY <1>1 DEF IdempotencyInv, OneOwnerPerKey
  <1>6. FreshKeysHaveNoEffect'
    BY <1>1, <1>3 DEF IdempotencyInv, FreshKeysHaveNoEffect
  <1>7. EffectsHavePayload'
    BY <1>1, <1>2, <1>3 DEF IdempotencyInv, EffectsHavePayload
  <1>8. OneEffectPerKey'
    BY DEF IdempotencyInv, OneEffectPerKey
  <1> QED
    BY <1>4, <1>5, <1>6, <1>7, <1>8

\* A reservation makes the only owner of a key that has had no effect.
LEMMA ReserveKeepsInv ==
  ASSUME IdempotencyInv, IdempotencyTypeOK', NEW c \in Callers, Reserve(c),
         \A d \in Callers \ {c} : caller'[d] = caller[d]
  PROVE  IdempotencyInv'
  <1>a. PICK k \in Keys : k = caller[c].key
    BY DEF IdempotencyInv, IdempotencyTypeOK, CallerStates
  <1>1. /\ record[k].state \in {"none", "failed"} /\ EffectsOf(k) = {}
        /\ record' = [record EXCEPT ![k] = [state |-> "reserved", payload |-> caller[c].payload]]
        /\ effects' = effects
    BY <1>a DEF Reserve, Reservable, Key, IdempotencyInv, IdempotencyTypeOK, CallerStates, FreshKeysHaveNoEffect
  <1>2. caller'[c].step = "reserved" /\ caller'[c].key = k /\ caller'[c].payload = caller[c].payload
    BY <1>a, CallerGoesOn DEF Reserve, IdempotencyInv
  <1>3. \A d \in Callers : Owns(d) => Key(d) # k
    BY <1>1 DEF IdempotencyInv, OwnersHoldReservations
  <1>4. \A d \in Callers : d # c => (Owns(d)' <=> Owns(d)) /\ (HasRun(d)' <=> HasRun(d)) /\ Key(d)' = Key(d)
    BY DEF Owns, HasRun, Key
  <1>5. Owns(c)' /\ ~HasRun(c)' /\ Key(c)' = k
    BY <1>2 DEF Owns, HasRun, Key
  <1>6. /\ record'[k].state = "reserved" /\ record'[k].payload = caller'[c].payload
        /\ \A key \in Keys : key # k => record'[key] = record[key]
    BY <1>1, <1>2 DEF IdempotencyInv, IdempotencyTypeOK
  <1>7. \A key : EffectsOf(key)' = EffectsOf(key)
    BY <1>1 DEF EffectsOf
  <1>8. \A d \in Callers : Key(d) \in Keys /\ (HasRun(d) => Owns(d))
    BY DEF IdempotencyInv, IdempotencyTypeOK, Key, CallerStates, Owns, HasRun
  <1>9. OwnersHoldReservations'
    <2> SUFFICES ASSUME NEW d \in Callers, Owns(d)'
                 PROVE  record'[Key(d)'].state = "reserved" /\ record'[Key(d)'].payload = caller'[d].payload
      BY DEF OwnersHoldReservations
    <2>1. CASE d = c
      BY <2>1, <1>5, <1>6
    <2>2. CASE d # c
      BY <2>2, <1>3, <1>4, <1>6, <1>8 DEF OwnersHoldReservations, IdempotencyInv
    <2> QED
      BY <2>1, <2>2
  <1>10. OneOwnerPerKey'
    BY <1>3, <1>4, <1>5 DEF OneOwnerPerKey, IdempotencyInv
  <1>11. FreshKeysHaveNoEffect'
    BY <1>1, <1>3, <1>4, <1>5, <1>6, <1>7 DEF FreshKeysHaveNoEffect, IdempotencyInv
  <1>12. EffectsHavePayload'
    BY <1>4, <1>5, <1>6, <1>7 DEF EffectsHavePayload, IdempotencyInv
  <1>13. OneEffectPerKey'
    BY <1>1 DEF OneEffectPerKey, IdempotencyInv
  <1> QED
    BY <1>9, <1>10, <1>11, <1>12, <1>13 DEF IdempotencyInv

\* The operations run once for the only owner of the key: the first effect of the key,
\* unless they fail.
LEMMA RunKeepsInv ==
  ASSUME IdempotencyInv, IdempotencyTypeOK', NEW c \in Callers,
         NEW outcome \in ApplyOutcomes, RunOperations(c, outcome),
         \A d \in Callers \ {c} : caller'[d] = caller[d]
  PROVE  IdempotencyInv'
  <1>a. PICK k \in Keys : k = caller[c].key
    BY DEF IdempotencyInv, IdempotencyTypeOK, CallerStates
  <1>b. PICK new : new = <<c, k, caller[c].payload, patchesLeft.calls>>
    OBVIOUS
  <1>1. /\ record' = record
        /\ caller[c].step = "applying"
        /\ effects' = IF outcome = "failed" THEN effects ELSE effects \cup {new}
    BY <1>a, <1>b DEF RunOperations, AtStep, Key, IdempotencyInv, IdempotencyTypeOK, CallerStates
  <1>2. /\ caller'[c].step = "applied" /\ caller'[c].key = k /\ caller'[c].payload = caller[c].payload
        /\ caller'[c].outcome = outcome
    BY <1>a, CallerGoesOn DEF RunOperations, IdempotencyInv, Key
  <1>3. Owns(c) /\ ~HasRun(c) /\ Key(c) = k
    BY <1>a, <1>1 DEF Owns, HasRun, Key
  <1>4. \A d \in Callers : d # c =>
          (Owns(d)' <=> Owns(d)) /\ (HasRun(d)' <=> HasRun(d)) /\ Key(d)' = Key(d) /\ caller'[d] = caller[d]
    BY DEF Owns, HasRun, Key
  <1>5. Owns(c)' /\ HasRun(c)' /\ Key(c)' = k
    BY <1>2 DEF Owns, HasRun, Key
  <1>6. EffectsOf(k) = {} /\ record[k].state = "reserved"
    BY <1>1, <1>3 DEF IdempotencyInv, FreshKeysHaveNoEffect, OwnersHoldReservations
  <1>7. new[2] = k /\ new[3] = caller[c].payload
    BY <1>b
  <1>8. \A d \in Callers : d # c /\ Owns(d) => Key(d) # k
    BY <1>3 DEF IdempotencyInv, OneOwnerPerKey
  <1>9. \A d \in Callers : Key(d) \in Keys /\ (HasRun(d) => Owns(d))
    BY DEF IdempotencyInv, IdempotencyTypeOK, Key, CallerStates, Owns, HasRun
  <1>10. /\ \A key : key # k => EffectsOf(key)' = EffectsOf(key)
         /\ EffectsOf(k)' = IF outcome = "failed" THEN {} ELSE {new}
    BY <1>1, <1>6, <1>7 DEF EffectsOf
  <1>11. OwnersHoldReservations'
    <2> SUFFICES ASSUME NEW d \in Callers, Owns(d)'
                 PROVE  record'[Key(d)'].state = "reserved" /\ record'[Key(d)'].payload = caller'[d].payload
      BY DEF OwnersHoldReservations
    <2>1. CASE d = c
      BY <2>1, <1>1, <1>2, <1>3, <1>5 DEF OwnersHoldReservations, IdempotencyInv
    <2>2. CASE d # c
      BY <2>2, <1>1, <1>4 DEF OwnersHoldReservations, IdempotencyInv
    <2> QED
      BY <2>1, <2>2
  <1>12. OneOwnerPerKey'
    BY <1>3, <1>4, <1>5 DEF OneOwnerPerKey, IdempotencyInv
  <1>13. FreshKeysHaveNoEffect'
    <2>1. \A key \in Keys : record'[key].state \in {"none", "failed"} => EffectsOf(key)' = {}
      BY <1>1, <1>6, <1>10 DEF FreshKeysHaveNoEffect, IdempotencyInv
    <2>2. ASSUME NEW d \in Callers, Owns(d)', HasRun(d)' => caller'[d].outcome = "failed"
          PROVE  EffectsOf(Key(d))' = {}
      <3>1. CASE d = c
        BY <2>2, <3>1, <1>2, <1>5, <1>10 DEF EffectsOf
      <3>2. CASE d # c
        <4>1. Key(d)' = Key(d) /\ Key(d) # k /\ EffectsOf(Key(d)) = {}
          BY <2>2, <3>2, <1>4, <1>8 DEF FreshKeysHaveNoEffect, IdempotencyInv
        <4> QED
          BY <4>1, <1>10 DEF EffectsOf
      <3> QED
        BY <3>1, <3>2
    <2> QED
      BY <2>1, <2>2 DEF FreshKeysHaveNoEffect
  <1>14. EffectsHavePayload'
    <2>1. \A key \in Keys : record'[key].state = "applied" => \E e \in EffectsOf(key)' : e[3] = record'[key].payload
      BY <1>1, <1>6, <1>10 DEF EffectsHavePayload, IdempotencyInv
    <2>2. ASSUME NEW d \in Callers, HasRun(d)', caller'[d].outcome # "failed"
          PROVE  \E e \in EffectsOf(Key(d))' : e[3] = caller'[d].payload
      <3>1. CASE d = c
        <4>1. new \in EffectsOf(k)'
          BY <2>2, <3>1, <1>2, <1>10
        <4> QED
          BY <4>1, <3>1, <1>2, <1>5, <1>7 DEF EffectsOf
      <3>2. CASE d # c
        <4>1. Key(d)' = Key(d) /\ Key(d) # k /\ \E e \in EffectsOf(Key(d)) : e[3] = caller[d].payload
          BY <2>2, <3>2, <1>4, <1>8, <1>9 DEF EffectsHavePayload, IdempotencyInv
        <4> QED
          BY <4>1, <3>2, <1>4, <1>10 DEF EffectsOf
      <3> QED
        BY <3>1, <3>2
    <2> QED
      BY <2>1, <2>2 DEF EffectsHavePayload
  <1>15. OneEffectPerKey'
    BY <1>1, <1>6, <1>7 DEF OneEffectPerKey, IdempotencyInv, EffectsOf
  <1> QED
    BY <1>11, <1>12, <1>13, <1>14, <1>15 DEF IdempotencyInv

\* The mark ends the ownership: the record says what came of the one application.
LEMMA MarkKeepsInv ==
  ASSUME IdempotencyInv, IdempotencyTypeOK', NEW c \in Callers, Mark(c),
         \A d \in Callers \ {c} : caller'[d] = caller[d]
  PROVE  IdempotencyInv'
  <1>a. PICK k \in Keys : k = caller[c].key
    BY DEF IdempotencyInv, IdempotencyTypeOK, CallerStates
  <1>1. Owns(c) /\ HasRun(c) /\ Key(c) = k
    BY <1>a DEF Mark, AtStep, Owns, HasRun, Key
  <1>2. record[k].state = "reserved" /\ record[k].payload = caller[c].payload
    BY <1>1 DEF IdempotencyInv, OwnersHoldReservations
  <1>3. /\ effects' = effects /\ caller[c].outcome \in ApplyOutcomes
        /\ record' = [record EXCEPT ![k].state = caller[c].outcome]
    BY <1>a, <1>2 DEF Mark, SamePayload, Key, IdempotencyInv, IdempotencyTypeOK, CallerStates
  <1>4. /\ record'[k].state = caller[c].outcome /\ record'[k].payload = caller[c].payload
        /\ \A key \in Keys : key # k => record'[key] = record[key]
    BY <1>2, <1>3 DEF IdempotencyInv, IdempotencyTypeOK
  <1>5. ~Owns(c)' /\ ~HasRun(c)'
    BY CallerGoesOn DEF Mark, Owns, HasRun, IdempotencyInv
  <1>6. \A d \in Callers : d # c =>
          (Owns(d)' <=> Owns(d)) /\ (HasRun(d)' <=> HasRun(d)) /\ Key(d)' = Key(d) /\ caller'[d] = caller[d]
    BY DEF Owns, HasRun, Key
  <1>7. \A d \in Callers : d # c /\ Owns(d) => Key(d) # k
    BY <1>1 DEF IdempotencyInv, OneOwnerPerKey
  <1>8. \A d \in Callers : Key(d) \in Keys /\ (HasRun(d) => Owns(d))
    BY DEF IdempotencyInv, IdempotencyTypeOK, Key, CallerStates, Owns, HasRun
  <1>9. \A key : EffectsOf(key)' = EffectsOf(key)
    BY <1>3 DEF EffectsOf
  <1>10. OwnersHoldReservations'
    BY <1>4, <1>5, <1>6, <1>7, <1>8 DEF OwnersHoldReservations, IdempotencyInv
  <1>11. OneOwnerPerKey'
    BY <1>5, <1>6 DEF OneOwnerPerKey, IdempotencyInv
  <1>12. caller[c].outcome = "failed" => EffectsOf(k) = {}
    BY <1>1 DEF FreshKeysHaveNoEffect, IdempotencyInv
  <1>13. FreshKeysHaveNoEffect'
    <2>1. \A key \in Keys : record'[key].state \in {"none", "failed"} => EffectsOf(key) = {}
      BY <1>3, <1>4, <1>12 DEF FreshKeysHaveNoEffect, IdempotencyInv, ApplyOutcomes
    <2> QED
      BY <2>1, <1>5, <1>6, <1>9 DEF FreshKeysHaveNoEffect, IdempotencyInv
  <1>14. EffectsHavePayload'
    <2>1. \A key \in Keys : record'[key].state = "applied" => \E e \in EffectsOf(key) : e[3] = record'[key].payload
      BY <1>1, <1>4 DEF EffectsHavePayload, IdempotencyInv
    <2> QED
      BY <2>1, <1>5, <1>6, <1>9 DEF EffectsHavePayload, IdempotencyInv
  <1>15. OneEffectPerKey'
    BY <1>3 DEF OneEffectPerKey, IdempotencyInv
  <1> QED
    BY <1>10, <1>11, <1>13, <1>14, <1>15 DEF IdempotencyInv

\* Planning, taking and releasing locks, answering from the record, and dying.
LEMMA IdempotencyStep == IdempotencyInv /\ [IdempotencyNext]_idempotencyVars => IdempotencyInv'
  <1> SUFFICES ASSUME IdempotencyInv, [IdempotencyNext]_idempotencyVars
               PROVE  IdempotencyInv'
    OBVIOUS
  <1> USE DEF IdempotencyInv
  <1>1. ASSUME NEW c \in Callers, CallerSteps(c)
        PROVE  IdempotencyInv'
    <2>1. IdempotencyTypeOK' /\ \A d \in Callers \ {c} : caller'[d] = caller[d]
      BY <1>1, IdempotencyTypeStep, OneCallerMoves
    <2>2. ASSUME record' = record, effects' = effects,
                 Owns(c)' => /\ Owns(c) /\ (HasRun(c)' <=> HasRun(c))
                             /\ caller'[c].key = caller[c].key /\ caller'[c].payload = caller[c].payload
                             /\ caller'[c].outcome = caller[c].outcome
          PROVE  IdempotencyInv'
      BY <2>1, <2>2, OwnersStay
    <2>3. ASSUME NEW key \in Keys, NEW payload \in Payloads, PlanCall(c, key, payload)
          PROVE  IdempotencyInv'
      BY <2>2, <2>3, CallerGoesOn DEF PlanCall, Owns
    <2>4. CASE TakeLock(c) \/ AnswerFromRecord(c) \/ CrashCaller(c)
      <3>1. caller'[c].step \in {"idle", "deciding"} /\ record' = record /\ effects' = effects
        BY <2>4, CallerGoesOn DEF TakeLock, AnswerFromRecord, CrashCaller
      <3> QED
        BY <2>2, <3>1 DEF Owns
    <2>5. CASE ReleaseReserved(c)
      BY <2>2, <2>5, CallerGoesOn DEF ReleaseReserved, AtStep, Owns, HasRun
    <2>6. CASE TakeLockToMark(c)
      BY <2>2, <2>6, CallerGoesOn DEF TakeLockToMark, AtStep, Owns, HasRun
    <2>7. CASE Reserve(c)
      BY <2>1, <2>7, ReserveKeepsInv
    <2>8. ASSUME NEW outcome \in ApplyOutcomes, RunOperations(c, outcome)
          PROVE  IdempotencyInv'
      BY <2>1, <2>8, RunKeepsInv
    <2>9. CASE Mark(c)
      BY <2>1, <2>9, MarkKeepsInv
    <2> QED
      BY <1>1, <2>3, <2>4, <2>5, <2>6, <2>7, <2>8, <2>9 DEF CallerSteps
  <1>2. CASE ClearMarker \/ UNCHANGED idempotencyVars
    <2>1. UNCHANGED <<caller, record, effects, scopeLock, patchesLeft>> /\ marker' \in BOOLEAN
      BY <1>2 DEF ClearMarker, idempotencyVars, IdempotencyTypeOK
    <2>2. IdempotencyTypeOK'
      BY <2>1 DEF IdempotencyTypeOK
    <2>3. /\ OwnersHoldReservations' /\ OneOwnerPerKey'
      BY <2>1 DEF OwnersHoldReservations, OneOwnerPerKey, Owns, Key
    <2>4. FreshKeysHaveNoEffect' /\ EffectsHavePayload' /\ OneEffectPerKey'
      BY <2>1 DEF FreshKeysHaveNoEffect, EffectsHavePayload, OneEffectPerKey, Owns, HasRun, Key, EffectsOf
    <2> QED
      BY <2>2, <2>3, <2>4
  <1> QED
    BY <1>1, <1>2 DEF IdempotencyNext

\* A set without two different elements has at most one.
LEMMA AtMostOne ==
  ASSUME NEW S, \A x, y \in S : x = y
  PROVE  Cardinality(S) <= 1
  <1>1. CASE S = {}
    BY <1>1, FS_EmptySet
  <1>2. CASE S # {}
    <2>1. PICK x \in S : TRUE
      BY <1>2
    <2>2. S = {x}
      BY <2>1
    <2> QED
      BY <2>2, FS_Singleton
  <1> QED
    BY <1>1, <1>2

\* The inductive invariant: the record's reservation, not the lock, makes one process
\* the owner of a key while it applies, and a key that can be reserved has no effect.
THEOREM IdempotencyInvariant == IdempotencySpec => []IdempotencyInv
  BY IdempotencyStarts, IdempotencyStep, PTL DEF IdempotencySpec

\* However many processes retry a key, with whatever payloads, and wherever any of them
\* dies, at most one application of the key takes effect, and an applied record is of it.
THEOREM KeysTakeEffectOnce == IdempotencySpec => []KeyTakesEffectOnce
  <1>1. IdempotencyInv => KeyTakesEffectOnce
    <2> SUFFICES ASSUME IdempotencyInv, NEW key \in Keys
                 PROVE  /\ Cardinality(EffectsOf(key)) <= 1
                        /\ record[key].state = "applied" => \E e \in EffectsOf(key) : e[3] = record[key].payload
      BY DEF KeyTakesEffectOnce, EffectsOf
    <2>1. \A e, f \in EffectsOf(key) : e = f
      BY DEF IdempotencyInv, OneEffectPerKey, EffectsOf
    <2> QED
      BY <2>1, AtMostOne DEF IdempotencyInv, EffectsHavePayload
  <1> QED
    BY <1>1, IdempotencyInvariant, PTL

(***************************************************************************)
(* Compensation.                                                           *)
(***************************************************************************)

\* Edges join nodes of the graph, and a node that is not there has no default.
WellFormed(g) ==
  /\ g \in Graphs
  /\ \A e \in g.edges : e[1] \in g.nodes /\ e[2] \in g.nodes
  /\ \A n \in Nodes \ g.nodes : g.default[n] = 0

OperationTypes == {"createNode", "setPinDefault", "setNodeEnabled", "setNodeMark", "connectPins", "disconnectPins"}

\* Every operation names nodes, and what it creates is a node of the patch.
LEMMA OperationsNameNodes ==
  ASSUME NEW op \in Operation
  PROVE  /\ op.type \in OperationTypes
         /\ op.from \in Nodes /\ op.to \in Nodes /\ op.value \in 0..1
         /\ op.type = "createNode" => op.to \in TempNodes
  <1>2. \A type : \A o \in OnEdge(type) :
          o.type = type /\ o.from \in Nodes /\ o.to \in Nodes /\ o.value = 0
    BY DEF OnEdge
  <1>3. TempNodes \subseteq Nodes
    BY DEF TempNodes
  <1>4. CASE op \in OnNode("createNode", TempNodes, {1})
    BY <1>4, <1>3 DEF OnNode, OperationTypes
  <1>5. CASE op \in OnNode("setPinDefault", Nodes, {1})
    BY <1>5 DEF OnNode, OperationTypes
  <1>6. CASE op \in OnNode("setNodeEnabled", Nodes, {0})
    BY <1>6 DEF OnNode, OperationTypes
  <1>7. CASE op \in OnNode("setNodeMark", Nodes, {1})
    BY <1>7 DEF OnNode, OperationTypes
  <1>8. CASE op \in OnEdge("connectPins") \/ op \in OnEdge("disconnectPins")
    BY <1>2, <1>8 DEF OperationTypes
  <1> QED
    BY <1>4, <1>5, <1>6, <1>7, <1>8 DEF Operation

\* Two graphs are the same when their parts are.
LEMMA GraphsAreTheirParts ==
  ASSUME NEW g \in Graphs, NEW h \in Graphs,
         g.nodes = h.nodes, g.edges = h.edges, g.default = h.default, g.enabled = h.enabled, g.mark = h.mark
  PROVE  g = h
  BY DEF Graphs

\* A valid operation that creates no node the graph has already.
AppliesTo(g, op) == Valid(g, op) /\ (op.type = "createNode" => op.to \notin g.nodes)

\* It leaves the graph well formed, and its inverse takes it back.
LEMMA InverseTakesBack ==
  ASSUME NEW g, WellFormed(g), NEW op \in Operation, AppliesTo(g, op)
  PROVE  /\ WellFormed(Applied(g, op))
         /\ TakenBack(Applied(g, op), Inverted(g, op)) = g
  <1> DEFINE h == Applied(g, op)
             inverse == Inverted(g, op)
             b == TakenBack(h, inverse)
  <1>1. /\ op.type \in OperationTypes
        /\ op.from \in Nodes /\ op.to \in Nodes /\ op.value \in 0..1
    BY OperationsNameNodes
  <1>2. /\ inverse.kind = op.type /\ inverse.from = op.from /\ inverse.to = op.to
        /\ op.type = "setPinDefault" => inverse.old = g.default[op.to]
        /\ op.type = "setNodeEnabled" => inverse.old = g.enabled[op.to]
        /\ op.type = "setNodeMark" => inverse.old = g.mark[op.to]
    BY DEF Inverted
  <1>3. /\ g.nodes \in SUBSET Nodes /\ g.edges \in SUBSET (Nodes \X Nodes)
        /\ g.default \in [Nodes -> 0..1] /\ g.enabled \in [Nodes -> 0..1] /\ g.mark \in [Nodes -> 0..1]
    BY DEF WellFormed, Graphs
  <1>a. g \in Graphs
    BY DEF WellFormed
  <1> HIDE DEF inverse
  <1>4. CASE op.type = "createNode"
    <2>1. h = [g EXCEPT !.nodes = @ \cup {op.to}, !.default[op.to] = op.value]
      BY <1>4 DEF Applied
    <2>2. op.to \notin g.nodes
      BY <1>4 DEF AppliesTo
    <2>3. /\ h \in Graphs /\ h.nodes = g.nodes \cup {op.to} /\ h.edges = g.edges
          /\ h.default = [g.default EXCEPT ![op.to] = op.value] /\ h.enabled = g.enabled /\ h.mark = g.mark
      <3>1. PICK m : m = [g EXCEPT !.nodes = g.nodes \cup {op.to}]
        OBVIOUS
      <3>2. /\ m \in Graphs /\ m.nodes = g.nodes \cup {op.to} /\ m.edges = g.edges
            /\ m.default = g.default /\ m.enabled = g.enabled /\ m.mark = g.mark
        BY <1>1, <1>3, <1>a, <3>1 DEF Graphs
      <3>3. PICK d : d = [g.default EXCEPT ![op.to] = op.value]
        OBVIOUS
      <3>4. d \in [Nodes -> 0..1]
        BY <1>1, <1>3, <3>3
      <3>5. h = [m EXCEPT !.default = d]
        BY <2>1, <3>1, <3>3
      <3> QED
        BY <3>2, <3>3, <3>4, <3>5 DEF Graphs
    <2> HIDE DEF h
    <2>4. WellFormed(h)
      BY <1>1, <1>3, <2>3 DEF WellFormed
    <2>5. b = [h EXCEPT !.nodes = @ \ {op.to}, !.edges = {e \in @ : op.to \notin {e[1], e[2]}},
                        !.default[op.to] = 0]
      BY <1>2, <1>4 DEF TakenBack
    <2>6. h.nodes \ {op.to} = g.nodes
      BY <2>2, <2>3
    <2>7. {e \in h.edges : op.to \notin {e[1], e[2]}} = g.edges
      BY <2>2, <2>3 DEF WellFormed
    <2>8. [h.default EXCEPT ![op.to] = 0] = g.default
      BY <1>1, <1>3, <2>2, <2>3 DEF WellFormed
    <2>9. /\ b \in Graphs /\ b.nodes = g.nodes /\ b.edges = g.edges /\ b.default = g.default
            /\ b.enabled = g.enabled /\ b.mark = g.mark
      BY <1>3, <2>3, <2>5, <2>6, <2>7, <2>8 DEF Graphs
    <2>10. b = g
      BY <1>a, <2>9, GraphsAreTheirParts
    <2> QED
      BY <2>4, <2>10 DEF h, inverse
  <1>5. CASE op.type = "connectPins"
    <2>1. h = [g EXCEPT !.edges = @ \cup {<<op.from, op.to>>}]
      BY <1>5 DEF Applied
    <2>2. <<op.from, op.to>> \notin g.edges /\ op.from \in g.nodes /\ op.to \in g.nodes
      BY <1>5 DEF AppliesTo, Valid, HasInput
    <2>3. /\ h \in Graphs /\ h.nodes = g.nodes /\ h.edges = g.edges \cup {<<op.from, op.to>>}
          /\ h.default = g.default /\ h.enabled = g.enabled /\ h.mark = g.mark
      BY <1>1, <2>1 DEF WellFormed, Graphs
    <2> HIDE DEF h
    <2>4. WellFormed(h)
      BY <1>1, <1>3, <2>2, <2>3 DEF WellFormed
    <2>5. b = [h EXCEPT !.edges = @ \ {<<op.from, op.to>>}]
      BY <1>2, <1>5 DEF TakenBack
    <2>6. /\ b \in Graphs /\ b.nodes = g.nodes /\ b.edges = g.edges /\ b.default = g.default
            /\ b.enabled = g.enabled /\ b.mark = g.mark
      BY <1>3, <2>2, <2>3, <2>5 DEF Graphs
    <2>10. b = g
      BY <1>a, <2>6, GraphsAreTheirParts
    <2> QED
      BY <2>4, <2>10 DEF h, inverse
  <1>6. CASE op.type = "disconnectPins"
    <2>1. h = [g EXCEPT !.edges = @ \ {<<op.from, op.to>>}]
      BY <1>6 DEF Applied
    <2>2. <<op.from, op.to>> \in g.edges
      BY <1>6 DEF AppliesTo, Valid
    <2>3. /\ h \in Graphs /\ h.nodes = g.nodes /\ h.edges = g.edges \ {<<op.from, op.to>>}
          /\ h.default = g.default /\ h.enabled = g.enabled /\ h.mark = g.mark
      BY <1>1, <2>1 DEF WellFormed, Graphs
    <2> HIDE DEF h
    <2>4. WellFormed(h)
      BY <1>1, <1>3, <2>2, <2>3 DEF WellFormed
    <2>5. b = [h EXCEPT !.edges = @ \cup {<<op.from, op.to>>}]
      BY <1>2, <1>6 DEF TakenBack
    <2>6. /\ b \in Graphs /\ b.nodes = g.nodes /\ b.edges = g.edges /\ b.default = g.default
            /\ b.enabled = g.enabled /\ b.mark = g.mark
      BY <1>1, <1>3, <2>2, <2>3, <2>5 DEF Graphs
    <2>10. b = g
      BY <1>a, <2>6, GraphsAreTheirParts
    <2> QED
      BY <2>4, <2>10 DEF h, inverse
  <1>7. CASE op.type = "setPinDefault"
    <2>1. h = [g EXCEPT !.default[op.to] = op.value]
      BY <1>7 DEF Applied
    <2>2. op.to \in g.nodes
      BY <1>7 DEF AppliesTo, Valid
    <2>3. /\ h \in Graphs /\ h.nodes = g.nodes /\ h.edges = g.edges
          /\ h.default = [g.default EXCEPT ![op.to] = op.value] /\ h.enabled = g.enabled /\ h.mark = g.mark
      BY <1>1, <2>1 DEF WellFormed, Graphs
    <2> HIDE DEF h
    <2>4. WellFormed(h)
      BY <1>1, <1>3, <2>2, <2>3 DEF WellFormed
    <2>5. b = [h EXCEPT !.default[op.to] = g.default[op.to]]
      BY <1>2, <1>7 DEF TakenBack
    <2>6. /\ b \in Graphs /\ b.nodes = g.nodes /\ b.edges = g.edges /\ b.default = g.default
            /\ b.enabled = g.enabled /\ b.mark = g.mark
      BY <1>1, <1>3, <2>3, <2>5 DEF Graphs
    <2>10. b = g
      BY <1>a, <2>6, GraphsAreTheirParts
    <2> QED
      BY <2>4, <2>10 DEF h, inverse
  <1>8. CASE op.type = "setNodeMark"
    <2>1. h = [g EXCEPT !.mark[op.to] = op.value]
      BY <1>8 DEF Applied
    <2>3. /\ h \in Graphs /\ h.nodes = g.nodes /\ h.edges = g.edges
          /\ h.default = g.default /\ h.enabled = g.enabled /\ h.mark = [g.mark EXCEPT ![op.to] = op.value]
      BY <1>1, <2>1 DEF WellFormed, Graphs
    <2> HIDE DEF h
    <2>4. WellFormed(h)
      BY <1>1, <1>3, <2>3 DEF WellFormed
    <2>5. b = [h EXCEPT !.mark[op.to] = g.mark[op.to]]
      BY <1>2, <1>8 DEF TakenBack
    <2>6. /\ b \in Graphs /\ b.nodes = g.nodes /\ b.edges = g.edges /\ b.default = g.default
            /\ b.enabled = g.enabled /\ b.mark = g.mark
      BY <1>1, <1>3, <2>3, <2>5 DEF Graphs
    <2>10. b = g
      BY <1>a, <2>6, GraphsAreTheirParts
    <2> QED
      BY <2>4, <2>10 DEF h, inverse
  <1>9. CASE op.type = "setNodeEnabled"
    <2>1. h = [g EXCEPT !.enabled[op.to] = op.value]
      BY <1>9 DEF Applied
    <2>3. /\ h \in Graphs /\ h.nodes = g.nodes /\ h.edges = g.edges
          /\ h.default = g.default /\ h.mark = g.mark /\ h.enabled = [g.enabled EXCEPT ![op.to] = op.value]
      BY <1>1, <2>1 DEF WellFormed, Graphs
    <2> HIDE DEF h
    <2>4. WellFormed(h)
      BY <1>1, <1>3, <2>3 DEF WellFormed
    <2>5. b = [h EXCEPT !.enabled[op.to] = g.enabled[op.to]]
      BY <1>2, <1>9 DEF TakenBack
    <2>6. /\ b \in Graphs /\ b.nodes = g.nodes /\ b.edges = g.edges /\ b.default = g.default
            /\ b.enabled = g.enabled /\ b.mark = g.mark
      BY <1>1, <1>3, <2>3, <2>5 DEF Graphs
    <2>10. b = g
      BY <1>a, <2>6, GraphsAreTheirParts
    <2> QED
      BY <2>4, <2>10 DEF h, inverse
  <1> QED
    BY <1>1, <1>4, <1>5, <1>6, <1>7, <1>8, <1>9 DEF inverse, OperationTypes

WellFormedGraphs == {g \in Graphs : WellFormed(g)}
Inverses == {Inverted(g, op) : g \in Graphs, op \in Operation}

\* The operations that may have their turn once those of a set have had theirs.
Firsts(order, k) == {order[i] : i \in 1..k}
ReadyAfter(taken) == {i \in DOMAIN request.operations \ taken : Dependencies(i) \subseteq taken}

\* In this order operations get their turn, each of them valid, and make these graphs
\* from the caller's.
Turns(order, chain) ==
  /\ order \in Seq(DOMAIN request.operations) /\ chain \in [Nat -> WellFormedGraphs]
  /\ chain[0] = graph
  /\ \A k \in 1..Len(order) :
       /\ ReadyAfter(Firsts(order, k - 1)) # {}
       /\ order[k] = Min(ReadyAfter(Firsts(order, k - 1)))
       /\ AppliesTo(chain[k - 1], Op(order[k]))
       /\ chain[k] = Applied(chain[k - 1], Op(order[k]))

Complete(order) == ReadyAfter(Firsts(order, Len(order))) = {}

\* The inverses lead back along these graphs.
LeadBack(chain) ==
  /\ chain \in [Nat -> WellFormedGraphs] /\ chain[0] = graph
  /\ inverses \in Seq(Inverses)
  /\ working = chain[Len(inverses)]
  /\ \A k \in 1..Len(inverses) : TakenBack(chain[k], inverses[k]) = chain[k - 1]

\* A patch creates a node once, and while it is planned the nodes it may create are there
\* only if it has.
CreatedOnce ==
  \A k, l \in DOMAIN request.operations :
    Op(k).type = "createNode" /\ Op(l).type = "createNode" /\ Op(k).to = Op(l).to => k = l
CreatedSoFar ==
  /\ stage = "idle" => \A n \in graph.nodes : n \notin TempNodes
  /\ stage = "planning" =>
       \A n \in working.nodes : n \in TempNodes =>
         \E i \in ToSet(done) : i \in DOMAIN request.operations /\ Op(i).type = "createNode" /\ Op(i).to = n

\* While operations are applied, the plan that was accepted says what is still to come.
GraphInv ==
  /\ graph \in WellFormedGraphs
  /\ request.operations \in Seq(Operation)
  /\ stage \in {"idle", "planning"} => inverses = <<>>
  /\ stage = "idle" => done = <<>>
  /\ CreatedOnce /\ CreatedSoFar
  /\ stage = "planning" => \E chain : Turns(done, chain) /\ working = chain[Len(done)]
  /\ stage = "applying" =>
       \E order, chain :
         /\ Turns(order, chain) /\ Complete(order) /\ LeadBack(chain)
         /\ done \in Seq(DOMAIN request.operations) /\ Len(done) = Len(inverses) /\ Len(done) <= Len(order)
         /\ \A k \in 1..Len(done) : done[k] = order[k]
  /\ stage = "compensating" => \E chain : LeadBack(chain)
  /\ CompensationRestores

\* A set of numbers has a least one, which Min is.
LEMMA MinIsLeast ==
  ASSUME NEW S \in SUBSET Nat, S # {}
  PROVE  Min(S) \in S
  <1> DEFINE Less == {p \in Nat \X Nat : p[1] < p[2]}
  <1>1. IsWellFoundedOn(Less, Nat)
    BY NatLessThanWellFounded DEF OpToRel
  <1>2. \E x \in S : \A y \in S : <<y, x>> \notin Less
    <2> HIDE DEF Less
    <2> QED
      BY <1>1, WFMin
  <1>3. \A x, y \in Nat : y < x => <<y, x>> \in Less
    OBVIOUS
  <1>4. \A x, y \in Nat : <<y, x>> \notin Less => x <= y
    <2> HIDE DEF Less
    <2> QED
      BY <1>3
  <1>5. \E x \in S : \A y \in S : x <= y
    <2> HIDE DEF Less
    <2> QED
      BY <1>2, <1>4
  <1> QED
    BY <1>5 DEF Min

\* What the caller's patch and graph determine stays while they do.
LEMMA TurnsStay ==
  ASSUME NEW order, NEW chain, Turns(order, chain), request' = request, graph' = graph
  PROVE  Turns(order, chain)' /\ (Complete(order) => Complete(order)')
  <1>1. \A i : Op(i)' = Op(i)
    BY DEF Op
  <1>2. \A i : Dependencies(i)' = Dependencies(i)
    BY <1>1 DEF Dependencies
  <1>3. \A taken : ReadyAfter(taken)' = ReadyAfter(taken)
    BY <1>2 DEF ReadyAfter
  <1> QED
    BY <1>1, <1>3 DEF Turns, Complete

\* The operations handled are those of done.
LEMMA ReadyIsReadyAfter ==
  ASSUME NEW S, done \in Seq(S)
  PROVE  Ready = ReadyAfter(Firsts(done, Len(done)))
  BY DEF Ready, ReadyAfter, Firsts, ToSet

\* The next operation of a patch is one of its own.
LEMMA NextIsAnOperation ==
  ASSUME request.operations \in Seq(Operation), Ready # {}
  PROVE  NextOperation \in DOMAIN request.operations /\ Op(NextOperation) \in Operation
  <1>1. Ready \subseteq DOMAIN request.operations /\ DOMAIN request.operations \subseteq Nat
    BY DEF Ready
  <1>2. NextOperation \in Ready
    BY <1>1, MinIsLeast DEF NextOperation
  <1> QED
    BY <1>1, <1>2 DEF Op

\* What a patch creates once it goes on creating once, and only its planning is followed.
LEMMA CreationsStay ==
  ASSUME GraphInv, request' = request, stage' \notin {"idle", "planning"}
  PROVE  CreatedOnce' /\ CreatedSoFar'
  <1>1. \A k : Op(k)' = Op(k)
    BY DEF Op
  <1> QED
    BY <1>1 DEF GraphInv, CreatedOnce, CreatedSoFar

\* What is created in its turn was not there.
LEMMA TurnsFit ==
  ASSUME GraphInv, stage = "planning", Ready # {}, Valid(working, Op(NextOperation))
  PROVE  AppliesTo(working, Op(NextOperation))
  <1>1. NextOperation \in DOMAIN request.operations /\ Op(NextOperation) \in Operation /\ NextOperation \notin ToSet(done)
    <2>1. Ready \subseteq DOMAIN request.operations /\ DOMAIN request.operations \subseteq Nat
      BY DEF Ready, GraphInv
    <2>2. NextOperation \in Ready
      BY <2>1, MinIsLeast DEF NextOperation
    <2> QED
      BY <2>2, NextIsAnOperation DEF Ready, GraphInv
  <1>2. ASSUME Op(NextOperation).type = "createNode", Op(NextOperation).to \in working.nodes
        PROVE  FALSE
    <2>1. Op(NextOperation).to \in TempNodes
      BY <1>1, <1>2, OperationsNameNodes
    <2>2. PICK i \in ToSet(done) : /\ i \in DOMAIN request.operations /\ Op(i).type = "createNode"
                                   /\ Op(i).to = Op(NextOperation).to
      BY <1>2, <2>1 DEF GraphInv, CreatedSoFar
    <2>3. i = NextOperation
      BY <1>1, <1>2, <2>2 DEF GraphInv, CreatedOnce
    <2> QED
      BY <1>1, <2>2, <2>3
  <1> QED
    BY <1>2 DEF AppliesTo

\* An operation adds at most the node it creates.
LEMMA AppliedNodes ==
  ASSUME NEW g \in Graphs, NEW op \in Operation, NEW n \in Applied(g, op).nodes
  PROVE  n \in g.nodes \/ (op.type = "createNode" /\ n = op.to)
  <1>1. CASE op.type = "createNode"
    BY <1>1 DEF Applied, Graphs
  <1>2. CASE op.type # "createNode"
    <2>1. Applied(g, op).nodes = g.nodes
      BY <1>2, OperationsNameNodes DEF Applied, Graphs, OperationTypes
    <2> QED
      BY <2>1
  <1> QED
    BY <1>1, <1>2

\* The nodes of the graph being planned are accounted for after one more operation.
LEMMA CreationsAreAccounted ==
  ASSUME GraphInv, stage = "planning", Ready # {}, working \in Graphs, done \in Seq(DOMAIN request.operations),
         working' = Applied(working, Op(NextOperation)), done' = Append(done, NextOperation), request' = request,
         stage' = "planning"
  PROVE  CreatedOnce' /\ CreatedSoFar'
  <1>1. PICK next \in DOMAIN request.operations : next = NextOperation /\ Op(next) \in Operation
    BY NextIsAnOperation DEF GraphInv
  <1>2. \A k : Op(k)' = Op(k)
    BY DEF Op
  <1>3. CreatedOnce'
    BY <1>2 DEF GraphInv, CreatedOnce
  <1>4. ToSet(done)' = ToSet(done) \cup {next}
    BY <1>1 DEF ToSet
  <1>5. ASSUME NEW n \in working'.nodes, n \in TempNodes
        PROVE  \E i \in ToSet(done)' : i \in DOMAIN request.operations /\ Op(i).type = "createNode" /\ Op(i).to = n
    <2>1. CASE n \in working.nodes
      BY <1>4, <1>5, <2>1 DEF GraphInv, CreatedSoFar
    <2>2. CASE n \notin working.nodes
      <3>1. Op(next).type = "createNode" /\ n = Op(next).to
        BY <1>1, <1>5, <2>2, AppliedNodes
      <3> QED
        BY <1>1, <1>4, <3>1
    <2> QED
      BY <2>1, <2>2
  <1> QED
    BY <1>2, <1>3, <1>5 DEF CreatedSoFar

\* The caller's graph is well formed to begin with, and no patch is at work.
LEMMA GraphStarts == GraphInit => GraphInv
  <1> SUFFICES ASSUME GraphInit PROVE GraphInv
    OBVIOUS
  <1>1. GraphNodes \subseteq Nodes
    BY GraphAssumption DEF GraphNodes, Nodes
  <1>2. graph \in WellFormedGraphs
    <2>1. /\ graph.nodes = GraphNodes
          /\ \A e \in graph.edges : e[1] \in GraphNodes /\ e[2] \in GraphNodes /\ e \in Nodes \X Nodes
          /\ graph.default = [n \in Nodes |-> 0] /\ graph.enabled = [n \in Nodes |-> 1]
          /\ graph.mark = [n \in Nodes |-> 0]
      BY <1>1, GraphAssumption DEF GraphInit, GraphNodes
    <2>2. graph \in Graphs
      <3>1. graph.edges \in SUBSET (Nodes \X Nodes)
        BY <2>1
      <3> QED
        BY <1>1, <2>1, <3>1 DEF GraphInit, Graphs
    <2> QED
      BY <2>1, <2>2 DEF WellFormedGraphs, WellFormed
  <1>3. stage = "idle" /\ done = <<>> /\ inverses = <<>>
    BY DEF GraphInit
  <1>4. request.operations \in Seq(Operation)
    BY DEF GraphInit, NoRequest
  <1>5. CreatedOnce
    BY DEF GraphInit, NoRequest, CreatedOnce
  <1>6. CreatedSoFar
    <2>1. graph.nodes = GraphNodes
      BY DEF GraphInit
    <2> QED
      BY <1>3, <2>1 DEF CreatedSoFar, TempNodes
  <1> QED
    BY <1>2, <1>3, <1>4, <1>5, <1>6 DEF GraphInv, CompensationRestores

\* A patch starts on a copy of the caller's graph.
LEMMA SubmitKeepsInv ==
  ASSUME GraphInv, stage = "idle", NEW ops \in SeqOf(Operation, MaxOperations), NEW i, NEW j,
         SubmitPatch(ops, i, j)
  PROVE  GraphInv'
  <1>1. ops \in Seq(Operation)
    BY GraphAssumption DEF SeqOf
  <1>2. /\ request'.operations = ops /\ stage' = "planning" /\ working' = graph /\ graph' = graph
        /\ done' = <<>> /\ inverses' = <<>>
    BY DEF SubmitPatch, GraphInv
  <1> DEFINE chain == [n \in Nat |-> graph]
  <1>3. PICK c : c = chain
    OBVIOUS
  <1>4. c \in [Nat -> WellFormedGraphs] /\ c[0] = graph
    BY <1>3 DEF GraphInv
  <1>5. Turns(<<>>, c)'
    BY <1>2, <1>4 DEF Turns, WellFormedGraphs, WellFormed
  <1>6. \E d : Turns(done, d)' /\ working' = d[Len(done')]
    BY <1>2, <1>4, <1>5
  <1>7. graph' \in WellFormedGraphs'
    BY <1>2 DEF GraphInv, WellFormedGraphs, WellFormed
  <1>8. CreatedOnce'
    <2>1. \A k, l \in DOMAIN ops :
            ops[k].type = "createNode" /\ ops[l].type = "createNode" /\ ops[k].to = ops[l].to => k = l
      BY DEF SubmitPatch
    <2>2. \A k : Op(k)' = ops[k]
      BY <1>2 DEF Op
    <2> QED
      BY <1>2, <2>1, <2>2 DEF CreatedOnce
  <1>9. CreatedSoFar'
    BY <1>2 DEF GraphInv, CreatedSoFar
  <1> QED
    BY <1>1, <1>2, <1>6, <1>7, <1>8, <1>9 DEF GraphInv, CompensationRestores

\* An operation that is valid in its turn makes the next graph.
LEMMA PlanKeepsInv == ASSUME GraphInv, PlanOperation PROVE GraphInv'
  <1>1. /\ stage = "planning" /\ Ready # {} /\ inverses = <<>>
        /\ UNCHANGED <<graph, request, inverses>>
    BY DEF PlanOperation, GraphInv
  <1>2. CASE ~Valid(working, Op(NextOperation))
    BY <1>1, <1>2, CreationsStay DEF PlanOperation, GraphInv, CompensationRestores, WellFormedGraphs, WellFormed
  <1>3. CASE Valid(working, Op(NextOperation))
    <2>1. PICK chain : Turns(done, chain) /\ working = chain[Len(done)]
      BY <1>1 DEF GraphInv
    <2>2. PICK n \in Nat : n = Len(done)
      BY <2>1 DEF Turns
    <2>3. PICK next \in DOMAIN request.operations : next = NextOperation /\ Op(next) \in Operation
      BY <1>1, NextIsAnOperation DEF GraphInv
    <2>4. PICK g : g = Applied(chain[n], Op(next))
      OBVIOUS
    <2>5. chain[n] \in WellFormedGraphs /\ chain \in [Nat -> WellFormedGraphs] /\ done \in Seq(DOMAIN request.operations)
      BY <2>1 DEF Turns
    <2>f. AppliesTo(chain[n], Op(next))
      BY <1>1, <1>3, <2>1, <2>2, <2>3, TurnsFit
    <2>6. g \in WellFormedGraphs
      BY <2>f, <2>3, <2>4, <2>5, InverseTakesBack DEF WellFormedGraphs, WellFormed
    <2>7. PICK longer : longer = [chain EXCEPT ![n + 1] = g]
      OBVIOUS
    <2>8. PICK order : order = Append(done, next)
      OBVIOUS
    <2>9. /\ longer \in [Nat -> WellFormedGraphs] /\ longer[0] = graph
          /\ longer[n + 1] = g /\ \A k \in 0..n : longer[k] = chain[k]
      BY <2>1, <2>5, <2>6, <2>7 DEF Turns
    <2>10. /\ order \in Seq(DOMAIN request.operations) /\ Len(order) = n + 1
           /\ order[n + 1] = next /\ \A k \in 1..n : order[k] = done[k]
      BY <2>2, <2>5, <2>8
    <2>11. \A k \in 0..n : Firsts(order, k) = Firsts(done, k)
      BY <2>10 DEF Firsts
    <2>12. /\ ReadyAfter(Firsts(order, n)) # {}
           /\ next = Min(ReadyAfter(Firsts(order, n)))
      BY <1>1, <2>2, <2>3, <2>5, <2>11, ReadyIsReadyAfter DEF NextOperation
    <2>13. ASSUME NEW k \in 1..Len(order)
           PROVE  /\ ReadyAfter(Firsts(order, k - 1)) # {}
                  /\ order[k] = Min(ReadyAfter(Firsts(order, k - 1)))
                  /\ AppliesTo(longer[k - 1], Op(order[k]))
                  /\ longer[k] = Applied(longer[k - 1], Op(order[k]))
      <3>1. CASE k = n + 1
        <4>1. k - 1 = n /\ longer[k - 1] = chain[n] /\ order[k] = next /\ longer[k] = g
          BY <2>9, <2>10, <3>1
        <4> QED
          BY <2>f, <2>4, <2>12, <4>1
      <3>2. CASE k # n + 1
        <4>1. /\ k \in 1..Len(done) /\ k \in 0..n /\ k - 1 \in 0..n
          BY <2>2, <2>10, <3>2
        <4>2. order[k] = done[k] /\ longer[k] = chain[k] /\ longer[k - 1] = chain[k - 1]
              /\ Firsts(order, k - 1) = Firsts(done, k - 1)
          BY <2>2, <2>9, <2>10, <2>11, <4>1
        <4> QED
          BY <2>1, <4>1, <4>2 DEF Turns
      <3> QED
        BY <3>1, <3>2
    <2>14. Turns(order, longer)
      BY <2>9, <2>10, <2>13 DEF Turns
    <2>15. done' = order /\ working' = longer[Len(done')] /\ stage' = "planning"
      BY <1>1, <1>3, <2>1, <2>2, <2>3, <2>4, <2>8, <2>9, <2>10 DEF PlanOperation
    <2>16. Turns(done, longer)'
      BY <1>1, <2>14, <2>15, TurnsStay
    <2>17. graph' \in WellFormedGraphs' /\ request'.operations \in Seq(Operation)
      BY <1>1 DEF GraphInv, WellFormedGraphs, WellFormed
    <2>18. CreatedOnce' /\ CreatedSoFar'
      BY <1>1, <1>3, <2>1, <2>2, <2>5, <2>15, CreationsAreAccounted DEF PlanOperation, WellFormedGraphs
    <2> QED
      BY <1>1, <2>15, <2>16, <2>17, <2>18 DEF GraphInv, CompensationRestores
  <1> QED
    BY <1>2, <1>3

\* The order of the accepted plan is what the operations are applied in.
LEMMA AcceptKeepsInv == ASSUME GraphInv, AcceptPlan PROVE GraphInv'
  <1>1. /\ stage = "planning" /\ Ready = {} /\ inverses = <<>>
        /\ stage' \in {"applying", "rejected"} /\ working' = graph /\ done' = <<>>
        /\ UNCHANGED <<graph, request, inverses>>
    BY DEF AcceptPlan, GraphInv
  <1>2. PICK chain : Turns(done, chain)
    BY <1>1 DEF GraphInv
  <1>3. PICK order : order = done
    OBVIOUS
  <1>4. Turns(order, chain) /\ Complete(order) /\ order \in Seq(DOMAIN request.operations)
    BY <1>1, <1>2, <1>3, ReadyIsReadyAfter DEF Turns, Complete
  <1>5. Turns(order, chain)' /\ Complete(order)'
    BY <1>1, <1>4, TurnsStay
  <1>6. LeadBack(chain)'
    <2>1. chain \in [Nat -> WellFormedGraphs] /\ chain[0] = graph /\ WellFormedGraphs' = WellFormedGraphs /\ Inverses' = Inverses
      BY <1>4 DEF Turns, WellFormedGraphs, WellFormed, Inverses
    <2> QED
      BY <1>1, <2>1 DEF LeadBack
  <1>7. graph' \in WellFormedGraphs' /\ request'.operations \in Seq(Operation)
    BY <1>1 DEF GraphInv, WellFormedGraphs, WellFormed
  <1>8. Len(order) \in Nat
    BY <1>4
  <1> QED
    BY <1>1, <1>5, <1>6, <1>7, <1>8, CreationsStay DEF GraphInv, CompensationRestores

\* While the plan has operations to come, the one whose turn it is is the plan's: it is
\* valid on the graph it meets, and its inverse leads back to that graph.
LEMMA ApplyKeepsInv == ASSUME GraphInv, ApplyOperation PROVE GraphInv'
  <1>1. /\ stage = "applying" /\ stage' = "applying" /\ Ready # {}
        /\ working' = Applied(working, Op(NextOperation))
        /\ inverses' = Append(inverses, Inverted(working, Op(NextOperation)))
        /\ done' = Append(done, NextOperation)
        /\ UNCHANGED <<graph, request>>
    BY DEF ApplyOperation
  <1>2. PICK order, chain :
         /\ Turns(order, chain) /\ Complete(order) /\ LeadBack(chain)
         /\ done \in Seq(DOMAIN request.operations) /\ Len(done) = Len(inverses) /\ Len(done) <= Len(order)
         /\ \A k \in 1..Len(done) : done[k] = order[k]
    BY <1>1 DEF GraphInv
  <1>3. PICK n \in Nat : n = Len(done)
    BY <1>2
  <1>4. PICK next \in DOMAIN request.operations : next = NextOperation /\ Op(next) \in Operation
    BY <1>1, NextIsAnOperation DEF GraphInv
  <1>5. order \in Seq(DOMAIN request.operations) /\ chain \in [Nat -> WellFormedGraphs]
    BY <1>2 DEF Turns
  <1>6. Firsts(done, n) = Firsts(order, n)
    BY <1>2, <1>3 DEF Firsts
  <1>7. Ready = ReadyAfter(Firsts(order, n))
    BY <1>2, <1>3, <1>6, ReadyIsReadyAfter
  <1>8. n < Len(order)
    <2>1. n # Len(order)
      BY <1>1, <1>2, <1>7 DEF Complete
    <2> QED
      BY <1>2, <1>3, <1>5, <2>1
  <1>9. /\ next = order[n + 1] /\ AppliesTo(chain[n], Op(next)) /\ chain[n + 1] = Applied(chain[n], Op(next))
    <2>1. n + 1 \in 1..Len(order) /\ (n + 1) - 1 = n
      BY <1>5, <1>8
    <2> QED
      BY <1>2, <1>4, <1>7, <2>1 DEF Turns, NextOperation
  <1>10. PICK inverse : inverse = Inverted(chain[n], Op(next))
    OBVIOUS
  <1>11. inverse \in Inverses /\ TakenBack(chain[n + 1], inverse) = chain[n]
    BY <1>4, <1>5, <1>9, <1>10, InverseTakesBack DEF Inverses, WellFormedGraphs, WellFormed
  <1>12. working = chain[n] /\ inverses \in Seq(Inverses) /\ Len(inverses) = n
    BY <1>2, <1>3 DEF LeadBack
  <1>13. /\ working' = chain[n + 1] /\ inverses' = Append(inverses, inverse) /\ done' = Append(done, next)
    BY <1>1, <1>4, <1>9, <1>10, <1>12
  <1>14. /\ inverses' \in Seq(Inverses) /\ Len(inverses') = n + 1
         /\ inverses'[n + 1] = inverse /\ \A k \in 1..n : inverses'[k] = inverses[k]
    BY <1>11, <1>12, <1>13
  <1>15. /\ done' \in Seq(DOMAIN request.operations) /\ Len(done') = n + 1
         /\ done'[n + 1] = next /\ \A k \in 1..n : done'[k] = done[k]
    BY <1>2, <1>3, <1>13
  <1>16. \A k \in 1..(n + 1) : TakenBack(chain[k], inverses'[k]) = chain[k - 1]
    <2>1. \A k \in 1..n : TakenBack(chain[k], inverses[k]) = chain[k - 1]
      BY <1>2, <1>12 DEF LeadBack
    <2>2. \A k \in 1..(n + 1) : k = n + 1 \/ k \in 1..n
      OBVIOUS
    <2>3. (n + 1) - 1 = n
      OBVIOUS
    <2> QED
      BY <1>11, <1>14, <2>1, <2>2, <2>3
  <1>17. LeadBack(chain)'
    <2>1. WellFormedGraphs' = WellFormedGraphs /\ Inverses' = Inverses
      BY DEF WellFormedGraphs, WellFormed, Inverses
    <2> QED
      BY <1>1, <1>2, <1>13, <1>14, <1>16, <2>1 DEF LeadBack
  <1>18. Turns(order, chain)' /\ Complete(order)'
    BY <1>1, <1>2, TurnsStay
  <1>19. /\ Len(done') = Len(inverses') /\ Len(done') <= Len(order)
         /\ \A k \in 1..Len(done') : done'[k] = order[k]
    BY <1>2, <1>3, <1>5, <1>8, <1>9, <1>14, <1>15
  <1>20. graph' \in WellFormedGraphs' /\ request'.operations \in Seq(Operation)
    BY <1>1 DEF GraphInv, WellFormedGraphs, WellFormed
  <1> QED
    BY <1>1, <1>15, <1>17, <1>18, <1>19, <1>20, CreationsStay DEF GraphInv, CompensationRestores

\* The newest inverse leads one graph back.
LEMMA TakeBackKeepsInv == ASSUME GraphInv, TakeBack PROVE GraphInv'
  <1>1. /\ stage = "compensating" /\ stage' = stage /\ inverses # <<>>
        /\ working' = TakenBack(working, inverses[Len(inverses)])
        /\ inverses' = SubSeq(inverses, 1, Len(inverses) - 1)
        /\ UNCHANGED <<graph, request, done>>
    BY DEF TakeBack, Last, Front
  <1>2. PICK chain : LeadBack(chain)
    BY <1>1 DEF GraphInv
  <1>3. inverses \in Seq(Inverses) /\ working = chain[Len(inverses)] /\ chain \in [Nat -> WellFormedGraphs]
    BY <1>2 DEF LeadBack
  <1>4. PICK n \in Nat : n + 1 = Len(inverses)
    <2>1. Len(inverses) \in Nat \ {0}
      BY <1>1, <1>3
    <2>2. Len(inverses) - 1 \in Nat /\ (Len(inverses) - 1) + 1 = Len(inverses)
      BY <2>1
    <2> QED
      BY <2>2
  <1>5. /\ inverses' \in Seq(Inverses) /\ Len(inverses') = n /\ \A k \in 1..n : inverses'[k] = inverses[k]
    BY <1>1, <1>3, <1>4
  <1>6. working' = chain[n]
    <2>1. n + 1 \in 1..Len(inverses) /\ (n + 1) - 1 = n
      BY <1>4
    <2>2. TakenBack(chain[n + 1], inverses[n + 1]) = chain[n]
      BY <1>2, <2>1 DEF LeadBack
    <2> QED
      BY <1>1, <1>3, <1>4, <2>2
  <1>7. \A k \in 1..n : TakenBack(chain[k], inverses'[k]) = chain[k - 1]
    <2>1. \A k \in 1..n : k \in 1..Len(inverses)
      BY <1>4
    <2> QED
      BY <1>2, <1>5, <2>1 DEF LeadBack
  <1>8. LeadBack(chain)'
    <2>1. WellFormedGraphs' = WellFormedGraphs /\ Inverses' = Inverses
      BY DEF WellFormedGraphs, WellFormed, Inverses
    <2> QED
      BY <1>1, <1>2, <1>5, <1>6, <1>7, <2>1 DEF LeadBack
  <1>9. graph' \in WellFormedGraphs' /\ request'.operations \in Seq(Operation)
    BY <1>1 DEF GraphInv, WellFormedGraphs, WellFormed
  <1> QED
    BY <1>1, <1>8, <1>9, CreationsStay DEF GraphInv, CompensationRestores

\* With no inverse left the working graph is the caller's, so the hashes agree.
LEMMA FinishKeepsInv == ASSUME GraphInv, FinishCompensation PROVE GraphInv'
  <1>1. /\ stage = "compensating" /\ inverses = <<>>
        /\ stage' = IF SameHash THEN "rolled-back" ELSE "manual-recovery"
        /\ UNCHANGED <<graph, working, request, done, inverses>>
    BY DEF FinishCompensation
  <1>2. working = graph
    BY <1>1 DEF GraphInv, LeadBack
  <1>3. SameHash
    BY <1>2 DEF SameHash, GraphInv, WellFormedGraphs, Graphs
  <1>4. graph' \in WellFormedGraphs' /\ request'.operations \in Seq(Operation)
    BY <1>1 DEF GraphInv, WellFormedGraphs, WellFormed
  <1> QED
    BY <1>1, <1>2, <1>3, <1>4, CreationsStay DEF GraphInv, CompensationRestores

\* Every step of a patch keeps the invariant.
LEMMA GraphStep == GraphInv /\ [GraphNext]_graphVars => GraphInv'
  <1> SUFFICES ASSUME GraphInv, [GraphNext]_graphVars PROVE GraphInv'
    OBVIOUS
  <1> DEFINE Submits == stage = "idle" /\ \E ops \in SeqOf(Operation, MaxOperations) :
                           \E i, j \in DOMAIN ops : i <= j /\ SubmitPatch(ops, i, j)
  <1>1. CASE Submits
    BY <1>1, SubmitKeepsInv
  <1>2. CASE FailApply
    <2>1. /\ stage = "applying" /\ stage' = "compensating" /\ UNCHANGED <<graph, working, request, done, inverses>>
      BY <1>2 DEF FailApply
    <2>2. PICK chain : LeadBack(chain)
      BY <2>1 DEF GraphInv
    <2>3. WellFormedGraphs' = WellFormedGraphs /\ Inverses' = Inverses
      BY DEF WellFormedGraphs, WellFormed, Inverses
    <2>4. LeadBack(chain)'
      BY <2>1, <2>2, <2>3 DEF LeadBack
    <2> QED
      BY <2>1, <2>3, <2>4, CreationsStay DEF GraphInv, CompensationRestores
  <1>3. CASE FinishApply
    <2>1. /\ stage = "applying" /\ stage' = "applied" /\ graph' = working /\ request' = request
      BY <1>3 DEF FinishApply
    <2>2. working \in WellFormedGraphs
      BY <2>1 DEF GraphInv, LeadBack
    <2>3. WellFormedGraphs' = WellFormedGraphs
      BY DEF WellFormedGraphs, WellFormed
    <2> QED
      BY <2>1, <2>2, <2>3, CreationsStay DEF GraphInv, CompensationRestores
  <1>4. CASE UNCHANGED graphVars
    <2>1. UNCHANGED <<graph, working, request, done, inverses, stage>>
      BY <1>4 DEF graphVars
    <2>2. WellFormedGraphs' = WellFormedGraphs /\ Inverses' = Inverses
      BY DEF WellFormedGraphs, WellFormed, Inverses
    <2>3. \A chain : LeadBack(chain) => LeadBack(chain)'
      BY <2>1, <2>2 DEF LeadBack
    <2>4. \A order, chain : Turns(order, chain) => Turns(order, chain)' /\ (Complete(order) => Complete(order)')
      BY <2>1, TurnsStay
    <2>5. stage = "planning" => \E chain : Turns(done, chain)' /\ working' = chain[Len(done')]
      <3>1. stage = "planning" => \E chain : Turns(done, chain) /\ working = chain[Len(done)]
        BY DEF GraphInv
      <3> QED
        BY <2>1, <2>4, <3>1 DEF Turns, ReadyAfter, Dependencies, Op
    <2>6. stage = "applying" =>
            \E order, chain :
              /\ Turns(order, chain)' /\ Complete(order)' /\ LeadBack(chain)'
              /\ done \in Seq(DOMAIN request.operations) /\ Len(done) = Len(inverses) /\ Len(done) <= Len(order)
              /\ \A k \in 1..Len(done) : done[k] = order[k]
      BY <2>3, <2>4 DEF GraphInv
    <2>7. \A k : Op(k)' = Op(k)
      BY <2>1 DEF Op
    <2>8. CreatedOnce' /\ CreatedSoFar'
      BY <2>1, <2>7 DEF GraphInv, CreatedOnce, CreatedSoFar
    <2> QED
      BY <2>1, <2>2, <2>3, <2>5, <2>6, <2>8 DEF GraphInv, CompensationRestores
  <1> QED
    BY <1>1, <1>2, <1>3, <1>4, PlanKeepsInv, AcceptKeepsInv, ApplyKeepsInv, TakeBackKeepsInv, FinishKeepsInv
       DEF GraphNext

\* The inductive invariant: what is applied follows the plan that was validated, and the
\* inverses lead back from the working graph to the caller's.
THEOREM GraphInvariant == GraphSpec => []GraphInv
  BY GraphStarts, GraphStep, PTL DEF GraphSpec

\* Wherever a patch fails that its plan accepted, for any graph, any number of operations
\* and any dependencies: compensation restores the whole graph and needs no manual recovery.
THEOREM CompensationIsComplete == GraphSpec => []CompensationRestores
  <1>1. GraphInv => CompensationRestores
    BY DEF GraphInv
  <1> QED
    BY <1>1, GraphInvariant, PTL

\* Every operation has at most one turn, so a patch handles and inverts no more than it has.
DoneOnce == \A k, l \in DOMAIN done : done[k] = done[l] => k = l
GraphTypedInv == GraphInv /\ GraphTypeOK /\ DoneOnce /\ Len(inverses) <= Len(done)

\* A list without repetitions is no longer than the one it takes its entries from.
LEMMA DoneFits ==
  ASSUME NEW S, NEW ops \in Seq(S), NEW order \in Seq(DOMAIN ops),
         \A k, l \in DOMAIN order : order[k] = order[l] => k = l
  PROVE  Len(order) <= Len(ops)
  <1>1. /\ Len(order) \in Nat /\ Len(ops) \in Nat
        /\ DOMAIN order = 1..Len(order) /\ DOMAIN ops = 1..Len(ops)
    OBVIOUS
  <1>2. order \in [1..Len(order) -> 1..Len(ops)]
    BY <1>1
  <1>3. IsInjective(order)
    BY DEF IsInjective
  <1>4. order \in Injection(1..Len(order), 1..Len(ops))
    BY <1>2, <1>3 DEF Injection
  <1>5. \A n \in Nat : IsFiniteSet(1..n) /\ Cardinality(1..n) = n
    BY FS_Interval
  <1>6. Cardinality(1..Len(order)) <= Cardinality(1..Len(ops))
    BY <1>1, <1>4, <1>5, FS_Injection
  <1> QED
    BY <1>1, <1>5, <1>6

\* The turn of one more operation.
LEMMA TakesItsTurn ==
  ASSUME GraphTypedInv, Ready # {}, done' = Append(done, NextOperation), UNCHANGED request
  PROVE  DoneOnce' /\ Len(done') = Len(done) + 1 /\ Len(done) \in Nat
  <1>1. done \in Seq(DOMAIN request.operations) /\ DoneOnce
    BY DEF GraphTypedInv, GraphTypeOK
  <1>2. NextOperation \in Ready
    <2>1. Ready \subseteq Nat
      BY DEF Ready, GraphTypedInv, GraphTypeOK
    <2> QED
      BY <2>1, MinIsLeast DEF NextOperation
  <1>3. NextOperation \in DOMAIN request.operations /\ NextOperation \notin {done[k] : k \in DOMAIN done}
    BY <1>2 DEF Ready, ToSet
  <1>4. PICK next : next = NextOperation
    OBVIOUS
  <1>5. /\ Len(done') = Len(done) + 1 /\ Len(done) \in Nat /\ DOMAIN done' = 1..(Len(done) + 1)
        /\ DOMAIN done = 1..Len(done)
        /\ done'[Len(done) + 1] = next /\ \A k \in DOMAIN done : done'[k] = done[k] /\ done'[k] # next
    BY <1>1, <1>3, <1>4
  <1>6. DoneOnce'
    <2> SUFFICES ASSUME NEW k \in DOMAIN done', NEW l \in DOMAIN done', done'[k] = done'[l]
                 PROVE  k = l
      BY DEF DoneOnce
    <2>1. (k = Len(done) + 1 \/ k \in DOMAIN done) /\ (l = Len(done) + 1 \/ l \in DOMAIN done)
      BY <1>5
    <2> QED
      BY <1>1, <1>5, <2>1 DEF DoneOnce
  <1> QED
    BY <1>5, <1>6

\* The parts of the type that follow from the plan and from what leads back.
Planned ==
  /\ graph \in Graphs /\ request.operations \in Seq(Operation)
  /\ stage \in {"planning", "applying"} => done \in Seq(DOMAIN request.operations)
  /\ stage \in {"planning", "applying", "compensating"} => working \in Graphs
  /\ stage \in {"applying", "compensating"} => inverses \in Seq(Inverses)
LEMMA PlannedIsTyped == GraphInv => Planned
  <1> SUFFICES ASSUME GraphInv PROVE Planned
    OBVIOUS
  <1>1. graph \in Graphs /\ request.operations \in Seq(Operation)
    BY DEF GraphInv, WellFormedGraphs
  <1>2. CASE stage = "planning"
    <2>1. PICK chain : Turns(done, chain) /\ working = chain[Len(done)]
      BY <1>2 DEF GraphInv
    <2>2. done \in Seq(DOMAIN request.operations) /\ chain \in [Nat -> WellFormedGraphs]
      BY <2>1 DEF Turns
    <2>3. working \in WellFormedGraphs
      BY <2>1, <2>2
    <2> QED
      BY <1>1, <1>2, <2>2, <2>3 DEF WellFormedGraphs, Planned
  <1>3. \A chain : LeadBack(chain) => working \in Graphs /\ inverses \in Seq(Inverses)
    <2> SUFFICES ASSUME NEW chain, LeadBack(chain)
                 PROVE  working \in Graphs /\ inverses \in Seq(Inverses)
      OBVIOUS
    <2>1. inverses \in Seq(Inverses) /\ working = chain[Len(inverses)] /\ chain \in [Nat -> WellFormedGraphs]
      BY DEF LeadBack
    <2>2. working \in WellFormedGraphs
      BY <2>1
    <2> QED
      BY <2>1, <2>2 DEF WellFormedGraphs
  <1>4. CASE stage = "applying"
    BY <1>1, <1>3, <1>4 DEF GraphInv, Planned
  <1>5. CASE stage = "compensating"
    BY <1>1, <1>3, <1>5 DEF GraphInv, Planned
  <1> QED
    BY <1>1, <1>2, <1>4, <1>5 DEF Planned

\* Every step keeps the types.
LEMMA GraphTypedStep ==
  ASSUME GraphTypedInv, [GraphNext]_graphVars
  PROVE  GraphTypedInv'
  <1>1. GraphInv /\ GraphInv' /\ GraphTypeOK /\ DoneOnce /\ Len(inverses) <= Len(done)
    BY GraphStep DEF GraphTypedInv
  <1>2. /\ graph \in Graphs /\ working \in Graphs /\ request.operations \in Seq(Operation)
        /\ DOMAIN request.dependsOn = DOMAIN request.operations /\ done \in Seq(DOMAIN request.operations)
    BY <1>1 DEF GraphTypeOK
  <1>3. /\ graph' \in Graphs /\ request'.operations \in Seq(Operation)
        /\ stage' \in {"planning", "applying"} => done' \in Seq(DOMAIN request'.operations)
        /\ stage' \in {"planning", "applying", "compensating"} => working' \in Graphs
    <2>1. GraphInv' => Planned'
      BY PlannedIsTyped, PTL
    <2> QED
      BY <1>1, <2>1 DEF Planned
  <1> DEFINE Stages == {"idle", "planning", "applying", "compensating", "rejected", "applied", "rolled-back", "manual-recovery"}
  <1>4. ASSUME working' \in Graphs, DOMAIN request'.dependsOn = DOMAIN request'.operations,
               done' \in Seq(DOMAIN request'.operations), DoneOnce', Len(inverses') <= Len(done'), Len(inverses') \in Nat,
               stage' \in Stages
        PROVE  GraphTypedInv'
    <2>1. Len(done') <= Len(request'.operations)
      BY <1>3, <1>4, DoneFits DEF DoneOnce
    <2>2. Len(done') \in Nat /\ Len(request'.operations) \in Nat
      BY <1>3, <1>4
    <2>3. Len(inverses') <= Len(request'.operations)
      BY <1>4, <2>1, <2>2
    <2> QED
      BY <1>1, <1>3, <1>4, <2>3 DEF GraphTypedInv, GraphTypeOK
  <1>5. ASSUME NEW ops \in SeqOf(Operation, MaxOperations), NEW i, NEW j, stage = "idle", SubmitPatch(ops, i, j)
        PROVE  GraphTypedInv'
    <2>1. /\ stage' = "planning" /\ done' = <<>> /\ inverses' = <<>>
          /\ DOMAIN request'.dependsOn = DOMAIN request'.operations
      BY <1>1, <1>5 DEF SubmitPatch, GraphInv
    <2>2. DoneOnce' /\ Len(inverses') = 0 /\ Len(done') = 0
      BY <2>1 DEF DoneOnce
    <2> QED
      BY <1>3, <1>4, <2>1, <2>2
  <1>6. CASE PlanOperation
    <2>1. stage = "planning" /\ inverses = <<>> /\ UNCHANGED <<inverses, request>> /\ Ready # {}
      BY <1>1, <1>6 DEF PlanOperation, GraphInv
    <2>2. CASE stage' = "planning" /\ done' = Append(done, NextOperation)
      <3>1. DoneOnce' /\ Len(inverses') = 0 /\ Len(done') \in Nat
        BY <2>1, <2>2, TakesItsTurn
      <3> QED
        BY <1>2, <1>3, <1>4, <2>1, <2>2, <3>1
    <2>3. CASE stage' = "rejected" /\ UNCHANGED <<working, done>>
      BY <1>1, <1>2, <1>4, <2>1, <2>3 DEF DoneOnce
    <2> QED
      BY <1>6, <2>1, <2>2, <2>3 DEF PlanOperation
  <1>7. CASE AcceptPlan
    <2>1. /\ inverses' = <<>> /\ UNCHANGED request /\ done' = <<>> /\ working' = graph /\ stage' \in {"applying", "rejected"}
      BY <1>1, <1>7 DEF AcceptPlan, GraphInv
    <2>2. DoneOnce' /\ Len(inverses') = 0 /\ Len(done') = 0 /\ done' \in Seq(DOMAIN request'.operations)
      BY <2>1 DEF DoneOnce
    <2> QED
      BY <1>2, <1>4, <2>1, <2>2
  <1>8. CASE ApplyOperation
    <2>1. /\ stage = "applying" /\ stage' = "applying" /\ Ready # {} /\ UNCHANGED request
          /\ done' = Append(done, NextOperation)
          /\ inverses' = Append(inverses, Inverted(working, Op(NextOperation)))
      BY <1>8 DEF ApplyOperation
    <2>2. DoneOnce' /\ Len(done') = Len(done) + 1 /\ Len(done) \in Nat
      BY <2>1, TakesItsTurn
    <2>3. PICK x : x = Inverted(working, Op(NextOperation))
      OBVIOUS
    <2>4. Len(inverses') = Len(inverses) + 1 /\ Len(inverses) \in Nat
      BY <1>1, <2>1, <2>3, PlannedIsTyped DEF Planned
    <2> QED
      BY <1>1, <1>2, <1>3, <1>4, <2>1, <2>2, <2>4
  <1>9. CASE TakeBack
    <2>1. /\ stage = "compensating" /\ stage' = stage /\ inverses # <<>> /\ UNCHANGED <<request, done>>
          /\ inverses' = SubSeq(inverses, 1, Len(inverses) - 1)
      BY <1>9 DEF TakeBack, Front
    <2>2. inverses \in Seq(Inverses) /\ Len(done) \in Nat
      BY <1>1, <1>2, <2>1, PlannedIsTyped DEF Planned
    <2>3. Len(inverses') \in Nat /\ Len(inverses') <= Len(done')
      BY <1>1, <2>1, <2>2
    <2> QED
      BY <1>1, <1>2, <1>3, <1>4, <2>1, <2>3 DEF DoneOnce
  <1>10. ASSUME UNCHANGED <<request, done, inverses, working>>, stage' \in Stages
         PROVE  GraphTypedInv'
    <2>1. Len(inverses') <= Len(request'.operations)
      BY <1>1, <1>10 DEF GraphTypeOK
    <2> QED
      BY <1>1, <1>2, <1>3, <1>10, <2>1 DEF GraphTypedInv, GraphTypeOK, DoneOnce
  <1>11. CASE FailApply \/ FinishCompensation \/ FinishApply \/ UNCHANGED graphVars
    <2>1. stage \in Stages
      BY <1>1 DEF GraphTypeOK
    <2> QED
      BY <1>10, <1>11, <2>1 DEF FailApply, FinishCompensation, FinishApply, graphVars
  <1> HIDE DEF Stages
  <1> QED
    BY <1>5, <1>6, <1>7, <1>8, <1>9, <1>11 DEF GraphNext

\* A patch stays well formed: it handles each operation at most once, and never holds more
\* inverses than operations it handled.
THEOREM GraphTypeCorrect == GraphSpec => []GraphTypeOK
  <1>1. ASSUME GraphInit PROVE GraphTypedInv
    <2>1. GraphInv
      BY <1>1, GraphStarts
    <2>2. working = graph /\ request = NoRequest /\ done = <<>> /\ inverses = <<>> /\ stage = "idle"
      BY <1>1 DEF GraphInit
    <2>3. graph \in Graphs /\ request.operations \in Seq(Operation)
      BY <2>1, PlannedIsTyped DEF Planned
    <2>4. /\ DOMAIN request.dependsOn = DOMAIN request.operations /\ done \in Seq(DOMAIN request.operations)
          /\ Len(inverses) = 0 /\ Len(request.operations) = 0 /\ Len(done) = 0
      BY <2>2 DEF NoRequest
    <2> QED
      BY <2>1, <2>2, <2>3, <2>4 DEF GraphTypedInv, GraphTypeOK, DoneOnce
  <1>2. GraphTypedInv => GraphTypeOK
    BY DEF GraphTypedInv
  <1> QED
    BY <1>1, <1>2, GraphTypedStep, PTL DEF GraphSpec

=============================================================================
