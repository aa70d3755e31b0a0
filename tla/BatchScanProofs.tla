-------------------------- MODULE BatchScanProofs --------------------------
(***************************************************************************)
(* Proofs about BatchScan: its type invariant, that a full scan counts     *)
(* each actor once, and that the report of a finished task never changes.  *)
(*                                                                         *)
(* The argument for the count: a slot lies before the position of the task *)
(* exactly when it has been read (Counting), an actor never moves to       *)
(* another slot (SingleSlot), and what the loop skips is empty.            *)
(***************************************************************************)
EXTENDS BatchScan, TLAPS, SequenceTheorems, FiniteSetTheorems

NextSlot(p) == [level |-> p.level, slot |-> p.slot + 1]

\* The slot i of level l lies before position p.
Before(p, l, i) == l < p.level \/ (l = p.level /\ i <= p.slot)

Never(c, a) == \A i \in DOMAIN c : c[i] # a
Once(c, a) == \E i \in DOMAIN c : c[i] = a /\ \A j \in DOMAIN c : c[j] = a => j = i

\* A steady actor is counted once if the task is past its slot, else not at all.
CountedUpTo(c, p) ==
  \A l \in Levels : \A i \in DOMAIN slots[l] :
    slots[l][i] \in steady =>
      /\ Before(p, l, i) => Once(c, slots[l][i])
      /\ ~Before(p, l, i) => Never(c, slots[l][i])

Full(t) == t.state = "completed" /\ Len(t.counted) < t.max

SingleSlot ==
  \A l, k \in Levels : \A i \in DOMAIN slots[l], j \in DOMAIN slots[k] :
    slots[l][i] = slots[k][j] /\ slots[l][i] # NoActor => l = k /\ i = j
UnloadedIsEmpty == \A l \in Levels : ~alive[l] => slots[l] = <<>>
SteadyPresent ==
  \A a \in steady : \E l \in Levels : \E i \in DOMAIN slots[l] : slots[l][i] = a
Counting(t) ==
  /\ t.level >= 1
  /\ t.state = "running" \/ Full(t) =>
       CountedUpTo(t.counted, [level |-> t.level, slot |-> t.slot])
  /\ Full(t) => t.level > NLevels

\* A scan of a world that is gone has no steady actor left to count.
SteadyIsInWorld == Running /\ world # task.world => steady = {}

ScanInv ==
  /\ ScanTypeOK
  /\ SingleSlot
  /\ UnloadedIsEmpty
  /\ SteadyPresent
  /\ Counting(task)
  /\ SteadyIsInWorld

USE DEF Levels, NextSlot

-----------------------------------------------------------------------------
(* Worlds, positions and counts                                            *)

\* A world the Editor opens is well typed, and an actor lies in one slot of it.
LEMMA WorldsAreTyped ==
  ASSUME NEW s \in Worlds
  PROVE  /\ s \in [Levels -> Seq(Actors \cup {NoActor})]
         /\ \A l, k \in Levels : \A i \in DOMAIN s[l], j \in DOMAIN s[k] :
              s[l][i] = s[k][j] => l = k /\ i = j
<1>1. s \in [Levels -> UNION {[1..n -> Actors] : n \in 0..MaxSlots}] /\ Placement(s)
  BY DEF Worlds
<1>2. ASSUME NEW l \in Levels PROVE s[l] \in Seq(Actors \cup {NoActor})
  <2>1. PICK n \in 0..MaxSlots : s[l] \in [1..n -> Actors]
    BY <1>1
  <2>2. n \in Nat
    BY <2>1, ScanBoundsAssumption
  <2>3. s[l] \in [1..n -> Actors \cup {NoActor}]
    BY <2>1
  <2> QED
    BY <2>2, <2>3, SeqDef
<1> QED
  BY <1>1, <1>2 DEF Placement

\* What the loop passes without reading is empty, as long as the world stands:
\* skipping moves the task past no slot it has not read.
LEMMA SkippingPassesEmpty ==
  ASSUME UnloadedIsEmpty, slots \in [Levels -> Seq(Actors \cup {NoActor})],
         world = task.world,
         NEW p \in [level : Nat \ {0}, slot : Nat], NEW q \in Skipping(p)
  PROVE  \A l \in Levels : \A i \in DOMAIN slots[l] : Before(p, l, i) <=> Before(q, l, i)
<1>0. NLevels \in Nat
  BY ScanBoundsAssumption
<1>1. CASE q = p
  BY <1>1
<1>2. CASE q # p
  <2>1. PICK k \in (p.level + 1)..(NLevels + 1) :
          /\ q = [level |-> k, slot |-> 0]
          /\ LevelDone(p)
          /\ \A i \in (p.level + 1)..(k - 1) : LevelDone([level |-> i, slot |-> 0])
    BY <1>2 DEF Skipping
  <2>3. ASSUME NEW l \in Levels, NEW i \in DOMAIN slots[l]
        PROVE  Before(p, l, i) <=> Before(q, l, i)
    <3>1. slots[l] \in Seq(Actors \cup {NoActor}) /\ Len(slots[l]) \in Nat
          /\ DOMAIN slots[l] = 1..Len(slots[l])
      OBVIOUS
    <3>2. CASE l < p.level
      BY <3>2, <2>1, <1>0 DEF Before
    <3>3. CASE l = p.level
      <4>1. alive[l]
        BY <3>1 DEF UnloadedIsEmpty
      <4>2. p.slot >= Len(slots[l])
        BY <4>1, <2>1, <3>3 DEF LevelDone
      <4> QED
        BY <4>2, <3>1, <3>3, <2>1, <1>0 DEF Before
    <3>4. CASE p.level < l /\ l < k
      <4>1. LevelDone([level |-> l, slot |-> 0])
        BY <2>1, <3>4, <1>0
      <4>2. alive[l]
        BY <3>1 DEF UnloadedIsEmpty
      <4>3. 0 >= Len(slots[l])
        BY <4>1, <4>2 DEF LevelDone
      <4> QED
        BY <4>3, <3>1
    <3>5. CASE l >= k
      BY <3>5, <2>1, <3>1, <1>0 DEF Before
    <3> QED
      BY <3>2, <3>3, <3>4, <3>5, <2>1, <1>0
  <2> QED
    BY <2>3
<1> QED
  BY <1>1, <1>2

\* Skipping keeps the counts right, also in a world that is gone.
LEMMA SkippingPassesNothing ==
  ASSUME ScanInv, Running, NEW p \in [level : Nat \ {0}, slot : Nat], NEW q \in Skipping(p),
         NEW c, CountedUpTo(c, p)
  PROVE  q \in [level : Nat \ {0}, slot : Nat] /\ CountedUpTo(c, q)
<1>1. q \in [level : Nat \ {0}, slot : Nat]
  BY ScanBoundsAssumption DEF Skipping
<1>2. CASE world = task.world
  BY <1>1, <1>2, SkippingPassesEmpty DEF CountedUpTo, ScanInv, ScanTypeOK
<1>3. CASE world # task.world
  <2>1. steady = {}
    BY <1>3 DEF ScanInv, SteadyIsInWorld
  <2> QED
    BY <1>1, <2>1 DEF CountedUpTo
<1> QED
  BY <1>1, <1>2, <1>3

\* An actor appended to the counts is counted once more, the others as before.
LEMMA AppendCounts ==
  ASSUME NEW c \in Seq(Actors), NEW a \in Actors, NEW b
  PROVE  /\ Append(c, a) \in Seq(Actors)
         /\ Never(c, a) => Once(Append(c, a), a)
         /\ b # a /\ Never(c, b) => Never(Append(c, a), b)
         /\ b # a /\ Once(c, b) => Once(Append(c, a), b)
<1>1. /\ Append(c, a) \in Seq(Actors) /\ Len(c) \in Nat
      /\ DOMAIN c = 1..Len(c)
      /\ DOMAIN Append(c, a) = 1..(Len(c) + 1)
      /\ \A i \in 1..Len(c) : Append(c, a)[i] = c[i]
      /\ Append(c, a)[Len(c) + 1] = a
  OBVIOUS
<1>2. \A i \in DOMAIN Append(c, a) : i \in DOMAIN c \/ i = Len(c) + 1
  BY <1>1
<1>3. Len(c) + 1 \in DOMAIN Append(c, a) /\ DOMAIN c \subseteq DOMAIN Append(c, a)
  BY <1>1
<1> QED
  BY <1>1, <1>2, <1>3 DEF Never, Once

\* Reading the slot at p and moving behind it keeps the counts right.
LEMMA ReadingCounts ==
  ASSUME ScanInv, NEW p \in [level : Nat \ {0}, slot : Nat], NEW c \in Seq(Actors),
         ~LevelDone(p), ~AtEnd(p), CountedUpTo(c, p),
         NEW a, a = slots[p.level][p.slot + 1]
  PROVE  /\ a \in Actors \cup {NoActor}
         /\ CountedUpTo(IF a = NoActor THEN c ELSE Append(c, a), NextSlot(p))
<1> DEFINE d == IF a = NoActor THEN c ELSE Append(c, a)
           q == NextSlot(p)
<1>1. /\ p.level \in Levels /\ p.level \in Nat /\ p.slot \in Nat
      /\ slots[p.level] \in Seq(Actors \cup {NoActor})
      /\ p.slot + 1 \in DOMAIN slots[p.level]
  <2>1. p.level \in Levels
    BY ScanBoundsAssumption DEF AtEnd
  <2>2. slots[p.level] \in Seq(Actors \cup {NoActor})
    BY <2>1 DEF ScanInv, ScanTypeOK
  <2>3. p.slot < Len(slots[p.level])
    BY <2>1, <2>2, ScanBoundsAssumption DEF LevelDone
  <2> QED
    BY <2>1, <2>2, <2>3
<1>2. a \in Actors \cup {NoActor}
  BY <1>1
<1>3. ASSUME NEW l \in Levels, NEW i \in DOMAIN slots[l], slots[l][i] \in steady
      PROVE  /\ Before(q, l, i) => Once(d, slots[l][i])
             /\ ~Before(q, l, i) => Never(d, slots[l][i])
  <2>1. slots[l][i] \in Actors /\ slots[l][i] # NoActor
    BY <1>3, NoActorAssumption DEF ScanInv, ScanTypeOK
  <2>2. /\ Before(p, l, i) => Once(c, slots[l][i])
        /\ ~Before(p, l, i) => Never(c, slots[l][i])
    BY <1>3 DEF CountedUpTo
  <2>3. i \in Nat /\ l \in Nat
    BY <1>3, ScanBoundsAssumption DEF ScanInv, ScanTypeOK
  <2>4. CASE l = p.level /\ i = p.slot + 1
    <3>1. a = slots[l][i] /\ a \in Actors /\ d = Append(c, a)
      BY <2>4, <2>1
    <3>2. ~Before(p, l, i) /\ Before(q, l, i)
      BY <2>4, <1>1 DEF Before
    <3> HIDE DEF d, q
    <3> QED
      BY <3>1, <3>2, <2>2, AppendCounts
  <2>5. CASE ~(l = p.level /\ i = p.slot + 1)
    <3>1. Before(q, l, i) <=> Before(p, l, i)
      BY <2>5, <2>3, <1>1 DEF Before
    <3>2. slots[l][i] # a
      BY <2>5, <2>1, <1>1 DEF ScanInv, SingleSlot
    <3>3. CASE a = NoActor
      BY <3>1, <3>3, <2>2
    <3>4. CASE a # NoActor
      <4>1. a \in Actors /\ d = Append(c, a)
        BY <3>4, <1>2
      <4> HIDE DEF d, q
      <4> QED
        BY <4>1, <3>1, <3>2, <2>2, AppendCounts
    <3> QED
      BY <3>3, <3>4
  <2> QED
    BY <2>4, <2>5
<1>4. CountedUpTo(d, q)
  <2> HIDE DEF d, q
  <2> QED
    BY <1>3 DEF CountedUpTo
<1> QED
  BY <1>2, <1>4

-----------------------------------------------------------------------------
(* The inductive invariant                                                 *)

\* It holds in every world, before any task.
LEMMA InitInv == ScanInit => ScanInv
<1> SUFFICES ASSUME ScanInit PROVE ScanInv
  OBVIOUS
<1> USE DEF ScanInit
<1>1. /\ slots \in [Levels -> Seq(Actors \cup {NoActor})]
      /\ SingleSlot
  BY WorldsAreTyped DEF SingleSlot
<1>2. NoTask \in Tasks
  BY DEF NoTask, Tasks, FinalStates
<1>3. ScanTypeOK
  BY <1>1, <1>2 DEF ScanTypeOK
<1>4. UnloadedIsEmpty /\ SteadyPresent
  BY DEF UnloadedIsEmpty, SteadyPresent
<1>5. Counting(task)
  BY DEF Counting, Full, NoTask
<1>6. SteadyIsInWorld
  BY DEF SteadyIsInWorld
<1> QED
  BY <1>1, <1>3, <1>4, <1>5, <1>6 DEF ScanInv

\* A user step that keeps the steady actors in their slots keeps the counts.
LEMMA StaySteady ==
  ASSUME ScanInv, task' = task,
         \A l \in Levels : \A i \in DOMAIN slots'[l] : slots'[l][i] \in steady' =>
           i \in DOMAIN slots[l] /\ slots[l][i] = slots'[l][i] /\ slots[l][i] \in steady
  PROVE  Counting(task)'
<1>1. CountedUpTo(task.counted, [level |-> task.level, slot |-> task.slot]) =>
        CountedUpTo(task.counted, [level |-> task.level, slot |-> task.slot])'
  BY DEF CountedUpTo, Before, Once, Never
<1> QED
  BY <1>1 DEF ScanInv, Counting, Full

\* A step that keeps the world and makes no actor steady.
LEMMA StaysInWorld ==
  ASSUME SteadyIsInWorld, world' = world, steady' \subseteq steady,
         task'.world = task.world, task'.state = "running" => Running
  PROVE  SteadyIsInWorld'
BY DEF SteadyIsInWorld, Running

\* A new task has counted nothing and stands before every slot.
LEMMA StartInv ==
  ASSUME ScanInv, NEW max \in Limits, NEW timeout \in Timeouts,
         StartScanCurrentWorld(max, timeout)
  PROVE  ScanInv'
<1> USE DEF ScanInv, StartScanCurrentWorld, worldVars
<1>1. /\ task' = [id |-> lastTask + 1, state |-> "running", world |-> world,
                  worldId |-> worldId, max |-> max,
                  left |-> timeout, level |-> 1, slot |-> 0, counted |-> <<>>]
      /\ lastTask' \in Nat /\ lastTask' = lastTask + 1
  BY DEF NewTask, ScanTypeOK
<1>2. steady' \subseteq Actors /\ SteadyPresent'
  BY DEF ActorsPresent, ActorsIn, SteadyPresent, ScanTypeOK
<1>3. ScanTypeOK'
  BY <1>1, <1>2, LimitsAssumption DEF ScanTypeOK, Tasks, FinalStates
<1>4. SingleSlot' /\ UnloadedIsEmpty'
  BY DEF SingleSlot, UnloadedIsEmpty
<1>5. Counting(task)'
  <2>1. \A l \in Levels : \A i \in DOMAIN slots[l] : ~Before([level |-> 1, slot |-> 0], l, i)
    BY ScanBoundsAssumption DEF Before, ScanTypeOK
  <2>2. CountedUpTo(task.counted, [level |-> task.level, slot |-> task.slot])'
    BY <2>1, <1>1 DEF CountedUpTo, Never, Before
  <2> QED
    BY <2>2, <1>1 DEF Counting, Full
<1>6. SteadyIsInWorld'
  BY <1>1 DEF SteadyIsInWorld
<1> QED
  BY <1>2, <1>3, <1>4, <1>5, <1>6

\* Ending a task for another reason than completion claims no count.
LEMMA EndedKeepsInv ==
  ASSUME ScanInv, Running, UNCHANGED <<worldVars, lastTask, steady>>,
         NEW state \in FinalStates \ {"completed"}, task' = CompleteTask(task, state)
  PROVE  ScanInv'
<1> USE DEF ScanInv, worldVars
<1>1. /\ task' \in Tasks /\ task'.id = task.id /\ task'.level = task.level
      /\ task'.state = state /\ task'.world = task.world
  BY DEF CompleteTask, ScanTypeOK, Tasks, FinalStates
<1>2. task # NoTask
  BY DEF Running, NoTask
<1>3. ScanTypeOK'
  BY <1>1, <1>2 DEF ScanTypeOK
<1>4. Counting(task)'
  BY <1>1 DEF Counting, Full, FinalStates
<1>5. SteadyIsInWorld'
  BY <1>1, StaysInWorld DEF FinalStates
<1> QED
  BY <1>3, <1>4, <1>5 DEF SingleSlot, UnloadedIsEmpty, SteadyPresent

LEMMA CancelInv == ASSUME ScanInv, NEW id \in 1..lastTask, Cancel(id) PROVE ScanInv'
<1>1. CASE Running
  <2>1. task' = CompleteTask(task, "cancelled") /\ UNCHANGED <<worldVars, lastTask, steady>>
    BY <1>1 DEF Cancel, Cancelled, Running
  <2> QED
    BY <1>1, <2>1, EndedKeepsInv DEF FinalStates
<1>2. CASE ~Running
  <2>1. UNCHANGED vars
    BY <1>2 DEF Cancel, Cancelled, Running, vars
  <2> QED
    BY <2>1 DEF vars, worldVars, ScanInv, ScanTypeOK, SingleSlot, UnloadedIsEmpty,
      SteadyPresent, Counting, Full, CountedUpTo, Before, Once, Never,
      SteadyIsInWorld, Running
<1> QED
  BY <1>1, <1>2

LEMMA ScannedTask ==
  ASSUME NEW t \in Tasks, NEW p \in [level : Nat \ {0}, slot : Nat],
         NEW a \in Actors \cup {NoActor}
  PROVE  Scanned(t, p, a) =
           [id |-> t.id, state |-> t.state, world |-> t.world, worldId |-> t.worldId, max |-> t.max,
            left |-> t.left, level |-> p.level, slot |-> p.slot + 1,
            counted |-> IF a = NoActor THEN t.counted ELSE Append(t.counted, a)]
<1> DEFINE l == p.level
           n == p.slot + 1
           c == IF a = NoActor THEN t.counted ELSE Append(t.counted, a)
<1>1. l \in Nat /\ n \in Nat /\ c \in Seq(Actors)
  BY DEF Tasks
<1>2. Scanned(t, p, a) = [t EXCEPT !.level = l, !.slot = n, !.counted = c]
  BY DEF Scanned
<1> DEFINE u == [t EXCEPT !.level = l, !.slot = n, !.counted = c]
<1> HIDE DEF l, n, c
<1>3. /\ u \in Tasks /\ u.id = t.id /\ u.state = t.state /\ u.world = t.world /\ u.worldId = t.worldId
      /\ u.max = t.max /\ u.left = t.left /\ u.level = l /\ u.slot = n /\ u.counted = c
  BY <1>1 DEF Tasks
<1> HIDE DEF u
<1>4. u = [id |-> t.id, state |-> t.state, world |-> t.world, worldId |-> t.worldId, max |-> t.max,
           left |-> t.left, level |-> l, slot |-> n, counted |-> c]
  BY <1>3 DEF Tasks
<1> QED
  BY <1>2, <1>4 DEF l, n, c, u

\* A slice of the scan: skip, read one slot, skip again.
LEMMA ScanKeepsInv ==
  ASSUME ScanInv, Running, Scan, UNCHANGED <<worldVars, lastTask, steady>>
  PROVE  ScanInv'
<1> USE DEF worldVars
<1>1. /\ UnloadedIsEmpty /\ slots \in [Levels -> Seq(Actors \cup {NoActor})]
      /\ task \in Tasks /\ Position \in [level : Nat \ {0}, slot : Nat]
      /\ CountedUpTo(task.counted, Position) /\ task # NoTask
  BY DEF ScanInv, ScanTypeOK, Tasks, Position, Counting, Running, NoTask
<1>2. PICK p \in Skipping(Position) :
        /\ ~LevelDone(p)
        /\ IF AtEnd(p) THEN task' = CompleteTask(MovedTo(task, p), "completed")
           ELSE LET a == slots[p.level][p.slot + 1] IN
                  task' \in AfterSlot(Scanned(task, p, a), a)
  BY DEF Scan
<1>3. p \in [level : Nat \ {0}, slot : Nat] /\ CountedUpTo(task.counted, p)
  BY <1>1, SkippingPassesNothing
<1>4. /\ task' \in Tasks /\ task'.id = task.id /\ task' # NoTask
      /\ task'.world = task.world
      /\ Counting(task')
  <2>1. CASE AtEnd(p)
    <3>1. task' = [id |-> task.id, state |-> "completed", world |-> task.world,
                   worldId |-> task.worldId, max |-> task.max, left |-> task.left, level |-> p.level,
                   slot |-> p.slot, counted |-> task.counted]
      BY <2>1, <1>1, <1>2, <1>3 DEF CompleteTask, MovedTo, Tasks
    <3>2. p.level > NLevels
      BY <2>1 DEF AtEnd
    <3>3. /\ task' \in Tasks /\ task'.id = task.id /\ task' # NoTask
          /\ task'.world = task.world
      BY <3>1, <1>1, <1>3 DEF Tasks, FinalStates, NoTask
    <3>4. CountedUpTo(task'.counted, [level |-> task'.level, slot |-> task'.slot])
      BY <3>1, <1>3
    <3>5. Counting(task')
      BY <3>1, <3>2, <3>4, <1>3 DEF Counting
    <3> QED
      BY <3>3, <3>5
  <2>2. CASE ~AtEnd(p)
    <3> DEFINE a == slots[p.level][p.slot + 1]
               c == IF a = NoActor THEN task.counted ELSE Append(task.counted, a)
               t == [id |-> task.id, state |-> "running", world |-> task.world,
                     worldId |-> task.worldId, max |-> task.max, left |-> task.left, level |-> p.level,
                     slot |-> p.slot + 1, counted |-> c]
    <3>1. a \in Actors \cup {NoActor} /\ CountedUpTo(c, NextSlot(p))
      BY <2>2, <1>1, <1>2, <1>3, ReadingCounts DEF Tasks
    <3>2. c \in Seq(Actors)
      BY <3>1, <1>1 DEF Tasks
    <3> HIDE DEF c
    <3>3. Scanned(task, p, a) = t
      BY <3>1, <1>1, <1>3, ScannedTask DEF Running, c
    <3>4. t \in Tasks /\ NextSlot(p) \in [level : Nat \ {0}, slot : Nat]
      BY <3>2, <1>1, <1>3 DEF Tasks
    <3>5. task' \in AfterSlot(t, a)
      BY <2>2, <1>2, <3>3
    <3>6. CASE a # NoActor /\ Len(t.counted) >= t.max
      <4>1. task' = [id |-> task.id, state |-> "completed", world |-> task.world,
                     worldId |-> task.worldId, max |-> task.max, left |-> task.left, level |-> p.level,
                     slot |-> p.slot + 1, counted |-> c]
        BY <3>5, <3>6 DEF AfterSlot, CompleteTask
      <4>2. ~Full(task')
        BY <4>1, <3>6, <3>2, <1>1 DEF Full, Tasks
      <4>3. /\ task' \in Tasks /\ task'.id = task.id /\ task' # NoTask
            /\ task'.world = task.world
        BY <4>1, <3>2, <1>1, <1>3 DEF Tasks, FinalStates, NoTask
      <4> QED
        BY <4>1, <4>2, <4>3, <1>3 DEF Counting
    <3>7. CASE ~(a # NoActor /\ Len(t.counted) >= t.max)
      <4>1. PICK q \in Skipping(NextSlot(p)) :
              task' = IF AtEnd(q) THEN CompleteTask(MovedTo(t, q), "completed")
                      ELSE MovedTo(t, q)
        BY <3>5, <3>7 DEF AfterSlot
      <4>2. q \in [level : Nat \ {0}, slot : Nat] /\ CountedUpTo(c, q)
        BY <3>1, <3>4, SkippingPassesNothing
      <4>3. task' = [id |-> task.id,
                     state |-> IF AtEnd(q) THEN "completed" ELSE "running",
                     world |-> task.world, worldId |-> task.worldId, max |-> task.max, left |-> task.left,
                     level |-> q.level, slot |-> q.slot, counted |-> c]
        BY <4>1 DEF CompleteTask, MovedTo
      <4>4. /\ task' \in Tasks /\ task'.id = task.id /\ task' # NoTask
            /\ task'.world = task.world
        BY <4>3, <4>2, <3>2, <1>1 DEF Tasks, FinalStates, NoTask
      <4>5. CountedUpTo(task'.counted, [level |-> task'.level, slot |-> task'.slot])
        BY <4>2, <4>3
      <4>6. Full(task') => task'.level > NLevels
        BY <4>3 DEF Full, AtEnd
      <4> QED
        BY <4>2, <4>3, <4>4, <4>5, <4>6 DEF Counting
    <3> QED
      BY <3>6, <3>7
  <2> QED
    BY <2>1, <2>2
<1>5. ScanTypeOK'
  BY <1>1, <1>4 DEF ScanInv, ScanTypeOK
<1>6. Counting(task)'
  BY <1>4 DEF Counting, CountedUpTo, Before, Once, Never, Full
<1>7. SteadyIsInWorld'
  BY <1>4, StaysInWorld DEF ScanInv
<1> QED
  BY <1>5, <1>6, <1>7 DEF ScanInv, SingleSlot, UnloadedIsEmpty, SteadyPresent

LEMMA TickInv == ASSUME ScanInv, Tick PROVE ScanInv'
<1>1. Running /\ UNCHANGED <<worldVars, lastTask, steady>>
  BY DEF Tick
<1>2. \/ task' = CompleteTask(task, "invalidated")
      \/ task' = CompleteTask(task, "timed-out")
      \/ Scan
  BY DEF Tick
<1>3. CASE task' = CompleteTask(task, "invalidated")
  BY <1>1, <1>3, EndedKeepsInv DEF FinalStates
<1>4. CASE task' = CompleteTask(task, "timed-out")
  BY <1>1, <1>4, EndedKeepsInv DEF FinalStates
<1>5. CASE Scan
  BY <1>1, <1>5, ScanKeepsInv
<1> QED
  BY <1>2, <1>3, <1>4, <1>5

\* The clock changes nothing but the time left.
LEMMA TimeInv == ASSUME ScanInv, TimePasses PROVE ScanInv'
<1> USE DEF ScanInv, TimePasses, worldVars
<1>1. task \in Tasks /\ task # NoTask
  BY DEF ScanTypeOK, Running, NoTask
<1>2. /\ task' \in Tasks /\ task'.id = task.id /\ task'.state = task.state
      /\ task'.max = task.max /\ task'.level = task.level /\ task'.slot = task.slot
      /\ task'.counted = task.counted /\ task'.world = task.world
  BY <1>1 DEF Tasks
<1>3. ScanTypeOK'
  BY <1>1, <1>2 DEF ScanTypeOK
<1>4. Counting(task)'
  BY <1>2 DEF Counting, Full, CountedUpTo, Before, Once, Never
<1>5. SteadyIsInWorld'
  BY <1>2, StaysInWorld
<1> QED
  BY <1>3, <1>4, <1>5 DEF SingleSlot, UnloadedIsEmpty, SteadyPresent

LEMMA StopInv == ASSUME ScanInv, BridgeStops PROVE ScanInv'
<1> USE DEF ScanInv, BridgeStops, worldVars
<1>1. ScanTypeOK'
  BY DEF ScanTypeOK, Tasks, NoTask, FinalStates
<1>2. Counting(task)'
  BY DEF Counting, Full, NoTask
<1>3. SteadyIsInWorld'
  BY DEF SteadyIsInWorld, Running, NoTask
<1> QED
  BY <1>1, <1>2, <1>3 DEF SingleSlot, UnloadedIsEmpty, SteadyPresent

\* A deleted actor leaves an empty slot: the others keep theirs.
LEMMA DeleteInv ==
  ASSUME ScanInv, NEW l \in Levels, NEW i \in 1..MaxSlots, DeleteActor(l, i)
  PROVE  ScanInv'
<1> USE DEF ScanInv, DeleteActor
<1>1. /\ slots' \in [Levels -> Seq(Actors \cup {NoActor})]
      /\ \A k \in Levels : DOMAIN slots'[k] = DOMAIN slots[k]
      /\ slots'[l][i] = NoActor
      /\ \A k \in Levels : \A j \in DOMAIN slots[k] :
           k # l \/ j # i => slots'[k][j] = slots[k][j]
  <2>1. slots' = [slots EXCEPT ![l] = [slots[l] EXCEPT ![i] = NoActor]]
    BY DEF ScanTypeOK
  <2>2. /\ slots[l] \in Seq(Actors \cup {NoActor})
        /\ [slots[l] EXCEPT ![i] = NoActor] \in Seq(Actors \cup {NoActor})
    BY DEF ScanTypeOK
  <2> QED
    BY <2>1, <2>2 DEF ScanTypeOK
<1>2. ScanTypeOK'
  BY <1>1 DEF ScanTypeOK
<1>3. SingleSlot' /\ UnloadedIsEmpty'
  <2>1. SingleSlot'
    BY <1>1 DEF SingleSlot
  <2>2. UnloadedIsEmpty'
    BY DEF UnloadedIsEmpty, ScanTypeOK
  <2> QED
    BY <2>1, <2>2
<1>4. SteadyPresent'
  BY <1>1 DEF SteadyPresent
<1>5. \A k \in Levels : \A j \in DOMAIN slots'[k] : slots'[k][j] \in steady' =>
        j \in DOMAIN slots[k] /\ slots[k][j] = slots'[k][j] /\ slots[k][j] \in steady
  BY <1>1, NoActorAssumption DEF ScanTypeOK
<1>6. Counting(task)'
  BY <1>5, StaySteady
<1>7. SteadyIsInWorld'
  BY StaysInWorld DEF Running
<1> QED
  BY <1>2, <1>3, <1>4, <1>6, <1>7

\* A new actor gets a slot at the end of its level, and is not a steady one.
LEMMA AddInv ==
  ASSUME ScanInv, NEW l \in Levels, NEW a \in Actors, AddActor(l, a)
  PROVE  ScanInv'
<1> USE DEF ScanInv, AddActor
<1> DEFINE n == Len(slots[l]) + 1
<1>1. /\ slots' \in [Levels -> Seq(Actors \cup {NoActor})]
      /\ \A k \in Levels : DOMAIN slots[k] \subseteq DOMAIN slots'[k]
      /\ \A k \in Levels : \A j \in DOMAIN slots[k] : slots'[k][j] = slots[k][j]
      /\ \A k \in Levels : \A j \in DOMAIN slots'[k] :
           j \in DOMAIN slots[k] \/ (k = l /\ j = n /\ slots'[k][j] = a)
  <2>1. slots' = [slots EXCEPT ![l] = Append(slots[l], a)]
    BY DEF ScanTypeOK
  <2>2. /\ slots[l] \in Seq(Actors \cup {NoActor})
        /\ Append(slots[l], a) \in Seq(Actors \cup {NoActor})
        /\ DOMAIN slots[l] = 1..Len(slots[l])
        /\ DOMAIN Append(slots[l], a) = 1..n
        /\ Append(slots[l], a)[n] = a
        /\ \A j \in 1..Len(slots[l]) : Append(slots[l], a)[j] = slots[l][j]
        /\ \A j \in 1..n : j \in 1..Len(slots[l]) \/ j = n
        /\ 1..Len(slots[l]) \subseteq 1..n
    BY DEF ScanTypeOK
  <2> HIDE DEF n
  <2> QED
    BY <2>1, <2>2 DEF ScanTypeOK
<1>2. ScanTypeOK'
  BY <1>1 DEF ScanTypeOK
<1>3. \A k \in Levels : \A j \in DOMAIN slots[k] : slots[k][j] # a
  BY NoActorAssumption DEF ActorsPresent, ActorsIn
<1> HIDE DEF n
<1>4. SingleSlot'
  BY <1>1, <1>3 DEF SingleSlot
<1>5. UnloadedIsEmpty'
  BY DEF UnloadedIsEmpty, ScanTypeOK
<1>6. SteadyPresent'
  <2>1. ASSUME NEW b \in steady PROVE \E k \in Levels : \E j \in DOMAIN slots'[k] : slots'[k][j] = b
    <3>1. PICK k \in Levels : \E j \in DOMAIN slots[k] : slots[k][j] = b
      BY DEF SteadyPresent
    <3> QED
      BY <3>1, <1>1
  <2> QED
    BY <2>1 DEF SteadyPresent
<1>7. a \notin steady
  BY <1>3 DEF SteadyPresent
<1>8. \A k \in Levels : \A j \in DOMAIN slots'[k] : slots'[k][j] \in steady' =>
        j \in DOMAIN slots[k] /\ slots[k][j] = slots'[k][j] /\ slots[k][j] \in steady
  BY <1>1, <1>7
<1>9. Counting(task)'
  BY <1>8, StaySteady
<1>10. SteadyIsInWorld'
  BY StaysInWorld DEF Running
<1> QED
  BY <1>2, <1>4, <1>5, <1>6, <1>9, <1>10

\* An unloaded level takes its actors with it.
LEMMA UnloadInv == ASSUME ScanInv, NEW l \in Levels, UnloadLevel(l) PROVE ScanInv'
<1> USE DEF ScanInv, UnloadLevel
<1>1. /\ slots' \in [Levels -> Seq(Actors \cup {NoActor})]
      /\ slots'[l] = <<>> /\ DOMAIN slots'[l] = {}
      /\ \A k \in Levels : k # l => slots'[k] = slots[k]
  BY DEF ScanTypeOK
<1>2. ScanTypeOK'
  BY <1>1 DEF ScanTypeOK
<1>3. SingleSlot'
  <2>1. ASSUME NEW k \in Levels, NEW m \in Levels,
               NEW i \in DOMAIN slots'[k], NEW j \in DOMAIN slots'[m],
               slots'[k][i] = slots'[m][j], slots'[k][i] # NoActor
        PROVE  k = m /\ i = j
    <3>1. k # l /\ m # l
      BY <1>1
    <3> QED
      BY <3>1, <2>1, <1>1 DEF SingleSlot
  <2> QED
    BY <2>1 DEF SingleSlot
<1>4. UnloadedIsEmpty'
  BY <1>1 DEF UnloadedIsEmpty, ScanTypeOK
<1>5. SteadyPresent'
  <2>1. ASSUME NEW b \in steady'
        PROVE  \E k \in Levels : \E j \in DOMAIN slots'[k] : slots'[k][j] = b
    <3>1. PICK k \in Levels : \E j \in DOMAIN slots[k] : slots[k][j] = b
      BY <2>1 DEF SteadyPresent
    <3>2. b \notin ActorsIn(l) /\ b # NoActor
      BY <2>1, NoActorAssumption DEF ScanTypeOK
    <3>3. k # l
      BY <3>1, <3>2 DEF ActorsIn
    <3> QED
      BY <3>1, <3>3, <1>1
  <2> QED
    BY <2>1 DEF SteadyPresent
<1>6. \A k \in Levels : \A j \in DOMAIN slots'[k] : slots'[k][j] \in steady' =>
        j \in DOMAIN slots[k] /\ slots[k][j] = slots'[k][j] /\ slots[k][j] \in steady
  <2>1. ASSUME NEW k \in Levels, NEW j \in DOMAIN slots'[k], slots'[k][j] \in steady'
        PROVE  j \in DOMAIN slots[k] /\ slots[k][j] = slots'[k][j] /\ slots[k][j] \in steady
    <3>1. k # l
      BY <1>1
    <3> QED
      BY <3>1, <2>1, <1>1
  <2> QED
    BY <2>1
<1>7. Counting(task)'
  BY <1>6, StaySteady
<1>8. SteadyIsInWorld'
  BY StaysInWorld DEF Running
<1> QED
  BY <1>2, <1>3, <1>4, <1>5, <1>7, <1>8

\* In a new world no actor is steady.
LEMMA OpenInv == ASSUME ScanInv, OpenWorld PROVE ScanInv'
<1> USE DEF ScanInv, OpenWorld
<1>1. /\ slots' \in [Levels -> Seq(Actors \cup {NoActor})] /\ SingleSlot'
  BY WorldsAreTyped DEF SingleSlot
<1>2. ScanTypeOK'
  BY <1>1 DEF ScanTypeOK
<1>3. UnloadedIsEmpty' /\ SteadyPresent'
  BY DEF UnloadedIsEmpty, SteadyPresent
<1>4. Counting(task)'
  BY StaySteady
<1>5. SteadyIsInWorld'
  BY DEF SteadyIsInWorld
<1> QED
  BY <1>1, <1>2, <1>3, <1>4, <1>5

\* Playing and stuttering leave the scan alone.
LEMMA PlayInv == ASSUME ScanInv, TogglePlay \/ UNCHANGED vars PROVE ScanInv'
<1>1. UNCHANGED <<slots, alive, world, worldId, task, lastTask, steady>> /\ playing' \in BOOLEAN
  BY DEF TogglePlay, vars, worldVars, ScanInv, ScanTypeOK
<1>2. Counting(task)'
  BY <1>1, StaySteady
<1>3. SteadyIsInWorld'
  BY <1>1, StaysInWorld DEF ScanInv, Running
<1> QED
  BY <1>1, <1>2, <1>3 DEF ScanInv, ScanTypeOK, SingleSlot, UnloadedIsEmpty, SteadyPresent

\* Every step keeps the invariant.
LEMMA StepInv == ScanInv /\ [ScanNext]_vars => ScanInv'
<1> SUFFICES ASSUME ScanInv, [ScanNext]_vars PROVE ScanInv'
  OBVIOUS
<1>1. CASE Client
  <2>1. ASSUME NEW max \in Limits, NEW timeout \in Timeouts, StartScanCurrentWorld(max, timeout)
        PROVE  ScanInv'
    BY <2>1, StartInv
  <2>2. ASSUME NEW id \in 1..lastTask, Cancel(id) PROVE ScanInv'
    BY <2>2, CancelInv
  <2> QED
    BY <1>1, <2>1, <2>2 DEF Client
<1>2. CASE Tick
  BY <1>2, TickInv
<1>3. CASE TimePasses
  BY <1>3, TimeInv
<1>4. CASE BridgeStops
  BY <1>4, StopInv
<1>5. CASE User
  <2>1. ASSUME NEW l \in Levels, UnloadLevel(l) PROVE ScanInv'
    BY <2>1, UnloadInv
  <2>2. ASSUME NEW l \in Levels, NEW i \in 1..MaxSlots, DeleteActor(l, i) PROVE ScanInv'
    BY <2>2, DeleteInv
  <2>3. ASSUME NEW l \in Levels, NEW a \in Actors, AddActor(l, a) PROVE ScanInv'
    BY <2>3, AddInv
  <2>4. CASE OpenWorld
    BY <2>4, OpenInv
  <2>5. CASE TogglePlay
    BY <2>5, PlayInv
  <2> QED
    BY <1>5, <2>1, <2>2, <2>3, <2>4, <2>5 DEF User
<1>6. CASE UNCHANGED vars
  BY <1>6, PlayInv
<1> QED
  BY <1>1, <1>2, <1>3, <1>4, <1>5, <1>6 DEF ScanNext

-----------------------------------------------------------------------------
(* Theorems                                                                *)

\* The inductive invariant of the scan: what is counted is what lies before the
\* position of the task, whatever the user does to the world between the slices.
THEOREM ScanInvariant == ScanSpec => []ScanInv
<1>1. ScanInit => ScanInv
  BY InitInv
<1>2. ScanInv /\ [ScanNext]_vars => ScanInv'
  BY StepInv
<1> QED
  BY <1>1, <1>2, PTL DEF ScanSpec

\* The manager's state is always well formed, and its task, once there is one, is
\* the last one that was started.
THEOREM ScanTypeCorrect == ScanSpec => []ScanTypeOK
<1>1. ScanInv => ScanTypeOK
  BY DEF ScanInv
<1> QED
  BY <1>1, ScanInvariant, PTL

\* A completed scan below its limit counted each actor that was there all the time
\* exactly once, for any number of levels, slots and actors.
THEOREM FullScanCorrect == ScanSpec => []FullScanCountsEachActorOnce
<1>1. ScanInv => FullScanCountsEachActorOnce
  <2> SUFFICES ASSUME ScanInv, task.state = "completed", Len(task.counted) < task.max,
                      NEW a \in steady
               PROVE  TimesCounted(a) = 1
    BY DEF FullScanCountsEachActorOnce
  <2>1. PICK l \in Levels : \E i \in DOMAIN slots[l] : slots[l][i] = a
    BY DEF ScanInv, SteadyPresent
  <2>2. PICK i \in DOMAIN slots[l] : slots[l][i] = a
    BY <2>1
  <2>3. /\ CountedUpTo(task.counted, [level |-> task.level, slot |-> task.slot])
        /\ task.level > NLevels
    BY DEF ScanInv, Counting, Full
  <2>4. Before([level |-> task.level, slot |-> task.slot], l, i)
    BY <2>3, ScanBoundsAssumption DEF Before, ScanInv, ScanTypeOK, Tasks
  <2>5. Once(task.counted, a)
    BY <2>2, <2>3, <2>4 DEF CountedUpTo
  <2>6. PICK j \in DOMAIN task.counted :
          task.counted[j] = a /\ \A k \in DOMAIN task.counted : task.counted[k] = a => k = j
    BY <2>5 DEF Once
  <2>7. {k \in DOMAIN task.counted : task.counted[k] = a} = {j}
    BY <2>6
  <2> QED
    BY <2>7, FS_Singleton DEF TimesCounted
<1> QED
  BY <1>1, ScanInvariant, PTL

\* The report of a task that has ended never changes again: a late cancellation, a
\* late tick and the clock leave it alone, and the next task has another identifier.
THEOREM FinalTasksStayFinal == ScanSpec => FinalTasksStay
<1>1. ASSUME ScanTypeOK, [ScanNext]_vars
      PROVE  [task.state \in FinalStates /\ task'.id = task.id => task' = task]_vars
  <2> SUFFICES ASSUME task.state \in FinalStates, task'.id = task.id PROVE task' = task
    OBVIOUS
  <2>1. ~Running
    BY DEF Running, FinalStates
  <2>2. task.id \in Nat /\ lastTask \in Nat /\ (task = NoTask \/ task.id = lastTask)
        /\ (task.id = 0 => task = NoTask)
    BY <1>1 DEF ScanTypeOK, Tasks
  <2>3. ASSUME NEW max \in Limits, NEW timeout \in Timeouts, StartScanCurrentWorld(max, timeout)
        PROVE  FALSE
    <3>1. task'.id = lastTask + 1
      BY <2>3 DEF StartScanCurrentWorld, NewTask
    <3>2. task.id <= lastTask
      BY <2>2 DEF NoTask
    <3> QED
      BY <3>1, <3>2, <2>2
  <2>4. ASSUME NEW id \in 1..lastTask, Cancel(id) PROVE task' = task
    BY <2>4, <2>1 DEF Cancel, Cancelled, Running
  <2>5. CASE BridgeStops
    BY <2>5, <2>2 DEF BridgeStops, NoTask
  <2>6. CASE Tick \/ TimePasses
    BY <2>6, <2>1 DEF Tick, TimePasses
  <2>7. CASE User
    BY <2>7 DEF User, UnloadLevel, DeleteActor, AddActor, OpenWorld, TogglePlay
  <2>8. CASE UNCHANGED vars
    BY <2>8 DEF vars
  <2> QED
    BY <1>1, <2>3, <2>4, <2>5, <2>6, <2>7, <2>8 DEF ScanNext, Client
<1> QED
  BY <1>1, ScanTypeCorrect, PTL DEF ScanSpec, FinalTasksStay
=============================================================================
