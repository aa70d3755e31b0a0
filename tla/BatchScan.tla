----------------------------- MODULE BatchScan -----------------------------
(***************************************************************************)
(* The Editor's batch task (FBatchTaskManager): a scan of the actors of    *)
(* the loaded world, a slice per tick, while the user goes on editing that *)
(* world.  One task at a time; clients start it, poll it and cancel it.    *)
(*                                                                         *)
(* Between two ticks the task keeps positions, never actors: the level and *)
(* the slot in that level's actor array.  The engine keeps a deleted       *)
(* actor's slot, empty, and appends new actors.                            *)
(***************************************************************************)
EXTENDS Naturals, Sequences, FiniteSets

CONSTANTS
  Actors,     \* actors that may be placed in the world
  NoActor,    \* an empty slot
  NLevels,    \* levels of a world
  WorldIds,   \* GetUniqueID of a world: reused after the world is gone
  Limits,     \* maxActors of a request, already clamped
  Timeouts,   \* timeoutSeconds of a request, already clamped, in clock units
  MaxSlots,   \* bound: slots of a level
  MaxTasks,   \* bound: tasks ever started
  MaxWorlds   \* bound: worlds ever opened

ASSUME NoActorAssumption == NoActor \notin Actors
ASSUME WorldIdsAssumption == WorldIds # {}
ASSUME LimitsAssumption == Limits \subseteq Nat \ {0} /\ Timeouts \subseteq Nat \ {0}
ASSUME ScanBoundsAssumption ==
  NLevels \in Nat /\ MaxSlots \in Nat /\ MaxTasks \in Nat /\ MaxWorlds \in Nat \ {0}

VARIABLES
  slots,     \* the actor array of each level
  alive,     \* levels that are still valid objects
  world,     \* the Editor's world, counted as they are opened
  worldId,   \* its GetUniqueID
  playing,   \* PIE or SIE
  task,      \* the manager's task
  lastTask,  \* tasks started
  steady     \* history: actors in the world ever since the task started

worldVars == <<slots, alive, world, worldId, playing>>
vars == <<worldVars, task, lastTask, steady>>

Levels == 1..NLevels
FinalStates == {"completed", "cancelled", "timed-out", "invalidated"}
\* world is what its weak pointers to levels refer to, worldId what it compares.
Tasks == [id : Nat, state : {"running"} \cup FinalStates, world : Nat,
          worldId : WorldIds, max : Nat, left : Nat,
          level : Nat, slot : Nat, counted : Seq(Actors)]
NoTask == [id |-> 0, state |-> "cancelled", world |-> 0,
           worldId |-> CHOOSE w \in WorldIds : TRUE, max |-> 0, left |-> 0,
           level |-> 1, slot |-> 0, counted |-> <<>>]

ScanTypeOK ==
  /\ slots \in [Levels -> Seq(Actors \cup {NoActor})]
  /\ alive \in [Levels -> BOOLEAN]
  /\ world \in Nat /\ worldId \in WorldIds /\ playing \in BOOLEAN
  /\ task \in Tasks /\ lastTask \in Nat
  /\ task # NoTask => (task.id = lastTask /\ lastTask > 0)
  /\ steady \subseteq Actors

ActorsIn(l) == {slots[l][i] : i \in DOMAIN slots[l]} \ {NoActor}
ActorsPresent == UNION {ActorsIn(l) : l \in Levels}

\* An actor lies in at most one slot.
Placement(s) ==
  \A l, k \in Levels : \A i \in DOMAIN s[l], j \in DOMAIN s[k] :
    s[l][i] = s[k][j] => l = k /\ i = j
Worlds ==
  {s \in [Levels -> UNION {[1..n -> Actors] : n \in 0..MaxSlots}] : Placement(s)}

ScanInit ==
  /\ slots \in Worlds
  /\ alive = [l \in Levels |-> TRUE]
  /\ world = 1 /\ worldId \in WorldIds
  /\ playing = FALSE
  /\ task = NoTask
  /\ lastTask = 0
  /\ steady = {}

-----------------------------------------------------------------------------
(* Requests: start, cancel                                                 *)

Running == task.state = "running"

NewTask(max, timeout) ==
  [id |-> lastTask + 1, state |-> "running", world |-> world, worldId |-> worldId,
   max |-> max, left |-> timeout, level |-> 1, slot |-> 0, counted |-> <<>>]

\* A running task makes the request fail; a finished one is replaced.
StartScanCurrentWorld(max, timeout) ==
  /\ ~Running /\ ~playing
  /\ lastTask < MaxTasks
  /\ task' = NewTask(max, timeout)
  /\ lastTask' = lastTask + 1
  /\ steady' = ActorsPresent
  /\ UNCHANGED worldVars

CompleteTask(t, state) == [t EXCEPT !.state = state]

Cancelled_Always(t) == CompleteTask(t, "cancelled")
Cancelled(t) == IF t.state = "running" THEN CompleteTask(t, "cancelled") ELSE t

Cancel(id) ==
  /\ task.id = id
  /\ task' = Cancelled(task)
  /\ UNCHANGED <<worldVars, lastTask, steady>>

-----------------------------------------------------------------------------
(* Tick                                                                    *)

\* The level is gone, by itself or with its world, or read to its end.
LevelDone(p) ==
  /\ p.level <= NLevels
  /\ \/ world # task.world
     \/ ~alive[p.level]
     \/ p.slot >= Len(slots[p.level])

\* Positions the loop passes from p without scanning a slot.
Skipping_KeepsSlot(p) ==
  {p} \cup {[level |-> k, slot |-> p.slot] : k \in
             {j \in (p.level + 1)..(NLevels + 1) :
                /\ LevelDone(p)
                /\ \A i \in (p.level + 1)..(j - 1) : LevelDone([level |-> i, slot |-> 0])}}

Skipping(p) ==
  {p} \cup {[level |-> k, slot |-> 0] : k \in
             {j \in (p.level + 1)..(NLevels + 1) :
                /\ LevelDone(p)
                /\ \A i \in (p.level + 1)..(j - 1) : LevelDone([level |-> i, slot |-> 0])}}

AtEnd(p) == p.level > NLevels

Position == [level |-> task.level, slot |-> task.slot]
MovedTo(t, p) == [t EXCEPT !.level = p.level, !.slot = p.slot]

\* One slot read at p, its actor counted if there is one.
Scanned_OnlyActors(t, p, a) ==
  IF a = NoActor THEN MovedTo(t, p)
  ELSE [t EXCEPT !.level = p.level, !.slot = p.slot + 1, !.counted = Append(@, a)]

Scanned(t, p, a) ==
  [t EXCEPT !.level = p.level, !.slot = p.slot + 1,
            !.counted = IF a = NoActor THEN @ ELSE Append(@, a)]

\* After the actor limit the scan ends at once; otherwise the tick goes on to
\* the next slot, or stops there or at any level it has passed by then.
AfterSlot(t, a) ==
  IF a # NoActor /\ Len(t.counted) >= t.max
  THEN {CompleteTask(t, "completed")}
  ELSE {IF AtEnd(q) THEN CompleteTask(MovedTo(t, q), "completed") ELSE MovedTo(t, q) :
          q \in Skipping([level |-> t.level, slot |-> t.slot])}

\* A slice of one slot.  The time budget may stop a tick after any slot, so a
\* tick that reads more slots is a sequence of these.
Scan ==
  \E p \in Skipping(Position) :
    /\ ~LevelDone(p)
    /\ IF AtEnd(p) THEN task' = CompleteTask(MovedTo(task, p), "completed")
       ELSE LET a == slots[p.level][p.slot + 1] IN
              task' \in AfterSlot(Scanned(task, p, a), a)

Tick ==
  /\ Running
  /\ IF playing \/ worldId # task.worldId THEN task' = CompleteTask(task, "invalidated")
     ELSE IF task.left = 0 THEN task' = CompleteTask(task, "timed-out")
     ELSE Scan
  /\ UNCHANGED <<worldVars, lastTask, steady>>

-----------------------------------------------------------------------------
(* The clock, the bridge and the user                                      *)

TimePasses ==
  /\ Running /\ task.left > 0
  /\ task' = [task EXCEPT !.left = @ - 1]
  /\ UNCHANGED <<worldVars, lastTask, steady>>

\* The bridge stops, with the Editor or alone: its manager is destroyed.
BridgeStops ==
  /\ task # NoTask
  /\ task' = NoTask
  /\ UNCHANGED <<worldVars, lastTask, steady>>

DeleteActor(l, i) ==
  /\ alive[l] /\ i \in DOMAIN slots[l] /\ slots[l][i] # NoActor
  /\ slots' = [slots EXCEPT ![l][i] = NoActor]
  /\ steady' = steady \ {slots[l][i]}
  /\ UNCHANGED <<alive, world, worldId, playing, task, lastTask>>

AddActor(l, a) ==
  /\ alive[l] /\ a \notin ActorsPresent /\ Len(slots[l]) < MaxSlots
  /\ slots' = [slots EXCEPT ![l] = Append(@, a)]
  /\ UNCHANGED <<alive, world, worldId, playing, task, lastTask, steady>>

UnloadLevel(l) ==
  /\ alive[l]
  /\ alive' = [alive EXCEPT ![l] = FALSE]
  /\ slots' = [slots EXCEPT ![l] = <<>>]
  /\ steady' = steady \ ActorsIn(l)
  /\ UNCHANGED <<world, worldId, playing, task, lastTask>>

OpenWorld ==
  /\ world < MaxWorlds
  /\ world' = world + 1 /\ worldId' \in WorldIds
  /\ slots' \in Worlds
  /\ alive' = [l \in Levels |-> TRUE]
  /\ steady' = {}
  /\ UNCHANGED <<playing, task, lastTask>>

TogglePlay ==
  /\ playing' = ~playing
  /\ UNCHANGED <<slots, alive, world, worldId, task, lastTask, steady>>

User ==
  \/ \E l \in Levels : UnloadLevel(l) \/ \E i \in 1..MaxSlots : DeleteActor(l, i)
  \/ \E l \in Levels, a \in Actors : AddActor(l, a)
  \/ OpenWorld
  \/ TogglePlay

Client ==
  \/ \E max \in Limits, timeout \in Timeouts : StartScanCurrentWorld(max, timeout)
  \/ \E id \in 1..lastTask : Cancel(id)

ScanNext == Client \/ Tick \/ TimePasses \/ BridgeStops \/ User

\* The engine's ticker calls the manager again and again.
ScanSpec == ScanInit /\ [][ScanNext]_vars /\ WF_vars(Tick)

-----------------------------------------------------------------------------
(* Properties                                                              *)

TimesCounted(a) == Cardinality({i \in DOMAIN task.counted : task.counted[i] = a})

\* What a completed scan that stayed below its limit reports: each actor that was
\* in the world all the time is counted exactly once, however the user adds and
\* deletes actors and unloads levels between the slices, although the task keeps
\* nothing but a level and a slot number from one tick to the next.
FullScanCountsEachActorOnce ==
  task.state = "completed" /\ Len(task.counted) < task.max =>
    \A a \in steady : TimesCounted(a) = 1

\* Once a client has seen a task end, its result stays as it is until the task is
\* replaced: no late tick, cancellation or time limit changes it.
FinalTasksStay ==
  [][task.state \in FinalStates /\ task'.id = task.id => task' = task]_vars

\* Every task ends and makes room for the next, also one whose identifier never
\* reached its client and that therefore nobody can cancel, whatever the user does
\* to the world meanwhile.  As a level has at most MaxSlots slots here, the scan ends
\* before its deadline has to end it, so no fairness of the clock is assumed.
EveryTaskEnds == Running ~> ~Running
=============================================================================
