------------------------------- MODULE Snapshots -------------------------------
(***************************************************************************)
(* Index generations: a server freezes the active pair of SQLite index and *)
(* Revision Export when it starts; ue_refresh_asset_index and the batch    *)
(* refresh build the next pair in a directory of its own and then move the *)
(* pointer active-snapshot.json to it.                                     *)
(*                                                                         *)
(* Several servers may use one work root, the user saves packages and      *)
(* rebuilds the configured pair meanwhile, a step of a refresh may fail    *)
(* and a server may die between any two.                                   *)
(***************************************************************************)
EXTENDS Naturals, FiniteSets

CONSTANTS
  Servers,         \* MCP servers on one work root
  IndexedAssets,   \* assets of the index
  MaxSaves,        \* bound: packages the user saves
  MaxGenerations,  \* bound: generations ever built
  MaxEvents,       \* bound: starts of servers, saves and rebuilds together
  MaxCandidates    \* bound: refresh candidates prepared

ASSUME SnapshotAssumption ==
  /\ MaxSaves \in Nat /\ MaxGenerations \in Nat
  /\ MaxEvents \in Nat /\ MaxCandidates \in Nat

Legacy == 0     \* no pointer: the configured pair is the active one
Unindexed == 0
Revisions == 1..(MaxSaves + 1)
Index == [IndexedAssets -> Revisions \cup {Unindexed}]
Pair == [db : Index, export : Index]

VARIABLES
  package,      \* revision of each package on disk
  configured,   \* the configured pair, which the user rebuilds at will
  generations,  \* the generation directories under snapshots/
  pointer,      \* generation that active-snapshot.json names
  session,      \* what each server froze, its refresh candidates
  build,        \* the refresh each server is working on
  snapshotLeft  \* steps still allowed by the bounds

snapshotVars == <<package, configured, generations, pointer, session, build, snapshotLeft>>

NoPair == [db |-> [a \in IndexedAssets |-> Unindexed],
           export |-> [a \in IndexedAssets |-> Unindexed]]
Session(state, base, pair, overtaken) ==
  [state |-> state, base |-> base, pair |-> pair, applied |-> FALSE,
   candidates |-> [a \in IndexedAssets |-> Unindexed], overtaken |-> overtaken]
NoSession == Session("off", Legacy, NoPair, FALSE)
NoBuild == [step |-> "idle", target |-> [a \in {} |-> Unindexed], pair |-> NoPair,
            generation |-> Legacy]
NoDirectory == [whole |-> FALSE, pair |-> NoPair, refreshed |-> [a \in {} |-> Unindexed]]

Targets == UNION {[T -> Revisions] : T \in SUBSET IndexedAssets}
GenerationIds == 1..MaxGenerations

SessionStates == [state : {"off", "freezing", "on"}, base : 0..MaxGenerations, pair : Pair,
                  applied : BOOLEAN, candidates : Index, overtaken : BOOLEAN]
BuildStates == [step : {"idle", "clone", "index", "publish", "point"},
                target : Targets, pair : Pair, generation : 0..MaxGenerations]

SnapshotTypeOK ==
  /\ package \in [IndexedAssets -> Revisions]
  /\ configured \in Pair
  /\ generations \in [GenerationIds -> [whole : BOOLEAN, pair : Pair, refreshed : Targets]]
  /\ pointer \in 0..MaxGenerations
  /\ session \in [Servers -> SessionStates]
  /\ build \in [Servers -> BuildStates]
  /\ snapshotLeft \in [ids : 0..MaxGenerations, saves : 0..MaxSaves,
                       events : 0..MaxEvents,
                       candidates : 0..MaxCandidates]

-----------------------------------------------------------------------------
(* Pairs.                                                                  *)

Generation(g) == generations[g].pair

\* The pair a refresh of the server builds on: a pinned generation, or the
\* configured pair itself and not the copy the session froze.
BasePair(s) == IF session[s].base = Legacy THEN configured ELSE Generation(session[s].base)

\* What the server answers queries from.
FrozenPair(s) == IF session[s].base = Legacy THEN session[s].pair ELSE Generation(session[s].base)

\* The entries of the refreshed assets are replaced, every other is kept.
Refreshed(index, target) ==
  [a \in IndexedAssets |-> IF a \in DOMAIN target THEN target[a] ELSE index[a]]

Builds(s, step, target, pair, generation) ==
  build' = [build EXCEPT ![s] = [step |-> step, target |-> target, pair |-> pair, generation |-> generation]]

\* The clone shares its files with the generation it was made from (hard links),
\* so a canonical file is unlinked before the new one is copied in.
WithClonedExport(s, exports) ==
  Builds(s, "index", build[s].target, [db |-> build[s].pair.db, export |-> exports], Legacy)

\* The mistake of copying a candidate over the file both generations share.
CloneExport_InPlace(s) ==
  /\ build[s].step = "clone"
  /\ LET exports == Refreshed(BasePair(s).export, build[s].target)
     IN  /\ WithClonedExport(s, exports)
         /\ generations' =
              IF session[s].base = Legacy THEN generations
              ELSE [generations EXCEPT ![session[s].base].pair.export = exports]
  /\ UNCHANGED <<package, configured, pointer, session, snapshotLeft>>

CloneExport(s) ==
  /\ build[s].step = "clone"
  /\ WithClonedExport(s, Refreshed(BasePair(s).export, build[s].target))
  /\ UNCHANGED <<package, configured, generations, pointer, session, snapshotLeft>>

-----------------------------------------------------------------------------
(* A server starts.                                                        *)

\* resolve_active_snapshot: the pointer's generation must be there, whole.
CanResolve == pointer # Legacy => generations[pointer].whole

\* A generation is used where it is; the configured pair is copied, first the
\* database and then the export.
Resolve(s) ==
  /\ session[s].state = "off" /\ snapshotLeft.events > 0 /\ CanResolve
  /\ session' = [session EXCEPT ![s] =
       Session(IF pointer = Legacy THEN "freezing" ELSE "on", pointer,
               [db |-> configured.db, export |-> NoPair.export], FALSE)]
  /\ snapshotLeft' = [snapshotLeft EXCEPT !.events = @ - 1]
  /\ UNCHANGED <<package, configured, generations, pointer, build>>

FreezeExport(s) ==
  /\ session[s].state = "freezing"
  /\ session' = [session EXCEPT ![s] =
       Session("on", session[s].base, [db |-> session[s].pair.db, export |-> configured.export],
               session[s].overtaken)]
  /\ UNCHANGED <<package, configured, generations, pointer, build, snapshotLeft>>

-----------------------------------------------------------------------------
(* Refresh.  A server works on one call at a time, under its lock.         *)

Idle(s) == session[s].state = "on" /\ build[s].step = "idle"

\* The mistake of a second refresh from the pair the session started with.
SessionCurrent_Always(s) == TRUE

SessionCurrent(s) == ~session[s].applied

StartBuild(s, target) == Builds(s, "clone", target, NoPair, Legacy)

\* ue_refresh_asset_index Apply: an independent Unreal process exports the asset
\* and its revision is compared with the package on disk.
RefreshAsset(s, a) ==
  /\ Idle(s) /\ SessionCurrent(s) /\ snapshotLeft.ids > 0
  /\ StartBuild(s, [b \in {a} |-> package[b]])
  /\ UNCHANGED <<package, configured, generations, pointer, session, snapshotLeft>>

PrepareCandidate(s, a) ==
  /\ Idle(s) /\ SessionCurrent(s) /\ snapshotLeft.candidates > 0
  /\ session[s].candidates[a] # package[a]
  /\ session' = [session EXCEPT ![s].candidates[a] = package[a]]
  /\ snapshotLeft' = [snapshotLeft EXCEPT !.candidates = @ - 1]
  /\ UNCHANGED <<package, configured, generations, pointer, build>>

DiscardCandidate(s, a) ==
  /\ Idle(s) /\ session[s].candidates[a] # Unindexed
  /\ session' = [session EXCEPT ![s].candidates[a] = Unindexed]
  /\ UNCHANGED <<package, configured, generations, pointer, build, snapshotLeft>>

\* apply_batch_index_refresh: a candidate whose package changed since is refused.
ApplyCandidates(s, T) ==
  /\ Idle(s) /\ SessionCurrent(s) /\ snapshotLeft.ids > 0 /\ T # {}
  /\ \A a \in T : session[s].candidates[a] = package[a]
  /\ StartBuild(s, [a \in T |-> session[s].candidates[a]])
  /\ UNCHANGED <<package, configured, generations, pointer, session, snapshotLeft>>

BuildIndex(s) ==
  /\ build[s].step = "index"
  /\ Builds(s, "publish", build[s].target,
            [db |-> Refreshed(BasePair(s).db, build[s].target), export |-> build[s].pair.export], Legacy)
  /\ UNCHANGED <<package, configured, generations, pointer, session, snapshotLeft>>

NextGeneration == MaxGenerations - snapshotLeft.ids + 1

\* What is checked before the pair is given its name.
Validated(s) ==
  \A a \in DOMAIN build[s].target : build[s].pair.db[a] = build[s].target[a]

WithPublished(s) ==
  /\ build[s].step = "publish" /\ snapshotLeft.ids > 0 /\ Validated(s)
  /\ Builds(s, "point", build[s].target, build[s].pair, NextGeneration)
  /\ snapshotLeft' = [snapshotLeft EXCEPT !.ids = @ - 1]

\* The mistake of writing the pointer before the directory has its name.
PublishDirectory_PointerFirst(s) ==
  /\ WithPublished(s)
  /\ pointer' = NextGeneration
  /\ UNCHANGED <<package, configured, generations, session>>

\* The staging directory is renamed to the generation it is.
PublishDirectory(s) ==
  /\ WithPublished(s)
  /\ generations' = [generations EXCEPT ![NextGeneration] =
       [whole |-> TRUE, pair |-> build[s].pair, refreshed |-> build[s].target]]
  /\ UNCHANGED <<package, configured, pointer, session>>

\* The session keeps its pair and refuses further workflow calls; a batch's
\* candidates are used up.
MovePointer(s) ==
  /\ build[s].step = "point"
  /\ pointer' = build[s].generation
  /\ session' = [t \in Servers |->
       IF t = s THEN [session[s] EXCEPT !.applied = TRUE,
                        !.candidates = [a \in IndexedAssets |->
                          IF a \in DOMAIN build[s].target THEN Unindexed ELSE @[a]]]
       ELSE [session[t] EXCEPT !.overtaken = (session[t].state # "off")]]
  /\ build' = [build EXCEPT ![s] = NoBuild]
  /\ UNCHANGED <<package, configured, generations, snapshotLeft>>

\* A step raises: the staging directory goes, and the generation directory too
\* as long as the pointer was not written.
FailBuild(s) ==
  /\ build[s].step # "idle"
  /\ generations' = [g \in GenerationIds |->
       IF g = build[s].generation THEN NoDirectory ELSE generations[g]]
  /\ build' = [build EXCEPT ![s] = NoBuild]
  /\ UNCHANGED <<package, configured, pointer, session, snapshotLeft>>

\* The server stops or dies: nothing is cleaned up.
StopServer(s) ==
  /\ session[s].state # "off"
  /\ session' = [session EXCEPT ![s] = NoSession]
  /\ build' = [build EXCEPT ![s] = NoBuild]
  /\ UNCHANGED <<package, configured, generations, pointer, snapshotLeft>>

-----------------------------------------------------------------------------
(* The user.                                                               *)

SavePackage(a) ==
  /\ snapshotLeft.saves > 0 /\ snapshotLeft.events > 0
  /\ package' = [package EXCEPT ![a] = @ + 1]
  /\ snapshotLeft' = [snapshotLeft EXCEPT !.saves = @ - 1, !.events = @ - 1]
  /\ UNCHANGED <<configured, generations, pointer, session, build>>

ExportProject ==
  /\ snapshotLeft.events > 0 /\ configured.export # package
  /\ configured' = [configured EXCEPT !.export = package]
  /\ snapshotLeft' = [snapshotLeft EXCEPT !.events = @ - 1]
  /\ UNCHANGED <<package, generations, pointer, session, build>>

IndexExport ==
  /\ configured.db # configured.export
  /\ configured' = [configured EXCEPT !.db = configured.export]
  /\ UNCHANGED <<package, generations, pointer, session, build, snapshotLeft>>

-----------------------------------------------------------------------------
SnapshotInit ==
  /\ package = [a \in IndexedAssets |-> 1]
  /\ configured = [db |-> package, export |-> package]
  /\ generations = [g \in GenerationIds |-> NoDirectory]
  /\ pointer = Legacy
  /\ session = [s \in Servers |-> NoSession]
  /\ build = [s \in Servers |-> NoBuild]
  /\ snapshotLeft = [ids |-> MaxGenerations, saves |-> MaxSaves,
                     events |-> MaxEvents,
                     candidates |-> MaxCandidates]

ServerSteps(s) ==
  \/ Resolve(s) \/ FreezeExport(s) \/ StopServer(s)
  \/ \E a \in IndexedAssets : RefreshAsset(s, a) \/ PrepareCandidate(s, a) \/ DiscardCandidate(s, a)
  \/ \E T \in SUBSET IndexedAssets : ApplyCandidates(s, T)
  \/ CloneExport(s) \/ BuildIndex(s) \/ PublishDirectory(s) \/ MovePointer(s) \/ FailBuild(s)

SnapshotNext ==
  \/ \E s \in Servers : ServerSteps(s)
  \/ \E a \in IndexedAssets : SavePackage(a)
  \/ ExportProject \/ IndexExport

SnapshotSpec == SnapshotInit /\ [][SnapshotNext]_snapshotVars

-----------------------------------------------------------------------------
\* A server can always start again, whatever failed or died before: the pointer
\* names a generation that is there, whose index and export agree on every asset
\* its refresh was for.
ActivePairIsWhole ==
  pointer # Legacy =>
    LET active == generations[pointer]
    IN  /\ active.whole
        /\ \A a \in DOMAIN active.refreshed :
             active.pair.db[a] = active.refreshed[a] /\ active.pair.export[a] = active.refreshed[a]

\* What a running server answers from never changes: not when the user rebuilds
\* the configured pair, and not when it or another server refreshes assets.
FrozenPairsNeverChange ==
  [][\A s \in Servers : session[s].state = "on" /\ session'[s].state = "on"
       => FrozenPair(s)' = FrozenPair(s)]_snapshotVars

\* A refresh keeps what earlier refreshes brought into the index, unless another
\* server moved the pointer since this one started.
RefreshKeepsEarlierOnes ==
  [][\A s \in Servers :
       build[s].step = "point" /\ pointer # Legacy /\ pointer' = build[s].generation
         /\ ~session[s].overtaken
       => \A a \in IndexedAssets \ DOMAIN build[s].target :
            Generation(pointer').db[a] = Generation(pointer).db[a]]_snapshotVars
=============================================================================
