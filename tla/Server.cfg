CONSTANTS
  ChangeSetIds = {c}
  MaxOps = 3
  Actors = {a1, a2}
  NoActor = NoActor
  NLevels = 2
  WorldIds = {w1, w2}
  Limits = {2}
  Timeouts = {1}
  MaxSlots = 2
  MaxTasks = 1
  MaxWorlds = 2
  ScFiles = {text, pkg}
  Packages = {pkg}
  MaxHead = 2
  MaxChanges = 1
  MaxCalls = 2
  MaxOutside = 2
  MaxScFaults = 1
  Servers = {s1, s2}
  IndexedAssets = {i1, i2}
  MaxSaves = 1
  MaxGenerations = 2
  MaxEvents = 3
  MaxCandidates = 2
  Jobs = {j1, j2}
  MaxContents = 4
  MaxScripts = 3
  MaxPatchFaults = 1
  NGraphNodes = 2
  NTempNodes = 1
  MaxOperations = 3
  Callers = {p1, p2}
  Keys = {k1}
  Payloads = {h1, h2}
  Free = Free
  MaxPatches = 4
  MaxCrashes = 1
  RequestIds = {r1, r2, r3}
  MaxSeen = 2
  RateLimit = 2
  MaxArrivals = 5
  MemoryProcesses = {m1, m2}
  MaxVersions = 2
  MaxSelected = 2
  MaxNotes = 3
  MaxMemoryCalls = 3
SPECIFICATION ServerSpec
INVARIANTS ServerTypeOK NoLocalWorkLost ActivePairIsWhole UserSavesKept FullScanCountsEachActorOnce CompensationRestores KeyTakesEffectOnce ReplaysAreFarApart DistilledEventsLeaveRecords ContradictionsAreMarked
PROPERTIES FinalReportsStay AnswersOnlyConfirmedMoves FrozenPairsNeverChange RefreshKeepsEarlierOnes RollbackTakesOnlyTheCommit FinalTasksStay EveryTaskEnds
CHECK_DEADLOCK FALSE
