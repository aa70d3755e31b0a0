CONSTANTS
  Assets = {a}
  Targets = {x, y}
  Values = {v0, v1}
  UserActions = {"restart"}
  MaxTx = 3
  MaxSessions = 2
  MaxRev = 2
  ChangeSetIds = {c}
  Tools = {"revert", "checkpoint", "refresh"}
  MaxSlots = 1
  MaxOps = 3
  MaxLive = 3
  MaxSaves = 2
SPECIFICATION WorkflowSpec
SYMMETRY Symmetry
INVARIANTS DirtyPackagesAreAccounted PendingWritesCanBeUndone CheckpointHoldsOnlyItsWrites
CHECK_DEADLOCK FALSE
