CONSTANTS
  Assets = {a}
  Targets = {x, y}
  Values = {v0, v1}
  UserActions = {"save","restart"}
  MaxTx = 2
  MaxSessions = 2
  MaxRev = 2
  ChangeSetIds = {c, d}
  Tools = {"unbound","revert","immediate","checkpoint","patch","lost"}
  MaxSlots = 1
  MaxOps = 2
  MaxLive = 1
  MaxSaves = 1
SPECIFICATION WorkflowSpec
SYMMETRY Symmetry
INVARIANTS WorkflowTypeOK
PROPERTIES AppliedWritesAreProven FollowsLifecycle
CHECK_DEADLOCK FALSE
