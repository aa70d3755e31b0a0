CONSTANTS
  Assets = {a}
  Targets = {x, y}
  Values = {v0, v1}
  UserActions = {"edit","undo","save"}
  MaxTx = 2
  MaxSessions = 1
  MaxRev = 2
  ChangeSetIds = {c}
  Tools = {"checkpoint","crash","lost","revert","rollback"}
  MaxSlots = 1
  MaxOps = 2
  MaxLive = 2
  MaxSaves = 2
SPECIFICATION WorkflowSpec
SYMMETRY Symmetry
INVARIANTS CheckpointHoldsItsWrites
PROPERTIES SupersededNeverCounts
CHECK_DEADLOCK FALSE
