CONSTANTS
  Assets = {a}
  Targets = {x, y}
  Values = {v0, v1}
  UserActions = {"save", "edit"}
  MaxTx = 2
  MaxSessions = 1
  MaxRev = 2
  ChangeSetIds = {c}
  Tools = {"immediate", "rollback"}
  MaxSlots = 1
  MaxOps = 3
  MaxLive = 2
  MaxSaves = 1
SPECIFICATION WorkflowSpec
SYMMETRY Symmetry
INVARIANTS RollbackSparesLaterSaves
CHECK_DEADLOCK FALSE
