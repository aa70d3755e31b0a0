CONSTANTS
  Assets = {a}
  Targets = {x, y}
  Values = {v0, v1}
  UserActions = {}
  MaxTx = 1
  MaxSessions = 1
  MaxRev = 2
  ChangeSetIds = {c}
  Tools = {"checkpoint", "rollback"}
  MaxSlots = 1
  MaxOps = 2
  MaxLive = 1
  MaxSaves = 1
SPECIFICATION WorkflowSpec
SYMMETRY Symmetry
PROPERTIES TerminalOperationsStay
CHECK_DEADLOCK FALSE
