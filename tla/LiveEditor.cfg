CONSTANTS
  Assets = {a}
  Targets = {x, y}
  Values = {v0, v1}
  UserActions = {"edit", "undo", "redo", "save", "play", "restart", "restore"}
  MaxTx = 3
  MaxSessions = 2
  MaxRev = 2
SPECIFICATION EditorSpec
SYMMETRY Symmetry
INVARIANTS EditorTypeOK CleanMeansSaved
PROPERTY ChainSparesUserEdits
CHECK_DEADLOCK FALSE
