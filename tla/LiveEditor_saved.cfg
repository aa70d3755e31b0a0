CONSTANTS
  Assets = {a}
  Targets = {x, y}
  Values = {v0, v1}
  UserActions = {"edit", "undo", "redo", "save", "play", "restart"}
  MaxTx = 4
  MaxSessions = 2
  MaxRev = 2
SPECIFICATION EditorSpec
SYMMETRY Symmetry
INVARIANT SavedWritesAreNotUndone
CHECK_DEADLOCK FALSE
