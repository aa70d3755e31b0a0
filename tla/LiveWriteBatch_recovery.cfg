CONSTANTS
  a = a
  b = b
  x = x
  v0 = v0
  v1 = v1
  Assets = {a, b}
  Targets = {x}
  Values = {v0, v1}
  UserActions = {}
  MaxTx = 3
  MaxSessions = 1
  MaxRev = 3
  Batch <- MCBatch
  Faults = {"crash"}
  MaxSets = 1
  MaxRecoveries = 1
SPECIFICATION BatchSpec
PROPERTY RecoveredLeavesNoWrite
CHECK_DEADLOCK FALSE
