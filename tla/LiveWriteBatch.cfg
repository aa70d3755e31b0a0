CONSTANTS
  a = a
  b = b
  x = x
  v0 = v0
  v1 = v1
  Assets = {a, b}
  Targets = {x}
  Values = {v0, v1}
  UserActions = {"edit", "save", "restart"}
  MaxTx = 4
  MaxSessions = 2
  MaxRev = 3
  Batch <- MCBatch
  Faults = {"crash", "lost", "reject"}
  MaxSets = 1
  MaxRecoveries = 1
SPECIFICATION BatchSpec
INVARIANTS BatchTypeOK FinishedExecutionAccountsForWrites VerifiedSetHoldsTheBatch
PROPERTIES RecoveredMeansTakenBack UndoneBeforeUnload
CHECK_DEADLOCK FALSE
