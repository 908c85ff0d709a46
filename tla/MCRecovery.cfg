CONSTANTS
  u = u  v = v
  Txn = {1, 2, 3}
  AutoCommit = {3}
  PerPage = 1
  MaxPages = 1
  OldPages = 1
  Val <- MCVal
  MaxStmts = 1
  MaxCrashes = 2
  Explore = {"overlap"}
SYMMETRY Contents
SPECIFICATION Spec
CHECK_DEADLOCK FALSE
INVARIANTS
  RowsAreCommitted
  LogSound
