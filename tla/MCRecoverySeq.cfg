CONSTANTS
  u = u  v = v
  Txn = {1, 2, 3}
  AutoCommit = {1, 2, 3}
  PerPage = 2
  MaxPages = 2
  OldPages = 1
  Val <- MCVal
  MaxStmts = 1
  MaxCrashes = 2
  Explore = {}
SPECIFICATION FairSpec
CHECK_DEADLOCK FALSE
INVARIANTS RowsAreCommitted CanRestart
PROPERTY RecoveryEnds
