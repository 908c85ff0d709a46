CONSTANTS
  t1 = t1  t2 = t2  t3 = t3
  Txn <- MCTxn
  PerPage = 2
  MaxPages = 2
  MaxWrites = 2
  Explore = {}
SYMMETRY Symmetry
SPECIFICATION Spec
CHECK_DEADLOCK FALSE
INVARIANTS
  FileSound
  AbortSound
  ScanComplete
