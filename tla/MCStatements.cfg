CONSTANTS
  t1 = t1  t2 = t2
  v1 = v1  v2 = v2
  Txn <- MCTxn
  Auto = {}
  Slots = 2
  Val <- MCVal
  MaxStmts = 2
  Explore = {}
SYMMETRY Symmetry
SPECIFICATION Spec
CHECK_DEADLOCK FALSE
INVARIANTS
  IndexAgrees
  AbortRestores
  ReadsStayTrue
