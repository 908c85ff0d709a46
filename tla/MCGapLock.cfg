CONSTANTS
  t1 = t1
  t2 = t2
  t3 = t3
  Txn = {t1, t2, t3}
  Width = 2
  Base = 4
  MaxLocks = 1
  Keys = {2, 5, 7}
SYMMETRY Symmetry
SPECIFICATION Spec
INVARIANTS PointExclusive FenceWhenSplitsWell
PROPERTY RangeSeesWriters
