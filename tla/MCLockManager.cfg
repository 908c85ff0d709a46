CONSTANTS
  t1 = t1  t2 = t2  t3 = t3  tab = tab  s1 = s1
  Txn = {t1, t2, t3}
  Table = {tab}
  Slot = {s1}
  TableModes = {"IS", "S", "X"}
SPECIFICATION FairSpec
INVARIANTS LockInv LocksCompatible NothingHeldAfterEnd
PROPERTIES NoNewWriterUnderScan LocksReturned
