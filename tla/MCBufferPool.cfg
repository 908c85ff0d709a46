CONSTANTS
  tab = tab  idx = idx  f1 = f1  f2 = f2  h1 = h1  h2 = h2
  Absent = Absent  NoFrame = NoFrame  NoPage = NoPage  NoHandle = NoHandle
  Zero = 0
  MaxPages = 2
  ConcurrentDDL = FALSE
  Fd <- MCFd
  RecordFd <- MCRecordFd
  Frame <- MCFrame
  Handle <- MCHandle
  Val <- MCVal
  MaxOpens <- OpensOnce
SYMMETRY Symmetry
SPECIFICATION Spec
CHECK_DEADLOCK FALSE
INVARIANT
  PoolSound
PROPERTIES
  LostOnlyByFailedRead
  KeepsPages
