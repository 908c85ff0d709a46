SPECIFICATION Spec
CONSTANTS
  Client = {1, 2}
  Thread <- MCThread
  LogRecord <- MCLogRecord
  NoRecord = NoRecord
  LOG_BUFFER_SIZE = 2
  MaxRecordLen = 2
  log_tot_len <- MCLen
  Session <- MCSession
  MaxFaults = 1
INVARIANTS
  LogBufferBound
  TxnLogSound
  OwnAnswer
  TransactionsEnd
PROPERTIES
  ImplementsWal
  SessionsProgress
CHECK_DEADLOCK FALSE
