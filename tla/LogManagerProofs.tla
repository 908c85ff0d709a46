-------------------------- MODULE LogManagerProofs --------------------------
(***************************************************************************)
(* Proofs about the log manager, for every set of threads and every size   *)
(* of the buffer: the room an unchecked add may need, and that the log     *)
(* manager implements the abstract log of module Wal.                      *)
(***************************************************************************)
EXTENDS LogManager, FiniteSetTheorems, TLAPS

(* The number of threads between their flush and their add is at most the  *)
(* number of threads, and less than it when one of them is elsewhere.      *)
LEMMA FlushedCount ==
  ASSUME LogTypeOK
  PROVE  /\ IsFiniteSet(Flushed) /\ Cardinality(Flushed) \in Nat
         /\ Cardinality(Thread) \in Nat /\ Cardinality(Thread) > 0
         /\ Cardinality(Flushed) <= Cardinality(Thread)
         /\ \A t \in Thread : lpc[t] # "flushed" => Cardinality(Flushed) <= Cardinality(Thread) - 1
<1>1. Flushed \subseteq Thread
  BY DEF Flushed
<1>2. IsFiniteSet(Flushed) /\ Cardinality(Flushed) \in Nat /\ Cardinality(Thread) \in Nat
      /\ Cardinality(Flushed) <= Cardinality(Thread)
  BY <1>1, LogAssumption, FS_Subset, FS_CardinalityType
<1>3. Cardinality(Thread) > 0
  BY <1>2, LogAssumption, FS_EmptySet
<1>4. ASSUME NEW t \in Thread, lpc[t] # "flushed"
      PROVE  Cardinality(Flushed) <= Cardinality(Thread) - 1
  <2>1. Flushed \subseteq Thread \ {t}
    BY <1>4 DEF Flushed
  <2>2. IsFiniteSet(Thread \ {t}) /\ Cardinality(Thread \ {t}) = Cardinality(Thread) - 1
    BY LogAssumption, FS_RemoveElement
  <2> QED
    BY <2>1, <2>2, FS_Subset
<1> QED
  BY <1>2, <1>3, <1>4

(* One multiple more or less. *)
LEMMA Multiples ==
  /\ \A n, m \in Nat : n > 0 => (n - 1) * m = n * m - m /\ n * m \in Nat /\ (n - 1) * m \in Nat
  /\ \A k, n, m \in Nat : k <= n => k * m <= n * m /\ k * m \in Nat
<1>1. ASSUME NEW n \in Nat, NEW m \in Nat, n > 0
      PROVE  (n - 1) * m = n * m - m /\ n * m \in Nat /\ (n - 1) * m \in Nat
  BY <1>1, SMT
<1>2. ASSUME NEW k \in Nat, NEW n \in Nat, NEW m \in Nat, k <= n
      PROVE  k * m <= n * m /\ k * m \in Nat
  BY <1>2, SMT
<1> QED
  BY <1>1, <1>2

(* In every state of the invariant an unchecked add fits behind the        *)
(* buffer's end with one record for every other thread.                    *)
LEMMA InvBound == LogInv => LogBufferBound
<1> SUFFICES ASSUME LogInv PROVE LogBufferBound
  OBVIOUS
<1> USE DEF LogInv
<1>1. ASSUME NEW t \in Flushed
      PROVE  buf_offset + log_tot_len(adding[t])
               <= LOG_BUFFER_SIZE + (Cardinality(Thread) - 1) * MaxRecordLen
  <2>1. Cardinality(Flushed) \in Nat /\ Cardinality(Flushed) >= 1
    <3>1. IsFiniteSet(Flushed) /\ Cardinality(Flushed) \in Nat
      BY FlushedCount
    <3>2. Cardinality(Flushed) # 0
      BY <3>1, <1>1, FS_EmptySet
    <3> QED
      BY <3>1, <3>2
  <2>2. log_tot_len(adding[t]) \in Nat /\ log_tot_len(adding[t]) <= MaxRecordLen
    BY LogAssumption DEF Flushed, LogTypeOK
  <2>3. 1 * MaxRecordLen <= Cardinality(Flushed) * MaxRecordLen /\ Cardinality(Flushed) * MaxRecordLen \in Nat
    BY <2>1, Multiples, LogAssumption
  <2>4. buf_offset \in Nat /\ MaxRecordLen \in Nat /\ LOG_BUFFER_SIZE \in Nat
    BY LogAssumption DEF LogTypeOK
  <2>5. (Cardinality(Thread) - 1) * MaxRecordLen \in Nat
    BY <2>4, FlushedCount, Multiples
  <2>6. \A o, l, M, a, b \in Nat : l <= M /\ 1 * M <= a /\ o + a <= b => o + l <= b
    OBVIOUS
  <2>7. LOG_BUFFER_SIZE + (Cardinality(Thread) - 1) * MaxRecordLen \in Nat
    BY <2>4, <2>5
  <2> QED
    BY <2>2, <2>3, <2>4, <2>6, <2>7
<1> QED
  BY <1>1 DEF LogBufferBound

(* The log starts in a state of the invariant. *)
LEMMA InitInv == LogInit => LogInv
<1> SUFFICES ASSUME LogInit PROVE LogInv
  OBVIOUS
<1>1. LogTypeOK
  <2>1. <<>> \in Seq([lsn : Nat, rec : LogRecord])
    OBVIOUS
  <2>2. buffer = <<>> /\ log_file = <<>> /\ buf_offset = 0 /\ global_lsn = 0 /\ overrun = FALSE
    BY DEF LogInit
  <2>3. lpc \in [Thread -> {"out", "full", "flushed"}] /\ \A t \in Thread : lpc[t] = "out"
    BY DEF LogInit
  <2>4. adding \in [Thread -> LogRecord \cup {NoRecord}]
    BY DEF LogInit
  <2> QED
    BY <2>1, <2>2, <2>3, <2>4 DEF LogTypeOK
<1>2. Flushed = {} /\ Cardinality(Flushed) = 0
  BY FS_EmptySet DEF LogInit, Flushed
<1>3. 0 * MaxRecordLen = 0 /\ (Cardinality(Thread) - 1) * MaxRecordLen \in Nat
  BY <1>1, FlushedCount, Multiples, LogAssumption
<1>4. buf_offset <= buffer_size
  BY LogAssumption DEF LogInit, buffer_size
<1> QED
  BY <1>1, <1>2, <1>3, <1>4, LogAssumption DEF LogInit, LogInv

(* A write of the buffer leaves room for a record of every thread. *)
LEMMA WriteRoom ==
  ASSUME LogTypeOK', WriteBuffer
  PROVE  buf_offset' + Cardinality(Flushed)' * MaxRecordLen
           <= LOG_BUFFER_SIZE + (Cardinality(Thread) - 1) * MaxRecordLen
<1> DEFINE N == Cardinality(Thread)
           F == Cardinality(Flushed)'
<1>1. N \in Nat /\ N > 0 /\ F \in Nat /\ F <= N
  <2>1. Flushed' \subseteq Thread
    BY DEF Flushed
  <2> QED
    BY <2>1, LogAssumption, FS_Subset, FS_CardinalityType, FS_EmptySet
<1>2. MaxRecordLen \in Nat /\ LOG_BUFFER_SIZE \in Nat /\ MaxRecordLen <= LOG_BUFFER_SIZE
  BY LogAssumption
<1>3. F * MaxRecordLen <= N * MaxRecordLen /\ F * MaxRecordLen \in Nat
  BY <1>1, <1>2, Multiples
<1>4. (N - 1) * MaxRecordLen = N * MaxRecordLen - MaxRecordLen /\ N * MaxRecordLen \in Nat
  BY <1>1, <1>2, Multiples
<1>5. buf_offset' = 0
  BY DEF WriteBuffer
<1> QED
  BY <1>2, <1>3, <1>4, <1>5

(* Adding a record keeps the types and counts it. *)
LEMMA PutTyped ==
  ASSUME LogTypeOK, NEW r \in LogRecord, PutRecord(r)
  PROVE  /\ buffer' \in Seq([lsn : Nat, rec : LogRecord]) /\ Len(buffer') = Len(buffer) + 1
         /\ buf_offset' \in Nat /\ global_lsn' \in Nat
<1>1. [lsn |-> global_lsn, rec |-> r] \in [lsn : Nat, rec : LogRecord]
  BY DEF LogTypeOK
<1>2. buffer' \in Seq([lsn : Nat, rec : LogRecord]) /\ Len(buffer') = Len(buffer) + 1
  BY <1>1 DEF PutRecord, LogTypeOK
<1>3. buf_offset' \in Nat /\ global_lsn' \in Nat
  BY LogAssumption DEF PutRecord, LogTypeOK
<1> QED
  BY <1>2, <1>3

(* Writing the buffer keeps the types and the number of records. *)
LEMMA WriteTyped ==
  ASSUME LogTypeOK, WriteBuffer
  PROVE  /\ buffer' \in Seq([lsn : Nat, rec : LogRecord]) /\ Len(buffer') = 0
         /\ log_file' \in Seq([lsn : Nat, rec : LogRecord])
         /\ Len(log_file') = Len(log_file) + Len(buffer)
         /\ buf_offset' = 0
<1>1. buffer' = <<>> /\ log_file' = log_file \o buffer /\ buf_offset' = 0
  BY DEF WriteBuffer
<1>2. log_file \in Seq([lsn : Nat, rec : LogRecord]) /\ buffer \in Seq([lsn : Nat, rec : LogRecord])
  BY DEF LogTypeOK
<1>3. <<>> \in Seq([lsn : Nat, rec : LogRecord]) /\ Len(<<>>) = 0
  OBVIOUS
<1> QED
  BY <1>1, <1>2, <1>3

(* An add that found room. *)
LEMMA AddInv ==
  ASSUME LogInv, NEW t \in Thread, NEW r \in LogRecord, add_log_to_buffer(t, r)
  PROVE  LogInv'
<1> USE DEF LogInv
<1>1. CASE is_full(r)
  <2>1. /\ lpc' = [lpc EXCEPT ![t] = "full"] /\ adding' = [adding EXCEPT ![t] = r]
        /\ UNCHANGED <<buffer, buf_offset, global_lsn, log_file, overrun>> /\ lpc[t] = "out"
    BY <1>1 DEF add_log_to_buffer
  <2>2. LogTypeOK'
    BY <2>1 DEF LogTypeOK
  <2>3. Flushed' = Flushed
    BY <2>1 DEF Flushed, LogTypeOK
  <2>4. buf_offset' <= buffer_size'
    BY <2>1 DEF buffer_size
  <2> QED
    BY <2>1, <2>2, <2>3, <2>4
<1>2. CASE ~is_full(r)
  <2>1. PutRecord(r) /\ UNCHANGED <<lpc, adding, log_file, overrun>> /\ lpc[t] = "out"
    BY <1>2 DEF add_log_to_buffer
  <2>2. /\ buffer' \in Seq([lsn : Nat, rec : LogRecord]) /\ Len(buffer') = Len(buffer) + 1
        /\ buf_offset' \in Nat /\ global_lsn' \in Nat
    BY <2>1, PutTyped
  <2>3. LogTypeOK'
    BY <2>1, <2>2 DEF LogTypeOK
  <2>4. global_lsn' = Len(log_file') + Len(buffer')
    BY <2>1, <2>2 DEF PutRecord, LogTypeOK
  <2>5. Flushed' = Flushed
    BY <2>1 DEF Flushed
  <2>6. buf_offset' + Cardinality(Flushed)' * MaxRecordLen
          <= LOG_BUFFER_SIZE + (Cardinality(Thread) - 1) * MaxRecordLen
    <3> DEFINE N == Cardinality(Thread)
               F == Cardinality(Flushed)
    <3>1. N \in Nat /\ N > 0 /\ F \in Nat /\ F <= N - 1 /\ N - 1 \in Nat
      BY <2>1, FlushedCount
    <3>2. F * MaxRecordLen <= (N - 1) * MaxRecordLen /\ F * MaxRecordLen \in Nat
      BY <3>1, Multiples, LogAssumption
    <3>3. (N - 1) * MaxRecordLen \in Nat
      BY <3>1, Multiples, LogAssumption
    <3>4. buf_offset' <= LOG_BUFFER_SIZE
      BY <2>1, <1>2, LogAssumption DEF PutRecord, is_full, LogTypeOK
    <3>5. LOG_BUFFER_SIZE \in Nat
      BY LogAssumption
    <3> HIDE DEF N, F
    <3>6. buf_offset' + F * MaxRecordLen <= LOG_BUFFER_SIZE + (N - 1) * MaxRecordLen
      BY <3>2, <3>3, <3>4, <3>5, <2>2
    <3> QED
      BY <3>6, <2>5 DEF N, F
  <2>7. buf_offset' <= buffer_size'
    BY <2>1, <1>2, LogAssumption DEF PutRecord, is_full, LogTypeOK, buffer_size
  <2> QED
    BY <2>1, <2>3, <2>4, <2>6, <2>7
<1> QED
  BY <1>1, <1>2

(* A flush, by a thread that found the buffer full or by any other. *)
LEMMA FlushInv ==
  ASSUME LogInv, flush_log_to_disk \/ \E t \in Thread : FlushFull(t)
  PROVE  LogInv'
<1> USE DEF LogInv
<1>1. WriteBuffer /\ UNCHANGED <<global_lsn, adding, overrun>>
  BY DEF FlushFull, flush_log_to_disk
<1>2. /\ buffer' \in Seq([lsn : Nat, rec : LogRecord]) /\ Len(buffer') = 0
      /\ log_file' \in Seq([lsn : Nat, rec : LogRecord])
      /\ Len(log_file') = Len(log_file) + Len(buffer)
      /\ buf_offset' = 0
  BY <1>1, WriteTyped
<1>3. /\ lpc' \in [Thread -> {"out", "full", "flushed"}]
      /\ \A u \in Thread : lpc'[u] # "out" => lpc[u] # "out"
  BY DEF FlushFull, flush_log_to_disk, LogTypeOK
<1>4. LogTypeOK'
  BY <1>1, <1>2, <1>3 DEF LogTypeOK
<1>5. global_lsn' = Len(log_file') + Len(buffer')
  BY <1>1, <1>2 DEF LogTypeOK
<1>6. buf_offset' + Cardinality(Flushed)' * MaxRecordLen
        <= LOG_BUFFER_SIZE + (Cardinality(Thread) - 1) * MaxRecordLen
  BY <1>1, <1>4, WriteRoom
<1>7. buf_offset' <= buffer_size'
  BY <1>2, LogAssumption DEF buffer_size
<1> QED
  BY <1>1, <1>4, <1>5, <1>6, <1>7

(* The add behind a flush: it fits the array, or the log is overrun, which *)
(* a single thread cannot do.                                              *)
LEMMA AddFlushedInv ==
  ASSUME LogInv, NEW t \in Thread, AddFlushed(t)
  PROVE  LogInv'
<1> USE DEF LogInv
<1>t. t \in Flushed /\ adding[t] \in LogRecord
  BY DEF AddFlushed, Flushed, LogTypeOK
<1>l. log_tot_len(adding[t]) \in Nat /\ log_tot_len(adding[t]) <= MaxRecordLen
  BY <1>t, LogAssumption
<1>1. CASE buf_offset + log_tot_len(adding[t]) <= buffer_size
  <2>1. /\ PutRecord(adding[t]) /\ UNCHANGED <<overrun, log_file>>
        /\ lpc' = [lpc EXCEPT ![t] = "out"] /\ adding' = [adding EXCEPT ![t] = NoRecord]
    BY <1>1 DEF AddFlushed
  <2>2. /\ buffer' \in Seq([lsn : Nat, rec : LogRecord]) /\ Len(buffer') = Len(buffer) + 1
        /\ buf_offset' \in Nat /\ global_lsn' \in Nat
    BY <2>1, <1>t, PutTyped
  <2>3. LogTypeOK'
    <3>1. lpc' \in [Thread -> {"out", "full", "flushed"}]
      BY <2>1 DEF LogTypeOK
    <3>2. adding' \in [Thread -> LogRecord \cup {NoRecord}]
      BY <2>1 DEF LogTypeOK
    <3>3. \A u \in Thread : lpc'[u] # "out" => adding'[u] \in LogRecord
      BY <2>1 DEF LogTypeOK
    <3> QED
      BY <2>1, <2>2, <3>1, <3>2, <3>3 DEF LogTypeOK
  <2>4. global_lsn' = Len(log_file') + Len(buffer')
    BY <2>1, <2>2 DEF PutRecord, LogTypeOK
  <2>5. Flushed' = Flushed \ {t}
    BY <2>1 DEF Flushed, LogTypeOK
  <2>6. Cardinality(Flushed)' = Cardinality(Flushed) - 1
    BY <2>5, <1>t, FlushedCount, FS_RemoveElement
  <2>7. Cardinality(Flushed) \in Nat /\ Cardinality(Flushed) > 0
    BY <1>t, FlushedCount, FS_EmptySet
  <2>8. buf_offset' + Cardinality(Flushed)' * MaxRecordLen
          <= LOG_BUFFER_SIZE + (Cardinality(Thread) - 1) * MaxRecordLen
    <3> DEFINE F == Cardinality(Flushed)
               B == LOG_BUFFER_SIZE + (Cardinality(Thread) - 1) * MaxRecordLen
    <3>1. /\ (F - 1) * MaxRecordLen = F * MaxRecordLen - MaxRecordLen
          /\ F * MaxRecordLen \in Nat /\ (F - 1) * MaxRecordLen \in Nat
      BY <2>7, Multiples, LogAssumption
    <3>2. B \in Nat
      BY FlushedCount, Multiples, LogAssumption
    <3>3. buf_offset' = buf_offset + log_tot_len(adding[t]) /\ buf_offset \in Nat /\ MaxRecordLen \in Nat
      BY <2>1, LogAssumption DEF PutRecord, LogTypeOK
    <3>4. buf_offset + F * MaxRecordLen <= B
      OBVIOUS
    <3>5. \A o, l, M, a, b, e \in Nat : l <= M /\ a = b - M /\ o + b <= e => (o + l) + a <= e
      OBVIOUS
    <3> HIDE DEF F, B
    <3>6. buf_offset' + (F - 1) * MaxRecordLen <= B
      BY <3>1, <3>2, <3>3, <3>4, <3>5, <1>l
    <3> QED
      BY <3>6, <2>6 DEF F, B
  <2>9. buf_offset' <= buffer_size'
    BY <1>1, <2>1 DEF PutRecord, buffer_size
  <2> QED
    BY <2>1, <2>3, <2>4, <2>8, <2>9
<1>2. CASE ~(buf_offset + log_tot_len(adding[t]) <= buffer_size)
  <2>1. overrun' = TRUE /\ UNCHANGED <<buffer, buf_offset, global_lsn, lpc, adding, log_file>>
    BY <1>2 DEF AddFlushed
  <2>2. LogTypeOK' /\ Flushed' = Flushed
    BY <2>1 DEF LogTypeOK, Flushed
  <2>3. Cardinality(Thread) > 1
    <3>1. buf_offset + log_tot_len(adding[t]) <= LOG_BUFFER_SIZE + (Cardinality(Thread) - 1) * MaxRecordLen
      BY <1>t, InvBound DEF LogBufferBound
    <3>2. Cardinality(Thread) \in Nat /\ Cardinality(Thread) > 0
      BY FlushedCount
    <3>3. CASE Cardinality(Thread) = 1
      <4>1. (Cardinality(Thread) - 1) * MaxRecordLen = 0
        BY <3>3, LogAssumption
      <4> QED
        BY <4>1, <3>1, <1>2, <1>l, LogAssumption DEF buffer_size, LogTypeOK
    <3> QED
      BY <3>2, <3>3
  <2>4. buf_offset' <= buffer_size'
    BY <2>1 DEF buffer_size
  <2> QED
    BY <2>1, <2>2, <2>3, <2>4
<1> QED
  BY <1>1, <1>2

(* Every step keeps the invariant. *)
LEMMA StepInv == LogInv /\ [LogNext]_logVars => LogInv'
<1> SUFFICES ASSUME LogInv, [LogNext]_logVars PROVE LogInv'
  OBVIOUS
<1>1. ASSUME NEW t \in Thread, LogStep(t) PROVE LogInv'
  BY <1>1, AddInv, FlushInv, AddFlushedInv DEF LogStep
<1>2. CASE flush_log_to_disk
  BY <1>2, FlushInv
<1>3. CASE UNCHANGED logVars
  BY <1>3 DEF logVars, LogInv, LogTypeOK, Flushed, buffer_size
<1> QED
  BY <1>1, <1>2, <1>3 DEF LogNext

(* Theorem: for any threads, buffer and record lengths, the log manager    *)
(* stays in the states of the invariant.                                   *)
THEOREM LogInvariance == LogSpec => []LogInv
<1> QED
  BY InitInv, StepInv, PTL DEF LogSpec

(* Theorem: log_buffer_ is never filled behind its end unnoticed, the room *)
(* an add behind a flush needs is bounded by one record for each other     *)
(* thread, and one thread alone never writes behind the array.             *)
THEOREM LogRoom == LogSpec => []LogBufferBound
<1> QED
  BY LogInvariance, InvBound, PTL

(* Appending to the buffer appends to the log. *)
LEMMA AppendConcat ==
  ASSUME NEW S, NEW a \in Seq(S), NEW b \in Seq(S), NEW x \in S
  PROVE  a \o Append(b, x) = Append(a \o b, x) /\ Len(a \o b) = Len(a) + Len(b) /\ a \o <<>> = a
<1>1. Len(a \o b) = Len(a) + Len(b) /\ a \o b \in Seq(S)
  OBVIOUS
<1>2. a \o <<>> = a
  OBVIOUS
<1>3. a \o Append(b, x) = Append(a \o b, x)
  OBVIOUS
<1> QED
  BY <1>1, <1>2, <1>3

(* A record put into the buffer is a record added to the abstract log. *)
LEMMA PutIsAdd ==
  ASSUME LogInv, NEW r \in LogRecord, PutRecord(r), UNCHANGED log_file
  PROVE  W!AddRecord(r)
<1> DEFINE E == [lsn : Nat, rec : LogRecord]
           x == [lsn |-> global_lsn, rec |-> r]
<1>1. log_file \in Seq(E) /\ buffer \in Seq(E) /\ x \in E /\ global_lsn = Len(log_file) + Len(buffer)
  BY DEF LogInv, LogTypeOK
<1>2. buffer' = Append(buffer, x) /\ log_file' = log_file
  BY DEF PutRecord
<1>3. log_file \o Append(buffer, x) = Append(log_file \o buffer, x)
      /\ Len(log_file \o buffer) = Len(log_file) + Len(buffer)
  BY <1>1, AppendConcat
<1>4. (log_file \o buffer)' = Append(log_file \o buffer, [lsn |-> Len(log_file \o buffer), rec |-> r])
  BY <1>1, <1>2, <1>3
<1>5. Len(log_file)' = Len(log_file)
  BY <1>2
<1> QED
  BY <1>4, <1>5 DEF W!AddRecord

(* A write of the buffer forces the abstract log. *)
LEMMA WriteIsForce ==
  ASSUME LogInv, WriteBuffer
  PROVE  W!Force
<1> DEFINE E == [lsn : Nat, rec : LogRecord]
<1>1. log_file \in Seq(E) /\ buffer \in Seq(E)
  BY DEF LogInv, LogTypeOK
<1>2. log_file' = log_file \o buffer /\ buffer' = <<>>
  BY DEF WriteBuffer
<1>3. log_file \o buffer \in Seq(E)
  BY <1>1
<1>4. (log_file \o buffer) \o <<>> = log_file \o buffer
  BY <1>3
<1>5. (log_file \o buffer)' = log_file \o buffer
  BY <1>2, <1>4
<1>6. Len(log_file)' = Len(log_file \o buffer)
  BY <1>2
<1> QED
  BY <1>5, <1>6 DEF W!Force

(* Theorem: however the critical sections of the threads interleave, the   *)
(* log manager implements the abstract log: what add_log_to_buffer does is *)
(* an append with the next number, what flush_log_to_disk does makes the   *)
(* whole log durable.                                                      *)
THEOREM LogRefinesWal == LogSpec => ImplementsWal
<1>1. LogInit => W!WalInit
  <2> SUFFICES ASSUME LogInit PROVE W!WalInit
    OBVIOUS
  <2>1. <<>> \o <<>> = <<>> /\ Len(<<>>) = 0
    OBVIOUS
  <2> QED
    BY <2>1 DEF LogInit, W!WalInit
<1>2. LogInv /\ [LogNext]_logVars => [W!WalNext]_(W!walVars)
  <2> SUFFICES ASSUME LogInv, [LogNext]_logVars PROVE [W!WalNext]_(W!walVars)
    OBVIOUS
  <2>1. ASSUME NEW t \in Thread, NEW r \in LogRecord, add_log_to_buffer(t, r)
        PROVE  [W!WalNext]_(W!walVars)
    <3>1. CASE is_full(r)
      <4>1. UNCHANGED <<buffer, log_file>>
        BY <2>1, <3>1 DEF add_log_to_buffer
      <4> QED
        BY <4>1 DEF W!walVars
    <3>2. CASE ~is_full(r)
      <4>1. PutRecord(r) /\ UNCHANGED log_file
        BY <2>1, <3>2 DEF add_log_to_buffer
      <4> QED
        BY <4>1, PutIsAdd DEF W!WalNext
    <3> QED
      BY <3>1, <3>2
  <2>2. ASSUME flush_log_to_disk \/ \E t \in Thread : FlushFull(t)
        PROVE  [W!WalNext]_(W!walVars)
    BY <2>2, WriteIsForce DEF FlushFull, flush_log_to_disk, W!WalNext
  <2>3. ASSUME NEW t \in Thread, AddFlushed(t)
        PROVE  [W!WalNext]_(W!walVars)
    <3>1. adding[t] \in LogRecord
      BY <2>3 DEF AddFlushed, LogInv, LogTypeOK
    <3>2. CASE PutRecord(adding[t]) /\ UNCHANGED log_file
      BY <3>1, <3>2, PutIsAdd DEF W!WalNext
    <3>3. CASE UNCHANGED <<buffer, log_file>>
      BY <3>3 DEF W!walVars
    <3> QED
      BY <2>3, <3>2, <3>3 DEF AddFlushed
  <2>4. CASE UNCHANGED logVars
    BY <2>4 DEF logVars, W!walVars
  <2> QED
    BY <2>1, <2>2, <2>3, <2>4 DEF LogNext, LogStep
<1> QED
  BY <1>1, <1>2, LogInvariance, PTL DEF LogSpec, ImplementsWal, W!WalSpec
=============================================================================
