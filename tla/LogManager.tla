----------------------------- MODULE LogManager -----------------------------
(***************************************************************************)
(* The log manager (recovery/log_manager.h, log_manager.cpp): threads add  *)
(* records to one buffer and write it to the log file.  Every critical     *)
(* section of latch_ is one step.  A thread that finds the buffer full     *)
(* releases the latch, flushes, takes the latch again and adds its record  *)
(* without looking at the buffer once more.  If it then writes behind the  *)
(* end of the array, where offset_ lies, nothing is said of what follows   *)
(* (overrun).                                                              *)
(***************************************************************************)
EXTENDS Integers, Sequences, FiniteSets

CONSTANTS
  Thread,            \* the threads that add to the log
  LogRecord,         \* the records they add
  NoRecord,          \* none of them
  LOG_BUFFER_SIZE,   \* in bytes
  MaxRecordLen,      \* the length of the longest record
  log_tot_len(_)     \* the length of a record

ASSUME LogAssumption ==
  /\ IsFiniteSet(Thread) /\ Thread # {}
  /\ LOG_BUFFER_SIZE \in Nat /\ MaxRecordLen \in Nat /\ MaxRecordLen <= LOG_BUFFER_SIZE
  /\ \A r \in LogRecord : log_tot_len(r) \in 1 .. MaxRecordLen

VARIABLES
  buffer,       \* the records in log_buffer_
  buf_offset,   \* log_buffer_.offset_
  log_file,     \* the records on disk
  global_lsn,
  lpc,          \* of each thread: out of add_log_to_buffer, full, or flushed
  adding,       \* the record a thread has in add_log_to_buffer
  overrun

logVars == <<buffer, buf_offset, log_file, global_lsn, lpc, adding, overrun>>

LogInit ==
  /\ buffer = <<>> /\ buf_offset = 0 /\ log_file = <<>> /\ global_lsn = 0
  /\ lpc = [t \in Thread |-> "out"]
  /\ adding = [t \in Thread |-> NoRecord]
  /\ overrun = FALSE

buffer_size == LOG_BUFFER_SIZE + 1

is_full_NoAppend(r) == buf_offset > LOG_BUFFER_SIZE

is_full(r) == buf_offset + log_tot_len(r) > LOG_BUFFER_SIZE

(* Number the record, copy it into the buffer and move the offset. *)
PutRecord(r) ==
  /\ global_lsn' = global_lsn + 1
  /\ buffer' = Append(buffer, [lsn |-> global_lsn, rec |-> r])
  /\ buf_offset' = buf_offset + log_tot_len(r)

WriteBuffer_Keep ==
  /\ log_file' = log_file \o buffer
  /\ UNCHANGED <<buffer, buf_offset>>

WriteBuffer ==
  /\ log_file' = log_file \o buffer
  /\ buffer' = <<>> /\ buf_offset' = 0

add_log_to_buffer(t, r) ==
  /\ ~overrun /\ lpc[t] = "out"
  /\ IF is_full(r)
     THEN /\ lpc' = [lpc EXCEPT ![t] = "full"] /\ adding' = [adding EXCEPT ![t] = r]
          /\ UNCHANGED <<buffer, buf_offset, global_lsn>>
     ELSE PutRecord(r) /\ UNCHANGED <<lpc, adding>>
  /\ UNCHANGED <<log_file, overrun>>

(* The flush between lock.unlock() and lock.lock(). *)
FlushFull(t) ==
  /\ ~overrun /\ lpc[t] = "full"
  /\ lpc' = [lpc EXCEPT ![t] = "flushed"]
  /\ WriteBuffer
  /\ UNCHANGED <<global_lsn, adding, overrun>>

AddFlushed(t) ==
  /\ ~overrun /\ lpc[t] = "flushed"
  /\ IF buf_offset + log_tot_len(adding[t]) <= buffer_size
     THEN /\ PutRecord(adding[t])
          /\ lpc' = [lpc EXCEPT ![t] = "out"] /\ adding' = [adding EXCEPT ![t] = NoRecord]
          /\ UNCHANGED overrun
     ELSE overrun' = TRUE /\ UNCHANGED <<buffer, buf_offset, global_lsn, lpc, adding>>
  /\ UNCHANGED log_file

(* A flush by whoever asks for one: an executor, a commit, a signal. *)
flush_log_to_disk ==
  /\ ~overrun
  /\ WriteBuffer
  /\ UNCHANGED <<global_lsn, lpc, adding, overrun>>

LogStep(t) ==
  \/ \E r \in LogRecord : add_log_to_buffer(t, r)
  \/ FlushFull(t) \/ AddFlushed(t)

LogNext == flush_log_to_disk \/ \E t \in Thread : LogStep(t)

LogSpec == LogInit /\ [][LogNext]_logVars

-----------------------------------------------------------------------------
(* Properties. *)

LogTypeOK ==
  /\ buffer \in Seq([lsn : Nat, rec : LogRecord]) /\ log_file \in Seq([lsn : Nat, rec : LogRecord])
  /\ buf_offset \in Nat /\ global_lsn \in Nat /\ overrun \in BOOLEAN
  /\ lpc \in [Thread -> {"out", "full", "flushed"}]
  /\ adding \in [Thread -> LogRecord \cup {NoRecord}]
  /\ \A t \in Thread : lpc[t] # "out" => adding[t] \in LogRecord

Flushed == {t \in Thread : lpc[t] = "flushed"}

(* Property: the records in the buffer lie inside the array.  A thread     *)
(* that adds its record after flushing a full buffer needs at most one     *)
(* record more than LOG_BUFFER_SIZE for every other thread; a single one   *)
(* always finds room.  The array is one byte longer than LOG_BUFFER_SIZE,  *)
(* which is too short for two.                                             *)
LogBufferBound ==
  /\ buf_offset <= buffer_size
  /\ \A t \in Flushed : buf_offset + log_tot_len(adding[t])
                          <= LOG_BUFFER_SIZE + (Cardinality(Thread) - 1) * MaxRecordLen
  /\ overrun => Cardinality(Thread) > 1

(* A flush empties the buffer; a thread that has not flushed a full buffer *)
(* leaves it below LOG_BUFFER_SIZE; so the threads behind their flush are  *)
(* the only ones that go beyond.                                           *)
LogInv ==
  /\ LogTypeOK
  /\ global_lsn = Len(log_file) + Len(buffer)
  /\ buf_offset <= buffer_size
  /\ buf_offset + Cardinality(Flushed) * MaxRecordLen
       <= LOG_BUFFER_SIZE + (Cardinality(Thread) - 1) * MaxRecordLen
  /\ overrun => Cardinality(Thread) > 1

W == INSTANCE Wal WITH wlog <- log_file \o buffer, durable <- Len(log_file)

(* Property: whatever threads do to the buffer between each other's        *)
(* critical sections, the log file followed by the buffer is a log to      *)
(* which records are only appended, numbered without gaps, and every flush *)
(* makes all of it durable.                                                *)
ImplementsWal == W!WalSpec
=============================================================================
