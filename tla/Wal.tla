-------------------------------- MODULE Wal --------------------------------
(***************************************************************************)
(* What a write-ahead log promises to its users: one sequence of records,  *)
(* numbered in the order in which they were added, of which a prefix is    *)
(* durable.  Nothing is reordered, lost or repeated; forcing the log makes *)
(* all of it durable.                                                      *)
(***************************************************************************)
EXTENDS Integers, Sequences

CONSTANT LogRecord   \* records without their numbers

VARIABLES
  wlog,      \* the records, each with its lsn
  durable    \* how many of them survive a crash

walVars == <<wlog, durable>>

WalInit == wlog = <<>> /\ durable = 0

AddRecord(r) ==
  /\ wlog' = Append(wlog, [lsn |-> Len(wlog), rec |-> r])
  /\ UNCHANGED durable

Force == durable' = Len(wlog) /\ UNCHANGED wlog

WalNext == Force \/ \E r \in LogRecord : AddRecord(r)

WalSpec == WalInit /\ [][WalNext]_walVars
=============================================================================
