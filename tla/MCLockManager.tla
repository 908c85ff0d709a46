---------------------------- MODULE MCLockManager ----------------------------
(* Three transactions, one table with one record: a scan, a reader and a    *)
(* writer can meet on the record, and each gives back two locks one by one. *)
EXTENDS LockManager

CONSTANTS t1, t2, t3, tab, s1
=============================================================================
