----------------------------- MODULE LockManager -----------------------------
(***************************************************************************)
(* Table and record locks of src/transaction/concurrency/lock_manager.cpp, *)
(* driven by the transaction life cycle of transaction_manager.cpp.        *)
(*                                                                         *)
(* Locking is no-wait: every call either grants at once or throws a        *)
(* TransactionAbortException, after which the session aborts the           *)
(* transaction.  A call runs under the manager's latch_, so it is one      *)
(* step.  release_all_locks gives the locks back one unlock() call at a    *)
(* time, and other transactions run between two of those calls.            *)
(*                                                                         *)
(* A request queue holds at most one request per transaction and every     *)
(* request in it is granted, so a queue is a function from transactions to *)
(* modes.  Its order is abstracted: it shows only in                       *)
(* update_group_lock_mode, which becomes a choice among the results of all *)
(* orders.  Gap locks are in GapLock.tla.                                  *)
(***************************************************************************)
EXTENDS Naturals

CONSTANTS
  Txn,        \* transactions
  Table,      \* table file descriptors
  Slot,       \* record slots of a table (page number and slot number)
  TableModes  \* the modes callers request on tables

(***************************************************************************)
(* No caller asks for IX, and SIX cannot be asked for: the only table call *)
(* in the executors is lock_shared_on_table.  lock_on_table converts a     *)
(* held mode without looking at the other holders unless X is requested,   *)
(* so with IX among the modes TableCompatible would not hold.              *)
(***************************************************************************)
ASSUME TableModesAssumption == TableModes \subseteq {"IS", "S", "X"}

VARIABLES
  tabMode,    \* [Table -> [Txn -> mode]]: granted table requests
  group,      \* [Table -> mode]: group_lock_mode_ of the table queues
  recMode,    \* [Record -> [Txn -> mode]]: granted record requests
  tabSet,     \* [Txn -> SUBSET Table]: the tables in txn->lock_set_
  recSet,     \* [Txn -> SUBSET Record]: the records in txn->lock_set_
  state,      \* [Txn -> TransactionState]
  ending      \* [Txn -> which of commit() and abort() is running]

vars == <<tabMode, group, recMode, tabSet, recSet, state, ending>>

Record == Table \X Slot
LockMode == {"NONE", "IS", "IX", "S", "SIX", "X"}
TransactionState == {"DEFAULT", "GROWING", "SHRINKING", "COMMITTED", "ABORTED"}

Others(t) == Txn \ {t}

-----------------------------------------------------------------------------
(* Lock tables. *)

combine_table_lock(held, req) ==
  LET both == {held, req} IN
  IF "X" \in both THEN "X"
  ELSE IF "SIX" \in both \/ both = {"S", "IX"} THEN "SIX"
  ELSE IF "S" \in both THEN "S"
  ELSE IF "IX" \in both THEN "IX" ELSE "IS"

table_conflict(req, grp) ==
  \/ req = "IS" /\ grp = "X"
  \/ req = "IX" /\ grp \in {"S", "X", "SIX"}
  \/ req = "S" /\ grp \in {"IX", "X", "SIX"}
  \/ req = "X" /\ grp # "NONE"
  \/ req = "SIX" /\ grp # "NONE"

record_conflict_IgnoresShared(req, held) == held = "X"

record_conflict(req, held) ==
  IF req = "S" THEN held = "X" ELSE held \in {"S", "X"}

(***************************************************************************)
(* The values update_group_lock_mode can give a queue, over its orders: it *)
(* stops at the first X or SIX, otherwise keeps the first S or IX.         *)
(***************************************************************************)
GroupModes(modes) ==
  LET held == {modes[u] : u \in Txn}
      Among(S) == held \cap S
  IN  IF Among({"X", "SIX"}) # {} THEN Among({"X", "SIX"})
      ELSE IF Among({"S", "IX"}) # {} THEN Among({"S", "IX"})
      ELSE IF "IS" \in held THEN {"IS"} ELSE {"NONE"}

HeldByOther(modes, t) == \E u \in Others(t) : modes[u] # "NONE"

-----------------------------------------------------------------------------
(* Grant conditions of the lock calls. *)

check_growing(t) == state[t] # "SHRINKING"

CanLockTable(t, tab, m) ==
  IF tabMode[tab][t] # "NONE"
  THEN m = "X" => ~HeldByOther(tabMode[tab], t)
  ELSE ~(HeldByOther(tabMode[tab], t) /\ table_conflict(m, group[tab]))

(* lock_on_record looks at the table queue before the record queue. *)
TableForbidsRecord_OnlyX(t, tab, m) ==
  HeldByOther(tabMode[tab], t) /\ group[tab] = "X"

TableForbidsRecord(t, tab, m) ==
  /\ HeldByOther(tabMode[tab], t)
  /\ group[tab] = "X" \/ (m = "X" /\ group[tab] \in {"S", "SIX"})

CanLockRecord(t, r, m) ==
  /\ ~TableForbidsRecord(t, r[1], m)
  /\ IF recMode[r][t] = "S" /\ m = "X"
     THEN ~HeldByOther(recMode[r], t)
     ELSE recMode[r][t] = m \/ \A u \in Others(t) : ~record_conflict(m, recMode[r][u])

-----------------------------------------------------------------------------
(* Actions. *)

Running(t) == state[t] = "GROWING" /\ ending[t] = "none"

Init ==
  /\ tabMode = [tab \in Table |-> [t \in Txn |-> "NONE"]]
  /\ group = [tab \in Table |-> "NONE"]
  /\ recMode = [r \in Record |-> [t \in Txn |-> "NONE"]]
  /\ tabSet = [t \in Txn |-> {}]
  /\ recSet = [t \in Txn |-> {}]
  /\ state = [t \in Txn |-> "DEFAULT"]
  /\ ending = [t \in Txn |-> "none"]

begin(t) ==
  /\ state[t] = "DEFAULT"
  /\ state' = [state EXCEPT ![t] = "GROWING"]
  /\ UNCHANGED <<tabMode, group, recMode, tabSet, recSet, ending>>

(* The call throws; client_handler catches and calls abort(). *)
Throw(t) ==
  /\ ending' = [ending EXCEPT ![t] = "abort"]
  /\ UNCHANGED <<tabMode, group, recMode, tabSet, recSet, state>>

lock_on_table(t, tab, m) ==
  /\ Running(t) /\ check_growing(t)
  /\ \/ /\ CanLockTable(t, tab, m)
        /\ tabMode' = [tabMode EXCEPT ![tab][t] =
                         IF @ = "NONE" THEN m ELSE combine_table_lock(@, m)]
        /\ \E g \in GroupModes(tabMode'[tab]) : group' = [group EXCEPT ![tab] = g]
        /\ tabSet' = [tabSet EXCEPT ![t] = @ \cup {tab}]
        /\ UNCHANGED <<recMode, recSet, state, ending>>
     \/ ~CanLockTable(t, tab, m) /\ Throw(t)

lock_on_record_NotInLockSet(t, r, m) ==
  /\ Running(t) /\ check_growing(t)
  /\ \/ /\ CanLockRecord(t, r, m)
        /\ recMode' = [recMode EXCEPT ![r][t] = m]
        /\ UNCHANGED <<tabMode, group, recSet, tabSet, state, ending>>
     \/ ~CanLockRecord(t, r, m) /\ Throw(t)

(* A transaction that holds X and asks for S is left with S. *)
lock_on_record(t, r, m) ==
  /\ Running(t) /\ check_growing(t)
  /\ \/ /\ CanLockRecord(t, r, m)
        /\ recMode' = [recMode EXCEPT ![r][t] = m]
        /\ recSet' = [recSet EXCEPT ![t] = @ \cup {r}]
        /\ UNCHANGED <<tabMode, group, tabSet, state, ending>>
     \/ ~CanLockRecord(t, r, m) /\ Throw(t)

(* The session commits or rolls back by its own choice. *)
End(t, how) ==
  /\ Running(t)
  /\ ending' = [ending EXCEPT ![t] = how]
  /\ UNCHANGED <<tabMode, group, recMode, tabSet, recSet, state>>

unlock_table_StaleGroup(t, tab) ==
  /\ state' = [state EXCEPT ![t] = "SHRINKING"]
  /\ tabMode' = [tabMode EXCEPT ![tab][t] = "NONE"]
  /\ tabSet' = [tabSet EXCEPT ![t] = @ \ {tab}]
  /\ UNCHANGED <<group, recMode, recSet, ending>>

unlock_table(t, tab) ==
  /\ state' = [state EXCEPT ![t] = "SHRINKING"]
  /\ tabMode' = [tabMode EXCEPT ![tab][t] = "NONE"]
  /\ \E g \in GroupModes(tabMode'[tab]) : group' = [group EXCEPT ![tab] = g]
  /\ tabSet' = [tabSet EXCEPT ![t] = @ \ {tab}]
  /\ UNCHANGED <<recMode, recSet, ending>>

unlock_record_KeepsRequest(t, r) ==
  /\ state' = [state EXCEPT ![t] = "SHRINKING"]
  /\ recSet' = [recSet EXCEPT ![t] = @ \ {r}]
  /\ UNCHANGED <<tabMode, group, recMode, tabSet, ending>>

unlock_record(t, r) ==
  /\ state' = [state EXCEPT ![t] = "SHRINKING"]
  /\ recMode' = [recMode EXCEPT ![r][t] = "NONE"]
  /\ recSet' = [recSet EXCEPT ![t] = @ \ {r}]
  /\ UNCHANGED <<tabMode, group, tabSet, ending>>

(* One turn of the loop in release_all_locks. *)
release_one_lock(t) ==
  /\ ending[t] # "none" /\ state[t] \in {"GROWING", "SHRINKING"}
  /\ \/ \E tab \in tabSet[t] : unlock_table(t, tab)
     \/ \E r \in recSet[t] : unlock_record(t, r)

(* The last statements of commit() and abort(). *)
Finish(t) ==
  /\ ending[t] # "none" /\ state[t] \in {"GROWING", "SHRINKING"}
  /\ tabSet[t] = {} /\ recSet[t] = {}
  /\ state' = [state EXCEPT ![t] = IF ending[t] = "commit" THEN "COMMITTED" ELSE "ABORTED"]
  /\ UNCHANGED <<tabMode, group, recMode, tabSet, recSet, ending>>

AllDone == \A t \in Txn : state[t] \in {"COMMITTED", "ABORTED"}

(* Every transaction is over; the server idles. *)
Idle == AllDone /\ UNCHANGED vars

Next ==
  \/ \E t \in Txn :
       \/ begin(t)
       \/ \E tab \in Table, m \in TableModes : lock_on_table(t, tab, m)
       \/ \E r \in Record, m \in {"S", "X"} : lock_on_record(t, r, m)
       \/ \E how \in {"commit", "abort"} : End(t, how)
       \/ release_one_lock(t)
       \/ Finish(t)
  \/ Idle

Spec == Init /\ [][Next]_vars

(***************************************************************************)
(* A session thread that has entered commit() or abort() keeps running:    *)
(* nothing on that path waits for another transaction.                     *)
(***************************************************************************)
FairSpec == Spec /\ \A t \in Txn : WF_vars(release_one_lock(t)) /\ WF_vars(Finish(t))

-----------------------------------------------------------------------------
(* Properties. *)

(* The types of the lock tables, lock sets and transaction states. *)
TypeOK ==
  /\ tabMode \in [Table -> [Txn -> LockMode]]
  /\ group \in [Table -> LockMode]
  /\ recMode \in [Record -> [Txn -> {"NONE", "S", "X"}]]
  /\ tabSet \in [Txn -> SUBSET Table]
  /\ recSet \in [Txn -> SUBSET Record]
  /\ state \in [Txn -> TransactionState]
  /\ ending \in [Txn -> {"none", "commit", "abort"}]

(* Two transactions never hold an X record lock together with any other    *)
(* lock on that record, through upgrades, downgrades and releases          *)
(* (lock_on_record, unlock).                                               *)
RecordCompatible ==
  \A r \in Record, t, u \in Txn :
    t # u /\ recMode[r][t] = "X" => recMode[r][u] = "NONE"

(* An X table lock excludes every other lock on the table, although        *)
(* lock_on_table compares a request with the group mode only and converts  *)
(* held locks without comparing at all.                                    *)
TableCompatible ==
  \A tab \in Table, t, u \in Txn :
    t # u /\ tabMode[tab][t] = "X" => tabMode[tab][u] = "NONE"

(* Locks of two transactions on one table or one record are compatible,    *)
(* although lock_on_table never compares a request with the single locks   *)
(* of the queue.                                                           *)
LocksCompatible == RecordCompatible /\ TableCompatible

(* The cached group_lock_mode_ is one that the granted requests of the     *)
(* queue produce: no lock call or unlock leaves it stale.                  *)
GroupFresh == \A tab \in Table : group[tab] \in GroupModes(tabMode[tab])

(* A transaction's lock_set_ names exactly the locks it holds, so          *)
(* release_all_locks leaves none behind in lock_table_.                    *)
LockSetExact ==
  \A t \in Txn :
    /\ tabSet[t] = {tab \in Table : tabMode[tab][t] # "NONE"}
    /\ recSet[t] = {r \in Record : recMode[r][t] # "NONE"}

(* A transaction that is over holds no lock: release_all_locks, which runs *)
(* from the transaction's own lock_set_, has missed none.                  *)
NothingHeldAfterEnd ==
  \A t \in Txn : state[t] \in {"COMMITTED", "ABORTED"} =>
    /\ \A tab \in Table : tabMode[tab][t] = "NONE"
    /\ \A r \in Record : recMode[r][t] = "NONE"

(* Locks are given back only inside commit() and abort(), and those end    *)
(* with an empty lock_set_.                                                *)
ReleasedOnlyAtEnd ==
  \A t \in Txn :
    /\ state[t] = "SHRINKING" => ending[t] # "none"
    /\ state[t] \in {"COMMITTED", "ABORTED"} =>
         ending[t] # "none" /\ tabSet[t] = {} /\ recSet[t] = {}

(* No queue holds a mode that callers never request. *)
OnlyRequestedModes == \A tab \in Table, t \in Txn : tabMode[tab][t] \in {"NONE", "IS", "S", "X"}

(* The invariant that is inductive: compatibility rests on the group mode  *)
(* being fresh, and the empty lock tables at the end on the exact lock     *)
(* sets (lock_on_table, lock_on_record, unlock, release_all_locks).        *)
LockInv ==
  /\ TypeOK
  /\ RecordCompatible
  /\ TableCompatible
  /\ GroupFresh
  /\ LockSetExact
  /\ ReleasedOnlyAtEnd
  /\ OnlyRequestedModes

(* While a transaction holds S or X on a table (a sequential scan takes    *)
(* S), no other transaction acquires an X lock on a record of the table:   *)
(* what the scan has seen cannot be changed by a new writer before the     *)
(* scanning transaction ends.                                              *)
NoNewWriterUnderScanStep ==
  \A r \in Record, t, u \in Txn :
    t # u /\ tabMode[r[1]][t] \in {"S", "X"} /\ recMode'[r][u] = "X" => recMode[r][u] = "X"
NoNewWriterUnderScan == [][NoNewWriterUnderScanStep]_vars

(* A transaction that commits, or whose lock request failed, gives every   *)
(* record it has locked back in the end, so that a retry by another        *)
(* session can be granted.                                                 *)
LocksReturned ==
  \A t \in Txn, r \in Record :
    (ending[t] # "none" /\ recMode[r][t] # "NONE") ~> recMode[r][t] = "NONE"

=============================================================================
