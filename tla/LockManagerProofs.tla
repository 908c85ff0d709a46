-------------------------- MODULE LockManagerProofs --------------------------
(***************************************************************************)
(* Proofs about LockManager for any number of transactions, tables and     *)
(* records.  LockInv is inductive; the properties follow from it.          *)
(***************************************************************************)
EXTENDS LockManager, TLAPS

(* What the group mode says of the queue it was computed from              *)
(* (update_group_lock_mode).                                               *)
LEMMA GroupModeMeaning ==
  ASSUME NEW modes \in [Txn -> {"NONE", "IS", "S", "X"}], NEW g \in GroupModes(modes)
  PROVE  /\ g \in {"NONE", "IS", "S", "X"}
         /\ g = "X" <=> \E u \in Txn : modes[u] = "X"
         /\ g = "NONE" <=> \A u \in Txn : modes[u] = "NONE"
         /\ (\E u \in Txn : modes[u] = "S") => g \in {"S", "X"}
<1> DEFINE held == {modes[u] : u \in Txn}
<1>1. held \subseteq {"NONE", "IS", "S", "X"}
  OBVIOUS
<1>2. CASE "X" \in held
  BY <1>1, <1>2 DEF GroupModes
<1>3. CASE "X" \notin held /\ "S" \in held
  BY <1>1, <1>3 DEF GroupModes
<1>4. CASE held \cap {"X", "S"} = {} /\ "IS" \in held
  BY <1>1, <1>4 DEF GroupModes
<1>5. CASE held \cap {"X", "S", "IS"} = {}
  BY <1>1, <1>5 DEF GroupModes
<1>6. QED
  BY <1>2, <1>3, <1>4, <1>5

(* Every queue has a group mode, a lock mode: recomputation never fails. *)
LEMMA GroupModesType ==
  ASSUME NEW modes \in [Txn -> LockMode]
  PROVE  GroupModes(modes) \subseteq LockMode
BY DEF GroupModes, LockMode

(* Every state a lock manager starts in satisfies LockInv. *)
LEMMA InitLockInv == Init => LockInv
<1> SUFFICES ASSUME Init PROVE LockInv
  OBVIOUS
<1> USE DEF Init
<1>1. TypeOK
  BY DEF TypeOK, LockMode, TransactionState
<1>2. GroupFresh
  BY DEF GroupFresh, GroupModes
<1>3. RecordCompatible /\ TableCompatible /\ LockSetExact
  BY DEF RecordCompatible, TableCompatible, LockSetExact, Record
<1>4. ReleasedOnlyAtEnd /\ OnlyRequestedModes
  BY DEF ReleasedOnlyAtEnd, OnlyRequestedModes
<1> QED
  BY <1>1, <1>2, <1>3, <1>4 DEF LockInv

-----------------------------------------------------------------------------
(* A granted table request keeps LockInv (lock_on_table). *)
LEMMA LockTableLockInv ==
  ASSUME LockInv, NEW t \in Txn, NEW tab \in Table, NEW m \in TableModes,
         lock_on_table(t, tab, m)
  PROVE  LockInv'
<1> USE DEF LockInv
<1>1. CASE ~CanLockTable(t, tab, m) /\ Throw(t)
  BY <1>1 DEF Throw, lock_on_table, Running, TypeOK, RecordCompatible, TableCompatible,
     GroupFresh, LockSetExact, ReleasedOnlyAtEnd, OnlyRequestedModes
<1>2. ASSUME CanLockTable(t, tab, m),
             tabMode' = [tabMode EXCEPT ![tab][t] =
                           IF @ = "NONE" THEN m ELSE combine_table_lock(@, m)],
             \E g \in GroupModes(tabMode'[tab]) : group' = [group EXCEPT ![tab] = g],
             tabSet' = [tabSet EXCEPT ![t] = @ \cup {tab}],
             UNCHANGED <<recMode, recSet, state, ending>>
      PROVE  LockInv'
  <2> USE <1>2
  <2> DEFINE new == IF tabMode[tab][t] = "NONE" THEN m
                    ELSE combine_table_lock(tabMode[tab][t], m)
  <2>1. m \in {"IS", "S", "X"}
    BY TableModesAssumption
  <2>2. /\ new \in {"IS", "S", "X"}
        /\ new = "X" => m = "X" \/ tabMode[tab][t] = "X"
    BY <2>1 DEF combine_table_lock, OnlyRequestedModes
  <2>3. /\ tabMode' \in [Table -> [Txn -> {"NONE", "IS", "S", "X"}]]
        /\ tabMode'[tab][t] = new
        /\ \A x \in Table, u \in Txn : <<x, u>> # <<tab, t>> => tabMode'[x][u] = tabMode[x][u]
    BY <2>2 DEF TypeOK, OnlyRequestedModes
  <2>4. PICK g \in GroupModes(tabMode'[tab]) : group' = [group EXCEPT ![tab] = g]
    OBVIOUS
  <2>5. g \in LockMode
    BY <2>3, <2>4, GroupModeMeaning DEF LockMode
  <2>6. TypeOK'
    BY <2>3, <2>4, <2>5 DEF TypeOK, LockMode
  <2>7. TableCompatible'
    <3>1. tabMode[tab] \in [Txn -> {"NONE", "IS", "S", "X"}] /\ group[tab] \in GroupModes(tabMode[tab])
      BY DEF TypeOK, OnlyRequestedModes, GroupFresh
    <3>2. ASSUME NEW u \in Txn, u # t, new = "X" PROVE tabMode[tab][u] = "NONE"
      <4>1. CASE tabMode[tab][t] = "X"
        BY <4>1, <3>2 DEF TableCompatible
      <4>2. CASE tabMode[tab][t] # "X"
        BY <4>2, <3>1, <3>2, <2>2, GroupModeMeaning
           DEF CanLockTable, HeldByOther, Others, table_conflict
      <4> QED BY <4>1, <4>2
    <3>3. ASSUME NEW u \in Txn, u # t, tabMode[tab][u] = "X" PROVE FALSE
      <4>1. tabMode[tab][t] = "NONE" /\ group[tab] = "X"
        BY <3>1, <3>3, GroupModeMeaning DEF TableCompatible
      <4> QED
        BY <4>1, <3>3, <2>1 DEF CanLockTable, HeldByOther, Others, table_conflict
    <3> QED
      BY <2>3, <3>2, <3>3 DEF TableCompatible
  <2>8. GroupFresh'
    <3>1. \A x \in Table : x # tab => tabMode'[x] = tabMode[x] /\ group'[x] = group[x]
      BY <2>4 DEF TypeOK
    <3>2. group'[tab] = g
      BY <2>4 DEF TypeOK
    <3> QED
      BY <2>4, <3>1, <3>2 DEF GroupFresh
  <2>9. LockSetExact'
    BY <2>2, <2>3 DEF LockSetExact, TypeOK
  <2>10. RecordCompatible' /\ OnlyRequestedModes'
    BY <2>3 DEF RecordCompatible, OnlyRequestedModes
  <2>11. ReleasedOnlyAtEnd'
    BY DEF ReleasedOnlyAtEnd, TypeOK, lock_on_table, Running
  <2> QED
    BY <2>6, <2>7, <2>8, <2>9, <2>10, <2>11
<1> QED
  BY <1>1, <1>2 DEF lock_on_table

(* A granted record request keeps LockInv (lock_on_record). *)
LEMMA LockRecordLockInv ==
  ASSUME LockInv, NEW t \in Txn, NEW r \in Record, NEW m \in {"S", "X"},
         lock_on_record(t, r, m)
  PROVE  LockInv'
<1> USE DEF LockInv
<1>1. CASE ~CanLockRecord(t, r, m) /\ Throw(t)
  BY <1>1 DEF Throw, lock_on_record, Running, TypeOK, RecordCompatible, TableCompatible,
     GroupFresh, LockSetExact, ReleasedOnlyAtEnd, OnlyRequestedModes
<1>2. ASSUME CanLockRecord(t, r, m),
             recMode' = [recMode EXCEPT ![r][t] = m],
             recSet' = [recSet EXCEPT ![t] = @ \cup {r}],
             UNCHANGED <<tabMode, group, tabSet, state, ending>>
      PROVE  LockInv'
  <2> USE <1>2
  <2>1. /\ recMode' \in [Record -> [Txn -> {"NONE", "S", "X"}]]
        /\ recMode'[r][t] = m
        /\ \A x \in Record, u \in Txn : <<x, u>> # <<r, t>> => recMode'[x][u] = recMode[x][u]
    BY DEF TypeOK
  <2>2. TypeOK'
    BY <2>1 DEF TypeOK
  <2>3. RecordCompatible'
    <3>1. ASSUME NEW u \in Txn, u # t, m = "X" PROVE recMode[r][u] = "NONE"
      BY <3>1 DEF CanLockRecord, HeldByOther, Others, record_conflict, TypeOK, RecordCompatible
    <3>2. ASSUME NEW u \in Txn, u # t, recMode[r][u] = "X" PROVE FALSE
      BY <3>2 DEF CanLockRecord, HeldByOther, Others, record_conflict, TypeOK, RecordCompatible
    <3> QED
      BY <2>1, <3>1, <3>2 DEF RecordCompatible
  <2>4. LockSetExact'
    BY <2>1 DEF LockSetExact, TypeOK
  <2>5. TableCompatible' /\ GroupFresh' /\ OnlyRequestedModes'
    BY DEF TableCompatible, GroupFresh, OnlyRequestedModes
  <2>6. ReleasedOnlyAtEnd'
    BY DEF ReleasedOnlyAtEnd, TypeOK, lock_on_record, Running
  <2> QED
    BY <2>2, <2>3, <2>4, <2>5, <2>6
<1> QED
  BY <1>1, <1>2 DEF lock_on_record

(* One turn of release_all_locks keeps LockInv (unlock). *)
LEMMA ReleaseLockInv ==
  ASSUME LockInv, NEW t \in Txn, release_one_lock(t)
  PROVE  LockInv'
<1> USE DEF LockInv
<1>1. ASSUME NEW tab \in tabSet[t], unlock_table(t, tab) PROVE LockInv'
  <2> USE <1>1 DEF unlock_table
  <2>1. tab \in Table
    BY DEF TypeOK
  <2>2. /\ tabMode' \in [Table -> [Txn -> {"NONE", "IS", "S", "X"}]]
        /\ tabMode'[tab][t] = "NONE"
        /\ \A x \in Table, u \in Txn : <<x, u>> # <<tab, t>> => tabMode'[x][u] = tabMode[x][u]
    BY <2>1 DEF TypeOK, OnlyRequestedModes
  <2>3. PICK g \in GroupModes(tabMode'[tab]) : group' = [group EXCEPT ![tab] = g]
    OBVIOUS
  <2>4. g \in LockMode
    BY <2>1, <2>2, <2>3, GroupModeMeaning DEF LockMode
  <2>5. TypeOK'
    BY <2>2, <2>3, <2>4 DEF TypeOK, LockMode, TransactionState
  <2>6. GroupFresh'
    <3>1. \A x \in Table : x # tab => tabMode'[x] = tabMode[x] /\ group'[x] = group[x]
      BY <2>3 DEF TypeOK
    <3>2. group'[tab] = g
      BY <2>1, <2>3 DEF TypeOK
    <3> QED
      BY <2>3, <3>1, <3>2 DEF GroupFresh
  <2>7. TableCompatible' /\ RecordCompatible' /\ OnlyRequestedModes'
    BY <2>2 DEF TableCompatible, RecordCompatible, OnlyRequestedModes
  <2>8. LockSetExact'
    BY <2>2 DEF LockSetExact, TypeOK
  <2>9. ReleasedOnlyAtEnd'
    BY DEF ReleasedOnlyAtEnd, TypeOK, release_one_lock
  <2> QED
    BY <2>5, <2>6, <2>7, <2>8, <2>9
<1>2. ASSUME NEW r \in recSet[t], unlock_record(t, r) PROVE LockInv'
  <2> USE <1>2 DEF unlock_record
  <2>1. r \in Record
    BY DEF TypeOK
  <2>2. /\ recMode' \in [Record -> [Txn -> {"NONE", "S", "X"}]]
        /\ recMode'[r][t] = "NONE"
        /\ \A x \in Record, u \in Txn : <<x, u>> # <<r, t>> => recMode'[x][u] = recMode[x][u]
    BY <2>1 DEF TypeOK
  <2>3. TypeOK'
    BY <2>2 DEF TypeOK, TransactionState
  <2>4. TableCompatible' /\ RecordCompatible' /\ OnlyRequestedModes' /\ GroupFresh'
    BY <2>2 DEF TableCompatible, RecordCompatible, OnlyRequestedModes, GroupFresh
  <2>5. LockSetExact'
    BY <2>2 DEF LockSetExact, TypeOK
  <2>6. ReleasedOnlyAtEnd'
    BY DEF ReleasedOnlyAtEnd, TypeOK, release_one_lock
  <2> QED
    BY <2>3, <2>4, <2>5, <2>6
<1> QED
  BY <1>1, <1>2 DEF release_one_lock

(* LockInv is inductive: one case per action of Next. *)
LEMMA NextLockInv == LockInv /\ [Next]_vars => LockInv'
<1> SUFFICES ASSUME LockInv, [Next]_vars PROVE LockInv'
  OBVIOUS
<1>1. ASSUME NEW t \in Txn, begin(t) PROVE LockInv'
  BY <1>1 DEF begin, LockInv, TypeOK, TransactionState, RecordCompatible, TableCompatible,
     GroupFresh, LockSetExact, ReleasedOnlyAtEnd, OnlyRequestedModes
<1>2. ASSUME NEW t \in Txn, NEW how \in {"commit", "abort"}, End(t, how) PROVE LockInv'
  BY <1>2 DEF End, Running, LockInv, TypeOK, RecordCompatible, TableCompatible,
     GroupFresh, LockSetExact, ReleasedOnlyAtEnd, OnlyRequestedModes
<1>3. ASSUME NEW t \in Txn, Finish(t) PROVE LockInv'
  BY <1>3 DEF Finish, LockInv, TypeOK, TransactionState, RecordCompatible, TableCompatible,
     GroupFresh, LockSetExact, ReleasedOnlyAtEnd, OnlyRequestedModes
<1>4. CASE UNCHANGED vars
  BY <1>4 DEF vars, LockInv, TypeOK, RecordCompatible, TableCompatible,
     GroupFresh, LockSetExact, ReleasedOnlyAtEnd, OnlyRequestedModes
<1> QED
  BY <1>1, <1>2, <1>3, <1>4, LockTableLockInv, LockRecordLockInv, ReleaseLockInv
     DEF Next, Idle

(* LockInv holds in every reachable state of the lock manager. *)
THEOREM LockInvariance == Spec => []LockInv
BY InitLockInv, NextLockInv, PTL DEF Spec

(* An X record lock is exclusive in every reachable state                  *)
(* (lock_on_record).                                                       *)
THEOREM RecordExclusion == Spec => []RecordCompatible
<1>1. LockInv => RecordCompatible
  BY DEF LockInv
<1> QED
  BY <1>1, LockInvariance, PTL

(* An X table lock is exclusive in every reachable state (lock_on_table).  *)
THEOREM TableExclusion == Spec => []TableCompatible
<1>1. LockInv => TableCompatible
  BY DEF LockInv
<1> QED
  BY <1>1, LockInvariance, PTL

(* No two transactions ever hold incompatible locks: the two theorems      *)
(* above together, for the locks of tables and of records.                 *)
THEOREM LockExclusion == Spec => []LocksCompatible
<1>1. RecordCompatible /\ TableCompatible => LocksCompatible
  BY DEF LocksCompatible
<1> QED
  BY <1>1, RecordExclusion, TableExclusion, PTL

(* commit() and abort() leave no lock behind (release_all_locks). *)
THEOREM NoLockLeak == Spec => []NothingHeldAfterEnd
<1>1. LockInv => NothingHeldAfterEnd
  BY DEF LockInv, NothingHeldAfterEnd, ReleasedOnlyAtEnd, LockSetExact
<1> QED
  BY <1>1, LockInvariance, PTL

(* No writer gets a record of a table under another transaction's table    *)
(* lock (lock_on_record's look at the table queue).                        *)
THEOREM ScanFence == Spec => NoNewWriterUnderScan
<1>1. LockInv /\ [Next]_vars => [NoNewWriterUnderScanStep]_vars
  <2> SUFFICES ASSUME LockInv, Next,
                      NEW r \in Record, NEW t \in Txn, NEW u \in Txn,
                      t # u, tabMode[r[1]][t] \in {"S", "X"},
                      recMode'[r][u] = "X", recMode[r][u] # "X"
               PROVE  FALSE
    BY DEF NoNewWriterUnderScanStep
  <2>1. r[1] \in Table
    BY DEF Record
  <2>2. group[r[1]] \in {"S", "X"}
    <3>1. /\ tabMode[r[1]] \in [Txn -> {"NONE", "IS", "S", "X"}]
          /\ group[r[1]] \in GroupModes(tabMode[r[1]])
      BY <2>1 DEF LockInv, TypeOK, OnlyRequestedModes, GroupFresh
    <3> QED
      BY <3>1, GroupModeMeaning
  <2>3. TableForbidsRecord(u, r[1], "X")
    BY <2>2 DEF TableForbidsRecord, HeldByOther, Others
  <2>4. PICK v \in Txn, q \in Record, m \in {"S", "X"} :
          lock_on_record(v, q, m) /\ recMode' = [recMode EXCEPT ![q][v] = m] /\ CanLockRecord(v, q, m)
    <3>1. recMode' # recMode
      OBVIOUS
    <3>2. ASSUME NEW v \in Txn, release_one_lock(v)
          PROVE  FALSE
      <4>1. recMode \in [Record -> [Txn -> {"NONE", "S", "X"}]]
        BY DEF LockInv, TypeOK
      <4>2. recMode' = recMode \/ \E q \in Record : recMode' = [recMode EXCEPT ![q][v] = "NONE"]
        BY <3>2 DEF release_one_lock, unlock_table, unlock_record, LockInv, TypeOK
      <4>3. QED
        BY <4>1, <4>2
    <3>3. PICK v \in Txn, q \in Record, m \in {"S", "X"} : lock_on_record(v, q, m)
      BY <3>1, <3>2 DEF Next, Idle, vars, begin, lock_on_table, Throw, End, Finish
    <3>4. QED
      BY <3>1, <3>3 DEF lock_on_record, Throw
  <2>5. v = u /\ q = r /\ m = "X"
    BY <2>4 DEF LockInv, TypeOK
  <2> QED
    BY <2>3, <2>4, <2>5 DEF CanLockRecord
<1> QED
  BY <1>1, LockInvariance, PTL DEF Spec, NoNewWriterUnderScan

=============================================================================
