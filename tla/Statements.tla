------------------------------ MODULE Statements ------------------------------
(***************************************************************************)
(* Sessions that run statements on one table with one unique index: the    *)
(* scan and DML executors of src/execution, portal.h, the undo of          *)
(* transaction_manager.cpp, and the table and record locks of LockManager. *)
(*                                                                         *)
(* A row is its indexed key.  A statement runs in the steps between which  *)
(* other session threads act: each lock request, and each change of the    *)
(* index or of the table, by a statement or by the undo of an abort.       *)
(* UPDATE and DELETE first collect the rids of a scan and then change      *)
(* them; at most one row matches.  Gap locks are the                       *)
(* keys they cover (GapLock has their encoding), the index is its map from *)
(* keys to rids, and a slot is chosen and locked in one step (RecordFile   *)
(* has the two).                                                           *)
(***************************************************************************)
EXTENDS Integers, Sequences, SequencesExt, FiniteSets

CONSTANTS
  Txn,
  Auto,      \* those that are single statements, outside BEGIN ... COMMIT
  Slots,     \* number of slots of the table
  Val,       \* keys
  MaxStmts,  \* bound: statements of a transaction
  Explore    \* which of the situations named below may arise

(***************************************************************************)
(* "hidden_delete"   a sequential scan passes a row whose delete is not    *)
(*                   committed: its bit is clear, so no lock is asked for  *)
(* "vanished"        a row goes away between the scan's look at the bitmap *)
(*                   and its lock                                          *)
(* "reread"          a transaction reads a row it has written              *)
(* "refused_update"  the X lock of an UPDATE is refused                    *)
(* "late_check"      a key appears between the uniqueness check and the    *)
(*                   gap lock                                              *)
(***************************************************************************)
Situation == {"hidden_delete", "vanished", "reread", "refused_update", "late_check"}

ASSUME StatementsAssumption ==
  /\ Auto \subseteq Txn
  /\ Slots \in Nat \ {0} /\ MaxStmts \in Nat
  /\ Explore \subseteq Situation

VARIABLES
  tabMode, group, recMode, tabSet, recSet, state, ending,  \* LockManager
  gap,     \* [Txn -> keys locked S and X in the index]
  live,    \* rids whose bit is set
  data,    \* [Rid -> bytes of the slot, set or not]
  index,   \* [Val -> rid]
  stmt,    \* [Txn -> the statement it is in]
  left,    \* [Txn -> statements it may still start]
  ws,      \* [Txn -> write_set_]
  truth,   \* [Rid -> committed row]: history only
  seen     \* [Txn -> what its scans returned]: history only

locks == <<tabMode, group, recMode, tabSet, recSet, state, ending>>
table == <<live, data, index>>
vars == <<locks, gap, table, stmt, left, ws, truth, seen>>

Rid == 1 .. Slots
NoRid == 0
NoVal == "none"
Unread == "unread"

L == INSTANCE LockManager WITH Table <- {"t"}, Slot <- Rid, TableModes <- {"S"}

Idle == [at |-> "idle", kind |-> "select", via |-> "seq", old |-> NoVal, new |-> NoVal,
         pos |-> 0, rid |-> NoRid]

May(situation) == situation \in Explore
Row(r) == IF r \in live THEN data[r] ELSE NoVal
WrittenBy(t) == {ws[t][i].rid : i \in 1 .. Len(ws[t])}
Running(t) == state[t] = "GROWING" /\ ending[t] = "none"
Goto(t, s) == stmt' = [stmt EXCEPT ![t] = s]
At(t, where) == Running(t) /\ stmt[t].at = where

-----------------------------------------------------------------------------
(* Locks.  A refused request throws, and client_handler aborts. *)

Refused(t) == ending'[t] = "abort"

(* Outside a transaction reads take no lock, writes still do. *)
lock_record_read(t, r) ==
  IF t \in Auto THEN UNCHANGED locks ELSE L!lock_on_record(t, <<"t", r>>, "S")

lock_record_write(t, r) == L!lock_on_record(t, <<"t", r>>, "X")

GapHeldByOther(t, v, modes) == \E u \in Txn \ {t}, m \in modes : v \in gap[u][m]

lock_gap_IgnoresScans(t, vs, mode) ==
  IF t \in Auto THEN UNCHANGED <<locks, gap>>
  ELSE IF \E v \in vs : GapHeldByOther(t, v, {"X"})
  THEN L!Throw(t) /\ UNCHANGED gap
  ELSE UNCHANGED locks /\ gap' = [gap EXCEPT ![t][mode] = @ \cup vs]

lock_gap(t, vs, mode) ==
  IF t \in Auto THEN UNCHANGED <<locks, gap>>
  ELSE IF \E v \in vs : GapHeldByOther(t, v, IF mode = "S" THEN {"X"} ELSE {"S", "X"})
  THEN L!Throw(t) /\ UNCHANGED gap
  ELSE UNCHANGED locks /\ gap' = [gap EXCEPT ![t][mode] = @ \cup vs]

-----------------------------------------------------------------------------
(* The index: insert_entry keeps an entry that is there, delete_entry      *)
(* removes the key whatever rid it has.                                    *)

insert_entry(ix, v, r) == [ix EXCEPT ![v] = IF @ = NoRid THEN r ELSE @]
delete_entry(ix, v) == [ix EXCEPT ![v] = NoRid]

-----------------------------------------------------------------------------
(* Scans. *)

Start(t, kind, via, old, new) ==
  /\ At(t, "idle") /\ left[t] > 0
  /\ left' = [left EXCEPT ![t] = @ - 1]
  /\ Goto(t, [Idle EXCEPT !.at = IF kind = "insert" THEN "check" ELSE via,
                          !.kind = kind, !.via = via, !.old = old, !.new = new])
  /\ UNCHANGED <<locks, gap, table, ws, truth, seen>>

(* What a scan does with its result. *)
Found(t, r) ==
  Goto(t, IF stmt[t].kind = "select" \/ r = NoRid THEN Idle
          ELSE [stmt[t] EXCEPT !.rid = r,
                               !.at = IF stmt[t].kind = "update" THEN "check" ELSE "gap"])

SeqScanBegin(t) ==
  /\ At(t, "seq")
  /\ IF t \in Auto THEN UNCHANGED locks ELSE L!lock_on_table(t, "t", "S")
  /\ Goto(t, IF Refused(t) THEN Idle ELSE [stmt[t] EXCEPT !.at = "find"])
  /\ UNCHANGED <<gap, table, left, ws, truth, seen>>

(* RmScan moves to the next set bit. *)
SeqScanFind(t) ==
  LET pos == stmt[t].pos
      more == {r \in live : r > pos}
      next == IF more = {} THEN Slots + 1 ELSE CHOOSE r \in more : \A q \in more : r <= q
      passed == pos + 1 .. next - 1
  IN
  /\ At(t, "find")
  /\ May("hidden_delete") \/ \A r \in passed \ WrittenBy(t) : truth[r] = NoVal
  /\ seen' = [seen EXCEPT ![t].row = [r \in Rid |-> IF r \in passed THEN NoVal ELSE @[r]]]
  /\ IF more = {} THEN Found(t, stmt[t].rid)
     ELSE Goto(t, [stmt[t] EXCEPT !.at = "read", !.pos = next])
  /\ UNCHANGED <<locks, gap, table, left, ws, truth>>

Reads(t, r) ==
  seen' = IF Refused(t) THEN seen ELSE [seen EXCEPT ![t].row[r] = data[r]]

(* get_record: the lock, then the bytes of the slot.  An UPDATE or DELETE  *)
(* keeps the rid if the row matches a condition on another column.         *)
SeqScanRead(t) ==
  LET r == stmt[t].pos IN
  /\ At(t, "read") /\ stmt[t].via = "seq"
  /\ May("reread") \/ r \notin WrittenBy(t)
  /\ May("vanished") \/ r \in live
  /\ lock_record_read(t, r)
  /\ Reads(t, r)
  /\ \E match \in {NoRid, r} :
       /\ match = NoRid \/ (stmt[t].kind # "select" /\ stmt[t].rid = NoRid)
       /\ Goto(t, IF Refused(t) THEN Idle
                  ELSE [stmt[t] EXCEPT !.at = "find", !.rid = IF match = NoRid THEN @ ELSE match])
  /\ UNCHANGED <<gap, table, left, ws, truth>>

IndexScanBegin(t) ==
  LET v == stmt[t].old IN
  /\ At(t, "index_scan")
  /\ lock_gap(t, {v}, "S")
  /\ Goto(t, IF Refused(t) \/ index[v] = NoRid THEN Idle
             ELSE [stmt[t] EXCEPT !.at = "read", !.pos = index[v]])
  /\ seen' = IF Refused(t) \/ index[v] # NoRid THEN seen ELSE [seen EXCEPT ![t].absent = @ \cup {v}]
  /\ UNCHANGED <<table, left, ws, truth>>

IndexScanRead(t) ==
  LET r == stmt[t].pos IN
  /\ At(t, "read") /\ stmt[t].via = "index_scan"
  /\ May("reread") \/ r \notin WrittenBy(t)
  /\ lock_record_read(t, r)
  /\ Reads(t, r)
  /\ IF Refused(t) THEN Goto(t, Idle) ELSE Found(t, IF data[r] = stmt[t].old THEN r ELSE NoRid)
  /\ UNCHANGED <<gap, table, left, ws, truth>>

-----------------------------------------------------------------------------
(* Changes. *)

check_unique(t) == index[stmt[t].new] \in {NoRid, stmt[t].rid}

(* UPDATE reads its row again; IndexExistsError aborts the transaction. *)
Check(t) ==
  LET s == stmt[t] IN
  /\ At(t, "check")
  /\ IF check_unique(t)
     THEN /\ Goto(t, [s EXCEPT !.at = "gap", !.old = IF s.kind = "update" THEN data[s.rid] ELSE @])
          /\ UNCHANGED locks
     ELSE Goto(t, Idle) /\ L!Throw(t)
  /\ UNCHANGED <<gap, table, left, ws, truth, seen>>

(* lock_exclusive_gap_for_record.  UPDATE asks for the key of the old row  *)
(* first, and then for that of the new one.                                *)
LockGap(t) ==
  LET s == stmt[t]
      old == IF s.kind = "delete" THEN data[s.rid] ELSE s.old
  IN
  /\ At(t, "gap")
  /\ s.kind = "insert" => May("late_check") \/ check_unique(t)
  /\ lock_gap(t, {IF s.kind = "insert" THEN s.new ELSE old}, "X")
  /\ Goto(t, IF Refused(t) THEN Idle
             ELSE [s EXCEPT !.old = old, !.at = IF s.kind = "update" THEN "gap_new" ELSE "write"])
  /\ UNCHANGED <<table, left, ws, truth, seen>>

LockNewGap(t) ==
  /\ At(t, "gap_new")
  /\ May("late_check") \/ check_unique(t)
  /\ lock_gap(t, {stmt[t].new}, "X")
  /\ Goto(t, IF Refused(t) THEN Idle ELSE [stmt[t] EXCEPT !.at = "unindex"])
  /\ UNCHANGED <<table, left, ws, truth, seen>>

Log(t, type, r, rec) == ws' = [ws EXCEPT ![t] = Append(@, [type |-> type, rid |-> r, rec |-> rec])]

InsertRow(t) ==
  LET r == CHOOSE q \in Rid \ live : \A p \in Rid \ live : q <= p IN
  /\ At(t, "write") /\ stmt[t].kind = "insert" /\ live # Rid
  /\ lock_record_write(t, r)
  /\ IF Refused(t) THEN Goto(t, Idle) /\ UNCHANGED <<live, data>>
     ELSE /\ live' = live \cup {r}
          /\ data' = [data EXCEPT ![r] = stmt[t].new]
          /\ Goto(t, [stmt[t] EXCEPT !.at = "index", !.rid = r])
  /\ UNCHANGED <<gap, index, left, ws, truth, seen>>

InsertIndex(t) ==
  /\ At(t, "index") /\ stmt[t].kind = "insert"
  /\ index' = insert_entry(index, stmt[t].new, stmt[t].rid)
  /\ Log(t, "INSERT", stmt[t].rid, NoVal)
  /\ Goto(t, Idle)
  /\ UNCHANGED <<locks, gap, live, data, left, truth, seen>>

DeleteRow(t) ==
  /\ At(t, "write") /\ stmt[t].kind = "delete"
  /\ lock_record_write(t, stmt[t].rid)
  /\ IF Refused(t) THEN Goto(t, Idle) /\ UNCHANGED live
     ELSE live' = live \ {stmt[t].rid} /\ Goto(t, [stmt[t] EXCEPT !.at = "index"])
  /\ UNCHANGED <<gap, data, index, left, ws, truth, seen>>

DeleteIndex(t) ==
  /\ At(t, "index") /\ stmt[t].kind = "delete"
  /\ index' = delete_entry(index, stmt[t].old)
  /\ Log(t, "DELETE", stmt[t].rid, stmt[t].old)
  /\ Goto(t, Idle)
  /\ UNCHANGED <<locks, gap, live, data, left, truth, seen>>

(* UPDATE changes the index, an entry at a time, and its write set before  *)
(* it asks for the lock.                                                   *)
UpdateUnindex(t) ==
  /\ At(t, "unindex")
  /\ index' = delete_entry(index, stmt[t].old)
  /\ Goto(t, [stmt[t] EXCEPT !.at = "index"])
  /\ UNCHANGED <<locks, gap, live, data, left, ws, truth, seen>>

UpdateIndex(t) ==
  LET s == stmt[t] IN
  /\ At(t, "index") /\ s.kind = "update"
  /\ index' = insert_entry(index, s.new, s.rid)
  /\ Log(t, "UPDATE", s.rid, s.old)
  /\ Goto(t, [s EXCEPT !.at = "write"])
  /\ UNCHANGED <<locks, gap, live, data, left, truth, seen>>

UpdateRow(t) ==
  /\ At(t, "write") /\ stmt[t].kind = "update"
  /\ lock_record_write(t, stmt[t].rid)
  /\ May("refused_update") \/ ~Refused(t)
  /\ data' = IF Refused(t) THEN data ELSE [data EXCEPT ![stmt[t].rid] = stmt[t].new]
  /\ Goto(t, Idle)
  /\ UNCHANGED <<gap, live, index, left, ws, truth, seen>>

-----------------------------------------------------------------------------
(* Transactions. *)

begin(t) == L!begin(t) /\ UNCHANGED <<gap, table, stmt, left, ws, truth, seen>>

commit(t) ==
  /\ stmt[t].at = "idle" /\ (t \in Auto => left[t] = 0)
  /\ L!End(t, "commit")
  /\ truth' = [r \in Rid |-> IF r \in WrittenBy(t) THEN Row(r) ELSE truth[r]]
  /\ ws' = [ws EXCEPT ![t] = <<>>]
  /\ UNCHANGED <<gap, table, stmt, left, seen>>

abort(t) ==
  /\ stmt[t].at = "idle" /\ t \notin Auto
  /\ L!End(t, "abort")
  /\ UNCHANGED <<gap, table, stmt, left, ws, truth, seen>>

(* Undo of the last write record.  It reads the row as it is, takes its    *)
(* entry out of the index (not for a DELETE), puts the old one back (not   *)
(* for an INSERT), and restores the row: last, but first for a DELETE.     *)
Undo(t, where) ==
  LET w == Last(ws[t]) IN
  /\ ending[t] = "abort" /\ stmt[t].at = "idle" /\ ws[t] # <<>>
  /\ ws' = [ws EXCEPT ![t] = Front(@)]
  /\ Goto(t, [Idle EXCEPT !.at = where, !.kind = w.type, !.rid = w.rid, !.old = w.rec,
                          !.new = data[w.rid]])
  /\ UNCHANGED <<locks, gap, table, left, truth, seen>>

undo_write_record_TableOnly(t) == Undo(t, "undo_row")

undo_write_record(t) ==
  LET w == Last(ws[t]) IN
  Undo(t, IF w.type = "DELETE" \/ w.rec = data[w.rid] THEN "undo_row" ELSE "undo_new")

UndoNewEntry(t) ==
  /\ stmt[t].at = "undo_new"
  /\ index' = delete_entry(index, stmt[t].new)
  /\ Goto(t, [stmt[t] EXCEPT !.at = IF stmt[t].kind = "UPDATE" THEN "undo_old" ELSE "undo_row"])
  /\ UNCHANGED <<locks, gap, live, data, left, ws, truth, seen>>

UndoOldEntry(t) ==
  /\ stmt[t].at = "undo_old"
  /\ index' = insert_entry(index, stmt[t].old, stmt[t].rid)
  /\ Goto(t, IF stmt[t].kind = "UPDATE" THEN [stmt[t] EXCEPT !.at = "undo_row"] ELSE Idle)
  /\ UNCHANGED <<locks, gap, live, data, left, ws, truth, seen>>

UndoRow(t) ==
  LET s == stmt[t] IN
  /\ s.at = "undo_row"
  /\ \/ s.kind = "INSERT" /\ live' = live \ {s.rid} /\ UNCHANGED data
     \/ s.kind = "DELETE" /\ live' = live \cup {s.rid} /\ data' = [data EXCEPT ![s.rid] = s.old]
     \/ s.kind = "UPDATE" /\ data' = [data EXCEPT ![s.rid] = s.old] /\ UNCHANGED live
  /\ Goto(t, IF s.kind = "DELETE" THEN [s EXCEPT !.at = "undo_old"] ELSE Idle)
  /\ UNCHANGED <<locks, gap, index, left, ws, truth, seen>>

release_all_locks_BeforeUndo(t) ==
  /\ L!release_one_lock(t)
  /\ UNCHANGED <<gap, table, stmt, left, ws, truth, seen>>

(* release_all_locks, a lock at a time, once the write set is empty. *)
release_all_locks(t) ==
  /\ ws[t] = <<>> /\ stmt[t].at = "idle"
  /\ \/ L!release_one_lock(t) /\ UNCHANGED gap
     \/ /\ ending[t] # "none" /\ gap[t] # [S |-> {}, X |-> {}]
        /\ gap' = [gap EXCEPT ![t] = [S |-> {}, X |-> {}]]
        /\ UNCHANGED locks
  /\ UNCHANGED <<table, stmt, left, ws, truth, seen>>

Finish(t) ==
  /\ ws[t] = <<>> /\ stmt[t].at = "idle" /\ gap[t] = [S |-> {}, X |-> {}]
  /\ L!Finish(t)
  /\ UNCHANGED <<gap, table, stmt, left, ws, truth, seen>>

Init ==
  /\ L!Init
  /\ gap = [t \in Txn |-> [S |-> {}, X |-> {}]]
  /\ \E rows \in {f \in [Rid -> Val \cup {NoVal}] :
                    \A q, r \in Rid : q # r => f[q] # f[r] \/ f[q] = NoVal} :
       /\ truth = rows
       /\ live = {r \in Rid : rows[r] # NoVal}
       /\ data = rows
       /\ index = [v \in Val |-> IF \E r \in Rid : rows[r] = v
                                 THEN CHOOSE r \in Rid : rows[r] = v ELSE NoRid]
  /\ stmt = [t \in Txn |-> Idle]
  /\ left = [t \in Txn |-> IF t \in Auto THEN 1 ELSE MaxStmts]
  /\ ws = [t \in Txn |-> <<>>]
  /\ seen = [t \in Txn |-> [row |-> [r \in Rid |-> Unread], absent |-> {}]]

Statement(t) ==
  \/ Start(t, "select", "seq", NoVal, NoVal)
  \/ \E v \in Val : Start(t, "select", "index_scan", v, NoVal)
  \/ \E v \in Val : Start(t, "insert", "seq", NoVal, v)
  \/ Start(t, "delete", "seq", NoVal, NoVal)
  \/ \E v \in Val : Start(t, "delete", "index_scan", v, NoVal)
  \/ \E w \in Val : Start(t, "update", "seq", NoVal, w)
  \/ \E v, w \in Val : Start(t, "update", "index_scan", v, w)

Next ==
  \E t \in Txn :
    \/ begin(t) \/ Statement(t)
    \/ SeqScanBegin(t) \/ SeqScanFind(t) \/ SeqScanRead(t)
    \/ IndexScanBegin(t) \/ IndexScanRead(t)
    \/ Check(t) \/ LockGap(t) \/ LockNewGap(t)
    \/ InsertRow(t) \/ InsertIndex(t) \/ DeleteRow(t) \/ DeleteIndex(t)
    \/ UpdateUnindex(t) \/ UpdateIndex(t) \/ UpdateRow(t)
    \/ commit(t) \/ abort(t)
    \/ undo_write_record(t) \/ UndoNewEntry(t) \/ UndoOldEntry(t) \/ UndoRow(t)
    \/ release_all_locks(t) \/ Finish(t)

Spec == Init /\ [][Next]_vars

-----------------------------------------------------------------------------
(* Properties. *)

(* The types of the table, the index, the statements and the write sets. *)
TypeOK ==
  /\ live \subseteq Rid
  /\ data \in [Rid -> Val \cup {NoVal}]
  /\ \A r \in live : data[r] \in Val
  /\ index \in [Val -> Rid \cup {NoRid}]
  /\ \A t \in Txn : /\ stmt[t].pos \in 0 .. Slots /\ stmt[t].rid \in Rid \cup {NoRid}
                    /\ gap[t] \in [S : SUBSET Val, X : SUBSET Val]
                    /\ WrittenBy(t) \subseteq Rid

(* t stands between the changes that a statement or the undo of a write    *)
(* record makes to the table and to the index.                             *)
Changing(t) ==
  \/ stmt[t].at \in {"unindex", "index", "undo_new", "undo_old", "undo_row"}
  \/ stmt[t].at = "write" /\ stmt[t].kind = "update"

(* The index has exactly the rows of the table, and so no key occurs       *)
(* twice, while transactions run, fail and are undone: only the row and    *)
(* the keys that a session is just changing, or undoing, may disagree.     *)
IndexAgrees ==
  /\ TypeOK
  /\ \A v \in Val, r \in Rid :
       (\A t \in Txn : Changing(t) => r # stmt[t].rid /\ v \notin {stmt[t].old, stmt[t].new})
       => (index[v] = r <=> Row(r) = v)

(* A row that no transaction has X-locked is the committed row: abort      *)
(* restores what the transaction changed before it gives the lock back.    *)
AbortRestores ==
  \A r \in Rid : (\A t \in Txn : recMode[<<"t", r>>][t] # "X") => Row(r) = truth[r]

(* Isolation: what the scans of a running transaction returned, rows and   *)
(* empty slots of sequential scans and missing keys of index scans, is the *)
(* committed state until the transaction ends, but for its own writes.     *)
ReadsStayTrue ==
  \A t \in Txn \ Auto : Running(t) =>
    /\ \A r \in Rid \ WrittenBy(t) : seen[t].row[r] \in {Unread, truth[r]}
    /\ \A v \in seen[t].absent, r \in Rid \ WrittenBy(t) : truth[r] # v
=============================================================================
