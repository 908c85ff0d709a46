------------------------------- MODULE Recovery -------------------------------
(***************************************************************************)
(* Write-ahead logging and crash recovery: the statements of               *)
(* src/execution/executor_{insert,delete,update}.h, commit and abort of    *)
(* src/transaction/transaction_manager.cpp, the log buffer of              *)
(* src/recovery/log_manager.cpp, and analyze, redo and undo of             *)
(* src/recovery/log_recovery.cpp, over one table.                          *)
(*                                                                         *)
(* Transactions run in parallel; a statement is split where other threads  *)
(* or a crash can come between its effects on the log, the row, the locks  *)
(* and the files.  A crash loses the log buffer and the pages in memory;   *)
(* recovery itself may crash and start over.  The log is never truncated,  *)
(* so every start replays it from the beginning.                           *)
(*                                                                         *)
(* The lsn of a record is its position in the log and prev_lsn_ leads to   *)
(* the transaction's previous record, so neither is stored here.  Indexes  *)
(* are rebuilt from the table at the end of recovery and show only in what *)
(* that scan needs.  An INSERT goes where the free list leads it, and      *)
(* recovery changes that list as it takes rows out and puts them back.     *)
(***************************************************************************)
EXTENDS Integers, Sequences, SequencesExt, FiniteSets

CONSTANTS
  Txn,         \* transaction ids, numbers given out in increasing order
  AutoCommit,  \* those that are single statements outside BEGIN ... COMMIT
  PerPage,     \* num_records_per_page
  MaxPages,    \* bound: pages of the table file
  OldPages,    \* number of pages that are in the file from the start
  Val,         \* row contents
  MaxStmts,    \* bound: statements of a transaction
  MaxCrashes,  \* bound: crashes
  Explore      \* which of the situations named below may arise

(***************************************************************************)
(* "overlap"          transactions of several sessions run at a time       *)
(* "refused_delete"   delete_record's X lock is refused                    *)
(* "unlogged_page"    a page is written to disk between a change to one of *)
(*                    its rows and the flush of the change's log record    *)
(* "unlocked_read"    a single statement, whose reads take no lock, has    *)
(*                    logged a DELETE or UPDATE of a row that another      *)
(*                    transaction has locked, or locks before it does      *)
(* "old_loser"        a server that was recovered from unfinished          *)
(*                    transactions goes down once more after coming up     *)
(* "full_head"        an INSERT meets a page at the head of the free list  *)
(*                    that undo or redo has filled up again                *)
(***************************************************************************)
Situation ==
  {"overlap", "refused_delete", "unlogged_page", "unlocked_read", "old_loser", "full_head"}

ASSUME RecoveryAssumption ==
  /\ Txn \subseteq Nat /\ AutoCommit \subseteq Txn /\ Explore \subseteq Situation
  /\ PerPage \in Nat \ {0} /\ MaxPages \in Nat \ {0} /\ OldPages \in 0 .. MaxPages
  /\ MaxStmts \in Nat /\ MaxCrashes \in Nat

VARIABLES
  rows,      \* [Rid -> bitmap bit and bytes of the slot], in the buffer pool
  phdr,      \* [Page -> num_records and next_free_page_no], in the buffer pool
  disk,      \* rows, phdr and pages of the file
  pages,     \* pages that are in the pool or in the file
  hdr,       \* num_pages and first_free_page_no of the file header, always on disk
  dirty,     \* pages changed since they were written
  buf, log,  \* log buffer and log file
  st,        \* [Txn -> state of the transaction and step of its statement]
  ws,        \* [Txn -> write_set_]
  stmts,     \* [Txn -> statements so far]
  lock,      \* [Rid -> [Txn -> "NONE", "S" or "X"]]
  server,    \* "down", "recovering", "up", or "dead": recovery gave up
  plan,      \* operations recovery still has to apply
  crashes,   \* crashes so far
  truth      \* [Rid -> row as of the last commit on disk]: history only

mem == <<rows, phdr, pages, dirty>>
txns == <<st, ws, stmts, lock>>
vars == <<mem, disk, hdr, buf, log, txns, server, plan, crashes, truth>>

Page == 1 .. MaxPages
Rid == Page \X (0 .. PerPage)  \* slot PerPage is beyond the last one
NoPage == -1
NoRow == "none"

RowOf(s) == IF s.live THEN s.val ELSE NoRow

At(t, step) == st[t].at = step

Step(t, step) == [st EXCEPT ![t].at = step]

Running(t) == st[t].at \notin {"new", "gone", "committed", "aborted"}

-----------------------------------------------------------------------------
(* Log. *)

Rec(type, t, r, old, new) == [type |-> type, tid |-> t, rid |-> r, old |-> old, new |-> new]
Mark(type, t) == [type |-> type, tid |-> t]
IsDml(rec) == rec.type \in {"INSERT", "DELETE", "UPDATE"}

Logged(t) == \E i \in 1 .. Len(log \o buf) : (log \o buf)[i].tid = t

WithBegin_Missing(t, rec) == Append(buf, rec)

(* ensure_begin_logged, then add_log_to_buffer. *)
WithBegin(t, rec) ==
  IF Logged(t) THEN Append(buf, rec) ELSE buf \o <<Mark("BEGIN", t), rec>>

CommitsInBuffer == {t \in Txn : \E i \in 1 .. Len(buf) : buf[i] = Mark("COMMIT", t)}

WrittenBy(t) == {ws[t][i].rid : i \in 1 .. Len(ws[t])}

(* A transaction is committed when its COMMIT record is in the file.  Its  *)
(* locks are still held then, so the rows it wrote are as it left them.    *)
flush_log_to_disk ==
  /\ log' = log \o buf
  /\ buf' = <<>>
  /\ truth' = [r \in Rid |-> IF \E t \in CommitsInBuffer : r \in WrittenBy(t)
                             THEN RowOf(rows[r]) ELSE truth[r]]

-----------------------------------------------------------------------------
(* Record locks and changes to a slot. *)

(* A single statement of another session has logged a change of the row    *)
(* and has not locked it yet.                                              *)
Pending(t, r) ==
  \E u \in AutoCommit \ {t} : st[u].at \in {"del_logged", "upd_logged"} /\ st[u].rid = r

CanLock(t, r, m) ==
  /\ \A u \in Txn \ {t} : IF m = "S" THEN lock[r][u] # "X" ELSE lock[r][u] = "NONE"
  /\ "unlocked_read" \in Explore \/ ~Pending(t, r)

Locked(t, r, m) == [lock EXCEPT ![r][t] = m]

(* get_record: S lock in an explicit transaction, none otherwise. *)
ReadLock(t, r) ==
  IF t \in AutoCommit THEN ("unlocked_read" \in Explore \/ CanLock(t, r, "X")) /\ UNCHANGED lock
  ELSE CanLock(t, r, "S") /\ lock' = Locked(t, r, "S")

(* insert_record(rid), delete_record and update_record on the slot.  Only  *)
(* delete_record looks at the free list: release_page_handle.              *)
Put(r, v) ==
  /\ rows' = [rows EXCEPT ![r] = [live |-> TRUE, val |-> v]]
  /\ phdr' = [phdr EXCEPT ![r[1]].num = @ + 1]
  /\ UNCHANGED hdr
Del(r) ==
  LET num == phdr[r[1]].num - 1 IN
  /\ rows' = [rows EXCEPT ![r].live = FALSE]
  /\ IF num = PerPage - 1
     THEN /\ phdr' = [phdr EXCEPT ![r[1]] = [num |-> num, next |-> hdr.free]]
          /\ hdr' = [hdr EXCEPT !.free = r[1]]
     ELSE phdr' = [phdr EXCEPT ![r[1]].num = num] /\ UNCHANGED hdr
Set(r, v) ==
  /\ rows' = [rows EXCEPT ![r].val = v]
  /\ UNCHANGED <<phdr, hdr>>

Apply(op) ==
  /\ \/ op.op = "put" /\ Put(op.rid, op.val)
     \/ op.op = "del" /\ Del(op.rid)
     \/ op.op = "set" /\ Set(op.rid, op.val)
  /\ dirty' = dirty \cup {op.rid[1]}

-----------------------------------------------------------------------------
(* Sessions. *)

begin(t) ==
  /\ server = "up" /\ At(t, "new")
  /\ \A u \in Txn : u < t => ~At(u, "new")
  /\ "overlap" \in Explore \/ \A u \in Txn : ~Running(u)
  /\ st' = Step(t, "idle")
  /\ UNCHANGED <<mem, disk, hdr, buf, log, ws, stmts, lock, server, plan, crashes, truth>>

(* A transaction works on a row once: rereading a row it wrote would turn  *)
(* its X lock into S (see LockManager).                                    *)
CanStart(t, r) ==
  /\ At(t, "idle") /\ r \notin WrittenBy(t)
  /\ stmts[t] < IF t \in AutoCommit THEN 1 ELSE MaxStmts

Started(t, step, r, v) ==
  /\ st' = [st EXCEPT ![t] = [at |-> step, rid |-> r, val |-> v]]
  /\ stmts' = [stmts EXCEPT ![t] = @ + 1]

(***************************************************************************)
(* InsertExecutor::Next: BEGIN record, insert_record (X lock, row), then   *)
(* the log record.  insert_record takes the first clear bit of the page    *)
(* that the free list starts with, or of a new page, and a page that is    *)
(* full by its count leaves the list.  create_new_page_handle writes the   *)
(* file header at once and leaves the page itself to a later flush.        *)
(***************************************************************************)
FirstFree(p) ==
  CHOOSE s \in 0 .. PerPage : /\ s = PerPage \/ ~rows[<<p, s>>].live
                             /\ \A q \in 0 .. s - 1 : rows[<<p, q>>].live

create_page_handle == IF hdr.free = NoPage THEN hdr.pages + 1 ELSE hdr.free

InsertWrite(t, v) ==
  LET new == hdr.free = NoPage
      p == create_page_handle
      r == <<p, FirstFree(p)>>
  IN
  /\ p \in Page /\ (new \/ p \in pages)
  /\ CanStart(t, r) /\ CanLock(t, r, "X")
  /\ "full_head" \in Explore \/ r[2] < PerPage
  /\ rows' = [rows EXCEPT ![r] = [live |-> TRUE, val |-> v]]
  /\ phdr' = [phdr EXCEPT ![p].num = @ + 1]
  /\ hdr' = [pages |-> IF new THEN p ELSE hdr.pages,
             free |-> IF phdr'[p].num = PerPage THEN phdr[p].next ELSE p]
  /\ pages' = pages \cup {p}
  /\ dirty' = dirty \cup {p}
  /\ buf' = IF Logged(t) THEN buf ELSE Append(buf, Mark("BEGIN", t))
  /\ lock' = Locked(t, r, "X")
  /\ Started(t, "ins_written", r, v)
  /\ UNCHANGED <<disk, log, ws, server, plan, crashes, truth>>

InsertLog(t) ==
  LET r == st[t].rid IN
  /\ At(t, "ins_written")
  /\ buf' = Append(buf, Rec("INSERT", t, r, NoRow, st[t].val))
  /\ ws' = [ws EXCEPT ![t] = Append(@, [op |-> "del", rid |-> r, val |-> NoRow])]
  /\ st' = Step(t, "logged")
  /\ UNCHANGED <<mem, disk, hdr, log, stmts, lock, server, plan, crashes, truth>>

(* DeleteExecutor::Next logs before it asks for the X lock. *)
DeleteLog(t, r) ==
  /\ CanStart(t, r) /\ rows[r].live /\ ReadLock(t, r)
  /\ buf' = WithBegin(t, Rec("DELETE", t, r, rows[r].val, NoRow))
  /\ Started(t, "del_logged", r, rows[r].val)
  /\ UNCHANGED <<mem, disk, hdr, log, ws, server, plan, crashes, truth>>

DeleteWrite(t) ==
  LET r == st[t].rid IN
  /\ At(t, "del_logged") /\ CanLock(t, r, "X")
  /\ lock' = Locked(t, r, "X")
  /\ Apply([op |-> "del", rid |-> r])
  /\ ws' = [ws EXCEPT ![t] = Append(@, [op |-> "put", rid |-> r, val |-> st[t].val])]
  /\ st' = Step(t, "logged")
  /\ UNCHANGED <<pages, disk, buf, log, stmts, server, plan, crashes, truth>>

(* UpdateExecutor::Next logs and appends to the write set before the lock. *)
UpdateLog(t, r, v) ==
  /\ CanStart(t, r) /\ rows[r].live /\ ReadLock(t, r)
  /\ buf' = WithBegin(t, Rec("UPDATE", t, r, rows[r].val, v))
  /\ ws' = [ws EXCEPT ![t] = Append(@, [op |-> "set", rid |-> r, val |-> rows[r].val])]
  /\ Started(t, "upd_logged", r, v)
  /\ UNCHANGED <<mem, disk, hdr, log, server, plan, crashes, truth>>

UpdateWrite(t) ==
  LET r == st[t].rid IN
  /\ At(t, "upd_logged") /\ CanLock(t, r, "X")
  /\ lock' = Locked(t, r, "X")
  /\ Apply([op |-> "set", rid |-> r, val |-> st[t].val])
  /\ st' = Step(t, "logged")
  /\ UNCHANGED <<pages, disk, buf, log, ws, stmts, server, plan, crashes, truth>>

(* persist_wal at the end of the statement; a single statement is answered *)
(* before it is committed.                                                 *)
persist_wal(t) ==
  /\ At(t, "logged")
  /\ flush_log_to_disk
  /\ st' = Step(t, IF t \in AutoCommit THEN "answered" ELSE "idle")
  /\ UNCHANGED <<mem, disk, hdr, ws, stmts, lock, server, plan, crashes>>

-----------------------------------------------------------------------------
(* TransactionManager::commit. *)

WritePages_Truncates(S) ==
  disk' = [rows |-> [r \in Rid |-> IF r[1] \in S THEN rows[r] ELSE disk.rows[r]],
           phdr |-> [p \in Page |-> IF p \in S THEN phdr[p] ELSE disk.phdr[p]],
           pages |-> S]

WritePages(S) ==
  disk' = [rows |-> [r \in Rid |-> IF r[1] \in S THEN rows[r] ELSE disk.rows[r]],
           phdr |-> [p \in Page |-> IF p \in S THEN phdr[p] ELSE disk.phdr[p]],
           pages |-> disk.pages \cup S]

(* No row of these pages has been changed by a statement that has not come *)
(* to persist_wal: by an INSERT, which logs later still, or by a DELETE or *)
(* UPDATE, which left its record in the log buffer.                        *)
AllLogged(S) ==
  "unlogged_page" \in Explore
    \/ \A t \in Txn : st[t].at \in {"ins_written", "logged"} => st[t].rid[1] \notin S

CommitLog_Skipped(t) ==
  /\ st[t].at \in {"idle", "answered"} /\ ws[t] # <<>>
  /\ st' = Step(t, "com_logged")
  /\ UNCHANGED <<mem, disk, hdr, buf, log, ws, stmts, lock, server, plan, crashes, truth>>

CommitLog(t) ==
  /\ st[t].at \in {"idle", "answered"} /\ ws[t] # <<>>
  /\ buf' = Append(buf, Mark("COMMIT", t))
  /\ st' = Step(t, "com_logged")
  /\ UNCHANGED <<mem, disk, hdr, log, ws, stmts, lock, server, plan, crashes, truth>>

CommitFlush(t) ==
  /\ At(t, "com_logged")
  /\ flush_log_to_disk
  /\ st' = Step(t, "com_flushed")
  /\ UNCHANGED <<mem, disk, hdr, ws, stmts, lock, server, plan, crashes>>

release_all_locks(t) == lock' = [r \in Rid |-> [lock[r] EXCEPT ![t] = "NONE"]]

CommitRelease(t) ==
  /\ At(t, "com_flushed") \/ (At(t, "idle") /\ ws[t] = <<>>)
  /\ release_all_locks(t)
  /\ ws' = [ws EXCEPT ![t] = <<>>]
  /\ st' = Step(t, IF ws[t] = <<>> THEN "committed" ELSE "com_released")
  /\ UNCHANGED <<mem, disk, hdr, buf, log, stmts, server, plan, crashes, truth>>

flush_all_dirty_pages(t) ==
  /\ At(t, "com_released") /\ AllLogged(dirty)
  /\ WritePages(dirty)
  /\ dirty' = {}
  /\ st' = Step(t, "committed")
  /\ UNCHANGED <<rows, phdr, pages, hdr, buf, log, ws, stmts, lock, server, plan, crashes, truth>>

-----------------------------------------------------------------------------
(* TransactionManager::abort. *)

Refused(t) ==
  \/ At(t, "upd_logged") /\ ~CanLock(t, st[t].rid, "X")
  \/ At(t, "del_logged") /\ ~CanLock(t, st[t].rid, "X") /\ "refused_delete" \in Explore
  \/ At(t, "idle")

(* A refused lock, another error of the statement, or ABORT. *)
abort(t) ==
  /\ Refused(t)
  /\ st' = Step(t, IF ws[t] = <<>> THEN "undone" ELSE "undo")
  /\ UNCHANGED <<mem, disk, hdr, buf, log, ws, stmts, lock, server, plan, crashes, truth>>

undo_write_record(t) ==
  /\ At(t, "undo") /\ ws[t] # <<>>
  /\ Apply(Last(ws[t]))
  /\ ws' = [ws EXCEPT ![t] = Front(@)]
  /\ UNCHANGED <<pages, disk, buf, log, st, stmts, lock, server, plan, crashes, truth>>

AbortLog(t) ==
  /\ At(t, "undo") /\ ws[t] = <<>>
  /\ buf' = Append(buf, Mark("ABORT", t))
  /\ st' = Step(t, "abort_logged")
  /\ UNCHANGED <<mem, disk, hdr, log, ws, stmts, lock, server, plan, crashes, truth>>

AbortFlush(t) ==
  /\ At(t, "abort_logged")
  /\ flush_log_to_disk
  /\ st' = Step(t, "undone")
  /\ UNCHANGED <<mem, disk, hdr, ws, stmts, lock, server, plan, crashes>>

AbortRelease(t) ==
  /\ At(t, "undone")
  /\ release_all_locks(t)
  /\ st' = Step(t, "aborted")
  /\ UNCHANGED <<mem, disk, hdr, buf, log, ws, stmts, server, plan, crashes, truth>>

-----------------------------------------------------------------------------
(* Evictions, and crashes. *)

Evict(p) ==
  /\ server \in {"up", "recovering"} /\ p \in dirty /\ AllLogged({p})
  /\ WritePages({p})
  /\ dirty' = dirty \ {p}
  /\ UNCHANGED <<rows, phdr, pages, hdr, buf, log, txns, server, plan, crashes, truth>>

(* An id that reached the log is not given out again. *)
Lost(t) ==
  IF At(t, "new") \/ (~\E i \in 1 .. Len(log) : log[i].tid >= t) THEN "new" ELSE "gone"

(* Recovery writes no ABORT record for the transactions it rolls back. *)
OldLosers == {t \in Txn : At(t, "gone") /\ \E i \in 1 .. Len(log) : log[i].tid = t /\ IsDml(log[i])}

Crash ==
  /\ server \in {"up", "recovering"} /\ crashes < MaxCrashes
  /\ "old_loser" \in Explore \/ server = "recovering" \/ OldLosers = {}
  /\ server' = "down"
  /\ crashes' = crashes + 1
  /\ rows' = disk.rows /\ phdr' = disk.phdr /\ pages' = disk.pages /\ dirty' = {}
  /\ buf' = <<>> /\ plan' = <<>>
  /\ st' = [t \in Txn |-> [st[t] EXCEPT !.at = IF Running(t) THEN Lost(t) ELSE @]]
  /\ ws' = [t \in Txn |-> <<>>]
  /\ stmts' = [t \in Txn |-> IF st'[t].at = "new" THEN 0 ELSE stmts[t]]
  /\ lock' = [r \in Rid |-> [t \in Txn |-> "NONE"]]
  /\ UNCHANGED <<disk, hdr, log, truth>>

-----------------------------------------------------------------------------
(* RecoveryManager. *)

LastOf(t) == CHOOSE i \in 1 .. Len(log) :
               log[i].tid = t /\ \A j \in i + 1 .. Len(log) : log[j].tid # t

Seen == {log[i].tid : i \in 1 .. Len(log)}
EndsWith(type) == {t \in Seen : log[LastOf(t)].type = type}

DmlOf(S) == {i \in 1 .. Len(log) : log[i].tid \in S /\ IsDml(log[i])}

(* rollback: transactions by descending id, each from its last record. *)
RollbackOrder(S) ==
  SetToSortSeq(DmlOf(S), LAMBDA i, j : \/ log[i].tid > log[j].tid
                                       \/ log[i].tid = log[j].tid /\ i > j)

Undone(i) ==
  LET rec == log[i] IN
  [op |-> IF rec.type = "INSERT" THEN "del" ELSE IF rec.type = "DELETE" THEN "put" ELSE "set",
   rid |-> rec.rid, val |-> rec.old, phase |-> "undo"]

Redone(i) ==
  LET rec == log[i] IN
  [op |-> IF rec.type = "INSERT" THEN "put" ELSE IF rec.type = "DELETE" THEN "del" ELSE "set",
   rid |-> rec.rid, val |-> rec.new, phase |-> "redo"]

Each(s, Op(_)) == [i \in 1 .. Len(s) |-> Op(s[i])]

RedoSet_Everything == Seen

RedoSet == EndsWith("COMMIT")

(* redo: rollback(true) of every transaction, then the committed ones in   *)
(* log order; undo: rollback(false), which stops at COMMIT and ABORT.      *)
analyze ==
  /\ server = "down"
  /\ server' = "recovering"
  /\ plan' = Each(RollbackOrder(Seen), Undone)
             \o Each(SetToSortSeq(DmlOf(RedoSet), <), Redone)
             \o Each(RollbackOrder(Seen \ (EndsWith("COMMIT") \cup EndsWith("ABORT"))), Undone)
  /\ UNCHANGED <<mem, disk, hdr, buf, log, txns, crashes, truth>>

RecoverStep_Stuck ==
  /\ server = "recovering" /\ plan # <<>>
  /\ Apply(Head(plan))
  /\ UNCHANGED <<plan, server, pages, disk, buf, log, txns, crashes, truth>>

(***************************************************************************)
(* A page that is missing from the file cannot be fetched.  rollback       *)
(* swallows the error; redo does not, except around insert_record, where   *)
(* its second attempt fails or asserts, as it finds another slot: main()   *)
(* ends.                                                                   *)
(***************************************************************************)
RecoverStep ==
  LET op == Head(plan)
      found == op.rid[1] \in pages
  IN
  /\ server = "recovering" /\ plan # <<>>
  /\ IF found THEN Apply(op) ELSE UNCHANGED <<rows, phdr, hdr, dirty>>
  /\ server' = IF found \/ op.phase = "undo" THEN server ELSE "dead"
  /\ plan' = Tail(plan)
  /\ UNCHANGED <<pages, disk, buf, log, txns, crashes, truth>>

(* rebuild_indexes_from_table scans every page of a table that the log     *)
(* mentions and that has an index, as this one; then main() flushes.       *)
RecoverEnd ==
  /\ server = "recovering" /\ plan = <<>>
  /\ IF 1 .. hdr.pages \subseteq pages \/ DmlOf(Seen) = {}
     THEN server' = "up" /\ WritePages(dirty) /\ dirty' = {}
     ELSE server' = "dead" /\ UNCHANGED <<disk, dirty>>
  /\ UNCHANGED <<rows, phdr, pages, hdr, buf, log, txns, plan, crashes, truth>>

-----------------------------------------------------------------------------
EmptySlot == [live |-> FALSE, val |-> NoRow]

Init ==
  /\ rows = [r \in Rid |-> EmptySlot]
  /\ phdr = [p \in Page |-> [num |-> 0, next |-> IF p < OldPages THEN p + 1 ELSE NoPage]]
  /\ hdr = [pages |-> OldPages, free |-> IF OldPages = 0 THEN NoPage ELSE 1]
  /\ pages = 1 .. OldPages /\ dirty = {}
  /\ disk = [rows |-> rows, phdr |-> phdr, pages |-> pages]
  /\ buf = <<>> /\ log = <<>>
  /\ st = [t \in Txn |-> [at |-> "new", rid |-> CHOOSE r \in Rid : TRUE, val |-> NoRow]]
  /\ ws = [t \in Txn |-> <<>>]
  /\ stmts = [t \in Txn |-> 0]
  /\ lock = [r \in Rid |-> [t \in Txn |-> "NONE"]]
  /\ server = "up" /\ plan = <<>> /\ crashes = 0
  /\ truth = [r \in Rid |-> NoRow]

SessionStep(t) ==
  \/ begin(t)
  \/ \E v \in Val : InsertWrite(t, v)
  \/ \E r \in Rid : DeleteLog(t, r) \/ \E v \in Val : UpdateLog(t, r, v)
  \/ InsertLog(t) \/ DeleteWrite(t) \/ UpdateWrite(t) \/ persist_wal(t)
  \/ CommitLog(t) \/ CommitFlush(t) \/ CommitRelease(t) \/ flush_all_dirty_pages(t)
  \/ abort(t) \/ undo_write_record(t) \/ AbortLog(t) \/ AbortFlush(t) \/ AbortRelease(t)

RecoveryStep == analyze \/ RecoverStep \/ RecoverEnd

Next ==
  \/ \E t \in Txn : SessionStep(t)
  \/ \E p \in Page : Evict(p)
  \/ Crash
  \/ RecoveryStep

Spec == Init /\ [][Next]_vars

(* main() runs recovery to its end before it accepts clients. *)
FairSpec == Spec /\ WF_vars(RecoveryStep)

-----------------------------------------------------------------------------
(* Properties. *)

Slots == [Rid -> [live : BOOLEAN, val : Val \cup {NoRow}]]
PageHdrs == [Page -> [num : Int, next : Page \cup {NoPage}]]

(* Rows, pages, log, transactions and recovery plan are well formed. *)
TypeOK ==
  /\ rows \in Slots /\ \A r \in Rid : rows[r].live => rows[r].val \in Val
  /\ phdr \in PageHdrs
  /\ disk \in [rows : Slots, phdr : PageHdrs, pages : SUBSET Page]
  /\ hdr \in [pages : 0 .. MaxPages, free : Page \cup {NoPage}]
  /\ pages \subseteq 1 .. hdr.pages /\ dirty \subseteq pages
  /\ \A i \in 1 .. Len(log \o buf) : (log \o buf)[i].tid \in Txn
  /\ lock \in [Rid -> [Txn -> {"NONE", "S", "X"}]]
  /\ server \in {"down", "recovering", "up", "dead"}
  /\ crashes \in 0 .. MaxCrashes
  /\ truth \in [Rid -> Val \cup {NoRow}]

(* What a scan returns: it looks at the slots of the page only. *)
Scanned(r) == IF r[2] < PerPage THEN RowOf(rows[r]) ELSE NoRow

(* Somebody's uncommitted change may be in the row. *)
Unsettled(r) == \E t \in Txn : lock[r][t] # "NONE"

(* Durability and atomicity: when the server is up, a row that no running  *)
(* transaction has locked is as the last commit whose COMMIT record        *)
(* reached the log file left it.  Committed work survives every crash, and *)
(* of aborted and unfinished work nothing is left, through evictions and   *)
(* repeated crashes of recovery.                                           *)
RowsAreCommitted ==
  server = "up" => \A r \in Rid : ~Unsettled(r) => Scanned(r) = truth[r]

(* The server can be started again on the files a crash leaves, unless a   *)
(* page that create_new_page_handle made was counted in the file header    *)
(* and had not reached the file: no page that was there ever goes missing. *)
CanRestart == server = "dead" => 1 .. hdr.pages \ (disk.pages \cup 1 .. OldPages) # {}

(* Every transaction in the log file begins with its BEGIN record, and     *)
(* nothing follows its COMMIT or ABORT: analyze's asserts hold and its     *)
(* last record decides what becomes of a transaction.                      *)
LogWellFormed ==
  \A i \in 1 .. Len(log) :
    /\ log[i].type # "BEGIN" => \E j \in 1 .. i - 1 : log[j] = Mark("BEGIN", log[i].tid)
    /\ log[i].type \in {"COMMIT", "ABORT"} => \A j \in i + 1 .. Len(log) : log[j].tid # log[i].tid

(* A transaction whose COMMIT was answered is in the log for good.         *)
CommitIsLogged ==
  \A t \in Txn : st[t].at \in {"com_flushed", "com_released"} =>
    \E i \in 1 .. Len(log) : log[i] = Mark("COMMIT", t)

(* What recovery relies on in the log file and in the pages. *)
LogSound == TypeOK /\ LogWellFormed /\ CommitIsLogged

(* Recovery ends: a server that went down comes up, or gives up, unless it *)
(* crashes again.                                                          *)
RecoveryEnds == server = "down" ~> server \in {"up", "dead"}
=============================================================================
