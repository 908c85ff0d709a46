# RMDB in TLA+

TLA+ models of RMDB, the relational database under `src/rmdb`: its locks,
buffer pool, record files, B+ tree, catalog, statements, write-ahead log, crash
recovery, the way of a statement from its text to its answer, and the server
with its sessions and clients. TLC checks each model on a small instance; TLAPS
proves the lock manager, the gap locks, the buffer pool, the join, the answer
buffer, the log buffer, the catalog and the sessions of the server correct for
every value of their constants.
Paths below are relative to `src/rmdb/src/` unless they start with `src/`.

## 1. The system

A server process accepts connections and runs one thread per client
(`rmdb.cpp`). A thread reads a statement, parses and analyses it under a mutex,
plans it, and runs it without any mutex: what keeps sessions apart is the lock
manager, the latches of the lock manager, buffer pool, replacer and log manager,
and nothing else. A statement outside `BEGIN ... COMMIT` is a transaction of its
own, committed after its answer has been sent.

| Component | State | Operations | Talks to |
|---|---|---|---|
| Lock manager (`transaction/concurrency`) | queues of table, record and gap requests, a cached group mode per queue | `lock_on_table`, `lock_on_record`, gap range and point locks, `unlock` | transactions, executors |
| Transaction manager (`transaction`) | state, write set and lock set of each transaction | `begin`, `commit`, `abort`, undo of a write record, release of the locks | locks, log, table and index files |
| Buffer pool, LRU replacer (`storage`, `replacer`) | page table, frames, free list, LRU list | fetch, unpin, new, flush, delete, remove all pages of a file | disk manager |
| Disk manager (`storage`) | open files, next page numbers, the log descriptor | read and write of pages, files, log | file system |
| Record files (`record`) | file header, and per page a bitmap, a count and a free-list link | insert, insert at a rid, delete, update, scan | pool, locks |
| B+ tree (`index`) | header (root, last leaf), nodes, leaf list | insert, delete, lookup, bounds, scan | pool |
| Catalog (`system`) | `db_`, `fhs_`, `ihs_`, the metadata file | database, table and index DDL | record and index managers |
| Log (`recovery/log_manager`) | buffer, next lsn | append, flush | disk manager |
| Recovery (`recovery/log_recovery`) | the log read back, last lsn of each transaction | analyze, redo, undo, rebuild of the indexes | catalog, record files, indexes |
| DML executors and scans (`execution`) | position of a scan, rids to change | insert, delete, update, sequential and index scan | all of the above |
| Query executors (`execution`) | block and hash table of the join, buffered tuples | join, aggregate, sort, projection | scans |
| Scanner, parser (`parser`) | start condition, `parse_tree`, both global | text to parse tree | server |
| Analyzer, planner (`analyze`, `optimizer`) | none between statements | parse tree to query to plan | catalog |
| Portal, printer (`portal.h`, `record_printer.h`) | send buffer, offset, `ellipsis_` | executors from a plan, answer from records | executors |
| Server (`rmdb.cpp`) | two mutexes, a thread and a transaction per session | accept, read, execute, answer, commit | all of the above |
| Client (`src/rmdb/rmdb_client`) | one connection | send, receive | server |

What makes it hard to get right:

- **Interleaving.** Locks are no-wait, so there is no deadlock, but many steps
  of a statement happen outside the lock that should cover them: a slot is
  chosen before its lock, uniqueness is tested before the gap lock, a delete is
  logged before its lock.
- **Crashes.** Pages may reach the disk before the commit (steal), and commit
  writes them only after its record is in the log and its locks are released.
  The log is never truncated, so each start replays it from its first record,
  over files in any state in between, and may crash again.
- **Failures half-way.** A refused lock is an exception in the middle of a
  statement; a DDL statement is a sequence of changes of the directory.
- **Boundaries.** Full pages and free lists, splits and merges at the ends of a
  tree, encodings of keys with zero bytes in them, blocks of a join, the log
  buffer and the send buffer at their limits, literals at the limits of a type.
- **Global state of sequential code.** The scanner and the parser keep globals
  between the statements of different sessions.

What each component should guarantee, in one line each: an X lock excludes all
others and no lock outlives its transaction; a scan's range admits no new
writer; the pool returns the last value written; a record file loses no slot and
overwrites no record; the tree finds exactly its keys; the catalog, the handles
and the files agree; index and table agree; an abort restores the committed
rows; a restart shows exactly the committed rows; a query returns what its text
means; a session gets its own answers. `PROJECT.json` lists the main
hazards behind these line by line; sections 4 and 6 have the others.

## 2. Modules

| Module | Models | Granularity |
|---|---|---|
| `LockManager` | table and record locks, lock sets, commit and abort as far as locks go | a call under the latch is a step; the locks of an ending transaction are released one per step |
| `LockManagerProofs` | theorems about `LockManager` | |
| `GapLock` | gap locks of one index, through their encoded names | a call is a step, keys are byte sequences |
| `GapLockProofs` | theorems about `GapLock` | |
| `BufferPool` | pool, replacer and page files | a method under the latch is a step; callers write through their pointer in steps of their own |
| `PageStore` | what the pool promises: callers take pages in hand and write to those only, and a page keeps the last value written | abstract specification |
| `BufferPoolProofs`, `BufferPoolKeeps` | theorems about `BufferPool`; its refinement of `PageStore` in the second | |
| `RecordFile` | bitmaps, counts, free list, scan, undo | `insert_record` is two steps (choose, then lock and write), the rest one each |
| `Statements` | sessions running SELECT, INSERT, DELETE, UPDATE on a table with a unique index; composes `LockManager` (`INSTANCE`) with gap locks, table, index and undo | a step per lock request and per change of the table or of an index entry, also in undo |
| `Recovery` | log, statements as far as they log, commit, abort, evictions, crashes, analyze, redo, undo | a step wherever a thread or a crash can come in between |
| `BPlusTree` | the tree, one operation at a time | a level of the tree is a step |
| `Catalog` | DDL and the directory, start and stop | a change of the directory is a step |
| `CatalogProofs` | theorems about `Catalog` | |
| `Lexer` | the generated scanner on its tables, with the global start condition | a match is a step |
| `Ast`, `Parser` | parse trees; the generated LALR parser on its tables, stacks of states and of values, semantic actions | a shift or a reduction is a step |
| `Literals`, `Analyze` | ranges and conversion of literals, datetimes; `do_analyze` | functions |
| `Planner` | `plan_query`: placing of conditions, choice of index, join order | functions |
| `NestedLoopJoin` | the block nested-loop join and its hash variant | an iteration of the loop is a step |
| `Executors` | scans, index bounds, sort, aggregate, projection | functions from contents to the rows delivered |
| `RecordPrinter` | the answer in the send buffer | a piece (a column, the end of a line) is a step |
| `AnswerProofs` | theorems about `NestedLoopJoin` and `RecordPrinter` | |
| `Grammar`, `SqlMeaning` | references: the spellings of a parse tree, and what it means on the tables | not the code's algorithm |
| `QueryPipeline` | composes the modules from `Lexer` on: one session's statements from text to answer | the steps of the parts |
| `Wal` | what a log promises: an append-only sequence, a prefix of it durable | abstract specification |
| `LogManager` | the shared log buffer, with the flush outside the latch | a critical section is a step |
| `LogManagerProofs` | theorems about `LogManager`, with the refinement of `Wal` | |
| `Server` | accept loop, handler threads, transactions of sessions, clients; extends `LogManager` | a step wherever another thread can come in between |
| `ServerProofs` | theorems about `Server` | |

Each `MC` module gives the constants their values. The definitions carry the
names of the source wherever TLA+ allows it; `map` in `PROJECT.json` gives the
lines each one stands for. `X_Something` next to a definition `X` is a mutated
form of it, never used by the specification.

Correspondence of state, where it is not by name:

- `LockManager`: `tabMode[tab][t]` and `recMode[r][t]` are the mode of `t`'s
  granted request in the queue ("NONE" without one); requests are granted or
  refused at once, so a queue is a function. `group` is `group_lock_mode_` of
  the table's queue. That of a record's queue is never read and is left out.
  What `update_group_lock_mode` computes depends on the order of the queue, so
  `GroupModes` is the set of its possible results.
- `GapLock`: an index of one integer column. `Width` and `Base` shrink the four
  bytes of base 256.
- `BufferPool`: a `Handle` is a pinned page pointer; `held[h].wrote` is whether
  its user has changed the page since, which is what it will pass as `is_dirty`.
  `InHand` is the page each handle points into.
- `RecordFile`: `owner` is the X record lock; readers play no part.
- `Statements`: a row is its key. `truth` and `seen` are history.
- `Recovery`: an lsn is a position in `log \o buf`. `hdr` is the file header
  (how many pages it counts, the head of the free list), which is written through
  at once; `phdr` has the count and the free-list link of each page, which are lost
  with the page. `pages` are the pages that exist, in the pool or the file. Slot
  `PerPage` of a page is the one beyond its last. `truth` is history: the row as
  of the last COMMIT record in the log file.
- `BPlusTree`: `task` is what `insert_entry` or `delete_entry` does next.
  Released nodes are forgotten.
- `NestedLoopJoin`: the children are the sequences of rows they deliver, `lpos`
  and `rpos` their positions; `left_peeks` and `right_peeks` say whether they
  implement `peekTuple`. `joined` holds positions, so that equal rows are told
  apart. A cell has the value that is compared and the bytes that are hashed.
- `Parser`: a `SemValue` is a function from the fields that were set. The value
  stack keeps what was popped, since an empty rule reads it.
- `Lexer`, `Parser`: the tables are those of the generated code. The reference
  for `Lexer` is written from the patterns of `lex.l` and that for `Parser`
  (`Grammar`) from the tree to the text.
- `Analyze`, `Executors`: a value is its place in the order of its type; floats
  are counted in halves. `INT_MAX` and `INT64_MAX` are scaled down.
- `QueryPipeline`: `turn` is the statement's place in the session, `script` the
  lines still to be printed. Tables stand still: of a statement that changes
  rows the pipeline fixes which rows and values, `Statements` how.
- `LogManager`: records have a length, and `buffer` is what the bytes below
  `offset_` hold. After a copy past the end of the array (`overrun`) nothing
  more is said.
- `Server`: a request is what decides its path through `client_handler`.
  `todo` is what is left of a statement, commit or abort as far as the log and
  the state of the transaction go. A failed lock, key or value is `Fail`.
- `Catalog`: `files` is the directory, `meta` the metadata file (`{}` while
  truncated), `ddl` the running statement. `done`, `torn`, `stray` and
  `mishaps` are history.

## 3. Runs

A type invariant is a conjunct of `LockInv`, `PointExclusive`, `PoolSound`,
`FileSound`, `IndexAgrees`, `LogSound`, `TreeSound` and `CatalogSound`, and of the
proved invariants of the join, the printer, the log buffer and the sessions
(`JoinInv`, `PrintInv`, `LogInv`, `ServerInv`). Deadlock is checked except where sessions
have a bounded number of statements and may simply be finished (`pool`,
`record_file`, `statements`, the recovery runs, `queries`, `server`).

| Run | Instance | Question and result |
|---|---|---|
| `locks` | 3 transactions, 1 table, 1 record | Through upgrades, downgrades and one-by-one release: X excludes (`LocksCompatible`), no lock outlives its transaction (`NothingHeldAfterEnd`), no writer enters a table somebody scans (`NoNewWriterUnderScan`), the inductive invariant `LockInv` holds, and an ending transaction gives all locks back (`LocksReturned`). |
| `gap_locks` | 3 transactions, keys 2, 5, 7 of two base-4 bytes | Two writers never share a point (`PointExclusive`), a range is never granted over a locked point (`RangeSeesWriters`), and a range whose lower bound has no zero byte fences writers out (`FenceWhenSplitsWell`). |
| `gap_phantom` | the same | **Violation** of `NoPhantom`, see section 7. |
| `pool` | 2 frames, 2 handles, a table and an index file of up to 2 pages, every file length a crash can leave | Page table, pins, lists, frames and handles agree and a clean page is on disk (`PoolSound`), only a failed read loses a frame (`LostOnlyByFailedRead`), and the pool implements `PageStore`: a page changes only by the write of a caller that has it pinned, whatever is evicted, flushed or deleted meanwhile (`KeepsPages`). |
| `record_file` | 3 transactions of 2 writes, 2 pages of 2 slots, a scan | The free list is exactly the pages with room, an insert never overwrites, counts are exact (`FileSound`); undo finds its slot free and restores the records (`AbortSound`); the scan misses nothing that was there all along (`ScanComplete`). |
| `statements` | 2 transactions of 2 statements, 2 slots, 2 keys, every initial table | Index and table agree on every row and key that no statement or undo is just changing (`IndexAgrees`), a row without X lock is the committed one (`AbortRestores`), and what a transaction has read stays true until it ends (`ReadsStayTrue`). |
| `recovery_overlap` | 2 explicit transactions and a single statement at once, one page of one slot, 2 crashes | Whenever the server is up, rows nobody has locked are the committed rows (`RowsAreCommitted`); the log is what recovery takes it for (`LogSound`). |
| `recovery_sequential` | 3 single statements, two pages of two slots, one of them not yet in the file, 2 crashes | `RowsAreCommitted` again; only a page that the header counts and the file lacks keeps the server from starting (`CanRestart`); recovery ends (`RecoveryEnds`). |
| `btree` | order 6, a tree of three levels loaded in ascending or descending order, then any inserts and deletes of 7 keys | Parent links, fill and depth (`TreeSound`), lookups and scans over all ranges (`AccessExact`) after every split, borrow and merge. |
| `catalog` | tables `t` and `t_a`, indexes on (b) and (a, b), one kind of mishap | Handles, files and flags agree with the catalog and failed statements leave no file (`CatalogSound`); exactly which crashes keep the server from starting (`CanStart`); complete statements survive restarts (`CompleteSurvives`). |
| `queries` | 3 tables (two indexes, equal rows, wide types), two contents, some hundred statements as tokens with slips, 25 texts and 3 that may follow | The scanner returns what its patterns define (`LexExact`), the parser accepts exactly the grammar and builds the right tree (`ParseExact`), each condition is placed once where its columns are (`ConditionsPlaced`), the join returns each matching pair once (`JoinExact`), the answer is what the statement means (`AnswerExact`), it fits its buffer (`AnswerFits`), and all loops end (`QueryEnds`). |
| `server` | 2 clients with 6 scripts between them, a log buffer of two units, one failure from outside | A thread that adds behind its flush needs bounded room (`LogBufferBound`); each transaction's records form one chain and are on disk when answered (`TxnLogSound`); nobody gets another's statement or answer (`OwnAnswer`); no open transaction or mutex is left behind (`TransactionsEnd`); the shared buffer is a write-ahead log (`ImplementsWal`); whoever waits for an answer gets one or is disconnected (`SessionsProgress`). |

**Why the bounds suffice.** Lock conflicts are between two transactions; the
third is the one that comes while a group mode is recomputed. A pool of two
frames makes every fetch of a third page an eviction and two handles can share
a page or fill the pool. Two pages of two slots give a full page, a page with
room, an empty one, and a free list of length two. Two statements per
transaction give read-then-write and write-then-fail. Two crashes give a crash
of recovery, and a recovery over the results of an earlier one; a page of two
slots that starts empty gives an insert behind another one, a page that leaves the
free list, comes back to it, and an insert that needs a new page (four
transactions instead of three, 14 minutes, gave the same result). The tree starts
with 22 keys, which at order 6 gives three levels, and the free keys lie at the
left end, in the middle and at the right, so that leaves and inner nodes split,
borrow from either side and merge; a run with nine keys (546,000 states, 12 minutes) gave
the same result. Tables `t` and `t_a` have colliding index names.

In `queries` the join buffer of 24 bytes holds two or three tuples, so that
three rows make a full and a partial block; the send buffer of 300 bytes is cut
by some answers at a column, by others at the end of a line, and holds others
whole; literals lie on both sides of every limit; slips drop, double or replace
one token at each place of seven statements. In `server` a row's record takes
two units and the others one, so that one more record than fits is always near;
the scripts contain an explicit transaction that commits or fails, a single
statement, a read, a syntax error, `exit` and `crash`. One failure from outside
(`Fault`) may happen anywhere.

`MaxStmts`, `MaxWrites`, `MaxPages`, `MaxOpens`, `MaxLocks`, `MaxCrashes`,
`MaxMishaps`, `MaxFaults` and `Session` are the bounds; each is a guard of the
action it limits.

**Symmetry** is used in `gap_locks`, `pool`, `record_file`, `statements` and
`recovery_overlap`, over model values that only their names tell apart (in
`statements` both the transactions and the keys), and never with a liveness
property.

**Fairness.** `LockManager`: weak fairness of releasing a lock and of finishing,
for a transaction that has entered `commit` or `abort`; nothing on that path
waits for another transaction. `Recovery`: weak fairness of recovery steps;
`main` runs recovery to its end before it accepts a client. `QueryPipeline`:
weak fairness of the three loops, which one thread runs without waiting.
`Server`: weak fairness of the accept loop, of each handler, and of a client
reading what has arrived. A handler waits only for `buffer_mutex`; weak fairness
gives it the mutex only once the others leave it free, which they do since
their scripts end. Nothing assumes that clients send anything, or that a failure
does or does not happen.

## 4. Situations left out of passing runs

Where the code has an interleaving it does not provide for, one such case makes
every property about the same state fail, and would hide all else. `RecordFile`,
`Statements`, `Recovery` and `QueryPipeline` therefore name these cases, and the constant
`Explore` says which of them may happen; `BufferPool` has `ConcurrentDDL` and
`MaxOpens`. The passing runs say nothing about these cases: they show that the
properties hold in every behaviour without them. The last column is a property that
TLC finds violated when the case is added to the passing run's instance.
`Catalog` and `Server` go the other way: their crashes and failures all happen,
and their properties say what each costs.

| Module, situation | What happens in the code | Fails when explored |
|---|---|---|
| `RecordFile`, overlap | `record/rm_file_handle.cpp:62`: the slot is chosen before it is locked, and two inserts choose the same one | `FileSound` |
| `RecordFile`, refill | `record/rm_file_handle.cpp:87`: undoing a delete fills a page that stays at the head of the free list; the next insert takes a slot past the last one | `FileSound` |
| `Statements`, hidden_delete | section 7 | `ReadsStayTrue` |
| `Statements`, vanished | `record/rm_scan.cpp:51`: a row goes away between the look at the bitmap and the lock | `ReadsStayTrue` |
| `Statements`, reread | `lock_manager.cpp:300`: a transaction that reads what it wrote turns its X lock into S | `AbortRestores` |
| `Statements`, refused_update | `execution/executor_update.h:131`: the lock is refused after the index was changed | `IndexAgrees` |
| `Statements`, late_check | `execution/executor_insert.h:68`: a key appears between check and gap lock | `IndexAgrees` |
| `Statements`, `Auto` # {} | single statements take no read locks (`src/generate_report.py:70` says so) | all three |
| `Recovery`, unlogged_page | `execution/executor_insert.h:80`, `executor_delete.h:69`, `executor_update.h:131`: a page is written between a change of a row and the flush of the change's log record (an insert is not even logged yet; the record of a delete or an update is in the buffer), and after a crash nothing undoes it | `RowsAreCommitted` |
| `Recovery`, full_head | `record/rm_file_handle.cpp:87`: undo or redo fills a page that a delete has put at the head of the free list; the next insert takes a slot past the last one, which no scan shows | `RowsAreCommitted` |
| `Recovery`, refused_delete | `execution/executor_delete.h:64`: a delete is logged and then refused its lock | `RowsAreCommitted` |
| `Recovery`, unlocked_read | `execution/executor_delete.h:60`: a single statement reads a row that another transaction has changed, and logs it | `RowsAreCommitted` |
| `Recovery`, old_loser | section 7 | `RowsAreCommitted` |
| `BufferPool`, table descriptor reused | `record/rm_manager.h:77`: `close_file` leaves the file's frames mapped | `PoolSound` |
| `BufferPool`, `ConcurrentDDL` | `storage/buffer_pool_manager.cpp:252`: `remove_all_pages` ignores pins | `PoolSound` |
| `QueryPipeline`, open_comment | `parser/lex.yy.cpp:946`: the scanner's start condition outlives its buffer, so that a comment left open swallows the next statements | `LexExact` |
| `QueryPipeline`, unpeekable | `execution/executor_abstract.h:45`: an index scan under a join cannot be peeked at; the join is empty or never ends | `AnswerExact`, `QueryEnds` |
| `QueryPipeline`, reversed_range | `execution/executor_index_scan.h:152`: contradicting conditions put the lower end behind the upper one | `AnswerExact` |
| `QueryPipeline`, limit_only | `optimizer/planner.cpp:383`: LIMIT without ORDER BY is ignored, also LIMIT 0 of an aggregate, which has one row | `AnswerExact` |
| `QueryPipeline`, ordered_aggregate | the same line: below an aggregate, LIMIT cuts the input | `AnswerExact` |
| `QueryPipeline`, mixed_aggregate | `execution/executor_aggregate.h`: a column beside an aggregate shows zero | `AnswerExact` |
| `QueryPipeline`, wide_sum | `execution/executor_aggregate.h:136`: the sum of an INT column is narrowed | `AnswerExact` |

In `recovery_sequential`, "overlap" is left out as well: it is the subject of
the other run. Two plans are made but never executed by `QueryPipeline`: one with
a condition between two columns of a table that is not the first of FROM, which
`pop_conds` (`optimizer/planner.cpp:84`) gives to the first table's scan, where
the column does not exist; and the join of a join, which cannot be peeked at.
`ConditionsPlaced` excludes the first and covers the second.

More limits of the code that the models state as assumptions or exceptions:

- `BPlusTree` assumes `Order >= 6`, which is what `IxManager::create_index`
  computes for the longest admissible key. Its assertion admits 3, and with
  order 3 TLC finds a lost leaf (`TreeSound` fails): `insert_entry` does not
  update the parent's key when it splits a leaf, and a later step goes by that
  stale key. With orders 4 and 5 the keys of this run show no error.
- `JoinExact` is about cells that are equal exactly if their bytes are; the hash
  join compares bytes, and 0.0 and -0.0 differ there (`Joinable`).
- `LogBufferBound` does not say that the log buffer is never overrun, which two
  threads can do (`recovery/log_manager.cpp:16`), but how much room would be enough.
- `SessionsProgress` excepts a failed `accept`, after which the loop waits for
  its own mutex (`rmdb.cpp:248`), and the end of the process, also by SIGPIPE.
- `OwnAnswer` excepts a client whose answer came in two pieces
  (`src/rmdb/rmdb_client/main.cpp:137`).
- `TransactionsEnd` excepts a client that leaves inside BEGIN, and an answer
  that could not be written (`rmdb.cpp:184`): nobody ends these transactions.
- `AccessExact` is about ranges that are not empty by their bounds alone. With a
  lower bound above the upper one, `IxScan` starts behind its end and runs off
  the last leaf.

## 5. Proofs

| Module | Theorem | States |
|---|---|---|
| `LockManagerProofs` | `LockInvariance` | `Spec => []LockInv` |
| | `RecordExclusion`, `TableExclusion` | `Spec => []RecordCompatible`, `Spec => []TableCompatible` |
| | `LockExclusion` | `Spec => []LocksCompatible` |
| | `NoLockLeak` | `Spec => []NothingHeldAfterEnd` |
| | `ScanFence` | `Spec => NoNewWriterUnderScan` |
| `GapLockProofs` | `PointsAreExclusive` | `Spec => []PointExclusive` |
| | `RangesFence` | `Spec => []FenceWhenSplitsWell` |
| | `RangesSeeWriters` | `Spec => RangeSeesWriters` |
| `BufferPoolProofs` | `PoolIsSound` | if `Undisturbed`, `Spec => []PoolSound` |
| `BufferPoolKeeps` | `LosesOnlyByFailedRead` | if `Undisturbed`, `Spec => LostOnlyByFailedRead` |
| | `PoolKeepsPages` | if `Undisturbed`, `Spec => KeepsPages` |
| `AnswerProofs` | `JoinInvariance` | `JoinSpec => []JoinInv` |
| | `JoinExactness` | `JoinSpec => []JoinExact` |
| | `PrintInvariance` | `PrintSpec => []PrintInv` |
| | `PrinterFits` | `PrintSpec => []AnswerFits` |
| `LogManagerProofs` | `LogInvariance` | `LogSpec => []LogInv` |
| | `LogRoom` | `LogSpec => []LogBufferBound` |
| | `LogRefinesWal` | `LogSpec => ImplementsWal` |
| `ServerProofs` | `SessionsGetTheirAnswers` | `Spec => []OwnAnswer` |
| | `SessionsEndTransactions` | `Spec => []TransactionsEnd` |
| `CatalogProofs` | `CatalogIsSound` | `Spec => []CatalogSound` |
| | `CatalogCanStart` | `Spec => []CanStart` |
| | `StatementsSurvive` | `Spec => []CompleteSurvives` |

**Locks**, for all sets `Txn`, `Table` and `Slot`. Assumption: callers request no
table mode but IS, S and X (`TableModesAssumption`); IX and SIX have no caller.
`RecordCompatible` is inductive by itself, since a record request is compared
with the queue. `TableCompatible` is not: a table request is compared with the
cached group mode only, so the proof needs `GroupFresh`, that the group mode is
one the queue can produce, and the lemma `GroupModeMeaning`, that such a mode is
X exactly if somebody holds X and NONE exactly if nobody holds anything.
`OnlyRequestedModes` is what makes the lemma true. `NothingHeldAfterEnd` rests
on `LockSetExact`, that lock sets and queues agree, and on `ReleasedOnlyAtEnd`.
`LockInv` is the conjunction of these with `TypeOK`; one lemma per action shows
that it is preserved. `ScanFence` follows from `LockInv` and one step.

**Gap locks**, for all sets of transactions and for keys of any width in any base.
A lock is known by its encoded name only, so the proof first shows what the
encoding keeps: reading the bytes of a key gives the key (`Encoding`), and the
name of a range reads back as the range asked for, unless its lower bound has a
zero byte (`ReadsBack`). `GapInv` says that every name held is one of a point or a
range, and that two transactions' names are `Apart`: not the same point, and no
point inside a range that splits well. A grant compares the name with those of
all others, which is what the three properties need; a release only removes names.

**Buffer pool**, for all files, pages, frames and callers. Assumption
(`Undisturbed`, the case the passing run checks; section 4 has the other): a file
is closed only when no caller has a page of it, and the descriptor of a table
file is not used again. `PoolSound` is inductive as it stands. Two of its
conjuncts are there for that: `TableWithinFiles`, that a page with a frame lies
within its file and that no page of an index file outlives `close_index`, so that
`new_page` and a reopened file find no old frame; and `HandlesLocated`, that a
caller's frame is still that of its page. There is one lemma per method. Lost
frames follow from one step each. For `PoolKeepsPages` the abstract page is the
frame's content while the page has a frame, and the disk's otherwise
(`Contents`): eviction keeps it because a clean page is on disk
(`CleanIsOnDisk`) and a dirty one is written first. `PageStore` also knows which
page each caller has in hand (`InHand`), and its `Write` changes that page and no
other; that a write through a caller's pointer is such a step is where
`HandlesLocated` is needed. `KeepsPages` says two things: the pool's steps are
steps of `PageStore`, and those that are no caller's write are steps of its `Serve`
(`Fetch`, `Release`, `Append`, `Recreate`, `Fill`), which leave every page that is
there alone: a fetch hands out a page and unpin takes it back, a flush, an
eviction and a delete stutter or fill gaps of the file with zeroes, and `new_page`
and the reopening of a descriptor add or replace pages nobody has in hand.

**Join**, for tables, conditions and buffers of any size. `JoinExact` is about
`Joinable` inputs: both children can be peeked at, which rules out index scans and
joins as children, and where the hash table is used equal cells have equal bytes. It speaks of the
end only, so `JoinProgress` says of every state which pairs have been visited:
in the nested loop all of the blocks before, of the tuples before in this block,
and of the right tuples before; in the hash join all of the blocks before, all
with the right tuples before, and the matches of the current one already
returned. The pairs returned are the matching ones among them, each once.
`JoinControl` says where the loops can be between steps. Lemma `KeysDecide` is
that equal keys mean the conditions hold. For inputs that are not `Joinable` only
types and control are proved.

**Answer buffer**, for all lengths, columns and lines. `PrintInv` says that room
for the count line is kept, that what is in the buffer is a prefix of what was
to be printed, and, since the end of a record that does not fit is dropped
without setting `ellipsis_`, that such a silent cut lets nothing else in until a
separator sets it (`SilentlyCut`).

**Log buffer**, for all threads, record lengths and buffer sizes. Assumption
(`LogAssumption`): a record fits an empty buffer. `LogInv` counts the threads
behind their flush: each may still add a record without a test, so the offset
and their records together stay below the bound. A thread that tested first
leaves the offset below `LOG_BUFFER_SIZE`, and a flush brings it to zero. For
`LogRefinesWal` the abstract log is `log_file \o buffer` and its durable part
`log_file`: an add is `AddRecord`, a flush is `Force` (or, of an empty buffer, a
stutter), the rest stutters.

**Sessions**, for any number of clients, any sessions and any number of faults.
`ServerInv` has a part for each thing that sessions share. `Connections`: from
`accept` until the new thread has copied it, `sockfd` belongs to that thread
alone, since the loop does not accept again before `sockfd_mutex` is released.
`Trees`: while the process lives, a thread between `yyparse` and the end of its
analysis holds `buffer_mutex`, and `ast::parse_tree` is that of its request; an
error keeps the mutex until the answer. `Asks`: a client with no answer in pieces
has at most one request under way, in one of its connection's two directions or
with its handler. `Ends`: behind an error only the rest of the abort is left to
do, behind an answer only the rest of the commit, so that a session that reads
again has no open transaction but one its client began.

**Catalog**, for any tables and column lists, and any number of statements,
restarts, crashes and mishaps; nothing is assumed. The properties speak of the
moments between statements, so `CatalogInv` says of every step where the
statement is and what it has still to do (`Statement`), and by how much memory,
directory and metadata file differ there: one file of the catalog may be closed
and gone (`Closed`), one file may be there and not yet in the catalog (`New`), the
metadata file may be empty or a statement behind (`SavedUp`). `Handles` and
`StraysUp` are about a server that is up; `StraysDown`, `SavedDown` and `KeptDown`
say what a start will find, and a crash leads from the one to the other. `Cat`, a
catalog in which no two indexes share a file and the flags are exact, holds in
every state, also inside a statement: a new index's file did not exist, while
every file of the catalog does. One lemma per action.

These modules are used unchanged by the composed models: `QueryPipeline` takes
the steps of the join and of the printer, and `Server` those of the log.

Induction over data is done through the least counterexample: the numbers for
which a statement about a recursive function fails have a least element
(`LeastNat`), and its predecessor gives the contradiction. That is how the key
encoding and the replacer's list are treated.

Only model-checked: everything else. Liveness (`LocksReturned`, `RecoveryEnds`,
`QueryEnds`, `SessionsProgress`) is out of the prover's reach, and so is what
`RECURSIVE` operators compute (the references of `Lexer`, `Parser` and
`Grammar`). `TxnLogSound`, `RecordFile`, `Statements`, `Recovery` and
`BPlusTree` are within reach but have no proof yet.

## 6. Not modelled

- **Several rows or indexes per statement under concurrency**: `Statements`
  changes at most one row; `QueryPipeline` has any number, without concurrency.
- **Two threads in the tree**, and **DDL beside other statements**: nothing
  latches the tree or the catalog, and a race there is undefined behaviour.
- **Torn log tail** (`recovery/log_recovery.cpp:36`) and **short log writes**
  (`recovery/log_manager.cpp:34`): a log write is whole.
- **Pins leaked by callers**, such as an insert whose lock is refused, or a
  step of an index scan.
- **A signal inside a critical section** of the log latch (`rmdb.cpp:53`).
- **Columns of strings of different lengths** in one comparison, and a table
  twice in FROM.
- **Durability of an answer**: a single statement is answered before its commit
  (`rmdb.cpp:184`); `Server` has this order, and `TxnLogSound` says that the row's
  record, but not the COMMIT, is on disk by then.
- **SHOW INDEX output**, which is copied into the send buffer without a test of
  its length (`system/sm_manager.cpp:211`), `output.txt`, the digits and padding of printed values.
- **`drop_db`, `erase_leaf`** and the table modes IX and SIX, which have no caller;
  `parser/yacc.tab.c` and `parser/lex.yy.c`, which are not compiled.
- **lseek and write** on a shared descriptor are one step.

## 7. Where the code and its documentation disagree

- **Phantoms** (run `gap_phantom`). `src/generate_report.py:63` says that a write
  into the range of another transaction's index scan must abort at once.
  `decode_gap_range` (`lock_manager.cpp:69`) splits the encoded range at the
  first zero byte, which for a small integer bound is one of its own bytes, and
  the writer's key is compared with damaged bounds.
- **Committed rows lost** (`Recovery` with `Explore = {"old_loser"}`).
  `src/generate_report.py:89` promises that committed transactions survive a
  crash. Recovery rolls an unfinished transaction back without an ABORT record,
  so that every later start undoes it again, after redo, over a row that was
  committed into the same slot.
- **Reading an uncommitted delete** (`Statements` with
  `Explore = {"hidden_delete"}`). `src/generate_report.py:62` claims strict
  two-phase locking and `txn_defs.h:23` serializability. Writers take no table
  lock, so a sequential scan gets its S lock beside an uncommitted DELETE and
  passes the row.

## 8. Further work

1. **Abstract specifications.** A table as a function from rids to rows, which
   `Statements` implements when nothing of section 4 happens; a durable map for
   `Recovery`; an ordered map for `BPlusTree`.
2. **Proofs.** `Server`: `TxnLogSound`. `Statements`: `ReadsStayTrue`.
   `Recovery`: `LogSound`. `RecordFile`: `FileSound`.
3. **Models.** Lookups beside a split of the tree; torn log writes; statements
   over several rows beside each other.
