-------------------------------- MODULE Catalog --------------------------------
(***************************************************************************)
(* The system catalog (src/system/sm_manager.cpp): the tables and indexes  *)
(* the server knows, the files it has open, and what a crash finds in the  *)
(* directory of the database.                                              *)
(*                                                                         *)
(* A DDL statement goes through steps that end where the directory         *)
(* changes: a file is created, gets its header, is unlinked, and the       *)
(* metadata file is truncated (by opening it) and written (by closing it). *)
(* The process may crash between any two of them.  Statements run one at a *)
(* time: SmManager has no latch, and statements of two sessions at once    *)
(* would race on its maps.  A statement refused before its first change is *)
(* a stuttering step.                                                      *)
(***************************************************************************)
EXTENDS Naturals, Sequences, Functions, FiniteSets

CONSTANTS
  Table,    \* table names, each the sequence of words it is made of
  Ix,         \* column lists that may be indexed
  MaxMishaps  \* bound: kinds of mishaps in one behaviour

ASSUME CatalogAssumption == (\A c \in Ix : c # <<>>) /\ MaxMishaps \in Nat

(* What the code does not provide for; the properties say what each costs. *)
CrashMishaps == {"crash_in_create_db", "crash_in_drop", "crash_in_flush", "crash_in_analyze"}
Mishap == CrashMishaps \cup {"long_key"}

VARIABLES
  dir,      \* the directory of the database exists
  files,    \* [existing file -> "empty" or "formatted"]
  dml,      \* tables with a change in the log
  meta,     \* the metadata file: {} when truncated, else {the catalog it holds}
  server,   \* "down", "up", or "failed" to start
  db,       \* db_: [table -> its indexes, and the columns flagged as indexed]
  fhs,      \* fhs_
  ihs,      \* ihs_
  path2fd,  \* files the DiskManager has open
  ddl,      \* the running statement
  done,     \* history: the catalog after the last complete statement
  torn,     \* history: tables whose statement a crash has cut since then
  stray,    \* history: files a crash has left without an owner
  mishaps   \* history: the mishaps there have been

disk == <<dir, files, meta, dml>>
memory == <<server, db, fhs, ihs, path2fd>>
history == <<done, torn, stray, mishaps>>
vars == <<disk, memory, ddl, history>>

Never(s) == mishaps \cap s = {}
Mishaps(s) == mishaps' = mishaps \cup s /\ Cardinality(mishaps') <= MaxMishaps

-----------------------------------------------------------------------------
(* Names and the catalog. *)

TableFile(t) == [kind |-> "table", name |-> t]
get_index_name(t, cols) == [kind |-> "idx", name |-> t \o cols]
LOG_FILE == [kind |-> "log", name |-> <<>>]
File == {TableFile(t) : t \in Table} \cup {get_index_name(t, c) : t \in Table, c \in Ix} \cup {LOG_FILE}

NoMeta == [t \in {} |-> {}]     \* a database without tables
NewTab == [indexes |-> {}, flagged |-> {}]

IndexFiles(d) == UNION {{get_index_name(t, c) : c \in d[t].indexes} : t \in DOMAIN d}
Owned(d) == {TableFile(t) : t \in DOMAIN d} \cup IndexFiles(d) \cup {LOG_FILE}

Without(f, x) == [y \in DOMAIN f \ {x} |-> f[y]]
With(f, x, v) == [y \in DOMAIN f \cup {x} |-> IF y = x THEN v ELSE f[y]]

NoDDL == [op |-> "none", tab |-> <<>>, cols |-> <<>>, pc |-> "none", todo |-> {}]
Idle == ddl = NoDDL
At(pc) == ddl.pc = pc
Goto(pc) == ddl' = [ddl EXCEPT !.pc = pc]

(* DiskManager::create_file refuses a file that exists. *)
create_file(f) == f \notin DOMAIN files /\ files' = With(files, f, "empty")

Format_Skipped(f) == UNCHANGED files

(* The header that the RmManager or IxManager writes into a new file. *)
Format(f) == files' = With(files, f, "formatted")

(* DiskManager::destroy_file refuses a file that is open or missing. *)
destroy_file(f) == f \in DOMAIN files /\ files' = Without(files, f)

-----------------------------------------------------------------------------
(* The database is created, opened and closed. *)

create_db ==
  /\ server = "down" /\ ~dir /\ Idle
  /\ dir' = TRUE
  /\ ddl' = [NoDDL EXCEPT !.op = "create_db", !.pc = "create_log"]
  /\ UNCHANGED <<files, meta, dml, memory, history>>

(* The stream of the metadata file is closed when create_db returns, after *)
(* the log file has been created.                                          *)
CreateLog ==
  /\ At("create_log")
  /\ create_file(LOG_FILE)
  /\ Goto("write")
  /\ UNCHANGED <<dir, meta, dml, memory, history>>

Opens(f) == f \in DOMAIN files /\ (f # LOG_FILE => files[f] = "formatted")

(* Every file of the catalog that was read is opened; one that is missing  *)
(* or has no header ends the start, and so does, at the end of analyze, a  *)
(* table that the log names and the catalog does not.                      *)
open_db(d) ==
  /\ server' = IF (\A f \in Owned(d) : Opens(f)) /\ dml \subseteq DOMAIN d THEN "up" ELSE "failed"
  /\ db' = d
  /\ fhs' = DOMAIN d
  /\ ihs' = IndexFiles(d)
  /\ path2fd' = Owned(d)

(* RecoveryManager::analyze recreates the indexes of the tables the log    *)
(* names.                                                                  *)
analyze(d) ==
  LET todo == UNION {{t} \X d[t].indexes : t \in dml \cap DOMAIN d} IN
  ddl' = IF server' = "up" /\ todo # {}
         THEN [NoDDL EXCEPT !.op = "analyze", !.pc = "recreate", !.todo = todo] ELSE NoDDL

(* From a truncated file operator>> reads no name and leaves the number of *)
(* tables uninitialised: none, or more than there are.                     *)
Start ==
  /\ server # "up" /\ dir /\ Idle
  /\ \/ \E d \in meta : open_db(d) /\ analyze(d)
     \/ meta = {} /\ open_db(NoMeta) /\ analyze(NoMeta)
     \/ meta = {} /\ server' = "failed" /\ UNCHANGED <<db, fhs, ihs, path2fd, ddl>>
  /\ UNCHANGED <<disk, history>>

(* flush_meta, of every statement and of close_db: opening the stream      *)
(* truncates the file, closing it writes the catalog.                      *)
Truncate ==
  /\ At("truncate")
  /\ meta' = {}
  /\ Goto("write")
  /\ UNCHANGED <<dir, files, dml, memory, history>>

Complete ==
  /\ ddl' = NoDDL
  /\ done' = db /\ torn' = {}
  /\ UNCHANGED <<stray, mishaps>>

Write ==
  /\ At("write")
  /\ meta' = {db}
  /\ CASE ddl.op = "close_db" -> Goto("close") /\ UNCHANGED history
       [] ddl.todo # {} -> Goto("drop_next") /\ UNCHANGED history
       [] ddl.op = "drop_table" /\ ddl.tab \in DOMAIN db -> Goto("drop_next") /\ UNCHANGED history
       [] OTHER -> Complete
  /\ UNCHANGED <<dir, files, dml, memory>>

close_db ==
  /\ server = "up" /\ Idle
  /\ ddl' = [NoDDL EXCEPT !.op = "close_db", !.pc = "truncate"]
  /\ UNCHANGED <<disk, memory, history>>

Exit ==
  /\ server' = "down"
  /\ db' = NoMeta /\ fhs' = {} /\ ihs' = {} /\ path2fd' = {}
  /\ ddl' = NoDDL

CloseFiles ==
  /\ At("close")
  /\ Exit
  /\ UNCHANGED <<disk, history>>

-----------------------------------------------------------------------------
(* Tables. *)

create_table(t) ==
  /\ server = "up" /\ Idle
  /\ t \notin DOMAIN db
  /\ create_file(TableFile(t))
  /\ ddl' = [NoDDL EXCEPT !.op = "create_table", !.tab = t, !.pc = "format"]
  /\ UNCHANGED <<dir, meta, dml, memory, history>>

CreateTableFormat ==
  /\ ddl.op = "create_table" /\ At("format")
  /\ Format(TableFile(ddl.tab))
  /\ Goto("register")
  /\ UNCHANGED <<dir, meta, dml, memory, history>>

AfterRegister_NotFlushed == ddl' = NoDDL

AfterRegister == Goto("truncate")

CreateTableRegister ==
  /\ ddl.op = "create_table" /\ At("register")
  /\ db' = With(db, ddl.tab, NewTab)
  /\ fhs' = fhs \cup {ddl.tab}
  /\ path2fd' = path2fd \cup {TableFile(ddl.tab)}
  /\ AfterRegister
  /\ UNCHANGED <<disk, server, ihs, history>>

drop_table(t) ==
  /\ server = "up" /\ Idle
  /\ t \in DOMAIN db
  /\ ddl' = [NoDDL EXCEPT !.op = "drop_table", !.tab = t, !.todo = {t} \X db[t].indexes, !.pc = "drop_next"]
  /\ UNCHANGED <<disk, memory, history>>

(* With no index left the record file is closed and unlinked. *)
DropTableFile ==
  /\ At("drop_next") /\ ddl.todo = {}
  /\ fhs' = fhs \ {ddl.tab}
  /\ path2fd' = path2fd \ {TableFile(ddl.tab)}
  /\ destroy_file(TableFile(ddl.tab))
  /\ Goto("erase_table")
  /\ UNCHANGED <<dir, meta, dml, server, db, ihs, history>>

DropTableErase ==
  /\ At("erase_table")
  /\ db' = Without(db, ddl.tab)
  /\ Goto("truncate")
  /\ UNCHANGED <<disk, server, fhs, ihs, path2fd, history>>

-----------------------------------------------------------------------------
(* Indexes. *)

(* IxManager::create_index creates and opens the file before it finds that *)
(* the key is too long, and then leaves both.                              *)
create_index(t, c) ==
  LET f == get_index_name(t, c) IN
  /\ server = "up" /\ Idle
  /\ t \in DOMAIN db /\ c \notin db[t].indexes
  /\ create_file(f)
  /\ \/ /\ ddl' = [NoDDL EXCEPT !.op = "create_index", !.tab = t, !.cols = c, !.pc = "format"]
        /\ UNCHANGED <<path2fd, history>>
     \/ /\ path2fd' = path2fd \cup {f}
        /\ Mishaps({"long_key"})
        /\ UNCHANGED <<ddl, done, torn, stray>>
  /\ UNCHANGED <<dir, meta, dml, server, db, fhs, ihs>>

CreateIndexFormat ==
  LET f == get_index_name(ddl.tab, ddl.cols) IN
  /\ ddl.op = "create_index" /\ At("format")
  /\ Format(f)
  /\ path2fd' = path2fd \cup {f}
  /\ Goto("register")
  /\ UNCHANGED <<dir, meta, dml, server, db, fhs, ihs, history>>

BuildFails(f) == destroy_file(f) /\ path2fd' = path2fd \ {f}

(* A second row with the same key, or a row another transaction has        *)
(* locked: the half-built index is closed and destroyed.                   *)
CreateIndexFails ==
  /\ ddl.op = "create_index" /\ At("register")
  /\ BuildFails(get_index_name(ddl.tab, ddl.cols))
  /\ Complete
  /\ UNCHANGED <<dir, meta, dml, server, db, fhs, ihs>>

NewIndex(cols) == {cols}

CreateIndexRegister ==
  /\ ddl.op = "create_index" /\ At("register")
  /\ ihs' = ihs \cup {get_index_name(ddl.tab, ddl.cols)}
  /\ db' = [db EXCEPT ![ddl.tab].indexes = @ \cup NewIndex(ddl.cols),
                      ![ddl.tab].flagged = @ \cup Range(ddl.cols)]
  /\ Goto("truncate")
  /\ UNCHANGED <<disk, server, fhs, path2fd, history>>

(* The handle of one of the indexes is closed and its file unlinked. *)
TakeIndex(pc) ==
  \E x \in ddl.todo :
    LET f == get_index_name(x[1], x[2]) IN
    /\ ihs' = ihs \ {f} /\ path2fd' = path2fd \ {f}
    /\ destroy_file(f)
    /\ ddl' = [ddl EXCEPT !.pc = pc, !.tab = x[1], !.cols = x[2], !.todo = @ \ {x}]

drop_index(t, c) ==
  /\ server = "up" /\ Idle
  /\ t \in DOMAIN db /\ c \in db[t].indexes
  /\ ddl' = [NoDDL EXCEPT !.op = "drop_index", !.tab = t, !.todo = {<<t, c>>}, !.pc = "drop_next"]
  /\ UNCHANGED <<disk, memory, history>>

(* Closed, unlinked, and then taken from the catalog. *)
DropIndexFile ==
  /\ At("drop_next")
  /\ TakeIndex("erase_index")
  /\ UNCHANGED <<dir, meta, dml, server, db, fhs, history>>

Flagged_ClearsAll(tab, c) == tab.flagged \ Range(c)

Flagged(tab, c) ==
  (tab.flagged \ Range(c)) \cup (Range(c) \cap UNION {Range(i) : i \in tab.indexes \ {c}})

DropIndexErase ==
  LET tab == db[ddl.tab] IN
  /\ At("erase_index")
  /\ db' = [db EXCEPT ![ddl.tab] = [indexes |-> tab.indexes \ {ddl.cols}, flagged |-> Flagged(tab, ddl.cols)]]
  /\ Goto("truncate")
  /\ UNCHANGED <<disk, server, fhs, ihs, path2fd, history>>

(* analyze: unlink, create, format and open again. *)
RecreateDestroy ==
  /\ At("recreate")
  /\ TakeIndex("recreate_file")
  /\ UNCHANGED <<dir, meta, dml, server, db, fhs, history>>

RecreateFile ==
  /\ At("recreate_file")
  /\ create_file(get_index_name(ddl.tab, ddl.cols))
  /\ Goto("recreate_format")
  /\ UNCHANGED <<dir, meta, dml, memory, history>>

RecreateFormat ==
  LET f == get_index_name(ddl.tab, ddl.cols) IN
  /\ At("recreate_format")
  /\ Format(f)
  /\ ihs' = ihs \cup {f} /\ path2fd' = path2fd \cup {f}
  /\ ddl' = IF ddl.todo = {} THEN NoDDL ELSE [ddl EXCEPT !.pc = "recreate", !.tab = <<>>, !.cols = <<>>]
  /\ UNCHANGED <<dir, meta, dml, server, db, fhs, history>>

(* An INSERT, DELETE or UPDATE has been logged. *)
Change(t) ==
  /\ server = "up" /\ Idle /\ t \in DOMAIN db
  /\ dml' = dml \cup {t}
  /\ UNCHANGED <<dir, files, meta, memory, ddl, history>>

-----------------------------------------------------------------------------
(* The process dies. *)

CrashMishap ==
  CASE At("create_log") -> {"crash_in_create_db"}
    [] At("write") -> {"crash_in_flush"}
    [] ddl.op \in {"drop_table", "drop_index"} /\ ddl.pc \in {"erase_table", "erase_index", "truncate"} -> {"crash_in_drop"}
    [] ddl.pc \in {"recreate_file", "recreate_format"} -> {"crash_in_analyze"}
    [] OTHER -> {}

Crash ==
  /\ server = "up" \/ ddl.op = "create_db"
  /\ Exit
  /\ torn' = IF ddl.op = "analyze" THEN torn ELSE torn \cup ({ddl.tab} \cap Table)
  /\ stray' = stray \cup UNION {DOMAIN files \ Owned(d) : d \in meta}
  /\ Mishaps(CrashMishap)
  /\ UNCHANGED <<disk, done>>

Init ==
  /\ dir = FALSE /\ files = NoMeta /\ meta = {} /\ dml = {}
  /\ server = "down" /\ db = NoMeta /\ fhs = {} /\ ihs = {} /\ path2fd = {}
  /\ ddl = NoDDL
  /\ done = NoMeta /\ torn = {} /\ stray = {} /\ mishaps = {}

Next ==
  \/ create_db \/ CreateLog \/ Start \/ Truncate \/ Write \/ close_db \/ CloseFiles
  \/ \E t \in Table : create_table(t) \/ drop_table(t) \/ Change(t)
  \/ CreateTableFormat \/ CreateTableRegister \/ DropTableFile \/ DropTableErase
  \/ \E t \in Table, c \in Ix : create_index(t, c) \/ drop_index(t, c)
  \/ CreateIndexFormat \/ CreateIndexFails \/ CreateIndexRegister
  \/ DropIndexFile \/ DropIndexErase
  \/ RecreateDestroy \/ RecreateFile \/ RecreateFormat
  \/ Crash

Spec == Init /\ [][Next]_vars

-----------------------------------------------------------------------------
(* Properties. *)

Ready == server = "up" /\ Idle

(* Every variable has its shape. *)
TypeOK ==
  /\ dir \in BOOLEAN
  /\ DOMAIN files \subseteq File /\ \A f \in DOMAIN files : files[f] \in {"empty", "formatted"}
  /\ server \in {"down", "up", "failed"}
  /\ DOMAIN db \subseteq Table /\ \A t \in DOMAIN db : db[t].indexes \subseteq Ix
  /\ fhs \subseteq Table /\ ihs \subseteq File /\ path2fd \subseteq File
  /\ ddl.todo \subseteq Table \X Ix /\ dml \subseteq Table /\ torn \subseteq Table /\ stray \subseteq File
  /\ mishaps \subseteq Mishap

(* Between statements the server has a handle for exactly the tables and   *)
(* indexes of the catalog, each on a file that exists and has its header,  *)
(* whatever crashed before; only a key that is too long leaves one more    *)
(* file open.                                                              *)
HandlesAgree ==
  Ready => /\ fhs = DOMAIN db /\ ihs = IndexFiles(db)
           /\ Owned(db) \subseteq path2fd
           /\ Never({"long_key"}) => path2fd = Owned(db)
           /\ \A f \in Owned(db) : Opens(f)

(* Two indexes of the catalog never share a file, although the names of    *)
(* t_a on (b) and of t on (a, b) are the same.                             *)
IndexFilesDistinct ==
  \A t, u \in DOMAIN db : \A c \in db[t].indexes, d \in db[u].indexes :
    get_index_name(t, c) = get_index_name(u, d) => t = u /\ c = d

(* A column is flagged as indexed exactly if an index of the table has it, *)
(* however indexes that share columns are created and dropped.             *)
FlagsExact == Ready => \A t \in DOMAIN db : db[t].flagged = UNION {Range(c) : c \in db[t].indexes}

(* A statement that fails leaves no file behind: only a crash does, and a  *)
(* key that is too long.                                                   *)
NoStrayFiles ==
  Ready /\ Never({"long_key", "crash_in_flush"}) => DOMAIN files \ Owned(db) \subseteq stray

(* The catalog in memory agrees with the handles, the column flags and the *)
(* files of the database directory.                                        *)
CatalogSound ==
  TypeOK /\ HandlesAgree /\ IndexFilesDistinct /\ FlagsExact /\ NoStrayFiles

(* A server that was stopped or has crashed starts again, unless the crash *)
(* came while create_db ran, between the unlinking of a file and the       *)
(* writing of the metadata or the file's new header, or while the metadata *)
(* file was empty, or a table was dropped that the log still names.        *)
CanStart ==
  server = "failed" => ~Never(CrashMishaps) \/ \E d \in meta : ~(dml \subseteq DOMAIN d)

(* A statement that was complete survives every restart: only a table      *)
(* whose own statement was cut by the crash may differ.  A crash while the *)
(* metadata file was empty may lose everything.                            *)
CompleteSurvives ==
  Ready /\ Never({"crash_in_flush"}) =>
    /\ meta = {db}
    /\ \A t \in Table \ torn :
         /\ t \in DOMAIN db <=> t \in DOMAIN done
         /\ t \in DOMAIN db => db[t] = done[t]
=============================================================================
