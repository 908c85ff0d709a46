---------------------------- MODULE CatalogProofs ----------------------------
(***************************************************************************)
(* Proofs about module Catalog, for any tables and indexes and any number  *)
(* of statements, restarts, crashes and mishaps.                           *)
(***************************************************************************)
EXTENDS Catalog, TLAPS

-----------------------------------------------------------------------------
(* The inductive invariant. *)

IxFile == get_index_name(ddl.tab, ddl.cols)

(* A catalog: an index has a file of its own, and the flags are exact. *)
Cat(d) ==
  /\ DOMAIN d \subseteq Table
  /\ \A t \in DOMAIN d : d[t] = [indexes |-> d[t].indexes, flagged |-> d[t].flagged]
  /\ \A t \in DOMAIN d : d[t].indexes \subseteq Ix /\ d[t].flagged = UNION {Range(c) : c \in d[t].indexes}
  /\ \A t, u \in DOMAIN d : \A c \in d[t].indexes, e \in d[u].indexes :
       get_index_name(t, c) = get_index_name(u, e) => t = u /\ c = e

Catalogs == Cat(db) /\ \A d \in meta : Cat(d)

Types ==
  /\ dir \in BOOLEAN
  /\ DOMAIN files \subseteq File /\ \A f \in DOMAIN files : files[f] \in {"empty", "formatted"}
  /\ server \in {"down", "up", "failed"}
  /\ fhs \subseteq Table /\ ihs \subseteq File /\ path2fd \subseteq File
  /\ dml \subseteq Table /\ torn \subseteq Table /\ stray \subseteq File
  /\ mishaps \subseteq Mishap

(* Where a statement can be, and what it has still to do. *)
Index(t, c) == t \in DOMAIN db /\ c \in db[t].indexes

Statement ==
  /\ ddl = [op |-> ddl.op, tab |-> ddl.tab, cols |-> ddl.cols, pc |-> ddl.pc, todo |-> ddl.todo]
  /\ \/ Idle
     \/ /\ ddl.op = "create_db" /\ ddl.pc \in {"create_log", "write"} /\ ddl.todo = {}
        /\ server = "down" /\ dir = TRUE /\ db = NoMeta /\ meta = {}
        /\ DOMAIN files = IF ddl.pc = "write" THEN {LOG_FILE} ELSE {}
     \/ /\ server = "up" /\ ddl.op = "close_db" /\ ddl.pc \in {"truncate", "write", "close"} /\ ddl.todo = {}
     \/ /\ server = "up" /\ ddl.op = "create_table" /\ ddl.tab \in Table /\ ddl.todo = {}
        /\ \/ ddl.pc \in {"format", "register"} /\ ddl.tab \notin DOMAIN db
           \/ ddl.pc \in {"truncate", "write"} /\ ddl.tab \in DOMAIN db
     \/ /\ server = "up" /\ ddl.op = "create_index" /\ ddl.todo = {}
        /\ ddl.tab \in DOMAIN db /\ ddl.cols \in Ix
        /\ \/ ddl.pc \in {"format", "register"} /\ IxFile \notin IndexFiles(db)
           \/ ddl.pc \in {"truncate", "write"}
     \/ /\ server = "up" /\ ddl.op = "drop_index" /\ ddl.tab \in DOMAIN db
        /\ \/ ddl.pc = "drop_next" /\ \E c \in db[ddl.tab].indexes : ddl.todo = {<<ddl.tab, c>>}
           \/ ddl.pc = "erase_index" /\ ddl.todo = {} /\ ddl.cols \in db[ddl.tab].indexes
           \/ ddl.pc \in {"truncate", "write"} /\ ddl.todo = {}
     \/ /\ server = "up" /\ ddl.op = "drop_table" /\ ddl.tab \in Table
        /\ \/ /\ ddl.pc \in {"drop_next", "truncate", "write"} /\ ddl.tab \in DOMAIN db
              /\ ddl.todo = {ddl.tab} \X db[ddl.tab].indexes
           \/ /\ ddl.pc = "erase_index" /\ Index(ddl.tab, ddl.cols)
              /\ ddl.todo = {ddl.tab} \X (db[ddl.tab].indexes \ {ddl.cols})
           \/ ddl.pc = "erase_table" /\ ddl.tab \in DOMAIN db /\ db[ddl.tab].indexes = {} /\ ddl.todo = {}
           \/ ddl.pc \in {"truncate", "write"} /\ ddl.tab \notin DOMAIN db /\ ddl.todo = {}
     \/ /\ server = "up" /\ ddl.op = "analyze"
        /\ \A x \in ddl.todo : x = <<x[1], x[2]>> /\ Index(x[1], x[2])
        /\ \/ ddl.pc = "recreate"
           \/ ddl.pc \in {"recreate_file", "recreate_format"} /\ Index(ddl.tab, ddl.cols)

(* The file of the catalog that is closed, and the one that is there and   *)
(* not yet in the catalog.                                                 *)
Closed ==
  IF At("erase_table") THEN {TableFile(ddl.tab)}
  ELSE IF ddl.pc \in {"erase_index", "recreate_file", "recreate_format"} THEN {IxFile} ELSE {}
New ==
  IF ddl.op = "create_table" /\ ddl.pc \in {"format", "register"} THEN {TableFile(ddl.tab)}
  ELSE IF ddl.op = "create_index" /\ ddl.pc \in {"format", "register"} THEN {IxFile} ELSE {}
NewOpen == IF ddl.op = "create_index" /\ ddl.pc = "register" THEN {IxFile} ELSE {}

(* Handles and files of a server that is up. *)
Handles ==
  /\ fhs = DOMAIN db \ IF At("erase_table") THEN {ddl.tab} ELSE {}
  /\ ihs = IndexFiles(db) \ Closed
  /\ (Owned(db) \ Closed) \cup NewOpen \subseteq path2fd
  /\ Never({"long_key"}) => path2fd = (Owned(db) \ Closed) \cup NewOpen
  /\ \A f \in Owned(db) \ Closed : Opens(f)
  /\ New \subseteq DOMAIN files /\ (At("register") => \A f \in New : Opens(f))
  /\ ~At("recreate_format") => Closed \cap DOMAIN files = {}

(* The directory has no files but those of the catalog, the new one and    *)
(* what crashes have left.                                                 *)
StraysUp == DOMAIN files \ (Owned(db) \cup New) \subseteq stray
StraysDown ==
  /\ \A d \in meta : DOMAIN files \ Owned(d) \subseteq stray
  /\ Idle /\ meta = {} => DOMAIN files = {}

(* The table whose statement is under way. *)
Busy == IF ddl.op \in {"create_table", "drop_table", "create_index", "drop_index"} THEN {ddl.tab} ELSE {}

Same(d, e, t) == (t \in DOMAIN d <=> t \in DOMAIN e) /\ (t \in DOMAIN d => d[t] = e[t])

(* What the metadata file holds, next to memory, and what a start finds. *)
SavedUp ==
  IF At("write") THEN meta = {}
  ELSE IF At("truncate")
  THEN \E d \in meta :
         /\ meta = {d} /\ \A t \in Table \ Busy : Same(d, db, t)
         /\ ddl.op \notin {"drop_table", "drop_index"} => Owned(d) \subseteq Owned(db)
  ELSE meta = {db}
SavedDown ==
  /\ Idle /\ dir = TRUE =>
       \/ \E d \in meta : meta = {d}
       \/ meta = {} /\ DOMAIN files = {} /\ ~Never({"crash_in_create_db"})
  /\ Never(CrashMishaps) => \A d \in meta : \A f \in Owned(d) : Opens(f)

(* What has survived of the statements that were complete. *)
KeptUp == \A t \in Table \ (torn \cup Busy) : Same(db, done, t)
KeptDown == \A d \in meta : \A t \in Table \ torn : Same(d, done, t)

(* Before there is a directory there is nothing. *)
Unmade == dir = FALSE => server = "down" /\ Idle /\ db = NoMeta /\ meta = {} /\ DOMAIN files = {}

CatalogInv ==
  /\ Types /\ Catalogs /\ Statement /\ Unmade /\ CanStart
  /\ server = "up" => Handles
  /\ Never({"long_key", "crash_in_flush"}) => IF server = "up" THEN StraysUp ELSE StraysDown
  /\ Never({"crash_in_flush"}) => IF server = "up" THEN SavedUp /\ KeptUp ELSE SavedDown /\ KeptDown

-----------------------------------------------------------------------------
(* Names of files, and catalogs that differ by a table or an index. *)

(* Only two indexes can have the same name. *)
LEMMA FileNames ==
  /\ \A t, u : TableFile(t) = TableFile(u) => t = u
  /\ \A t, u, c : TableFile(t) # get_index_name(u, c)
  /\ \A t : TableFile(t) # LOG_FILE
  /\ \A t, c : get_index_name(t, c) # LOG_FILE
<1>1. \A t, u : TableFile(t) = TableFile(u) => t = u
  BY DEF TableFile
<1>2. \A t, u, c : TableFile(t) # get_index_name(u, c)
  BY DEF TableFile, get_index_name
<1>3. \A t : TableFile(t) # LOG_FILE
  BY DEF TableFile, LOG_FILE
<1>4. \A t, c : get_index_name(t, c) # LOG_FILE
  BY DEF get_index_name, LOG_FILE
<1>5. QED
  BY <1>1, <1>2, <1>3, <1>4

(* The files of a catalog. *)
LEMMA IndexFilesAre ==
  ASSUME NEW d, NEW f
  PROVE  f \in IndexFiles(d) <=> \E t \in DOMAIN d : \E c \in d[t].indexes : f = get_index_name(t, c)
BY DEF IndexFiles

(* The file of an index of the catalog is one of its index files. *)
LEMMA HasIndexFile ==
  ASSUME NEW d, NEW t \in DOMAIN d, NEW c \in d[t].indexes
  PROVE  get_index_name(t, c) \in IndexFiles(d)
BY IndexFilesAre

(* A bound of the index files, one index at a time. *)
LEMMA IndexFilesWithin ==
  ASSUME NEW d, NEW S, \A t \in DOMAIN d : \A c \in d[t].indexes : get_index_name(t, c) \in S
  PROVE  IndexFiles(d) \subseteq S
BY IndexFilesAre

(* The files a catalog owns: the log, its tables and its indexes. *)
LEMMA OwnedAre ==
  ASSUME NEW d, NEW f
  PROVE  f \in Owned(d) <=> f = LOG_FILE \/ f \in IndexFiles(d) \/ \E t \in DOMAIN d : f = TableFile(t)
BY DEF Owned

(* Two kinds of names. *)
LEMMA TableFileOrIndex ==
  /\ \A d, t : TableFile(t) \notin IndexFiles(d)
  /\ \A d, t, c : get_index_name(t, c) \notin IndexFiles(d) => get_index_name(t, c) \notin Owned(d)
<1>1. ASSUME NEW d, NEW t PROVE TableFile(t) \notin IndexFiles(d)
  BY IndexFilesAre, FileNames
<1>2. ASSUME NEW d, NEW t, NEW c, get_index_name(t, c) \in Owned(d) PROVE get_index_name(t, c) \in IndexFiles(d)
  BY <1>2, OwnedAre, FileNames
<1>3. QED
  BY ONLY <1>1, <1>2

(* All of them are files that the database can have. *)
LEMMA OwnedAreFiles ==
  ASSUME NEW d, Cat(d)
  PROVE  Owned(d) \subseteq File /\ IndexFiles(d) \subseteq File /\ IndexFiles(d) \subseteq Owned(d)
<1>1. \A t \in DOMAIN d : t \in Table /\ d[t].indexes \subseteq Ix
  BY DEF Cat
<1>2. IndexFiles(d) \subseteq File
  BY <1>1, IndexFilesAre DEF File
<1>3. QED
  BY <1>1, <1>2, OwnedAre DEF File

(* Functions with one argument more, and one less. *)
LEMMA WithIs ==
  ASSUME NEW f, NEW x, NEW v
  PROVE  /\ DOMAIN With(f, x, v) = DOMAIN f \cup {x} /\ With(f, x, v)[x] = v
         /\ \A y \in DOMAIN f : y # x => With(f, x, v)[y] = f[y]
BY DEF With

(* The function without x. *)
LEMMA WithoutIs ==
  ASSUME NEW f, NEW x
  PROVE  /\ DOMAIN Without(f, x) = DOMAIN f \ {x}
         /\ \A y \in DOMAIN f : y # x => Without(f, x)[y] = f[y]
BY DEF Without

(* The metadata file of create_db is an empty catalog, which owns the log. *)
LEMMA EmptyCat == Cat(NoMeta) /\ IndexFiles(NoMeta) = {} /\ Owned(NoMeta) = {LOG_FILE} /\ DOMAIN NoMeta = {}
<1>1. DOMAIN NoMeta = {}
  BY DEF NoMeta
<1>2. IndexFiles(NoMeta) = {}
  BY <1>1, IndexFilesAre
<1>3. Owned(NoMeta) = {LOG_FILE}
  BY <1>1, <1>2, OwnedAre
<1>4. QED
  BY <1>1, <1>2, <1>3 DEF Cat

(* A catalog with a file more, or less, and changed in one table. *)
Grown(d, e, t, f) == Cat(e) /\ Owned(e) = Owned(d) \cup {f} /\ \A u : u # t => Same(d, e, u)
Shrunk(d, e, t, f) == Cat(e) /\ Owned(e) = Owned(d) \ {f} /\ \A u : u # t => Same(d, e, u)

(* A table more. *)
LEMMA OneTableMore ==
  ASSUME NEW d, Cat(d), NEW t \in Table, t \notin DOMAIN d, NEW e, e = With(d, t, NewTab)
  PROVE  Grown(d, e, t, TableFile(t)) /\ DOMAIN e = DOMAIN d \cup {t} /\ IndexFiles(e) = IndexFiles(d)
<1>1. DOMAIN e = DOMAIN d \cup {t} /\ e[t] = NewTab /\ \A y \in DOMAIN d : e[y] = d[y]
  BY WithIs
<1>2. NewTab = [indexes |-> NewTab.indexes, flagged |-> NewTab.flagged] /\ NewTab.indexes = {} /\ NewTab.flagged = {}
  BY DEF NewTab
<1>3. IndexFiles(e) = IndexFiles(d)
  <2>1. \A u \in DOMAIN e : \A c \in e[u].indexes : u \in DOMAIN d /\ c \in d[u].indexes
    BY ONLY <1>1, <1>2, t \notin DOMAIN d
  <2>2. \A u \in DOMAIN d : \A c \in d[u].indexes : u \in DOMAIN e /\ c \in e[u].indexes
    BY ONLY <1>1, t \notin DOMAIN d
  <2>3. IndexFiles(e) \subseteq IndexFiles(d)
    BY ONLY <2>1, HasIndexFile, IndexFilesWithin
  <2>4. IndexFiles(d) \subseteq IndexFiles(e)
    BY ONLY <2>2, HasIndexFile, IndexFilesWithin
  <2>5. QED
    BY ONLY <2>3, <2>4
<1>4. Owned(e) = Owned(d) \cup {TableFile(t)}
  BY <1>1, <1>3, OwnedAre
<1>5. Cat(e)
  <2>1. UNION {Range(c) : c \in NewTab.indexes} = {}
    BY <1>2
  <2>2. QED
    BY <1>1, <1>2, <2>1 DEF Cat
<1>6. QED
  BY <1>1, <1>3, <1>4, <1>5 DEF Same, Grown

(* A table without indexes less. *)
LEMMA OneTableLess ==
  ASSUME NEW d, Cat(d), NEW t \in DOMAIN d, d[t].indexes = {}, NEW e, e = Without(d, t)
  PROVE  Shrunk(d, e, t, TableFile(t)) /\ DOMAIN e = DOMAIN d \ {t} /\ IndexFiles(e) = IndexFiles(d)
<1>1. DOMAIN e = DOMAIN d \ {t} /\ \A y \in DOMAIN e : e[y] = d[y]
  BY ONLY e = Without(d, t) DEF Without
<1>2. IndexFiles(e) = IndexFiles(d)
  <2>1. \A u \in DOMAIN e : \A c \in e[u].indexes : u \in DOMAIN d /\ c \in d[u].indexes
    BY ONLY <1>1
  <2>2. \A u \in DOMAIN d : \A c \in d[u].indexes : u \in DOMAIN e /\ c \in e[u].indexes
    BY ONLY <1>1, d[t].indexes = {}
  <2>3. IndexFiles(e) \subseteq IndexFiles(d)
    BY ONLY <2>1, HasIndexFile, IndexFilesWithin
  <2>4. IndexFiles(d) \subseteq IndexFiles(e)
    BY ONLY <2>2, HasIndexFile, IndexFilesWithin
  <2>5. QED
    BY ONLY <2>3, <2>4
<1>3. Owned(e) = Owned(d) \ {TableFile(t)}
  BY <1>1, <1>2, OwnedAre, IndexFilesAre, FileNames
<1>4. Cat(e)
  BY <1>1 DEF Cat
<1>5. QED
  BY <1>1, <1>2, <1>3, <1>4 DEF Same, Shrunk

Indexed(d, t, c) == [d EXCEPT ![t].indexes = @ \cup {c}, ![t].flagged = @ \cup Range(c)]

(* An index more, whose file has a name of its own. *)
LEMMA OneIndexMore ==
  ASSUME NEW d, Cat(d), NEW t \in DOMAIN d, NEW c \in Ix, get_index_name(t, c) \notin IndexFiles(d),
         NEW e, e = Indexed(d, t, c)
  PROVE  /\ Grown(d, e, t, get_index_name(t, c)) /\ DOMAIN e = DOMAIN d
         /\ IndexFiles(e) = IndexFiles(d) \cup {get_index_name(t, c)}
<1>1. d[t] = [indexes |-> d[t].indexes, flagged |-> d[t].flagged]
  BY DEF Cat
<1>2. /\ DOMAIN e = DOMAIN d /\ \A y \in DOMAIN d : y # t => e[y] = d[y]
      /\ e[t] = [indexes |-> d[t].indexes \cup {c}, flagged |-> d[t].flagged \cup Range(c)]
  BY <1>1 DEF Indexed
<1>3. e[t].indexes = d[t].indexes \cup {c} /\ e[t].flagged = d[t].flagged \cup Range(c)
  BY <1>2
<1>4. IndexFiles(e) = IndexFiles(d) \cup {get_index_name(t, c)}
  <2>1. \A u \in DOMAIN e : \A x \in e[u].indexes : (u \in DOMAIN d /\ x \in d[u].indexes) \/ (u = t /\ x = c)
    BY ONLY <1>2, <1>3
  <2>2. \A u \in DOMAIN d : \A x \in d[u].indexes : u \in DOMAIN e /\ x \in e[u].indexes
    BY ONLY <1>2, <1>3
  <2>3. IndexFiles(e) \subseteq IndexFiles(d) \cup {get_index_name(t, c)}
    <3>1. \A u \in DOMAIN e : \A x \in e[u].indexes : get_index_name(u, x) \in IndexFiles(d) \cup {get_index_name(t, c)}
      BY ONLY <2>1, HasIndexFile
    <3>2. QED
      BY ONLY <3>1, IndexFilesWithin
  <2>4. IndexFiles(d) \subseteq IndexFiles(e)
    BY ONLY <2>2, HasIndexFile, IndexFilesWithin
  <2>5. get_index_name(t, c) \in IndexFiles(e)
    BY ONLY <1>2, <1>3, t \in DOMAIN d, HasIndexFile
  <2>6. QED
    BY ONLY <2>3, <2>4, <2>5
<1>5. Owned(e) = Owned(d) \cup {get_index_name(t, c)}
  BY ONLY <1>2, <1>4 DEF Owned
<1>6. Cat(e)
  <2>1. \A u \in DOMAIN e : e[u] = [indexes |-> e[u].indexes, flagged |-> e[u].flagged]
    BY <1>2, <1>3 DEF Cat
  <2>2. e[t].flagged = UNION {Range(x) : x \in e[t].indexes}
    <3>1. d[t].flagged = UNION {Range(x) : x \in d[t].indexes}
      BY DEF Cat
    <3>2. QED
      BY ONLY <1>3, <3>1
  <2>3. \A u \in DOMAIN e : e[u].indexes \subseteq Ix /\ e[u].flagged = UNION {Range(x) : x \in e[u].indexes}
    BY <1>2, <1>3, <2>2 DEF Cat
  <2>4. ASSUME NEW u \in DOMAIN e, NEW v \in DOMAIN e, NEW x \in e[u].indexes, NEW y \in e[v].indexes,
               get_index_name(u, x) = get_index_name(v, y)
        PROVE  u = v /\ x = y
    <3>1. \A w \in DOMAIN d : \A z \in d[w].indexes : get_index_name(w, z) # get_index_name(t, c)
      BY IndexFilesAre
    <3>2. \A w \in DOMAIN e : \A z \in e[w].indexes : z \in d[w].indexes \/ (w = t /\ z = c)
      BY <1>2, <1>3
    <3>3. QED
      BY <1>2, <2>4, <3>1, <3>2 DEF Cat
  <2>5. QED
    BY <1>2, <2>1, <2>3, <2>4 DEF Cat
<1>7. QED
  BY <1>2, <1>4, <1>5, <1>6 DEF Same, Grown

Unindexed(d, t, c) == [d EXCEPT ![t] = [indexes |-> d[t].indexes \ {c}, flagged |-> Flagged(d[t], c)]]

(* An index less: its columns stay flagged where another index has them. *)
LEMMA OneIndexLess ==
  ASSUME NEW d, Cat(d), NEW t \in DOMAIN d, NEW c \in d[t].indexes,
         NEW e, e = Unindexed(d, t, c)
  PROVE  /\ Shrunk(d, e, t, get_index_name(t, c)) /\ DOMAIN e = DOMAIN d
         /\ IndexFiles(e) = IndexFiles(d) \ {get_index_name(t, c)} /\ e[t].indexes = d[t].indexes \ {c}
<1>2. /\ DOMAIN e = DOMAIN d /\ \A y \in DOMAIN d : y # t => e[y] = d[y]
      /\ e[t] = [indexes |-> d[t].indexes \ {c}, flagged |-> Flagged(d[t], c)]
  BY DEF Unindexed
<1>3. e[t].indexes = d[t].indexes \ {c} /\ e[t].flagged = Flagged(d[t], c)
  BY <1>2
<1>4. IndexFiles(e) = IndexFiles(d) \ {get_index_name(t, c)}
  <2>1. ASSUME NEW u \in DOMAIN e, NEW x \in e[u].indexes
        PROVE  get_index_name(u, x) \in IndexFiles(d) \ {get_index_name(t, c)}
    <3>1. u \in DOMAIN d /\ x \in d[u].indexes /\ ~(u = t /\ x = c)
      BY ONLY <1>2, <1>3, <2>1
    <3>2. get_index_name(u, x) # get_index_name(t, c)
      BY <3>1 DEF Cat
    <3>3. QED
      BY ONLY <3>1, <3>2, HasIndexFile
  <2>2. ASSUME NEW u \in DOMAIN d, NEW x \in d[u].indexes
        PROVE  get_index_name(u, x) \in IndexFiles(e) \cup {get_index_name(t, c)}
    <3>1. (u \in DOMAIN e /\ x \in e[u].indexes) \/ (u = t /\ x = c)
      BY ONLY <1>2, <1>3, <2>2
    <3>2. QED
      BY ONLY <3>1, HasIndexFile
  <2>3. IndexFiles(e) \subseteq IndexFiles(d) \ {get_index_name(t, c)}
    BY ONLY <2>1, IndexFilesWithin
  <2>4. IndexFiles(d) \subseteq IndexFiles(e) \cup {get_index_name(t, c)}
    BY ONLY <2>2, IndexFilesWithin
  <2>5. QED
    BY ONLY <2>3, <2>4
<1>5. Owned(e) = Owned(d) \ {get_index_name(t, c)}
  BY ONLY <1>2, <1>4, FileNames DEF Owned
<1>6. Cat(e)
  <2>1. \A u \in DOMAIN e : e[u] = [indexes |-> e[u].indexes, flagged |-> e[u].flagged]
    BY <1>2, <1>3 DEF Cat
  <2>2. e[t].flagged = UNION {Range(x) : x \in e[t].indexes}
    <3>1. d[t].flagged = UNION {Range(x) : x \in d[t].indexes}
      BY DEF Cat
    <3>2. QED
      BY ONLY <1>3, <3>1, c \in d[t].indexes DEF Flagged
  <2>3. \A u \in DOMAIN e : e[u].indexes \subseteq Ix /\ e[u].flagged = UNION {Range(x) : x \in e[u].indexes}
    BY <1>2, <1>3, <2>2 DEF Cat
  <2>4. \A w \in DOMAIN e : w \in DOMAIN d /\ e[w].indexes \subseteq d[w].indexes
    BY <1>2, <1>3
  <2>5. QED
    BY <1>2, <2>1, <2>3, <2>4 DEF Cat
<1>7. QED
  BY <1>2, <1>3, <1>4, <1>5, <1>6 DEF Same, Shrunk

-----------------------------------------------------------------------------
(* Steps.  What a statement has closed and made depends on where it is.    *)

(* The fields of ddl after a step of a statement. *)
LEMMA Fields ==
  ASSUME Statement
  PROVE  /\ \A p : Goto(p) => /\ ddl'.op = ddl.op /\ ddl'.tab = ddl.tab /\ ddl'.cols = ddl.cols
                              /\ ddl'.pc = p /\ ddl'.todo = ddl.todo
                              /\ (ddl = [op |-> ddl.op, tab |-> ddl.tab, cols |-> ddl.cols, pc |-> ddl.pc, todo |-> ddl.todo])'
         /\ \A o, t, c, p, S :
              ddl' = [NoDDL EXCEPT !.op = o, !.tab = t, !.cols = c, !.pc = p, !.todo = S] =>
                /\ ddl'.op = o /\ ddl'.tab = t /\ ddl'.cols = c /\ ddl'.pc = p /\ ddl'.todo = S
                /\ (ddl = [op |-> ddl.op, tab |-> ddl.tab, cols |-> ddl.cols, pc |-> ddl.pc, todo |-> ddl.todo])'
<1>1. ddl = [op |-> ddl.op, tab |-> ddl.tab, cols |-> ddl.cols, pc |-> ddl.pc, todo |-> ddl.todo]
  BY DEF Statement
<1>2. ASSUME NEW p, Goto(p)
      PROVE  /\ ddl'.op = ddl.op /\ ddl'.tab = ddl.tab /\ ddl'.cols = ddl.cols
             /\ ddl'.pc = p /\ ddl'.todo = ddl.todo
             /\ (ddl = [op |-> ddl.op, tab |-> ddl.tab, cols |-> ddl.cols, pc |-> ddl.pc, todo |-> ddl.todo])'
  <2>1. ddl' = [op |-> ddl.op, tab |-> ddl.tab, cols |-> ddl.cols, pc |-> p, todo |-> ddl.todo]
    BY ONLY <1>1, <1>2 DEF Goto
  <2>2. QED
    BY ONLY <2>1
<1>3. ASSUME NEW o, NEW t, NEW c, NEW p, NEW S,
             ddl' = [NoDDL EXCEPT !.op = o, !.tab = t, !.cols = c, !.pc = p, !.todo = S]
      PROVE  /\ ddl'.op = o /\ ddl'.tab = t /\ ddl'.cols = c /\ ddl'.pc = p /\ ddl'.todo = S
             /\ (ddl = [op |-> ddl.op, tab |-> ddl.tab, cols |-> ddl.cols, pc |-> ddl.pc, todo |-> ddl.todo])'
  <2>1. ddl' = [op |-> o, tab |-> t, cols |-> c, pc |-> p, todo |-> S]
    BY ONLY <1>3 DEF NoDDL
  <2>2. QED
    BY ONLY <2>1
<1>4. QED
  BY ONLY <1>2, <1>3

(* Between statements no DDL is under way. *)
LEMMA NoDDLFields ==
  /\ NoDDL.op = "none" /\ NoDDL.pc = "none" /\ NoDDL.todo = {} /\ NoDDL.tab = <<>> /\ NoDDL.cols = <<>>
  /\ NoDDL = [op |-> NoDDL.op, tab |-> NoDDL.tab, cols |-> NoDDL.cols, pc |-> NoDDL.pc, todo |-> NoDDL.todo]
BY DEF NoDDL

(* A mishap that has not happened had not happened before. *)
LEMMA NeverBefore ==
  ASSUME mishaps \subseteq mishaps', NEW S, Never(S)'
  PROVE  Never(S)
BY DEF Never

(* What a server that is up goes by. *)
LEMMA Up ==
  ASSUME CatalogInv, server = "up"
  PROVE  /\ Types /\ Catalogs /\ Statement /\ Handles /\ dir = TRUE
         /\ Never({"long_key", "crash_in_flush"}) => StraysUp
         /\ Never({"crash_in_flush"}) => SavedUp /\ KeptUp
BY DEF CatalogInv, Unmade, Types

(* A step that leaves the server up. *)
LEMMA UpStep ==
  ASSUME CatalogInv, server = "up", server' = "up", dir' = dir, mishaps \subseteq mishaps',
         Types', Catalogs', Statement', Handles', SavedUp => SavedUp', KeptUp => KeptUp',
         Never({"long_key", "crash_in_flush"})' /\ StraysUp => StraysUp'
  PROVE  CatalogInv'
<1>1. \A S : Never(S)' => Never(S)
  BY NeverBefore
<1>2. Unmade' /\ CanStart'
  BY Up DEF Unmade, CanStart
<1>3. (Never({"long_key", "crash_in_flush"}) => IF server = "up" THEN StraysUp ELSE StraysDown)'
  BY <1>1 DEF CatalogInv
<1>4. (Never({"crash_in_flush"}) => IF server = "up" THEN SavedUp /\ KeptUp ELSE SavedDown /\ KeptDown)'
  BY <1>1 DEF CatalogInv
<1>5. QED
  BY <1>2, <1>3, <1>4 DEF CatalogInv

(* Nothing is under way between two statements. *)
LEMMA WhenIdle ==
  ASSUME Idle
  PROVE  /\ Closed = {} /\ New = {} /\ NewOpen = {} /\ Busy = {}
         /\ ddl.op = "none" /\ ddl.pc = "none" /\ ddl.tab = <<>> /\ ddl.todo = {}
<1>1. ddl.op = "none" /\ ddl.pc = "none" /\ ddl.tab = <<>> /\ ddl.todo = {}
  BY NoDDLFields DEF Idle
<1>2. QED
  BY <1>1 DEF Closed, New, NewOpen, Busy, At

(* A statement that has not changed anything yet. *)
LEMMA Begins ==
  ASSUME CatalogInv, Ready, UNCHANGED <<dir, files, meta, memory, history>>, dml' \subseteq Table,
         Statement', Closed' = {}, New' = {}, NewOpen' = {},
         ddl'.pc \notin {"erase_table", "recreate_format", "write"},
         ddl'.pc = "truncate" => ddl'.op = "close_db"
  PROVE  CatalogInv'
<1>1. server = "up" /\ Idle
  BY DEF Ready
<1>2. /\ UNCHANGED <<server, db, fhs, ihs, path2fd, done, torn, stray, mishaps>>
      /\ UNCHANGED <<dir, files, meta>>
  BY DEF memory, history
<1>3. Closed = {} /\ New = {} /\ NewOpen = {} /\ Busy = {} /\ ddl.pc = "none"
  BY <1>1, WhenIdle
<1>4. Types'
  BY <1>1, <1>2, Up DEF Types
<1>5. Catalogs'
  BY <1>1, <1>2, Up DEF Catalogs
<1>6. Handles'
  BY <1>1, <1>2, <1>3, Up DEF Handles, At, Never, Opens
<1>7. StraysUp => StraysUp'
  BY <1>2, <1>3 DEF StraysUp
<1>8. SavedUp => SavedUp'
  <2>1. SavedUp => meta = {db}
    BY <1>3 DEF SavedUp, At
  <2>2. \A t : Same(db, db, t)
    BY DEF Same
  <2>3. QED
    BY <1>2, <2>1, <2>2 DEF SavedUp, At
<1>9. KeptUp => KeptUp'
  BY <1>2, <1>3 DEF KeptUp
<1>10. QED
  BY <1>1, <1>2, <1>4, <1>5, <1>6, <1>7, <1>8, <1>9, UpStep, Up

(* close_db begins. *)
LEMMA CloseDbInv == CatalogInv /\ close_db => CatalogInv'
<1> SUFFICES ASSUME CatalogInv, close_db PROVE CatalogInv'
  OBVIOUS
<1>1. /\ server = "up" /\ Idle /\ UNCHANGED <<disk, memory, history>>
      /\ ddl' = [NoDDL EXCEPT !.op = "close_db", !.pc = "truncate"]
  BY DEF close_db
<1>2. ddl' = [op |-> "close_db", tab |-> <<>>, cols |-> <<>>, pc |-> "truncate", todo |-> {}]
  BY <1>1 DEF NoDDL
<1>3. server' = "up" /\ UNCHANGED <<dir, files, meta, dml>>
  BY <1>1 DEF disk, memory
<1>4. Statement'
  BY <1>2, <1>3 DEF Statement
<1>5. Closed' = {} /\ New' = {} /\ NewOpen' = {}
  BY <1>2 DEF Closed, New, NewOpen, At
<1>6. QED
  BY <1>1, <1>2, <1>3, <1>4, <1>5, Begins, Up DEF Ready, Types

(* A table or an index is about to be dropped. *)
LEMMA DropTableInv == ASSUME NEW t \in Table PROVE CatalogInv /\ drop_table(t) => CatalogInv'
<1> SUFFICES ASSUME CatalogInv, drop_table(t) PROVE CatalogInv'
  OBVIOUS
<1>1. /\ server = "up" /\ Idle /\ t \in DOMAIN db /\ UNCHANGED <<disk, memory, history>>
      /\ ddl' = [NoDDL EXCEPT !.op = "drop_table", !.tab = t, !.todo = {t} \X db[t].indexes, !.pc = "drop_next"]
  BY DEF drop_table
<1>2. ddl' = [op |-> "drop_table", tab |-> t, cols |-> <<>>, pc |-> "drop_next", todo |-> {t} \X db[t].indexes]
  BY <1>1 DEF NoDDL
<1>3. server' = "up" /\ UNCHANGED <<db, dir, files, meta, dml>>
  BY <1>1 DEF disk, memory
<1>4. Statement'
  BY <1>1, <1>2, <1>3 DEF Statement
<1>5. Closed' = {} /\ New' = {} /\ NewOpen' = {}
  BY <1>2 DEF Closed, New, NewOpen, At
<1>6. QED
  BY <1>1, <1>2, <1>3, <1>4, <1>5, Begins, Up DEF Ready, Types

(* drop_index starts with one index to drop. *)
LEMMA DropIndexInv ==
  ASSUME NEW t \in Table, NEW c \in Ix PROVE CatalogInv /\ drop_index(t, c) => CatalogInv'
<1> SUFFICES ASSUME CatalogInv, drop_index(t, c) PROVE CatalogInv'
  OBVIOUS
<1>1. /\ server = "up" /\ Idle /\ t \in DOMAIN db /\ c \in db[t].indexes /\ UNCHANGED <<disk, memory, history>>
      /\ ddl' = [NoDDL EXCEPT !.op = "drop_index", !.tab = t, !.todo = {<<t, c>>}, !.pc = "drop_next"]
  BY DEF drop_index
<1>2. ddl' = [op |-> "drop_index", tab |-> t, cols |-> <<>>, pc |-> "drop_next", todo |-> {<<t, c>>}]
  BY <1>1 DEF NoDDL
<1>3. server' = "up" /\ UNCHANGED <<db, dir, files, meta, dml>>
  BY <1>1 DEF disk, memory
<1>4. Statement'
  BY <1>1, <1>2, <1>3 DEF Statement
<1>5. Closed' = {} /\ New' = {} /\ NewOpen' = {}
  BY <1>2 DEF Closed, New, NewOpen, At
<1>6. QED
  BY <1>1, <1>2, <1>3, <1>4, <1>5, Begins, Up DEF Ready, Types

(* A change of a row reaches no file of the catalog. *)
LEMMA ChangeInv == ASSUME NEW t \in Table PROVE CatalogInv /\ Change(t) => CatalogInv'
<1> SUFFICES ASSUME CatalogInv, Change(t) PROVE CatalogInv'
  OBVIOUS
<1>1. /\ server = "up" /\ Idle /\ UNCHANGED <<dir, files, meta, memory, ddl, history>>
      /\ dml' = dml \cup {t}
  BY DEF Change
<1>2. server' = "up" /\ ddl' = ddl /\ Idle'
  BY <1>1 DEF memory, Idle
<1>3. Statement'
  BY <1>1, <1>2, NoDDLFields DEF Statement, Idle
<1>4. Closed' = {} /\ New' = {} /\ NewOpen' = {} /\ ddl'.pc = "none"
  BY <1>2, NoDDLFields DEF Closed, New, NewOpen, At, Idle
<1>5. dml' \subseteq Table
  BY <1>1, Up DEF Types
<1>6. QED
  BY <1>1, <1>3, <1>4, <1>5, Begins DEF Ready

-----------------------------------------------------------------------------
(* The metadata file is truncated and written. *)

(* A statement that truncates the file has left nothing closed. *)
LEMMA WhenFlushing ==
  ASSUME Statement, ddl.pc \in {"truncate", "write", "close", "drop_next"}
  PROVE  Closed = {} /\ New = {} /\ NewOpen = {}
BY DEF Closed, New, NewOpen, At

(* The metadata file is empty from here until it is written. *)
LEMMA TruncateInv == CatalogInv /\ Truncate => CatalogInv'
<1> SUFFICES ASSUME CatalogInv, Truncate PROVE CatalogInv'
  OBVIOUS
<1>1. /\ ddl.pc = "truncate" /\ meta' = {} /\ Goto("write")
      /\ UNCHANGED <<dir, files, dml, memory, history>>
  BY DEF Truncate, At
<1>2. Statement
  BY DEF CatalogInv
<1>3. /\ ddl'.op = ddl.op /\ ddl'.tab = ddl.tab /\ ddl'.cols = ddl.cols /\ ddl'.pc = "write" /\ ddl'.todo = ddl.todo
      /\ (ddl = [op |-> ddl.op, tab |-> ddl.tab, cols |-> ddl.cols, pc |-> ddl.pc, todo |-> ddl.todo])'
  BY <1>1, <1>2, Fields
<1>4. server = "up"
  BY <1>1, <1>2, NoDDLFields DEF Statement, Idle
<1>5. /\ UNCHANGED <<server, db, fhs, ihs, path2fd, done, torn, stray, mishaps>>
      /\ UNCHANGED <<dir, files, dml>>
  BY <1>1 DEF memory, history
<1>6. Statement'
  <2>1. \/ ddl.op = "close_db" /\ ddl.todo = {}
        \/ ddl.op = "create_table" /\ ddl.tab \in Table /\ ddl.todo = {} /\ ddl.tab \in DOMAIN db
        \/ ddl.op = "create_index" /\ ddl.todo = {} /\ ddl.tab \in DOMAIN db /\ ddl.cols \in Ix
        \/ ddl.op = "drop_index" /\ ddl.tab \in DOMAIN db /\ ddl.todo = {}
        \/ /\ ddl.op = "drop_table" /\ ddl.tab \in Table
           /\ \/ ddl.tab \in DOMAIN db /\ ddl.todo = {ddl.tab} \X db[ddl.tab].indexes
              \/ ddl.tab \notin DOMAIN db /\ ddl.todo = {}
    BY <1>1, <1>2, NoDDLFields DEF Statement, Idle
  <2>2. QED
    BY <1>3, <1>4, <1>5, <2>1 DEF Statement
<1>7. Closed = {} /\ New = {} /\ NewOpen = {} /\ Busy' = Busy
  BY <1>1, <1>2, <1>3, WhenFlushing DEF Busy
<1>8. Closed' = {} /\ New' = {} /\ NewOpen' = {}
  BY <1>3 DEF Closed, New, NewOpen, At
<1>9. Types'
  BY <1>4, <1>5, Up DEF Types
<1>10. Catalogs'
  BY <1>1, <1>4, <1>5, Up DEF Catalogs
<1>11. Handles'
  BY <1>1, <1>3, <1>4, <1>5, <1>7, <1>8, Up DEF Handles, At, Never, Opens
<1>12. StraysUp => StraysUp'
  BY <1>5, <1>7, <1>8 DEF StraysUp
<1>13. SavedUp'
  BY <1>1, <1>3 DEF SavedUp, At
<1>14. KeptUp => KeptUp'
  BY <1>5, <1>7 DEF KeptUp
<1>15. QED
  BY <1>4, <1>5, <1>6, <1>9, <1>10, <1>11, <1>12, <1>13, <1>14, UpStep

(* The catalog that create_db writes has no tables. *)
LEMMA WriteFirst == CatalogInv /\ Write /\ server # "up" => CatalogInv'
<1> SUFFICES ASSUME CatalogInv, Write, server # "up" PROVE CatalogInv'
  OBVIOUS
<1>1. ddl.pc = "write" /\ meta' = {db} /\ UNCHANGED <<dir, files, dml, memory>>
  BY DEF Write, At
<1>2. Types /\ Statement
  BY DEF CatalogInv
<1>3. /\ ddl.op = "create_db" /\ ddl.todo = {} /\ server = "down" /\ dir = TRUE /\ db = NoMeta
      /\ DOMAIN files = {LOG_FILE}
  BY <1>1, <1>2, NoDDLFields DEF Statement, Idle
<1>4. ddl' = NoDDL /\ done' = db /\ torn' = {} /\ UNCHANGED <<stray, mishaps>>
  BY <1>3 DEF Write, Complete
<1>5. /\ UNCHANGED <<server, db, fhs, ihs, path2fd, dir, files, dml>> /\ meta' = {NoMeta}
  BY <1>1, <1>3 DEF memory
<1>6. Types'
  BY <1>2, <1>4, <1>5 DEF Types
<1>7. Catalogs'
  BY <1>3, <1>5, EmptyCat DEF Catalogs
<1>8. Statement' /\ Idle'
  BY <1>4, NoDDLFields DEF Statement, Idle
<1>9. Unmade' /\ CanStart'
  BY <1>3, <1>5 DEF Unmade, CanStart
<1>10. StraysDown'
  BY <1>3, <1>5, EmptyCat DEF StraysDown
<1>11. SavedDown'
  BY <1>3, <1>5, EmptyCat DEF SavedDown, Opens
<1>12. KeptDown'
  BY <1>3, <1>4, <1>5 DEF KeptDown, Same
<1>13. QED
  BY <1>3, <1>5, <1>6, <1>7, <1>8, <1>9, <1>10, <1>11, <1>12 DEF CatalogInv

(* What the statements do when the metadata is written. *)
LEMMA AfterWrite ==
  ASSUME CatalogInv, Write, server = "up"
  PROVE  /\ ddl.pc = "write" /\ meta' = {db} /\ UNCHANGED <<dir, files, dml, server, db, fhs, ihs, path2fd, stray, mishaps>>
         /\ \/ ddl.op = "close_db" /\ Goto("close") /\ ddl.todo = {} /\ UNCHANGED <<done, torn>>
            \/ /\ ddl.op = "drop_table" /\ ddl.tab \in DOMAIN db /\ ddl.todo = {ddl.tab} \X db[ddl.tab].indexes
               /\ Goto("drop_next") /\ UNCHANGED <<done, torn>>
            \/ ddl' = NoDDL /\ done' = db /\ torn' = {}
<1>1. ddl.pc = "write" /\ meta' = {db} /\ UNCHANGED <<dir, files, dml, memory>>
  BY DEF Write, At
<1>2. UNCHANGED <<server, db, fhs, ihs, path2fd>>
  BY <1>1 DEF memory
<1>3. \/ ddl.op = "close_db" /\ ddl.todo = {}
      \/ /\ ddl.op = "drop_table" /\ ddl.tab \in DOMAIN db /\ ddl.todo = {ddl.tab} \X db[ddl.tab].indexes
      \/ /\ ddl.op # "close_db" /\ ~(ddl.op = "drop_table" /\ ddl.tab \in DOMAIN db) /\ ddl.todo = {}
  <2>1. Statement
    BY DEF CatalogInv
  <2>2. QED
    BY <1>1, <2>1, NoDDLFields DEF Statement, Idle
<1>4. CASE ddl.op = "close_db"
  <2>1. Goto("close") /\ UNCHANGED history
    BY <1>3, <1>4 DEF Write
  <2>2. QED
    BY <1>1, <1>2, <1>3, <1>4, <2>1 DEF history
<1>5. CASE ddl.op = "drop_table" /\ ddl.tab \in DOMAIN db
  <2>1. Goto("drop_next") /\ UNCHANGED history
    BY <1>5 DEF Write
  <2>2. QED
    BY <1>1, <1>2, <1>3, <1>5, <2>1 DEF history
<1>6. CASE ddl.op # "close_db" /\ ~(ddl.op = "drop_table" /\ ddl.tab \in DOMAIN db)
  <2>1. Complete
    BY <1>3, <1>6 DEF Write
  <2>2. QED
    BY <1>1, <1>2, <2>1 DEF Complete
<1>7. QED
  BY <1>4, <1>5, <1>6

(* The catalog of memory is written; most statements are complete then. *)
LEMMA WriteInv == CatalogInv /\ Write => CatalogInv'
<1> SUFFICES ASSUME CatalogInv, Write, server = "up" PROVE CatalogInv'
  BY WriteFirst
<1>1. /\ ddl.pc = "write" /\ meta' = {db} /\ UNCHANGED <<dir, files, dml, server, db, fhs, ihs, path2fd, stray, mishaps>>
      /\ \/ ddl.op = "close_db" /\ Goto("close") /\ ddl.todo = {} /\ UNCHANGED <<done, torn>>
         \/ /\ ddl.op = "drop_table" /\ ddl.tab \in DOMAIN db /\ ddl.todo = {ddl.tab} \X db[ddl.tab].indexes
            /\ Goto("drop_next") /\ UNCHANGED <<done, torn>>
         \/ ddl' = NoDDL /\ done' = db /\ torn' = {}
  BY AfterWrite
<1>2. Types /\ Statement /\ Catalogs /\ Handles
  BY Up
<1>3. ddl'.pc \in {"close", "drop_next", "none"}
  BY <1>1, <1>2, Fields, NoDDLFields
<1>4. Statement'
  <2>1. CASE ddl.op = "close_db" /\ Goto("close") /\ ddl.todo = {}
    BY <1>1, <1>2, <2>1, Fields DEF Statement
  <2>2. CASE /\ ddl.op = "drop_table" /\ ddl.tab \in DOMAIN db /\ ddl.todo = {ddl.tab} \X db[ddl.tab].indexes
             /\ Goto("drop_next")
    <3>1. ddl.tab \in Table
      BY <1>2, <2>2 DEF Catalogs, Cat
    <3>2. QED
      BY <1>1, <1>2, <2>2, <3>1, Fields DEF Statement
  <2>3. CASE ddl' = NoDDL
    BY <2>3, NoDDLFields DEF Statement, Idle
  <2>4. QED
    BY <1>1, <2>1, <2>2, <2>3
<1>5. Closed = {} /\ New = {} /\ NewOpen = {}
  BY <1>1, <1>2, WhenFlushing
<1>6. Closed' = {} /\ New' = {} /\ NewOpen' = {}
  BY <1>3 DEF Closed, New, NewOpen, At
<1>7. Types'
  BY <1>1, <1>2 DEF Types
<1>8. Catalogs'
  BY <1>1, <1>2 DEF Catalogs
<1>9. Handles'
  BY <1>1, <1>2, <1>3, <1>5, <1>6 DEF Handles, At, Never, Opens
<1>10. StraysUp => StraysUp'
  BY <1>1, <1>5, <1>6 DEF StraysUp
<1>11. SavedUp'
  BY <1>1, <1>3 DEF SavedUp, At
<1>12. KeptUp => KeptUp'
  <2>1. CASE done' = db /\ torn' = {}
    BY <1>1, <2>1 DEF KeptUp, Same
  <2>2. CASE ddl.op \in {"close_db", "drop_table"} /\ Goto("close") /\ UNCHANGED <<done, torn>>
    <3>1. Busy' = Busy
      BY <1>2, <2>2, Fields DEF Busy
    <3>2. QED
      BY <1>1, <2>2, <3>1 DEF KeptUp
  <2>3. CASE ddl.op \in {"close_db", "drop_table"} /\ Goto("drop_next") /\ UNCHANGED <<done, torn>>
    <3>1. Busy' = Busy
      BY <1>2, <2>3, Fields DEF Busy
    <3>2. QED
      BY <1>1, <2>3, <3>1 DEF KeptUp
  <2>4. QED
    BY <1>1, <2>1, <2>2, <2>3
<1>13. QED
  BY <1>1, <1>4, <1>7, <1>8, <1>9, <1>10, <1>11, <1>12, UpStep


(* A process that ends after the metadata was written finds all of it. *)
LEMMA CloseFilesInv == CatalogInv /\ CloseFiles => CatalogInv'
<1> SUFFICES ASSUME CatalogInv, CloseFiles PROVE CatalogInv'
  OBVIOUS
<1>1. /\ ddl.pc = "close" /\ server' = "down" /\ db' = NoMeta /\ fhs' = {} /\ ihs' = {} /\ path2fd' = {}
      /\ ddl' = NoDDL /\ UNCHANGED <<disk, history>>
  BY DEF CloseFiles, Exit, At
<1>2. UNCHANGED <<dir, files, meta, dml, done, torn, stray, mishaps>>
  BY <1>1 DEF disk, history
<1>3. server = "up" /\ ddl.op = "close_db"
  <2>1. Statement
    BY DEF CatalogInv
  <2>2. QED
    BY <1>1, <2>1, NoDDLFields DEF Statement, Idle
<1>4. /\ Types /\ Catalogs /\ Statement /\ Handles /\ dir = TRUE
      /\ Never({"long_key", "crash_in_flush"}) => StraysUp
      /\ Never({"crash_in_flush"}) => SavedUp /\ KeptUp
  BY <1>3, Up
<1>5. Closed = {} /\ New = {} /\ Busy = {}
  BY <1>1, <1>3, <1>4, WhenFlushing DEF Busy
<1>6. Never({"crash_in_flush"}) => meta = {db}
  BY <1>1, <1>4 DEF SavedUp, At
<1>7. Types'
  BY <1>1, <1>2, <1>4 DEF Types
<1>8. Catalogs'
  BY <1>1, <1>2, <1>4, EmptyCat DEF Catalogs
<1>9. Statement' /\ Idle'
  BY <1>1, NoDDLFields DEF Statement, Idle
<1>10. Unmade' /\ CanStart'
  BY <1>1, <1>2, <1>4 DEF Unmade, CanStart
<1>11. (Never({"long_key", "crash_in_flush"}) => StraysDown)'
  <2>1. Never({"long_key", "crash_in_flush"})' => Never({"long_key", "crash_in_flush"}) /\ Never({"crash_in_flush"})
    BY <1>2 DEF Never
  <2>2. QED
    BY <1>2, <1>4, <1>5, <1>6, <2>1 DEF StraysDown, StraysUp
<1>12. (Never({"crash_in_flush"}) => SavedDown /\ KeptDown)'
  <2>1. Never({"crash_in_flush"})' => Never({"crash_in_flush"})
    BY <1>2 DEF Never
  <2>2. \A f \in Owned(db) : Opens(f)
    BY <1>4, <1>5 DEF Handles
  <2>3. meta = {db} => SavedDown'
    BY <1>2, <2>2 DEF SavedDown, Opens
  <2>4. meta = {db} /\ KeptUp => KeptDown'
    BY <1>2, <1>5 DEF KeptDown, KeptUp
  <2>5. QED
    BY <1>4, <1>6, <2>1, <2>3, <2>4
<1>13. QED
  BY <1>1, <1>7, <1>8, <1>9, <1>10, <1>11, <1>12 DEF CatalogInv

-----------------------------------------------------------------------------
(* The database is created and opened. *)

(* create_db makes the directory. *)
LEMMA CreateDbInv == CatalogInv /\ create_db => CatalogInv'
<1> SUFFICES ASSUME CatalogInv, create_db PROVE CatalogInv'
  OBVIOUS
<1>1. /\ server = "down" /\ ~dir /\ dir' = TRUE
      /\ ddl' = [NoDDL EXCEPT !.op = "create_db", !.pc = "create_log"]
      /\ UNCHANGED <<files, meta, dml, memory, history>>
  BY DEF create_db
<1>2. ddl' = [op |-> "create_db", tab |-> <<>>, cols |-> <<>>, pc |-> "create_log", todo |-> {}]
  BY <1>1 DEF NoDDL
<1>3. UNCHANGED <<server, db, fhs, ihs, path2fd, files, meta, dml, done, torn, stray, mishaps>>
  BY <1>1 DEF memory, history
<1>4. Types /\ Catalogs
  BY DEF CatalogInv
<1>5. db = NoMeta /\ meta = {} /\ DOMAIN files = {}
  BY <1>1, <1>4 DEF CatalogInv, Unmade, Types
<1>6. Types' /\ Catalogs'
  BY <1>1, <1>3, <1>4 DEF Types, Catalogs
<1>7. Statement' /\ ~Idle'
  BY <1>1, <1>2, <1>3, <1>5, NoDDLFields DEF Statement, Idle
<1>8. Unmade' /\ CanStart'
  BY <1>1, <1>3 DEF Unmade, CanStart
<1>9. StraysDown' /\ SavedDown' /\ KeptDown'
  BY <1>3, <1>5, <1>7 DEF StraysDown, SavedDown, KeptDown
<1>10. QED
  BY <1>1, <1>3, <1>6, <1>7, <1>8, <1>9 DEF CatalogInv

(* The log file is the first file of the database. *)
LEMMA CreateLogInv == CatalogInv /\ CreateLog => CatalogInv'
<1> SUFFICES ASSUME CatalogInv, CreateLog PROVE CatalogInv'
  OBVIOUS
<1>1. /\ ddl.pc = "create_log" /\ files' = With(files, LOG_FILE, "empty") /\ Goto("write")
      /\ UNCHANGED <<dir, meta, dml, memory, history>>
  BY DEF CreateLog, create_file, At
<1>2. UNCHANGED <<server, db, fhs, ihs, path2fd, dir, meta, dml, done, torn, stray, mishaps>>
  BY <1>1 DEF memory, history
<1>3. Types /\ Catalogs /\ Statement
  BY DEF CatalogInv
<1>4. /\ ddl.op = "create_db" /\ ddl.todo = {} /\ server = "down" /\ dir = TRUE /\ db = NoMeta /\ meta = {}
      /\ DOMAIN files = {}
  BY <1>1, <1>3, NoDDLFields DEF Statement, Idle
<1>5. DOMAIN files' = {LOG_FILE} /\ files'[LOG_FILE] = "empty"
  BY ONLY <1>1, <1>4 DEF With
<1>6. /\ ddl'.op = "create_db" /\ ddl'.pc = "write" /\ ddl'.todo = {}
      /\ (ddl = [op |-> ddl.op, tab |-> ddl.tab, cols |-> ddl.cols, pc |-> ddl.pc, todo |-> ddl.todo])'
  BY <1>1, <1>3, <1>4, Fields
<1>7. Types' /\ Catalogs'
  <2>1. LOG_FILE \in File
    BY DEF File
  <2>2. Types'
    BY <1>2, <1>3, <1>5, <2>1 DEF Types
  <2>3. QED
    BY <1>2, <1>3, <2>2 DEF Catalogs
<1>8. Statement' /\ ~Idle'
  BY <1>2, <1>4, <1>5, <1>6, NoDDLFields DEF Statement, Idle
<1>9. Unmade' /\ CanStart'
  BY <1>2, <1>4 DEF Unmade, CanStart
<1>10. StraysDown' /\ SavedDown' /\ KeptDown'
  BY <1>2, <1>4, <1>8 DEF StraysDown, SavedDown, KeptDown
<1>11. QED
  BY <1>2, <1>4, <1>7, <1>8, <1>9, <1>10 DEF CatalogInv


(* What analyze has to do. *)
LEMMA AnalyzeIs ==
  ASSUME NEW d, analyze(d)
  PROVE  \/ ddl' = NoDDL
         \/ /\ server' = "up"
            /\ \E S : /\ ddl' = [op |-> "analyze", tab |-> <<>>, cols |-> <<>>, pc |-> "recreate", todo |-> S]
                      /\ \A x \in S : x = <<x[1], x[2]>> /\ x[1] \in DOMAIN d /\ x[2] \in d[x[1]].indexes
<1> DEFINE todo == UNION {{t} \X d[t].indexes : t \in dml \cap DOMAIN d}
<1>1. ddl' = IF server' = "up" /\ todo # {}
             THEN [NoDDL EXCEPT !.op = "analyze", !.pc = "recreate", !.todo = todo] ELSE NoDDL
  BY DEF analyze
<1>2. \A x \in todo : x = <<x[1], x[2]>> /\ x[1] \in DOMAIN d /\ x[2] \in d[x[1]].indexes
  OBVIOUS
<1> HIDE DEF todo
<1>3. CASE server' = "up" /\ todo # {}
  <2>1. ddl' = [NoDDL EXCEPT !.op = "analyze", !.pc = "recreate", !.todo = todo]
    BY <1>1, <1>3
  <2>2. ddl' = [op |-> "analyze", tab |-> <<>>, cols |-> <<>>, pc |-> "recreate", todo |-> todo]
    BY <2>1 DEF NoDDL
  <2>3. QED
    BY <1>2, <1>3, <2>2
<1>4. QED
  BY <1>1, <1>3

(* A server that starts, or fails to, with the catalog it has read. *)
LEMMA OpenInv ==
  ASSUME CatalogInv, server # "up", dir, Idle, UNCHANGED <<disk, history>>,
         NEW d, d \in meta \/ (meta = {} /\ d = NoMeta), open_db(d), analyze(d)
  PROVE  CatalogInv'
<1>1. UNCHANGED <<dir, files, meta, dml, done, torn, stray, mishaps>>
  BY DEF disk, history
<1>2. Types /\ Catalogs /\ Unmade /\ dir = TRUE
  BY DEF CatalogInv, Types
<1>3. /\ Never({"long_key", "crash_in_flush"}) => StraysDown
      /\ Never({"crash_in_flush"}) => SavedDown /\ KeptDown
  BY DEF CatalogInv
<1>4. Cat(d)
  BY <1>2, EmptyCat DEF Catalogs
<1>5. /\ server' = IF (\A f \in Owned(d) : Opens(f)) /\ dml \subseteq DOMAIN d THEN "up" ELSE "failed"
      /\ db' = d /\ fhs' = DOMAIN d /\ ihs' = IndexFiles(d) /\ path2fd' = Owned(d)
  BY DEF open_db
<1>6. DOMAIN d \subseteq Table /\ IndexFiles(d) \subseteq File /\ Owned(d) \subseteq File
  BY <1>4, OwnedAreFiles DEF Cat
<1>7. LOG_FILE \in Owned(d)
  BY OwnedAre
<1>8. Types'
  BY <1>1, <1>2, <1>5, <1>6 DEF Types
<1>9. Catalogs'
  BY <1>1, <1>2, <1>4, <1>5 DEF Catalogs
<1>10. Unmade'
  BY <1>1, <1>2 DEF Unmade
<1>11. CASE server' = "failed"
  <2>1. ddl' = NoDDL /\ Idle'
    BY <1>11, AnalyzeIs DEF Idle
  <2>2. Statement'
    BY <2>1, NoDDLFields DEF Statement
  <2>3. CanStart'
    <3>1. SUFFICES ASSUME Never(CrashMishaps) PROVE \E e \in meta : ~(dml \subseteq DOMAIN e)
      BY <1>1 DEF CanStart, Never
    <3>2. Never({"crash_in_flush"}) /\ Never({"crash_in_create_db"})
      BY <3>1 DEF Never, CrashMishaps
    <3>3. (\E e \in meta : meta = {e}) /\ \A e \in meta : \A f \in Owned(e) : Opens(f)
      BY <1>2, <1>3, <3>1, <3>2 DEF SavedDown
    <3>4. QED
      BY <1>5, <1>11, <3>3
  <2>4. (Never({"long_key", "crash_in_flush"}) => StraysDown)'
    BY <1>1, <1>3, <2>1 DEF StraysDown, Never
  <2>5. (Never({"crash_in_flush"}) => SavedDown /\ KeptDown)'
    <3>1. Never({"crash_in_flush"})' => Never({"crash_in_flush"})
      BY <1>1 DEF Never
    <3>2. SavedDown => SavedDown'
      BY <1>1, <2>1 DEF SavedDown, Never, Opens
    <3>3. KeptDown => KeptDown'
      BY <1>1 DEF KeptDown
    <3>4. QED
      BY <1>3, <3>1, <3>2, <3>3
  <2>6. QED
    BY <1>8, <1>9, <1>10, <1>11, <2>2, <2>3, <2>4, <2>5 DEF CatalogInv
<1>12. CASE server' = "up"
  <2>1. \A f \in Owned(d) : Opens(f)
    BY <1>5, <1>12
  <2>2. LOG_FILE \in DOMAIN files
    BY <1>7, <2>1 DEF Opens
  <2>3. Statement' /\ ddl'.pc \in {"none", "recreate"} /\ ddl'.op \in {"none", "analyze"}
    <3>1. CASE ddl' = NoDDL
      BY <3>1, NoDDLFields DEF Statement, Idle
    <3>2. ASSUME NEW S, ddl' = [op |-> "analyze", tab |-> <<>>, cols |-> <<>>, pc |-> "recreate", todo |-> S],
                 \A x \in S : x = <<x[1], x[2]>> /\ x[1] \in DOMAIN d /\ x[2] \in d[x[1]].indexes
          PROVE  Statement' /\ ddl'.pc \in {"none", "recreate"} /\ ddl'.op \in {"none", "analyze"}
      BY <1>5, <1>12, <3>2 DEF Statement, Index
    <3>3. QED
      BY <3>1, <3>2, AnalyzeIs
  <2>4. Closed' = {} /\ New' = {} /\ NewOpen' = {} /\ Busy' = {}
    BY <2>3 DEF Closed, New, NewOpen, Busy, At
  <2>5. Handles'
    BY <1>1, <1>5, <2>1, <2>3, <2>4 DEF Handles, At, Never, Opens
  <2>6. CanStart'
    BY <1>12 DEF CanStart
  <2>7. (Never({"long_key", "crash_in_flush"}) => StraysUp)'
    <3>1. Never({"long_key", "crash_in_flush"})' => Never({"long_key", "crash_in_flush"})
      BY <1>1 DEF Never
    <3>2. StraysDown => StraysUp'
      BY <1>1, <1>5, <2>2, <2>4 DEF StraysDown, StraysUp
    <3>3. QED
      BY <1>3, <3>1, <3>2
  <2>8. (Never({"crash_in_flush"}) => SavedUp /\ KeptUp)'
    <3>1. Never({"crash_in_flush"})' => SavedDown /\ KeptDown
      BY <1>1, <1>3 DEF Never
    <3>2. SavedDown => meta = {d}
      BY <1>2, <2>2 DEF SavedDown
    <3>3. SavedDown => SavedUp'
      BY <1>1, <1>5, <2>3, <3>2 DEF SavedUp, At
    <3>4. SavedDown /\ KeptDown => KeptUp'
      BY <1>1, <1>5, <2>4, <3>2 DEF KeptDown, KeptUp
    <3>5. QED
      BY <3>1, <3>3, <3>4
  <2>9. QED
    BY <1>8, <1>9, <1>10, <1>12, <2>3, <2>5, <2>6, <2>7, <2>8 DEF CatalogInv
<1>13. QED
  BY <1>5, <1>11, <1>12

(* A server that reads a number of tables that is not there. *)
LEMMA StartInv == CatalogInv /\ Start => CatalogInv'
<1> SUFFICES ASSUME CatalogInv, Start PROVE CatalogInv'
  OBVIOUS
<1>1. server # "up" /\ dir /\ Idle /\ UNCHANGED <<disk, history>>
  BY DEF Start
<1>2. ASSUME NEW d \in meta, open_db(d), analyze(d) PROVE CatalogInv'
  BY <1>1, <1>2, OpenInv
<1>3. CASE meta = {} /\ open_db(NoMeta) /\ analyze(NoMeta)
  BY <1>1, <1>3, OpenInv
<1>4. CASE meta = {} /\ server' = "failed" /\ UNCHANGED <<db, fhs, ihs, path2fd, ddl>>
  <2>1. UNCHANGED <<dir, files, meta, dml, done, torn, stray, mishaps>>
    BY <1>1 DEF disk, history
  <2>2. Types /\ Catalogs /\ Unmade /\ dir = TRUE /\ Statement
    BY <1>1 DEF CatalogInv, Types
  <2>3. /\ Never({"long_key", "crash_in_flush"}) => StraysDown
        /\ Never({"crash_in_flush"}) => SavedDown /\ KeptDown
    BY <1>1 DEF CatalogInv
  <2>4. Types' /\ Catalogs' /\ Unmade'
    BY <1>4, <2>1, <2>2 DEF Types, Catalogs, Unmade
  <2>5. Statement' /\ Idle'
    BY <1>1, <1>4, NoDDLFields DEF Statement, Idle
  <2>6. CanStart'
    <3>1. SUFFICES ASSUME Never(CrashMishaps) PROVE FALSE
      BY <2>1 DEF CanStart, Never
    <3>2. Never({"crash_in_flush"}) /\ Never({"crash_in_create_db"})
      BY <3>1 DEF Never, CrashMishaps
    <3>3. QED
      BY <1>1, <1>4, <2>2, <2>3, <3>2 DEF SavedDown
  <2>7. (Never({"long_key", "crash_in_flush"}) => StraysDown)'
    BY <1>1, <2>1, <2>3, <2>5 DEF StraysDown, Never
  <2>8. (Never({"crash_in_flush"}) => SavedDown /\ KeptDown)'
    <3>1. Never({"crash_in_flush"})' => Never({"crash_in_flush"})
      BY <2>1 DEF Never
    <3>2. SavedDown => SavedDown'
      BY <1>1, <2>1, <2>5 DEF SavedDown, Never, Opens
    <3>3. KeptDown => KeptDown'
      BY <2>1 DEF KeptDown
    <3>4. QED
      BY <2>3, <3>1, <3>2, <3>3
  <2>9. QED
    BY <1>4, <2>4, <2>5, <2>6, <2>7, <2>8 DEF CatalogInv
<1>5. QED
  BY <1>2, <1>3, <1>4 DEF Start


-----------------------------------------------------------------------------
(* Tables. *)

(* What making, formatting and unlinking a file does to the others. *)
LEMMA CreateFile ==
  ASSUME Types, NEW f \in File, create_file(f)
  PROVE  /\ f \notin DOMAIN files /\ DOMAIN files' = DOMAIN files \cup {f} /\ DOMAIN files' \subseteq File
         /\ \A g \in DOMAIN files' : files'[g] \in {"empty", "formatted"}
         /\ \A g : Opens(g) => Opens(g)'
<1>1. f \notin DOMAIN files /\ files' = With(files, f, "empty")
  BY DEF create_file
<1>2. /\ DOMAIN files' = DOMAIN files \cup {f} /\ files'[f] = "empty"
      /\ \A g \in DOMAIN files : g # f => files'[g] = files[g]
  BY ONLY <1>1 DEF With
<1>3. \A g : Opens(g) => Opens(g)'
  BY <1>1, <1>2 DEF Opens
<1>4. QED
  BY <1>1, <1>2, <1>3 DEF Types

(* A file that was formatted can be opened, and no other changes. *)
LEMMA FormatFile ==
  ASSUME Types, NEW f \in File, Format(f)
  PROVE  /\ DOMAIN files' = DOMAIN files \cup {f} /\ DOMAIN files' \subseteq File
         /\ \A g \in DOMAIN files' : files'[g] \in {"empty", "formatted"}
         /\ Opens(f)' /\ \A g : Opens(g) => Opens(g)'
<1>1. files' = With(files, f, "formatted")
  BY DEF Format
<1>2. /\ DOMAIN files' = DOMAIN files \cup {f} /\ files'[f] = "formatted"
      /\ \A g \in DOMAIN files : g # f => files'[g] = files[g]
  BY ONLY <1>1 DEF With
<1>3. Opens(f)' /\ \A g : Opens(g) => Opens(g)'
  BY <1>1, <1>2 DEF Opens
<1>4. QED
  BY <1>1, <1>2, <1>3 DEF Types

(* destroy_file takes one file away, and no other changes. *)
LEMMA DestroyFile ==
  ASSUME Types, NEW f, destroy_file(f)
  PROVE  /\ DOMAIN files' = DOMAIN files \ {f} /\ DOMAIN files' \subseteq File
         /\ \A g \in DOMAIN files' : files'[g] \in {"empty", "formatted"}
         /\ \A g : g # f /\ Opens(g) => Opens(g)'
<1>1. files' = Without(files, f)
  BY DEF destroy_file
<1>2. /\ DOMAIN files' = DOMAIN files \ {f}
      /\ \A g \in DOMAIN files : g # f => files'[g] = files[g]
  BY ONLY <1>1 DEF Without
<1>3. \A g : g # f /\ Opens(g) => Opens(g)'
  BY <1>1, <1>2 DEF Opens
<1>4. QED
  BY <1>1, <1>2, <1>3 DEF Types

(* The name of a table's or an index's file is that of a file. *)
LEMMA NamesAreFiles ==
  /\ \A t \in Table : TableFile(t) \in File
  /\ \A t \in Table : \A c \in Ix : get_index_name(t, c) \in File
BY DEF File

(* A new table's file is there. *)
LEMMA CreateTableInv == ASSUME NEW t \in Table PROVE CatalogInv /\ create_table(t) => CatalogInv'
<1> SUFFICES ASSUME CatalogInv, create_table(t) PROVE CatalogInv'
  OBVIOUS
<1>1. /\ server = "up" /\ Idle /\ t \notin DOMAIN db /\ create_file(TableFile(t))
      /\ ddl' = [NoDDL EXCEPT !.op = "create_table", !.tab = t, !.pc = "format"]
      /\ UNCHANGED <<dir, meta, dml, memory, history>>
  BY DEF create_table
<1>2. ddl' = [op |-> "create_table", tab |-> t, cols |-> <<>>, pc |-> "format", todo |-> {}]
  BY <1>1 DEF NoDDL
<1>3. UNCHANGED <<server, db, fhs, ihs, path2fd, dir, meta, dml, done, torn, stray, mishaps>>
  BY <1>1 DEF memory, history
<1>4. Types /\ Catalogs /\ Handles
  BY <1>1, Up
<1>5. /\ DOMAIN files' = DOMAIN files \cup {TableFile(t)} /\ DOMAIN files' \subseteq File
      /\ \A g \in DOMAIN files' : files'[g] \in {"empty", "formatted"}
      /\ \A g : Opens(g) => Opens(g)'
  BY <1>1, <1>4, CreateFile, NamesAreFiles
<1>6. Closed = {} /\ New = {} /\ NewOpen = {} /\ Busy = {} /\ ddl.pc = "none"
  BY <1>1, WhenIdle
<1>7. Closed' = {} /\ New' = {TableFile(t)} /\ NewOpen' = {} /\ ddl'.pc = "format" /\ Busy' = {t}
  BY <1>2 DEF Closed, New, NewOpen, At, Busy
<1>8. Types'
  BY <1>3, <1>4, <1>5 DEF Types
<1>9. Catalogs'
  BY <1>3, <1>4 DEF Catalogs
<1>10. Statement'
  <2>1. /\ ddl'.op = "create_table" /\ ddl'.tab = t /\ ddl'.pc = "format" /\ ddl'.todo = {}
        /\ (ddl = [op |-> ddl.op, tab |-> ddl.tab, cols |-> ddl.cols, pc |-> ddl.pc, todo |-> ddl.todo])'
    BY ONLY <1>2
  <2>2. QED
    BY <1>1, <1>3, <2>1 DEF Statement
<1>11. Handles'
  BY <1>3, <1>4, <1>5, <1>6, <1>7 DEF Handles, At, Never
<1>12. StraysUp => StraysUp'
  BY <1>3, <1>5, <1>6, <1>7 DEF StraysUp
<1>13. SavedUp => SavedUp'
  BY <1>3, <1>6, <1>7 DEF SavedUp, At
<1>14. KeptUp => KeptUp'
  BY <1>3, <1>6, <1>7 DEF KeptUp
<1>15. QED
  BY <1>1, <1>3, <1>8, <1>9, <1>10, <1>11, <1>12, <1>13, <1>14, UpStep

(* It gets its header. *)
LEMMA CreateTableFormatInv == CatalogInv /\ CreateTableFormat => CatalogInv'
<1> SUFFICES ASSUME CatalogInv, CreateTableFormat PROVE CatalogInv'
  OBVIOUS
<1>1. /\ ddl.op = "create_table" /\ ddl.pc = "format" /\ Format(TableFile(ddl.tab)) /\ Goto("register")
      /\ UNCHANGED <<dir, meta, dml, memory, history>>
  BY DEF CreateTableFormat, At
<1>2. Statement
  BY DEF CatalogInv
<1>3. server = "up" /\ ddl.tab \in Table /\ ddl.todo = {} /\ ddl.tab \notin DOMAIN db
  BY <1>1, <1>2, NoDDLFields DEF Statement, Idle
<1> PICK t \in Table : t = ddl.tab
  BY <1>3
<1>4. /\ ddl'.op = "create_table" /\ ddl'.tab = ddl.tab /\ ddl'.pc = "register" /\ ddl'.todo = ddl.todo
      /\ (ddl = [op |-> ddl.op, tab |-> ddl.tab, cols |-> ddl.cols, pc |-> ddl.pc, todo |-> ddl.todo])'
  BY <1>1, <1>2, Fields
<1>5. UNCHANGED <<server, db, fhs, ihs, path2fd, dir, meta, dml, done, torn, stray, mishaps>>
  BY <1>1 DEF memory, history
<1>6. Types /\ Catalogs /\ Handles
  BY <1>3, Up
<1>7. /\ Closed = {} /\ New = {TableFile(t)} /\ NewOpen = {} /\ Busy = {t}
      /\ Closed' = {} /\ New' = {TableFile(t)} /\ NewOpen' = {} /\ Busy' = {t}
  BY <1>1, <1>4 DEF Closed, New, NewOpen, At, Busy
<1>8. /\ DOMAIN files' = DOMAIN files \cup {TableFile(t)} /\ DOMAIN files' \subseteq File
      /\ \A g \in DOMAIN files' : files'[g] \in {"empty", "formatted"}
      /\ Opens(TableFile(t))' /\ \A g : Opens(g) => Opens(g)'
  BY <1>1, <1>3, <1>6, FormatFile, NamesAreFiles
<1>9. Types'
  BY <1>5, <1>6, <1>8 DEF Types
<1>10. Catalogs'
  BY <1>5, <1>6 DEF Catalogs
<1>11. Statement'
  BY <1>3, <1>4, <1>5 DEF Statement
<1>12. \A f \in New' : Opens(f)'
  BY <1>7, <1>8
<1>13. Handles'
  BY <1>1, <1>4, <1>5, <1>6, <1>7, <1>8, <1>12 DEF Handles, At, Never
<1>14. StraysUp => StraysUp'
  BY <1>5, <1>7, <1>8 DEF StraysUp
<1>15. SavedUp => SavedUp'
  BY <1>1, <1>4, <1>5 DEF SavedUp, At
<1>16. KeptUp => KeptUp'
  BY <1>5, <1>7 DEF KeptUp
<1>17. QED
  BY <1>3, <1>5, <1>9, <1>10, <1>11, <1>13, <1>14, <1>15, <1>16, UpStep


(* The table is in the catalog of memory and not yet in the file. *)
LEMMA CreateTableRegisterInv == CatalogInv /\ CreateTableRegister => CatalogInv'
<1> SUFFICES ASSUME CatalogInv, CreateTableRegister PROVE CatalogInv'
  OBVIOUS
<1>1. /\ ddl.op = "create_table" /\ ddl.pc = "register" /\ db' = With(db, ddl.tab, NewTab)
      /\ fhs' = fhs \cup {ddl.tab} /\ path2fd' = path2fd \cup {TableFile(ddl.tab)} /\ Goto("truncate")
      /\ UNCHANGED <<disk, server, ihs, history>>
  BY DEF CreateTableRegister, At, AfterRegister
<1>2. Statement
  BY DEF CatalogInv
<1>3. server = "up" /\ ddl.tab \in Table /\ ddl.todo = {} /\ ddl.tab \notin DOMAIN db
  BY <1>1, <1>2, NoDDLFields DEF Statement, Idle
<1> PICK t \in Table : t = ddl.tab
  BY <1>3
<1>4. /\ ddl'.op = "create_table" /\ ddl'.tab = t /\ ddl'.pc = "truncate" /\ ddl'.todo = {}
      /\ (ddl = [op |-> ddl.op, tab |-> ddl.tab, cols |-> ddl.cols, pc |-> ddl.pc, todo |-> ddl.todo])'
  BY <1>1, <1>2, <1>3, Fields
<1>5. UNCHANGED <<server, ihs, dir, files, meta, dml, done, torn, stray, mishaps>>
  BY <1>1 DEF disk, history
<1>6. Types /\ Catalogs /\ Handles
  BY <1>3, Up
<1>7. /\ Closed = {} /\ New = {TableFile(t)} /\ NewOpen = {} /\ Busy = {t}
      /\ Closed' = {} /\ New' = {} /\ NewOpen' = {} /\ Busy' = {t}
  BY <1>1, <1>4 DEF Closed, New, NewOpen, At, Busy
<1>8. /\ Cat(db') /\ DOMAIN db' = DOMAIN db \cup {t} /\ IndexFiles(db') = IndexFiles(db)
      /\ Owned(db') = Owned(db) \cup {TableFile(t)} /\ \A u : u # t => Same(db, db', u)
  <2>1. Cat(db) /\ t \notin DOMAIN db /\ db' = With(db, t, NewTab)
    BY <1>1, <1>3, <1>6 DEF Catalogs
  <2>2. Grown(db, db', t, TableFile(t)) /\ DOMAIN db' = DOMAIN db \cup {t} /\ IndexFiles(db') = IndexFiles(db)
    BY ONLY <2>1, t \in Table, OneTableMore
  <2>3. QED
    BY ONLY <2>2 DEF Grown
<1>9. Types'
  BY <1>1, <1>5, <1>6, NamesAreFiles DEF Types
<1>10. Catalogs'
  BY <1>5, <1>6, <1>8 DEF Catalogs
<1>11. Statement'
  BY <1>3, <1>4, <1>5, <1>8 DEF Statement
<1>12. Opens(TableFile(t)) /\ \A f \in Owned(db) : Opens(f)
  BY <1>1, <1>6, <1>7 DEF Handles, At
<1>13. \A f \in Owned(db') : Opens(f)'
  BY <1>5, <1>8, <1>12 DEF Opens
<1>14. Handles'
  BY <1>1, <1>4, <1>5, <1>6, <1>7, <1>8, <1>13 DEF Handles, At, Never
<1>15. StraysUp => StraysUp'
  BY <1>5, <1>7, <1>8 DEF StraysUp
<1>16. SavedUp => SavedUp'
  BY <1>1, <1>4, <1>5, <1>7, <1>8 DEF SavedUp, At
<1>17. KeptUp => KeptUp'
  BY <1>5, <1>7, <1>8 DEF KeptUp, Same
<1>18. QED
  BY <1>3, <1>5, <1>9, <1>10, <1>11, <1>14, <1>15, <1>16, <1>17, UpStep

(* A table without indexes loses its file first. *)
LEMMA DropTableFileInv == CatalogInv /\ DropTableFile => CatalogInv'
<1> SUFFICES ASSUME CatalogInv, DropTableFile PROVE CatalogInv'
  OBVIOUS
<1>1. /\ ddl.pc = "drop_next" /\ ddl.todo = {} /\ fhs' = fhs \ {ddl.tab}
      /\ path2fd' = path2fd \ {TableFile(ddl.tab)} /\ destroy_file(TableFile(ddl.tab)) /\ Goto("erase_table")
      /\ UNCHANGED <<dir, meta, dml, server, db, ihs, history>>
  BY DEF DropTableFile, At
<1>2. Statement
  BY DEF CatalogInv
<1>3. server = "up" /\ ddl.op = "drop_table" /\ ddl.tab \in Table /\ ddl.tab \in DOMAIN db /\ db[ddl.tab].indexes = {}
  <2>1. /\ server = "up" /\ ddl.op = "drop_table" /\ ddl.tab \in Table /\ ddl.tab \in DOMAIN db
        /\ {} = {ddl.tab} \X db[ddl.tab].indexes
    BY <1>1, <1>2, NoDDLFields DEF Statement, Idle
  <2>2. \A S, x : {} = {x} \X S => S = {}
    <3>1. ASSUME NEW S, NEW x, NEW y \in S PROVE <<x, y>> \in {x} \X S
      OBVIOUS
    <3>2. QED
      BY ONLY <3>1
  <2>3. QED
    BY ONLY <2>1, <2>2
<1> PICK t \in Table : t = ddl.tab
  BY <1>3
<1>4. /\ ddl'.op = "drop_table" /\ ddl'.tab = t /\ ddl'.pc = "erase_table" /\ ddl'.todo = {}
      /\ (ddl = [op |-> ddl.op, tab |-> ddl.tab, cols |-> ddl.cols, pc |-> ddl.pc, todo |-> ddl.todo])'
  BY <1>1, <1>2, <1>3, Fields
<1>5. UNCHANGED <<server, db, ihs, dir, meta, dml, done, torn, stray, mishaps>>
  BY <1>1 DEF history
<1>6. Types /\ Catalogs /\ Handles
  BY <1>3, Up
<1>7. /\ Closed = {} /\ New = {} /\ NewOpen = {} /\ Busy = {t}
      /\ Closed' = {TableFile(t)} /\ New' = {} /\ NewOpen' = {} /\ Busy' = {t}
  BY <1>1, <1>3, <1>4 DEF Closed, New, NewOpen, At, Busy
<1>8. /\ DOMAIN files' = DOMAIN files \ {TableFile(t)} /\ DOMAIN files' \subseteq File
      /\ \A g \in DOMAIN files' : files'[g] \in {"empty", "formatted"}
      /\ \A g : g # TableFile(t) /\ Opens(g) => Opens(g)'
  BY <1>1, <1>6, DestroyFile
<1>9. Types'
  BY <1>1, <1>5, <1>6, <1>8 DEF Types
<1>10. Catalogs'
  BY <1>5, <1>6 DEF Catalogs
<1>11. Statement'
  BY <1>3, <1>4, <1>5 DEF Statement
<1>12. IndexFiles(db) = IndexFiles(db) \ {TableFile(t)}
  BY ONLY TableFileOrIndex
<1>13. Handles'
  BY <1>1, <1>4, <1>5, <1>6, <1>7, <1>8, <1>12 DEF Handles, At, Never
<1>14. StraysUp => StraysUp'
  BY <1>5, <1>7, <1>8 DEF StraysUp
<1>15. SavedUp => SavedUp'
  BY <1>1, <1>4, <1>5 DEF SavedUp, At
<1>16. KeptUp => KeptUp'
  BY <1>5, <1>7 DEF KeptUp
<1>17. QED
  BY <1>3, <1>5, <1>9, <1>10, <1>11, <1>13, <1>14, <1>15, <1>16, UpStep

(* Then it leaves the catalog. *)
LEMMA DropTableEraseInv == CatalogInv /\ DropTableErase => CatalogInv'
<1> SUFFICES ASSUME CatalogInv, DropTableErase PROVE CatalogInv'
  OBVIOUS
<1>1. /\ ddl.pc = "erase_table" /\ db' = Without(db, ddl.tab) /\ Goto("truncate")
      /\ UNCHANGED <<disk, server, fhs, ihs, path2fd, history>>
  BY DEF DropTableErase, At
<1>2. Statement
  BY DEF CatalogInv
<1>3. /\ server = "up" /\ ddl.op = "drop_table" /\ ddl.tab \in Table /\ ddl.tab \in DOMAIN db
      /\ db[ddl.tab].indexes = {} /\ ddl.todo = {}
  BY <1>1, <1>2, NoDDLFields DEF Statement, Idle
<1> PICK t \in Table : t = ddl.tab
  BY <1>3
<1>4. /\ ddl'.op = "drop_table" /\ ddl'.tab = t /\ ddl'.pc = "truncate" /\ ddl'.todo = {}
      /\ (ddl = [op |-> ddl.op, tab |-> ddl.tab, cols |-> ddl.cols, pc |-> ddl.pc, todo |-> ddl.todo])'
  BY <1>1, <1>2, <1>3, Fields
<1>5. UNCHANGED <<server, fhs, ihs, path2fd, dir, files, meta, dml, done, torn, stray, mishaps>>
  BY <1>1 DEF disk, history
<1>6. Types /\ Catalogs /\ Handles
  BY <1>3, Up
<1>7. /\ Closed = {TableFile(t)} /\ New = {} /\ NewOpen = {} /\ Busy = {t}
      /\ Closed' = {} /\ New' = {} /\ NewOpen' = {} /\ Busy' = {t}
  BY <1>1, <1>3, <1>4 DEF Closed, New, NewOpen, At, Busy
<1>8. /\ Cat(db') /\ DOMAIN db' = DOMAIN db \ {t} /\ IndexFiles(db') = IndexFiles(db)
      /\ Owned(db') = Owned(db) \ {TableFile(t)} /\ \A u : u # t => Same(db, db', u)
  <2>1. Cat(db) /\ t \in DOMAIN db /\ db[t].indexes = {} /\ db' = Without(db, t)
    BY <1>1, <1>3, <1>6 DEF Catalogs
  <2>2. Shrunk(db, db', t, TableFile(t)) /\ DOMAIN db' = DOMAIN db \ {t} /\ IndexFiles(db') = IndexFiles(db)
    BY ONLY <2>1, OneTableLess
  <2>3. QED
    BY ONLY <2>2 DEF Shrunk
<1>9. Types'
  BY <1>5, <1>6 DEF Types
<1>10. Catalogs'
  BY <1>5, <1>6, <1>8 DEF Catalogs
<1>11. Statement'
  BY <1>3, <1>4, <1>5, <1>8 DEF Statement
<1>12. IndexFiles(db) = IndexFiles(db) \ {TableFile(t)}
  BY ONLY TableFileOrIndex
<1>13. Handles'
  BY <1>1, <1>4, <1>5, <1>6, <1>7, <1>8, <1>12 DEF Handles, At, Never, Opens
<1>14. TableFile(t) \notin DOMAIN files
  BY <1>1, <1>6, <1>7 DEF Handles, At
<1>15. StraysUp => StraysUp'
  BY <1>5, <1>7, <1>8, <1>14 DEF StraysUp
<1>16. SavedUp => SavedUp'
  BY <1>1, <1>4, <1>5, <1>7, <1>8 DEF SavedUp, At
<1>17. KeptUp => KeptUp'
  BY <1>5, <1>7, <1>8 DEF KeptUp, Same
<1>18. QED
  BY <1>3, <1>5, <1>9, <1>10, <1>11, <1>13, <1>15, <1>16, <1>17, UpStep


-----------------------------------------------------------------------------
(* Indexes. *)

(* The file of a new index is there, and stays when the key is too long. *)
LEMMA CreateIndexInv ==
  ASSUME NEW t \in Table, NEW c \in Ix PROVE CatalogInv /\ create_index(t, c) => CatalogInv'
<1> SUFFICES ASSUME CatalogInv, create_index(t, c) PROVE CatalogInv'
  OBVIOUS
<1> DEFINE f == get_index_name(t, c)
<1>1. /\ server = "up" /\ Idle /\ t \in DOMAIN db /\ create_file(f)
      /\ UNCHANGED <<dir, meta, dml, server, db, fhs, ihs>>
      /\ \/ /\ ddl' = [NoDDL EXCEPT !.op = "create_index", !.tab = t, !.cols = c, !.pc = "format"]
            /\ UNCHANGED <<path2fd, history>>
         \/ /\ path2fd' = path2fd \cup {f} /\ mishaps' = mishaps \cup {"long_key"}
            /\ UNCHANGED <<ddl, done, torn, stray>>
  BY DEF create_index, Mishaps
<1>2. Types /\ Catalogs /\ Handles
  BY <1>1, Up
<1>3. f \in File
  BY NamesAreFiles
<1>4. /\ f \notin DOMAIN files /\ DOMAIN files' = DOMAIN files \cup {f} /\ DOMAIN files' \subseteq File
      /\ \A g \in DOMAIN files' : files'[g] \in {"empty", "formatted"}
      /\ \A g : Opens(g) => Opens(g)'
  BY <1>1, <1>2, <1>3, CreateFile
<1>5. Closed = {} /\ New = {} /\ NewOpen = {} /\ Busy = {} /\ ddl.pc = "none"
  BY <1>1, WhenIdle
<1>6. f \notin IndexFiles(db)
  <2>1. \A g \in IndexFiles(db) : g \in DOMAIN files
    BY <1>2, <1>5, OwnedAre DEF Handles, Opens
  <2>2. QED
    BY <1>4, <2>1
<1>7. Catalogs'
  BY <1>1, <1>2 DEF Catalogs
<1>8. CASE /\ ddl' = [NoDDL EXCEPT !.op = "create_index", !.tab = t, !.cols = c, !.pc = "format"]
           /\ UNCHANGED <<path2fd, history>>
  <2>1. ddl' = [op |-> "create_index", tab |-> t, cols |-> c, pc |-> "format", todo |-> {}]
    BY <1>8 DEF NoDDL
  <2>2. /\ ddl'.op = "create_index" /\ ddl'.tab = t /\ ddl'.cols = c /\ ddl'.pc = "format" /\ ddl'.todo = {}
        /\ (ddl = [op |-> ddl.op, tab |-> ddl.tab, cols |-> ddl.cols, pc |-> ddl.pc, todo |-> ddl.todo])'
    BY ONLY <2>1
  <2>3. UNCHANGED <<path2fd, done, torn, stray, mishaps>>
    BY <1>8 DEF history
  <2>4. IxFile' = f
    BY <2>2 DEF IxFile
  <2>5. Closed' = {} /\ New' = {f} /\ NewOpen' = {} /\ Busy' = {t}
    BY <2>2, <2>4 DEF Closed, New, NewOpen, At, Busy
  <2>6. Types'
    BY <1>1, <1>2, <1>4, <2>3 DEF Types
  <2>7. Statement'
    BY <1>1, <1>6, <2>2, <2>4 DEF Statement
  <2>8. Handles'
    BY <1>1, <1>2, <1>4, <1>5, <2>2, <2>3, <2>5 DEF Handles, At, Never
  <2>9. StraysUp => StraysUp'
    BY <1>1, <1>4, <1>5, <2>3, <2>5 DEF StraysUp
  <2>10. SavedUp => SavedUp'
    BY <1>1, <1>5, <2>2 DEF SavedUp, At
  <2>11. KeptUp => KeptUp'
    BY <1>1, <1>5, <2>3, <2>5 DEF KeptUp
  <2>12. QED
    BY <1>1, <1>7, <2>3, <2>6, <2>7, <2>8, <2>9, <2>10, <2>11, UpStep
<1>9. CASE /\ path2fd' = path2fd \cup {f} /\ mishaps' = mishaps \cup {"long_key"}
           /\ UNCHANGED <<ddl, done, torn, stray>>
  <2>1. ~Never({"long_key"})' /\ ~Never({"long_key", "crash_in_flush"})' /\ mishaps \subseteq mishaps'
    BY <1>9 DEF Never
  <2>2. Idle'
    BY <1>1, <1>9 DEF Idle
  <2>3. Closed' = {} /\ New' = {} /\ NewOpen' = {} /\ Busy' = {} /\ ddl'.pc = "none"
    BY <1>5, <1>9 DEF Closed, New, NewOpen, At, Busy, IxFile
  <2>4. Types'
    BY <1>1, <1>2, <1>3, <1>4, <1>9 DEF Types, Mishap
  <2>5. Statement'
    BY <2>2, NoDDLFields DEF Statement, Idle
  <2>6. Handles'
    BY <1>1, <1>2, <1>4, <1>5, <1>9, <2>1, <2>3 DEF Handles, At
  <2>7. SavedUp => SavedUp'
    BY <1>1, <1>5, <2>3 DEF SavedUp, At
  <2>8. KeptUp => KeptUp'
    BY <1>1, <1>5, <1>9, <2>3 DEF KeptUp
  <2>9. QED
    BY <1>1, <1>7, <2>1, <2>4, <2>5, <2>6, <2>7, <2>8, UpStep
<1>10. QED
  BY <1>1, <1>8, <1>9

(* The index that is being built. *)
LEMMA WhenBuilding ==
  ASSUME CatalogInv, ddl.op = "create_index", ddl.pc \in {"format", "register"}
  PROVE  /\ server = "up" /\ ddl.todo = {} /\ ddl.tab \in DOMAIN db /\ ddl.cols \in Ix
         /\ IxFile \notin IndexFiles(db) /\ IxFile \notin Owned(db) /\ IxFile \in File
         /\ Closed = {} /\ New = {IxFile} /\ Busy = {ddl.tab}
<1>1. Statement /\ Catalogs
  BY DEF CatalogInv
<1>2. /\ server = "up" /\ ddl.todo = {} /\ ddl.tab \in DOMAIN db /\ ddl.cols \in Ix
      /\ IxFile \notin IndexFiles(db)
  BY <1>1, NoDDLFields DEF Statement, Idle
<1>3. IxFile \notin Owned(db)
  BY ONLY <1>2, TableFileOrIndex DEF IxFile
<1>4. ddl.tab \in Table
  BY <1>1, <1>2 DEF Catalogs, Cat
<1>5. IxFile \in File
  BY <1>2, <1>4, NamesAreFiles DEF IxFile
<1>6. QED
  BY <1>2, <1>3, <1>5 DEF Closed, New, Busy, At

(* Its file gets a header and is open. *)
LEMMA CreateIndexFormatInv == CatalogInv /\ CreateIndexFormat => CatalogInv'
<1> SUFFICES ASSUME CatalogInv, CreateIndexFormat PROVE CatalogInv'
  OBVIOUS
<1>1. /\ ddl.op = "create_index" /\ ddl.pc = "format" /\ Format(IxFile) /\ path2fd' = path2fd \cup {IxFile}
      /\ Goto("register") /\ UNCHANGED <<dir, meta, dml, server, db, fhs, ihs, history>>
  BY DEF CreateIndexFormat, At, IxFile
<1>2. Statement
  BY DEF CatalogInv
<1>3. /\ server = "up" /\ ddl.todo = {} /\ ddl.tab \in DOMAIN db /\ ddl.cols \in Ix
      /\ IxFile \notin IndexFiles(db) /\ IxFile \notin Owned(db) /\ IxFile \in File
      /\ Closed = {} /\ New = {IxFile} /\ Busy = {ddl.tab}
  BY <1>1, WhenBuilding
<1>4. PICK f \in File : f = IxFile
  BY <1>3
<1>5. /\ ddl'.op = "create_index" /\ ddl'.tab = ddl.tab /\ ddl'.cols = ddl.cols /\ ddl'.pc = "register" /\ ddl'.todo = {}
      /\ (ddl = [op |-> ddl.op, tab |-> ddl.tab, cols |-> ddl.cols, pc |-> ddl.pc, todo |-> ddl.todo])'
  BY <1>1, <1>2, <1>3, Fields
<1>6. UNCHANGED <<dir, meta, dml, server, db, fhs, ihs, done, torn, stray, mishaps>>
  BY <1>1 DEF history
<1>7. Types /\ Catalogs /\ Handles
  BY <1>3, Up
<1>8. IxFile' = f /\ NewOpen = {}
  BY <1>1, <1>4, <1>5 DEF IxFile, NewOpen
<1>9. Closed' = {} /\ New' = {f} /\ NewOpen' = {f} /\ Busy' = {ddl.tab}
  BY <1>5, <1>8 DEF Closed, New, NewOpen, At, Busy
<1>10. /\ DOMAIN files' = DOMAIN files \cup {f} /\ DOMAIN files' \subseteq File
       /\ \A g \in DOMAIN files' : files'[g] \in {"empty", "formatted"}
       /\ Opens(f)' /\ \A g : Opens(g) => Opens(g)'
  BY <1>1, <1>4, <1>7, FormatFile
<1>11. Types'
  BY <1>1, <1>4, <1>6, <1>7, <1>10 DEF Types
<1>12. Catalogs'
  BY <1>6, <1>7 DEF Catalogs
<1>13. Statement'
  BY <1>3, <1>4, <1>5, <1>6, <1>8 DEF Statement
<1>14. Handles'
  <2>1. \A g \in New' : Opens(g)'
    BY <1>9, <1>10
  <2>2. QED
    BY <1>1, <1>3, <1>4, <1>5, <1>6, <1>7, <1>8, <1>9, <1>10, <2>1 DEF Handles, At, Never
<1>15. StraysUp => StraysUp'
  BY <1>3, <1>4, <1>6, <1>9, <1>10 DEF StraysUp
<1>16. SavedUp => SavedUp'
  BY <1>1, <1>5, <1>6 DEF SavedUp, At
<1>17. KeptUp => KeptUp'
  BY <1>3, <1>6, <1>9 DEF KeptUp
<1>18. QED
  BY <1>3, <1>6, <1>11, <1>12, <1>13, <1>14, <1>15, <1>16, <1>17, UpStep


(* An index that cannot be built leaves nothing behind. *)
LEMMA CreateIndexFailsInv == CatalogInv /\ CreateIndexFails => CatalogInv'
<1> SUFFICES ASSUME CatalogInv, CreateIndexFails PROVE CatalogInv'
  OBVIOUS
<1>1. /\ ddl.op = "create_index" /\ ddl.pc = "register" /\ destroy_file(IxFile) /\ path2fd' = path2fd \ {IxFile}
      /\ ddl' = NoDDL /\ done' = db /\ torn' = {} /\ UNCHANGED <<stray, mishaps>>
      /\ UNCHANGED <<dir, meta, dml, server, db, fhs, ihs>>
  BY DEF CreateIndexFails, BuildFails, Complete, At, IxFile
<1>2. /\ server = "up" /\ IxFile \notin IndexFiles(db) /\ IxFile \notin Owned(db) /\ IxFile \in File
      /\ Closed = {} /\ New = {IxFile}
  BY <1>1, WhenBuilding
<1>3. PICK f \in File : f = IxFile
  BY <1>2
<1>4. Types /\ Catalogs /\ Handles
  BY <1>2, Up
<1>5. NewOpen = {f}
  BY <1>1, <1>3 DEF NewOpen
<1>6. Idle' /\ Statement' /\ ddl'.pc = "none"
  BY <1>1, NoDDLFields DEF Statement, Idle
<1>7. Closed' = {} /\ New' = {} /\ NewOpen' = {} /\ Busy' = {}
  BY <1>1, NoDDLFields DEF Closed, New, NewOpen, At, Busy
<1>8. /\ DOMAIN files' = DOMAIN files \ {f} /\ DOMAIN files' \subseteq File
      /\ \A g \in DOMAIN files' : files'[g] \in {"empty", "formatted"}
      /\ \A g : g # f /\ Opens(g) => Opens(g)'
  BY <1>1, <1>3, <1>4, DestroyFile
<1>9. Types'
  BY <1>1, <1>4, <1>8 DEF Types
<1>10. Catalogs'
  BY <1>1, <1>4 DEF Catalogs
<1>11. Handles'
  BY <1>1, <1>2, <1>3, <1>4, <1>5, <1>6, <1>7, <1>8 DEF Handles, At, Never
<1>12. StraysUp => StraysUp'
  BY <1>1, <1>2, <1>3, <1>7, <1>8 DEF StraysUp
<1>13. SavedUp => SavedUp'
  BY <1>1, <1>6 DEF SavedUp, At
<1>14. KeptUp'
  BY <1>1 DEF KeptUp, Same
<1>15. QED
  BY <1>1, <1>2, <1>6, <1>9, <1>10, <1>11, <1>12, <1>13, <1>14, UpStep

(* The index is in the catalog of memory and not yet in the file. *)
LEMMA CreateIndexRegisterInv == CatalogInv /\ CreateIndexRegister => CatalogInv'
<1> SUFFICES ASSUME CatalogInv, CreateIndexRegister PROVE CatalogInv'
  OBVIOUS
<1>1. /\ ddl.op = "create_index" /\ ddl.pc = "register" /\ ihs' = ihs \cup {IxFile}
      /\ db' = [db EXCEPT ![ddl.tab].indexes = @ \cup {ddl.cols}, ![ddl.tab].flagged = @ \cup Range(ddl.cols)]
      /\ Goto("truncate") /\ UNCHANGED <<disk, server, fhs, path2fd, history>>
  BY DEF CreateIndexRegister, At, IxFile, NewIndex
<1>2. Statement
  BY DEF CatalogInv
<1>3. /\ server = "up" /\ ddl.todo = {} /\ ddl.tab \in DOMAIN db /\ ddl.cols \in Ix
      /\ IxFile \notin IndexFiles(db) /\ IxFile \notin Owned(db) /\ IxFile \in File
      /\ Closed = {} /\ New = {IxFile} /\ Busy = {ddl.tab}
  BY <1>1, WhenBuilding
<1>4. PICK t \in DOMAIN db, c \in Ix : t = ddl.tab /\ c = ddl.cols
  BY <1>3
<1>5. PICK f \in File : f = IxFile
  BY <1>3
<1>6. /\ ddl'.op = "create_index" /\ ddl'.tab = t /\ ddl'.cols = c /\ ddl'.pc = "truncate" /\ ddl'.todo = {}
      /\ (ddl = [op |-> ddl.op, tab |-> ddl.tab, cols |-> ddl.cols, pc |-> ddl.pc, todo |-> ddl.todo])'
  BY <1>1, <1>2, <1>3, <1>4, Fields
<1>7. UNCHANGED <<server, fhs, path2fd, dir, files, meta, dml, done, torn, stray, mishaps>>
  BY <1>1 DEF disk, history
<1>8. Types /\ Catalogs /\ Handles
  BY <1>3, Up
<1>9. /\ Closed = {} /\ New = {f} /\ NewOpen = {f} /\ Busy = {t}
      /\ Closed' = {} /\ New' = {} /\ NewOpen' = {} /\ Busy' = {t}
  BY <1>1, <1>3, <1>4, <1>5, <1>6 DEF Closed, New, NewOpen, At, Busy
<1>10. /\ Cat(db') /\ DOMAIN db' = DOMAIN db /\ IndexFiles(db') = IndexFiles(db) \cup {f}
       /\ Owned(db') = Owned(db) \cup {f} /\ \A u : u # t => Same(db, db', u)
  <2>1. Cat(db) /\ f = get_index_name(t, c) /\ get_index_name(t, c) \notin IndexFiles(db)
    BY <1>3, <1>4, <1>5, <1>8 DEF Catalogs, IxFile
  <2>2. db' = Indexed(db, t, c)
    BY <1>1, <1>4 DEF Indexed
  <2>3. /\ Grown(db, db', t, get_index_name(t, c)) /\ DOMAIN db' = DOMAIN db
        /\ IndexFiles(db') = IndexFiles(db) \cup {get_index_name(t, c)}
    BY ONLY t \in DOMAIN db, c \in Ix, <2>1, <2>2, OneIndexMore
  <2>4. QED
    BY ONLY <2>1, <2>3 DEF Grown
<1>11. Types'
  BY <1>1, <1>5, <1>7, <1>8 DEF Types
<1>12. Catalogs'
  BY <1>7, <1>8, <1>10 DEF Catalogs
<1>13. Statement'
  BY <1>3, <1>4, <1>6, <1>7, <1>10 DEF Statement
<1>14. \A g \in Owned(db') : Opens(g)'
  <2>1. Opens(f) /\ \A g \in Owned(db) : Opens(g)
    BY <1>1, <1>8, <1>9 DEF Handles, At
  <2>2. QED
    BY <1>7, <1>10, <2>1 DEF Opens
<1>15. Handles'
  BY <1>1, <1>5, <1>6, <1>7, <1>8, <1>9, <1>10, <1>14 DEF Handles, At, Never
<1>16. StraysUp => StraysUp'
  BY <1>7, <1>9, <1>10 DEF StraysUp
<1>17. SavedUp => SavedUp'
  BY <1>1, <1>6, <1>7, <1>9, <1>10 DEF SavedUp, At
<1>18. KeptUp => KeptUp'
  BY <1>7, <1>9, <1>10 DEF KeptUp, Same
<1>19. QED
  BY <1>3, <1>7, <1>11, <1>12, <1>13, <1>15, <1>16, <1>17, <1>18, UpStep

(* An index loses its file: to be dropped, or to be made again. *)
LEMMA TakeIndexInv ==
  ASSUME CatalogInv, server = "up", NEW p \in {"erase_index", "recreate_file"}, TakeIndex(p),
         UNCHANGED <<dir, meta, dml, server, db, fhs, history>>, ddl.pc \in {"drop_next", "recreate"},
         \A x \in ddl.todo : x = <<x[1], x[2]>> /\ Index(x[1], x[2]), Statement', Busy' = Busy
  PROVE  CatalogInv'
<1>1. PICK x \in ddl.todo :
        /\ ihs' = ihs \ {get_index_name(x[1], x[2])} /\ path2fd' = path2fd \ {get_index_name(x[1], x[2])}
        /\ destroy_file(get_index_name(x[1], x[2]))
        /\ ddl' = [ddl EXCEPT !.pc = p, !.tab = x[1], !.cols = x[2], !.todo = @ \ {x}]
  BY DEF TakeIndex
<1> DEFINE f == get_index_name(x[1], x[2])
<1>2. Types /\ Catalogs /\ Statement /\ Handles
  BY Up
<1>3. UNCHANGED <<dir, meta, dml, server, db, fhs, done, torn, stray, mishaps>>
  BY DEF history
<1>4. ddl'.op = ddl.op /\ ddl'.tab = x[1] /\ ddl'.cols = x[2] /\ ddl'.pc = p
  <2>1. ddl = [op |-> ddl.op, tab |-> ddl.tab, cols |-> ddl.cols, pc |-> ddl.pc, todo |-> ddl.todo]
    BY <1>2 DEF Statement
  <2>2. ddl' = [op |-> ddl.op, tab |-> x[1], cols |-> x[2], pc |-> p, todo |-> ddl.todo \ {x}]
    BY ONLY <1>1, <2>1
  <2>3. QED
    BY ONLY <2>2
<1>5. f \in IndexFiles(db)
  BY <1>1, HasIndexFile DEF Index
<1>6. /\ Closed = {} /\ New = {} /\ NewOpen = {}
      /\ Closed' = {f} /\ New' = {} /\ NewOpen' = {}
  BY <1>4 DEF Closed, New, NewOpen, At, IxFile
<1>7. /\ DOMAIN files' = DOMAIN files \ {f} /\ DOMAIN files' \subseteq File
      /\ \A g \in DOMAIN files' : files'[g] \in {"empty", "formatted"}
      /\ \A g : g # f /\ Opens(g) => Opens(g)'
  BY <1>1, <1>2, DestroyFile
<1> HIDE DEF f
<1>8. ihs' = ihs \ {f} /\ path2fd' = path2fd \ {f}
  BY <1>1 DEF f
<1>9. Types'
  BY <1>2, <1>3, <1>7, <1>8 DEF Types
<1>10. Catalogs'
  BY <1>2, <1>3 DEF Catalogs
<1>11. Handles'
  BY <1>2, <1>3, <1>4, <1>6, <1>7, <1>8 DEF Handles, At, Never
<1>12. StraysUp => StraysUp'
  BY <1>3, <1>6, <1>7 DEF StraysUp
<1>13. SavedUp => SavedUp'
  BY <1>3, <1>4 DEF SavedUp, At
<1>14. KeptUp => KeptUp'
  BY <1>3 DEF KeptUp
<1>15. QED
  BY <1>3, <1>9, <1>10, <1>11, <1>12, <1>13, <1>14, UpStep


(* The next index to go, of the table or of the statement. *)
LEMMA DropIndexFileInv == CatalogInv /\ DropIndexFile => CatalogInv'
<1> SUFFICES ASSUME CatalogInv, DropIndexFile PROVE CatalogInv'
  OBVIOUS
<1>1. ddl.pc = "drop_next" /\ TakeIndex("erase_index") /\ UNCHANGED <<dir, meta, dml, server, db, fhs, history>>
  BY DEF DropIndexFile, At
<1>2. Statement
  BY DEF CatalogInv
<1>3. /\ server = "up" /\ ddl.tab \in Table /\ ddl.tab \in DOMAIN db
      /\ \/ ddl.op = "drop_index" /\ \E c \in db[ddl.tab].indexes : ddl.todo = {<<ddl.tab, c>>}
         \/ ddl.op = "drop_table" /\ ddl.todo = {ddl.tab} \X db[ddl.tab].indexes
  <2>1. /\ server = "up" /\ ddl.tab \in DOMAIN db
        /\ \/ ddl.op = "drop_index" /\ \E c \in db[ddl.tab].indexes : ddl.todo = {<<ddl.tab, c>>}
           \/ ddl.op = "drop_table" /\ ddl.todo = {ddl.tab} \X db[ddl.tab].indexes
    BY <1>1, <1>2, NoDDLFields DEF Statement, Idle
  <2>2. ddl.tab \in Table
    BY <2>1 DEF CatalogInv, Catalogs, Cat
  <2>3. QED
    BY <2>1, <2>2
<1>4. \A x \in ddl.todo : x = <<x[1], x[2]>> /\ x[1] = ddl.tab /\ x[2] \in db[ddl.tab].indexes
  BY ONLY <1>3
<1>5. PICK x \in ddl.todo : ddl' = [ddl EXCEPT !.pc = "erase_index", !.tab = x[1], !.cols = x[2], !.todo = @ \ {x}]
  BY <1>1 DEF TakeIndex
<1>6. x = <<ddl.tab, x[2]>> /\ x[1] = ddl.tab /\ x[2] \in db[ddl.tab].indexes
  BY <1>4
<1>7. /\ ddl'.op = ddl.op /\ ddl'.tab = ddl.tab /\ ddl'.cols = x[2] /\ ddl'.pc = "erase_index" /\ ddl'.todo = ddl.todo \ {x}
      /\ (ddl = [op |-> ddl.op, tab |-> ddl.tab, cols |-> ddl.cols, pc |-> ddl.pc, todo |-> ddl.todo])'
  <2>1. ddl = [op |-> ddl.op, tab |-> ddl.tab, cols |-> ddl.cols, pc |-> ddl.pc, todo |-> ddl.todo]
    BY <1>2 DEF Statement
  <2>2. ddl' = [op |-> ddl.op, tab |-> x[1], cols |-> x[2], pc |-> "erase_index", todo |-> ddl.todo \ {x}]
    BY ONLY <1>5, <2>1
  <2>3. QED
    BY ONLY <1>6, <2>2
<1>8. Statement'
  <2>1. CASE ddl.op = "drop_index"
    <3>1. ddl.todo \ {x} = {}
      BY ONLY <1>3, <2>1, x \in ddl.todo
    <3>2. QED
      BY <1>1, <1>3, <1>6, <1>7, <2>1, <3>1 DEF Statement
  <2>2. CASE ddl.op = "drop_table"
    <3>1. ddl.todo = {ddl.tab} \X db[ddl.tab].indexes
      BY <1>3, <2>2
    <3>2. ddl.todo \ {x} = {ddl.tab} \X (db[ddl.tab].indexes \ {x[2]})
      BY ONLY <1>6, <3>1
    <3>3. QED
      BY <1>1, <1>3, <1>6, <1>7, <2>2, <3>2 DEF Statement, Index
  <2>3. QED
    BY <1>3, <2>1, <2>2
<1>9. Busy' = Busy
  BY <1>7 DEF Busy
<1>10. QED
  BY <1>1, <1>3, <1>4, <1>8, <1>9, TakeIndexInv DEF Index

(* An index leaves the catalog, its file gone. *)
LEMMA DropIndexEraseInv == CatalogInv /\ DropIndexErase => CatalogInv'
<1> SUFFICES ASSUME CatalogInv, DropIndexErase PROVE CatalogInv'
  OBVIOUS
<1>1. /\ ddl.pc = "erase_index" /\ Goto("truncate") /\ UNCHANGED <<disk, server, fhs, ihs, path2fd, history>>
      /\ db' = [db EXCEPT ![ddl.tab] = [indexes |-> db[ddl.tab].indexes \ {ddl.cols},
                                        flagged |-> Flagged(db[ddl.tab], ddl.cols)]]
  BY DEF DropIndexErase, At
<1>2. Statement
  BY DEF CatalogInv
<1>3. /\ server = "up" /\ ddl.tab \in DOMAIN db /\ ddl.cols \in db[ddl.tab].indexes
      /\ \/ ddl.op = "drop_index" /\ ddl.todo = {}
         \/ ddl.op = "drop_table" /\ ddl.todo = {ddl.tab} \X (db[ddl.tab].indexes \ {ddl.cols})
  BY <1>1, <1>2, NoDDLFields DEF Statement, Idle, Index
<1>4. PICK t \in DOMAIN db : t = ddl.tab
  BY <1>3
<1>5. PICK c \in db[t].indexes : c = ddl.cols
  BY <1>3, <1>4
<1> DEFINE f == get_index_name(t, c)
<1>6. /\ ddl'.op = ddl.op /\ ddl'.tab = t /\ ddl'.cols = c /\ ddl'.pc = "truncate" /\ ddl'.todo = ddl.todo
      /\ (ddl = [op |-> ddl.op, tab |-> ddl.tab, cols |-> ddl.cols, pc |-> ddl.pc, todo |-> ddl.todo])'
  BY <1>1, <1>2, <1>4, <1>5, Fields
<1>7. UNCHANGED <<server, fhs, ihs, path2fd, dir, files, meta, dml, done, torn, stray, mishaps>>
  BY <1>1 DEF disk, history
<1>8. Types /\ Catalogs /\ Handles
  BY <1>3, Up
<1>9. /\ Closed = {f} /\ New = {} /\ NewOpen = {} /\ Busy = {t}
      /\ Closed' = {} /\ New' = {} /\ NewOpen' = {} /\ Busy' = {t}
  BY <1>1, <1>3, <1>4, <1>5, <1>6 DEF Closed, New, NewOpen, At, Busy, IxFile
<1>10. /\ Cat(db') /\ DOMAIN db' = DOMAIN db /\ IndexFiles(db') = IndexFiles(db) \ {f}
       /\ Owned(db') = Owned(db) \ {f} /\ (\A u : u # t => Same(db, db', u))
       /\ db'[t].indexes = db[t].indexes \ {c}
  <2>1. Cat(db)
    BY <1>8 DEF Catalogs
  <2>2. db' = Unindexed(db, t, c)
    BY <1>1, <1>4, <1>5 DEF Unindexed
  <2>3. /\ Shrunk(db, db', t, get_index_name(t, c)) /\ DOMAIN db' = DOMAIN db
        /\ IndexFiles(db') = IndexFiles(db) \ {get_index_name(t, c)} /\ db'[t].indexes = db[t].indexes \ {c}
    BY ONLY t \in DOMAIN db, c \in db[t].indexes, <2>1, <2>2, OneIndexLess
  <2>4. QED
    BY ONLY <2>3 DEF Shrunk, f
<1> HIDE DEF f
<1>11. Types'
  BY <1>7, <1>8 DEF Types
<1>12. Catalogs'
  BY <1>7, <1>8, <1>10 DEF Catalogs
<1>13. Statement'
  <2>1. t \in Table
    BY <1>8 DEF Catalogs, Cat
  <2>2. (ddl.op = "drop_index" /\ ddl.todo = {}) \/ (ddl.op = "drop_table" /\ ddl.todo = {t} \X db'[t].indexes)
    BY ONLY <1>3, <1>4, <1>5, <1>10
  <2>3. QED
    BY <1>3, <1>6, <1>7, <1>10, <2>1, <2>2 DEF Statement
<1>14. Handles'
  BY <1>1, <1>6, <1>7, <1>8, <1>9, <1>10 DEF Handles, At, Never, Opens
<1>15. f \notin DOMAIN files
  BY <1>1, <1>8, <1>9 DEF Handles, At
<1>16. StraysUp => StraysUp'
  BY <1>7, <1>9, <1>10, <1>15 DEF StraysUp
<1>17. SavedUp => SavedUp'
  BY <1>1, <1>3, <1>6, <1>7, <1>9, <1>10 DEF SavedUp, At
<1>18. KeptUp => KeptUp'
  BY <1>7, <1>9, <1>10 DEF KeptUp, Same
<1>19. QED
  BY <1>3, <1>7, <1>11, <1>12, <1>13, <1>14, <1>16, <1>17, <1>18, UpStep


(* analyze takes the next index. *)
LEMMA RecreateDestroyInv == CatalogInv /\ RecreateDestroy => CatalogInv'
<1> SUFFICES ASSUME CatalogInv, RecreateDestroy PROVE CatalogInv'
  OBVIOUS
<1>1. ddl.pc = "recreate" /\ TakeIndex("recreate_file") /\ UNCHANGED <<dir, meta, dml, server, db, fhs, history>>
  BY DEF RecreateDestroy, At
<1>2. Statement
  BY DEF CatalogInv
<1>3. /\ server = "up" /\ ddl.op = "analyze"
      /\ \A x \in ddl.todo : x = <<x[1], x[2]>> /\ Index(x[1], x[2])
  BY <1>1, <1>2, NoDDLFields DEF Statement, Idle
<1>4. PICK x \in ddl.todo : ddl' = [ddl EXCEPT !.pc = "recreate_file", !.tab = x[1], !.cols = x[2], !.todo = @ \ {x}]
  BY <1>1 DEF TakeIndex
<1>5. /\ ddl'.op = ddl.op /\ ddl'.tab = x[1] /\ ddl'.cols = x[2] /\ ddl'.pc = "recreate_file" /\ ddl'.todo = ddl.todo \ {x}
      /\ (ddl = [op |-> ddl.op, tab |-> ddl.tab, cols |-> ddl.cols, pc |-> ddl.pc, todo |-> ddl.todo])'
  <2>1. ddl = [op |-> ddl.op, tab |-> ddl.tab, cols |-> ddl.cols, pc |-> ddl.pc, todo |-> ddl.todo]
    BY <1>2 DEF Statement
  <2>2. ddl' = [op |-> ddl.op, tab |-> x[1], cols |-> x[2], pc |-> "recreate_file", todo |-> ddl.todo \ {x}]
    BY ONLY <1>4, <2>1
  <2>3. QED
    BY ONLY <2>2
<1>6. Statement'
  <2>1. \A y \in ddl.todo : Index(y[1], y[2])'
    BY <1>1, <1>3 DEF Index
  <2>2. \A y \in ddl'.todo : y = <<y[1], y[2]>> /\ Index(y[1], y[2])'
    BY <1>3, <1>5, <2>1
  <2>3. Index(ddl.tab, ddl.cols)'
    BY <1>1, <1>3, <1>5 DEF Index
  <2>4. server' = "up"
    BY <1>1, <1>3
  <2>5. QED
    BY <1>3, <1>5, <2>2, <2>3, <2>4 DEF Statement
<1>7. Busy' = Busy
  BY <1>3, <1>5 DEF Busy
<1>8. QED
  BY <1>1, <1>3, <1>6, <1>7, TakeIndexInv

(* The index that is being made again. *)
LEMMA WhenRecreating ==
  ASSUME CatalogInv, ddl.pc \in {"recreate_file", "recreate_format"}
  PROVE  /\ server = "up" /\ ddl.op = "analyze" /\ Index(ddl.tab, ddl.cols)
         /\ \A x \in ddl.todo : x = <<x[1], x[2]>> /\ Index(x[1], x[2])
         /\ IxFile \in IndexFiles(db) /\ IxFile \in Owned(db) /\ IxFile \in File
         /\ Closed = {IxFile} /\ New = {} /\ NewOpen = {} /\ Busy = {}
<1>1. Statement /\ Catalogs
  BY DEF CatalogInv
<1>2. /\ server = "up" /\ ddl.op = "analyze" /\ Index(ddl.tab, ddl.cols)
      /\ \A x \in ddl.todo : x = <<x[1], x[2]>> /\ Index(x[1], x[2])
  BY <1>1, NoDDLFields DEF Statement, Idle
<1>3. IxFile \in IndexFiles(db)
  BY <1>2, HasIndexFile DEF IxFile, Index
<1>4. IxFile \in Owned(db) /\ IxFile \in File
  BY <1>1, <1>3, OwnedAreFiles DEF Catalogs
<1>5. Closed = {IxFile} /\ New = {} /\ NewOpen = {} /\ Busy = {}
  BY <1>2 DEF Closed, New, NewOpen, Busy, At
<1>6. QED
  BY <1>2, <1>3, <1>4, <1>5

(* Its file is there again. *)
LEMMA RecreateFileInv == CatalogInv /\ RecreateFile => CatalogInv'
<1> SUFFICES ASSUME CatalogInv, RecreateFile PROVE CatalogInv'
  OBVIOUS
<1>1. /\ ddl.pc = "recreate_file" /\ create_file(IxFile) /\ Goto("recreate_format")
      /\ UNCHANGED <<dir, meta, dml, memory, history>>
  BY DEF RecreateFile, At, IxFile
<1>2. Statement
  BY DEF CatalogInv
<1>3. /\ server = "up" /\ ddl.op = "analyze" /\ Index(ddl.tab, ddl.cols)
      /\ \A x \in ddl.todo : x = <<x[1], x[2]>> /\ Index(x[1], x[2])
      /\ IxFile \in IndexFiles(db) /\ IxFile \in Owned(db) /\ IxFile \in File
      /\ Closed = {IxFile} /\ New = {} /\ NewOpen = {} /\ Busy = {}
  BY <1>1, WhenRecreating
<1>4. PICK f \in File : f = IxFile
  BY <1>3
<1>5. /\ ddl'.op = ddl.op /\ ddl'.tab = ddl.tab /\ ddl'.cols = ddl.cols /\ ddl'.pc = "recreate_format" /\ ddl'.todo = ddl.todo
      /\ (ddl = [op |-> ddl.op, tab |-> ddl.tab, cols |-> ddl.cols, pc |-> ddl.pc, todo |-> ddl.todo])'
  BY <1>1, <1>2, Fields
<1>6. UNCHANGED <<server, db, fhs, ihs, path2fd, dir, meta, dml, done, torn, stray, mishaps>>
  BY <1>1 DEF memory, history
<1>7. Types /\ Catalogs /\ Handles
  BY <1>3, Up
<1>8. /\ DOMAIN files' = DOMAIN files \cup {f} /\ DOMAIN files' \subseteq File
      /\ \A g \in DOMAIN files' : files'[g] \in {"empty", "formatted"}
      /\ \A g : Opens(g) => Opens(g)'
  BY <1>1, <1>4, <1>7, CreateFile
<1>9. Closed' = {f} /\ New' = {} /\ NewOpen' = {} /\ Busy' = {}
  BY <1>3, <1>4, <1>5 DEF Closed, New, NewOpen, At, Busy, IxFile
<1>10. Types'
  BY <1>6, <1>7, <1>8 DEF Types
<1>11. Catalogs'
  BY <1>6, <1>7 DEF Catalogs
<1>12. Statement'
  <2>1. \A y \in ddl'.todo : y = <<y[1], y[2]>> /\ Index(y[1], y[2])'
    BY <1>3, <1>5, <1>6 DEF Index
  <2>2. Index(ddl.tab, ddl.cols)'
    BY <1>3, <1>5, <1>6 DEF Index
  <2>3. QED
    BY <1>3, <1>5, <1>6, <2>1, <2>2 DEF Statement
<1>13. Handles'
  BY <1>1, <1>3, <1>4, <1>5, <1>6, <1>7, <1>8, <1>9 DEF Handles, At, Never
<1>14. StraysUp => StraysUp'
  BY <1>3, <1>4, <1>6, <1>8, <1>9 DEF StraysUp
<1>15. SavedUp => SavedUp'
  BY <1>1, <1>5, <1>6 DEF SavedUp, At
<1>16. KeptUp => KeptUp'
  BY <1>3, <1>6, <1>9 DEF KeptUp
<1>17. QED
  BY <1>3, <1>6, <1>10, <1>11, <1>12, <1>13, <1>14, <1>15, <1>16, UpStep

(* It has its header and its handle again. *)
LEMMA RecreateFormatInv == CatalogInv /\ RecreateFormat => CatalogInv'
<1> SUFFICES ASSUME CatalogInv, RecreateFormat PROVE CatalogInv'
  OBVIOUS
<1>1. /\ ddl.pc = "recreate_format" /\ Format(IxFile)
      /\ ihs' = ihs \cup {IxFile} /\ path2fd' = path2fd \cup {IxFile}
      /\ ddl' = NoDDL \/ ddl' = [ddl EXCEPT !.pc = "recreate", !.tab = <<>>, !.cols = <<>>]
      /\ UNCHANGED <<dir, meta, dml, server, db, fhs, history>>
  BY DEF RecreateFormat, At, IxFile
<1>2. Statement
  BY DEF CatalogInv
<1>3. /\ server = "up" /\ ddl.op = "analyze" /\ Index(ddl.tab, ddl.cols)
      /\ \A x \in ddl.todo : x = <<x[1], x[2]>> /\ Index(x[1], x[2])
      /\ IxFile \in IndexFiles(db) /\ IxFile \in Owned(db) /\ IxFile \in File
      /\ Closed = {IxFile} /\ New = {} /\ NewOpen = {} /\ Busy = {}
  BY <1>1, WhenRecreating
<1>4. PICK f \in File : f = IxFile
  BY <1>3
<1>5. UNCHANGED <<server, db, fhs, dir, meta, dml, done, torn, stray, mishaps>>
  BY <1>1 DEF history
<1>6. Types /\ Catalogs /\ Handles
  BY <1>3, Up
<1>7. Statement' /\ ddl'.op \in {"none", "analyze"} /\ ddl'.pc \in {"none", "recreate"}
  <2>1. CASE ddl' = NoDDL
    BY <2>1, NoDDLFields DEF Statement, Idle
  <2>2. CASE ddl' = [ddl EXCEPT !.pc = "recreate", !.tab = <<>>, !.cols = <<>>]
    <3>1. ddl = [op |-> ddl.op, tab |-> ddl.tab, cols |-> ddl.cols, pc |-> ddl.pc, todo |-> ddl.todo]
      BY <1>2 DEF Statement
    <3>2. ddl' = [op |-> ddl.op, tab |-> <<>>, cols |-> <<>>, pc |-> "recreate", todo |-> ddl.todo]
      BY ONLY <2>2, <3>1
    <3>3. /\ ddl'.op = ddl.op /\ ddl'.pc = "recreate" /\ ddl'.todo = ddl.todo
          /\ (ddl = [op |-> ddl.op, tab |-> ddl.tab, cols |-> ddl.cols, pc |-> ddl.pc, todo |-> ddl.todo])'
      BY ONLY <3>2
    <3>4. \A y \in ddl'.todo : y = <<y[1], y[2]>> /\ Index(y[1], y[2])'
      BY <1>3, <1>5, <3>3 DEF Index
    <3>5. QED
      BY <1>3, <1>5, <3>3, <3>4 DEF Statement
  <2>3. QED
    BY <1>1, <2>1, <2>2
<1>8. Closed' = {} /\ New' = {} /\ NewOpen' = {} /\ Busy' = {}
  BY <1>7 DEF Closed, New, NewOpen, At, Busy
<1>9. /\ DOMAIN files' = DOMAIN files \cup {f} /\ DOMAIN files' \subseteq File
      /\ \A g \in DOMAIN files' : files'[g] \in {"empty", "formatted"}
      /\ Opens(f)' /\ \A g : Opens(g) => Opens(g)'
  BY <1>1, <1>4, <1>6, FormatFile
<1>10. Types'
  BY <1>1, <1>4, <1>5, <1>6, <1>9 DEF Types
<1>11. Catalogs'
  BY <1>5, <1>6 DEF Catalogs
<1>12. \A g \in Owned(db') : Opens(g)'
  BY <1>3, <1>4, <1>5, <1>6, <1>9 DEF Handles
<1>13. Handles'
  BY <1>1, <1>3, <1>4, <1>5, <1>6, <1>7, <1>8, <1>12 DEF Handles, At, Never
<1>14. StraysUp => StraysUp'
  BY <1>3, <1>4, <1>5, <1>8, <1>9 DEF StraysUp
<1>15. SavedUp => SavedUp'
  BY <1>1, <1>5, <1>7 DEF SavedUp, At
<1>16. KeptUp => KeptUp'
  BY <1>3, <1>5, <1>8 DEF KeptUp
<1>17. QED
  BY <1>3, <1>5, <1>7, <1>10, <1>11, <1>13, <1>14, <1>15, <1>16, UpStep


-----------------------------------------------------------------------------
(* The process dies. *)

(* A crash that is no mishap finds every file of the catalog in place. *)
LEMMA CrashMishapIs ==
  ASSUME Statement
  PROVE  /\ CrashMishap \subseteq CrashMishaps
         /\ ddl.pc = "create_log" => "crash_in_create_db" \in CrashMishap
         /\ ddl.pc = "write" => "crash_in_flush" \in CrashMishap
         /\ CrashMishap = {} => /\ Closed = {}
                                /\ ddl.pc = "truncate" => ddl.op \notin {"drop_table", "drop_index"}
<1>1. ddl.pc = "create_log" => CrashMishap = {"crash_in_create_db"}
  BY DEF CrashMishap, At
<1>2. ddl.pc = "write" => CrashMishap = {"crash_in_flush"}
  BY DEF CrashMishap, At
<1>3. ddl.op \in {"drop_table", "drop_index"} /\ ddl.pc \in {"erase_table", "erase_index", "truncate"} =>
        CrashMishap = {"crash_in_drop"}
  BY DEF CrashMishap, At
<1>4. ddl.pc \in {"recreate_file", "recreate_format"} => CrashMishap = {"crash_in_analyze"}
  BY DEF CrashMishap, At
<1>5. \/ ddl.pc \in {"create_log", "write", "recreate_file", "recreate_format"}
      \/ ddl.op \in {"drop_table", "drop_index"} /\ ddl.pc \in {"erase_table", "erase_index", "truncate"}
      \/ CrashMishap = {}
  BY DEF CrashMishap, At
<1>6. ddl.pc \in {"erase_table", "erase_index"} => ddl.op \in {"drop_table", "drop_index"}
  BY NoDDLFields DEF Statement, Idle
<1>7. CrashMishap \subseteq CrashMishaps
  BY <1>1, <1>2, <1>3, <1>4, <1>5 DEF CrashMishaps
<1>8. CrashMishap = {} => /\ ddl.pc \notin {"erase_table", "erase_index", "recreate_file", "recreate_format"}
                          /\ ddl.pc = "truncate" => ddl.op \notin {"drop_table", "drop_index"}
  BY <1>3, <1>4, <1>6
<1>9. QED
  BY <1>1, <1>2, <1>7, <1>8 DEF Closed, At

(* A crash of create_db leaves an empty directory, or an empty catalog. *)
LEMMA CrashInCreateDb == CatalogInv /\ Crash /\ server # "up" => CatalogInv'
<1> SUFFICES ASSUME CatalogInv, Crash, server # "up" PROVE CatalogInv'
  OBVIOUS
<1>1. /\ ddl.op = "create_db" /\ server' = "down" /\ db' = NoMeta /\ fhs' = {} /\ ihs' = {} /\ path2fd' = {}
      /\ ddl' = NoDDL /\ mishaps' = mishaps \cup CrashMishap
      /\ stray' = stray \cup UNION {DOMAIN files \ Owned(d) : d \in meta}
      /\ UNCHANGED <<disk, done>>
  BY DEF Crash, Exit, Mishaps
<1>2. torn' = torn \cup ({ddl.tab} \cap Table)
  BY <1>1 DEF Crash
<1>3. UNCHANGED <<dir, files, meta, dml, done>>
  BY <1>1 DEF disk
<1>4. Types /\ Statement
  BY DEF CatalogInv
<1>5. /\ dir = TRUE /\ meta = {} /\ DOMAIN files = IF ddl.pc = "write" THEN {LOG_FILE} ELSE {}
      /\ ddl.pc \in {"create_log", "write"}
  BY <1>1, <1>4, NoDDLFields DEF Statement, Idle
<1>6. Idle' /\ Statement'
  BY <1>1, NoDDLFields DEF Statement, Idle
<1>7. stray' = stray
  BY <1>1, <1>5
<1>8. CrashMishap \subseteq Mishap
  BY <1>4, CrashMishapIs DEF Mishap
<1>9. Types'
  BY <1>1, <1>2, <1>3, <1>4, <1>7, <1>8 DEF Types
<1>10. Catalogs'
  BY <1>1, <1>3, <1>5, EmptyCat DEF Catalogs
<1>11. Unmade' /\ CanStart'
  BY <1>1, <1>3, <1>5 DEF Unmade, CanStart
<1>12. Never({"crash_in_flush"})' => DOMAIN files = {} /\ ~Never({"crash_in_create_db"})'
  BY <1>1, <1>4, <1>5, CrashMishapIs DEF Never
<1>13. Never({"long_key", "crash_in_flush"})' => Never({"crash_in_flush"})'
  BY DEF Never
<1>14. (Never({"long_key", "crash_in_flush"}) => StraysDown)'
  BY <1>3, <1>5, <1>12, <1>13 DEF StraysDown
<1>15. (Never({"crash_in_flush"}) => SavedDown /\ KeptDown)'
  BY <1>3, <1>5, <1>12 DEF SavedDown, KeptDown
<1>16. QED
  BY <1>1, <1>6, <1>9, <1>10, <1>11, <1>14, <1>15 DEF CatalogInv

(* A crash of the server leaves what the directory holds. *)
LEMMA CrashInv == CatalogInv /\ Crash => CatalogInv'
<1> SUFFICES ASSUME CatalogInv, Crash, server = "up" PROVE CatalogInv'
  BY CrashInCreateDb
<1>1. /\ server' = "down" /\ db' = NoMeta /\ fhs' = {} /\ ihs' = {} /\ path2fd' = {}
      /\ ddl' = NoDDL /\ mishaps' = mishaps \cup CrashMishap
      /\ stray' = stray \cup UNION {DOMAIN files \ Owned(d) : d \in meta}
      /\ torn' = IF ddl.op = "analyze" THEN torn ELSE torn \cup ({ddl.tab} \cap Table)
      /\ UNCHANGED <<disk, done>>
  BY DEF Crash, Exit, Mishaps
<1>2. UNCHANGED <<dir, files, meta, dml, done>>
  BY <1>1 DEF disk
<1>3. /\ Types /\ Catalogs /\ Statement /\ Handles /\ dir = TRUE
      /\ Never({"crash_in_flush"}) => SavedUp /\ KeptUp
  BY Up
<1>4. Idle' /\ Statement'
  BY <1>1, NoDDLFields DEF Statement, Idle
<1>5. CrashMishap \subseteq Mishap
  BY <1>3, CrashMishapIs DEF Mishap
<1>6. Types'
  BY <1>1, <1>2, <1>3, <1>5 DEF Types
<1>7. Catalogs'
  BY <1>1, <1>2, <1>3, EmptyCat DEF Catalogs
<1>8. Unmade' /\ CanStart'
  BY <1>1, <1>2, <1>3 DEF Unmade, CanStart
<1>9. Never({"crash_in_flush"})' => SavedUp /\ KeptUp /\ ddl.pc # "write"
  BY <1>1, <1>3, CrashMishapIs DEF Never
<1>10. SavedUp /\ ddl.pc # "write" =>
         \E d \in meta : /\ meta = {d} /\ \A t \in Table \ Busy : Same(d, db, t)
                         /\ ddl.pc # "truncate" => d = db
                         /\ ddl.op \notin {"drop_table", "drop_index"} => Owned(d) \subseteq Owned(db)
  <2>1. \A t : Same(db, db, t)
    BY DEF Same
  <2>2. QED
    BY <2>1 DEF SavedUp, At
<1>11. (Never({"long_key", "crash_in_flush"}) => StraysDown)'
  <2>1. Never({"long_key", "crash_in_flush"})' => Never({"crash_in_flush"})'
    BY DEF Never
  <2>2. \A d \in meta : DOMAIN files \ Owned(d) \subseteq stray'
    BY <1>1
  <2>3. QED
    BY <1>2, <1>9, <1>10, <2>1, <2>2 DEF StraysDown
<1>12. (Never({"crash_in_flush"}) => SavedDown)'
  <2>1. SUFFICES ASSUME Never({"crash_in_flush"})' PROVE SavedDown'
    OBVIOUS
  <2>2. PICK d \in meta : /\ meta = {d} /\ (ddl.pc # "truncate" => d = db)
                          /\ ddl.op \notin {"drop_table", "drop_index"} => Owned(d) \subseteq Owned(db)
    BY <1>9, <1>10, <2>1
  <2>3. Never(CrashMishaps)' => CrashMishap = {}
    BY <1>1, <1>3, CrashMishapIs DEF Never
  <2>4. CrashMishap = {} => Closed = {} /\ Owned(d) \subseteq Owned(db)
    BY <1>3, <2>2, CrashMishapIs
  <2>5. CrashMishap = {} => \A f \in Owned(d) : Opens(f)
    BY <1>3, <2>4 DEF Handles
  <2>6. Never(CrashMishaps)' => \A f \in Owned(d) : Opens(f)'
    BY <1>2, <2>3, <2>5 DEF Opens
  <2>7. QED
    BY <1>2, <2>2, <2>6 DEF SavedDown
<1>13. (Never({"crash_in_flush"}) => KeptDown)'
  <2>1. SUFFICES ASSUME Never({"crash_in_flush"})', NEW d \in meta, NEW t \in Table, t \notin torn'
                 PROVE  Same(d, done, t)
    BY <1>2 DEF KeptDown
  <2>2. t \notin torn /\ t \notin Busy
    BY <1>1, <2>1 DEF Busy
  <2>3. Same(d, db, t) /\ Same(db, done, t)
    BY <1>9, <1>10, <2>1, <2>2 DEF KeptUp
  <2>4. QED
    BY <2>3 DEF Same
<1>14. QED
  BY <1>1, <1>4, <1>6, <1>7, <1>8, <1>11, <1>12, <1>13 DEF CatalogInv

-----------------------------------------------------------------------------
(* The theorems. *)

(* The invariant holds at first, and every step keeps it. *)
LEMMA CatalogInit == Init => CatalogInv
<1> SUFFICES ASSUME Init PROVE CatalogInv
  OBVIOUS
<1>1. /\ dir = FALSE /\ files = NoMeta /\ meta = {} /\ dml = {} /\ server = "down" /\ db = NoMeta
      /\ fhs = {} /\ ihs = {} /\ path2fd = {} /\ ddl = NoDDL /\ torn = {} /\ stray = {} /\ mishaps = {}
  BY DEF Init
<1>2. DOMAIN files = {}
  BY <1>1, EmptyCat
<1>3. Idle /\ Statement
  BY <1>1, NoDDLFields DEF Statement, Idle
<1>4. Types /\ Catalogs
  BY <1>1, <1>2, EmptyCat DEF Types, Catalogs
<1>5. Unmade /\ CanStart
  BY <1>1, <1>2, <1>3 DEF Unmade, CanStart
<1>6. StraysDown /\ SavedDown /\ KeptDown
  BY <1>1, <1>2 DEF StraysDown, SavedDown, KeptDown
<1>7. QED
  BY <1>1, <1>3, <1>4, <1>5, <1>6 DEF CatalogInv

(* CatalogInv speaks of the variables only. *)
LEMMA CatalogStutter == CatalogInv /\ UNCHANGED vars => CatalogInv'
<1> SUFFICES ASSUME CatalogInv, UNCHANGED vars PROVE CatalogInv'
  OBVIOUS
<1>1. UNCHANGED <<dir, files, meta, dml, server, db, fhs, ihs, path2fd, ddl, done, torn, stray, mishaps>>
  BY DEF vars, disk, memory, history
<1>2. Types' /\ Catalogs' /\ Unmade' /\ CanStart'
  BY <1>1 DEF CatalogInv, Types, Catalogs, Unmade, CanStart, Never, Idle
<1>3. Statement'
  BY <1>1 DEF CatalogInv, Statement, Idle, Index, IxFile
<1>4. (server = "up" => Handles)'
  BY <1>1 DEF CatalogInv, Handles, Closed, New, NewOpen, IxFile, At, Never, Opens
<1>5. (Never({"long_key", "crash_in_flush"}) => IF server = "up" THEN StraysUp ELSE StraysDown)'
  BY <1>1 DEF CatalogInv, Never, StraysUp, StraysDown, New, IxFile, Idle
<1>6. (Never({"crash_in_flush"}) => IF server = "up" THEN SavedUp /\ KeptUp ELSE SavedDown /\ KeptDown)'
  <2>1. (Never({"crash_in_flush"})' <=> Never({"crash_in_flush"})) /\ (server' = "up" <=> server = "up") /\ Busy' = Busy
    BY <1>1 DEF Never, Busy
  <2>2. SavedUp => SavedUp'
    BY <1>1, <2>1 DEF SavedUp, At
  <2>3. KeptUp => KeptUp'
    BY <1>1, <2>1 DEF KeptUp
  <2>4. SavedDown => SavedDown'
    BY <1>1 DEF SavedDown, Idle, Never, Opens
  <2>5. KeptDown => KeptDown'
    BY <1>1 DEF KeptDown
  <2>6. QED
    BY <2>1, <2>2, <2>3, <2>4, <2>5 DEF CatalogInv
<1>7. QED
  BY <1>2, <1>3, <1>4, <1>5, <1>6 DEF CatalogInv

(* Every step of the program keeps CatalogInv. *)
LEMMA CatalogStep == CatalogInv /\ [Next]_vars => CatalogInv'
<1> SUFFICES ASSUME CatalogInv, [Next]_vars PROVE CatalogInv'
  OBVIOUS
<1>1. ASSUME NEW t \in Table, create_table(t) \/ drop_table(t) \/ Change(t) PROVE CatalogInv'
  BY <1>1, CreateTableInv, DropTableInv, ChangeInv
<1>2. ASSUME NEW t \in Table, NEW c \in Ix, create_index(t, c) \/ drop_index(t, c) PROVE CatalogInv'
  BY <1>2, CreateIndexInv, DropIndexInv
<1>3. CASE UNCHANGED vars
  BY <1>3, CatalogStutter
<1>4. CASE create_db \/ CreateLog \/ Start \/ Truncate \/ Write \/ close_db \/ CloseFiles
  BY <1>4, CreateDbInv, CreateLogInv, StartInv, TruncateInv, WriteInv, CloseDbInv, CloseFilesInv
<1>5. CASE CreateTableFormat \/ CreateTableRegister \/ DropTableFile \/ DropTableErase
  BY <1>5, CreateTableFormatInv, CreateTableRegisterInv, DropTableFileInv, DropTableEraseInv
<1>6. CASE CreateIndexFormat \/ CreateIndexFails \/ CreateIndexRegister \/ DropIndexFile \/ DropIndexErase
  BY <1>6, CreateIndexFormatInv, CreateIndexFailsInv, CreateIndexRegisterInv, DropIndexFileInv, DropIndexEraseInv
<1>7. CASE RecreateDestroy \/ RecreateFile \/ RecreateFormat \/ Crash
  BY <1>7, RecreateDestroyInv, RecreateFileInv, RecreateFormatInv, CrashInv
<1>8. QED
  BY <1>1, <1>2, <1>3, <1>4, <1>5, <1>6, <1>7 DEF Next

(* CatalogInv holds in every state of the program. *)
LEMMA CatalogAlways == Spec => []CatalogInv
<1>1. Init => CatalogInv
  BY CatalogInit
<1>2. CatalogInv /\ [Next]_vars => CatalogInv'
  BY CatalogStep
<1>3. QED
  BY <1>1, <1>2, PTL DEF Spec


(* What the properties say is part of the invariant. *)
LEMMA CatalogInvSound == CatalogInv => CatalogSound
<1> SUFFICES ASSUME CatalogInv PROVE CatalogSound
  OBVIOUS
<1>1. Types /\ Catalogs /\ Statement
  BY DEF CatalogInv
<1>2. Cat(db)
  BY <1>1 DEF Catalogs
<1>3. TypeOK
  <2>1. \A t \in DOMAIN db : t \in Table /\ db[t].indexes \subseteq Ix
    BY <1>2 DEF Cat
  <2>2. ddl.todo \subseteq Table \X Ix
    <3>1. \/ ddl.todo = {}
          \/ ddl.tab \in DOMAIN db /\ \E c \in db[ddl.tab].indexes : ddl.todo = {<<ddl.tab, c>>}
          \/ ddl.tab \in DOMAIN db /\ ddl.todo = {ddl.tab} \X db[ddl.tab].indexes
          \/ ddl.tab \in DOMAIN db /\ ddl.todo = {ddl.tab} \X (db[ddl.tab].indexes \ {ddl.cols})
          \/ \A x \in ddl.todo : x = <<x[1], x[2]>> /\ x[1] \in DOMAIN db /\ x[2] \in db[x[1]].indexes
      BY <1>1, NoDDLFields DEF Statement, Idle, Index
    <3>2. QED
      BY ONLY <2>1, <3>1
  <2>3. QED
    BY <1>1, <2>1, <2>2 DEF TypeOK, Types
<1>4. HandlesAgree
  <2>1. SUFFICES ASSUME Ready PROVE HandlesAgree
    BY DEF HandlesAgree
  <2>2. Handles /\ Closed = {} /\ NewOpen = {} /\ ddl.pc = "none"
    BY <2>1, Up, WhenIdle DEF Ready
  <2>3. QED
    BY <2>2 DEF HandlesAgree, Handles, At
<1>5. IndexFilesDistinct
  BY <1>2 DEF IndexFilesDistinct, Cat
<1>6. FlagsExact
  BY <1>2 DEF FlagsExact, Cat
<1>7. NoStrayFiles
  <2>1. SUFFICES ASSUME Ready, Never({"long_key", "crash_in_flush"}) PROVE DOMAIN files \ Owned(db) \subseteq stray
    BY DEF NoStrayFiles
  <2>2. StraysUp /\ New = {}
    BY <2>1, Up, WhenIdle DEF Ready
  <2>3. QED
    BY <2>2 DEF StraysUp
<1>8. QED
  BY <1>3, <1>4, <1>5, <1>6, <1>7 DEF CatalogSound

(* SavedUp and KeptUp are what CompleteSurvives asks for between statements. *)
LEMMA CatalogInvSurvives == CatalogInv => CompleteSurvives
<1> SUFFICES ASSUME CatalogInv, Ready, Never({"crash_in_flush"})
             PROVE  /\ meta = {db}
                    /\ \A t \in Table \ torn : /\ t \in DOMAIN db <=> t \in DOMAIN done
                                               /\ t \in DOMAIN db => db[t] = done[t]
  BY DEF CompleteSurvives
<1>1. SavedUp /\ KeptUp /\ Busy = {} /\ ddl.pc = "none"
  BY Up, WhenIdle DEF Ready
<1>2. meta = {db}
  BY <1>1 DEF SavedUp, At
<1>3. \A t \in Table \ torn : Same(db, done, t)
  BY <1>1 DEF KeptUp
<1>4. QED
  BY <1>2, <1>3 DEF Same

(* Whatever statements are issued and wherever the process dies, between   *)
(* two statements the catalog in memory, the handles, the open files, the  *)
(* column flags and the files of the directory agree.                      *)
THEOREM CatalogIsSound == Spec => []CatalogSound
BY CatalogAlways, CatalogInvSound, PTL

(* A server does not fail to start but for the crashes that the property   *)
(* names and for a dropped table that the log still names.                 *)
THEOREM CatalogCanStart == Spec => []CanStart
<1>1. CatalogInv => CanStart
  BY DEF CatalogInv
<1>2. QED
  BY <1>1, CatalogAlways, PTL

(* The effect of a DDL statement that was complete is found again after    *)
(* any number of crashes and restarts.                                     *)
THEOREM StatementsSurvive == Spec => []CompleteSurvives
BY CatalogAlways, CatalogInvSurvives, PTL

==============================================================================
