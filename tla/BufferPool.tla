------------------------------ MODULE BufferPool ------------------------------
(***************************************************************************)
(* The buffer pool: src/storage/buffer_pool_manager.cpp with the LRU       *)
(* replacer of src/replacer/lru_replacer.cpp over the page files of        *)
(* src/storage/disk_manager.cpp.                                           *)
(*                                                                         *)
(* Every method runs under latch_ and is one step.  The callers' own work  *)
(* is not: a caller gets a pointer into a frame, writes through it without *)
(* the latch, and gives the page back by its id.  A Handle is one such     *)
(* pinned pointer (RmPageHandle, IxNodeHandle); a thread that pins two     *)
(* pages is two handles.  Callers unpin with is_dirty = true exactly when  *)
(* they wrote the page or created it.                                      *)
(*                                                                         *)
(* A page's content is one of a few values.  free_list_ is a set: frames   *)
(* that hold no page cannot be told apart.                                 *)
(***************************************************************************)
EXTENDS Naturals, Sequences, FiniteSets

CONSTANTS
  Fd,             \* file descriptors
  RecordFd,       \* those of table files; the others are of index files
  Frame,          \* frames of the pool
  Handle,         \* pinned page pointers callers can hold at a time
  Val, Zero,      \* page contents, and the content of a zeroed page
  MaxPages,       \* bound: pages of a file
  MaxOpens,       \* bound: [Fd -> how often the descriptor is opened]
  ConcurrentDDL,  \* may a file be closed while handles point into it?
  Absent, NoFrame, NoPage, NoHandle

ASSUME PoolAssumption ==
  /\ RecordFd \subseteq Fd /\ IsFiniteSet(Handle) /\ IsFiniteSet(Frame) /\ Zero \in Val
  /\ MaxPages \in Nat /\ MaxOpens \in [Fd -> Nat] /\ ConcurrentDDL \in BOOLEAN

(***************************************************************************)
(* Files are closed only when nobody points into them, and the descriptor  *)
(* of a table file is not used again: DROP TABLE leaves the pages of the   *)
(* table in the pool, and the next file with the descriptor would find     *)
(* them there.                                                             *)
(***************************************************************************)
Undisturbed == ~ConcurrentDDL /\ \A fd \in RecordFd : MaxOpens[fd] <= 1

Page == Fd \X (0 .. MaxPages - 1)

ASSUME NullAssumption ==
  Absent \notin Val /\ NoFrame \notin Frame /\ NoPage \notin Page

Hold == [page : Page, frame : Frame, wrote : BOOLEAN]

ASSUME NoHandleAssumption == NoHandle \notin Hold

VARIABLES
  page_table,   \* [Page -> Frame, or NoFrame]
  pages,        \* [Frame -> id_, data_, is_dirty_ and pin_count_ of a Page]
  free_list,    \* SUBSET Frame
  LRUlist,      \* frames that may be evicted, least recently unpinned first
  disk,         \* [Page -> content, or Absent beyond the end of the file]
  fd2pageno,    \* [Fd -> the next page number to give out]
  opens,        \* [Fd -> how often it was opened]
  isopen,       \* [Fd -> BOOLEAN]
  held          \* [Handle -> the pin it stands for]

files == <<opens, isopen>>
vars == <<page_table, pages, free_list, LRUlist, disk, fd2pageno, files, held>>

InList(s) == {s[i] : i \in 1 .. Len(s)}

HandlesOn(f) == {h \in Handle : held[h] # NoHandle /\ held[h].frame = f}

Mapped(p) == page_table[p] # NoFrame

-----------------------------------------------------------------------------
(* disk_manager.cpp.  Writing past the end leaves a hole that reads as 0. *)

write_pages(d, S, new) ==
  [p \in Page |->
     IF p \in S THEN new[p]
     ELSE IF d[p] = Absent /\ \E q \in S : q[1] = p[1] /\ q[2] > p[2] THEN Zero
     ELSE d[p]]

(* The content each page has in its frame. *)
InMemory == [p \in Page |-> IF Mapped(p) THEN pages[page_table[p]].data ELSE Zero]

-----------------------------------------------------------------------------
(* lru_replacer.cpp. *)

Position(s, f) == CHOOSE i \in 1 .. Len(s) : s[i] = f

pin(s, f) ==
  IF f \in InList(s)
  THEN [j \in 1 .. Len(s) - 1 |-> IF j < Position(s, f) THEN s[j] ELSE s[j + 1]]
  ELSE s

(* max_size_ is the size of the pool. *)
unpin(s, f) ==
  IF f \in InList(s) \/ Len(s) >= Cardinality(Frame) THEN s ELSE Append(s, f)

-----------------------------------------------------------------------------
(* find_victim_page, and what becomes of the page in the victim. *)

Victim(f) ==
  \/ f \in free_list
  \/ free_list = {} /\ LRUlist # <<>> /\ f = Head(LRUlist)

TakeVictim(f) ==
  /\ free_list' = free_list \ {f}
  /\ LRUlist' = IF f \in free_list THEN LRUlist ELSE Tail(LRUlist)

WriteBack_Never(f) == disk

WriteBack(f) ==
  IF pages[f].is_dirty
  THEN write_pages(disk, {pages[f].id}, [p \in Page |-> pages[f].data])
  ELSE disk

Erase(id) == [p \in Page |-> IF p = id THEN NoFrame ELSE page_table[p]]

FreshPage(p, content) == [id |-> p, data |-> content, is_dirty |-> FALSE, pin_count |-> 1]

-----------------------------------------------------------------------------
(* The methods of BufferPoolManager. *)

FetchHit_StillEvictable(h, p) ==
  LET f == page_table[p] IN
  /\ Mapped(p)
  /\ pages' = [pages EXCEPT ![f].pin_count = @ + 1]
  /\ held' = [held EXCEPT ![h] = [page |-> p, frame |-> f, wrote |-> FALSE]]
  /\ UNCHANGED <<page_table, free_list, LRUlist, disk>>

FetchHit(h, p) ==
  LET f == page_table[p] IN
  /\ Mapped(p)
  /\ pages' = [pages EXCEPT ![f].pin_count = @ + 1]
  /\ LRUlist' = pin(LRUlist, f)
  /\ held' = [held EXCEPT ![h] = [page |-> p, frame |-> f, wrote |-> FALSE]]
  /\ UNCHANGED <<page_table, free_list, disk>>

FetchMiss(h, p, f) ==
  /\ ~Mapped(p) /\ Victim(f)
  /\ TakeVictim(f)
  /\ disk' = WriteBack(f)
  /\ disk'[p] # Absent
  /\ page_table' = [Erase(pages[f].id) EXCEPT ![p] = f]
  /\ pages' = [pages EXCEPT ![f] = FreshPage(p, disk'[p])]
  /\ held' = [held EXCEPT ![h] = [page |-> p, frame |-> f, wrote |-> FALSE]]

(***************************************************************************)
(* read_page throws on a short read.  By then the victim is in no list and *)
(* its page out of page_table_, and nothing puts the frame back.  A dirty  *)
(* victim has already been given the new id by update_page.                *)
(***************************************************************************)
FetchFails(p, f) ==
  /\ ~Mapped(p) /\ Victim(f)
  /\ TakeVictim(f)
  /\ disk' = WriteBack(f)
  /\ disk'[p] = Absent
  /\ page_table' = Erase(pages[f].id)
  /\ pages' = IF pages[f].is_dirty
              THEN [pages EXCEPT ![f].id = p, ![f].is_dirty = FALSE]
              ELSE pages
  /\ UNCHANGED held

(* With no victim fetch_page returns nullptr and changes nothing. *)
fetch_page(h, p) ==
  /\ held[h] = NoHandle /\ isopen[p[1]] /\ p[2] < fd2pageno[p[1]]
  /\ \/ FetchHit(h, p)
     \/ \E f \in Frame : FetchMiss(h, p, f) \/ FetchFails(p, f)
  /\ UNCHANGED <<fd2pageno, files>>

(* The creator writes the page header and unpins dirty: wrote starts TRUE. *)
new_page(h, fd) ==
  /\ held[h] = NoHandle /\ isopen[fd] /\ fd2pageno[fd] < MaxPages
  /\ \E f \in Frame :
       LET p == <<fd, fd2pageno[fd]>> IN
       /\ Victim(f)
       /\ TakeVictim(f)
       /\ disk' = WriteBack(f)
       /\ page_table' = [Erase(pages[f].id) EXCEPT ![p] = f]
       /\ pages' = [pages EXCEPT ![f] = FreshPage(p, Zero)]
       /\ held' = [held EXCEPT ![h] = [page |-> p, frame |-> f, wrote |-> TRUE]]
  /\ fd2pageno' = [fd2pageno EXCEPT ![fd] = @ + 1]
  /\ UNCHANGED files

(* A caller writes through its pointer, outside the latch. *)
WritePage(h, v) ==
  /\ held[h] # NoHandle
  /\ pages' = [pages EXCEPT ![held[h].frame].data = v]
  /\ held' = [held EXCEPT ![h].wrote = TRUE]
  /\ UNCHANGED <<page_table, free_list, LRUlist, disk, fd2pageno, files>>

Dirtied(was, now) == was \/ now

(* unpin_page looks the page up by id; a page that is gone is ignored. *)
unpin_page(h) ==
  LET p == held[h].page
      f == page_table[p]
  IN
  /\ held[h] # NoHandle
  /\ IF Mapped(p) /\ pages[f].pin_count > 0
     THEN /\ pages' = [pages EXCEPT ![f].pin_count = @ - 1,
                                    ![f].is_dirty = Dirtied(@, held[h].wrote)]
          /\ LRUlist' = IF pages[f].pin_count = 1 THEN unpin(LRUlist, f) ELSE LRUlist
     ELSE UNCHANGED <<pages, LRUlist>>
  /\ held' = [held EXCEPT ![h] = NoHandle]
  /\ UNCHANGED <<page_table, free_list, disk, fd2pageno, files>>

(* flush_page writes its page, dirty or not; flush_all_dirty_pages the dirty ones. *)
Flush(S) ==
  /\ disk' = write_pages(disk, S, InMemory)
  /\ pages' = [f \in Frame |->
                 IF \E p \in S : page_table[p] = f
                 THEN [pages[f] EXCEPT !.is_dirty = FALSE] ELSE pages[f]]
  /\ UNCHANGED <<page_table, free_list, LRUlist, fd2pageno, files, held>>

flush_page(p) == Mapped(p) /\ isopen[p[1]] /\ Flush({p})

flush_all_dirty_pages ==
  LET S == {p \in Page : Mapped(p) /\ pages[page_table[p]].is_dirty} IN
  /\ \A p \in S : isopen[p[1]]
  /\ S # {} /\ Flush(S)

EmptyPage(f) ==
  [id |-> NoPage, data |-> Zero, is_dirty |-> FALSE, pin_count |-> pages[f].pin_count]

delete_page_LeavesFrameOut(p) ==
  LET f == page_table[p] IN
  /\ Mapped(p) /\ isopen[p[1]] /\ pages[f].pin_count = 0
  /\ disk' = WriteBack(f)
  /\ page_table' = Erase(p)
  /\ LRUlist' = pin(LRUlist, f)
  /\ pages' = [pages EXCEPT ![f] = EmptyPage(f)]
  /\ UNCHANGED <<free_list, fd2pageno, files, held>>

delete_page(p) ==
  LET f == page_table[p] IN
  /\ Mapped(p) /\ isopen[p[1]] /\ pages[f].pin_count = 0
  /\ disk' = WriteBack(f)
  /\ page_table' = Erase(p)
  /\ LRUlist' = pin(LRUlist, f)
  /\ pages' = [pages EXCEPT ![f] = EmptyPage(f)]
  /\ free_list' = free_list \cup {f}
  /\ UNCHANGED <<fd2pageno, files, held>>

-----------------------------------------------------------------------------
(* Files.  DROP TABLE, DROP INDEX and CREATE take no locks. *)

PagesOf(fd) == {p \in Page : p[1] = fd /\ Mapped(p)}
FramesOf(fd) == {page_table[p] : p \in PagesOf(fd)}

MayClose(fd) ==
  /\ isopen[fd]
  /\ ConcurrentDDL \/ \A h \in Handle : held[h] # NoHandle => held[h].page[1] # fd

(* flush_all_pages(fd) alone: RmManager::close_file. *)
close_file(fd) ==
  /\ MayClose(fd) /\ fd \in RecordFd
  /\ disk' = write_pages(disk, PagesOf(fd), InMemory)
  /\ pages' = [f \in Frame |-> IF f \in FramesOf(fd)
                               THEN [pages[f] EXCEPT !.is_dirty = FALSE] ELSE pages[f]]
  /\ isopen' = [isopen EXCEPT ![fd] = FALSE]
  /\ UNCHANGED <<page_table, free_list, LRUlist, fd2pageno, opens, held>>

(* Frames leave the list in order; those that stay keep theirs. *)
KeepOnly(s, S) ==
  LET keep[n \in 0 .. Len(s)] ==
        IF n = 0 THEN <<>>
        ELSE IF s[n] \in S THEN Append(keep[n - 1], s[n]) ELSE keep[n - 1]
  IN  keep[Len(s)]

Kept(fd) == Frame \ FramesOf(fd)

(* flush_all_pages(fd); remove_all_pages(fd): IxManager::close_index. *)
close_index(fd) ==
  /\ MayClose(fd) /\ fd \notin RecordFd
  /\ disk' = write_pages(disk, PagesOf(fd), InMemory)
  /\ page_table' = [p \in Page |-> IF p[1] = fd THEN NoFrame ELSE page_table[p]]
  /\ LRUlist' = KeepOnly(LRUlist, Kept(fd))
  /\ pages' = [f \in Frame |-> IF f \in Kept(fd) THEN pages[f]
                               ELSE [EmptyPage(f) EXCEPT !.pin_count = 0]]
  /\ free_list' = free_list \cup FramesOf(fd)
  /\ isopen' = [isopen EXCEPT ![fd] = FALSE]
  /\ UNCHANGED <<fd2pageno, opens, held>>

(* The dropped file is gone; the number names a new file without pages. *)
open_file(fd) ==
  /\ ~isopen[fd] /\ opens[fd] < MaxOpens[fd]
  /\ disk' = [p \in Page |-> IF p[1] = fd THEN Absent ELSE disk[p]]
  /\ fd2pageno' = [fd2pageno EXCEPT ![fd] = 0]
  /\ isopen' = [isopen EXCEPT ![fd] = TRUE]
  /\ opens' = [opens EXCEPT ![fd] = @ + 1]
  /\ UNCHANGED <<page_table, pages, free_list, LRUlist, held>>

-----------------------------------------------------------------------------
(***************************************************************************)
(* The pool starts empty on open files.  After a crash a file may be       *)
(* shorter than the number of pages its header counts.                     *)
(***************************************************************************)
Init ==
  /\ page_table = [p \in Page |-> NoFrame]
  /\ pages = [f \in Frame |->
                [id |-> NoPage, data |-> Zero, is_dirty |-> FALSE, pin_count |-> 0]]
  /\ free_list = Frame
  /\ LRUlist = <<>>
  /\ fd2pageno \in [Fd -> 0 .. MaxPages]
  /\ \E length \in [Fd -> 0 .. MaxPages] :
       /\ \A fd \in Fd : length[fd] <= fd2pageno[fd]
       /\ disk = [p \in Page |-> IF p[2] < length[p[1]] THEN Zero ELSE Absent]
  /\ opens = [fd \in Fd |-> 1]
  /\ isopen = [fd \in Fd |-> TRUE]
  /\ held = [h \in Handle |-> NoHandle]

Next ==
  \/ \E h \in Handle : \/ \E p \in Page : fetch_page(h, p)
                       \/ \E fd \in Fd : new_page(h, fd)
                       \/ \E v \in Val : WritePage(h, v)
                       \/ unpin_page(h)
  \/ \E p \in Page : flush_page(p) \/ delete_page(p)
  \/ flush_all_dirty_pages
  \/ \E fd \in Fd : close_file(fd) \/ close_index(fd) \/ open_file(fd)

Spec == Init /\ [][Next]_vars

-----------------------------------------------------------------------------
(* Properties. *)

PageFrame == [id : Page \cup {NoPage}, data : Val, is_dirty : BOOLEAN, pin_count : Nat]

(* The pool's fields have the types of the class members. *)
TypeOK ==
  /\ page_table \in [Page -> Frame \cup {NoFrame}]
  /\ pages \in [Frame -> PageFrame]
  /\ free_list \subseteq Frame
  /\ LRUlist \in Seq(Frame)
  /\ disk \in [Page -> Val \cup {Absent}]
  /\ fd2pageno \in [Fd -> 0 .. MaxPages]
  /\ opens \in [Fd -> Nat \ {0}] /\ isopen \in [Fd -> BOOLEAN]
  /\ held \in [Handle -> Hold \cup {NoHandle}]

(* page_table_ finds a page where its users have it: as long as a caller   *)
(* of fetch_page or new_page has not unpinned, a second fetch_page of the  *)
(* same page returns the same frame.                                       *)
HandlesLocated ==
  \A h \in Handle : held[h] # NoHandle => page_table[held[h].page] = held[h].frame

(* page_table_ and the ids in the frames agree: a mapped page is in the    *)
(* frame it is mapped to.                                                  *)
TableSound == \A p \in Page : Mapped(p) => pages[page_table[p]].id = p

(* A page in page_table_ has a number that was given out, so the page that *)
(* new_page makes is never there already; and no page of an index file     *)
(* outlives close_index, so that the next file with the descriptor does    *)
(* not find it.                                                            *)
TableWithinFiles ==
  \A p \in Page : Mapped(p) =>
    p[2] < fd2pageno[p[1]] /\ (p[1] \in RecordFd \/ isopen[p[1]])

(* pin_count_ counts the callers that still use the frame, across          *)
(* fetch_page, new_page and unpin_page of all threads.                     *)
PinsCounted == \A f \in Frame : pages[f].pin_count = Cardinality(HandlesOn(f))

(* find_victim_page never offers a frame that somebody uses, nor the same  *)
(* frame twice; a frame of the free list holds no page and one of the LRU  *)
(* list holds the page it is mapped from.                                  *)
VictimsUnused ==
  /\ \A f \in free_list \cup InList(LRUlist) : HandlesOn(f) = {}
  /\ free_list \cap InList(LRUlist) = {}
  /\ \A i, j \in 1 .. Len(LRUlist) : LRUlist[i] = LRUlist[j] => i = j
  /\ \A f \in free_list : pages[f].id = NoPage /\ ~pages[f].is_dirty
  /\ \A f \in InList(LRUlist) :
       pages[f].id \in Page /\ page_table[pages[f].id] = f

(* A page that is not pinned can be evicted: fetch_page and new_page       *)
(* return nullptr only when every frame is pinned or lost.                 *)
UnpinnedIsEvictable ==
  \A p \in Page : Mapped(p) => \/ pages[page_table[p]].pin_count > 0
                               \/ page_table[p] \in InList(LRUlist)

(* A page can leave memory unwritten only if the file has its content: a   *)
(* clean page that nobody is changing equals its copy on disk, whatever    *)
(* flushes ran between a write and the unpin that marks the page dirty.    *)
CleanIsOnDisk ==
  \A p \in Page :
    Mapped(p) => \/ pages[page_table[p]].is_dirty
                 \/ \E h \in Handle : held[h] # NoHandle /\ held[h].page = p /\ held[h].wrote
                 \/ disk[p] = pages[page_table[p]].data

(* The bookkeeping of the pool: no caller loses sight of its page, no used  *)
(* frame is given away, no unpinned one is withheld and no page can be     *)
(* dropped with content that only memory has.                              *)
PoolSound ==
  /\ TypeOK /\ HandlesLocated /\ TableSound /\ TableWithinFiles /\ PinsCounted
  /\ VictimsUnused /\ UnpinnedIsEvictable /\ CleanIsOnDisk

(* Frames in no list and not mapped: no call can ever use them again. *)
Lost == {f \in Frame : /\ f \notin free_list \cup InList(LRUlist)
                       /\ \A p \in Page : page_table[p] # f}

(* fetch_page loses a frame only when its read fails; every other step     *)
(* keeps all frames available, so that nullptr means that all are in use.  *)
LostOnlyByFailedRead ==
  [][Lost' # Lost => \E p \in Page, f \in Frame : FetchFails(p, f) /\ Lost' = Lost \cup {f}]_vars

(* What a caller that fetches a page gets. *)
Contents == [p \in Page |-> IF Mapped(p) THEN pages[page_table[p]].data ELSE disk[p]]

InHand == [h \in Handle |-> IF held[h] = NoHandle THEN NoPage ELSE held[h].page]

Store == INSTANCE PageStore WITH Caller <- Handle, store <- Contents, size <- fd2pageno,
                                 inHand <- InHand

(* To its callers the pool is a store of pages that keep the last value    *)
(* written: a caller's write goes to the page it has pinned, and no other  *)
(* step (fetching, evicting, unpinning, flushing, deleting, closing) may   *)
(* change a page that is there.                                            *)
KeepsPages ==
  /\ Store!Spec
  /\ [][(\E h \in Handle, v \in Val : WritePage(h, v)) \/ Store!Serve]_vars
=============================================================================
