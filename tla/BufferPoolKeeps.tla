--------------------------- MODULE BufferPoolKeeps ---------------------------
(***************************************************************************)
(* What callers see of BufferPool, from the invariant of BufferPoolProofs: *)
(* which frames a step can lose, and that every step is one of PageStore   *)
(* or changes nothing a caller can read.                                   *)
(***************************************************************************)
EXTENDS BufferPoolProofs
-----------------------------------------------------------------------------
(* No frame is lost, and the pool is a page store. *)

(* The contents of the pages are values, or Absent.                        *)
LEMMA ContentsType ==
  ASSUME PoolSound
  PROVE  /\ Contents \in [Page -> Val \cup {Absent}]
         /\ \A q \in Page : Contents[q] = IF Mapped(q) THEN pages[page_table[q]].data ELSE disk[q]
<1>1. \A q \in Page : Mapped(q) => pages[page_table[q]].data \in Val
  BY Located, Types
<1>2. \A q \in Page : disk[q] \in Val \cup {Absent}
  BY Types
<1>3. Contents = [q \in Page |-> IF Mapped(q) THEN pages[page_table[q]].data ELSE disk[q]]
  BY ONLY DEF Contents
<1>4. QED
  BY ONLY <1>1, <1>2, <1>3

(* A step that at most turns absent pages into zeroes keeps the store.     *)
LEMMA KeepStep ==
  ASSUME PoolSound,
         \A q \in Page : \/ Contents'[q] = Contents[q]
                         \/ Contents[q] = Absent /\ Contents'[q] = Zero
  PROVE  Store!Keep
<1> DEFINE gaps == {q \in Page : Contents[q] = Absent /\ Contents'[q] = Zero}
<1>1. Store!Page = Page
  BY ONLY DEF Store!Page, Page
<1>2. gaps \in Store!Fills
  BY ONLY <1>1 DEF Store!Fills
<1>3. Contents' = [q \in Page |-> IF q \in gaps THEN Zero ELSE Contents[q]]
  <2>1. Contents' = [q \in Page |-> Contents'[q]]
    BY ONLY DEF Contents
  <2>2. \A q \in Page : Contents'[q] = IF q \in gaps THEN Zero ELSE Contents[q]
    BY DEF gaps
  <2>3. QED
    BY ONLY <2>1, <2>2
<1>4. Contents' = Store!Filled(gaps)
  BY ONLY <1>1, <1>3 DEF Store!Filled
<1>5. QED
  BY ONLY <1>2, <1>4 DEF Store!Keep

(* It is a Fill if nobody gets or gives back a page, and no file grows.    *)
LEMMA FillStep ==
  ASSUME PoolSound, fd2pageno' = fd2pageno, held' = held,
         \A q \in Page : \/ Contents'[q] = Contents[q]
                         \/ Contents[q] = Absent /\ Contents'[q] = Zero
  PROVE  Store!Serve
<1>1. InHand' = InHand
  BY ONLY held' = held DEF InHand
<1>2. Store!Keep
  BY KeepStep
<1>3. QED
  BY ONLY <1>1, <1>2, fd2pageno' = fd2pageno DEF Store!Serve, Store!Fill

(* What a caller that gets a page has in hand.                             *)
LEMMA TakeInHand ==
  ASSUME PoolSound, NEW h \in Handle, NEW p \in Page, NEW f \in Frame, NEW w \in BOOLEAN,
         held[h] = NoHandle,
         held' = [held EXCEPT ![h] = [page |-> p, frame |-> f, wrote |-> w]]
  PROVE  InHand[h] = NoPage /\ InHand' = [InHand EXCEPT ![h] = p]
<1>1. held \in [Handle -> Hold \cup {NoHandle}]
  BY Types
<1>2. PICK k \in Hold : k = [page |-> p, frame |-> f, wrote |-> w]
  BY DEF Hold
<1>3. k.page = p /\ k # NoHandle /\ held' = [held EXCEPT ![h] = k]
  BY <1>2, NoHandleAssumption
<1>4. InHand = [c \in Handle |-> IF held[c] = NoHandle THEN NoPage ELSE held[c].page]
  BY ONLY DEF InHand
<1>5. InHand' = [c \in Handle |-> IF held'[c] = NoHandle THEN NoPage ELSE held'[c].page]
  BY ONLY DEF InHand
<1>6. QED
  BY ONLY <1>1, <1>3, <1>4, <1>5, held[h] = NoHandle, h \in Handle

(* A caller that gets a page it can read fetches it.                       *)
LEMMA FetchStep ==
  ASSUME PoolSound, NEW h \in Handle, NEW p \in Page, NEW f \in Frame,
         held[h] = NoHandle, fd2pageno' = fd2pageno,
         held' = [held EXCEPT ![h] = [page |-> p, frame |-> f, wrote |-> FALSE]],
         Contents'[p] # Absent,
         \A q \in Page : \/ Contents'[q] = Contents[q]
                         \/ Contents[q] = Absent /\ Contents'[q] = Zero
  PROVE  Store!Serve
<1>1. InHand[h] = NoPage /\ InHand' = [InHand EXCEPT ![h] = p]
  BY TakeInHand
<1>2. Store!Keep
  BY KeepStep
<1>3. Store!Fetch(h, p)
  BY ONLY <1>1, <1>2, fd2pageno' = fd2pageno, Contents'[p] # Absent DEF Store!Fetch
<1>4. Store!Page = Page
  BY ONLY DEF Store!Page, Page
<1>5. QED
  BY ONLY <1>3, <1>4, h \in Handle, p \in Page DEF Store!Serve

(* A page that leaves its frame is on disk with the content it had, and    *)
(* the other pages stay: what eviction and delete_page do to the contents. *)
LEMMA EvictContents ==
  ASSUME PoolSound, NEW f \in Frame, NEW X \in SUBSET Page, HandlesOn(f) = {},
         \A q \in Page : page_table[q] = f <=> q = pages[f].id,
         pages[f].is_dirty => pages[f].id \in Page,
         disk' = WriteBack(f),
         \A q \in Page \ X : page_table'[q] = IF page_table[q] = f THEN NoFrame ELSE page_table[q],
         \A g \in Frame : g # f => pages'[g] = pages[g]
  PROVE  \A q \in Page \ X : \/ Contents'[q] = Contents[q]
                             \/ Contents[q] = Absent /\ Contents'[q] = Zero
<1>1. /\ \A q \in Page : page_table[q] = f => disk'[q] = pages[f].data
      /\ \A q \in Page : page_table[q] # f =>
           disk'[q] = disk[q] \/ (disk[q] = Absent /\ disk'[q] = Zero)
  BY WriteBackFacts
<1>2. \A q \in Page : /\ Contents[q] = IF Mapped(q) THEN pages[page_table[q]].data ELSE disk[q]
                      /\ Contents'[q] = IF Mapped(q)' THEN pages'[page_table'[q]].data ELSE disk'[q]
  BY ONLY DEF Contents
<1> TAKE q \in Page \ X
<1>3. CASE page_table[q] = f
  <2>1. Mapped(q) /\ ~Mapped(q)'
    BY <1>3, NullAssumption DEF Mapped
  <2>2. QED
    BY ONLY <1>1, <1>2, <1>3, <2>1, q \in Page \ X
<1>4. CASE page_table[q] # f
  <2>1. page_table'[q] = page_table[q]
    BY <1>4
  <2>2. Mapped(q)' <=> Mapped(q)
    BY ONLY <2>1 DEF Mapped
  <2>3. Mapped(q) => pages'[page_table'[q]] = pages[page_table[q]]
    BY <1>4, <2>1, Located
  <2>4. QED
    BY ONLY <1>1, <1>2, <1>4, <2>2, <2>3, q \in Page \ X
<1>5. QED
  BY ONLY <1>3, <1>4

(* What bringing a page into a victim does to the contents and the frames. *)
LEMMA LoadContents ==
  ASSUME PoolSound, NEW p \in Page, NEW f \in Frame, NEW c \in Val,
         ~Mapped(p), Victim(f), TakeVictim(f), disk' = WriteBack(f),
         page_table' = [Erase(pages[f].id) EXCEPT ![p] = f],
         pages' = [pages EXCEPT ![f] = FreshPage(p, c)]
  PROVE  /\ Contents'[p] = c
         /\ \A q \in Page \ {p} : \/ Contents'[q] = Contents[q]
                                  \/ Contents[q] = Absent /\ Contents'[q] = Zero
         /\ disk'[p] = Contents[p] \/ (Contents[p] = Absent /\ disk'[p] = Zero)
         /\ Lost' = Lost
<1>1. /\ HandlesOn(f) = {}
      /\ \A q \in Page : page_table[q] = f <=> q = pages[f].id
      /\ pages[f].is_dirty => pages[f].id \in Page
      /\ InList(LRUlist') = InList(LRUlist) \ {f} /\ free_list' = free_list \ {f}
  BY VictimFacts
<1>2. \A q \in Page : page_table'[q] = IF q = p THEN f
                                       ELSE IF page_table[q] = f THEN NoFrame ELSE page_table[q]
  <2>1. Erase(pages[f].id) = [q \in Page |-> IF page_table[q] = f THEN NoFrame ELSE page_table[q]]
    BY <1>1 DEF Erase
  <2>2. page_table' = [[q \in Page |-> IF page_table[q] = f THEN NoFrame ELSE page_table[q]] EXCEPT ![p] = f]
    BY <2>1
  <2>3. QED
    BY ONLY <2>2, p \in Page
<1>3. (\A g \in Frame : g # f => pages'[g] = pages[g]) /\ pages'[f].data = c
  <2>1. FreshPage(p, c).data = c
    BY ONLY DEF FreshPage
  <2>2. QED
    BY ONLY <2>1, PoolSound, Types, f \in Frame, pages' = [pages EXCEPT ![f] = FreshPage(p, c)]
<1>4. \A q \in Page \ {p} : \/ Contents'[q] = Contents[q]
                            \/ Contents[q] = Absent /\ Contents'[q] = Zero
  <2>1. {p} \in SUBSET Page /\ \A q \in Page \ {p} :
          page_table'[q] = IF page_table[q] = f THEN NoFrame ELSE page_table[q]
    BY ONLY <1>2, p \in Page
  <2>2. QED
    BY ONLY <1>1, <1>3, <2>1, PoolSound, f \in Frame, disk' = WriteBack(f), EvictContents
<1>5. Contents'[p] = c
  <2>1. Mapped(p)' /\ page_table'[p] = f
    BY ONLY <1>2, p \in Page, f \in Frame, NullAssumption DEF Mapped
  <2>2. QED
    BY ONLY <1>3, <2>1, p \in Page DEF Contents
<1>6. disk'[p] = Contents[p] \/ (Contents[p] = Absent /\ disk'[p] = Zero)
  <2>1. Contents[p] = disk[p] /\ page_table[p] # f
    BY ONLY ~Mapped(p), p \in Page, f \in Frame, NullAssumption DEF Contents, Mapped
  <2>2. QED
    BY ONLY <1>1, <2>1, disk' = WriteBack(f), PoolSound, f \in Frame, p \in Page, WriteBackFacts
<1>7. Lost' = Lost
  <2>1. f \in free_list \cup InList(LRUlist)
    <3>1. LRUlist # <<>> => Head(LRUlist) \in InList(LRUlist)
      BY Types DEF InList
    <3>2. QED
      BY <3>1 DEF Victim
  <2>2. f \notin Lost /\ f \notin Lost'
    BY ONLY <1>2, <2>1, p \in Page DEF Lost
  <2>3. ASSUME NEW g \in Frame, g # f
        PROVE  g \in Lost' <=> g \in Lost
    <3>1. g \in free_list' \cup InList(LRUlist') <=> g \in free_list \cup InList(LRUlist)
      BY ONLY <1>1, <2>3
    <3>2. \A q \in Page : page_table'[q] = g <=> page_table[q] = g
      BY ONLY <1>2, <2>3, ~Mapped(p), NullAssumption DEF Mapped
    <3>3. QED
      BY ONLY <3>1, <3>2, g \in Frame DEF Lost
  <2>4. Lost \subseteq Frame /\ Lost' \subseteq Frame
    BY ONLY DEF Lost
  <2>5. QED
    BY ONLY <2>2, <2>3, <2>4
<1>8. QED
  BY ONLY <1>4, <1>5, <1>6, <1>7

(* Frames are not lost by steps that keep every mapped or listed frame     *)
(* mapped or listed, and free no other.                                    *)
LEMMA KeepsFrames ==
  ASSUME \A g \in Frame :
           (g \in free_list' \cup InList(LRUlist') \/ \E q \in Page : page_table'[q] = g)
           <=> (g \in free_list \cup InList(LRUlist) \/ \E q \in Page : page_table[q] = g)
  PROVE  Lost' = Lost
BY DEF Lost


(* fetch_page changes no content.                                          *)
LEMMA FetchKeeps ==
  ASSUME PoolSound, NEW h \in Handle, NEW p \in Page, fetch_page(h, p)
  PROVE  /\ Store!Serve
         /\ Lost' = Lost \/ \E f \in Frame : FetchFails(p, f) /\ Lost' = Lost \cup {f}
<1>1. fd2pageno' = fd2pageno /\ held[h] = NoHandle
  BY DEF fetch_page
<1>2. CASE FetchHit(h, p)
  <2>1. PICK f \in Frame : f = page_table[p]
    BY <1>2, Located DEF FetchHit
  <2>2. /\ pages' = [pages EXCEPT ![f].pin_count = @ + 1] /\ LRUlist' = pin(LRUlist, f)
        /\ page_table' = page_table /\ free_list' = free_list /\ disk' = disk
        /\ held' = [held EXCEPT ![h] = [page |-> p, frame |-> f, wrote |-> FALSE]]
    BY ONLY <1>2, <2>1 DEF FetchHit
  <2>3. \A g \in Frame : pages'[g].data = pages[g].data
    BY ONLY <2>2, PoolSound, Types DEF PageFrame
  <2>4. \A q \in Page : Mapped(q)' <=> Mapped(q)
    BY ONLY <2>2 DEF Mapped
  <2>5. \A q \in Page : Contents'[q] = Contents[q]
    BY ONLY <2>2, <2>3, <2>4, PoolSound, Located DEF Contents
  <2>6. InList(LRUlist') = InList(LRUlist) \ {f}
    BY ONLY <2>2, PoolSound, f \in Frame, Types, PinList
  <2>7. Lost' = Lost
    BY ONLY <2>1, <2>2, <2>6, p \in Page, KeepsFrames
  <2>8. Contents'[p] # Absent
    <3>1. Mapped(p)
      BY ONLY <1>2 DEF FetchHit
    <3>2. Contents[p] = pages[f].data
      BY ONLY <2>1, <3>1, p \in Page DEF Contents
    <3>3. pages[f].data \in Val
      BY ONLY PoolSound, Types, f \in Frame
    <3>4. QED
      BY ONLY <2>5, <3>2, <3>3, p \in Page, NullAssumption
  <2>9. QED
    BY ONLY <1>1, <2>2, <2>5, <2>7, <2>8, PoolSound, h \in Handle, p \in Page, f \in Frame, FetchStep
<1>3. ASSUME NEW f \in Frame, FetchMiss(h, p, f)
      PROVE  Store!Serve /\ Lost' = Lost
  <2>1. /\ ~Mapped(p) /\ Victim(f) /\ TakeVictim(f) /\ disk' = WriteBack(f) /\ disk'[p] # Absent
        /\ page_table' = [Erase(pages[f].id) EXCEPT ![p] = f]
        /\ pages' = [pages EXCEPT ![f] = FreshPage(p, disk'[p])]
        /\ held' = [held EXCEPT ![h] = [page |-> p, frame |-> f, wrote |-> FALSE]]
    BY ONLY <1>3 DEF FetchMiss
  <2>2. PICK c \in Val : c = disk'[p]
    BY ONLY <2>1, PoolSound, f \in Frame, p \in Page, VictimFacts, WriteBackFacts
  <2>3. /\ Contents'[p] = c
        /\ \A q \in Page \ {p} : \/ Contents'[q] = Contents[q]
                                 \/ Contents[q] = Absent /\ Contents'[q] = Zero
        /\ disk'[p] = Contents[p] \/ (Contents[p] = Absent /\ disk'[p] = Zero)
        /\ Lost' = Lost
    BY ONLY <2>1, <2>2, c \in Val, PoolSound, f \in Frame, p \in Page, LoadContents
  <2>4. \A q \in Page : \/ Contents'[q] = Contents[q]
                        \/ Contents[q] = Absent /\ Contents'[q] = Zero
    BY ONLY <2>2, <2>3
  <2>5. Contents'[p] # Absent
    BY ONLY <2>3, c \in Val, NullAssumption
  <2>6. QED
    BY ONLY <1>1, <2>1, <2>3, <2>4, <2>5, PoolSound, h \in Handle, p \in Page, f \in Frame, FetchStep
<1>4. ASSUME NEW f \in Frame, FetchFails(p, f)
      PROVE  Store!Serve /\ Lost' = Lost \cup {f}
  <2>1. /\ Victim(f) /\ TakeVictim(f) /\ disk' = WriteBack(f) /\ page_table' = Erase(pages[f].id)
        /\ pages' = IF pages[f].is_dirty
                    THEN [pages EXCEPT ![f].id = p, ![f].is_dirty = FALSE] ELSE pages
        /\ held' = held
    BY ONLY <1>4 DEF FetchFails
  <2>2. /\ HandlesOn(f) = {}
        /\ \A q \in Page : page_table[q] = f <=> q = pages[f].id
        /\ pages[f].is_dirty => pages[f].id \in Page
        /\ InList(LRUlist') = InList(LRUlist) \ {f} /\ free_list' = free_list \ {f}
    BY ONLY <2>1, PoolSound, f \in Frame, VictimFacts
  <2>3. \A q \in Page : page_table'[q] = IF page_table[q] = f THEN NoFrame ELSE page_table[q]
    BY ONLY <2>1, <2>2 DEF Erase
  <2>4. \A g \in Frame : g # f => pages'[g] = pages[g]
    BY ONLY <2>1, PoolSound, Types
  <2>5. \A q \in Page \ {} : \/ Contents'[q] = Contents[q]
                             \/ Contents[q] = Absent /\ Contents'[q] = Zero
    BY ONLY <2>1, <2>2, <2>3, <2>4, PoolSound, f \in Frame, {} \in SUBSET Page, EvictContents
  <2>6. Lost' = Lost \cup {f}
    <3>1. \A g \in Frame : g # f =>
            /\ g \in free_list' \cup InList(LRUlist') <=> g \in free_list \cup InList(LRUlist)
            /\ \A q \in Page : page_table'[q] = g <=> page_table[q] = g
      BY ONLY <2>2, <2>3, NullAssumption
    <3>2. f \notin free_list' \cup InList(LRUlist') /\ \A q \in Page : page_table'[q] # f
      BY ONLY <2>2, <2>3, f \in Frame, NullAssumption
    <3>3. QED
      BY ONLY <3>1, <3>2, f \in Frame DEF Lost
  <2>7. QED
    BY ONLY <1>1, <2>1, <2>5, <2>6, PoolSound, FillStep
<1>5. QED
  BY <1>2, <1>3, <1>4 DEF fetch_page

(* new_page appends a zeroed page.                                         *)
LEMMA NewPageKeeps ==
  ASSUME PoolSound, NEW h \in Handle, NEW fd \in Fd, new_page(h, fd)
  PROVE  Store!Serve /\ Lost' = Lost
<1>1. PICK n \in Nat : n = fd2pageno[fd]
  BY Types
<1> DEFINE p == <<fd, n>>
<1>2. PICK f \in Frame :
        /\ Victim(f) /\ TakeVictim(f) /\ disk' = WriteBack(f)
        /\ page_table' = [Erase(pages[f].id) EXCEPT ![p] = f]
        /\ pages' = [pages EXCEPT ![f] = FreshPage(p, Zero)]
        /\ held' = [held EXCEPT ![h] = [page |-> p, frame |-> f, wrote |-> TRUE]]
  BY <1>1 DEF new_page
<1>3. held[h] = NoHandle /\ n < MaxPages /\ fd2pageno' = [fd2pageno EXCEPT ![fd] = @ + 1]
  BY <1>1 DEF new_page
<1>4. p \in Page /\ p[1] = fd /\ p[2] = n
  BY ONLY <1>3, fd \in Fd, n \in Nat, PoolAssumption DEF Page
<1>5. ~Mapped(p)
  BY ONLY <1>1, <1>4, n \in Nat, PoolSound DEF PoolSound, TableWithinFiles
<1> HIDE DEF p
<1>6. /\ Contents'[p] = Zero
      /\ \A q \in Page \ {p} : \/ Contents'[q] = Contents[q]
                               \/ Contents[q] = Absent /\ Contents'[q] = Zero
      /\ Lost' = Lost
  BY ONLY <1>2, <1>4, <1>5, PoolSound, f \in Frame, PoolAssumption, LoadContents
<1>7. Store!Append(h, fd)
  <2> DEFINE gaps == {q \in Page \ {p} : Contents[q] = Absent /\ Contents'[q] = Zero}
  <2>1. Store!Page = Page
    BY ONLY DEF Store!Page, Page
  <2>2. gaps \in Store!Fills
    BY ONLY <2>1 DEF Store!Fills
  <2>3. Contents' = [[q \in Page |-> IF q \in gaps THEN Zero ELSE Contents[q]] EXCEPT ![p] = Zero]
    <3>1. Contents' = [q \in Page |-> Contents'[q]]
      BY ONLY DEF Contents
    <3>2. \A q \in Page : q # p => Contents'[q] = IF q \in gaps THEN Zero ELSE Contents[q]
      BY ONLY <1>6 DEF gaps
    <3>3. QED
      BY ONLY <1>4, <1>6, <3>1, <3>2
  <2> HIDE DEF gaps
  <2>4. Contents' = [Store!Filled(gaps) EXCEPT ![<<fd, fd2pageno[fd]>>] = Zero]
    BY ONLY <1>1, <2>1, <2>3 DEF Store!Filled, p
  <2>5. InHand[h] = NoPage /\ InHand' = [InHand EXCEPT ![h] = p]
    BY ONLY <1>2, <1>3, <1>4, PoolSound, h \in Handle, f \in Frame, TRUE \in BOOLEAN, TakeInHand
  <2>6. InHand' = [InHand EXCEPT ![h] = <<fd, fd2pageno[fd]>>]
    BY ONLY <1>1, <2>5 DEF p
  <2>7. QED
    BY ONLY <1>1, <1>3, <2>2, <2>4, <2>5, <2>6 DEF Store!Append
<1>8. QED
  BY ONLY <1>6, <1>7, h \in Handle, fd \in Fd DEF Store!Serve


(* A caller's write reaches its page, and no other.                        *)
LEMMA WriteKeeps ==
  ASSUME PoolSound, NEW h \in Handle, NEW v \in Val, WritePage(h, v)
  PROVE  Store!Write(h, v) /\ Lost' = Lost
<1>1. PICK p \in Page : p = held[h].page /\ page_table[p] = held[h].frame
  BY Located DEF WritePage
<1>2. PICK f \in Frame : f = held[h].frame
  BY Located DEF WritePage
<1>3. /\ pages' = [pages EXCEPT ![f].data = v] /\ page_table' = page_table
      /\ free_list' = free_list /\ LRUlist' = LRUlist /\ disk' = disk /\ fd2pageno' = fd2pageno
  BY <1>2 DEF WritePage
<1>4. \A q \in Page : Mapped(q)' <=> Mapped(q)
  BY ONLY <1>3 DEF Mapped
<1>5. (\A g \in Frame : g # f => pages'[g] = pages[g]) /\ pages'[f].data = v
  BY ONLY <1>3, f \in Frame, PoolSound, Types DEF PageFrame
<1>6. Contents'[p] = v
  <2>1. Mapped(p)' /\ page_table'[p] = f
    BY ONLY <1>1, <1>2, <1>3, NullAssumption, f \in Frame DEF Mapped
  <2>2. QED
    BY ONLY <1>5, <2>1, p \in Page DEF Contents
<1>7. ASSUME NEW q \in Page, q # p
      PROVE  Contents'[q] = Contents[q]
  <2>1. Mapped(q) => page_table[q] # f /\ page_table[q] \in Frame
    BY ONLY <1>1, <1>2, <1>7, q \in Page, p \in Page, PoolSound, Located
  <2>2. Mapped(q) => pages'[page_table'[q]] = pages[page_table[q]]
    BY ONLY <1>3, <1>5, <2>1
  <2>3. /\ Contents[q] = IF Mapped(q) THEN pages[page_table[q]].data ELSE disk[q]
        /\ Contents'[q] = IF Mapped(q)' THEN pages'[page_table'[q]].data ELSE disk'[q]
    BY ONLY q \in Page DEF Contents
  <2>4. QED
    BY ONLY <1>3, <1>4, <2>2, <2>3, q \in Page
<1>8. Contents' = [Contents EXCEPT ![p] = v]
  <2>1. Contents' = [q \in Page |-> Contents'[q]] /\ Contents = [q \in Page |-> Contents[q]]
    BY ONLY DEF Contents
  <2>2. QED
    BY ONLY <1>6, <1>7, <2>1, p \in Page
<1>9. held[h] # NoHandle /\ held' = [held EXCEPT ![h].wrote = TRUE]
  BY DEF WritePage
<1>10. InHand[h] = p /\ p # NoPage
  BY ONLY <1>1, <1>9, h \in Handle, p \in Page, NullAssumption DEF InHand
<1>11. InHand' = InHand
  <2>1. held \in [Handle -> Hold \cup {NoHandle}]
    BY ONLY PoolSound, Types
  <2>2. PICK k \in Hold : k = [held[h] EXCEPT !.wrote = TRUE]
    BY ONLY <1>9, <2>1, h \in Handle DEF Hold
  <2>3. k.page = held[h].page /\ k # NoHandle
    BY ONLY <1>9, <2>1, <2>2, h \in Handle, NoHandleAssumption DEF Hold
  <2>4. held' = [held EXCEPT ![h] = k]
    BY ONLY <1>9, <2>2
  <2>5. \A c \in Handle : (IF held'[c] = NoHandle THEN NoPage ELSE held'[c].page)
                          = IF held[c] = NoHandle THEN NoPage ELSE held[c].page
    BY ONLY <1>9, <2>1, <2>3, <2>4, h \in Handle
  <2>6. QED
    BY ONLY <2>5 DEF InHand
<1>12. Lost' = Lost
  BY ONLY <1>3 DEF Lost
<1>13. QED
  BY ONLY <1>3, <1>8, <1>10, <1>11, <1>12 DEF Store!Write

(* unpin_page changes no content, and the frame is still mapped.           *)
LEMMA UnpinKeeps ==
  ASSUME PoolSound, NEW h \in Handle, unpin_page(h)
  PROVE  Store!Serve /\ Lost' = Lost
<1>1. PICK p \in Page : p = held[h].page /\ page_table[p] = held[h].frame /\ Mapped(p)
  BY Located DEF unpin_page
<1>2. PICK f \in Frame : f = page_table[p]
  BY <1>1, Located
<1>3. /\ page_table' = page_table /\ free_list' = free_list /\ disk' = disk /\ fd2pageno' = fd2pageno
  BY DEF unpin_page
<1>4. /\ \A g \in Frame : pages'[g].data = pages[g].data
      /\ LRUlist' = LRUlist \/ LRUlist' = unpin(LRUlist, f)
  <2>1. CASE pages[f].pin_count > 0
    <3>1. /\ pages' = [pages EXCEPT ![f].pin_count = @ - 1, ![f].is_dirty = Dirtied(@, held[h].wrote)]
          /\ LRUlist' = IF pages[f].pin_count = 1 THEN unpin(LRUlist, f) ELSE LRUlist
      BY <1>1, <1>2, <2>1 DEF unpin_page
    <3>2. QED
      BY ONLY <3>1, PoolSound, Types, f \in Frame DEF PageFrame
  <2>2. CASE ~(pages[f].pin_count > 0)
    BY <1>1, <1>2, <2>2 DEF unpin_page
  <2>3. QED
    BY ONLY <2>1, <2>2
<1>5. \A q \in Page : Mapped(q)' <=> Mapped(q)
  BY ONLY <1>3 DEF Mapped
<1>6. \A q \in Page : Contents'[q] = Contents[q]
  BY ONLY <1>3, <1>4, <1>5, PoolSound, Located DEF Contents
<1>7. InList(LRUlist') = InList(LRUlist) \/ InList(LRUlist') = InList(LRUlist) \cup {f}
  BY ONLY <1>4, PoolSound, f \in Frame, Types, UnpinList
<1>8. Lost' = Lost
  BY ONLY <1>2, <1>3, <1>7, p \in Page, KeepsFrames
<1>9. InHand[h] # NoPage /\ InHand' = [InHand EXCEPT ![h] = NoPage]
  <2>1. held \in [Handle -> Hold \cup {NoHandle}]
    BY ONLY PoolSound, Types
  <2>2. held[h] # NoHandle /\ held' = [held EXCEPT ![h] = NoHandle]
    BY DEF unpin_page
  <2>3. InHand = [c \in Handle |-> IF held[c] = NoHandle THEN NoPage ELSE held[c].page]
    BY ONLY DEF InHand
  <2>4. InHand' = [c \in Handle |-> IF held'[c] = NoHandle THEN NoPage ELSE held'[c].page]
    BY ONLY DEF InHand
  <2>5. InHand[h] = p /\ p # NoPage
    BY ONLY <1>1, <2>2, <2>3, h \in Handle, p \in Page, NullAssumption
  <2>6. QED
    BY ONLY <2>1, <2>2, <2>3, <2>4, <2>5, h \in Handle
<1>10. Store!Keep
  BY ONLY <1>6, PoolSound, KeepStep
<1>11. QED
  BY ONLY <1>3, <1>8, <1>9, <1>10, h \in Handle DEF Store!Serve, Store!Release

(* Flushing changes no content; a gap before a written page reads as zero. *)
LEMMA FlushKeeps ==
  ASSUME PoolSound, NEW S \in SUBSET Page, \A q \in S : Mapped(q),
         disk' = write_pages(disk, S, InMemory),
         \A f \in Frame : pages'[f].data = pages[f].data,
         UNCHANGED <<page_table, free_list, LRUlist, fd2pageno, held>>
  PROVE  Store!Serve /\ Lost' = Lost
<1>1. /\ page_table' = page_table /\ free_list' = free_list /\ LRUlist' = LRUlist
      /\ fd2pageno' = fd2pageno /\ held' = held
  OBVIOUS
<1>2. InMemory \in [Page -> Val]
  <2>1. \A q \in Page : Mapped(q) => pages[page_table[q]].data \in Val
    BY ONLY PoolSound, Located, Types
  <2>2. QED
    BY ONLY <2>1, PoolAssumption DEF InMemory
<1>3. \A q \in Page \ S : disk'[q] = disk[q] \/ (disk[q] = Absent /\ disk'[q] = Zero)
  <2>1. disk \in [Page -> Val \cup {Absent}]
    BY ONLY PoolSound, Types
  <2>2. QED
    BY ONLY <1>2, <2>1, disk' = write_pages(disk, S, InMemory), S \in SUBSET Page, WritePages
<1>4. \A q \in Page : Mapped(q)' <=> Mapped(q)
  BY ONLY <1>1 DEF Mapped
<1>5. ASSUME NEW q \in Page
      PROVE  Contents'[q] = Contents[q] \/ (Contents[q] = Absent /\ Contents'[q] = Zero)
  <2>1. CASE Mapped(q)
    <3>1. page_table[q] \in Frame
      BY <2>1, Located
    <3>2. pages'[page_table'[q]].data = pages[page_table[q]].data
      BY <1>1, <3>1
    <3>3. QED
      BY ONLY <1>4, <2>1, <3>2, q \in Page DEF Contents
  <2>2. CASE ~Mapped(q)
    <3>1. q \in Page \ S
      BY <2>2
    <3>2. QED
      BY ONLY <1>3, <1>4, <2>2, <3>1 DEF Contents
  <2>3. QED
    BY ONLY <2>1, <2>2
<1>6. Lost' = Lost
  BY ONLY <1>1 DEF Lost
<1>7. QED
  BY ONLY <1>1, <1>5, <1>6, PoolSound, FillStep

(* The three methods that flush.                                           *)
LEMMA FlushesKeep ==
  ASSUME PoolSound,
         \/ \E p \in Page : flush_page(p)
         \/ flush_all_dirty_pages
         \/ \E fd \in Fd : close_file(fd)
  PROVE  Store!Serve /\ Lost' = Lost
<1>1. \A f \in Frame : [pages[f] EXCEPT !.is_dirty = FALSE].data = pages[f].data
  BY ONLY PoolSound, Types DEF PageFrame
<1>2. ASSUME NEW S \in SUBSET Page, \A q \in S : Mapped(q), Flush(S)
      PROVE  Store!Serve /\ Lost' = Lost
  <2>1. /\ disk' = write_pages(disk, S, InMemory)
        /\ UNCHANGED <<page_table, free_list, LRUlist, fd2pageno, held>>
    BY ONLY <1>2 DEF Flush
  <2>2. \A f \in Frame : pages'[f].data = pages[f].data
    BY ONLY <1>1, <1>2 DEF Flush
  <2>3. QED
    BY ONLY <1>2, <2>1, <2>2, PoolSound, S \in SUBSET Page, FlushKeeps
<1>3. ASSUME NEW fd \in Fd, close_file(fd)
      PROVE  Store!Serve /\ Lost' = Lost
  <2>1. PICK S \in SUBSET Page : S = PagesOf(fd)
    BY ONLY DEF PagesOf
  <2>2. \A q \in S : Mapped(q)
    BY ONLY <2>1 DEF PagesOf
  <2>3. /\ disk' = write_pages(disk, S, InMemory)
        /\ UNCHANGED <<page_table, free_list, LRUlist, fd2pageno, held>>
    BY ONLY <1>3, <2>1 DEF close_file
  <2>4. \A f \in Frame : pages'[f].data = pages[f].data
    BY ONLY <1>1, <1>3 DEF close_file
  <2>5. QED
    BY ONLY <2>2, <2>3, <2>4, PoolSound, S \in SUBSET Page, FlushKeeps
<1>4. ASSUME NEW p \in Page, flush_page(p)
      PROVE  Store!Serve /\ Lost' = Lost
  BY <1>2, <1>4 DEF flush_page
<1>5. ASSUME flush_all_dirty_pages
      PROVE  Store!Serve /\ Lost' = Lost
  BY <1>2, <1>5 DEF flush_all_dirty_pages
<1>6. QED
  BY <1>3, <1>4, <1>5


(* delete_page changes no content, and the frame is free.                  *)
LEMMA DeleteKeeps ==
  ASSUME PoolSound, NEW p \in Page, delete_page(p)
  PROVE  Store!Serve /\ Lost' = Lost
<1>1. PICK f \in Frame : f = page_table[p] /\ Mapped(p)
  BY Located DEF delete_page
<1>2. /\ pages[f].pin_count = 0 /\ disk' = WriteBack(f) /\ page_table' = Erase(p)
      /\ LRUlist' = pin(LRUlist, f) /\ pages' = [pages EXCEPT ![f] = EmptyPage(f)]
      /\ free_list' = free_list \cup {f} /\ fd2pageno' = fd2pageno /\ held' = held
  BY <1>1 DEF delete_page
<1>3. /\ HandlesOn(f) = {} /\ pages[f].id = p
      /\ \A q \in Page : page_table[q] = f <=> q = p
  <2>1. pages[f].id = p
    BY ONLY <1>1, PoolSound, p \in Page DEF PoolSound, TableSound
  <2>2. QED
    BY ONLY <1>1, <1>2, <2>1, PoolSound, p \in Page, Pins, Located
<1>4. \A q \in Page : page_table'[q] = IF page_table[q] = f THEN NoFrame ELSE page_table[q]
  BY ONLY <1>2, <1>3 DEF Erase
<1>5. \A g \in Frame : g # f => pages'[g] = pages[g]
  BY ONLY <1>2, PoolSound, Types
<1>6. \A q \in Page \ {} : \/ Contents'[q] = Contents[q]
                           \/ Contents[q] = Absent /\ Contents'[q] = Zero
  BY ONLY <1>2, <1>3, <1>4, <1>5, PoolSound, f \in Frame, p \in Page, {} \in SUBSET Page, EvictContents
<1>7. InList(LRUlist') = InList(LRUlist) \ {f}
  BY ONLY <1>2, PoolSound, f \in Frame, Types, PinList
<1>8. Lost' = Lost
  <2>1. \A g \in Frame : g # f => \A q \in Page : page_table'[q] = g <=> page_table[q] = g
    BY ONLY <1>4, NullAssumption
  <2>2. QED
    BY ONLY <1>1, <1>2, <1>7, <2>1, p \in Page, KeepsFrames
<1>9. QED
  BY ONLY <1>2, <1>6, <1>8, PoolSound, FillStep

(* close_index changes no content, and the frames are free.                *)
LEMMA CloseIndexKeeps ==
  ASSUME PoolSound, NEW fd \in Fd, close_index(fd)
  PROVE  Store!Serve /\ Lost' = Lost
<1>1. PICK S \in SUBSET Page : S = PagesOf(fd)
  BY ONLY DEF PagesOf
<1>2. \A q \in Page : q \in S <=> q[1] = fd /\ Mapped(q)
  BY ONLY <1>1 DEF PagesOf
<1>3. PICK E \in SUBSET Frame : E = FramesOf(fd) /\ E = {page_table[q] : q \in S}
  <2>1. FramesOf(fd) = {page_table[q] : q \in S}
    BY ONLY <1>1 DEF FramesOf
  <2>2. \A q \in S : page_table[q] \in Frame
    BY ONLY <1>2, S \in SUBSET Page, PoolSound, Located
  <2>3. {page_table[q] : q \in S} \subseteq Frame
    BY ONLY <2>2
  <2>4. QED
    BY ONLY <2>1, <2>3
<1>4. /\ disk' = write_pages(disk, S, InMemory)
      /\ page_table' = [q \in Page |-> IF q[1] = fd THEN NoFrame ELSE page_table[q]]
      /\ LRUlist' = KeepOnly(LRUlist, Kept(fd)) /\ free_list' = free_list \cup E
      /\ fd2pageno' = fd2pageno /\ held' = held
      /\ \A f \in Frame \ E : pages'[f] = pages[f]
  BY <1>1, <1>3 DEF close_index, Kept
<1>5. InMemory \in [Page -> Val] /\ \A q \in S : InMemory[q] = pages[page_table[q]].data
  <2>1. \A q \in Page : Mapped(q) => pages[page_table[q]].data \in Val
    BY ONLY PoolSound, Located, Types
  <2>2. QED
    BY ONLY <1>2, <2>1, PoolAssumption, S \in SUBSET Page DEF InMemory
<1>6. /\ \A q \in S : disk'[q] = pages[page_table[q]].data
      /\ \A q \in Page \ S : disk'[q] = disk[q] \/ (disk[q] = Absent /\ disk'[q] = Zero)
  <2>1. disk \in [Page -> Val \cup {Absent}]
    BY ONLY PoolSound, Types
  <2>2. /\ \A q \in S : write_pages(disk, S, InMemory)[q] = InMemory[q]
        /\ \A q \in Page \ S :
             \/ write_pages(disk, S, InMemory)[q] = disk[q]
             \/ disk[q] = Absent /\ write_pages(disk, S, InMemory)[q] = Zero
    BY ONLY <1>5, <2>1, S \in SUBSET Page, WritePages
  <2>3. QED
    BY ONLY <1>4, <1>5, <2>2
<1>7. \A q \in Page : page_table'[q] = IF q[1] = fd THEN NoFrame ELSE page_table[q]
  BY ONLY <1>4
<1>8. ASSUME NEW q \in Page
      PROVE  Contents'[q] = Contents[q] \/ (Contents[q] = Absent /\ Contents'[q] = Zero)
  <2>1. /\ Contents[q] = IF Mapped(q) THEN pages[page_table[q]].data ELSE disk[q]
        /\ Contents'[q] = IF Mapped(q)' THEN pages'[page_table'[q]].data ELSE disk'[q]
    BY ONLY q \in Page DEF Contents
  <2>2. CASE q \in S
    <3>1. Mapped(q) /\ ~Mapped(q)'
      BY ONLY <1>2, <1>7, <2>2, q \in Page DEF Mapped
    <3>2. QED
      BY ONLY <1>6, <2>1, <2>2, <3>1
  <2>3. CASE ~Mapped(q)
    <3>1. q \notin S /\ ~Mapped(q)'
      BY ONLY <1>2, <1>7, <2>3, q \in Page DEF Mapped
    <3>2. QED
      BY ONLY <1>6, <2>1, <2>3, <3>1, q \in Page
  <2>4. CASE Mapped(q) /\ q \notin S
    <3>1. q[1] # fd /\ page_table'[q] = page_table[q]
      BY ONLY <1>2, <1>7, <2>4, q \in Page
    <3>2. Mapped(q)'
      BY ONLY <2>4, <3>1 DEF Mapped
    <3>3. page_table[q] \in Frame \ E
      BY ONLY <1>3, <2>4, q \in Page, S \in SUBSET Page, PoolSound, Located
    <3>4. QED
      BY ONLY <1>4, <2>1, <2>4, <3>1, <3>2, <3>3
  <2>5. QED
    BY ONLY <2>2, <2>3, <2>4
<1>9. Lost' = Lost
  <2>1. InList(LRUlist') = InList(LRUlist) \cap Kept(fd)
    BY ONLY <1>4, PoolSound, Types, KeepList
  <2>2. \A g \in Frame : g \in Kept(fd) <=> g \notin E
    BY ONLY <1>3 DEF Kept
  <2>3. \A g \in E : \E q \in Page : page_table[q] = g
    BY ONLY <1>3, S \in SUBSET Page
  <2>4. ASSUME NEW g \in Frame, g \notin E, NEW q \in Page
        PROVE  page_table'[q] = g <=> page_table[q] = g
    <3>1. q[1] = fd => page_table'[q] # g
      BY ONLY <1>7, NullAssumption, g \in Frame, q \in Page
    <3>2. q[1] = fd /\ page_table[q] = g => FALSE
      BY ONLY <1>2, <1>3, <2>4, NullAssumption, g \in Frame, q \in Page DEF Mapped
    <3>3. QED
      BY ONLY <1>7, <3>1, <3>2, q \in Page
  <2>5. QED
    BY ONLY <1>4, <2>1, <2>2, <2>3, <2>4, KeepsFrames
<1>10. QED
  BY ONLY <1>4, <1>8, <1>9, PoolSound, FillStep

(* A new file has no page: none of the old one is still in the pool.       *)
LEMMA OpenKeeps ==
  ASSUME PoolSound, Undisturbed, NEW fd \in Fd, open_file(fd)
  PROVE  Store!Serve /\ Lost' = Lost
<1>1. /\ ~isopen[fd] /\ opens[fd] < MaxOpens[fd]
      /\ disk' = [q \in Page |-> IF q[1] = fd THEN Absent ELSE disk[q]]
      /\ fd2pageno' = [fd2pageno EXCEPT ![fd] = 0]
      /\ page_table' = page_table /\ pages' = pages /\ free_list' = free_list /\ LRUlist' = LRUlist
      /\ held' = held
  BY DEF open_file
<1>2. fd \notin RecordFd
  <2>1. opens[fd] \in Nat \ {0} /\ MaxOpens[fd] \in Nat
    BY Types, PoolAssumption
  <2>2. QED
    BY ONLY <1>1, <2>1, Undisturbed DEF Undisturbed
<1>3. \A q \in Page : Mapped(q) => q[1] # fd
  BY ONLY <1>1, <1>2, PoolSound DEF PoolSound, TableWithinFiles
<1>4. \A q \in Page : Mapped(q)' <=> Mapped(q)
  BY ONLY <1>1 DEF Mapped
<1>5. Contents' = [q \in Page |-> IF q[1] = fd THEN Absent ELSE Contents[q]]
  <2>1. Contents' = [q \in Page |-> IF Mapped(q)' THEN pages'[page_table'[q]].data ELSE disk'[q]]
    BY ONLY DEF Contents
  <2>2. \A q \in Page : Contents[q] = IF Mapped(q) THEN pages[page_table[q]].data ELSE disk[q]
    BY ONLY DEF Contents
  <2>3. QED
    BY ONLY <1>1, <1>3, <1>4, <2>1, <2>2
<1>6. Store!Recreate(fd)
  <2>1. \A h \in Handle : held[h] # NoHandle => held[h].page \in Page /\ Mapped(held[h].page)
    BY ONLY PoolSound, Located
  <2>2. \A h \in Handle : InHand[h] # NoPage => InHand[h][1] # fd
    BY ONLY <1>3, <2>1 DEF InHand
  <2>3. InHand' = InHand
    BY ONLY <1>1 DEF InHand
  <2>4. QED
    BY ONLY <1>1, <1>5, <2>2, <2>3 DEF Store!Recreate, Store!Page, Page
<1>7. Lost' = Lost
  BY ONLY <1>1 DEF Lost
<1>8. QED
  BY ONLY <1>6, <1>7, fd \in Fd DEF Store!Serve

(* Every step of the pool is one of the page store, and only a failed read *)
(* loses a frame.                                                          *)
LEMMA NextKeeps ==
  ASSUME Undisturbed, PoolSound, [Next]_vars
  PROVE  /\ [Store!Next]_<<Contents, fd2pageno, InHand>>
         /\ UNCHANGED vars \/ Store!Serve \/ \E h \in Handle, v \in Val : WritePage(h, v)
         /\ UNCHANGED vars \/ Lost' = Lost
              \/ \E p \in Page, f \in Frame : FetchFails(p, f) /\ Lost' = Lost \cup {f}
<1>1. CASE UNCHANGED vars
  BY ONLY <1>1 DEF vars, Contents, Mapped, InHand
<1>2. CASE \E h \in Handle, v \in Val : WritePage(h, v)
  BY ONLY <1>2, PoolSound, WriteKeeps DEF Store!Next
<1>3. CASE Next /\ ~\E h \in Handle, v \in Val : WritePage(h, v)
  <2>1. /\ Store!Serve
        /\ Lost' = Lost
             \/ \E p \in Page, f \in Frame : FetchFails(p, f) /\ Lost' = Lost \cup {f}
    BY <1>3, FetchKeeps, NewPageKeeps, UnpinKeeps, FlushesKeep, DeleteKeeps, CloseIndexKeeps,
       OpenKeeps DEF Next
  <2>2. QED
    BY ONLY <2>1 DEF Store!Next
<1>4. QED
  BY ONLY <1>1, <1>2, <1>3, [Next]_vars

(* A frame of the buffer pool is lost only by a fetch_page whose read      *)
(* fails: every other step keeps each frame in page_table_, free_list_ or  *)
(* the replacer.                                                           *)
THEOREM LosesOnlyByFailedRead ==
  ASSUME Undisturbed
  PROVE  Spec => LostOnlyByFailedRead
<1>1. PoolSound /\ [Next]_vars =>
        [Lost' # Lost => \E p \in Page, f \in Frame : FetchFails(p, f) /\ Lost' = Lost \cup {f}]_vars
  BY NextKeeps
<1>2. QED
  BY <1>1, PoolIsSound, PTL DEF Spec, LostOnlyByFailedRead

(* The buffer pool implements the page store: what a caller gets from a    *)
(* page is what a caller that had the page pinned last wrote to it.        *)
(* Choosing victims, flushing, unpinning, deleting and reusing frames in   *)
(* between leave it alone.                                                 *)
THEOREM PoolKeepsPages ==
  ASSUME Undisturbed
  PROVE  Spec => KeepsPages
<1>1. Init => Store!Init
  <2> HAVE Init
  <2>1. Contents \in [Page -> Val \cup {Absent}]
    BY InitInv, ContentsType
  <2>2. QED
    BY <2>1 DEF Store!Init, Store!Page, Page, Init, InHand
<1>2. PoolSound /\ [Next]_vars =>
        /\ [Store!Next]_<<Contents, fd2pageno, InHand>>
        /\ [(\E h \in Handle, v \in Val : WritePage(h, v)) \/ Store!Serve]_vars
  BY NextKeeps
<1>3. QED
  BY <1>1, <1>2, PoolIsSound, PTL DEF Spec, KeepsPages, Store!Spec


====
