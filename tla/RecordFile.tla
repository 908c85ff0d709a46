------------------------------ MODULE RecordFile ------------------------------
(***************************************************************************)
(* A table file: slots and bitmaps, the list of pages with free space, and *)
(* the scan, from src/record/rm_file_handle.cpp, rm_scan.cpp and bitmap.h, *)
(* used by transactions that insert and delete under record locks and take *)
(* their changes back when they abort.                                     *)
(*                                                                         *)
(* Record contents play no part here.  insert_record chooses a page and a  *)
(* slot before it asks for the record lock, and nothing latches the page   *)
(* or the header in between: it is two steps.  The other calls change the  *)
(* structure after their lock is granted and are one step each.            *)
(***************************************************************************)
EXTENDS Integers, Sequences, SequencesExt, FiniteSets

CONSTANTS
  Txn,
  PerPage,    \* num_records_per_page
  MaxPages,   \* bound: pages of the file
  MaxWrites,  \* bound: writes of a transaction
  Explore     \* which of the situations named below may arise

(***************************************************************************)
(* "overlap"  a step of another transaction falls between the two steps of *)
(*            an insert_record                                             *)
(* "refill"   undoing a delete fills its page up again                     *)
(***************************************************************************)
ASSUME RecordFileAssumption ==
  /\ PerPage \in Nat \ {0} /\ MaxPages \in Nat \ {0} /\ MaxWrites \in Nat
  /\ Explore \subseteq {"overlap", "refill"}

VARIABLES
  bitmap,      \* [page -> set bits]
  hdr,         \* [page -> num_records and next_free_page_no]
  num_pages,   \* file header: pages, the header page 0 included
  first_free,  \* file header: first_free_page_no
  owner,       \* [rid -> transaction with the X lock]
  chosen,      \* [Txn -> the rid insert_record chose]
  ws,          \* [Txn -> write_set_]
  at,          \* [Txn -> "new", "running", "aborting", "done"]
  committed,   \* rids of committed records: history only
  scan         \* an RmScan, with what it saw

file == <<bitmap, hdr, num_pages, first_free>>
vars == <<file, owner, chosen, ws, at, committed, scan>>

PageNo == 1 .. MaxPages
Slot == 0 .. PerPage - 1
Rid == PageNo \X Slot
NoPage == -1
NoRid == <<-1, -1>>
Free == "free"

(* What is_record finds: the bits of slots that exist. *)
LiveIn(bits) == {r \in Rid : r[2] \in bits[r[1]]}
Live == LiveIn(bitmap)

-----------------------------------------------------------------------------
(* Bitmap::next_bit, with max_n for none. *)

next_bit(bit, bits, curr) ==
  LET found == {i \in curr + 1 .. PerPage - 1 : (i \in bits) = bit}
  IN  IF found = {} THEN PerPage ELSE CHOOSE i \in found : \A j \in found : i <= j

first_bit(bit, bits) == next_bit(bit, bits, -1)

-----------------------------------------------------------------------------
(* The list of pages with free space. *)

(* create_page_handle, with create_new_page_handle if the list is empty. *)
create_page_handle ==
  IF first_free # NoPage
  THEN UNCHANGED <<bitmap, hdr, num_pages, first_free>>
  ELSE /\ num_pages <= MaxPages
       /\ bitmap' = [bitmap EXCEPT ![num_pages] = {}]
       /\ hdr' = [hdr EXCEPT ![num_pages] = [num |-> 0, next |-> NoPage]]
       /\ first_free' = num_pages
       /\ num_pages' = num_pages + 1

PopWhenFull(p) ==
  first_free' = IF hdr[p].num + 1 = PerPage THEN hdr[p].next ELSE first_free

TakeSlot(p, s) ==
  /\ bitmap' = [bitmap EXCEPT ![p] = @ \cup {s}]
  /\ PopWhenFull(p)
  /\ hdr' = [hdr EXCEPT ![p].num = @ + 1]
  /\ UNCHANGED num_pages

(* delete_record after its lock; release_page_handle links the page in. *)
FreeSlot_NotLinked(p, s) ==
  /\ bitmap' = [bitmap EXCEPT ![p] = @ \ {s}]
  /\ hdr' = [hdr EXCEPT ![p].num = @ - 1]
  /\ UNCHANGED <<num_pages, first_free>>

FreeSlot(p, s) ==
  /\ bitmap' = [bitmap EXCEPT ![p] = @ \ {s}]
  /\ IF hdr[p].num = PerPage
     THEN /\ hdr' = [hdr EXCEPT ![p] = [num |-> @.num - 1, next |-> first_free]]
          /\ first_free' = p
     ELSE /\ hdr' = [hdr EXCEPT ![p].num = @ - 1]
          /\ UNCHANGED first_free
  /\ UNCHANGED num_pages

(* insert_record(rid): the page stays where it is in the list. *)
PutBack(p, s) ==
  /\ bitmap' = [bitmap EXCEPT ![p] = @ \cup {s}]
  /\ hdr' = [hdr EXCEPT ![p].num = @ + 1]
  /\ UNCHANGED <<num_pages, first_free>>

-----------------------------------------------------------------------------
(* Transactions. *)

Quiet(t) == "overlap" \in Explore \/ \A u \in Txn \ {t} : chosen[u] = NoRid

CanWrite(t) ==
  at[t] = "running" /\ chosen[t] = NoRid /\ Len(ws[t]) < MaxWrites /\ Quiet(t)

(* A scan must return the records that are there all the time it runs. *)
ScanSees(bits) == scan' = [scan EXCEPT !.must = @ \cap LiveIn(bits)]

begin(t) ==
  /\ at[t] = "new"
  /\ at' = [at EXCEPT ![t] = "running"]
  /\ UNCHANGED <<file, owner, chosen, ws, committed, scan>>

InsertChoose(t) ==
  /\ CanWrite(t)
  /\ create_page_handle
  /\ LET p == first_free' IN
     chosen' = [chosen EXCEPT ![t] = <<p, first_bit(FALSE, bitmap'[p])>>]
  /\ UNCHANGED <<owner, ws, at, committed, scan>>

InsertFinish(t) ==
  LET r == chosen[t] IN
  /\ r # NoRid /\ owner[r] \in {Free, t}
  /\ owner' = [owner EXCEPT ![r] = t]
  /\ TakeSlot(r[1], r[2])
  /\ ws' = [ws EXCEPT ![t] = Append(@, [type |-> "INSERT", rid |-> r])]
  /\ chosen' = [chosen EXCEPT ![t] = NoRid]
  /\ UNCHANGED <<at, committed, scan>>

delete_record(t, r) ==
  /\ CanWrite(t) /\ r \in Live /\ owner[r] \in {Free, t}
  /\ owner' = [owner EXCEPT ![r] = t]
  /\ FreeSlot(r[1], r[2])
  /\ ws' = [ws EXCEPT ![t] = Append(@, [type |-> "DELETE", rid |-> r])]
  /\ ScanSees(bitmap')
  /\ UNCHANGED <<chosen, at, committed>>

Unlocked(t) == [r \in DOMAIN owner |-> IF owner[r] = t THEN Free ELSE owner[r]]

commit(t) ==
  /\ at[t] = "running" /\ chosen[t] = NoRid /\ Quiet(t)
  /\ committed' = (committed \ {r \in Rid : owner[r] = t}) \cup {r \in Live : owner[r] = t}
  /\ at' = [at EXCEPT ![t] = "done"]
  /\ owner' = Unlocked(t)
  /\ ws' = [ws EXCEPT ![t] = <<>>]
  /\ UNCHANGED <<file, chosen, scan>>

abort_ReleasesFirst(t) ==
  /\ at[t] = "running" /\ Quiet(t)
  /\ at' = [at EXCEPT ![t] = "aborting"]
  /\ chosen' = [chosen EXCEPT ![t] = NoRid]
  /\ owner' = Unlocked(t)
  /\ UNCHANGED <<file, ws, committed, scan>>

(* ABORT, or a refused lock: also one that a reader's lock stands against. *)
abort(t) ==
  /\ at[t] = "running" /\ Quiet(t)
  /\ at' = [at EXCEPT ![t] = "aborting"]
  /\ chosen' = [chosen EXCEPT ![t] = NoRid]
  /\ UNCHANGED <<file, owner, ws, committed, scan>>

Refills(r) == hdr[r[1]].num + 1 = PerPage

undo_write_record(t) ==
  LET w == Last(ws[t])
      r == w.rid
  IN
  /\ at[t] = "aborting" /\ ws[t] # <<>> /\ Quiet(t)
  /\ \/ w.type = "INSERT" /\ FreeSlot(r[1], r[2])
     \/ w.type = "DELETE" /\ PutBack(r[1], r[2]) /\ ("refill" \in Explore \/ ~Refills(r))
  /\ ws' = [ws EXCEPT ![t] = Front(@)]
  /\ ScanSees(bitmap')
  /\ UNCHANGED <<owner, chosen, at, committed>>

AbortEnd(t) ==
  /\ at[t] = "aborting" /\ ws[t] = <<>>
  /\ at' = [at EXCEPT ![t] = "done"]
  /\ owner' = Unlocked(t)
  /\ UNCHANGED <<file, chosen, ws, committed, scan>>

-----------------------------------------------------------------------------
(* RmScan.  After a page is exhausted next() goes on at slot -1 - 1 of the *)
(* following page, and is_set(-1) shifts by a negative number; the shift   *)
(* is taken modulo 32 and finds no bit, so the page is read from slot 0.   *)

Where(p, s) ==
  LET here == next_bit(TRUE, bitmap[p], s)
      later == {q \in p + 1 .. num_pages - 1 : first_bit(TRUE, bitmap[q]) < PerPage}
  IN  IF p < num_pages /\ here < PerPage THEN <<p, here>>
      ELSE IF later = {} THEN NoRid
      ELSE LET q == CHOOSE i \in later : \A j \in later : i <= j
           IN  <<q, first_bit(TRUE, bitmap[q])>>

Visit(r, seen, must) ==
  scan' = [on |-> r # NoRid, rid |-> r, seen |-> seen \cup ({r} \ {NoRid}), must |-> must]

ScanStart ==
  /\ scan.rid = NoRid /\ scan.seen = {} /\ num_pages > 1
  /\ Visit(Where(1, -1), {}, Live)
  /\ UNCHANGED <<file, owner, chosen, ws, at, committed>>

Next_SkipsSlot == Where(scan.rid[1], scan.rid[2] + 1)

NextRid == Where(scan.rid[1], scan.rid[2])

ScanNext ==
  /\ scan.on
  /\ Visit(NextRid, scan.seen, scan.must)
  /\ UNCHANGED <<file, owner, chosen, ws, at, committed>>

-----------------------------------------------------------------------------
Init ==
  /\ bitmap = [p \in PageNo |-> {}]
  /\ hdr = [p \in PageNo |-> [num |-> 0, next |-> NoPage]]
  /\ num_pages = 1 /\ first_free = NoPage
  /\ owner = [r \in PageNo \X (0 .. PerPage) |-> Free]
  /\ chosen = [t \in Txn |-> NoRid]
  /\ ws = [t \in Txn |-> <<>>]
  /\ at = [t \in Txn |-> "new"]
  /\ committed = {}
  /\ scan = [on |-> FALSE, rid |-> NoRid, seen |-> {}, must |-> {}]

Next ==
  \/ \E t \in Txn : \/ begin(t) \/ InsertChoose(t) \/ InsertFinish(t)
                    \/ \E r \in Rid : delete_record(t, r)
                    \/ commit(t) \/ abort(t) \/ undo_write_record(t) \/ AbortEnd(t)
  \/ ScanStart \/ ScanNext

Spec == Init /\ [][Next]_vars

-----------------------------------------------------------------------------
(* Properties. *)

(* Page and file headers have their types and no page counts more records  *)
(* than it has slots.                                                      *)
TypeOK ==
  /\ bitmap \in [PageNo -> SUBSET (0 .. PerPage)]
  /\ hdr \in [PageNo -> [num : 0 .. PerPage, next : PageNo \cup {NoPage}]]
  /\ num_pages \in 1 .. MaxPages + 1
  /\ first_free \in PageNo \cup {NoPage}
  /\ chosen \in [Txn -> (PageNo \X (0 .. PerPage)) \cup {NoRid}]
  /\ committed \subseteq Rid

(* The pages the free list leads through. *)
Listed ==
  LET follow[p \in PageNo \cup {NoPage}, n \in 0 .. MaxPages] ==
        IF p = NoPage \/ n = 0 THEN {} ELSE {p} \cup follow[hdr[p].next, n - 1]
  IN  follow[first_free, MaxPages]

(* The list that starts at first_free_page_no leads through exactly the    *)
(* pages that have a free slot: insert_record never allocates while there  *)
(* is room, and never looks for room in a full page.                       *)
FreeListExact ==
  Listed = {p \in 1 .. num_pages - 1 : Slot \ bitmap[p] # {}}

(* insert_record writes only into a slot that exists and is free: no       *)
(* record is overwritten, whatever other transactions delete or take back. *)
InsertFindsRoom ==
  \A t \in Txn : chosen[t] # NoRid => chosen[t] \in Rid \ Live

(* num_records counts the set bits of the page. *)
CountExact == \A p \in PageNo : hdr[p].num = Cardinality(bitmap[p])

(* The space management of the file, in its three parts. *)
FileSound == TypeOK /\ FreeListExact /\ InsertFindsRoom /\ CountExact

(* The slot of a record deleted by a running transaction stays empty until *)
(* the transaction ends, so that undo_write_record can put the record back *)
(* to its old rid.                                                         *)
UndoSlotFree ==
  \A t \in Txn : \A i \in 1 .. Len(ws[t]) :
    ws[t][i].type = "DELETE" /\ (\A j \in i + 1 .. Len(ws[t]) : ws[t][j].rid # ws[t][i].rid)
      => ws[t][i].rid \notin Live

(* A rid nobody has locked holds a record iff a commit left one there:     *)
(* abort takes every insert and delete back.                               *)
AbortRestores == \A r \in Rid : owner[r] = Free => (r \in Live <=> r \in committed)

(* What an abort relies on, and what it achieves. *)
AbortSound == UndoSlotFree /\ AbortRestores

(* A scan that has ended returned every record that was there all along,   *)
(* whatever was inserted or deleted meanwhile.                             *)
ScanComplete == ~scan.on => scan.must \subseteq scan.seen
=============================================================================
