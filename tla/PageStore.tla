------------------------------ MODULE PageStore ------------------------------
(***************************************************************************)
(* What the buffer pool promises its callers: pages of open files are      *)
(* cells that keep the last value written, whichever of them happen to be  *)
(* in memory.  BufferPool.tla implements this specification.               *)
(*                                                                         *)
(* A cell may be Absent: the page number was given out but the file does   *)
(* not reach that far.  Reading it fails.  The file system fills a gap     *)
(* with zeroes when a later page is written, so an absent cell may turn    *)
(* into Zero at any step.  A cell that is there changes only when a caller *)
(* writes the page it has in hand, or with its whole file.                 *)
(***************************************************************************)
EXTENDS Naturals

CONSTANTS Caller, Fd, MaxPages, Val, Zero, Absent, NoPage

VARIABLES store, size, inHand

Page == Fd \X (0 .. MaxPages - 1)

Init ==
  /\ store \in [Page -> Val \cup {Absent}]
  /\ size \in [Fd -> 0 .. MaxPages]
  /\ inHand = [c \in Caller |-> NoPage]

Fills == SUBSET {p \in Page : store[p] = Absent}

Filled(gaps) == [p \in Page |-> IF p \in gaps THEN Zero ELSE store[p]]

(* Nothing happens to the cells, but that some gaps are filled. *)
Keep == \E gaps \in Fills : store' = Filled(gaps)

(* The caller gets a page, which it can read. *)
Fetch(c, p) ==
  /\ inHand[c] = NoPage
  /\ inHand' = [inHand EXCEPT ![c] = p]
  /\ UNCHANGED size
  /\ Keep /\ store'[p] # Absent

(* It overwrites the page it has in hand, and gives it back. *)
Write(c, v) ==
  /\ inHand[c] # NoPage
  /\ UNCHANGED <<size, inHand>>
  /\ store' = [store EXCEPT ![inHand[c]] = v]

Release(c) ==
  /\ inHand[c] # NoPage
  /\ inHand' = [inHand EXCEPT ![c] = NoPage]
  /\ UNCHANGED size
  /\ Keep

(* new_page appends a zeroed page to the file. *)
Append(c, fd) ==
  /\ inHand[c] = NoPage /\ size[fd] < MaxPages
  /\ inHand' = [inHand EXCEPT ![c] = <<fd, size[fd]>>]
  /\ size' = [size EXCEPT ![fd] = @ + 1]
  /\ \E gaps \in Fills : store' = [Filled(gaps) EXCEPT ![<<fd, size[fd]>>] = Zero]

(* The descriptor is closed and opened again on a new, empty file. *)
Recreate(fd) ==
  /\ \A c \in Caller : inHand[c] # NoPage => inHand[c][1] # fd
  /\ size' = [size EXCEPT ![fd] = 0]
  /\ UNCHANGED inHand
  /\ store' = [p \in Page |-> IF p[1] = fd THEN Absent ELSE store[p]]

(* Eviction, flushing and a read that fails. *)
Fill == UNCHANGED <<size, inHand>> /\ Keep

(* What the pool does itself. *)
Serve ==
  \/ Fill
  \/ \E c \in Caller : \/ \E p \in Page : Fetch(c, p)
                       \/ Release(c)
                       \/ \E fd \in Fd : Append(c, fd)
  \/ \E fd \in Fd : Recreate(fd)

Next == Serve \/ \E c \in Caller, v \in Val : Write(c, v)

Spec == Init /\ [][Next]_<<store, size, inHand>>
=============================================================================
