------------------------------- MODULE GapLock -------------------------------
(***************************************************************************)
(* Gap locks on one index (lock_manager.cpp): an index scan takes S on the *)
(* range it reads, a writer takes X on the point of each key it writes.    *)
(* The index has one integer column.  A key is its in-memory image: Width  *)
(* little-endian bytes of base Base in two's complement (4 bytes of base   *)
(* 256 in the program).  A lock is named by an encoded string; the bounds  *)
(* of a held range are read back out of that string.                       *)
(***************************************************************************)
EXTENDS Integers, Sequences, FiniteSets

CONSTANTS
  Txn,      \* transactions
  Width,    \* bytes of a key
  Base,     \* values of a byte
  Keys,     \* the keys that scans and writers use
  MaxLocks  \* bound: gap locks a transaction asks for

(* Base to the power n: what a one in byte n + 1 is worth. *)
Worth[n \in 0 .. Width] == IF n = 0 THEN 1 ELSE Base * Worth[n - 1]

ASSUME GapAssumption ==
  /\ Width \in Nat \ {0} /\ Base \in Nat \ {0, 1} /\ MaxLocks \in Nat
  /\ \A k \in Keys : k \in Int /\ 2 * k < Worth[Width] /\ -Worth[Width] <= 2 * k

VARIABLES
  held,     \* [Txn -> set of gap locks held]
  ended     \* transactions that commit or abort: their locks are being released

vars == <<held, ended>>

Byte == 0 .. Base - 1

-----------------------------------------------------------------------------
(* Keys as bytes. *)

Bytes(k) == [i \in 1 .. Width |-> (k \div Worth[i - 1]) % Base]

Unsigned(b) ==
  LET Low[i \in 0 .. Width] == IF i = 0 THEN 0 ELSE Low[i - 1] + b[i] * Worth[i - 1]
  IN  Low[Width]

(* The int stored in the bytes b. *)
IntOf(b) == IF 2 * Unsigned(b) < Worth[Width] THEN Unsigned(b) ELSE Unsigned(b) - Worth[Width]

Flag(open) == IF open THEN 1 ELSE 0

(* A gap_key_: its tag and the bytes after the tag. *)
encode_gap_range(lower, upper, lopen, uopen) ==
  [tag |-> "R", bytes |-> Bytes(lower) \o <<0>> \o Bytes(upper) \o <<Flag(lopen), Flag(uopen)>>]

encode_gap_point(k) == [tag |-> "P", bytes |-> Bytes(k)]

FirstZero(b) == CHOOSE i \in 1 .. Len(b) : b[i] = 0 /\ \A j \in 1 .. i - 1 : b[j] # 0

(* The bounds are split at the first zero byte of the string, whether it   *)
(* is the separator or a byte of the lower bound.                          *)
decode_gap_range(b) ==
  LET split == FirstZero(b) IN
  [lower |-> SubSeq(b, 1, split - 1),
   upper |-> SubSeq(b, split + 1, Len(b) - 2),
   lopen |-> b[Len(b) - 1] # 0,
   uopen |-> b[Len(b)] # 0]

(* The integers that may be read at s.c_str(): the string, its terminator, *)
(* then bytes that were never written.                                     *)
ReadInt(s) ==
  {IntOf(b) : b \in {c \in [1 .. Width -> Byte] :
     \A i \in 1 .. Width : /\ i <= Len(s) => c[i] = s[i]
                           /\ i = Len(s) + 1 => c[i] = 0}}

-----------------------------------------------------------------------------
(* Conflicts. *)

key_in_gap_range(k, lower, upper, lopen, uopen) ==
  /\ IF lopen THEN lower < k ELSE lower <= k
  /\ IF uopen THEN k < upper ELSE k <= upper

RangeConflict_BoundsExcluded(lower, upper, lopen, uopen, g) ==
  g.tag = "P" /\ key_in_gap_range(IntOf(g.bytes), lower, upper, TRUE, TRUE)

(* gap_lock_conflict of a range request with a held lock: two ranges are   *)
(* both shared.                                                            *)
RangeConflict(lower, upper, lopen, uopen, g) ==
  g.tag = "P" /\ key_in_gap_range(IntOf(g.bytes), lower, upper, lopen, uopen)

(* gap_lock_conflict of a point request with a held lock: the set of       *)
(* answers it can give.                                                    *)
PointConflicts_FlagsSwapped(k, g) ==
  IF g.tag = "P" THEN {IntOf(g.bytes) = k}
  ELSE LET d == decode_gap_range(g.bytes) IN
       {key_in_gap_range(k, l, u, d.uopen, d.lopen) : l \in ReadInt(d.lower), u \in ReadInt(d.upper)}

PointConflicts_RangesOnly(k, g) ==
  IF g.tag = "P" THEN {FALSE}
  ELSE LET d == decode_gap_range(g.bytes) IN
       {key_in_gap_range(k, l, u, d.lopen, d.uopen) : l \in ReadInt(d.lower), u \in ReadInt(d.upper)}

PointConflicts(k, g) ==
  IF g.tag = "P" THEN {IntOf(g.bytes) = k}
  ELSE LET d == decode_gap_range(g.bytes) IN
       {key_in_gap_range(k, l, u, d.lopen, d.uopen) : l \in ReadInt(d.lower), u \in ReadInt(d.upper)}

HeldByOthers(t) == UNION {held[u] : u \in Txn \ {t}}

-----------------------------------------------------------------------------
(* Actions. *)

Init == held = [t \in Txn |-> {}] /\ ended = {}

Grant(t, g) == held' = [held EXCEPT ![t] = @ \cup {g}] /\ UNCHANGED ended
Throw(t) == ended' = ended \cup {t} /\ UNCHANGED held

(* lock_on_gap returns at once when the transaction has this very lock. *)
Asks(t, g) == t \notin ended /\ g \notin held[t] /\ Cardinality(held[t]) < MaxLocks

lock_shared_on_gap_range(t, lower, upper, lopen, uopen) ==
  LET g == encode_gap_range(lower, upper, lopen, uopen)
      Conflict == \E h \in HeldByOthers(t) : RangeConflict(lower, upper, lopen, uopen, h)
  IN  /\ Asks(t, g)
      /\ \/ ~Conflict /\ Grant(t, g)
         \/ Conflict /\ Throw(t)

lock_exclusive_on_gap_point(t, k) ==
  LET g == encode_gap_point(k) IN
  /\ Asks(t, g)
  /\ \/ (\A h \in HeldByOthers(t) : FALSE \in PointConflicts(k, h)) /\ Grant(t, g)
     \/ (\E h \in HeldByOthers(t) : TRUE \in PointConflicts(k, h)) /\ Throw(t)

End(t) == t \notin ended /\ held[t] # {} /\ Throw(t)

unlock(t, g) ==
  /\ t \in ended /\ g \in held[t]
  /\ held' = [held EXCEPT ![t] = @ \ {g}]
  /\ UNCHANGED ended

(* The session thread begins its next transaction. *)
begin(t) == t \in ended /\ held[t] = {} /\ ended' = ended \ {t} /\ UNCHANGED held

Next ==
  \E t \in Txn :
    \/ \E lower, upper \in Keys, lopen, uopen \in BOOLEAN :
         lock_shared_on_gap_range(t, lower, upper, lopen, uopen)
    \/ \E k \in Keys : lock_exclusive_on_gap_point(t, k)
    \/ End(t)
    \/ \E g \in held[t] : unlock(t, g)
    \/ begin(t)

Spec == Init /\ [][Next]_vars

-----------------------------------------------------------------------------
(* Properties. *)

(* The bounds a range lock was asked for, from the undamaged fields of the *)
(* encoded string.                                                         *)
AskedLower(g) == IntOf(SubSeq(g.bytes, 1, Width))
AskedUpper(g) == IntOf(SubSeq(g.bytes, Width + 2, 2 * Width + 1))
Covers(g, k) ==
  /\ g.tag = "R"
  /\ AskedLower(g) < k \/ (AskedLower(g) = k /\ g.bytes[2 * Width + 2] = 0)
  /\ k < AskedUpper(g) \/ (k = AskedUpper(g) /\ g.bytes[2 * Width + 3] = 0)

(* The lower bound has no zero byte, so the string splits where it should. *)
SplitsWell(g) == \A i \in 1 .. Width : g.bytes[i] # 0

Clash(t, u, Which(_)) ==
  \E g \in held[t], h \in held[u] :
    g.tag = "R" /\ h.tag = "P" /\ Which(g) /\ Covers(g, IntOf(h.bytes))

(* Held locks are encoded ranges and points of keys of the index. *)
TypeOK ==
  /\ ended \subseteq Txn
  /\ \A t \in Txn : \A g \in held[t] :
       \/ g.tag = "P" /\ IntOf(g.bytes) \in Keys
       \/ g.tag = "R" /\ AskedLower(g) \in Keys /\ AskedUpper(g) \in Keys

(* Two writers never hold the X lock on the same key of the index          *)
(* (lock_exclusive_on_gap_point), and every lock in the table still names  *)
(* the key or the range it was asked for.                                  *)
PointExclusive ==
  /\ TypeOK
  /\ \A t, u \in Txn : t # u => \A g \in held[t] \cap held[u] : g.tag # "P"

(* A range is never granted over a key on which another transaction holds  *)
(* an X point lock, so a scan does not read around an uncommitted write.   *)
RangeSeesWritersStep ==
  \A t, u \in Txn : t # u =>
    \A g \in held'[t] \ held[t], h \in held[u] :
      g.tag = "R" /\ h.tag = "P" => ~Covers(g, IntOf(h.bytes))
RangeSeesWriters == [][RangeSeesWritersStep]_vars

(* A range lock whose lower bound has no zero byte keeps every other       *)
(* writer out of the range for as long as it is held.                      *)
FenceWhenSplitsWell == \A t, u \in Txn : t # u => ~Clash(t, u, SplitsWell)

(* Phantom prevention as generate_report.py states it: while a transaction *)
(* holds the S gap lock of its range scan, no other transaction holds the  *)
(* X point lock of an insert, delete or update in that range.              *)
NoPhantom == \A t, u \in Txn : t # u => ~Clash(t, u, LAMBDA g : TRUE)

=============================================================================
