--------------------------- MODULE NestedLoopJoin ---------------------------
(***************************************************************************)
(* The block nested-loop join (executor_nestedloop_join.h).  Left tuples   *)
(* are copied into a block of JOIN_BUFFER_SIZE bytes and the right child is *)
(* scanned once per left tuple of the block, or, when every condition is an *)
(* equality of two columns, once per block, probing a hash table of the     *)
(* block.  The result is `joined`, the pairs of positions in the order in  *)
(* which the executor returns them.                                        *)
(*                                                                         *)
(* A cell is a record: `ord` is what ix_compare compares, `bits` the bytes *)
(* that a hash key is made of.  They differ for the two float zeros.       *)
(***************************************************************************)
EXTENDS Integers, Sequences

CONSTANTS
  JOIN_BUFFER_SIZE,   \* bytes of a block
  Column,             \* columns
  Cell,               \* cells
  Row                 \* rows: functions from columns to cells

ASSUME JoinAssumption ==
  /\ JOIN_BUFFER_SIZE \in Nat
  /\ \A c \in Cell : c.ord \in Int

VARIABLES
  jin,                  \* the children, the conditions and the tuple length
  jpc,                  \* idle, find (in find_next), have (a record is ready), end
  lpos,                 \* next tuple of the left child
  rpos,                 \* current tuple of the right child
  left_block_count,     \* left tuples in the block
  block_idx,            \* left tuple of the block being tried
  hash_block_ready,     \* the hash table of the block is built
  hash_match_indices,   \* block positions that match the right tuple
  hash_match_pending,   \* those of them not returned yet
  joined                \* pairs returned so far

joinVars == <<jin, jpc, lpos, rpos, left_block_count, block_idx, hash_block_ready,
              hash_match_indices, hash_match_pending, joined>>

CompOp == {"EQ", "NE", "LT", "GT", "LE", "GE"}

JoinCondSpec ==
  [lhs : Column, lhs_on_left : BOOLEAN, op : CompOp,
   is_rhs_val : BOOLEAN, rhs_val : Cell, rhs : Column, rhs_on_left : BOOLEAN]

(* What the two children return between beginTuple and their end, whether  *)
(* they implement peekTuple (a sequential scan does, the default returns   *)
(* nullptr), the conditions and the length of a left tuple.                *)
JoinInput ==
  [left : Seq(Row), right : Seq(Row), left_peeks : BOOLEAN, right_peeks : BOOLEAN,
   specs : Seq(JoinCondSpec), left_tuple_len : Nat \ {0}]

-----------------------------------------------------------------------------
(* Conditions. *)

ix_compare(a, b) == IF a.ord < b.ord THEN -1 ELSE IF a.ord > b.ord THEN 1 ELSE 0

eval_compare(cmp, op) ==
  \/ op = "EQ" /\ cmp = 0
  \/ op = "NE" /\ cmp # 0
  \/ op = "LT" /\ cmp < 0
  \/ op = "GT" /\ cmp > 0
  \/ op = "LE" /\ cmp <= 0
  \/ op = "GE" /\ cmp >= 0

Side(on_left, l, r) == IF on_left THEN l ELSE r

SpecHolds(spec, l, r) ==
  LET lhs == Side(spec.lhs_on_left, l, r)[spec.lhs]
      rhs == IF spec.is_rhs_val THEN spec.rhs_val ELSE Side(spec.rhs_on_left, l, r)[spec.rhs]
  IN  eval_compare(ix_compare(lhs, rhs), spec.op)

eval_join_conds(specs, l, r) == \A k \in DOMAIN specs : SpecHolds(specs[k], l, r)

is_pure_equi_join(specs) ==
  /\ specs # <<>>
  /\ \A k \in DOMAIN specs : specs[k].op = "EQ" /\ ~specs[k].is_rhs_val

append_left_key(specs, l) ==
  [k \in DOMAIN specs |-> l[IF specs[k].lhs_on_left THEN specs[k].lhs ELSE specs[k].rhs].bits]

append_right_key(specs, r) ==
  [k \in DOMAIN specs |-> r[IF specs[k].lhs_on_left THEN specs[k].rhs ELSE specs[k].lhs].bits]

-----------------------------------------------------------------------------
(* The block. *)

hash_probe_enabled == is_pure_equi_join(jin.specs)

right_is_end == rpos > Len(jin.right)

(* The first tuple of a block always fits. *)
BlockTuples ==
  LET fit == JOIN_BUFFER_SIZE \div jin.left_tuple_len
  IN  IF fit = 0 THEN 1 ELSE fit

LoadCount ==
  LET rest == Len(jin.left) + 1 - lpos
  IN  IF ~jin.left_peeks THEN 0
      ELSE IF rest < BlockTuples THEN rest ELSE BlockTuples

(* The position in the left child of tuple idx of the block. *)
left_tuple_at(idx) == lpos - left_block_count + idx

(* build_eq_hash and the lookup of the right tuple's key. *)
HashMatches ==
  {idx \in 0 .. left_block_count - 1 :
     append_left_key(jin.specs, jin.left[left_tuple_at(idx)])
       = append_right_key(jin.specs, jin.right[rpos])}

join_records(idx) ==
  /\ joined' = Append(joined, <<left_tuple_at(idx), rpos>>)
  /\ jpc' = "have"

-----------------------------------------------------------------------------
(* The operations of the executor. *)

NoInput ==
  [left |-> <<>>, right |-> <<>>, left_peeks |-> TRUE, right_peeks |-> TRUE,
   specs |-> <<>>, left_tuple_len |-> 1]

JoinInit ==
  /\ jin = NoInput /\ jpc = "idle"
  /\ lpos = 1 /\ rpos = 1
  /\ left_block_count = 0 /\ block_idx = 0
  /\ hash_block_ready = FALSE
  /\ hash_match_indices = {} /\ hash_match_pending = {}
  /\ joined = <<>>

JoinBegin(in) ==
  /\ in \in JoinInput
  /\ jin' = in /\ jpc' = "find"
  /\ lpos' = 1 /\ rpos' = 1
  /\ left_block_count' = 0 /\ block_idx' = 0
  /\ hash_block_ready' = FALSE
  /\ hash_match_indices' = {} /\ hash_match_pending' = {}
  /\ joined' = <<>>

(* find_next_nested *)
NestedLoad ==
  /\ jpc = "find" /\ ~hash_probe_enabled /\ left_block_count = 0
  /\ lpos' = lpos + LoadCount
  /\ left_block_count' = LoadCount
  /\ IF LoadCount = 0
     THEN jpc' = "end" /\ UNCHANGED <<rpos, block_idx>>
     ELSE block_idx' = 0 /\ rpos' = 1 /\ UNCHANGED jpc
  /\ UNCHANGED <<jin, hash_block_ready, hash_match_indices, hash_match_pending, joined>>

try_match_Stay ==
  /\ jpc = "find" /\ ~hash_probe_enabled
  /\ block_idx < left_block_count /\ ~right_is_end
  /\ IF ~jin.right_peeks
     THEN UNCHANGED <<rpos, jpc, joined>>
     ELSE IF eval_join_conds(jin.specs, jin.left[left_tuple_at(block_idx)], jin.right[rpos])
          THEN join_records(block_idx) /\ UNCHANGED rpos
          ELSE UNCHANGED <<rpos, jpc, joined>>
  /\ UNCHANGED <<jin, lpos, left_block_count, block_idx, hash_block_ready,
                 hash_match_indices, hash_match_pending>>

(* With no tuple to peek at, the loop around try_match never advances. *)
try_match ==
  /\ jpc = "find" /\ ~hash_probe_enabled
  /\ block_idx < left_block_count /\ ~right_is_end
  /\ IF ~jin.right_peeks
     THEN UNCHANGED <<rpos, jpc, joined>>
     ELSE IF eval_join_conds(jin.specs, jin.left[left_tuple_at(block_idx)], jin.right[rpos])
          THEN join_records(block_idx) /\ UNCHANGED rpos
          ELSE rpos' = rpos + 1 /\ UNCHANGED <<jpc, joined>>
  /\ UNCHANGED <<jin, lpos, left_block_count, block_idx, hash_block_ready,
                 hash_match_indices, hash_match_pending>>

NestedAdvance_NoRewind ==
  /\ jpc = "find" /\ ~hash_probe_enabled
  /\ block_idx < left_block_count /\ right_is_end
  /\ block_idx' = block_idx + 1
  /\ UNCHANGED <<jin, jpc, lpos, rpos, left_block_count, hash_block_ready,
                 hash_match_indices, hash_match_pending, joined>>

NestedAdvance ==
  /\ jpc = "find" /\ ~hash_probe_enabled
  /\ block_idx < left_block_count /\ right_is_end
  /\ block_idx' = block_idx + 1
  /\ rpos' = 1
  /\ UNCHANGED <<jin, jpc, lpos, left_block_count, hash_block_ready,
                 hash_match_indices, hash_match_pending, joined>>

NestedDropBlock ==
  /\ jpc = "find" /\ ~hash_probe_enabled
  /\ left_block_count > 0 /\ block_idx >= left_block_count
  /\ left_block_count' = 0 /\ block_idx' = 0
  /\ UNCHANGED <<jin, jpc, lpos, rpos, hash_block_ready,
                 hash_match_indices, hash_match_pending, joined>>

(* find_next_hash *)
emit_hash_match ==
  /\ jpc = "find" /\ hash_probe_enabled
  /\ \E idx \in hash_match_pending :
       /\ \A other \in hash_match_pending : idx <= other
       /\ join_records(idx)
       /\ hash_match_pending' = hash_match_pending \ {idx}
  /\ UNCHANGED <<jin, lpos, rpos, left_block_count, block_idx, hash_block_ready,
                 hash_match_indices>>

HashMatchesDone ==
  /\ jpc = "find" /\ hash_probe_enabled
  /\ hash_match_pending = {} /\ hash_match_indices # {}
  /\ hash_match_indices' = {}
  /\ rpos' = IF hash_block_ready /\ ~right_is_end THEN rpos + 1 ELSE rpos
  /\ UNCHANGED <<jin, jpc, lpos, left_block_count, block_idx, hash_block_ready,
                 hash_match_pending, joined>>

HashLoad ==
  /\ jpc = "find" /\ hash_probe_enabled
  /\ hash_match_indices = {} /\ ~hash_block_ready
  /\ lpos' = lpos + LoadCount
  /\ left_block_count' = LoadCount
  /\ IF LoadCount = 0
     THEN jpc' = "end" /\ UNCHANGED <<rpos, hash_block_ready>>
     ELSE rpos' = 1 /\ hash_block_ready' = TRUE /\ UNCHANGED jpc
  /\ UNCHANGED <<jin, block_idx, hash_match_indices, hash_match_pending, joined>>

reset_hash_block ==
  /\ jpc = "find" /\ hash_probe_enabled
  /\ hash_match_indices = {} /\ hash_block_ready /\ right_is_end
  /\ hash_block_ready' = FALSE
  /\ left_block_count' = 0
  /\ UNCHANGED <<jin, jpc, lpos, rpos, block_idx, hash_match_indices,
                 hash_match_pending, joined>>

HashProbe ==
  /\ jpc = "find" /\ hash_probe_enabled
  /\ hash_match_indices = {} /\ hash_block_ready /\ ~right_is_end
  /\ IF jin.right_peeks /\ HashMatches # {}
     THEN /\ hash_match_indices' = HashMatches
          /\ hash_match_pending' = HashMatches
          /\ UNCHANGED rpos
     ELSE rpos' = rpos + 1 /\ UNCHANGED <<hash_match_indices, hash_match_pending>>
  /\ UNCHANGED <<jin, jpc, lpos, left_block_count, block_idx, hash_block_ready, joined>>

(* The caller has taken the record with Next. *)
JoinNextTuple ==
  /\ jpc = "have" /\ jpc' = "find"
  /\ rpos' = IF hash_probe_enabled THEN rpos ELSE rpos + 1
  /\ UNCHANGED <<jin, lpos, left_block_count, block_idx, hash_block_ready,
                 hash_match_indices, hash_match_pending, joined>>

find_next ==
  \/ NestedLoad \/ try_match \/ NestedAdvance \/ NestedDropBlock
  \/ emit_hash_match \/ HashMatchesDone \/ HashLoad \/ reset_hash_block \/ HashProbe

JoinNext == (\E in \in JoinInput : JoinBegin(in)) \/ find_next \/ JoinNextTuple

JoinSpec == JoinInit /\ [][JoinNext]_joinVars

-----------------------------------------------------------------------------
(* Inputs on which the executor is right: both children can be peeked at   *)
(* and, for the hash table, every condition compares a column of one child *)
(* with a column of the other (the planner leaves no other here) and equal *)
(* cells have equal bytes.                                                 *)
Joinable(in) ==
  /\ in.left_peeks /\ in.right_peeks
  /\ is_pure_equi_join(in.specs) =>
       \A k \in DOMAIN in.specs :
         /\ in.specs[k].lhs_on_left # in.specs[k].rhs_on_left
         /\ \A i \in DOMAIN in.left, j \in DOMAIN in.right :
              LET s == in.specs[k]
                  a == Side(s.lhs_on_left, in.left[i], in.right[j])[s.lhs]
                  b == Side(s.rhs_on_left, in.left[i], in.right[j])[s.rhs]
              IN  a \in Cell /\ b \in Cell /\ (a.ord = b.ord <=> a.bits = b.bits)

JoinMatches(in) ==
  {p \in (1 .. Len(in.left)) \X (1 .. Len(in.right)) :
     eval_join_conds(in.specs, in.left[p[1]], in.right[p[2]])}

(* Property: when the join of a Joinable input ends it has returned every  *)
(* matching pair of tuples exactly once, whichever of the two loops ran    *)
(* and however the left child was cut into blocks.                         *)
JoinExact ==
  jpc = "end" /\ Joinable(jin) =>
    /\ {joined[n] : n \in DOMAIN joined} = JoinMatches(jin)
    /\ \A m, n \in DOMAIN joined : joined[m] = joined[n] => m = n

(* The pairs the two loops have looked at. *)
NestedVisited(i, j) ==
  \/ i < lpos - left_block_count + block_idx
  \/ /\ i = lpos - left_block_count + block_idx /\ block_idx < left_block_count
     /\ j < rpos \/ (j = rpos /\ jpc = "have")

HashVisited(i, j) ==
  \/ i < lpos - left_block_count
  \/ i < lpos /\ j < rpos
  \/ j = rpos /\ \E idx \in hash_match_indices \ hash_match_pending : i = left_tuple_at(idx)

Visited(i, j) ==
  \/ ~hash_probe_enabled /\ NestedVisited(i, j)
  \/ hash_probe_enabled /\ HashVisited(i, j)

JoinTypeOK ==
  /\ jin \in JoinInput /\ jpc \in {"idle", "find", "have", "end"}
  /\ lpos \in 1 .. Len(jin.left) + 1
  /\ left_block_count \in 0 .. lpos - 1
  /\ block_idx \in 0 .. left_block_count
  /\ rpos \in 1 .. Len(jin.right) + 1
  /\ hash_block_ready \in BOOLEAN
  /\ hash_match_indices \subseteq 0 .. left_block_count - 1
  /\ hash_match_pending \subseteq hash_match_indices
  /\ joined \in Seq((1 .. Len(jin.left)) \X (1 .. Len(jin.right)))

(* Where the loops are between two steps, on any input. *)
JoinControl ==
  /\ ~hash_probe_enabled /\ jpc = "have" => block_idx < left_block_count /\ ~right_is_end
  /\ ~hash_probe_enabled /\ jpc = "end" => left_block_count = 0
  /\ hash_probe_enabled => (hash_block_ready <=> left_block_count > 0)
  /\ hash_probe_enabled /\ jpc = "end" => ~hash_block_ready
  /\ hash_match_indices # {} => hash_probe_enabled /\ ~right_is_end
  /\ hash_probe_enabled => block_idx = 0

(* What the loops keep true on an input they are right about: the pairs    *)
(* returned are the matching ones among those looked at, each returned     *)
(* once, and the matches of the hash table are those of the current tuple. *)
JoinProgress ==
  /\ {joined[n] : n \in DOMAIN joined} = {p \in JoinMatches(jin) : Visited(p[1], p[2])}
  /\ \A m, n \in DOMAIN joined : joined[m] = joined[n] => m = n
  /\ hash_match_indices # {} => hash_match_indices = HashMatches
  /\ jpc = "end" => lpos = Len(jin.left) + 1

JoinInv == JoinTypeOK /\ JoinControl /\ (Joinable(jin) => JoinProgress)
=============================================================================
