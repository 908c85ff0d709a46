---------------------------- MODULE AnswerProofs ----------------------------
(***************************************************************************)
(* Proofs about the last two parts an answer goes through.  JoinInv of     *)
(* NestedLoopJoin is inductive for tables, conditions and block sizes of   *)
(* any size, and JoinExact follows from it; AnswerFits of RecordPrinter    *)
(* holds for every buffer length, number of columns and text.              *)
(***************************************************************************)
EXTENDS NestedLoopJoin, RecordPrinter, TLAPS

-----------------------------------------------------------------------------
(* The join. *)

(* At least one tuple is loaded while the left child has one to peek at,   *)
(* and never more than it has.                                             *)
LEMMA LoadCountBounds ==
  ASSUME jin \in JoinInput, lpos \in 1 .. Len(jin.left) + 1
  PROVE  /\ LoadCount \in 0 .. Len(jin.left) + 1 - lpos
         /\ jin.left_peeks /\ LoadCount = 0 => lpos = Len(jin.left) + 1
<1>1. Len(jin.left) \in Nat /\ jin.left_tuple_len \in Nat \ {0}
  BY DEF JoinInput
<1>2. JOIN_BUFFER_SIZE \div jin.left_tuple_len \in Nat
  BY <1>1, JoinAssumption
<1>3. BlockTuples \in Nat \ {0}
  BY <1>2 DEF BlockTuples
<1>4. QED
  BY <1>1, <1>3 DEF LoadCount

(* ix_compare finds two cells equal exactly when they order the same.      *)
LEMMA CompareEqual ==
  ASSUME NEW x, NEW y, x.ord \in Int, y.ord \in Int
  PROVE  ix_compare(x, y) = 0 <=> x.ord = y.ord
BY DEF ix_compare

(* On the inputs of a hash join, equal keys are what the conditions ask:   *)
(* append_left_key and append_right_key agree exactly when eval_join_conds *)
(* holds.                                                                  *)
LEMMA KeysDecide ==
  ASSUME NEW in \in JoinInput, Joinable(in), is_pure_equi_join(in.specs),
         NEW i \in 1 .. Len(in.left), NEW j \in 1 .. Len(in.right)
  PROVE  append_left_key(in.specs, in.left[i]) = append_right_key(in.specs, in.right[j])
           <=> eval_join_conds(in.specs, in.left[i], in.right[j])
<1> DEFINE l == in.left[i]
           r == in.right[j]
           a(k) == Side(in.specs[k].lhs_on_left, l, r)[in.specs[k].lhs]
           b(k) == Side(in.specs[k].rhs_on_left, l, r)[in.specs[k].rhs]
<1>1. /\ i \in DOMAIN in.left /\ j \in DOMAIN in.right
      /\ \A k \in DOMAIN in.specs : in.specs[k] \in JoinCondSpec
  BY DEF JoinInput
<1>2. ASSUME NEW k \in DOMAIN in.specs
      PROVE  /\ in.specs[k].op = "EQ" /\ ~in.specs[k].is_rhs_val
             /\ in.specs[k].lhs_on_left \in BOOLEAN /\ in.specs[k].rhs_on_left \in BOOLEAN
             /\ in.specs[k].lhs_on_left # in.specs[k].rhs_on_left
             /\ a(k) \in Cell /\ b(k) \in Cell
             /\ a(k).ord = b(k).ord <=> a(k).bits = b(k).bits
  <2>1. in.specs[k].op = "EQ" /\ ~in.specs[k].is_rhs_val
    BY DEF is_pure_equi_join
  <2>2. in.specs[k].lhs_on_left \in BOOLEAN /\ in.specs[k].rhs_on_left \in BOOLEAN
    BY <1>1 DEF JoinCondSpec
  <2>3. QED
    BY <1>1, <2>1, <2>2 DEF Joinable
<1>3. ASSUME NEW k \in DOMAIN in.specs
      PROVE  SpecHolds(in.specs[k], l, r) <=> a(k).bits = b(k).bits
  <2>1. a(k).ord \in Int /\ b(k).ord \in Int
    BY <1>2, JoinAssumption
  <2>2. ix_compare(a(k), b(k)) = 0 <=> a(k).ord = b(k).ord
    <3> HIDE DEF a, b
    <3>1. QED
      BY <2>1, CompareEqual
  <2>3. SpecHolds(in.specs[k], l, r) <=> ix_compare(a(k), b(k)) = 0
    BY <1>2 DEF SpecHolds, eval_compare
  <2>4. QED
    BY <1>2, <2>2, <2>3
<1>4. ASSUME NEW k \in DOMAIN in.specs
      PROVE  append_left_key(in.specs, l)[k] = append_right_key(in.specs, r)[k]
               <=> a(k).bits = b(k).bits
  <2>1. CASE in.specs[k].lhs_on_left
    BY <1>2, <2>1 DEF append_left_key, append_right_key, Side
  <2>2. CASE ~in.specs[k].lhs_on_left
    BY <1>2, <2>2 DEF append_left_key, append_right_key, Side
  <2>3. QED
    BY <2>1, <2>2
<1>5. append_left_key(in.specs, l) = append_right_key(in.specs, r)
        <=> \A k \in DOMAIN in.specs :
              append_left_key(in.specs, l)[k] = append_right_key(in.specs, r)[k]
  BY DEF append_left_key, append_right_key
<1>6. QED
  BY <1>3, <1>4, <1>5 DEF eval_join_conds

(* Appending a new element to a sequence without duplicates adds it to the *)
(* elements and leaves the sequence without duplicates.                    *)
LEMMA AppendNew ==
  ASSUME NEW S, NEW s \in Seq(S), NEW p \in S,
         p \notin {s[n] : n \in DOMAIN s},
         \A m, n \in DOMAIN s : s[m] = s[n] => m = n
  PROVE  /\ Append(s, p) \in Seq(S)
         /\ {Append(s, p)[n] : n \in DOMAIN Append(s, p)} = {s[n] : n \in DOMAIN s} \cup {p}
         /\ \A m, n \in DOMAIN Append(s, p) : Append(s, p)[m] = Append(s, p)[n] => m = n
<1> DEFINE t == Append(s, p)
<1>1. Len(s) \in Nat /\ DOMAIN s = 1 .. Len(s)
  OBVIOUS
<1>2. t \in Seq(S) /\ DOMAIN t = 1 .. Len(s) + 1
  OBVIOUS
<1>3. t[Len(s) + 1] = p /\ \A n \in 1 .. Len(s) : t[n] = s[n]
  OBVIOUS
<1> HIDE DEF t
<1>4. {t[n] : n \in DOMAIN t} = {s[n] : n \in DOMAIN s} \cup {p}
  <2>1. DOMAIN t = DOMAIN s \cup {Len(s) + 1}
    BY <1>1, <1>2
  <2>2. \A n \in DOMAIN s : t[n] = s[n]
    BY <1>1, <1>3
  <2>3. QED
    BY <1>3, <2>1, <2>2
<1>5. \A m, n \in DOMAIN t : t[m] = t[n] => m = n
  <2> SUFFICES ASSUME NEW m \in DOMAIN t, NEW n \in DOMAIN t, t[m] = t[n]
               PROVE  m = n
    OBVIOUS
  <2>1. \A k \in DOMAIN s : s[k] # p
    OBVIOUS
  <2>2. (m \in DOMAIN s \/ m = Len(s) + 1) /\ (n \in DOMAIN s \/ n = Len(s) + 1)
    BY <1>1, <1>2
  <2>3. QED
    BY <1>1, <1>3, <2>1, <2>2
<1>6. QED
  BY <1>2, <1>4, <1>5 DEF t

(* A step that returns nothing keeps JoinProgress when it changes neither  *)
(* the input nor, on matching pairs, what has been looked at.              *)
LEMMA QuietStep ==
  ASSUME JoinProgress, UNCHANGED <<jin, joined>>,
         \A p \in JoinMatches(jin) : Visited(p[1], p[2])' <=> Visited(p[1], p[2]),
         (hash_match_indices # {} => hash_match_indices = HashMatches)',
         (jpc = "end" => lpos = Len(jin.left) + 1)'
  PROVE  JoinProgress'
<1>1. JoinMatches(jin)' = JoinMatches(jin)
  BY DEF JoinMatches, eval_join_conds, SpecHolds
<1>2. {p \in JoinMatches(jin)' : Visited(p[1], p[2])'} = {p \in JoinMatches(jin) : Visited(p[1], p[2])}
  BY <1>1
<1>3. QED
  BY <1>2 DEF JoinProgress

(* A step that returns a matching pair not looked at before, and looks at  *)
(* no other, keeps JoinProgress.                                           *)
LEMMA EmitStep ==
  ASSUME JoinTypeOK, JoinProgress, UNCHANGED jin,
         NEW q \in JoinMatches(jin), joined' = Append(joined, q),
         ~Visited(q[1], q[2]),
         \A p \in JoinMatches(jin) : Visited(p[1], p[2])' <=> (Visited(p[1], p[2]) \/ p = q),
         (hash_match_indices # {} => hash_match_indices = HashMatches)',
         (jpc = "end" => lpos = Len(jin.left) + 1)'
  PROVE  JoinProgress' /\ (joined \in Seq((1 .. Len(jin.left)) \X (1 .. Len(jin.right))))'
<1>1. JoinMatches(jin)' = JoinMatches(jin)
  BY DEF JoinMatches, eval_join_conds, SpecHolds
<1>2. /\ joined \in Seq((1 .. Len(jin.left)) \X (1 .. Len(jin.right)))
      /\ q \in (1 .. Len(jin.left)) \X (1 .. Len(jin.right))
  BY DEF JoinTypeOK, JoinMatches
<1>3. q \notin {joined[n] : n \in DOMAIN joined}
  BY DEF JoinProgress
<1>4. \A m, n \in DOMAIN joined : joined[m] = joined[n] => m = n
  BY DEF JoinProgress
<1>5. /\ joined' \in Seq((1 .. Len(jin.left)) \X (1 .. Len(jin.right)))
      /\ {joined'[n] : n \in DOMAIN joined'} = {joined[n] : n \in DOMAIN joined} \cup {q}
      /\ \A m, n \in DOMAIN joined' : joined'[m] = joined'[n] => m = n
  <2> DEFINE S == (1 .. Len(jin.left)) \X (1 .. Len(jin.right))
  <2>1. joined \in Seq(S) /\ q \in S
    BY <1>2
  <2> HIDE DEF S
  <2>2. /\ Append(joined, q) \in Seq(S)
        /\ {Append(joined, q)[n] : n \in DOMAIN Append(joined, q)}
             = {joined[n] : n \in DOMAIN joined} \cup {q}
        /\ \A m, n \in DOMAIN Append(joined, q) :
             Append(joined, q)[m] = Append(joined, q)[n] => m = n
    BY <1>3, <1>4, <2>1, AppendNew, Zenon
  <2>3. joined' = Append(joined, q)
    OBVIOUS
  <2>4. QED
    BY <2>2, <2>3, Zenon DEF S
<1>6. {joined'[n] : n \in DOMAIN joined'} = {p \in JoinMatches(jin)' : Visited(p[1], p[2])'}
  BY <1>1, <1>5 DEF JoinProgress
<1>7. QED
  BY <1>5, <1>6 DEF JoinProgress

(* The numbers in the state are integers, and an unchanged input keeps the *)
(* loop that runs.                                                         *)
LEMMA JoinNumbers ==
  ASSUME JoinTypeOK
  PROVE  /\ Len(jin.left) \in Nat /\ Len(jin.right) \in Nat
         /\ lpos \in Nat /\ rpos \in Nat /\ left_block_count \in Nat /\ block_idx \in Nat
         /\ UNCHANGED jin => (hash_probe_enabled' <=> hash_probe_enabled)
<1>1. Len(jin.left) \in Nat /\ Len(jin.right) \in Nat
  BY DEF JoinTypeOK, JoinInput
<1>2. UNCHANGED jin => (hash_probe_enabled' <=> hash_probe_enabled)
  BY DEF hash_probe_enabled, is_pure_equi_join
<1>3. QED
  BY <1>1, <1>2 DEF JoinTypeOK

(* Positions of a matching pair are integers. *)
LEMMA PairNumbers ==
  ASSUME JoinTypeOK, NEW p \in JoinMatches(jin)
  PROVE  p[1] \in 1 .. Len(jin.left) /\ p[2] \in 1 .. Len(jin.right) /\ p = <<p[1], p[2]>>
BY DEF JoinMatches

(* Loading the next left block starts its scan at its first tuple and the  *)
(* first right tuple; the pairs of the blocks before it are all looked at. *)
LEMMA NestedLoadInv ==
  ASSUME JoinInv, NestedLoad
  PROVE  JoinInv'
<1>1. JoinTypeOK /\ JoinControl /\ ~hash_probe_enabled /\ UNCHANGED <<jin, joined>>
  BY DEF JoinInv, NestedLoad
<1>2. /\ LoadCount \in 0 .. Len(jin.left) + 1 - lpos
      /\ jin.left_peeks /\ LoadCount = 0 => lpos = Len(jin.left) + 1
  BY <1>1, LoadCountBounds DEF JoinTypeOK
<1>3. left_block_count = 0 /\ block_idx = 0 /\ block_idx' = 0 /\ hash_match_indices = {}
  BY <1>1 DEF NestedLoad, JoinTypeOK, JoinControl
<1>4. JoinTypeOK'
  BY <1>1, <1>2, <1>3, JoinNumbers DEF NestedLoad, JoinTypeOK
<1>5. JoinControl'
  BY <1>1, <1>2, <1>3, JoinNumbers DEF NestedLoad, JoinControl, right_is_end
<1>6. ASSUME Joinable(jin)', JoinProgress
      PROVE  JoinProgress'
  <2>1. ASSUME NEW p \in JoinMatches(jin)
        PROVE  Visited(p[1], p[2])' <=> Visited(p[1], p[2])
    <3>1. p[1] \in Nat /\ p[2] \in Nat /\ p[2] > 0
      BY <1>1, JoinNumbers, PairNumbers
    <3>2. NestedVisited(p[1], p[2]) <=> p[1] < lpos
      BY <1>1, <1>3, <3>1, JoinNumbers DEF NestedVisited
    <3>3. NestedVisited(p[1], p[2])' <=> p[1] < lpos
      <4>1. /\ lpos' - left_block_count' + block_idx' = lpos
            /\ block_idx' < left_block_count' => rpos' = 1
            /\ jpc' # "have"
        BY <1>1, <1>2, <1>3, JoinNumbers DEF NestedLoad
      <4>2. QED
        BY <1>1, <3>1, <4>1, JoinNumbers DEF NestedVisited
    <3>4. QED
      BY <1>1, <3>2, <3>3, JoinNumbers DEF Visited
  <2>2. (jpc = "end" => lpos = Len(jin.left) + 1)'
    <3>1. jpc' = "end" => LoadCount = 0 /\ lpos' = lpos + LoadCount
      BY DEF NestedLoad
    <3>2. jin' = jin /\ jin.left_peeks
      BY <1>1, <1>6 DEF Joinable
    <3>3. lpos \in Nat
      BY <1>1, JoinNumbers
    <3>4. QED
      BY ONLY <1>2, <3>1, <3>2, <3>3
  <2>3. hash_match_indices' = {}
    BY <1>3 DEF NestedLoad
  <2>4. QED
    BY <1>1, <1>6, <2>1, <2>2, <2>3, QuietStep
<1>7. Joinable(jin)' => Joinable(jin)
  BY <1>1
<1>8. QED
  BY <1>4, <1>5, <1>6, <1>7 DEF JoinInv

(* try_match looks at one pair: it returns it if the conditions hold and   *)
(* stays, or passes on.                                                    *)
LEMMA TryMatchInv ==
  ASSUME JoinInv, try_match
  PROVE  JoinInv'
<1> DEFINE i == left_tuple_at(block_idx)
<1>1. JoinTypeOK /\ JoinControl /\ ~hash_probe_enabled
  BY DEF JoinInv, try_match
<1>2. /\ hash_match_indices = {} /\ hash_match_indices' = {}
      /\ UNCHANGED <<jin, lpos, left_block_count, block_idx, hash_block_ready, hash_match_pending>>
      /\ jpc = "find" /\ block_idx < left_block_count
  BY <1>1 DEF try_match, JoinControl
<1>3. /\ rpos \in 1 .. Len(jin.right)
      /\ i \in 1 .. Len(jin.left)
      /\ i = lpos - left_block_count + block_idx
  BY <1>1, JoinNumbers DEF try_match, right_is_end, JoinTypeOK, left_tuple_at
<1>4. \/ UNCHANGED <<rpos, jpc, joined>> /\ ~jin.right_peeks
      \/ /\ eval_join_conds(jin.specs, jin.left[i], jin.right[rpos])
         /\ joined' = Append(joined, <<i, rpos>>) /\ jpc' = "have" /\ rpos' = rpos
      \/ /\ ~eval_join_conds(jin.specs, jin.left[i], jin.right[rpos])
         /\ rpos' = rpos + 1 /\ UNCHANGED <<jpc, joined>>
  BY DEF try_match, join_records
<1>5. JoinTypeOK'
  <2>1. joined' \in Seq((1 .. Len(jin.left)) \X (1 .. Len(jin.right)))
    <3> DEFINE S == (1 .. Len(jin.left)) \X (1 .. Len(jin.right))
    <3>1. <<i, rpos>> \in S
      BY <1>3
    <3>2. joined \in Seq(S)
      BY <1>1 DEF JoinTypeOK
    <3> HIDE DEF i, S
    <3>3. joined' = joined \/ joined' = Append(joined, <<i, rpos>>)
      BY <1>4
    <3>4. joined' \in Seq(S)
      BY <3>1, <3>2, <3>3
    <3>5. QED
      BY <3>4 DEF S
  <2>2. QED
    <3>1. rpos' \in 1 .. Len(jin.right) + 1 /\ jpc' \in {"find", "have"}
      <4>1. (rpos' = rpos \/ rpos' = rpos + 1) /\ jpc' \in {"find", "have"}
        BY ONLY <1>2, <1>4
      <4>2. Len(jin.right) \in Nat
        BY <1>1, JoinNumbers
      <4>3. QED
        BY ONLY <1>3, <4>1, <4>2
    <3>2. /\ jin \in JoinInput /\ lpos \in 1 .. Len(jin.left) + 1
          /\ left_block_count \in 0 .. lpos - 1 /\ block_idx \in 0 .. left_block_count
          /\ hash_block_ready \in BOOLEAN /\ hash_match_pending = {}
      BY <1>1, <1>2 DEF JoinTypeOK
    <3>3. (joined \in Seq((1 .. Len(jin.left)) \X (1 .. Len(jin.right))))'
      BY ONLY <1>2, <2>1, Zenon
    <3>4. /\ hash_match_indices' \subseteq 0 .. left_block_count' - 1
          /\ hash_match_pending' \subseteq hash_match_indices'
      BY ONLY <1>2, <3>2
    <3>5. /\ jpc' \in {"idle", "find", "have", "end"}
          /\ rpos' \in 1 .. Len(jin'.right) + 1
      BY ONLY <1>2, <3>1, Zenon
    <3>6. QED
      BY ONLY <1>2, <3>2, <3>3, <3>4, <3>5, Zenon DEF JoinTypeOK
<1>6. JoinControl'
  BY <1>1, <1>2, <1>3, <1>4, JoinNumbers DEF JoinControl, right_is_end
<1>7. ~hash_probe_enabled'
  BY <1>1, <1>2, JoinNumbers
<1>8. ASSUME NEW a \in Nat, NEW b \in Nat
      PROVE  Visited(a, b) <=> (a < i \/ (a = i /\ b < rpos))
  BY <1>1, <1>2, <1>3, JoinNumbers DEF Visited, NestedVisited
<1>9. ASSUME NEW a \in Nat, NEW b \in Nat
      PROVE  Visited(a, b)' <=> (a < i \/ (a = i /\ (b < rpos' \/ (b = rpos' /\ jpc' = "have"))))
  BY <1>1, <1>2, <1>3, <1>7, JoinNumbers DEF Visited, NestedVisited
<1> HIDE DEF i
<1>10. ASSUME Joinable(jin), JoinProgress
       PROVE  JoinProgress'
  <2>1. jin.right_peeks
    BY <1>10 DEF Joinable
  <2>2. (jpc = "end" => lpos = Len(jin.left) + 1)'
    BY <1>2, <1>4
  <2>3. CASE eval_join_conds(jin.specs, jin.left[i], jin.right[rpos])
    <3>1. joined' = Append(joined, <<i, rpos>>) /\ jpc' = "have" /\ rpos' = rpos
      BY <1>4, <2>1, <2>3
    <3>2. <<i, rpos>> \in JoinMatches(jin)
      BY <1>3, <2>3 DEF JoinMatches
    <3>3. ~Visited(i, rpos)
      BY <1>3, <1>8, JoinNumbers, <1>1
    <3>4. \A p \in JoinMatches(jin) :
            Visited(p[1], p[2])' <=> (Visited(p[1], p[2]) \/ p = <<i, rpos>>)
      <4> SUFFICES ASSUME NEW p \in JoinMatches(jin)
                   PROVE  Visited(p[1], p[2])' <=> (Visited(p[1], p[2]) \/ p = <<i, rpos>>)
        OBVIOUS
      <4>1. p[1] \in Nat /\ p[2] \in Nat /\ p = <<p[1], p[2]>>
        BY <1>1, PairNumbers, JoinNumbers
      <4>2. QED
        BY <1>3, <1>8, <1>9, <3>1, <4>1
    <3>5. QED
      BY <1>1, <1>2, <1>10, <2>2, <3>1, <3>2, <3>3, <3>4, EmitStep
  <2>4. CASE ~eval_join_conds(jin.specs, jin.left[i], jin.right[rpos])
    <3>1. rpos' = rpos + 1 /\ UNCHANGED <<jpc, joined>>
      BY <1>4, <2>1, <2>4
    <3>2. <<i, rpos>> \notin JoinMatches(jin)
      BY <2>4 DEF JoinMatches
    <3>3. \A p \in JoinMatches(jin) : Visited(p[1], p[2])' <=> Visited(p[1], p[2])
      <4> SUFFICES ASSUME NEW p \in JoinMatches(jin)
                   PROVE  Visited(p[1], p[2])' <=> Visited(p[1], p[2])
        OBVIOUS
      <4>1. p[1] \in Nat /\ p[2] \in Nat /\ p = <<p[1], p[2]>>
        BY <1>1, PairNumbers, JoinNumbers
      <4>2. QED
        BY <1>2, <1>3, <1>8, <1>9, <3>1, <3>2, <4>1
    <3>4. QED
      BY <1>2, <1>10, <2>2, <3>1, <3>3, QuietStep
  <2>5. QED
    BY <2>3, <2>4
<1>11. Joinable(jin)' => Joinable(jin)
  BY <1>2
<1>12. QED
  BY <1>5, <1>6, <1>10, <1>11 DEF JoinInv

(* After the last right tuple the next tuple of the block is taken and the *)
(* right child rewound, so no pair is skipped.                             *)
LEMMA NestedAdvanceInv ==
  ASSUME JoinInv, NestedAdvance \/ NestedDropBlock
  PROVE  JoinInv'
<1>1. /\ JoinTypeOK /\ JoinControl /\ ~hash_probe_enabled /\ jpc = "find" /\ hash_match_indices = {}
      /\ UNCHANGED <<jin, joined, jpc, lpos, hash_block_ready, hash_match_indices, hash_match_pending>>
  BY DEF JoinInv, JoinControl, NestedAdvance, NestedDropBlock
<1>2. \/ /\ block_idx < left_block_count /\ rpos = Len(jin.right) + 1
         /\ block_idx' = block_idx + 1 /\ rpos' = 1 /\ left_block_count' = left_block_count
      \/ /\ block_idx = left_block_count /\ block_idx' = 0 /\ left_block_count' = 0 /\ rpos' = rpos
  <2>1. /\ rpos \in Nat /\ left_block_count \in Nat /\ block_idx \in Nat /\ Len(jin.right) \in Nat
        /\ block_idx <= left_block_count /\ rpos <= Len(jin.right) + 1
    <3>1. /\ rpos \in Nat /\ left_block_count \in Nat /\ block_idx \in Nat /\ Len(jin.right) \in Nat
      BY <1>1, JoinNumbers
    <3>2. block_idx \in 0 .. left_block_count /\ rpos \in 1 .. Len(jin.right) + 1
      BY <1>1 DEF JoinTypeOK
    <3>3. QED
      BY ONLY <3>1, <3>2
  <2>2. CASE NestedAdvance
    <3>1. /\ block_idx < left_block_count /\ rpos > Len(jin.right)
          /\ block_idx' = block_idx + 1 /\ rpos' = 1 /\ left_block_count' = left_block_count
      BY <2>2 DEF NestedAdvance, right_is_end
    <3>2. QED
      BY ONLY <2>1, <3>1
  <2>3. CASE NestedDropBlock
    <3>1. /\ block_idx >= left_block_count /\ block_idx' = 0 /\ left_block_count' = 0
          /\ rpos' = rpos
      BY <2>3 DEF NestedDropBlock
    <3>2. QED
      BY ONLY <2>1, <3>1
  <2>4. QED
    BY <2>2, <2>3
<1>3. JoinTypeOK'
  <2>1. /\ left_block_count' \in 0 .. lpos - 1 /\ block_idx' \in 0 .. left_block_count'
        /\ rpos' \in 1 .. Len(jin.right) + 1
    BY <1>1, <1>2, JoinNumbers DEF JoinTypeOK
  <2>2. QED
    BY <1>1, <2>1 DEF JoinTypeOK
<1>4. JoinControl'
  BY <1>1, JoinNumbers DEF JoinControl
<1>5. ASSUME Joinable(jin), JoinProgress
      PROVE  JoinProgress'
  <2>1. ASSUME NEW p \in JoinMatches(jin)
        PROVE  Visited(p[1], p[2])' <=> Visited(p[1], p[2])
    <3>1. /\ p[1] \in Nat /\ p[2] \in Nat /\ p[2] > 0
          /\ p[2] < Len(jin.right) + 1
      BY <1>1, JoinNumbers, PairNumbers
    <3>2. /\ lpos \in Nat /\ rpos \in Nat /\ left_block_count \in Nat /\ block_idx \in Nat
          /\ Len(jin.right) \in Nat /\ lpos' = lpos /\ jpc = "find" /\ jpc' = "find"
      BY <1>1, JoinNumbers
    <3>3. NestedVisited(p[1], p[2])' <=> NestedVisited(p[1], p[2])
      <4>1. CASE /\ block_idx < left_block_count /\ rpos = Len(jin.right) + 1
                 /\ block_idx' = block_idx + 1 /\ rpos' = 1 /\ left_block_count' = left_block_count
        <5>1. /\ NestedVisited(p[1], p[2]) <=>
                   \/ p[1] < lpos - left_block_count + block_idx
                   \/ p[1] = lpos - left_block_count + block_idx
              /\ NestedVisited(p[1], p[2])' <=> p[1] < lpos - left_block_count + (block_idx + 1)
          BY ONLY <3>1, <3>2, <4>1 DEF NestedVisited
        <5>2. p[1] < lpos - left_block_count + (block_idx + 1) <=>
                   \/ p[1] < lpos - left_block_count + block_idx
                   \/ p[1] = lpos - left_block_count + block_idx
          BY ONLY <3>1, <3>2
        <5>3. QED
          BY ONLY <5>1, <5>2
      <4>2. CASE /\ block_idx = left_block_count /\ block_idx' = 0 /\ left_block_count' = 0
                 /\ rpos' = rpos
        <5>1. /\ NestedVisited(p[1], p[2]) <=> p[1] < lpos
              /\ NestedVisited(p[1], p[2])' <=> p[1] < lpos
          BY ONLY <3>1, <3>2, <4>2 DEF NestedVisited
        <5>2. QED
          BY ONLY <5>1
      <4>3. QED
        BY ONLY <1>2, <4>1, <4>2
    <3>4. QED
      BY <1>1, <3>3, JoinNumbers DEF Visited
  <2>2. QED
    BY <1>1, <1>5, <2>1, QuietStep
<1>6. QED
  BY <1>1, <1>3, <1>4, <1>5 DEF JoinInv

(* The hash join loads its left block and restarts the right child.        *)
LEMMA HashLoadInv ==
  ASSUME JoinInv, HashLoad
  PROVE  JoinInv'
<1>1. /\ JoinTypeOK /\ JoinControl /\ hash_probe_enabled /\ UNCHANGED <<jin, joined>>
      /\ hash_match_indices = {} /\ hash_match_pending = {} /\ left_block_count = 0 /\ block_idx = 0
  <2>1. /\ JoinTypeOK /\ JoinControl /\ hash_probe_enabled /\ UNCHANGED <<jin, joined>>
        /\ hash_match_indices = {} /\ ~hash_block_ready
    BY DEF JoinInv, HashLoad
  <2>2. QED
    BY <2>1, JoinNumbers DEF JoinTypeOK, JoinControl
<1>2. /\ LoadCount \in 0 .. Len(jin.left) + 1 - lpos
      /\ jin.left_peeks /\ LoadCount = 0 => lpos = Len(jin.left) + 1
  BY <1>1, LoadCountBounds DEF JoinTypeOK
<1>3. JoinTypeOK'
  <2>1. /\ jpc' \in {"find", "end"} /\ hash_block_ready' \in BOOLEAN
        /\ hash_match_indices' = {} /\ hash_match_pending' = {} /\ block_idx' = 0
    BY <1>1 DEF HashLoad, JoinTypeOK
  <2>2. /\ lpos' \in 1 .. Len(jin.left) + 1 /\ left_block_count' \in 0 .. lpos' - 1
        /\ rpos' \in 1 .. Len(jin.right) + 1
    BY <1>1, <1>2, JoinNumbers DEF HashLoad, JoinTypeOK
  <2>3. block_idx' \in 0 .. left_block_count'
    BY <1>1, <1>2, <2>1, JoinNumbers DEF HashLoad
  <2>4. QED
    BY <1>1, <2>1, <2>2, <2>3 DEF JoinTypeOK
<1>4. JoinControl'
  <2>1. /\ hash_probe_enabled' /\ hash_match_indices' = {} /\ block_idx' = 0
        /\ hash_block_ready' <=> left_block_count' # 0
        /\ jpc' = "end" => left_block_count' = 0
    BY <1>1, JoinNumbers DEF HashLoad, JoinControl
  <2>2. left_block_count' \in Nat
    BY <1>1, <1>2, JoinNumbers DEF HashLoad
  <2>3. QED
    BY <2>1, <2>2 DEF JoinControl
<1>5. ASSUME Joinable(jin), JoinProgress
      PROVE  JoinProgress'
  <2>1. ASSUME NEW p \in JoinMatches(jin)
        PROVE  Visited(p[1], p[2])' <=> Visited(p[1], p[2])
    <3>1. p[1] \in Nat /\ p[2] \in Nat /\ p[2] > 0
      BY <1>1, JoinNumbers, PairNumbers
    <3>2. HashVisited(p[1], p[2]) <=> p[1] < lpos
      BY <1>1, <3>1, JoinNumbers DEF HashVisited
    <3>3. /\ lpos' - left_block_count' = lpos
          /\ left_block_count' # 0 => rpos' = 1
          /\ lpos' = lpos + left_block_count' /\ left_block_count' \in Nat
          /\ hash_match_indices' = {}
      BY <1>1, <1>2, JoinNumbers DEF HashLoad
    <3>4. HashVisited(p[1], p[2])' <=> p[1] < lpos
      <4>1. lpos \in Nat
        BY <1>1, JoinNumbers
      <4>2. QED
        BY ONLY <3>1, <3>3, <4>1 DEF HashVisited
    <3>5. QED
      <4>1. hash_probe_enabled /\ hash_probe_enabled'
        BY <1>1, JoinNumbers
      <4>2. QED
        BY ONLY <3>2, <3>4, <4>1 DEF Visited
  <2>2. (jpc = "end" => lpos = Len(jin.left) + 1)'
    <3>1. jpc' = "end" => LoadCount = 0 /\ lpos' = lpos + LoadCount
      BY DEF HashLoad
    <3>2. jin' = jin /\ jin.left_peeks
      BY <1>1, <1>5 DEF Joinable
    <3>3. lpos \in Nat
      BY <1>1, JoinNumbers
    <3>4. QED
      BY ONLY <1>2, <3>1, <3>2, <3>3
  <2>3. hash_match_indices' = {}
    BY <1>1 DEF HashLoad
  <2>4. QED
    BY <1>1, <1>5, <2>1, <2>2, <2>3, QuietStep
<1>6. QED
  BY <1>1, <1>3, <1>4, <1>5 DEF JoinInv

(* A block is given up only when every right tuple has probed it.          *)
LEMMA ResetHashBlockInv ==
  ASSUME JoinInv, reset_hash_block
  PROVE  JoinInv'
<1>1. /\ JoinTypeOK /\ JoinControl /\ hash_probe_enabled
      /\ UNCHANGED <<jin, jpc, lpos, rpos, block_idx, hash_match_indices, hash_match_pending, joined>>
      /\ jpc = "find" /\ hash_match_indices = {} /\ left_block_count' = 0 /\ ~hash_block_ready'
      /\ right_is_end
  BY DEF JoinInv, reset_hash_block
<1>2. rpos = Len(jin.right) + 1 /\ block_idx = 0
  <2>1. block_idx = 0
    BY <1>1 DEF JoinControl
  <2>2. rpos > Len(jin.right) /\ rpos \in 1 .. Len(jin.right) + 1
    BY <1>1 DEF right_is_end, JoinTypeOK
  <2>3. QED
    BY <1>1, <2>1, <2>2, JoinNumbers
<1>3. JoinTypeOK'
  <2>1. /\ left_block_count' \in 0 .. lpos - 1 /\ block_idx' \in 0 .. left_block_count'
        /\ hash_match_indices' \subseteq 0 .. left_block_count' - 1 /\ hash_block_ready' \in BOOLEAN
    <3>1. hash_block_ready' = FALSE
      BY DEF reset_hash_block
    <3>2. left_block_count' \in 0 .. lpos - 1 /\ block_idx' \in 0 .. left_block_count'
      BY <1>1, <1>2, JoinNumbers DEF JoinTypeOK
    <3>3. QED
      BY <1>1, <3>1, <3>2
  <2>2. QED
    BY <1>1, <2>1 DEF JoinTypeOK
<1>4. JoinControl'
  BY <1>1, <1>2, JoinNumbers DEF JoinControl
<1>5. ASSUME Joinable(jin), JoinProgress
      PROVE  JoinProgress'
  <2>1. ASSUME NEW p \in JoinMatches(jin)
        PROVE  Visited(p[1], p[2])' <=> Visited(p[1], p[2])
    <3>1. p[1] \in Nat /\ p[2] \in Nat /\ p[2] < rpos
      BY <1>1, <1>2, JoinNumbers, PairNumbers
    <3>2. HashVisited(p[1], p[2])' <=> HashVisited(p[1], p[2])
      BY <1>1, <3>1, JoinNumbers DEF HashVisited
    <3>3. QED
      BY <1>1, <3>2, JoinNumbers DEF Visited
  <2>2. QED
    BY <1>1, <1>5, <2>1, QuietStep
<1>6. QED
  BY <1>1, <1>3, <1>4, <1>5 DEF JoinInv

(* A probe collects exactly the block's tuples with equal keys, which are  *)
(* those that satisfy the conditions (KeysDecide).                         *)
LEMMA HashProbeInv ==
  ASSUME JoinInv, HashProbe
  PROVE  JoinInv'
<1>1. /\ JoinTypeOK /\ JoinControl /\ hash_probe_enabled
      /\ UNCHANGED <<jin, jpc, lpos, left_block_count, block_idx, hash_block_ready, joined>>
      /\ jpc = "find" /\ hash_match_indices = {} /\ hash_match_pending = {}
      /\ ~right_is_end
  <2>1. JoinTypeOK /\ hash_match_indices = {}
    BY DEF JoinInv, HashProbe
  <2>2. hash_match_pending = {}
    BY <2>1 DEF JoinTypeOK
  <2>3. QED
    BY <2>1, <2>2 DEF JoinInv, HashProbe
<1>2. rpos \in 1 .. Len(jin.right)
  BY <1>1, JoinNumbers DEF JoinTypeOK, right_is_end
<1>3. \/ /\ hash_match_indices' = HashMatches /\ hash_match_pending' = HashMatches
         /\ rpos' = rpos
      \/ /\ jin.right_peeks => HashMatches = {}
         /\ rpos' = rpos + 1 /\ hash_match_indices' = {} /\ hash_match_pending' = {}
  BY <1>1 DEF HashProbe
<1>4. HashMatches \subseteq 0 .. left_block_count - 1
  BY DEF HashMatches
<1>5. JoinTypeOK'
  <2>1. rpos' \in 1 .. Len(jin.right) + 1
    BY <1>1, <1>2, <1>3, JoinNumbers
  <2>2. /\ hash_match_indices' \subseteq 0 .. left_block_count - 1
        /\ hash_match_pending' \subseteq hash_match_indices'
    BY <1>3, <1>4
  <2>3. QED
    BY <1>1, <2>1, <2>2 DEF JoinTypeOK
<1>6. JoinControl'
  <2>1. hash_match_indices' # {} => (~right_is_end)'
    BY <1>1, <1>2, <1>3, JoinNumbers DEF right_is_end
  <2>2. hash_probe_enabled'
    BY <1>1, JoinNumbers
  <2>3. QED
    BY <1>1, <2>1, <2>2 DEF JoinControl
<1>7. ASSUME Joinable(jin), JoinProgress
      PROVE  JoinProgress'
  <2>1. ASSUME NEW p \in JoinMatches(jin)
        PROVE  Visited(p[1], p[2])' <=> Visited(p[1], p[2])
    <3>1. /\ p[1] \in 1 .. Len(jin.left) /\ p[2] \in 1 .. Len(jin.right)
          /\ p[1] \in Nat /\ p[2] \in Nat
      BY <1>1, JoinNumbers, PairNumbers
    <3>2. HashVisited(p[1], p[2])
            <=> (p[1] < lpos - left_block_count \/ (p[1] < lpos /\ p[2] < rpos))
      BY <1>1, <3>1, JoinNumbers DEF HashVisited
    <3>3. HashVisited(p[1], p[2])'
            <=> (p[1] < lpos - left_block_count \/ (p[1] < lpos /\ p[2] < rpos'))
      BY <1>1, <1>3, <3>1, JoinNumbers DEF HashVisited
    <3>4. ASSUME rpos' = rpos + 1, HashMatches = {},
                 p[1] >= lpos - left_block_count, p[1] < lpos
          PROVE  p[2] # rpos
      <4> DEFINE idx == p[1] - lpos + left_block_count
      <4>1. idx \in 0 .. left_block_count - 1 /\ left_tuple_at(idx) = p[1]
        <5>1. lpos \in Nat /\ left_block_count \in Nat /\ p[1] \in Nat
          BY <1>1, <3>1, JoinNumbers
        <5>2. QED
          BY ONLY <3>4, <5>1 DEF left_tuple_at
      <4>2. idx \notin HashMatches
        BY <3>4
      <4> HIDE DEF idx
      <4>3. append_left_key(jin.specs, jin.left[p[1]]) # append_right_key(jin.specs, jin.right[rpos])
        BY <4>1, <4>2 DEF HashMatches
      <4>4. ~eval_join_conds(jin.specs, jin.left[p[1]], jin.right[rpos])
        BY <1>1, <1>2, <1>7, <3>1, <4>3, KeysDecide DEF hash_probe_enabled, JoinTypeOK
      <4>5. eval_join_conds(jin.specs, jin.left[p[1]], jin.right[p[2]])
        BY DEF JoinMatches
      <4>6. QED
        BY <4>4, <4>5
    <3>5. jin.right_peeks
      BY <1>7 DEF Joinable
    <3>6. HashVisited(p[1], p[2])' <=> HashVisited(p[1], p[2])
      BY <1>1, <1>2, <1>3, <3>1, <3>2, <3>3, <3>4, <3>5, JoinNumbers
    <3>7. QED
      BY <1>1, <3>6, JoinNumbers DEF Visited
  <2>2. hash_match_indices' # {} => hash_match_indices' = HashMatches'
    <3>1. CASE rpos' = rpos
      <4>1. HashMatches' = HashMatches
        BY <1>1, <3>1 DEF HashMatches, append_left_key, append_right_key, left_tuple_at
      <4>2. QED
        BY <1>3, <4>1
    <3>2. CASE rpos' = rpos + 1
      BY <1>2, <1>3, <3>2
    <3>3. QED
      BY <1>3, <3>1, <3>2
  <2>3. QED
    BY <1>1, <1>7, <2>1, <2>2, QuietStep
<1>8. QED
  BY <1>1, <1>5, <1>6, <1>7 DEF JoinInv

(* When the collected matches are used up the right child moves on.        *)
LEMMA HashMatchesDoneInv ==
  ASSUME JoinInv, HashMatchesDone
  PROVE  JoinInv'
<1>1. /\ JoinTypeOK /\ JoinControl /\ hash_probe_enabled
      /\ UNCHANGED <<jin, jpc, lpos, left_block_count, block_idx, hash_block_ready,
                     hash_match_pending, joined>>
      /\ jpc = "find" /\ hash_match_pending = {} /\ hash_match_indices # {} /\ hash_match_indices' = {}
  BY DEF JoinInv, HashMatchesDone
<1>2. rpos \in 1 .. Len(jin.right) /\ ~right_is_end
  BY <1>1, JoinNumbers DEF JoinTypeOK, JoinControl, right_is_end
<1>3. left_block_count > 0 /\ hash_block_ready
  <2>1. PICK idx \in hash_match_indices : idx \in 0 .. left_block_count - 1
    BY <1>1 DEF JoinTypeOK
  <2>2. left_block_count > 0
    BY <1>1, <2>1, JoinNumbers
  <2>3. QED
    BY <1>1, <2>2 DEF JoinControl
<1>4. rpos' = rpos + 1
  BY <1>2, <1>3 DEF HashMatchesDone
<1>5. JoinTypeOK'
  <2>1. rpos' \in 1 .. Len(jin.right) + 1
    BY <1>1, <1>2, <1>4, JoinNumbers
  <2>2. QED
    BY <1>1, <2>1 DEF JoinTypeOK
<1>6. JoinControl'
  BY <1>1, JoinNumbers DEF JoinControl
<1>7. ASSUME Joinable(jin), JoinProgress
      PROVE  JoinProgress'
  <2>1. ASSUME NEW p \in JoinMatches(jin)
        PROVE  Visited(p[1], p[2])' <=> Visited(p[1], p[2])
    <3>1. /\ p[1] \in 1 .. Len(jin.left) /\ p[2] \in 1 .. Len(jin.right)
          /\ p[1] \in Nat /\ p[2] \in Nat
      BY <1>1, JoinNumbers, PairNumbers
    <3>2. HashVisited(p[1], p[2])'
            <=> (p[1] < lpos - left_block_count \/ (p[1] < lpos /\ p[2] < rpos'))
      BY <1>1, <3>1, JoinNumbers DEF HashVisited
    <3>3. ASSUME p[2] = rpos, p[1] >= lpos - left_block_count, p[1] < lpos
          PROVE  \E idx \in hash_match_indices \ hash_match_pending : p[1] = left_tuple_at(idx)
      <4> DEFINE idx == p[1] - lpos + left_block_count
      <4>1. idx \in 0 .. left_block_count - 1 /\ left_tuple_at(idx) = p[1]
        BY <1>1, <3>1, <3>3, JoinNumbers DEF left_tuple_at
      <4> HIDE DEF idx
      <4>2. eval_join_conds(jin.specs, jin.left[p[1]], jin.right[rpos])
        BY <3>3 DEF JoinMatches
      <4>3. append_left_key(jin.specs, jin.left[p[1]]) = append_right_key(jin.specs, jin.right[rpos])
        BY <1>1, <1>2, <1>7, <3>1, <4>2, KeysDecide DEF hash_probe_enabled, JoinTypeOK
      <4>4. idx \in HashMatches
        BY <4>1, <4>3 DEF HashMatches
      <4>5. hash_match_indices = HashMatches
        BY <1>1, <1>7 DEF JoinProgress
      <4>6. QED
        BY <1>1, <4>1, <4>4, <4>5
    <3>4. \A idx \in hash_match_indices : left_tuple_at(idx) < lpos
      BY <1>1, JoinNumbers DEF JoinTypeOK, left_tuple_at
    <3>5. HashVisited(p[1], p[2])
            <=> (p[1] < lpos - left_block_count \/ (p[1] < lpos /\ p[2] <= rpos))
      BY <1>1, <1>2, <3>1, <3>3, <3>4, JoinNumbers DEF HashVisited
    <3>6. QED
      BY <1>1, <1>2, <1>4, <3>1, <3>2, <3>5, JoinNumbers DEF Visited
  <2>2. QED
    BY <1>1, <1>7, <2>1, QuietStep
<1>8. QED
  BY <1>1, <1>5, <1>6, <1>7 DEF JoinInv

(* A collected match is returned once, in the order of the block.          *)
LEMMA EmitHashMatchInv ==
  ASSUME JoinInv, emit_hash_match
  PROVE  JoinInv'
<1>1. /\ JoinTypeOK /\ JoinControl /\ hash_probe_enabled
      /\ UNCHANGED <<jin, lpos, rpos, left_block_count, block_idx, hash_block_ready, hash_match_indices>>
      /\ jpc' = "have"
  BY DEF JoinInv, emit_hash_match, join_records
<1>2. PICK idx \in hash_match_pending :
        /\ joined' = Append(joined, <<left_tuple_at(idx), rpos>>)
        /\ hash_match_pending' = hash_match_pending \ {idx}
  BY DEF emit_hash_match, join_records
<1> DEFINE i == left_tuple_at(idx)
<1>3. /\ hash_match_pending \subseteq hash_match_indices
      /\ hash_match_indices \subseteq 0 .. left_block_count - 1
  BY <1>1 DEF JoinTypeOK
<1>4. rpos \in 1 .. Len(jin.right) /\ i \in 1 .. Len(jin.left)
  <2>1. ~right_is_end
    BY <1>1, <1>2, <1>3 DEF JoinControl
  <2>2. rpos \in 1 .. Len(jin.right)
    BY <1>1, <2>1, JoinNumbers DEF JoinTypeOK, right_is_end
  <2>3. idx \in 0 .. left_block_count - 1
    BY <1>2, <1>3
  <2>4. QED
    BY <1>1, <2>2, <2>3, JoinNumbers DEF left_tuple_at, JoinTypeOK
<1>5. (joined \in Seq((1 .. Len(jin.left)) \X (1 .. Len(jin.right))))'
  <2> DEFINE S == (1 .. Len(jin.left)) \X (1 .. Len(jin.right))
  <2>1. <<i, rpos>> \in S
    BY <1>4
  <2>2. joined \in Seq(S)
    BY <1>1 DEF JoinTypeOK
  <2> HIDE DEF S
  <2>3. joined' \in Seq(S)
    BY <1>2, <2>1, <2>2
  <2>4. QED
    BY <1>1, <2>3 DEF S
<1>6. JoinTypeOK'
  BY <1>1, <1>2, <1>5 DEF JoinTypeOK
<1>7. JoinControl'
  <2>1. hash_probe_enabled' /\ (right_is_end' <=> right_is_end)
    BY <1>1, JoinNumbers DEF right_is_end
  <2>2. QED
    BY <1>1, <2>1 DEF JoinControl
<1>8. ASSUME Joinable(jin), JoinProgress
      PROVE  JoinProgress'
  <2>1. hash_match_indices = HashMatches /\ HashMatches' = HashMatches
    <3>1. HashMatches' = HashMatches
      BY <1>1 DEF HashMatches, append_left_key, append_right_key, left_tuple_at
    <3>2. QED
      BY <1>2, <1>3, <1>8, <3>1 DEF JoinProgress
  <2>2. <<i, rpos>> \in JoinMatches(jin)
    <3>1. append_left_key(jin.specs, jin.left[i]) = append_right_key(jin.specs, jin.right[rpos])
      BY <1>2, <1>3, <2>1 DEF HashMatches
    <3> HIDE DEF i
    <3>2. eval_join_conds(jin.specs, jin.left[i], jin.right[rpos])
      BY <1>1, <1>4, <1>8, <3>1, KeysDecide DEF hash_probe_enabled, JoinTypeOK
    <3>3. QED
      BY <1>4, <3>2 DEF JoinMatches
  <2>3. \A other \in 0 .. left_block_count - 1 : left_tuple_at(other) = i => other = idx
    BY <1>1, <1>2, <1>3, JoinNumbers DEF left_tuple_at
  <2>4. i >= lpos - left_block_count /\ i < lpos
    BY <1>1, <1>2, <1>3, JoinNumbers DEF left_tuple_at
  <2>5. ~HashVisited(i, rpos)
    <3>1. ~(\E other \in hash_match_indices \ hash_match_pending : i = left_tuple_at(other))
      BY <1>2, <1>3, <2>3
    <3> HIDE DEF i
    <3>2. QED
      BY <1>1, <1>4, <2>4, <3>1, JoinNumbers DEF HashVisited
  <2>6. ASSUME NEW p \in JoinMatches(jin)
        PROVE  HashVisited(p[1], p[2])' <=> (HashVisited(p[1], p[2]) \/ p = <<i, rpos>>)
    <3>1. p = <<p[1], p[2]>>
      BY <1>1, PairNumbers
    <3>2. hash_match_indices' \ hash_match_pending' = (hash_match_indices \ hash_match_pending) \cup {idx}
      BY <1>1, <1>2, <1>3
    <3>3. \A other : left_tuple_at(other)' = left_tuple_at(other)
      BY <1>1 DEF left_tuple_at
    <3>4. HashVisited(p[1], p[2])'
            <=> \/ p[1] < lpos - left_block_count
                \/ p[1] < lpos /\ p[2] < rpos
                \/ p[2] = rpos /\ \E other \in (hash_match_indices \ hash_match_pending) \cup {idx} :
                                     p[1] = left_tuple_at(other)
      BY <1>1, <3>2, <3>3 DEF HashVisited
    <3>5. QED
      BY <3>1, <3>4 DEF HashVisited
  <2>7. /\ ~Visited(i, rpos)
        /\ \A p \in JoinMatches(jin) :
             Visited(p[1], p[2])' <=> (Visited(p[1], p[2]) \/ p = <<i, rpos>>)
    <3>1. hash_probe_enabled'
      BY <1>1, JoinNumbers
    <3> HIDE DEF i
    <3>2. QED
      BY <1>1, <2>5, <2>6, <3>1 DEF Visited
  <2> HIDE DEF i
  <2>8. joined' = Append(joined, <<i, rpos>>)
    BY <1>2 DEF i
  <2>9. QED
    BY <1>1, <1>8, <2>1, <2>2, <2>7, <2>8, EmitStep
<1>9. QED
  BY <1>1, <1>6, <1>7, <1>8 DEF JoinInv

(* nextTuple moves behind the pair just returned, in either loop.          *)
LEMMA JoinNextTupleInv ==
  ASSUME JoinInv, JoinNextTuple
  PROVE  JoinInv'
<1>1. /\ JoinTypeOK /\ JoinControl /\ jpc = "have" /\ jpc' = "find"
      /\ UNCHANGED <<jin, lpos, left_block_count, block_idx, hash_block_ready,
                     hash_match_indices, hash_match_pending, joined>>
  BY DEF JoinInv, JoinNextTuple
<1>2. CASE hash_probe_enabled
  <2>1. rpos' = rpos
    BY <1>2 DEF JoinNextTuple
  <2>2. JoinTypeOK'
    BY <1>1, <2>1 DEF JoinTypeOK
  <2>3. hash_probe_enabled' /\ (right_is_end' <=> right_is_end)
    BY <1>1, <1>2, <2>1, JoinNumbers DEF right_is_end
  <2>4. JoinControl'
    BY <1>1, <1>2, <2>3 DEF JoinControl
  <2>5. ASSUME Joinable(jin), JoinProgress
        PROVE  JoinProgress'
    <3>1. HashMatches' = HashMatches
      BY <1>1, <2>1 DEF HashMatches, append_left_key, append_right_key, left_tuple_at
    <3>2. \A p \in JoinMatches(jin) : Visited(p[1], p[2])' <=> Visited(p[1], p[2])
      BY <1>1, <1>2, <2>1, <2>3 DEF Visited, HashVisited, left_tuple_at
    <3>3. QED
      BY <1>1, <2>5, <3>1, <3>2, QuietStep DEF JoinProgress
  <2>6. QED
    BY <1>1, <2>2, <2>4, <2>5 DEF JoinInv
<1>3. CASE ~hash_probe_enabled
  <2>1. rpos' = rpos + 1 /\ hash_match_indices = {} /\ block_idx < left_block_count
        /\ ~right_is_end
    BY <1>1, <1>3 DEF JoinNextTuple, JoinControl
  <2>2. JoinTypeOK'
    <3>1. rpos' \in 1 .. Len(jin.right) + 1
      BY <1>1, <2>1, JoinNumbers DEF JoinTypeOK, right_is_end
    <3>2. QED
      BY <1>1, <3>1 DEF JoinTypeOK
  <2>3. ~hash_probe_enabled'
    BY <1>1, <1>3, JoinNumbers
  <2>4. JoinControl'
    BY <1>1, <2>1, <2>3 DEF JoinControl
  <2>5. ASSUME Joinable(jin), JoinProgress
        PROVE  JoinProgress'
    <3>1. ASSUME NEW p \in JoinMatches(jin)
          PROVE  Visited(p[1], p[2])' <=> Visited(p[1], p[2])
      <4>1. p[1] \in Nat /\ p[2] \in Nat
        BY <1>1, PairNumbers, JoinNumbers
      <4>2. NestedVisited(p[1], p[2])' <=> NestedVisited(p[1], p[2])
        BY <1>1, <2>1, <4>1, JoinNumbers DEF NestedVisited
      <4>3. QED
        BY <1>3, <2>3, <4>2 DEF Visited
    <3>2. QED
      BY <1>1, <2>1, <2>5, <3>1, QuietStep
  <2>6. QED
    BY <1>1, <2>2, <2>4, <2>5 DEF JoinInv
<1>4. QED
  BY <1>2, <1>3

(* A join that has just begun, or has not begun. *)
Fresh ==
  /\ jin \in JoinInput /\ jpc \in {"idle", "find"} /\ lpos = 1 /\ rpos = 1
  /\ left_block_count = 0 /\ block_idx = 0 /\ hash_block_ready = FALSE
  /\ hash_match_indices = {} /\ hash_match_pending = {} /\ joined = <<>>

(* It has returned and looked at nothing. *)
LEMMA FreshInv == Fresh => JoinInv
<1> SUFFICES ASSUME Fresh PROVE JoinInv
  OBVIOUS
<1> USE DEF Fresh
<1>1. Len(jin.left) \in Nat /\ Len(jin.right) \in Nat
  BY DEF JoinInput
<1>2. JoinTypeOK
  <2>1. /\ lpos \in 1 .. Len(jin.left) + 1 /\ left_block_count \in 0 .. lpos - 1
        /\ block_idx \in 0 .. left_block_count /\ rpos \in 1 .. Len(jin.right) + 1
    BY <1>1
  <2>2. joined \in Seq((1 .. Len(jin.left)) \X (1 .. Len(jin.right)))
    OBVIOUS
  <2>3. QED
    BY <2>1, <2>2 DEF JoinTypeOK
<1>3. JoinControl
  BY DEF JoinControl
<1>4. JoinProgress
  <2>1. {joined[n] : n \in DOMAIN joined} = {}
    OBVIOUS
  <2>2. ASSUME NEW p \in JoinMatches(jin)
        PROVE  ~Visited(p[1], p[2])
    <3>1. p[1] \in Nat /\ p[2] \in Nat /\ p[1] > 0 /\ p[2] > 0
      BY <1>1, <1>2, PairNumbers
    <3>2. ~NestedVisited(p[1], p[2]) /\ ~HashVisited(p[1], p[2])
      BY <3>1 DEF NestedVisited, HashVisited
    <3>3. QED
      BY <3>2 DEF Visited
  <2>3. QED
    BY <2>1, <2>2 DEF JoinProgress
<1>5. QED
  BY <1>2, <1>3, <1>4 DEF JoinInv

(* JoinInv holds in every state of the join executor, for every input. *)
THEOREM JoinInvariance == JoinSpec => []JoinInv
<1>1. JoinInit => JoinInv
  <2> SUFFICES ASSUME JoinInit PROVE JoinInv
    OBVIOUS
  <2>1. NoInput \in JoinInput
    <3>1. <<>> \in Seq(Row) /\ <<>> \in Seq(JoinCondSpec) /\ 1 \in Nat \ {0} /\ TRUE \in BOOLEAN
      BY ONLY TRUE
    <3>2. QED
      BY ONLY <3>1, Zenon DEF NoInput, JoinInput
  <2>2. Fresh
    BY ONLY <2>1, JoinInit, Zenon DEF JoinInit, Fresh
  <2>3. QED
    BY ONLY <2>2, FreshInv
<1>2. JoinInv /\ [JoinNext]_joinVars => JoinInv'
  <2> SUFFICES ASSUME JoinInv, [JoinNext]_joinVars PROVE JoinInv'
    OBVIOUS
  <2>1. ASSUME NEW in \in JoinInput, JoinBegin(in)
        PROVE  JoinInv'
    <3>1. Fresh'
      BY <2>1 DEF JoinBegin, Fresh
    <3>2. QED
      BY <3>1, FreshInv, PTL
  <2>2. CASE find_next
    BY <2>2, NestedLoadInv, TryMatchInv, NestedAdvanceInv, EmitHashMatchInv, HashMatchesDoneInv,
       HashLoadInv, ResetHashBlockInv, HashProbeInv DEF find_next
  <2>3. CASE JoinNextTuple
    BY <2>3, JoinNextTupleInv
  <2>4. CASE UNCHANGED joinVars
    <3>1. UNCHANGED <<jin, jpc, lpos, rpos, left_block_count, block_idx, hash_block_ready,
                      hash_match_indices, hash_match_pending, joined>>
      BY <2>4 DEF joinVars
    <3>2. JoinTypeOK' <=> JoinTypeOK
      BY <3>1 DEF JoinTypeOK
    <3>3. JoinControl' <=> JoinControl
      BY <3>1 DEF JoinControl, hash_probe_enabled, right_is_end
    <3>4. HashMatches' = HashMatches
      BY <3>1 DEF HashMatches, left_tuple_at
    <3>5. ASSUME NEW p \in JoinMatches(jin) PROVE Visited(p[1], p[2])' <=> Visited(p[1], p[2])
      BY <3>1 DEF Visited, NestedVisited, HashVisited, left_tuple_at, hash_probe_enabled
    <3>6. JoinProgress => JoinProgress'
      BY <3>1, <3>4, <3>5, QuietStep DEF JoinProgress
    <3>7. QED
      BY <3>1, <3>2, <3>3, <3>6 DEF JoinInv
  <2>5. QED
    BY <2>1, <2>2, <2>3, <2>4 DEF JoinNext
<1>3. QED
  BY <1>1, <1>2, PTL DEF JoinSpec

(* The block nested-loop join returns every matching pair of tuples        *)
(* exactly once (JoinExact), for tables, conditions and a join buffer of   *)
(* any size, when its input is Joinable: both children lend out their      *)
(* current tuple (peekTuple), as a sequential scan does and an index scan  *)
(* or another join does not, and where the hash table is used each         *)
(* condition compares the two children in cells equal only with equal      *)
(* bytes.  Of any other input the theorem says nothing.                    *)
THEOREM JoinExactness == JoinSpec => []JoinExact
<1>1. JoinInv => JoinExact
  <2> SUFFICES ASSUME JoinInv, jpc = "end", Joinable(jin)
               PROVE  /\ {joined[n] : n \in DOMAIN joined} = JoinMatches(jin)
                      /\ \A m, n \in DOMAIN joined : joined[m] = joined[n] => m = n
    BY DEF JoinExact
  <2>1. JoinTypeOK /\ JoinControl /\ JoinProgress
    BY DEF JoinInv
  <2>2. lpos = Len(jin.left) + 1
    BY <2>1 DEF JoinProgress
  <2>3. left_block_count = 0
    <3>1. CASE hash_probe_enabled
      BY <2>1, <3>1, JoinNumbers DEF JoinControl
    <3>2. CASE ~hash_probe_enabled
      BY <2>1, <3>2 DEF JoinControl
    <3>3. QED
      BY <3>1, <3>2
  <2>4. ASSUME NEW p \in JoinMatches(jin)
        PROVE  Visited(p[1], p[2])
    <3>1. p[1] \in Nat /\ p[1] < lpos
      BY <2>1, <2>2, PairNumbers, JoinNumbers
    <3>2. block_idx = 0
      BY <2>1, <2>3 DEF JoinTypeOK
    <3>3. NestedVisited(p[1], p[2]) /\ HashVisited(p[1], p[2])
      BY <2>1, <2>3, <3>1, <3>2, JoinNumbers DEF NestedVisited, HashVisited
    <3>4. QED
      BY <3>3 DEF Visited
  <2>5. QED
    BY <2>1, <2>4 DEF JoinProgress
<1>2. QED
  BY <1>1, JoinInvariance, PTL

-----------------------------------------------------------------------------
(* The answer buffer. *)

(* Appending to the longer sequence keeps a prefix a prefix; appending the *)
(* same piece to both keeps equal sequences equal.                         *)
LEMMA PrefixAppend ==
  ASSUME NEW S, NEW s \in Seq(S), NEW t \in Seq(S), NEW p \in S, IsPrefixOf(s, t)
  PROVE  /\ IsPrefixOf(s, Append(t, p))
         /\ s = t => IsPrefixOf(Append(s, p), Append(t, p))
         /\ Append(s, p) \in Seq(S) /\ Append(t, p) \in Seq(S)
<1>1. /\ Len(Append(t, p)) = Len(t) + 1 /\ Len(Append(s, p)) = Len(s) + 1
      /\ Append(s, p) \in Seq(S) /\ Append(t, p) \in Seq(S)
      /\ \A i \in 1 .. Len(t) : Append(t, p)[i] = t[i]
  BY ONLY s \in Seq(S), t \in Seq(S), p \in S
<1>2. Len(s) \in Nat /\ Len(t) \in Nat /\ Len(s) <= Len(t)
  BY DEF IsPrefixOf
<1>3. IsPrefixOf(s, Append(t, p))
  BY <1>1, <1>2 DEF IsPrefixOf
<1>4. s = t => IsPrefixOf(Append(s, p), Append(t, p))
  BY <1>1, <1>2 DEF IsPrefixOf
<1> QED BY <1>1, <1>3, <1>4

Piece == Text \cup {"-", "+", "|"}

(* Putting a piece keeps the buffer within its bounds and what was sent a  *)
(* prefix of what was asked; unless the piece is the end of a record, a    *)
(* piece that is dropped sets the ellipsis.                                *)
LEMMA PutStep ==
  ASSUME PrintInv, counted = 0, NEW piece \in Piece, NEW length \in Nat, NEW marks \in BOOLEAN,
         2 <= length, SilentlyCut => marks, Put(piece, length, marks)
  PROVE  /\ offset' \in Nat /\ offset' + RECORD_COUNT_LENGTH < BUFFER_LENGTH
         /\ ellipsis' \in BOOLEAN
         /\ sent' \in Seq(Piece) /\ asked' \in Seq(Piece) /\ IsPrefixOf(sent', asked')
         /\ marks => ~SilentlyCut'
         /\ SilentlyCut' => offset' = offset /\ ~Fits(length)
<1> USE PrinterAssumption
<1>1. /\ sent \in Seq(Piece) /\ asked \in Seq(Piece) /\ IsPrefixOf(sent, asked)
      /\ offset \in Nat /\ ellipsis \in BOOLEAN
      /\ offset + RECORD_COUNT_LENGTH < BUFFER_LENGTH
  BY ONLY PrintInv, counted = 0, PrinterAssumption DEF PrintInv, Piece, PrinterAssumption
<1>2. asked' = Append(asked, piece)
  BY DEF Put
<1>3. SilentlyCut => ~Fits(length)
  <2>1. SilentlyCut => ~Fits(2)
    BY DEF PrintInv, EndPieceLength
  <2> QED BY <2>1, <1>1 DEF Fits
<1>4. CASE ~ellipsis /\ Fits(length)
  <2>1. sent' = Append(sent, piece) /\ offset' = offset + length /\ ellipsis' = ellipsis
    BY <1>4 DEF Put
  <2>2. sent = asked
    BY <1>3, <1>4 DEF SilentlyCut
  <2>3. sent' = asked'
    BY <2>1, <2>2, <1>2
  <2>4. offset' \in Nat /\ offset' + RECORD_COUNT_LENGTH < BUFFER_LENGTH
    BY <2>1, <1>1, <1>4 DEF Fits
  <2>5. sent' \in Seq(Piece) /\ asked' \in Seq(Piece) /\ IsPrefixOf(sent', asked')
    BY <2>1, <2>2, <1>1, <1>2, PrefixAppend
  <2>6. ~SilentlyCut'
    BY <2>3 DEF SilentlyCut
  <2> QED BY <2>1, <2>4, <2>5, <2>6, <1>1
<1>5. CASE ~(~ellipsis /\ Fits(length))
  <2>1. ellipsis' = (ellipsis \/ marks) /\ sent' = sent /\ offset' = offset
    BY <1>5 DEF Put
  <2>2. sent' \in Seq(Piece) /\ asked' \in Seq(Piece) /\ IsPrefixOf(sent', asked')
    BY <2>1, <1>1, <1>2, PrefixAppend
  <2>3. ellipsis' \in BOOLEAN /\ (marks => ellipsis') /\ (ellipsis => ellipsis')
    BY <2>1, <1>1
  <2>4. marks => ~SilentlyCut'
    BY <2>3 DEF SilentlyCut
  <2>5. SilentlyCut' => ~Fits(length)
    BY <2>3, <1>5 DEF SilentlyCut
  <2> QED BY <2>1, <2>2, <2>3, <2>4, <2>5, <1>1
<1> QED BY <1>4, <1>5

(* The piece of a column: it marks the ellipsis when it does not fit.      *)
LEMMA PrintColInv == PrintInv /\ PrintCol => PrintInv'
<1> SUFFICES ASSUME PrintInv, PrintCol PROVE PrintInv'
  OBVIOUS
<1> USE PrinterAssumption
<1>1. /\ line # "none" /\ counted = 0 /\ col < num_cols
      /\ num_cols \in Nat \ {0} /\ col \in 0 .. num_cols
      /\ rec_str \in [1 .. num_cols -> Text \cup {"-"}]
      /\ Put(rec_str[col + 1], ColPiece, TRUE)
      /\ col' = col + 1
      /\ UNCHANGED <<num_cols, line, rec_str, lines, counted>>
  BY DEF PrintInv, PrintCol
<1>2. rec_str[col + 1] \in Piece
  <2>1. col + 1 \in 1 .. num_cols
    BY <1>1
  <2> QED BY <2>1, <1>1 DEF Piece
<1>3. /\ offset' \in Nat /\ offset' + RECORD_COUNT_LENGTH < BUFFER_LENGTH
      /\ ellipsis' \in BOOLEAN
      /\ sent' \in Seq(Piece) /\ asked' \in Seq(Piece) /\ IsPrefixOf(sent', asked')
      /\ ~SilentlyCut'
  BY <1>1, <1>2, PutStep
<1>4. col' \in 0 .. num_cols
  BY <1>1
<1>5. lines' \in Seq({"separator", "record"}) /\ line' \in {"none", "separator", "record"}
  BY <1>1 DEF PrintInv
<1>6. counted' \in 0 .. RECORD_COUNT_LENGTH /\ counted' = 0 /\ num_cols' \in Nat \ {0}
      /\ offset' + RECORD_COUNT_LENGTH < BUFFER_LENGTH + counted'
  <2>1. counted' = 0 /\ num_cols' \in Nat \ {0}
    BY <1>1
  <2>2. offset' \in Nat /\ offset' + RECORD_COUNT_LENGTH < BUFFER_LENGTH
    BY <1>3, Zenon
  <2>3. \A n \in Nat : n + RECORD_COUNT_LENGTH < BUFFER_LENGTH =>
                         n + RECORD_COUNT_LENGTH < BUFFER_LENGTH + 0
    OBVIOUS
  <2>4. 0 \in 0 .. RECORD_COUNT_LENGTH
    OBVIOUS
  <2> QED BY <2>1, <2>2, <2>3, <2>4, Zenon
<1>7. rec_str' \in [1 .. num_cols' -> Text \cup {"-"}] /\ col' \in 0 .. num_cols'
  BY <1>1, <1>4
<1>8. sent' \in Seq(Text \cup {"-", "+", "|"}) /\ asked' \in Seq(Text \cup {"-", "+", "|"})
  BY <1>3 DEF Piece
<1> QED BY <1>3, <1>5, <1>6, <1>7, <1>8, Zenon DEF PrintInv

(* The end of a line: only that of a record may be dropped silently, and   *)
(* then the line just finished is a record.                                *)
LEMMA PrintEndInv == PrintInv /\ PrintEnd => PrintInv'
<1> SUFFICES ASSUME PrintInv, PrintEnd PROVE PrintInv'
  OBVIOUS
<1> USE PrinterAssumption
<1> DEFINE piece == IF line = "separator" THEN EndOfSeparator ELSE EndOfRecord
<1>1. /\ line \in {"separator", "record"} /\ counted = 0 /\ col = num_cols
      /\ num_cols \in Nat \ {0} /\ lines \in Seq({"separator", "record"})
      /\ Put(piece, EndPieceLength, line = "separator")
      /\ lines' = Append(lines, line) /\ line' = "none"
      /\ UNCHANGED <<num_cols, rec_str, col, counted>>
  BY DEF PrintInv, PrintEnd
<1>2. piece \in Piece
  BY DEF Piece, EndOfSeparator, EndOfRecord
<1>3. ~SilentlyCut
  <2>1. SilentlyCut => col = 0
    BY <1>1, Zenon DEF PrintInv
  <2> QED BY <2>1, <1>1
<1>4. /\ offset' \in Nat /\ offset' + RECORD_COUNT_LENGTH < BUFFER_LENGTH
      /\ ellipsis' \in BOOLEAN
      /\ sent' \in Seq(Piece) /\ asked' \in Seq(Piece) /\ IsPrefixOf(sent', asked')
      /\ line = "separator" => ~SilentlyCut'
      /\ SilentlyCut' => offset' = offset /\ ~Fits(EndPieceLength)
  <2> HIDE DEF piece
  <2>1. EndPieceLength \in Nat /\ 2 <= EndPieceLength /\ (line = "separator") \in BOOLEAN
    BY DEF EndPieceLength
  <2> QED BY <1>1, <1>2, <1>3, <2>1, PutStep
<1>5. lines' \in Seq({"separator", "record"}) /\ lines' # <<>> /\ lines'[Len(lines')] = line
  BY <1>1
<1>6. SilentlyCut' => ~Fits(EndPieceLength)' /\ lines'[Len(lines')] = "record"
  BY <1>1, <1>4, <1>5 DEF Fits
<1>7. col' \in 0 .. num_cols'
  BY <1>1
<1>8. counted' \in 0 .. RECORD_COUNT_LENGTH /\ counted' = 0 /\ num_cols' \in Nat \ {0}
      /\ offset' + RECORD_COUNT_LENGTH < BUFFER_LENGTH + counted'
  <2>1. counted' = 0 /\ num_cols' \in Nat \ {0}
    BY <1>1
  <2>2. offset' \in Nat /\ offset' + RECORD_COUNT_LENGTH < BUFFER_LENGTH
    BY <1>4, Zenon
  <2>3. \A n \in Nat : n + RECORD_COUNT_LENGTH < BUFFER_LENGTH =>
                         n + RECORD_COUNT_LENGTH < BUFFER_LENGTH + 0
    OBVIOUS
  <2>4. 0 \in 0 .. RECORD_COUNT_LENGTH
    OBVIOUS
  <2> QED BY <2>1, <2>2, <2>3, <2>4, Zenon
<1>9. sent' \in Seq(Text \cup {"-", "+", "|"}) /\ asked' \in Seq(Text \cup {"-", "+", "|"})
  BY <1>4 DEF Piece
<1> QED BY <1>1, <1>4, <1>5, <1>6, <1>7, <1>8, <1>9, Zenon DEF PrintInv

(* Starting a line and counting the records. *)
LEMMA PrintLineInv ==
  /\ PrintInv /\ print_separator => PrintInv'
  /\ \A rec : PrintInv /\ print_record(rec) => PrintInv'
  /\ \A length : PrintInv /\ print_record_count(length) => PrintInv'
<1> USE PrinterAssumption
<1>1. ASSUME PrintInv, print_separator PROVE PrintInv'
  <2>1. rec_str' \in [1 .. num_cols -> Text \cup {"-"}]
    BY <1>1 DEF print_separator
  <2>2. SilentlyCut' <=> SilentlyCut
    BY <1>1 DEF print_separator, SilentlyCut
  <2>3. Fits(EndPieceLength)' <=> Fits(EndPieceLength)
    BY <1>1 DEF print_separator, Fits, EndPieceLength
  <2>4. line' = "separator" /\ col' = 0 /\ counted = 0 /\ UNCHANGED <<num_cols, offset, ellipsis, sent, asked, lines, counted>>
    BY ONLY <1>1 DEF print_separator
  <2>5. /\ (num_cols \in Nat \ {0} /\ col \in 0 .. num_cols /\ offset \in Nat /\ ellipsis \in BOOLEAN)'
        /\ (counted \in 0 .. RECORD_COUNT_LENGTH /\ offset + RECORD_COUNT_LENGTH < BUFFER_LENGTH + counted)'
    BY ONLY <1>1, <2>4 DEF PrintInv
  <2>6. /\ (lines \in Seq({"separator", "record"}) /\ IsPrefixOf(sent, asked))'
        /\ (sent \in Seq(Text \cup {"-", "+", "|"}) /\ asked \in Seq(Text \cup {"-", "+", "|"}))'
    BY ONLY <1>1, <2>4 DEF PrintInv
  <2>7. SilentlyCut => ~Fits(EndPieceLength)
    BY ONLY <1>1 DEF PrintInv
  <2> QED BY ONLY <2>1, <2>2, <2>3, <2>4, <2>5, <2>6, <2>7 DEF PrintInv
<1>2. ASSUME NEW rec, PrintInv, print_record(rec) PROVE PrintInv'
  <2>1. rec_str' \in [1 .. num_cols -> Text \cup {"-"}]
    BY <1>2 DEF print_record
  <2>2. SilentlyCut' <=> SilentlyCut
    BY <1>2 DEF print_record, SilentlyCut
  <2>3. Fits(EndPieceLength)' <=> Fits(EndPieceLength)
    BY <1>2 DEF print_record, Fits, EndPieceLength
  <2>4. line' = "record" /\ col' = 0 /\ counted = 0 /\ UNCHANGED <<num_cols, offset, ellipsis, sent, asked, lines, counted>>
    BY ONLY <1>2 DEF print_record
  <2>5. /\ (num_cols \in Nat \ {0} /\ col \in 0 .. num_cols /\ offset \in Nat /\ ellipsis \in BOOLEAN)'
        /\ (counted \in 0 .. RECORD_COUNT_LENGTH /\ offset + RECORD_COUNT_LENGTH < BUFFER_LENGTH + counted)'
    BY ONLY <1>2, <2>4 DEF PrintInv
  <2>6. /\ (lines \in Seq({"separator", "record"}) /\ IsPrefixOf(sent, asked))'
        /\ (sent \in Seq(Text \cup {"-", "+", "|"}) /\ asked \in Seq(Text \cup {"-", "+", "|"}))'
    BY ONLY <1>2, <2>4 DEF PrintInv
  <2>7. SilentlyCut => ~Fits(EndPieceLength)
    BY ONLY <1>2 DEF PrintInv
  <2> QED BY ONLY <2>1, <2>2, <2>3, <2>4, <2>5, <2>6, <2>7 DEF PrintInv
<1>3. ASSUME NEW length, PrintInv, print_record_count(length) PROVE PrintInv'
  <2>1. ~SilentlyCut /\ ~SilentlyCut'
    BY <1>3 DEF print_record_count, PrintInv, SilentlyCut
  <2>2. /\ length \in 1 .. RECORD_COUNT_LENGTH /\ counted = 0 /\ counted' = length
        /\ offset' = offset + length /\ line' = "none"
        /\ UNCHANGED <<num_cols, rec_str, col, lines, ellipsis, sent, asked>>
    BY <1>3 DEF print_record_count
  <2>3. offset' \in Nat /\ offset' + RECORD_COUNT_LENGTH < BUFFER_LENGTH + counted'
    BY <1>3, <2>2 DEF PrintInv
  <2>4. /\ (num_cols \in Nat \ {0} /\ col \in 0 .. num_cols /\ ellipsis \in BOOLEAN)'
        /\ counted' \in 0 .. RECORD_COUNT_LENGTH
    <3>1. num_cols \in Nat \ {0} /\ col \in 0 .. num_cols /\ ellipsis \in BOOLEAN
      BY ONLY <1>3 DEF PrintInv
    <3> QED BY ONLY <2>2, <3>1, PrinterAssumption
  <2>5. /\ (lines \in Seq({"separator", "record"}) /\ IsPrefixOf(sent, asked))'
        /\ (sent \in Seq(Text \cup {"-", "+", "|"}) /\ asked \in Seq(Text \cup {"-", "+", "|"}))'
    BY ONLY <1>3, <2>2 DEF PrintInv
  <2> QED BY ONLY <2>1, <2>2, <2>3, <2>4, <2>5 DEF PrintInv
<1> QED BY <1>1, <1>2, <1>3

(* An empty buffer. *)
LEMMA PrintFresh ==
  /\ PrintInit => PrintInv
  /\ \A n : RecordPrinter(n) => PrintInv'
<1> USE PrinterAssumption
<1>0. /\ IsPrefixOf(<<>>, <<>>)
      /\ <<>> \in Seq(Text \cup {"-", "+", "|"}) /\ <<>> \in Seq({"separator", "record"})
  BY DEF IsPrefixOf
<1>1. ASSUME PrintInit PROVE PrintInv
  <2>1. ~SilentlyCut
    BY <1>1 DEF PrintInit, SilentlyCut
  <2>2. 1 \in Nat \ {0} /\ 0 \in 0 .. 1 /\ 0 \in Nat /\ 0 \in 0 .. RECORD_COUNT_LENGTH
        /\ 0 + RECORD_COUNT_LENGTH < BUFFER_LENGTH + 0
    OBVIOUS
  <2> QED BY <1>0, <1>1, <2>1, <2>2, Zenon DEF PrintInit, PrintInv
<1>2. ASSUME NEW n, RecordPrinter(n) PROVE PrintInv'
  <2>1. ~SilentlyCut'
    BY <1>2 DEF RecordPrinter, SilentlyCut
  <2>2. n \in Nat \ {0} /\ 0 \in 0 .. n /\ 0 \in Nat /\ 0 \in 0 .. RECORD_COUNT_LENGTH
        /\ 0 + RECORD_COUNT_LENGTH < BUFFER_LENGTH + 0
    BY <1>2 DEF RecordPrinter
  <2> QED BY <1>0, <1>2, <2>1, <2>2, Zenon DEF RecordPrinter, PrintInv
<1> QED BY <1>1, <1>2

(* The invariant of the printer: room for the count is always left, and a  *)
(* silent cut is confined to the end of the record just finished.          *)
THEOREM PrintInvariance == PrintSpec => []PrintInv
<1>1. PrintInit => PrintInv
  BY PrintFresh
<1>2. PrintInv /\ [PrintNext]_printVars => PrintInv'
  <2> SUFFICES ASSUME PrintInv, [PrintNext]_printVars PROVE PrintInv'
    OBVIOUS
  <2>1. CASE PrintNext
    BY <2>1, PrintFresh, PrintLineInv, PrintColInv, PrintEndInv DEF PrintNext, PrintStep
  <2>2. CASE UNCHANGED printVars
    <3>1. (SilentlyCut' <=> SilentlyCut) /\ (Fits(EndPieceLength)' <=> Fits(EndPieceLength))
      BY <2>2 DEF printVars, SilentlyCut, Fits, EndPieceLength
    <3> QED BY <2>2, <3>1 DEF printVars, PrintInv
  <2> QED BY <2>1, <2>2
<1> QED BY <1>1, <1>2, PTL DEF PrintSpec

(* What record_printer.h writes never leaves the buffer and is the         *)
(* beginning of the table, cut only with an ellipsis.                      *)
THEOREM PrinterFits == PrintSpec => []AnswerFits
<1>1. PrintInv => AnswerFits
  BY PrinterAssumption DEF PrintInv, AnswerFits, SilentlyCut
<1> QED BY <1>1, PrintInvariance, PTL
=============================================================================
