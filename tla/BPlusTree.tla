------------------------------- MODULE BPlusTree -------------------------------
(***************************************************************************)
(* The B+ tree of src/index/ix_index_handle.cpp and the scans over it      *)
(* (ix_scan.cpp, executor_index_scan.h).                                   *)
(*                                                                         *)
(* insert_entry and delete_entry work their way up the tree one level at a *)
(* time: what is still to be done is a task, and each level is a step.     *)
(* Lookups and scans are operators, evaluated between operations: nothing  *)
(* in the code latches the tree, and a reader among the steps of a split   *)
(* is not covered.  A page number is a name: create_node takes the least   *)
(* unused one, and a released node is forgotten.                           *)
(***************************************************************************)
EXTENDS Integers, Sequences, SequencesExt, FiniteSets, TLC

CONSTANTS
  Loads,     \* sequences of keys, one of which is inserted first
  Key,       \* the keys inserted and deleted in any order after that
  Order,     \* btree_order_
  MaxPages   \* bound: pages of the file

(***************************************************************************)
(* IxManager::create_index computes at least 6 for the longest admissible  *)
(* key: (4096 - 24) / (512 + 8) - 1.  With 3, which its assertion would    *)
(* admit, a leaf can get lost: see the README.                             *)
(***************************************************************************)
ASSUME BPlusTreeAssumption ==
  /\ Key \subseteq Nat /\ Loads \subseteq Seq(Nat)
  /\ Order \in Nat /\ Order >= 6
  /\ MaxPages \in Nat

VARIABLES
  tree,      \* [page -> node]
  root,      \* root_page_
  last_leaf, \* last_leaf_
  task,      \* what the running operation does next
  load,      \* keys still to be inserted at first
  content    \* keys the operations have put in: history only

vars == <<tree, root, last_leaf, task, load, content>>

IX_NO_PAGE == -1
IX_LEAF_HEADER_PAGE == 1
IX_INIT_ROOT_PAGE == 2

get_max_size == Order + 1
get_min_size == get_max_size \div 2

AllKeys == Key \cup UNION {Range(s) : s \in Loads}

NoTask == [op |-> "none", node |-> IX_NO_PAGE]
Do(op, n) == task' = [op |-> op, node |-> n]
Rid(k) == 100 + k        \* the record a key stands for
NoRid == 0

-----------------------------------------------------------------------------
(* Nodes.  Positions count from 0, as in the code. *)

Size(n) == Len(n.keys)
is_root_page(n) == n.parent = IX_NO_PAGE
key_at(n, i) == n.keys[i + 1]
value_at(n, i) == n.vals[i + 1]

lower_bound(n, k) == Cardinality({i \in 1 .. Size(n) : n.keys[i] < k})
upper_bound(n, k) == Cardinality({i \in 1 .. Size(n) : n.keys[i] <= k})

insert_pairs(n, pos, ks, vs) ==
  LET Put(s, new) == SubSeq(s, 1, pos) \o new \o SubSeq(s, pos + 1, Len(s)) IN
  [n EXCEPT !.keys = Put(@, ks), !.vals = Put(@, vs)]

insert_pair(n, pos, k, v) == insert_pairs(n, pos, <<k>>, <<v>>)

Holds(n, k) == lower_bound(n, k) < Size(n) /\ key_at(n, lower_bound(n, k)) = k

insert(n, k, v) == IF Holds(n, k) THEN n ELSE insert_pair(n, lower_bound(n, k), k, v)

erase_pair(n, pos) == [n EXCEPT !.keys = RemoveAt(@, pos + 1), !.vals = RemoveAt(@, pos + 1)]

find_child(n, p) == CHOOSE i \in 0 .. Size(n) - 1 : value_at(n, i) = p

Adopt_Nobody(T, p, from, to) == T

(* maintain_child of positions from .. to of node p. *)
Adopt(T, p, from, to) ==
  IF T[p].leaf THEN T
  ELSE [q \in DOMAIN T |->
          IF \E i \in from .. to : value_at(T[p], i) = q THEN [T[q] EXCEPT !.parent = p] ELSE T[q]]

-----------------------------------------------------------------------------
(* Search. *)

internal_lookup_Strict(n, k) ==
  value_at(n, IF lower_bound(n, k) = 0 THEN 0 ELSE lower_bound(n, k) - 1)

internal_lookup(n, k) ==
  value_at(n, IF upper_bound(n, k) = 0 THEN 0 ELSE upper_bound(n, k) - 1)

find_leaf_page(k) ==
  LET descend[p \in DOMAIN tree] ==
        IF tree[p].leaf THEN p ELSE descend[internal_lookup(tree[p], k)]
  IN  descend[root]

get_value(k) ==
  LET leaf == tree[find_leaf_page(k)] IN
  IF Holds(leaf, k) THEN value_at(leaf, lower_bound(leaf, k)) ELSE NoRid

(* IxIndexHandle::lower_bound and upper_bound: a position, on one of the   *)
(* next leaves if it is behind the last key of its own.                    *)
Position(k, upper) ==
  LET Bound(n) == IF upper THEN upper_bound(n, k) ELSE lower_bound(n, k)
      from[p \in DOMAIN tree] ==
        IF Bound(tree[p]) = Size(tree[p]) /\ p # last_leaf
        THEN from[tree[p].next] ELSE <<p, Bound(tree[p])>>
  IN  from[find_leaf_page(k)]

(* IxScan::next *)
NextIid(iid) ==
  IF iid[1] # last_leaf /\ iid[2] + 1 = Size(tree[iid[1]])
  THEN <<tree[iid[1]].next, 0>> ELSE <<iid[1], iid[2] + 1>>

(* The rids IndexScanExecutor visits; at a position without a key rid()    *)
(* throws IndexEntryNotFoundError.                                         *)
Error == <<NoRid>>
IndexScan(lo, hi, lopen, hopen) ==
  LET end == Position(hi, ~hopen)
      visit[iid \in (DOMAIN tree) \X Nat] ==
        IF iid = end THEN <<>>
        ELSE IF iid[2] >= Size(tree[iid[1]]) THEN Error
        ELSE <<value_at(tree[iid[1]], iid[2])>> \o visit[NextIid(iid)]
  IN  visit[Position(lo, lopen)]

-----------------------------------------------------------------------------
(* Insertion. *)

create_node(T) == CHOOSE p \in (1 .. MaxPages) \ DOMAIN T : \A q \in (1 .. MaxPages) \ DOMAIN T : p <= q
With(T, p, n) == [q \in DOMAIN T \cup {p} |-> IF q = p THEN n ELSE T[q]]

(* create_index inserts the rows of the table one by one. *)
MayInsert(k) ==
  IF load # <<>> THEN k = Head(load) /\ load' = Tail(load)
  ELSE k \in Key /\ UNCHANGED load

insert_entry(k) ==
  LET p == find_leaf_page(k)
      n == insert(tree[p], k, Rid(k))
  IN
  /\ task = NoTask /\ k \notin content
  /\ MayInsert(k)
  /\ tree' = [tree EXCEPT ![p] = n]
  /\ content' = content \cup {k}
  /\ IF Size(n) >= get_max_size THEN Do("split", p) ELSE Do("maintain_parent", p)
  /\ UNCHANGED <<root, last_leaf>>

(* split: the upper half of node p goes to a new node q on its right. *)
Halves(p, q) ==
  LET node == tree[p]
      half == Size(node) \div 2
      left == [node EXCEPT !.keys = SubSeq(@, 1, half), !.vals = SubSeq(@, 1, half)]
      right == [node EXCEPT !.keys = SubSeq(@, half + 1, Len(@)), !.vals = SubSeq(@, half + 1, Len(@))]
      T == With([tree EXCEPT ![p] = left], q, right)
  IN  IF node.leaf
      THEN [T EXCEPT ![p].next = q, ![q].prev = p, ![node.next].prev = q]
      ELSE Adopt(T, q, 0, Size(right) - 1)

LastLeafAfterSplit(p, q) == IF last_leaf = p THEN q ELSE last_leaf

(* One level of split and insert_into_parent. *)
Split ==
  LET p == task.node
      q == create_node(tree)
      T == Halves(p, q)
      k == key_at(T[q], 0)
      up == tree[p].parent
      r == create_node(T)
      top == [leaf |-> FALSE, parent |-> IX_NO_PAGE, prev |-> IX_NO_PAGE, next |-> IX_NO_PAGE,
              keys |-> <<key_at(T[p], 0), k>>, vals |-> <<p, q>>]
  IN
  /\ task.op = "split"
  /\ last_leaf' = LastLeafAfterSplit(p, q)
  /\ IF is_root_page(tree[p])
     THEN /\ tree' = Adopt(With(T, r, top), r, 0, 1)
          /\ root' = r
          /\ task' = NoTask
     ELSE /\ tree' = [T EXCEPT ![up] = insert(@, k, q)]
          /\ IF Size(tree'[up]) >= get_max_size THEN Do("split", up) ELSE task' = NoTask
          /\ UNCHANGED root
  /\ UNCHANGED <<load, content>>

(* One turn of the loop of maintain_parent. *)
MaintainParent ==
  LET p == task.node
      up == tree[p].parent
      i == find_child(tree[up], p)
  IN
  /\ task.op = "maintain_parent"
  /\ IF is_root_page(tree[p]) \/ key_at(tree[up], i) = key_at(tree[p], 0)
     THEN task' = NoTask /\ UNCHANGED tree
     ELSE /\ tree' = [tree EXCEPT ![up].keys[i + 1] = key_at(tree[p], 0)]
          /\ Do("maintain_parent", up)
  /\ UNCHANGED <<root, last_leaf, load, content>>

-----------------------------------------------------------------------------
(* Deletion. *)

delete_entry(k) ==
  LET p == find_leaf_page(k) IN
  /\ task = NoTask /\ load = <<>> /\ k \in Key /\ Holds(tree[p], k)
  /\ tree' = [tree EXCEPT ![p] = erase_pair(@, lower_bound(@, k))]
  /\ content' = content \ {k}
  /\ Do("coalesce_or_redistribute", p)
  /\ UNCHANGED <<root, last_leaf, load>>

adjust_root(p) ==
  /\ IF ~tree[p].leaf /\ Size(tree[p]) = 1
     THEN LET c == value_at(tree[p], 0) IN
          /\ root' = c
          /\ tree' = [q \in DOMAIN tree \ {p} |->
                        IF q = c THEN [tree[q] EXCEPT !.parent = IX_NO_PAGE] ELSE tree[q]]
     ELSE UNCHANGED <<tree, root>>
  /\ task' = NoTask
  /\ UNCHANGED <<last_leaf, load, content>>

redistribute(p, s, up, i) ==
  LET last == Size(tree[s]) - 1
      from == IF i = 0 THEN 0 ELSE last
      to == IF i = 0 THEN Size(tree[p]) ELSE 0
      T == [tree EXCEPT ![p] = insert_pair(@, to, key_at(tree[s], from), value_at(tree[s], from)),
                        ![s] = erase_pair(@, from)]
      par == [T[up] EXCEPT !.keys[i + 1] = key_at(T[p], 0),
                           !.keys[find_child(T[up], s) + 1] = key_at(T[s], 0)]
  IN
  /\ tree' = Adopt([T EXCEPT ![up] = par], p, to, to)
  /\ Do("maintain_parent", up)
  /\ UNCHANGED <<root, last_leaf, load, content>>

Merged(l, r) == insert_pairs(l, Size(l), r.keys, r.vals)

(* The right one of the two nodes is merged into the left one. *)
coalesce(l, r, up) ==
  LET T == [tree EXCEPT ![l] = Merged(@, tree[r]),
                        ![up] = erase_pair(@, find_child(@, r))]
      A == Adopt(T, l, Size(tree[l]), Size(T[l]) - 1)
  IN
  /\ tree' = [q \in DOMAIN A \ {r} |->
                IF ~A[l].leaf THEN A[q]
                ELSE IF q = l THEN [A[q] EXCEPT !.next = A[r].next]
                ELSE IF q = A[r].next THEN [A[q] EXCEPT !.prev = l] ELSE A[q]]
  /\ last_leaf' = IF last_leaf = r THEN l ELSE last_leaf
  /\ Do("coalesce_or_redistribute", up)
  /\ UNCHANGED <<root, load, content>>

Borrows(p, s) == Size(tree[p]) + Size(tree[s]) >= get_min_size * 2

coalesce_or_redistribute ==
  LET p == task.node
      up == tree[p].parent
      i == find_child(tree[up], p)
      s == value_at(tree[up], IF i = 0 THEN 1 ELSE i - 1)
  IN
  /\ task.op = "coalesce_or_redistribute"
  /\ IF is_root_page(tree[p]) THEN adjust_root(p)
     ELSE IF Size(tree[p]) >= get_min_size
     THEN Do("maintain_parent", p) /\ UNCHANGED <<tree, root, last_leaf, load, content>>
     ELSE IF Borrows(p, s) THEN redistribute(p, s, up, i)
     ELSE IF i = 0 THEN coalesce(p, s, up) ELSE coalesce(s, p, up)

-----------------------------------------------------------------------------
(* IxManager::create_index: the header of the leaf list and an empty root. *)
EmptyLeaf(other) == [leaf |-> TRUE, parent |-> IX_NO_PAGE, prev |-> other, next |-> other,
                     keys |-> <<>>, vals |-> <<>>]
Init ==
  /\ tree = (IX_LEAF_HEADER_PAGE :> EmptyLeaf(IX_INIT_ROOT_PAGE)
             @@ IX_INIT_ROOT_PAGE :> EmptyLeaf(IX_LEAF_HEADER_PAGE))
  /\ root = IX_INIT_ROOT_PAGE /\ last_leaf = IX_INIT_ROOT_PAGE
  /\ task = NoTask
  /\ load \in Loads
  /\ content = {}

Next ==
  \/ \E k \in AllKeys : insert_entry(k) \/ delete_entry(k)
  \/ Split \/ MaintainParent \/ coalesce_or_redistribute

Spec == Init /\ [][Next]_vars

-----------------------------------------------------------------------------
(* Properties. *)

Done == task = NoTask
Sorted(s) == \A i \in 1 .. Len(s) - 1 : s[i] < s[i + 1]
Leaves == {p \in DOMAIN tree : tree[p].leaf} \ {IX_LEAF_HEADER_PAGE}

(* Every node is well formed: as many values as keys, keys in ascending    *)
(* order, never more than the page has room for (asserted by               *)
(* insert_pairs), and links to nodes that exist.                           *)
TypeOK ==
  /\ root \in DOMAIN tree /\ last_leaf \in Leaves
  /\ task.node \in DOMAIN tree \cup {IX_NO_PAGE}
  /\ \A p \in DOMAIN tree :
       /\ Len(tree[p].vals) = Size(tree[p]) /\ Size(tree[p]) <= get_max_size
       /\ Sorted(tree[p].keys)
       /\ tree[p].parent \in DOMAIN tree \cup {IX_NO_PAGE}
       /\ tree[p].leaf => tree[p].next \in DOMAIN tree /\ tree[p].prev \in DOMAIN tree
       /\ ~tree[p].leaf => \A i \in 0 .. Size(tree[p]) - 1 : value_at(tree[p], i) \in DOMAIN tree

(* Every node but the root is the child of the node its parent field       *)
(* names, also in the middle of an operation: find_child, which asserts    *)
(* this, never fails.                                                      *)
ParentsExact ==
  \A p \in DOMAIN tree \ {root, IX_LEAF_HEADER_PAGE} :
    /\ tree[p].parent \in DOMAIN tree
    /\ Cardinality({<<q, i>> \in (DOMAIN tree) \X (0 .. Order) :
                      ~tree[q].leaf /\ i < Size(tree[q]) /\ value_at(tree[q], i) = p}) = 1
    /\ \E i \in 0 .. Size(tree[tree[p].parent]) - 1 : value_at(tree[tree[p].parent], i) = p

(* After an operation every node but the root is at least half full and    *)
(* all leaves have the same depth.                                         *)
Balanced ==
  LET depth[p \in DOMAIN tree] == IF is_root_page(tree[p]) THEN 0 ELSE 1 + depth[tree[p].parent]
  IN  Done => /\ \A p \in DOMAIN tree \ {root, IX_LEAF_HEADER_PAGE} : Size(tree[p]) >= get_min_size
              /\ \A p, q \in Leaves : depth[p] = depth[q]
              /\ ~tree[root].leaf => Size(tree[root]) >= 2

(* The shape of the tree, in its three parts. *)
TreeSound == TypeOK /\ ParentsExact /\ Balanced

(* get_value finds exactly the keys that were inserted and not deleted,    *)
(* each with its own rid, through splits, borrows and merges, although     *)
(* the keys of inner nodes need not be the least keys below them.          *)
LookupExact == Done => \A k \in AllKeys : get_value(k) = IF k \in content THEN Rid(k) ELSE NoRid

(* An index scan returns the rids of exactly the keys in its range, in     *)
(* order, for every range that is not empty by its bounds alone.           *)
ScanExact ==
  Done => \A lo, hi \in Key, lopen, hopen \in BOOLEAN :
    lo < hi \/ (lo = hi /\ ~lopen /\ ~hopen) =>
      LET in == {k \in content : (IF lopen THEN lo < k ELSE lo <= k)
                                 /\ (IF hopen THEN k < hi ELSE k <= hi)}
      IN  IndexScan(lo, hi, lopen, hopen) = [i \in 1 .. Cardinality(in) |->
            Rid(CHOOSE k \in in : Cardinality({j \in in : j < k}) = i - 1)]

(* What a caller can ask of the index: get_value and the range scan both   *)
(* answer from exactly the keys that were inserted and not deleted.        *)
AccessExact == LookupExact /\ ScanExact
=============================================================================
