------------------------------ MODULE Executors ------------------------------
(***************************************************************************)
(* The executors above and below the join, on the contents of the tables:  *)
(* sequential scan, index scan, sort, aggregate, projection and what the   *)
(* insert executor checks.  Each is what its beginTuple/nextTuple/Next loop *)
(* delivers from beginning to end.                                         *)
(*                                                                         *)
(* A row is a function from columns (TabCol) to cells; a table is the      *)
(* sequence of its rows in the order of the record file, a rid a position. *)
(***************************************************************************)
EXTENDS Integers, Sequences, FiniteSets, TLC, Planner, NestedLoopJoin

-----------------------------------------------------------------------------
(* Scans. *)

eval_cond(cond, row) ==
  eval_compare(ix_compare(row[cond.lhs_col],
                          IF cond.is_rhs_val THEN cond.rhs_val.cell ELSE row[cond.rhs_col]),
               cond.op)

eval_conds(conds, row) == \A i \in DOMAIN conds : eval_cond(conds[i], row)

SeqScan(scan, rows) ==
  SelectSeq([i \in DOMAIN rows |-> i], LAMBDA i : eval_conds(scan.conds, rows[i]))

(* The key of a row in an index, and the order of keys. *)
build_index_key(tab, index, row) == [k \in DOMAIN index |-> row[TabCol(tab, index[k])].ord]

KeyLess(a, b) ==
  \E k \in DOMAIN a : a[k] < b[k] /\ \A j \in 1 .. k - 1 : a[j] = b[j]

TypeOfCol(tab, name) == get_col_meta(Db[tab].cols, TabCol(tab, name)).type

fill_min(type) ==
  CASE type = "INT" -> -INT_MAX - 1
    [] type \in {"BIGINT", "DATETIME"} -> -INT64_MAX - 1
    [] type = "FLOAT" -> -2 * INT64_MAX
    [] type = "STRING" -> 0

fill_max(type) ==
  CASE type = "INT" -> INT_MAX
    [] type \in {"BIGINT", "DATETIME", "STRING"} -> INT64_MAX
    [] type = "FLOAT" -> 2 * INT64_MAX

(* The conditions of an index column with one of the operators; of several *)
(* the last one counts.                                                    *)
OnIndexColumn(scan, k, ops) ==
  SelectSeq(scan.conds, LAMBDA c : OnColumn(c, scan.tab_name, scan.index_col_names[k])
                                     /\ c.op \in ops)

IndexBounds(scan) ==
  LET index == scan.index_col_names
      Eq(k) == OnIndexColumn(scan, k, {"EQ"})
      Lower(k) == OnIndexColumn(scan, k, {"GT", "GE"})
      Upper(k) == OnIndexColumn(scan, k, {"LT", "LE"})
      prefix == {k \in DOMAIN index : \A j \in 1 .. k : Eq(j) # <<>>}
      range == {k \in DOMAIN index : k = Cardinality(prefix) + 1}
      Bound(k, conds, default) ==
        IF k \in prefix THEN Last(Eq(k)).rhs_val.cell.ord
        ELSE IF k \in range /\ conds # <<>> THEN Last(conds).rhs_val.cell.ord
        ELSE default
      type == [k \in DOMAIN index |-> TypeOfCol(scan.tab_name, index[k])]
  IN  [lower |-> [k \in DOMAIN index |-> Bound(k, Lower(k), fill_min(type[k]))],
       upper |-> [k \in DOMAIN index |-> Bound(k, Upper(k), fill_max(type[k]))],
       lower_open |-> \E k \in range : Lower(k) # <<>> /\ Last(Lower(k)).op = "GT",
       upper_open |-> \E k \in range : Upper(k) # <<>> /\ Last(Upper(k)).op = "LT"]

(* The entries in front of the two ends of the scan. *)
BeforeLower(scan, rows) ==
  LET b == IndexBounds(scan)
      Key(i) == build_index_key(scan.tab_name, scan.index_col_names, rows[i])
  IN  {i \in DOMAIN rows : IF b.lower_open THEN ~KeyLess(b.lower, Key(i)) ELSE KeyLess(Key(i), b.lower)}

BeforeUpper(scan, rows) ==
  LET b == IndexBounds(scan)
      Key(i) == build_index_key(scan.tab_name, scan.index_col_names, rows[i])
  IN  {i \in DOMAIN rows : IF b.upper_open THEN KeyLess(Key(i), b.upper) ELSE ~KeyLess(b.upper, Key(i))}

(* A scan whose lower end is behind its upper end never meets it: it runs  *)
(* to the end of the index, where get_rid throws.                          *)
Reversed(scan, rows) ==
  /\ scan.tag = "T_IndexScan"
  /\ ~(BeforeLower(scan, rows) \subseteq BeforeUpper(scan, rows))

IndexScan_OpenUpper(scan, rows) ==
  LET Key(i) == build_index_key(scan.tab_name, scan.index_col_names, rows[i])
      b == IndexBounds(scan)
      between == {i \in DOMAIN rows \ BeforeLower(scan, rows) : KeyLess(Key(i), b.upper)}
      ordered == SetToSortSeq(between, LAMBDA i, j : KeyLess(Key(i), Key(j)))
  IN  SelectSeq(ordered, LAMBDA i : eval_conds(scan.conds, rows[i]))

IndexScan(scan, rows) ==
  LET Key(i) == build_index_key(scan.tab_name, scan.index_col_names, rows[i])
      between == BeforeUpper(scan, rows) \ BeforeLower(scan, rows)
      ordered == SetToSortSeq(between, LAMBDA i, j : KeyLess(Key(i), Key(j)))
  IN  SelectSeq(ordered, LAMBDA i : eval_conds(scan.conds, rows[i]))

(* The rids a scan delivers. *)
Scan(scan, contents) ==
  LET rows == contents[scan.tab_name]
  IN  IF scan.tag = "T_SeqScan" THEN SeqScan(scan, rows) ELSE IndexScan(scan, rows)

ScanRows(scan, contents) == Each(LAMBDA i : contents[scan.tab_name][i], Scan(scan, contents))

-----------------------------------------------------------------------------
(* The join of two scans. *)

TupleLen(tab) == FoldLeft(LAMBDA acc, c : acc + c.len, 0, Db[tab].cols)

build_cond_specs(conds, left_tab) ==
  Each(LAMBDA c : [lhs |-> c.lhs_col, lhs_on_left |-> c.lhs_col.tab_name = left_tab, op |-> c.op,
                   is_rhs_val |-> c.is_rhs_val, rhs_val |-> c.rhs_val.cell,
                   rhs |-> c.rhs_col, rhs_on_left |-> c.rhs_col.tab_name = left_tab], conds)

NestedLoopJoinExecutor(join, contents) ==
  [left |-> ScanRows(join.left, contents), right |-> ScanRows(join.right, contents),
   left_peeks |-> join.left.tag = "T_SeqScan", right_peeks |-> join.right.tag = "T_SeqScan",
   specs |-> build_cond_specs(join.conds, join.left.tab_name),
   left_tuple_len |-> TupleLen(join.left.tab_name)]

JoinedRows == Each(LAMBDA p : jin.left[p[1]] @@ jin.right[p[2]], joined)

-----------------------------------------------------------------------------
(* Sort. *)

compare_records(a, b, sort) ==
  LET Cmp(k) == ix_compare(a[sort.sort_cols[k]], b[sort.sort_cols[k]])
      differ == {k \in DOMAIN sort.sort_cols : Cmp(k) # 0}
      first == CHOOSE k \in differ : \A j \in differ : k <= j
  IN  IF differ = {} THEN 0 ELSE IF sort.is_desc[first] THEN -Cmp(first) ELSE Cmp(first)

(* std::sort leaves equal records in any order. *)
SortedOrders(sort, rows) ==
  {p \in [DOMAIN rows -> DOMAIN rows] :
     /\ \A i, j \in DOMAIN rows : i < j =>
          p[i] # p[j] /\ compare_records(rows[p[i]], rows[p[j]], sort) <= 0}

SortResults(sort, rows) ==
  LET kept == IF sort.limit >= 0 /\ Len(rows) > sort.limit THEN sort.limit ELSE Len(rows)
  IN  {[i \in 1 .. kept |-> rows[p[i]]] : p \in SortedOrders(sort, rows)}

-----------------------------------------------------------------------------
(* Aggregate. *)

(* The low bits of a number as an int. *)
AsInt(n) == ((n + INT_MAX + 1) % (2 * (INT_MAX + 1))) - INT_MAX - 1

ZeroCell == [ord |-> 0, bits |-> 0]

update_max_min(cur, val, is_max) ==
  LET cmp == ix_compare(val, cur)
  IN  IF (is_max /\ cmp > 0) \/ (~is_max /\ cmp < 0) THEN val ELSE cur

(* The value of a select item; a column next to an aggregate stays zero,   *)
(* and so does an aggregate of no rows.                                    *)
compute_item(item, rows) ==
  LET cells == Each(LAMBDA row : row[item.col], rows)
      sum == FoldLeft(LAMBDA acc, c : acc + c.ord, 0, cells)
      shown == IF TypeOfCol(item.col.tab_name, item.col.col_name) = "INT" THEN AsInt(sum) ELSE sum
  IN CASE item.kind = "SEL_COL" -> ZeroCell
       [] item.agg = "COUNT" -> [ord |-> Len(rows), bits |-> Len(rows)]
       [] item.agg = "SUM" -> [ord |-> shown, bits |-> shown]
       [] item.agg \in {"MAX", "MIN"} ->
            IF rows = <<>> THEN ZeroCell
            ELSE FoldLeft(LAMBDA acc, c : update_max_min(acc, c, item.agg = "MAX"),
                          cells[1], Tail(cells))

compute(sel_items, rows) == [i \in DOMAIN sel_items |-> compute_item(sel_items[i], rows)]

-----------------------------------------------------------------------------
(* Projection. *)

project(sel_cols, row) == [i \in DOMAIN sel_cols |-> row[sel_cols[i]]]

(* What the insert executor checks before it changes anything. *)
InsertExecutorError(plan, lits, contents) ==
  LET tab == plan.tab_name
      row == [c \in {TabCol(tab, Db[tab].cols[i].name) : i \in DOMAIN lits} |->
                plan.values[CHOOSE i \in DOMAIN lits : Db[tab].cols[i].name = c.col_name].cell]
      Key(index, r) == build_index_key(tab, index, r)
  IN  OrElse(FirstError([i \in DOMAIN lits |->
               IF Db[tab].cols[i].type = "DATETIME" THEN "ok"
               ELSE init_raw_error(lits[i], Db[tab].cols[i].len)]),
             IF \E k \in DOMAIN Db[tab].indexes, i \in DOMAIN contents[tab] :
                  Key(Db[tab].indexes[k], row) = Key(Db[tab].indexes[k], contents[tab][i])
             THEN "IndexExists" ELSE "ok")
=============================================================================
