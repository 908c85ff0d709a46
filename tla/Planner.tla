------------------------------ MODULE Planner ------------------------------
(***************************************************************************)
(* The optimizer (optimizer.h, planner.cpp): from an analyzed query to a   *)
(* plan.  Each condition of a SELECT goes to the scan of its table or to a *)
(* join; the choice of an index and the order of the two sides of a join   *)
(* depend on the conditions and on the sizes of the files.                 *)
(***************************************************************************)
EXTENDS Integers, Sequences, FiniteSets, Analyze

CONSTANT NumRecordsPerPage   \* of every table file

-----------------------------------------------------------------------------
(* Plans. *)

ScanPlan(tag, tab_name, conds, index_col_names) ==
  [plan |-> "Scan", tag |-> tag, tab_name |-> tab_name, conds |-> conds,
   index_col_names |-> index_col_names]
JoinPlan(left, right, conds) ==
  [plan |-> "Join", left |-> left, right |-> right, conds |-> conds]
ProjectionPlan(subplan, sel_cols) ==
  [plan |-> "Projection", subplan |-> subplan, sel_cols |-> sel_cols]
AggPlan(subplan, sel_items) ==
  [plan |-> "Agg", subplan |-> subplan, sel_items |-> sel_items]
SortPlan(subplan, sort_cols, is_desc, limit) ==
  [plan |-> "Sort", subplan |-> subplan, sort_cols |-> sort_cols, is_desc |-> is_desc,
   limit |-> limit]
DMLPlan(tag, subplan, tab_name, values, conds, set_clauses) ==
  [plan |-> "DML", tag |-> tag, subplan |-> subplan, tab_name |-> tab_name,
   values |-> values, conds |-> conds, set_clauses |-> set_clauses]
DDLPlan(tag, tab_name, col_names, cols) ==
  [plan |-> "DDL", tag |-> tag, tab_name |-> tab_name, tab_col_names |-> col_names,
   cols |-> cols]
OtherPlan(tag, tab_name) == [plan |-> "Other", tag |-> tag, tab_name |-> tab_name]
NoPlan == [plan |-> "none"]

-----------------------------------------------------------------------------
(* The index of a scan. *)

OnColumn(cond, tab, col) ==
  cond.is_rhs_val /\ cond.lhs_col = TabCol(tab, col)

HasEq(conds, tab, col) ==
  \E i \in DOMAIN conds : OnColumn(conds[i], tab, col) /\ conds[i].op = "EQ"
HasRange(conds, tab, col) ==
  \E i \in DOMAIN conds :
    OnColumn(conds[i], tab, col) /\ conds[i].op \in {"LT", "LE", "GT", "GE"}

(* Two for each leading column with an equality, one more if a range       *)
(* follows.                                                                *)
IndexScore(conds, tab, index) ==
  LET eqs == CHOOSE n \in 0 .. Len(index) :
               /\ \A k \in 1 .. n : HasEq(conds, tab, index[k])
               /\ n = Len(index) \/ ~HasEq(conds, tab, index[n + 1])
  IN  2 * eqs + IF eqs < Len(index) /\ HasRange(conds, tab, index[eqs + 1]) THEN 1 ELSE 0

(* The columns of the first index with the best score, if it is positive.  *)
get_index_cols(tab, conds) ==
  FoldLeft(LAMBDA best, index :
             IF IndexScore(conds, tab, index) > IndexScore(conds, tab, best) THEN index ELSE best,
           <<>>, Db[tab].indexes)

MakeScan(tab, conds) ==
  LET index == get_index_cols(tab, conds)
  IN  ScanPlan(IF index = <<>> THEN "T_SeqScan" ELSE "T_IndexScan", tab, conds, index)

-----------------------------------------------------------------------------
(* The placement of conditions. *)

(* The conditions a scan takes: those with a value on its table, and every *)
(* condition between two columns of one table, whichever table that is.    *)
Pops_AnyLhs(cond, tab) ==
  \/ cond.lhs_col.tab_name = tab
  \/ cond.lhs_col.tab_name = cond.rhs_col.tab_name

Pops(cond, tab) ==
  \/ cond.lhs_col.tab_name = tab /\ cond.is_rhs_val
  \/ cond.lhs_col.tab_name = cond.rhs_col.tab_name

swap_op == [EQ |-> "EQ", NE |-> "NE", LT |-> "GT", GT |-> "LT", LE |-> "GE", GE |-> "LE"]

Swapped(cond) ==
  [cond EXCEPT !.lhs_col = cond.rhs_col, !.rhs_col = cond.lhs_col, !.op = swap_op[cond.op]]

(* The scans of the tables in the order of FROM, and the conditions left.  *)
PopAll(tables, conds) ==
  FoldLeft(LAMBDA acc, tab :
             [scans |-> Append(acc.scans, MakeScan(tab, SelectSeq(acc.conds, LAMBDA c : Pops(c, tab)))),
              conds |-> SelectSeq(acc.conds, LAMBDA c : ~Pops(c, tab))],
           [scans |-> <<>>, conds |-> conds], tables)

pop_scan(scans, tab) == scans[CHOOSE i \in DOMAIN scans : scans[i].tab_name = tab]

(* An upper bound of the rows a scan returns, from the pages of the file   *)
(* and from the conditions that compare a column with a natural number.    *)
BoundOf(cond) ==
  CASE cond.op = "LT" -> cond.rhs_val.cell.ord
    [] cond.op = "LE" -> cond.rhs_val.cell.ord + 1
    [] cond.op = "EQ" -> 1

estimate_scan_rows(scan, pages) ==
  LET rows == (pages[scan.tab_name] - 1) * NumRecordsPerPage
      bounds == {BoundOf(scan.conds[i]) : i \in {j \in DOMAIN scan.conds :
                   LET c == scan.conds[j]
                   IN  /\ c.is_rhs_val /\ c.lhs_col.tab_name = scan.tab_name
                       /\ c.rhs_val.type = "INT" /\ c.rhs_val.cell.ord >= 0
                       /\ c.op \in {"LT", "LE", "EQ"}}}
  IN  IF pages[scan.tab_name] <= 1 THEN 0 ELSE Min(bounds \cup {rows})

(* Of two scans the smaller one becomes the left child. *)
make_join_plan(left, right, conds, pages) ==
  IF /\ left.plan = "Scan" /\ right.plan = "Scan"
     /\ estimate_scan_rows(left, pages) > estimate_scan_rows(right, pages)
  THEN JoinPlan(right, left, Each(Swapped, conds))
  ELSE JoinPlan(left, right, conds)

(* 0: no column of the condition is below the plan; 1, 2: its left, its    *)
(* right column is; 3: it was added to a join below the plan.              *)
RECURSIVE push_conds(_, _)
push_conds(cond, plan) ==
  IF plan.plan = "Scan"
  THEN [res |-> IF plan.tab_name = cond.lhs_col.tab_name THEN 1
                ELSE IF plan.tab_name = cond.rhs_col.tab_name THEN 2 ELSE 0,
        plan |-> plan]
  ELSE LET left == push_conds(cond, plan.left)
           right == push_conds(cond, plan.right)
           placed == IF left.res = 2 THEN Swapped(cond) ELSE cond
       IN  IF left.res = 3 THEN [res |-> 3, plan |-> [plan EXCEPT !.left = left.plan]]
           ELSE IF right.res = 3 THEN [res |-> 3, plan |-> [plan EXCEPT !.right = right.plan]]
           ELSE IF left.res = 0 \/ right.res = 0
           THEN [res |-> left.res + right.res, plan |-> plan]
           ELSE [res |-> 3, plan |-> [plan EXCEPT !.conds = Append(@, placed)]]

(* One more condition: the tables it names that are not joined yet are     *)
(* joined, and it goes to the new join or into the tree.                   *)
JoinCond(scans, pages, acc, cond) ==
  LET lhs == cond.lhs_col.tab_name
      rhs == cond.rhs_col.tab_name
      joined == acc.joined \cup {lhs, rhs}
      plan == IF lhs \notin acc.joined /\ rhs \notin acc.joined
              THEN make_join_plan(
                     make_join_plan(pop_scan(scans, lhs), pop_scan(scans, rhs), <<cond>>, pages),
                     acc.plan, <<>>, pages)
              ELSE IF rhs \notin acc.joined
              THEN make_join_plan(pop_scan(scans, rhs), acc.plan, <<Swapped(cond)>>, pages)
              ELSE IF lhs \notin acc.joined
              THEN make_join_plan(pop_scan(scans, lhs), acc.plan, <<cond>>, pages)
              ELSE push_conds(cond, acc.plan).plan
  IN  [joined |-> joined, plan |-> plan]

FirstJoin(scans, pages, cond) ==
  [joined |-> {cond.lhs_col.tab_name, cond.rhs_col.tab_name},
   plan |-> make_join_plan(pop_scan(scans, cond.lhs_col.tab_name),
                           pop_scan(scans, cond.rhs_col.tab_name), <<cond>>, pages)]

(* The tables no condition has joined, in the order of FROM.  Of a table   *)
(* that is named twice, only the first mention can have been joined.       *)
JoinRest(tables, scans, pages, acc) ==
  FoldLeft(LAMBDA plan, i :
             IF tables[i] \in acc.joined /\ \A j \in 1 .. i - 1 : tables[j] # tables[i]
             THEN plan
             ELSE make_join_plan(scans[i], plan, <<>>, pages),
           acc.plan, [i \in DOMAIN tables |-> i])

make_one_rel(query, pages) ==
  LET tables == query.tables
      popped == PopAll(tables, query.conds)
      scans == popped.scans
      conds == popped.conds
      joins == IF conds = <<>> THEN [joined |-> {tables[1]}, plan |-> scans[1]]
               ELSE FoldLeft(LAMBDA acc, c : JoinCond(scans, pages, acc, c),
                             FirstJoin(scans, pages, conds[1]), Tail(conds))
  IN  IF Len(tables) = 1 THEN scans[1] ELSE JoinRest(tables, scans, pages, joins)

-----------------------------------------------------------------------------
(* The rest of a SELECT. *)

sort_error(query) ==
  LET all_cols == get_all_cols(query.tables)
  IN  Errors(LAMBDA o : check_column_error(all_cols, AsTabCol(o.cols)), query.parse.orders)

generate_sort_plan(query, plan) ==
  LET all_cols == get_all_cols(query.tables)
      orders == query.parse.orders
  IN  IF orders = <<>> THEN plan
      ELSE SortPlan(plan, Each(LAMBDA o : check_column(all_cols, AsTabCol(o.cols)), orders),
                    Each(LAMBDA o : o.orderby_dir = "DESC", orders), query.parse.limit)

generate_select_plan(query, pages) ==
  LET sorted == generate_sort_plan(query, make_one_rel(query, pages))
      has_agg == \E i \in DOMAIN query.sel_items : query.sel_items[i].kind = "SEL_AGG"
  IN  IF has_agg THEN AggPlan(sorted, query.sel_items)
      ELSE ProjectionPlan(sorted, query.cols)

-----------------------------------------------------------------------------
(* Statements. *)

do_planner(query, pages) ==
  LET x == query.parse
  IN CASE x.node = "CreateTable" ->
            DDLPlan("T_CreateTable", x.tab_name, <<>>,
                    Each(LAMBDA f : [name |-> f.col_name, type |-> f.type_len.type,
                                     len |-> f.type_len.len], x.fields))
       [] x.node = "DropTable" -> DDLPlan("T_DropTable", x.tab_name, <<>>, <<>>)
       [] x.node = "CreateIndex" -> DDLPlan("T_CreateIndex", x.tab_name, x.col_names, <<>>)
       [] x.node = "DropIndex" -> DDLPlan("T_DropIndex", x.tab_name, x.col_names, <<>>)
       [] x.node = "InsertStmt" ->
            DMLPlan("T_Insert", NoPlan, x.tab_name, query.values, <<>>, <<>>)
       [] x.node = "DeleteStmt" ->
            DMLPlan("T_Delete", MakeScan(x.tab_name, query.conds), x.tab_name, <<>>,
                    query.conds, <<>>)
       [] x.node = "UpdateStmt" ->
            DMLPlan("T_Update", MakeScan(x.tab_name, query.conds), x.tab_name, <<>>,
                    query.conds, query.set_clauses)
       [] x.node = "SelectStmt" ->
            DMLPlan("T_select", generate_select_plan(query, pages), "", <<>>, <<>>, <<>>)

plan_query(query, pages) ==
  LET x == query.parse
  IN CASE x.node = "Help" -> OtherPlan("T_Help", "")
       [] x.node = "ShowTables" -> OtherPlan("T_ShowTable", "")
       [] x.node = "ShowIndex" -> OtherPlan("T_ShowIndex", x.tab_name)
       [] x.node = "DescTable" -> OtherPlan("T_DescTable", x.tab_name)
       [] x.node = "TxnBegin" -> OtherPlan("T_Transaction_begin", "")
       [] x.node = "TxnAbort" -> OtherPlan("T_Transaction_abort", "")
       [] x.node = "TxnCommit" -> OtherPlan("T_Transaction_commit", "")
       [] x.node = "TxnRollback" -> OtherPlan("T_Transaction_rollback", "")
       [] OTHER -> do_planner(query, pages)

plan_error(query) ==
  IF query.parse.node = "SelectStmt" THEN sort_error(query) ELSE "ok"

-----------------------------------------------------------------------------
(* What a plan does with conditions. *)

RECURSIVE TablesBelow(_)
TablesBelow(plan) ==
  IF plan.plan = "Scan" THEN {plan.tab_name}
  ELSE TablesBelow(plan.left) \cup TablesBelow(plan.right)

RECURSIVE PlacedConds(_)
PlacedConds(plan) ==
  IF plan.plan = "Scan" THEN plan.conds
  ELSE PlacedConds(plan.left) \o PlacedConds(plan.right) \o plan.conds

RECURSIVE Placeable(_)
Placeable(plan) ==
  IF plan.plan = "Scan"
  THEN \A i \in DOMAIN plan.conds :
         LET c == plan.conds[i]
         IN  c.lhs_col.tab_name = plan.tab_name
             /\ (c.is_rhs_val \/ c.rhs_col.tab_name = plan.tab_name)
  ELSE /\ Placeable(plan.left) /\ Placeable(plan.right)
       /\ \A i \in DOMAIN plan.conds :
            \E one, other \in {plan.left, plan.right} :
              /\ one # other
              /\ plan.conds[i].lhs_col.tab_name \in TablesBelow(one)
              /\ plan.conds[i].rhs_col.tab_name \in TablesBelow(other)

(* A condition and its mirror image say the same. *)
Mirrors == {<<"EQ", "EQ">>, <<"NE", "NE">>, <<"LT", "GT">>, <<"GT", "LT">>, <<"LE", "GE">>, <<"GE", "LE">>}

SameCond(c, d) ==
  \/ c = d
  \/ /\ ~c.is_rhs_val /\ ~d.is_rhs_val
     /\ c.lhs_col = d.rhs_col /\ c.rhs_col = d.lhs_col /\ <<c.op, d.op>> \in Mirrors

(* The conditions of a plan are those of the query, each once.             *)
CarriesConds(plan, conds) ==
  /\ Len(PlacedConds(plan)) = Len(conds)
  /\ \E f \in [DOMAIN conds -> DOMAIN conds] :
       /\ \A i, j \in DOMAIN conds : f[i] = f[j] => i = j
       /\ \A i \in DOMAIN conds : SameCond(PlacedConds(plan)[f[i]], conds[i])
=============================================================================
