----------------------------- MODULE SqlMeaning -----------------------------
(***************************************************************************)
(* What a statement means: a reference for the analyzer, the planner and   *)
(* the executors, given directly on the parse tree.  A SELECT is the       *)
(* product of its tables, every condition tested on every combination,     *)
(* ordered and cut; nothing is placed, swapped, indexed or hashed.         *)
(***************************************************************************)
EXTENDS Integers, Sequences, FiniteSets, TLC, Analyze

-----------------------------------------------------------------------------
(* Names and literals. *)

ColumnsOf(tab) == {Db[tab].cols[i] : i \in DOMAIN Db[tab].cols}

(* The columns a name can mean in a FROM list. *)
Meant(tabs, c) ==
  {m \in UNION {ColumnsOf(tabs[i]) : i \in DOMAIN tabs} :
     m.name = c.col_name /\ c.tab_name \in {"", m.tab_name}}

IsClear(tabs, c) == Cardinality(Meant(tabs, c)) = 1

TheColumn(tabs, c) == CHOOSE m \in Meant(tabs, c) : TRUE

(* A literal that a column can be compared with; only there may an integer *)
(* stand for a float.                                                      *)
Comparable(m, lit) ==
  CASE m.type = "INT" -> lit.node = "IntLit" /\ InRange(Number(lit.val), INT_MAX)
    [] m.type = "BIGINT" -> lit.node = "IntLit" /\ InRange(Number(lit.val), INT64_MAX)
    [] m.type = "FLOAT" ->
         lit.node = "FloatLit" \/ (lit.node = "IntLit" /\ InRange(Number(lit.val), INT_MAX))
    [] m.type = "STRING" -> lit.node = "StringLit" /\ StringText[lit.val].len <= m.len
    [] m.type = "DATETIME" ->
         /\ lit.node = "StringLit" /\ StringText[lit.val].len = 19 /\ StringText[lit.val].shaped
         /\ GregorianDatetime(StringText[lit.val].fields)

Storable(m, lit) == Comparable(m, lit) /\ (m.type = "FLOAT" => lit.node = "FloatLit")

LiteralOrd(m, lit) ==
  CASE lit.node = "IntLit" -> IF m.type = "FLOAT" THEN 2 * Number(lit.val) ELSE Number(lit.val)
    [] lit.node = "FloatLit" -> lit.fval
    [] lit.node = "StringLit" -> StringText[lit.val].ord

-----------------------------------------------------------------------------
(* Conditions. *)

IsCondition(tabs, c) ==
  /\ IsClear(tabs, c.lhs)
  /\ IF IsLiteral(c.rhs) THEN Comparable(TheColumn(tabs, c.lhs), c.rhs)
     ELSE IsClear(tabs, c.rhs) /\ TheColumn(tabs, c.rhs).type = TheColumn(tabs, c.lhs).type

ValueIn(tabs, c, row) ==
  row[TabCol(TheColumn(tabs, c).tab_name, c.col_name)].ord

Satisfies(tabs, c, row) ==
  LET a == ValueIn(tabs, c.lhs, row)
      b == IF IsLiteral(c.rhs) THEN LiteralOrd(TheColumn(tabs, c.lhs), c.rhs)
           ELSE ValueIn(tabs, c.rhs, row)
  IN CASE c.op = "EQ" -> a = b [] c.op = "NE" -> a # b [] c.op = "LT" -> a < b
       [] c.op = "GT" -> a > b [] c.op = "LE" -> a <= b [] c.op = "GE" -> a >= b

AreConditions(tabs, conds) == \A i \in DOMAIN conds : IsCondition(tabs, conds[i])
SatisfiesAll(tabs, conds, row) == \A i \in DOMAIN conds : Satisfies(tabs, conds[i], row)

-----------------------------------------------------------------------------
(* SELECT. *)

IsItem(tabs, item) ==
  IF item.expr.node = "Col" THEN IsClear(tabs, item.expr)
  ELSE \/ item.expr.col = NULL
       \/ /\ IsClear(tabs, item.expr.col)
          /\ TheColumn(tabs, item.expr.col).type \in
               (CASE item.expr.type = "COUNT" -> TYPE
                  [] item.expr.type = "SUM" -> {"INT", "FLOAT"}
                  [] item.expr.type \in {"MAX", "MIN"} -> {"INT", "FLOAT", "STRING"})

IsSelect(x) ==
  /\ \A i \in DOMAIN x.tabs : x.tabs[i] \in DOMAIN Db
  /\ AreConditions(x.tabs, x.conds)
  /\ \A i \in DOMAIN x.select_items : IsItem(x.tabs, x.select_items[i])
  /\ \A i \in DOMAIN x.orders : IsClear(x.tabs, x.orders[i].cols)

(* Every combination of one row of each table. *)
Product(tabs, contents) ==
  FoldLeft(LAMBDA rows, tab :
             FlattenSeq([i \in DOMAIN rows |->
               [j \in DOMAIN contents[tab] |-> rows[i] @@ contents[tab][j]]]),
           << <<>> >>, tabs)

Matching(x, contents) ==
  SelectSeq(Product(x.tabs, contents), LAMBDA row : SatisfiesAll(x.tabs, x.conds, row))

Occurrences(seq, e) == Cardinality({i \in DOMAIN seq : seq[i] = e})

(* row may stand in front of other. *)
InOrder(x, row, other) ==
  \/ \A i \in DOMAIN x.orders :
       ValueIn(x.tabs, x.orders[i].cols, row) = ValueIn(x.tabs, x.orders[i].cols, other)
  \/ \E i \in DOMAIN x.orders :
       LET a == ValueIn(x.tabs, x.orders[i].cols, row)
           b == ValueIn(x.tabs, x.orders[i].cols, other)
       IN  /\ IF x.orders[i].orderby_dir = "DESC" THEN a > b ELSE a < b
           /\ \A j \in 1 .. i - 1 :
                ValueIn(x.tabs, x.orders[j].cols, row) = ValueIn(x.tabs, x.orders[j].cols, other)

(* rows is all of `all`, or as many as the limit allows, in order, and     *)
(* nothing left out belongs in front of something returned.                *)
IsResult(x, rows, all) ==
  /\ Len(rows) = IF x.limit >= 0 /\ x.limit < Len(all) THEN x.limit ELSE Len(all)
  /\ \A i \in DOMAIN rows : Occurrences(rows, rows[i]) <= Occurrences(all, rows[i])
  /\ \A i, j \in DOMAIN rows : i < j => InOrder(x, rows[i], rows[j])
  /\ \A i \in DOMAIN rows, k \in DOMAIN all :
       Occurrences(rows, all[k]) < Occurrences(all, all[k]) => InOrder(x, rows[i], all[k])

IsAggregate(x) == \E i \in DOMAIN x.select_items : x.select_items[i].expr.node = "AggExpr"

(* What SELECT shows of a row: the named columns, or all of them.          *)
Shown(x, row) ==
  IF x.select_items = <<>>
  THEN FlattenSeq([t \in DOMAIN x.tabs |->
         [i \in DOMAIN Db[x.tabs[t]].cols |->
            row[TabCol(x.tabs[t], Db[x.tabs[t]].cols[i].name)].ord]])
  ELSE [i \in DOMAIN x.select_items |-> ValueIn(x.tabs, x.select_items[i].expr, row)]

(* An aggregate of rows; of no rows it is 0. *)
AggregateOf(x, expr, rows) ==
  LET values == [i \in DOMAIN rows |-> ValueIn(x.tabs, expr.col, rows[i])]
  IN CASE expr.type = "COUNT" -> Len(rows)
       [] expr.type = "SUM" -> FoldLeft(LAMBDA acc, v : acc + v, 0, values)
       [] expr.type = "MAX" -> IF rows = <<>> THEN 0 ELSE Max({values[i] : i \in DOMAIN values})
       [] expr.type = "MIN" -> IF rows = <<>> THEN 0 ELSE Min({values[i] : i \in DOMAIN values})

(* A column beside an aggregate has its value in one of the rows.          *)
IsAggregateRow(x, shown, rows) ==
  /\ DOMAIN shown = DOMAIN x.select_items
  /\ \A i \in DOMAIN x.select_items :
       LET expr == x.select_items[i].expr
       IN  IF expr.node = "AggExpr" THEN shown[i] = AggregateOf(x, expr, rows)
           ELSE rows = <<>> \/ \E k \in DOMAIN rows : shown[i] = ValueIn(x.tabs, expr, rows[k])

(* The table a SELECT is answered with, from the rows it was made of.  The *)
(* single row of an aggregate is cut by LIMIT 0 as any other row.          *)
IsTable(x, table, rows, contents) ==
  IF IsAggregate(x)
  THEN /\ Len(table) = (IF x.limit = 0 THEN 0 ELSE 1)
       /\ \A i \in DOMAIN table : IsAggregateRow(x, table[i], Matching(x, contents))
  ELSE /\ IsResult(x, rows, Matching(x, contents))
       /\ table = [i \in DOMAIN rows |-> Shown(x, rows[i])]

-----------------------------------------------------------------------------
(* INSERT, UPDATE, DELETE. *)

Selected(tab, conds, contents) ==
  {i \in DOMAIN contents[tab] : SatisfiesAll(<<tab>>, conds, contents[tab][i])}

IsInsert(x, contents) ==
  /\ x.tab_name \in DOMAIN Db
  /\ LET cols == Db[x.tab_name].cols
         New(name) == LET i == CHOOSE j \in DOMAIN cols : cols[j].name = name
                      IN  LiteralOrd(cols[i], x.vals[i])
     IN  /\ Len(x.vals) = Len(cols)
         /\ \A i \in DOMAIN cols : Storable(cols[i], x.vals[i])
         /\ \A n \in DOMAIN Db[x.tab_name].indexes, r \in DOMAIN contents[x.tab_name] :
              \E k \in DOMAIN Db[x.tab_name].indexes[n] :
                LET name == Db[x.tab_name].indexes[n][k]
                IN  New(name) # contents[x.tab_name][r][TabCol(x.tab_name, name)].ord

IsUpdate(x) ==
  /\ x.tab_name \in DOMAIN Db
  /\ AreConditions(<<x.tab_name>>, x.conds)
  /\ \A i \in DOMAIN x.set_clauses :
       \E m \in ColumnsOf(x.tab_name) :
         m.name = x.set_clauses[i].col_name /\ Storable(m, x.set_clauses[i].val)

IsDelete(x) == x.tab_name \in DOMAIN Db /\ AreConditions(<<x.tab_name>>, x.conds)
=============================================================================
