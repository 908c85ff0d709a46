------------------------------ MODULE Analyze ------------------------------
(***************************************************************************)
(* The analyzer (analyze.cpp): names are resolved against the catalog, the *)
(* literals of conditions, assignments and inserts converted to values of  *)
(* the column's type.  do_analyze either throws an RMDBError or returns a  *)
(* Query; errors are names, "ok" is none, and of several the first thrown  *)
(* counts.                                                                 *)
(*                                                                         *)
(* A value has a type and a cell: `ord` is what ix_compare compares, `bits`*)
(* its bytes.  Floats are counted in halves.                               *)
(***************************************************************************)
EXTENDS Integers, Sequences, FiniteSets, Ast, Literals

CONSTANT Db   \* from table names to their columns and indexes

TYPE == {"INT", "BIGINT", "FLOAT", "STRING", "DATETIME"}

TabCol(tab_name, col_name) == [tab_name |-> tab_name, col_name |-> col_name]
NoCol == TabCol("", "")

is_table(tab) == tab \in DOMAIN Db

(* The first error of a sequence of checks. *)
OrElse(first, second) == IF first # "ok" THEN first ELSE second
FirstError(errors) ==
  IF \A i \in DOMAIN errors : errors[i] = "ok" THEN "ok" ELSE SelectSeq(errors, LAMBDA e : e # "ok")[1]

-----------------------------------------------------------------------------
(* Columns. *)

get_all_cols(tabs) == FlattenSeq([i \in DOMAIN tabs |-> Db[tabs[i]].cols])

(* The positions in all_cols that a column name denotes. *)
Denoted(all_cols, target) ==
  {i \in DOMAIN all_cols :
     /\ all_cols[i].name = target.col_name
     /\ target.tab_name \in {"", all_cols[i].tab_name}}

check_column_error(all_cols, target) ==
  IF Denoted(all_cols, target) = {} THEN "ColumnNotFound"
  ELSE IF target.tab_name = "" /\ Cardinality(Denoted(all_cols, target)) > 1
       THEN "AmbiguousColumn"
       ELSE "ok"

get_col_meta(all_cols, target) ==
  all_cols[CHOOSE i \in Denoted(all_cols, target) :
             \A j \in Denoted(all_cols, target) : i <= j]

check_column(all_cols, target) ==
  TabCol(get_col_meta(all_cols, target).tab_name, target.col_name)

AsTabCol(sv_col) == TabCol(sv_col.tab_name, sv_col.col_name)

-----------------------------------------------------------------------------
(* Literals. *)

NoValue == [type |-> "", cell |-> [ord |-> 0, bits |-> 0]]

set_int(n) == [type |-> "INT", cell |-> [ord |-> n, bits |-> n]]
set_bigint(n) == [type |-> "BIGINT", cell |-> [ord |-> n, bits |-> n]]
set_float(halves) == [type |-> "FLOAT", cell |-> [ord |-> halves, bits |-> halves]]
set_str(text) ==
  [type |-> "STRING", cell |-> [ord |-> StringText[text].ord, bits |-> StringText[text].ord]]
set_datetime(text) ==
  [type |-> "DATETIME", cell |-> [ord |-> StringText[text].ord, bits |-> StringText[text].ord]]

(* The conversion of a literal for a column type, or for none ("").        *)
convert_sv_value(lit, type) ==
  CASE lit.node = "IntLit" /\ type = "BIGINT" -> set_bigint(Number(lit.val))
    [] lit.node = "IntLit" /\ type # "BIGINT" -> set_int(Number(lit.val))
    [] lit.node = "FloatLit" -> set_float(lit.fval)
    [] lit.node = "StringLit" /\ type = "DATETIME" -> set_datetime(lit.val)
    [] lit.node = "StringLit" /\ type # "DATETIME" -> set_str(lit.val)

convert_error(lit, type) ==
  IF lit.node = "IntLit" /\ ~no_overflow(lit.val, IF type = "BIGINT" THEN INT64_MAX ELSE INT_MAX)
  THEN "IntegerOverflow"
  ELSE IF lit.node = "StringLit" /\ type = "DATETIME" /\ ~IsDatetime(lit.val)
  THEN "InvalidDateTime"
  ELSE IF type \notin {"", convert_sv_value(lit, type).type} THEN "IncompatibleType"
  ELSE "ok"

coerce_value_to_col_type(val, type) ==
  IF type = "FLOAT" /\ val.type = "INT" THEN set_float(2 * val.cell.ord) ELSE val

(* init_raw copies a string into a buffer of the column's length. *)
init_raw_error(lit, len) ==
  IF lit.node = "StringLit" /\ len < StringText[lit.val].len THEN "StringOverflow" ELSE "ok"

-----------------------------------------------------------------------------
(* Conditions. *)

Condition(lhs_col, op, is_rhs_val, rhs_col, rhs_val) ==
  [lhs_col |-> lhs_col, op |-> op, is_rhs_val |-> is_rhs_val,
   rhs_col |-> rhs_col, rhs_val |-> rhs_val]

IsLiteral(expr) == expr.node # "Col"

(* The type a literal is converted for: the column's, or none and a        *)
(* coercion afterwards.                                                    *)
AskedType(col) == IF col.type \in {"BIGINT", "DATETIME"} THEN col.type ELSE ""

literal_clause_error(col, lit) ==
  OrElse(convert_error(lit, AskedType(col)),
  OrElse(IF coerce_value_to_col_type(convert_sv_value(lit, AskedType(col)), col.type).type
              # col.type
         THEN "IncompatibleType" ELSE "ok",
         IF col.type = "DATETIME" THEN "ok" ELSE init_raw_error(lit, col.len)))

check_clause_error(all_cols, expr) ==
  LET lhs == AsTabCol(expr.lhs)
      lhs_meta == get_col_meta(all_cols, lhs)
  IN  OrElse(check_column_error(all_cols, lhs),
        IF IsLiteral(expr.rhs) THEN literal_clause_error(lhs_meta, expr.rhs)
        ELSE OrElse(check_column_error(all_cols, AsTabCol(expr.rhs)),
               IF get_col_meta(all_cols, AsTabCol(expr.rhs)).type # lhs_meta.type
               THEN "IncompatibleType" ELSE "ok"))

get_clause(all_cols, expr) ==
  LET lhs == AsTabCol(expr.lhs)
      lhs_meta == get_col_meta(all_cols, lhs)
  IN  IF IsLiteral(expr.rhs)
      THEN Condition(check_column(all_cols, lhs), expr.op, TRUE, NoCol,
                     coerce_value_to_col_type(
                       convert_sv_value(expr.rhs, AskedType(lhs_meta)), lhs_meta.type))
      ELSE Condition(check_column(all_cols, lhs), expr.op, FALSE,
                     check_column(all_cols, AsTabCol(expr.rhs)), NoValue)

Errors(Check(_), seq) == FirstError([i \in DOMAIN seq |-> Check(seq[i])])
Each(Convert(_), seq) == [i \in DOMAIN seq |-> Convert(seq[i])]

-----------------------------------------------------------------------------
(* Select items. *)

agg_type_error(agg, type) ==
  IF \/ agg = "SUM" /\ type \notin {"INT", "FLOAT"}
     \/ agg \in {"MAX", "MIN"} /\ type \notin {"INT", "FLOAT", "STRING"}
  THEN "IncompatibleType" ELSE "ok"

select_item_error(all_cols, item) ==
  LET expr == item.expr
      col == IF expr.node = "Col" THEN expr ELSE expr.col
  IN  IF expr.node = "AggExpr" /\ col = NULL THEN "ok"
      ELSE OrElse(check_column_error(all_cols, AsTabCol(col)),
             IF expr.node = "Col" THEN "ok"
             ELSE agg_type_error(expr.type, get_col_meta(all_cols, AsTabCol(col)).type))

default_agg_alias(type, star, col) == type \o "(" \o (IF star THEN "*" ELSE col.col_name) \o ")"

SelItem(all_cols, item) ==
  LET expr == item.expr
      star == expr.node = "AggExpr" /\ expr.col = NULL
      col == IF star THEN NoCol
             ELSE check_column(all_cols, AsTabCol(IF expr.node = "Col" THEN expr ELSE expr.col))
  IN  [kind |-> IF expr.node = "Col" THEN "SEL_COL" ELSE "SEL_AGG",
       agg |-> IF expr.node = "Col" THEN "" ELSE expr.type,
       is_star |-> star,
       col |-> col,
       alias |-> IF item.alias # "" THEN item.alias
                 ELSE IF expr.node = "Col" THEN col.col_name
                 ELSE default_agg_alias(expr.type, star, col)]

-----------------------------------------------------------------------------
(* Statements. *)

Query(parse, tables, cols, sel_items, conds, set_clauses, values) ==
  [parse |-> parse, tables |-> tables, cols |-> cols, sel_items |-> sel_items,
   conds |-> conds, set_clauses |-> set_clauses, values |-> values]

where_error(tabs, conds) ==
  LET all_cols == get_all_cols(tabs)
      Check(c) == check_clause_error(all_cols, c)
  IN  Errors(Check, conds)

where_conds(tabs, conds) ==
  LET all_cols == get_all_cols(tabs)
      Clause(c) == get_clause(all_cols, c)
  IN  Each(Clause, conds)

select_error(x) ==
  LET all_cols == get_all_cols(x.tabs)
      Item(i) == select_item_error(all_cols, i)
  IN  OrElse(Errors(LAMBDA t : IF is_table(t) THEN "ok" ELSE "TableNotFound", x.tabs),
      OrElse(Errors(Item, x.select_items), where_error(x.tabs, x.conds)))

(* SELECT * names every column of every table. *)
select_query(x) ==
  LET all_cols == get_all_cols(x.tabs)
      Item(i) == SelItem(all_cols, i)
      items == Each(Item, x.select_items)
      plain == SelectSeq(items, LAMBDA i : i.kind = "SEL_COL")
      cols == IF items = <<>>
              THEN Each(LAMBDA c : TabCol(c.tab_name, c.name), all_cols)
              ELSE Each(LAMBDA i : i.col, plain)
  IN  Query(x, x.tabs, cols, items, where_conds(x.tabs, x.conds), <<>>, <<>>)

(* An assignment is converted for the type of its column at once, so the   *)
(* coercion that follows changes nothing.                                  *)
set_error(tab, s) ==
  LET all_cols == get_all_cols(<<tab>>)
      target == TabCol(tab, s.col_name)
      col == get_col_meta(all_cols, target)
  IN  OrElse(check_column_error(all_cols, target),
      OrElse(convert_error(s.val, col.type),
             IF col.type = "DATETIME" THEN "ok" ELSE init_raw_error(s.val, col.len)))

set_clause(tab, s) ==
  LET col == get_col_meta(get_all_cols(<<tab>>), TabCol(tab, s.col_name))
  IN  [lhs |-> TabCol(tab, s.col_name),
       rhs |-> coerce_value_to_col_type(convert_sv_value(s.val, col.type), col.type)]

update_error(x) ==
  IF ~is_table(x.tab_name) THEN "TableNotFound"
  ELSE OrElse(Errors(LAMBDA s : set_error(x.tab_name, s), x.set_clauses),
              where_error(<<x.tab_name>>, x.conds))

delete_error(x) ==
  IF ~is_table(x.tab_name) THEN "TableNotFound" ELSE where_error(<<x.tab_name>>, x.conds)

(* Values are converted but not yet put into buffers of the columns'       *)
(* lengths: the executor does that.                                        *)
insert_error(x) ==
  IF ~is_table(x.tab_name) THEN "TableNotFound"
  ELSE LET cols == Db[x.tab_name].cols
       IN  IF Len(x.vals) # Len(cols) THEN "InvalidValueCount"
           ELSE FirstError([i \in DOMAIN cols |-> convert_error(x.vals[i], cols[i].type)])

do_analyze_error(x) ==
  CASE x.node = "SelectStmt" -> select_error(x)
    [] x.node = "UpdateStmt" -> update_error(x)
    [] x.node = "DeleteStmt" -> delete_error(x)
    [] x.node = "InsertStmt" -> insert_error(x)
    [] OTHER -> "ok"

do_analyze(x) ==
  CASE x.node = "SelectStmt" -> select_query(x)
    [] x.node = "UpdateStmt" ->
         Query(x, <<>>, <<>>, <<>>, where_conds(<<x.tab_name>>, x.conds),
               Each(LAMBDA s : set_clause(x.tab_name, s), x.set_clauses), <<>>)
    [] x.node = "DeleteStmt" ->
         Query(x, <<>>, <<>>, <<>>, where_conds(<<x.tab_name>>, x.conds), <<>>, <<>>)
    [] x.node = "InsertStmt" ->
         Query(x, <<>>, <<>>, <<>>, <<>>, <<>>,
               [i \in DOMAIN x.vals |->
                  convert_sv_value(x.vals[i], Db[x.tab_name].cols[i].type)])
    [] OTHER -> Query(x, <<>>, <<>>, <<>>, <<>>, <<>>, <<>>)
=============================================================================
