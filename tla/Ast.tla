-------------------------------- MODULE Ast --------------------------------
(***************************************************************************)
(* The nodes of the parse tree (parser/ast.h): one constructor per node,   *)
(* with the node's fields.  Names and literal texts are opaque strings,    *)
(* NULL is the null pointer.                                               *)
(***************************************************************************)
EXTENDS Integers, Sequences

NULL == [node |-> "NULL"]

Help == [node |-> "Help"]
ShowTables == [node |-> "ShowTables"]
ShowIndex(tab_name) == [node |-> "ShowIndex", tab_name |-> tab_name]
TxnBegin == [node |-> "TxnBegin"]
TxnCommit == [node |-> "TxnCommit"]
TxnAbort == [node |-> "TxnAbort"]
TxnRollback == [node |-> "TxnRollback"]

(* The length of a CHAR is what std::stoi made of its text. *)
TypeLen(type, len) == [node |-> "TypeLen", type |-> type, len |-> len]
ColDef(col_name, type_len) ==
  [node |-> "ColDef", col_name |-> col_name, type_len |-> type_len]
CreateTable(tab_name, fields) ==
  [node |-> "CreateTable", tab_name |-> tab_name, fields |-> fields]
DropTable(tab_name) == [node |-> "DropTable", tab_name |-> tab_name]
DescTable(tab_name) == [node |-> "DescTable", tab_name |-> tab_name]
CreateIndex(tab_name, col_names) ==
  [node |-> "CreateIndex", tab_name |-> tab_name, col_names |-> col_names]
DropIndex(tab_name, col_names) ==
  [node |-> "DropIndex", tab_name |-> tab_name, col_names |-> col_names]

IntLit(val) == [node |-> "IntLit", val |-> val]
FloatLit(val) == [node |-> "FloatLit", fval |-> val]
StringLit(val) == [node |-> "StringLit", val |-> val]

Col(tab_name, col_name) == [node |-> "Col", tab_name |-> tab_name, col_name |-> col_name]
AggExpr(type, col) == [node |-> "AggExpr", type |-> type, col |-> col]
SelectItem(expr, alias) == [node |-> "SelectItem", expr |-> expr, alias |-> alias]
SetClause(col_name, val) == [node |-> "SetClause", col_name |-> col_name, val |-> val]
BinaryExpr(lhs, op, rhs) == [node |-> "BinaryExpr", lhs |-> lhs, op |-> op, rhs |-> rhs]
OrderBy(cols, dir) == [node |-> "OrderBy", cols |-> cols, orderby_dir |-> dir]

InsertStmt(tab_name, vals) == [node |-> "InsertStmt", tab_name |-> tab_name, vals |-> vals]
DeleteStmt(tab_name, conds) ==
  [node |-> "DeleteStmt", tab_name |-> tab_name, conds |-> conds]
UpdateStmt(tab_name, set_clauses, conds) ==
  [node |-> "UpdateStmt", tab_name |-> tab_name, set_clauses |-> set_clauses,
   conds |-> conds]
SelectStmt(select_items, tabs, conds, orders, limit) ==
  [node |-> "SelectStmt", select_items |-> select_items, tabs |-> tabs, conds |-> conds,
   orders |-> orders, limit |-> limit]
=============================================================================
