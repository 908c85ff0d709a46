------------------------------ MODULE Grammar ------------------------------
(***************************************************************************)
(* What a statement looks like: a reference for the parser, written from   *)
(* the parse tree to the text.  Spellings(x) is the set of the token       *)
(* sequences that mean x, up to SpelledAs.                                 *)
(***************************************************************************)
EXTENDS Integers, Sequences, Ast, Literals

Tok(kind) == [kind |-> kind, val |-> <<>>]
Id(name) == [kind |-> "IDENTIFIER", val |-> [sv_str |-> name]]
IntTok(text) == [kind |-> "VALUE_INT", val |-> [sv_str |-> text]]
FloatTok(halves) == [kind |-> "VALUE_FLOAT", val |-> [sv_float |-> halves]]
StringTok(text) == [kind |-> "VALUE_STRING", val |-> [sv_str |-> text]]
NumTok(n) == [kind |-> "VALUE_INT", val |-> [num |-> n]]

(* A token as it may be written: a comma between tables may be a JOIN, and *)
(* a number that only matters as a number any text of it.                  *)
TableSeparator == ", or JOIN"

MayStandFor(token, spelled) ==
  \/ token = spelled
  \/ spelled.kind = TableSeparator /\ token.kind \in {",", "JOIN"}
  \/ /\ spelled.kind = "VALUE_INT" /\ "num" \in DOMAIN spelled.val
     /\ token.kind = "VALUE_INT" /\ Number(token.val.sv_str) = spelled.val.num

SpelledAs(tokens, spelling) ==
  Len(tokens) = Len(spelling) /\ \A i \in DOMAIN tokens : MayStandFor(tokens[i], spelling[i])

-----------------------------------------------------------------------------

Keywords(kinds) == [i \in DOMAIN kinds |-> Tok(kinds[i])]

SeparatedBy(sep, parts) ==
  FlattenSeq([i \in DOMAIN parts |-> IF i = 1 THEN parts[i] ELSE <<Tok(sep)>> \o parts[i]])

Parens(tokens) == <<Tok("(")>> \o tokens \o <<Tok(")")>>

SpellMap(Spell(_), seq) == [i \in DOMAIN seq |-> Spell(seq[i])]

SpellNames(sep, names) == SeparatedBy(sep, [i \in DOMAIN names |-> <<Id(names[i])>>])

SpellCol(c) ==
  IF c.tab_name = "" THEN <<Id(c.col_name)>> ELSE <<Id(c.tab_name), Tok("."), Id(c.col_name)>>

SpellLiteral(v) ==
  CASE v.node = "IntLit" -> <<IntTok(v.val)>>
    [] v.node = "FloatLit" -> <<FloatTok(v.fval)>>
    [] v.node = "StringLit" -> <<StringTok(v.val)>>

SpellField(f) ==
  LET t == f.type_len
  IN  <<Id(f.col_name)>> \o
      (IF t.type = "STRING" THEN <<Tok("CHAR")>> \o Parens(<<NumTok(t.len)>>) ELSE <<Tok(t.type)>>)

OpToken == [EQ |-> "=", NE |-> "NEQ", LT |-> "<", GT |-> ">", LE |-> "LEQ", GE |-> "GEQ"]

SpellCond(c) ==
  SpellCol(c.lhs) \o <<Tok(OpToken[c.op])>> \o
  (IF c.rhs.node = "Col" THEN SpellCol(c.rhs) ELSE SpellLiteral(c.rhs))

SpellWhere(conds) ==
  IF conds = <<>> THEN <<>>
  ELSE <<Tok("WHERE")>> \o SeparatedBy("AND", SpellMap(SpellCond, conds))

SpellSet(s) == <<Id(s.col_name), Tok("=")>> \o SpellLiteral(s.val)

SpellItem(i) ==
  (CASE i.expr.node = "Col" -> SpellCol(i.expr)
     [] i.expr.node # "Col" ->
          <<Tok(i.expr.type)>> \o
          Parens(IF i.expr.col = NULL THEN <<Tok("*")>> ELSE SpellCol(i.expr.col)))
  \o (IF i.alias = "" THEN <<>> ELSE <<Tok("AS"), Id(i.alias)>>)

SpellOrder(o) ==
  SpellCol(o.cols) \o (IF o.orderby_dir = "DEFAULT" THEN <<>> ELSE <<Tok(o.orderby_dir)>>)

SpellOrders(orders) ==
  IF orders = <<>> THEN <<>>
  ELSE Keywords(<<"ORDER", "BY">>) \o SeparatedBy(",", SpellMap(SpellOrder, orders))

(* No limit is -1, and so is a written -1. *)
LimitSpellings(limit) ==
  {<<Tok("LIMIT"), NumTok(limit)>>} \cup (IF limit = -1 THEN {<<>>} ELSE {})

SpellSelect(x) ==
  <<Tok("SELECT")>>
  \o (IF x.select_items = <<>> THEN <<Tok("*")>>
      ELSE SeparatedBy(",", SpellMap(SpellItem, x.select_items)))
  \o <<Tok("FROM")>> \o SpellNames(TableSeparator, x.tabs) \o SpellWhere(x.conds) \o SpellOrders(x.orders)

(* A statement without its semicolon. *)
Spell(x) ==
  CASE x.node = "ShowTables" -> Keywords(<<"SHOW", "TABLES">>)
    [] x.node = "ShowIndex" -> Keywords(<<"SHOW", "INDEX", "FROM">>) \o <<Id(x.tab_name)>>
    [] x.node = "TxnBegin" -> <<Tok("TXN_BEGIN")>>
    [] x.node = "TxnCommit" -> <<Tok("TXN_COMMIT")>>
    [] x.node = "TxnAbort" -> <<Tok("TXN_ABORT")>>
    [] x.node = "TxnRollback" -> <<Tok("TXN_ROLLBACK")>>
    [] x.node = "CreateTable" ->
         Keywords(<<"CREATE", "TABLE">>) \o <<Id(x.tab_name)>>
           \o Parens(SeparatedBy(",", SpellMap(SpellField, x.fields)))
    [] x.node = "DropTable" -> Keywords(<<"DROP", "TABLE">>) \o <<Id(x.tab_name)>>
    [] x.node = "DescTable" -> <<Tok("DESC"), Id(x.tab_name)>>
    [] x.node = "CreateIndex" ->
         Keywords(<<"CREATE", "INDEX">>) \o <<Id(x.tab_name)>> \o Parens(SpellNames(",", x.col_names))
    [] x.node = "DropIndex" ->
         Keywords(<<"DROP", "INDEX">>) \o <<Id(x.tab_name)>> \o Parens(SpellNames(",", x.col_names))
    [] x.node = "InsertStmt" ->
         Keywords(<<"INSERT", "INTO">>) \o <<Id(x.tab_name), Tok("VALUES")>>
           \o Parens(SeparatedBy(",", SpellMap(SpellLiteral, x.vals)))
    [] x.node = "DeleteStmt" ->
         Keywords(<<"DELETE", "FROM">>) \o <<Id(x.tab_name)>> \o SpellWhere(x.conds)
    [] x.node = "UpdateStmt" ->
         <<Tok("UPDATE"), Id(x.tab_name), Tok("SET")>>
           \o SeparatedBy(",", SpellMap(SpellSet, x.set_clauses)) \o SpellWhere(x.conds)
    [] x.node = "SelectStmt" -> SpellSelect(x)

(* HELP and EXIT take no semicolon; EXIT and the end of the input leave no *)
(* tree.                                                                   *)
Spellings(x) ==
  CASE x.node = "Help" -> {<<Tok("HELP")>>}
    [] x.node = "NULL" -> {<<Tok("EXIT")>>, <<Tok("T_EOF")>>, <<>>}
    [] x.node = "SelectStmt" ->
         {Spell(x) \o limit \o <<Tok(";")>> : limit \in LimitSpellings(x.limit)}
    [] OTHER -> {Spell(x) \o <<Tok(";")>>}
=============================================================================
