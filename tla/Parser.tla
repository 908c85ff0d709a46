------------------------------- MODULE Parser -------------------------------
(***************************************************************************)
(* The generated parser (parser/yacc.tab.cpp): the LALR automaton with its *)
(* tables, the stack of states, the stack of semantic values, and the      *)
(* semantic action of every rule.                                          *)
(*                                                                         *)
(* A semantic value is a SemValue: a struct in which each rule sets one    *)
(* field and leaves the others as they were.  Here it is a function from   *)
(* the fields that were set.  The stack of values keeps what was popped:   *)
(* a reduction by an empty rule starts from the slot above the top, which  *)
(* holds whatever was there last.                                          *)
(*                                                                         *)
(* A token is its kind and the fields of yylval the lexer sets with it.    *)
(***************************************************************************)
EXTENDS Integers, Sequences, TLC, Ast, Literals

VARIABLES
  input,       \* the tokens the lexer has not returned yet
  yychar,      \* the lookahead token, or YYEMPTY
  yylval,      \* the lexer's semantic value
  yyss,        \* the stack of states
  yyvs,        \* the slots of the value stack, popped ones included
  yyresult,    \* idle, running, accepted (0), aborted (1), or terminated
  parse_tree

parseVars == <<input, yychar, yylval, yyss, yyvs, yyresult, parse_tree>>

-----------------------------------------------------------------------------
(* The symbols and the tables of the automaton. *)

YYEMPTY == [kind |-> "YYEMPTY", val |-> <<>>]
YYLAST == 158
YYNTOKENS == 59
YYPACT_NINF == -93

yytname ==
  <<"YYEOF", "error", "YYUNDEF", "SHOW", "TABLES", "CREATE", "TABLE", "DROP", "DESC",
    "INSERT", "INTO", "VALUES", "DELETE", "FROM", "ASC", "ORDER", "BY", "WHERE", "UPDATE",
    "SET", "SELECT", "INT", "BIGINT", "CHAR", "FLOAT", "DATETIME", "INDEX", "AND", "JOIN",
    "EXIT", "HELP", "TXN_BEGIN", "TXN_COMMIT", "TXN_ABORT", "TXN_ROLLBACK", "ORDER_BY",
    "COUNT", "SUM", "MAX", "MIN", "AS", "LIMIT", "LEQ", "NEQ", "GEQ", "T_EOF", "IDENTIFIER",
    "VALUE_STRING", "VALUE_INT", "VALUE_FLOAT", ";", "(", ")", ",", ".", "=", "<", ">", "*">>

yytranslate == [k \in Range(yytname) |-> (CHOOSE i \in DOMAIN yytname : yytname[i] = k) - 1]

yypact ==
  <<57, 12, 3, 6, -33, 8, 28, -33, -3, -93, -93, -93, -93, -93, -93, -93, 46, 2, -93, -93, -93,
    -93, -93, 41, -33, -33, -33, -33, -93, -93, -33, -33, 49, 19, 25, 27, 54, 53, -93, 79, 107,
    68, -93, 69, -93, -93, -93, -33, 71, 73, -93, 74, 115, 110, 82, -18, 83, 83, 83, 82, -93,
    -33, 60, 82, -93, 82, 82, 82, 80, 83, -93, -93, -9, -93, 75, 81, 84, 85, 86, 87, -93, -11,
    -93, -93, -93, 20, -93, 88, 30, -93, 32, 1, -93, 105, 37, 82, -93, 1, 79, 79, 79, 79, 79,
    -33, -33, 119, -93, 82, -93, -93, 89, -93, -93, -93, -93, 82, -93, -93, -93, -93, 48, -93,
    83, -93, -93, -93, -93, -93, -93, 10, -93, -93, -93, -93, -93, -93, -93, -93, -93, 125, 94,
    -93, 95, -93, -93, 1, -93, -93, -93, -93, 83, 96, -93, 90, -93, 31, 92, -93, -93, -93, -93,
    -93, -93, 83, -93>>

yydefact ==
  <<0, 0, 0, 0, 0, 0, 0, 0, 0, 4, 3, 10, 11, 12, 13, 5, 0, 0, 9, 6, 7, 8, 14, 0, 0, 0, 0, 0, 83,
    18, 0, 0, 0, 0, 0, 0, 0, 84, 58, 68, 0, 59, 60, 0, 46, 1, 2, 0, 0, 0, 17, 0, 0, 41, 0, 0, 0,
    0, 0, 0, 62, 0, 0, 0, 15, 0, 0, 0, 0, 0, 22, 84, 41, 55, 0, 0, 0, 0, 0, 0, 69, 41, 70, 61,
    45, 0, 25, 0, 0, 27, 0, 0, 43, 42, 0, 0, 23, 0, 68, 68, 68, 68, 68, 0, 0, 74, 16, 0, 30, 31,
    0, 33, 34, 29, 19, 0, 20, 39, 37, 38, 0, 35, 0, 51, 50, 52, 47, 48, 49, 0, 56, 57, 63, 64,
    65, 66, 67, 72, 71, 0, 78, 26, 0, 28, 21, 0, 44, 53, 54, 40, 0, 0, 24, 0, 36, 82, 73, 75, 79,
    32, 81, 80, 77, 0, 76>>

yypgoto ==
  <<-93, -93, -93, -93, -93, -93, -93, -93, 91, 39, -93, -93, -92, 26, -61, -93, -55, -93, -93,
    -93, 52, -93, -93, 93, 16, -93, -93, -93, -14, -93, -93, 0, -44>>

yydefgoto ==
  <<0, 16, 17, 18, 19, 20, 21, 85, 88, 86, 113, 120, 121, 92, 70, 93, 39, 129, 149, 72, 73, 40,
    41, 42, 60, 81, 140, 156, 157, 152, 162, 43, 44>>

yytable ==
  <<76, 77, 78, 79, 29, 131, 69, 32, 69, 24, 74, 96, 26, 28, 94, 80, 22, 103, 30, 84, 105, 87,
    89, 89, 48, 49, 50, 51, 37, 25, 52, 53, 27, 33, 34, 35, 36, 147, 23, 160, 75, 31, 104, 37,
    95, 161, 45, 64, 117, 118, 119, 74, 46, 154, 47, 38, 37, 117, 118, 119, 1, 82, 2, 87, 3, 4,
    5, 94, 54, 6, 55, 143, 106, 107, 148, 7, 56, 8, 57, 123, 124, 125, 114, 115, 116, 115, 9, 10,
    11, 12, 13, 14, 126, 127, 128, 155, 33, 34, 35, 36, 144, 145, 15, 137, 138, 58, 37, -83, 155,
    108, 109, 110, 111, 112, 132, 133, 134, 135, 136, 59, 61, 62, 65, 63, 66, 67, 68, 69, 71, 37,
    97, 91, 122, 98, 139, 151, 99, 100, 101, 102, 142, 150, 159, 153, 158, 163, 141, 130, 146,
    164, 0, 0, 0, 0, 0, 83, 0, 0, 90>>

yycheck ==
  <<55, 56, 57, 58, 4, 97, 17, 7, 17, 6, 54, 72, 6, 46, 69, 59, 4, 28, 10, 63, 81, 65, 66, 67,
    24, 25, 26, 27, 46, 26, 30, 31, 26, 36, 37, 38, 39, 129, 26, 8, 58, 13, 53, 46, 53, 14, 0,
    47, 47, 48, 49, 95, 50, 145, 13, 58, 46, 47, 48, 49, 3, 61, 5, 107, 7, 8, 9, 122, 19, 12, 51,
    115, 52, 53, 129, 18, 51, 20, 51, 42, 43, 44, 52, 53, 52, 53, 29, 30, 31, 32, 33, 34, 55, 56,
    57, 150, 36, 37, 38, 39, 52, 53, 45, 103, 104, 51, 46, 54, 163, 21, 22, 23, 24, 25, 98, 99,
    100, 101, 102, 40, 13, 53, 51, 54, 51, 51, 11, 17, 46, 46, 55, 51, 27, 52, 15, 41, 52, 52,
    52, 52, 51, 16, 52, 48, 48, 53, 107, 95, 122, 163, -1, -1, -1, -1, -1, 62, -1, -1, 67>>

yyr1 ==
  <<0, 59, 60, 60, 60, 60, 61, 61, 61, 61, 62, 62, 62, 62, 63, 63, 64, 64, 64, 64, 64, 65, 65,
    65, 65, 66, 66, 67, 67, 68, 69, 69, 69, 69, 69, 70, 70, 71, 71, 71, 72, 73, 73, 74, 74, 75,
    75, 76, 76, 76, 76, 76, 76, 77, 77, 78, 78, 79, 80, 80, 81, 81, 82, 82, 82, 82, 82, 82, 83,
    83, 84, 84, 84, 85, 85, 86, 86, 87, 88, 88, 89, 89, 89, 90, 91>>

yyr2 ==
  <<0, 2, 2, 1, 1, 1, 1, 1, 1, 1, 1, 1, 1, 1, 2, 4, 6, 3, 2, 6, 6, 7, 4, 5, 7, 1, 3, 1, 3, 2, 1,
    1, 4, 1, 1, 1, 3, 1, 1, 1, 3, 0, 2, 1, 3, 3, 1, 1, 1, 1, 1, 1, 1, 1, 1, 1, 3, 3, 1, 1, 1, 3,
    2, 5, 5, 5, 5, 5, 0, 2, 1, 3, 3, 3, 0, 1, 3, 2, 0, 2, 1, 1, 0, 1, 1>>

(* The arrays start at 0. *)
At(array, i) == array[i + 1]

-----------------------------------------------------------------------------
(* The semantic actions.  v[k] is $k; the result is the field of $$ that   *)
(* the action sets.                                                        *)

TxnStmtAction(n) ==
  [sv_node |-> CASE n = 10 -> TxnBegin
                 [] n = 11 -> TxnCommit
                 [] n = 12 -> TxnAbort
                 [] n = 13 -> TxnRollback]

DdlAction(n, v) ==
  [sv_node |-> CASE n = 14 -> ShowTables
                 [] n = 15 -> ShowIndex(v[4].sv_str)
                 [] n = 16 -> CreateTable(v[3].sv_str, v[5].sv_fields)
                 [] n = 17 -> DropTable(v[3].sv_str)
                 [] n = 18 -> DescTable(v[2].sv_str)
                 [] n = 19 -> CreateIndex(v[3].sv_str, v[5].sv_strs)
                 [] n = 20 -> DropIndex(v[3].sv_str, v[5].sv_strs)]

(* sv_conds of a slot in which no rule has set it is the empty vector. *)
Conds(slot) == IF "sv_conds" \in DOMAIN slot THEN slot.sv_conds ELSE <<>>

DmlAction(n, v) ==
  [sv_node |-> CASE n = 21 -> InsertStmt(v[3].sv_str, v[6].sv_vals)
                 [] n = 22 -> DeleteStmt(v[3].sv_str, Conds(v[4]))
                 [] n = 23 -> UpdateStmt(v[2].sv_str, v[4].sv_set_clauses, Conds(v[5]))
                 [] n = 24 -> SelectStmt(v[2].sv_select_items, v[4].sv_strs, Conds(v[5]),
                                         v[6].sv_orderby_list, v[7].sv_int)]

FieldListAction(n, v) ==
  CASE n = 25 -> [sv_fields |-> <<v[1].sv_field>>]
    [] n = 26 -> [sv_fields |-> Append(v[1].sv_fields, v[3].sv_field)]
    [] n = 27 -> [sv_strs |-> <<v[1].sv_str>>]
    [] n = 28 -> [sv_strs |-> Append(v[1].sv_strs, v[3].sv_str)]
    [] n = 29 -> [sv_field |-> ColDef(v[1].sv_str, v[2].sv_type_len)]

TypeAction(n, v) ==
  [sv_type_len |-> CASE n = 30 -> TypeLen("INT", 4)
                     [] n = 31 -> TypeLen("BIGINT", 8)
                     [] n = 32 -> TypeLen("STRING", stoi(v[3].sv_str))
                     [] n = 33 -> TypeLen("FLOAT", 4)
                     [] n = 34 -> TypeLen("DATETIME", 8)]

ValueAction(n, v) ==
  CASE n = 35 -> [sv_vals |-> <<v[1].sv_val>>]
    [] n = 36 -> [sv_vals |-> Append(v[1].sv_vals, v[3].sv_val)]
    [] n = 37 -> [sv_val |-> IntLit(v[1].sv_str)]
    [] n = 38 -> [sv_val |-> FloatLit(v[1].sv_float)]
    [] n = 39 -> [sv_val |-> StringLit(v[1].sv_str)]

(* Rule 41, the missing WHERE, sets nothing. *)
ConditionAction(n, v) ==
  CASE n = 40 -> [sv_cond |-> BinaryExpr(v[1].sv_col, v[2].sv_comp_op, v[3].sv_expr)]
    [] n = 41 -> <<>>
    [] n = 42 -> [sv_conds |-> v[2].sv_conds]
    [] n = 43 -> [sv_conds |-> <<v[1].sv_cond>>]
    [] n = 44 -> [sv_conds |-> Append(v[1].sv_conds, v[3].sv_cond)]

ColAction(n, v) ==
  [sv_col |-> CASE n = 45 -> Col(v[1].sv_str, v[3].sv_str)
                [] n = 46 -> Col("", v[1].sv_str)]

OpAction(n) == [sv_comp_op |-> <<"EQ", "LT", "GT", "NE", "LE", "GE">>[n - 46]]

ExprAction(n, v) ==
  [sv_expr |-> CASE n = 53 -> v[1].sv_val
                 [] n = 54 -> v[1].sv_col]

SetAction(n, v) ==
  CASE n = 55 -> [sv_set_clauses |-> <<v[1].sv_set_clause>>]
    [] n = 56 -> [sv_set_clauses |-> Append(v[1].sv_set_clauses, v[3].sv_set_clause)]
    [] n = 57 -> [sv_set_clause |-> SetClause(v[1].sv_str, v[3].sv_val)]

SelectorAction_Prepend(n, v) ==
  CASE n = 58 -> [sv_select_items |-> <<>>]
    [] n = 60 -> [sv_select_items |-> <<v[1].sv_select_item>>]
    [] n = 61 -> [sv_select_items |-> <<v[3].sv_select_item>> \o v[1].sv_select_items]

SelectorAction(n, v) ==
  CASE n = 58 -> [sv_select_items |-> <<>>]
    [] n = 60 -> [sv_select_items |-> <<v[1].sv_select_item>>]
    [] n = 61 -> [sv_select_items |-> Append(v[1].sv_select_items, v[3].sv_select_item)]

SelectorItemAction(n, v) ==
  [sv_select_item |->
     CASE n = 62 -> SelectItem(v[1].sv_col, v[2].sv_str)
       [] n = 63 -> SelectItem(AggExpr("COUNT", NULL), v[5].sv_str)
       [] n = 64 -> SelectItem(AggExpr("COUNT", v[3].sv_col), v[5].sv_str)
       [] n = 65 -> SelectItem(AggExpr("SUM", v[3].sv_col), v[5].sv_str)
       [] n = 66 -> SelectItem(AggExpr("MAX", v[3].sv_col), v[5].sv_str)
       [] n = 67 -> SelectItem(AggExpr("MIN", v[3].sv_col), v[5].sv_str)]

AliasAction(n, v) ==
  [sv_str |-> CASE n = 68 -> ""
                [] n = 69 -> v[2].sv_str]

TableListAction(n, v) ==
  [sv_strs |-> CASE n = 70 -> <<v[1].sv_str>>
                 [] n \in {71, 72} -> Append(v[1].sv_strs, v[3].sv_str)]

OrderAction(n, v) ==
  CASE n = 73 -> [sv_orderby_list |-> v[3].sv_orderby_list]
    [] n = 74 -> [sv_orderby_list |-> <<>>]
    [] n = 75 -> [sv_orderby_list |-> <<v[1].sv_orderby>>]
    [] n = 76 -> [sv_orderby_list |-> Append(v[1].sv_orderby_list, v[3].sv_orderby)]
    [] n = 77 -> [sv_orderby |-> OrderBy(v[1].sv_col, v[2].sv_orderby_dir)]

LimitAction(n, v) ==
  [sv_int |-> CASE n = 78 -> -1
                [] n = 79 -> stoi(v[2].sv_str)]

DirAction(n) == [sv_orderby_dir |-> <<"ASC", "DESC", "DEFAULT">>[n - 79]]

(* Rules 6 to 9, 59, 83 and 84 keep $$ = $1. *)
SemanticAction(n, v) ==
  CASE n \in 10 .. 13 -> TxnStmtAction(n)
    [] n \in 14 .. 20 -> DdlAction(n, v)
    [] n \in 21 .. 24 -> DmlAction(n, v)
    [] n \in 25 .. 29 -> FieldListAction(n, v)
    [] n \in 30 .. 34 -> TypeAction(n, v)
    [] n \in 35 .. 39 -> ValueAction(n, v)
    [] n \in 40 .. 44 -> ConditionAction(n, v)
    [] n \in 45 .. 46 -> ColAction(n, v)
    [] n \in 47 .. 52 -> OpAction(n)
    [] n \in 53 .. 54 -> ExprAction(n, v)
    [] n \in 55 .. 57 -> SetAction(n, v)
    [] n \in {58, 60, 61} -> SelectorAction(n, v)
    [] n \in 62 .. 67 -> SelectorItemAction(n, v)
    [] n \in 68 .. 69 -> AliasAction(n, v)
    [] n \in 70 .. 72 -> TableListAction(n, v)
    [] n \in 73 .. 77 -> OrderAction(n, v)
    [] n \in 78 .. 79 -> LimitAction(n, v)
    [] n \in 80 .. 82 -> DirAction(n)
    [] OTHER -> <<>>

-----------------------------------------------------------------------------
(* The driver. *)

ParseInit ==
  /\ input = <<>> /\ yychar = YYEMPTY /\ yylval = <<>>
  /\ yyss = <<0>> /\ yyvs = <<<<>>>>
  /\ yyresult = "idle" /\ parse_tree = NULL

(* yyparse is called on a new buffer.  parse_tree keeps the last tree. *)
yyparse(tokens) ==
  /\ yyresult = "idle"
  /\ input' = tokens /\ yychar' = YYEMPTY /\ yylval' = <<>>
  /\ yyss' = <<0>> /\ yyvs' = <<<<>>>>
  /\ yyresult' = "running"
  /\ UNCHANGED parse_tree

yystate == Last(yyss)

(* The lexer returns T_EOF at the end, again and again. *)
yylex == IF input = <<>> THEN [kind |-> "T_EOF", val |-> <<>>] ELSE Head(input)

NeedsToken == At(yypact, yystate) # YYPACT_NINF

(* The lookahead once yybackup has read it, if it needs one. *)
Lookahead == IF NeedsToken /\ yychar = YYEMPTY THEN yylex ELSE yychar

ReadToken ==
  IF NeedsToken /\ yychar = YYEMPTY
  THEN /\ input' = IF input = <<>> THEN <<>> ELSE Tail(input)
       /\ yylval' = yylex.val @@ yylval
  ELSE UNCHANGED <<input, yylval>>

(* What yybackup and yydefault decide: a state to shift to, the negated    *)
(* number of a rule to reduce by, or 0 for an error.                       *)
Decision ==
  LET yytoken == yytranslate[Lookahead.kind]
      yyn == At(yypact, yystate) + yytoken
  IN  IF NeedsToken /\ yyn \in 0 .. YYLAST /\ At(yycheck, yyn) = yytoken
      THEN At(yytable, yyn)
      ELSE -At(yydefact, yystate)

(* Push a state and the value of its slot. *)
Push(states, state, slot) ==
  /\ yyss' = Append(states, state)
  /\ yyvs' = IF Len(states) < Len(yyvs) THEN [yyvs EXCEPT ![Len(states) + 1] = slot]
             ELSE Append(yyvs, slot)

Shift ==
  /\ yyresult = "running" /\ Decision > 0
  /\ ReadToken
  /\ Push(yyss, Decision, yylval')
  /\ yychar' = YYEMPTY
  /\ UNCHANGED <<yyresult, parse_tree>>

Rule == -Decision
yylen == At(yyr2, Rule)
Popped == SubSeq(yyss, 1, Len(yyss) - yylen)

(* yyvsp[1 - yylen]: $1, or for an empty rule the slot above the top. *)
DefaultValue ==
  LET slot == Len(Popped) + 1
  IN  IF slot <= Len(yyvs) THEN yyvs[slot] ELSE <<>>

RuleValues == [k \in 1 .. yylen |-> yyvs[Len(Popped) + k]]

Goto(state) ==
  LET yylhs == At(yyr1, Rule) - YYNTOKENS
      yyi == At(yypgoto, yylhs) + state
  IN  IF yyi \in 0 .. YYLAST /\ At(yycheck, yyi) = state THEN At(yytable, yyi)
      ELSE At(yydefgoto, yylhs)

(* std::stoi of a CHAR length or of a LIMIT. *)
RuleThrows ==
  \/ Rule = 32 /\ stoi_throws(RuleValues[3].sv_str, INT_MAX)
  \/ Rule = 79 /\ stoi_throws(RuleValues[2].sv_str, INT_MAX)

Reduce ==
  /\ yyresult = "running" /\ Decision < 0 /\ Rule > 5 /\ ~RuleThrows
  /\ ReadToken
  /\ yychar' = Lookahead
  /\ Push(Popped, Goto(Last(Popped)), SemanticAction(Rule, RuleValues) @@ DefaultValue)
  /\ UNCHANGED <<yyresult, parse_tree>>

(* The rules of start end in YYACCEPT. *)
Accept ==
  /\ yyresult = "running" /\ Decision < 0 /\ Rule \in 2 .. 5
  /\ parse_tree' = CASE Rule = 2 -> RuleValues[1].sv_node
                     [] Rule = 3 -> Help
                     [] Rule \in {4, 5} -> NULL
  /\ yyresult' = "accepted"
  /\ ReadToken
  /\ yychar' = Lookahead
  /\ UNCHANGED <<yyss, yyvs>>

(* No state shifts the error token, so the stack is emptied and YYABORT.   *)
ShiftsError(state) ==
  LET yyn == At(yypact, state) + 1
  IN  /\ At(yypact, state) # YYPACT_NINF /\ yyn \in 0 .. YYLAST
      /\ At(yycheck, yyn) = 1 /\ At(yytable, yyn) > 0

SyntaxError ==
  /\ yyresult = "running" /\ Decision = 0
  /\ ~\E k \in DOMAIN yyss : ShiftsError(yyss[k])
  /\ yyss' = <<0>>
  /\ yyresult' = "aborted"
  /\ ReadToken
  /\ yychar' = Lookahead
  /\ UNCHANGED <<yyvs, parse_tree>>

(* std::out_of_range leaves yyparse; no handler catches it. *)
StoiThrows ==
  /\ yyresult = "running" /\ Decision < 0 /\ RuleThrows
  /\ yyresult' = "terminated"
  /\ UNCHANGED <<input, yychar, yylval, yyss, yyvs, parse_tree>>

ParseStep == Shift \/ Reduce \/ Accept \/ SyntaxError \/ StoiThrows

(* client_handler deletes the buffer. *)
yy_delete_buffer ==
  /\ yyresult' = "idle"
  /\ input' = <<>> /\ yychar' = YYEMPTY /\ yylval' = <<>>
  /\ yyss' = <<0>> /\ yyvs' = <<<<>>>>
=============================================================================
