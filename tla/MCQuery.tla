------------------------------ MODULE MCQuery ------------------------------
(***************************************************************************)
(* Three tables: r with two indexes, t with equal rows and none, u with    *)
(* wide types.  The statements are combinations of small clauses, a slip   *)
(* of the pen in each of some of them, and texts.                          *)
(***************************************************************************)
EXTENDS QueryPipeline

-----------------------------------------------------------------------------
(* Literals. *)

MCIntText ==
  [t \in {"0", "1", "2", "5", "20", "007", "+2", "-1", "127", "128", "-128", "-129", "300", "1001"} |->
     CASE t = "0" -> [sign |-> "", digits |-> <<0>>]
       [] t = "1" -> [sign |-> "", digits |-> <<1>>]
       [] t = "2" -> [sign |-> "", digits |-> <<2>>]
       [] t = "5" -> [sign |-> "", digits |-> <<5>>]
       [] t = "20" -> [sign |-> "", digits |-> <<2, 0>>]
       [] t = "007" -> [sign |-> "", digits |-> <<0, 0, 7>>]
       [] t = "+2" -> [sign |-> "+", digits |-> <<2>>]
       [] t = "-1" -> [sign |-> "-", digits |-> <<1>>]
       [] t = "127" -> [sign |-> "", digits |-> <<1, 2, 7>>]
       [] t = "128" -> [sign |-> "", digits |-> <<1, 2, 8>>]
       [] t = "-128" -> [sign |-> "-", digits |-> <<1, 2, 8>>]
       [] t = "-129" -> [sign |-> "-", digits |-> <<1, 2, 9>>]
       [] t = "300" -> [sign |-> "", digits |-> <<3, 0, 0>>]
       [] t = "1001" -> [sign |-> "", digits |-> <<1, 0, 0, 1>>]]

MCFloatText == [t \in {"1.5", "-1.5", "2."} |-> CASE t = "1.5" -> 3 [] t = "-1.5" -> -3 [] t = "2." -> 4]

NoFields == [year |-> 0, month |-> 0, day |-> 0, hour |-> 0, minute |-> 0, second |-> 0]
Fields(y, mo, d, h, mi, s) ==
  [year |-> y, month |-> mo, day |-> d, hour |-> h, minute |-> mi, second |-> s]
Plain(len, ord) == [len |-> len, ord |-> ord, shaped |-> FALSE, fields |-> NoFields]
Dated(ord, fields) == [len |-> 19, ord |-> ord, shaped |-> TRUE, fields |-> fields]

Leap == "2000-02-29 23:59:59"
March == "2000-03-01 00:00:00"
NoLeap == "1900-02-29 00:00:00"
Late == "2023-01-01 24:00:00"
Slashed == "2000/02/29 23:59:59"

MCStringText ==
  [s \in {"", "aa", "ab", "abc", Leap, March, NoLeap, Late, Slashed} |->
     CASE s = "" -> Plain(0, 0)
       [] s = NoLeap -> Dated(1, Fields(1900, 2, 29, 0, 0, 0))
       [] s = Leap -> Dated(2, Fields(2000, 2, 29, 23, 59, 59))
       [] s = March -> Dated(3, Fields(2000, 3, 1, 0, 0, 0))
       [] s = Slashed -> Plain(19, 4)
       [] s = Late -> Dated(5, Fields(2023, 1, 1, 24, 0, 0))
       [] s = "aa" -> Plain(2, 6)
       [] s = "ab" -> Plain(2, 7)
       [] s = "abc" -> Plain(3, 8)]

-----------------------------------------------------------------------------
(* The catalog and the contents. *)

ColumnOf(tab, name, type, len) == [tab_name |-> tab, name |-> name, type |-> type, len |-> len]

MCDb ==
  [r |-> [cols |-> <<ColumnOf("r", "a", "INT", 4), ColumnOf("r", "b", "INT", 4),
                     ColumnOf("r", "s", "STRING", 2)>>,
          indexes |-> <<<<"a", "b">>, <<"b">>>>],
   t |-> [cols |-> <<ColumnOf("t", "a", "INT", 4), ColumnOf("t", "f", "FLOAT", 4)>>,
          indexes |-> <<>>],
   u |-> [cols |-> <<ColumnOf("u", "k", "BIGINT", 8), ColumnOf("u", "d", "DATETIME", 8)>>,
          indexes |-> <<>>]]

MCColumn == {TabCol("r", "a"), TabCol("r", "b"), TabCol("r", "s"), TabCol("t", "a"),
             TabCol("t", "f"), TabCol("u", "k"), TabCol("u", "d"), NoCol}

C(n) == [ord |-> n, bits |-> n]
MCCell == {C(n) : n \in -3 .. 300}

RowOf(c1, v1, c2, v2) == (c1 :> C(v1)) @@ (c2 :> C(v2))
R(a, b, s) == RowOf(TabCol("r", "a"), a, TabCol("r", "b"), b) @@ (TabCol("r", "s") :> C(s))
T(a, f) == RowOf(TabCol("t", "a"), a, TabCol("t", "f"), f)
U(k, d) == RowOf(TabCol("u", "k"), k, TabCol("u", "d"), d)

Full == [r |-> <<R(2, 5, 7), R(1, 100, 6), R(1, 20, 7)>>,
         t |-> <<T(2, 4), T(1, 3), T(2, 4)>>,
         u |-> <<U(300, 2), U(1, 3)>>]
Sparse == [r |-> <<R(-1, 0, 0)>>, t |-> <<>>, u |-> <<>>]

MCContents == {Full, Sparse}
MCRow == UNION {Range(c[tab]) : c \in MCContents, tab \in {"r", "t", "u"}}

-----------------------------------------------------------------------------
(* Statements. *)

c_(name) == Col("", name)
a_ == c_("a")
b_ == c_("b")
s_ == c_("s")
f_ == c_("f")
k_ == c_("k")
d_ == c_("d")
ra == Col("r", "a")
ta == Col("t", "a")
rb == Col("r", "b")
Num(digits) == IntLit(digits)
Str(chars) == StringLit(chars)
Cond(lhs, op, rhs) == BinaryExpr(lhs, op, rhs)
Plain1(e) == SelectItem(e, "")
Agg(type, e) == SelectItem(AggExpr(type, e), "")
Order(e, dir) == OrderBy(e, dir)
Sel(items, tabs, conds, orders, limit) == SelectStmt(items, tabs, conds, orders, limit)
Upto2(S) == {<<>>} \cup {<<x>> : x \in S} \cup {<<x, y>> : x, y \in S}

OnR == {Cond(a_, "EQ", Num("1")), Cond(a_, "GT", Num("1")), Cond(ra, "LE", Num("2")),
        Cond(b_, "LT", Num("20")), Cond(b_, "GE", Num("5")), Cond(b_, "EQ", Num("20")), Cond(s_, "NE", Str("aa")),
        Cond(a_, "LT", b_), Cond(a_, "GE", Num("128")), Cond(s_, "EQ", Num("1"))}
OnT == {Cond(a_, "GE", Num("-128")), Cond(f_, "EQ", Num("2")), Cond(f_, "LT", FloatLit(4)),
        Cond(a_, "EQ", Num("-129")), Cond(a_, "EQ", f_)}
OnU == {Cond(k_, "EQ", Num("300")), Cond(k_, "LT", Num("1001")), Cond(d_, "GT", Str(Leap)),
        Cond(d_, "LE", Str(March)), Cond(d_, "EQ", Str(NoLeap)), Cond(d_, "EQ", Str(Late)),
        Cond(d_, "EQ", Str(Slashed))}
OnRT == {Cond(ra, "EQ", ta), Cond(ta, "LT", rb), Cond(ta, "GE", Num("2")), Cond(ra, "NE", ta),
         Cond(s_, "NE", Str("aa")), Cond(rb, "LT", Num("20")), Cond(a_, "EQ", Num("1")),
         Cond(ta, "EQ", ta)}

Single ==
  {Sel(<<>>, <<"r">>, conds, <<>>, -1) : conds \in Upto2(OnR)}
  \cup {Sel(<<>>, <<"t">>, conds, <<>>, -1) : conds \in Upto2(OnT)}
  \cup {Sel(<<>>, <<"u">>, conds, <<>>, -1) : conds \in Upto2(OnU)}
  \cup {Sel(<<>>, <<"r">>, <<Cond(b_, "LT", Num("20")), Cond(b_, "GT", Num("20"))>>, <<>>, -1)}

Joins == {Sel(<<>>, tabs, conds, <<>>, -1) : tabs \in {<<"r", "t">>, <<"t", "r">>}, conds \in Upto2(OnRT)}

ThreeTables ==
  {Sel(<<>>, tabs, conds, <<>>, -1) :
     tabs \in {<<"r", "t", "u">>, <<"u", "t", "r">>},
     conds \in {<<>>, <<Cond(ra, "EQ", ta)>>, <<Cond(ra, "LT", ta), Cond(k_, "EQ", Num("1"))>>,
                <<Cond(ta, "LE", rb), Cond(ra, "EQ", ta)>>}}

Orders ==
  {<<>>, <<Order(a_, "DEFAULT")>>, <<Order(b_, "DESC")>>, <<Order(a_, "ASC"), Order(b_, "DESC")>>,
   <<Order(s_, "DESC"), Order(a_, "DESC")>>, <<Order(f_, "ASC")>>}

Sorted ==
  {Sel(items, <<"r">>, <<>>, orders, limit) :
     items \in {<<>>, <<Plain1(s_), Plain1(ra)>>, <<Agg("COUNT", NULL)>>},
     orders \in Orders, limit \in {-1, 0, 1, 2}}
  \cup {Sel(<<Plain1(ta)>>, <<"t">>, <<>>, <<Order(f_, "DESC")>>, limit) : limit \in {-1, 2}}

Aggregates ==
  {Sel(items, tabs, conds, <<>>, -1) :
     items \in {<<Agg("COUNT", NULL), SelectItem(AggExpr("SUM", b_), "total")>>,
                <<Agg("MAX", s_), Agg("MIN", b_), Agg("COUNT", s_)>>,
                <<Agg("SUM", s_)>>, <<Plain1(b_), Agg("MIN", b_)>>, <<Agg("MAX", c_("x"))>>},
     tabs \in {<<"r">>, <<"t", "r">>},
     conds \in {<<>>, <<Cond(b_, "GT", Num("127"))>>}}
  \cup {Sel(<<Agg(type, e)>>, <<"u">>, <<>>, <<>>, -1) : type \in {"MAX", "SUM", "COUNT"}, e \in {k_, d_}}

Changes ==
  {UpdateStmt("r", set, conds) :
     set \in {<<SetClause("b", Num("5"))>>, <<SetClause("s", Str("abc"))>>,
              <<SetClause("a", Num("128")), SetClause("b", Num("1"))>>,
              <<SetClause("s", Str("")), SetClause("a", Num("007"))>>},
     conds \in {<<>>, <<Cond(a_, "EQ", Num("1"))>>}}
  \cup {UpdateStmt("t", <<SetClause("f", v)>>, <<>>) : v \in {Num("2"), FloatLit(3)}}
  \cup {DeleteStmt(tab, conds) : tab \in {"r", "x"},
          conds \in {<<>>, <<Cond(b_, "GE", Num("20"))>>,
                     <<Cond(a_, "EQ", Num("1")), Cond(b_, "LT", Num("127"))>>}}
  \cup {InsertStmt("r", <<Num(n), Num("20"), Str(s)>>) : n \in {"1", "5", "300"}, s \in {"ab", "abc"}}
  \cup {InsertStmt("u", <<Num(n), Str(d)>>) : n \in {"300", "1001"}, d \in {Leap, Slashed, Late}}
  \cup {InsertStmt("t", <<Num("1"), v>>) : v \in {Num("1"), FloatLit(3), Str("aa")}}
  \cup {InsertStmt("t", <<Num("1")>>), InsertStmt("x", <<Num("1")>>)}

Utilities ==
  {ShowTables, ShowIndex("r"), ShowIndex("x"), TxnBegin, TxnCommit, TxnAbort, TxnRollback, Help,
   DescTable("r"), DescTable("x"), DropTable("t"), CreateIndex("t", <<"a", "f">>),
   DropIndex("r", <<"b">>),
   CreateTable("x", <<ColDef("a", TypeLen("INT", 4)), ColDef("s", TypeLen("STRING", 20)),
                      ColDef("f", TypeLen("FLOAT", 4)), ColDef("k", TypeLen("BIGINT", 8)),
                      ColDef("d", TypeLen("DATETIME", 8))>>)}

MCStatement == Single \cup Joins \cup ThreeTables \cup Sorted \cup Aggregates \cup Changes \cup Utilities

-----------------------------------------------------------------------------
(* Inputs. *)

TextFor(n) == CHOOSE t \in DOMAIN MCIntText : Number(t) = n

(* The spelling of a statement with every choice made. *)
Written(spelling) ==
  [i \in DOMAIN spelling |->
     IF spelling[i].kind = TableSeparator THEN Tok(IF i % 2 = 0 THEN "," ELSE "JOIN")
     ELSE IF spelling[i].kind = "VALUE_INT" /\ "num" \in DOMAIN spelling[i].val
     THEN IntTok(TextFor(spelling[i].val.num)) ELSE spelling[i]]

(* Statements in which the slips are made. *)
Samples ==
  {Sel(<<Plain1(ra), SelectItem(AggExpr("COUNT", NULL), "n")>>, <<"r", "t">>,
       <<Cond(ra, "EQ", ta), Cond(b_, "LT", Num("5"))>>, <<Order(a_, "DESC"), Order(b_, "DEFAULT")>>, 1),
   UpdateStmt("r", <<SetClause("b", Num("5")), SetClause("s", Str("ab"))>>, <<Cond(a_, "EQ", Num("1"))>>),
   InsertStmt("r", <<Num("1"), Num("20"), Str("ab")>>),
   CreateTable("x", <<ColDef("a", TypeLen("INT", 4)), ColDef("s", TypeLen("STRING", 2))>>),
   DropIndex("r", <<"a", "b">>), ShowIndex("r"), Help}

SampleTokens == {Written(s) : s \in UNION {Spellings(x) : x \in Samples}}

Dropped(tokens) == {RemoveAt(tokens, i) : i \in DOMAIN tokens}
Replaced(tokens) ==
  {[tokens EXCEPT ![i] = t] : i \in DOMAIN tokens,
     t \in {Tok(";"), Tok(","), Tok("AND"), Tok("*"), Id("a"), IntTok("300"), Tok("EXIT")}}
Doubled(tokens) == {InsertAt(tokens, i, tokens[i]) : i \in DOMAIN tokens}

MCTokenInput ==
  {Written(s) : s \in UNION {Spellings(x) : x \in MCStatement}}
  \cup SampleTokens \cup UNION {Dropped(s) \cup Replaced(s) \cup Doubled(s) : s \in SampleTokens}
  \cup {<<>>, <<Tok("EXIT")>>, <<Tok("T_EOF")>>}

MCTextInput ==
  {"select * from r where a<>1 and b >=5;", "SELECT a FROM t where f=-1.5 ; junk", "",
   "insert into u values(300,'2000-02-29 23:59:59');", "show tables", "exit",
   "select s from r order by s desc limit 2;-- done", "delete from r where a = 1-1;",
   "select /* a */ f from t where a=+2;", "select f from t /* where", "/* lost */", "seLect*fRom u;",
   "update r set b=007 where s=''and a<2.;", "drop table t#;", "desc rr; \n", "selects * from r;",
   "/", "-", "--", "'ab", "select a.b..c;", "1.5.2.", "- 1", "/**/help", "a/*/b*/c"}

MCLaterInput == {"select a from t;", "*/ select a from r;", "x;"}

MCText == STRING
=============================================================================
