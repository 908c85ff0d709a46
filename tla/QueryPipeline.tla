--------------------------- MODULE QueryPipeline ---------------------------
(***************************************************************************)
(* One session's statements on their way through client_handler: scanner,  *)
(* parser, analyzer, planner, portal, executors and printer.               *)
(*                                                                         *)
(* A statement comes as a text, which the scanner reads as the parser asks *)
(* for tokens, or as the tokens of one.  The contents of the tables do not *)
(* change: of an INSERT, UPDATE or DELETE the pipeline fixes the rows and  *)
(* the values that the executors of module Statements then change.         *)
(*                                                                         *)
(* Known defects are situations; a statement that runs into one outside    *)
(* Explore is not followed any further (left_out).                         *)
(***************************************************************************)
EXTENDS Integers, Sequences, FiniteSets, TLC, Lexer, Parser, Grammar, Executors, RecordPrinter, SqlMeaning

CONSTANTS
  Contents,       \* contents of the database: functions from tables to sequences of rows
  TokenInput,     \* statements given as tokens
  TextInput,      \* statements given as texts
  LaterInput,     \* texts that may follow a text
  Statement,      \* parse trees the parser is compared with
  StackBound,     \* the highest stack of the parser on these statements
  Explore         \* situations to run into

VARIABLES
  contents,
  qpc,       \* idle, parse, plan, start, join, above, print, answered, left_out, terminated
  turn,      \* none, tokens or text (the kind of the statement), again, later
  query, plan,
  rows,      \* the rows the scan or the join has delivered
  answer,
  script     \* the lines still to be printed

queryVars == <<contents, qpc, turn, query, plan, rows, answer, script>>
lexParseVars == <<lexVars, parseVars>>
vars == <<lexVars, parseVars, joinVars, printVars, queryVars>>

Situation ==
  {"open_comment",        \* a comment is open at the end of a statement
   "unpeekable",          \* the child of a join is an index scan or a join
   "reversed_range",      \* an index scan with its ends in the wrong order
   "limit_only",          \* LIMIT without ORDER BY is ignored
   "ordered_aggregate",   \* ORDER BY ... LIMIT cuts the input of an aggregate
   "mixed_aggregate",     \* a column beside an aggregate shows zero
   "wide_sum"}            \* the sum of an INT column does not fit an int

ASSUME PipelineAssumption == Explore \subseteq Situation

NoQuery == [parse |-> NULL]
NoAnswer == [kind |-> "none"]
Failure(error) == [kind |-> "error", error |-> error]

-----------------------------------------------------------------------------
(* Reading and parsing. *)

QueryInit ==
  /\ contents \in Contents
  /\ qpc = "idle" /\ turn = "none"
  /\ query = NoQuery /\ plan = NoPlan /\ rows = <<>> /\ answer = NoAnswer /\ script = <<>>

Init == LexInit /\ ParseInit /\ JoinInit /\ PrintInit /\ QueryInit

ReadTokens(tokens) ==
  /\ qpc = "idle" /\ turn = "none"
  /\ qpc' = "parse" /\ turn' = "tokens"
  /\ yyparse(tokens)
  /\ lexed' = tokens
  /\ UNCHANGED <<text, yy_c_buf_p, yy_start, joinVars, printVars>>
  /\ UNCHANGED <<contents, query, plan, rows, answer, script>>

ReadText(str) ==
  /\ qpc = "idle"
  /\ yy_start = INITIAL \/ "open_comment" \in Explore
  /\ qpc' = "parse" /\ turn' = IF turn = "again" THEN "later" ELSE "text"
  /\ yyparse(<<>>)
  /\ yy_scan_string(str)
  /\ UNCHANGED <<joinVars, printVars>>
  /\ UNCHANGED <<contents, query, plan, rows, answer, script>>

(* The parser wants a token that the scanner has still to find. *)
WantsToken ==
  yy_c_buf_p > 0 /\ yyresult = "running" /\ NeedsToken /\ yychar = YYEMPTY /\ input = <<>>

yylex_step ==
  /\ qpc = "parse" /\ WantsToken
  /\ LexStep
  /\ input' = SubSeq(lexed', Len(lexed) + 1, Len(lexed'))
  /\ UNCHANGED <<yychar, yylval, yyss, yyvs, yyresult, parse_tree>>
  /\ UNCHANGED <<joinVars, printVars, queryVars>>

yyparse_step ==
  /\ qpc = "parse" /\ ~WantsToken
  /\ ParseStep
  /\ UNCHANGED <<lexVars, joinVars, printVars, queryVars>>

delete_buffer ==
  /\ yy_delete_buffer
  /\ LexDelete
  /\ UNCHANGED parse_tree

(* A syntax error, or no statement: nothing is executed or printed. *)
NoStatement ==
  /\ qpc = "parse"
  /\ yyresult = "aborted" \/ (yyresult = "accepted" /\ parse_tree = NULL)
  /\ qpc' = "answered" /\ answer' = [kind |-> "nothing"]
  /\ delete_buffer
  /\ UNCHANGED <<joinVars, printVars, contents, turn, query, plan, rows, script>>

(* The exception of std::stoi ends the server. *)
Terminate ==
  /\ qpc = "parse" /\ yyresult = "terminated"
  /\ qpc' = "terminated"
  /\ UNCHANGED <<lexParseVars, joinVars, printVars>>
  /\ UNCHANGED <<contents, turn, query, plan, rows, answer, script>>

-----------------------------------------------------------------------------
(* Analysis and planning. *)

Analyse ==
  /\ qpc = "parse" /\ yyresult = "accepted" /\ parse_tree # NULL
  /\ delete_buffer
  /\ IF do_analyze_error(parse_tree) = "ok"
     THEN query' = do_analyze(parse_tree) /\ qpc' = "plan" /\ UNCHANGED answer
     ELSE /\ answer' = Failure(do_analyze_error(parse_tree)) /\ qpc' = "answered"
          /\ UNCHANGED query
  /\ UNCHANGED <<joinVars, printVars, contents, turn, plan, rows, script>>

(* The pages of the table files: the header, pages with records, and       *)
(* perhaps a page whose records are gone.                                  *)
PageCounts ==
  {pages \in [DOMAIN Db -> 1 .. 3] :
     \A tab \in DOMAIN Db :
       pages[tab] \in (IF contents[tab] = <<>> THEN {1, 2} ELSE {2, 3})}

Plan ==
  /\ qpc = "plan"
  /\ IF plan_error(query) = "ok"
     THEN /\ \E pages \in PageCounts : plan' = plan_query(query, pages)
          /\ qpc' = "start" /\ UNCHANGED answer
     ELSE answer' = Failure(plan_error(query)) /\ qpc' = "answered" /\ UNCHANGED plan
  /\ UNCHANGED <<lexParseVars, joinVars, printVars, contents, turn, query, rows, script>>

-----------------------------------------------------------------------------
(* The portal. *)

IsSelectPlan == plan.plan = "DML" /\ plan.tag = "T_select"
Root == plan.subplan
SortNode == IF Root.subplan.plan = "Sort" THEN {Root.subplan} ELSE {}
Base == IF Root.subplan.plan = "Sort" THEN Root.subplan.subplan ELSE Root.subplan
JoinsScans == Base.plan = "Join" /\ Base.left.plan = "Scan" /\ Base.right.plan = "Scan"

ScansOf == CASE ~IsSelectPlan -> {plan.subplan}
             [] IsSelectPlan /\ Base.plan = "Scan" -> {Base}
             [] IsSelectPlan /\ JoinsScans -> {Base.left, Base.right}
             [] OTHER -> {}

HasForeignCondition ==
  \E s \in ScansOf : s # NoPlan /\ ~Placeable(s)

PlanSituations ==
  LET reversed == \E s \in ScansOf : s # NoPlan /\ Reversed(s, contents[s.tab_name])
      plain == \E i \in DOMAIN query.sel_items : query.sel_items[i].kind = "SEL_COL"
  IN  (IF reversed THEN {"reversed_range"} ELSE {})
      \cup (IF IsSelectPlan /\ Base.plan = "Join"
               /\ (~JoinsScans \/ \E s \in ScansOf : s.tag # "T_SeqScan")
            THEN {"unpeekable"} ELSE {})
      \cup (IF IsSelectPlan /\ SortNode = {} /\ query.parse.limit >= 0
               /\ (Root.plan = "Agg" => query.parse.limit = 0)
            THEN {"limit_only"} ELSE {})
      \cup (IF IsSelectPlan /\ Root.plan = "Agg" /\ query.parse.limit >= 0 /\ SortNode # {}
            THEN {"ordered_aggregate"} ELSE {})
      \cup (IF IsSelectPlan /\ Root.plan = "Agg" /\ plain THEN {"mixed_aggregate"} ELSE {})

(* A plan with a condition on another table, and the join of a join, are   *)
(* planned but never executed here.                                        *)
LeaveOut ==
  /\ qpc = "start" /\ plan.plan = "DML"
  /\ \/ HasForeignCondition
     \/ IsSelectPlan /\ Base.plan = "Join" /\ ~JoinsScans
     \/ ~(PlanSituations \subseteq Explore)
  /\ qpc' = "left_out"
  /\ UNCHANGED <<lexParseVars, joinVars, printVars>>
  /\ UNCHANGED <<contents, turn, query, plan, rows, answer, script>>

Follow ==
  /\ ~HasForeignCondition
  /\ ~(IsSelectPlan /\ Base.plan = "Join" /\ ~JoinsScans)
  /\ PlanSituations \subseteq Explore

Throws == \E s \in ScansOf : s # NoPlan /\ Reversed(s, contents[s.tab_name])

Header(captions) == <<[kind |-> "separator"], [kind |-> "record", rec |-> captions],
                      [kind |-> "separator"]>>
Footer == <<[kind |-> "separator"]>>
Line(rec) == [kind |-> "record", rec |-> rec]

IsIndexed(tab, name) ==
  IF \E k \in DOMAIN Db[tab].indexes : name \in Range(Db[tab].indexes[k]) THEN "YES" ELSE "NO"

(* show_tables and desc_table print a table without a count. *)
UtilityLines ==
  IF plan.tag = "T_ShowTable"
  THEN Header(<<"Tables">>) \o Each(LAMBDA t : Line(<<t>>), SetToSeq(DOMAIN Db)) \o Footer
  ELSE Header(<<"Field", "Type", "Index">>)
         \o Each(LAMBDA c : Line(<<c.name, c.type, IsIndexed(plan.tab_name, c.name)>>),
                 Db[plan.tab_name].cols)
         \o Footer

run_cmd_utility ==
  /\ qpc = "start" /\ plan.plan = "Other"
  /\ IF plan.tag \in {"T_DescTable", "T_ShowIndex"} /\ plan.tab_name \notin DOMAIN Db
     THEN answer' = Failure("TableNotFound") /\ qpc' = "answered" /\ UNCHANGED <<script, printVars>>
     ELSE /\ answer' = [kind |-> "call", tag |-> plan.tag, args |-> <<plan.tab_name>>]
          /\ IF plan.tag \in {"T_ShowTable", "T_DescTable"}
             THEN /\ script' = UtilityLines /\ qpc' = "print"
                  /\ RecordPrinter(IF plan.tag = "T_ShowTable" THEN 1 ELSE 3)
             ELSE qpc' = "answered" /\ UNCHANGED <<script, printVars>>
  /\ UNCHANGED <<lexParseVars, joinVars, contents, turn, query, plan, rows>>

(* The calls of module Catalog. *)
run_mutli_query ==
  /\ qpc = "start" /\ plan.plan = "DDL"
  /\ answer' = [kind |-> "call", tag |-> plan.tag,
                args |-> <<plan.tab_name, plan.tab_col_names, plan.cols>>]
  /\ qpc' = "answered"
  /\ UNCHANGED <<lexParseVars, joinVars, printVars, contents, turn, query, plan, rows, script>>

start_insert ==
  /\ qpc = "start" /\ plan.plan = "DML" /\ plan.tag = "T_Insert"
  /\ LET error == InsertExecutorError(plan, query.parse.vals, contents)
     IN  answer' = IF error # "ok" THEN Failure(error)
                   ELSE [kind |-> "dml", tag |-> plan.tag, tab |-> plan.tab_name, rids |-> <<>>,
                         values |-> Each(LAMBDA v : v.cell.ord, plan.values)]
  /\ qpc' = "answered"
  /\ UNCHANGED <<lexParseVars, joinVars, printVars, contents, turn, query, plan, rows, script>>

(* The rids are collected before the executor is made. *)
start_update_delete ==
  /\ qpc = "start" /\ plan.plan = "DML" /\ plan.tag \in {"T_Update", "T_Delete"} /\ Follow
  /\ answer' = IF Throws THEN Failure("IndexEntryNotFound")
               ELSE [kind |-> "dml", tag |-> plan.tag, tab |-> plan.tab_name,
                     rids |-> Scan(plan.subplan, contents),
                     values |-> Each(LAMBDA s : s.rhs.cell.ord, plan.set_clauses)]
  /\ qpc' = "answered"
  /\ UNCHANGED <<lexParseVars, joinVars, printVars, contents, turn, query, plan, rows, script>>

-----------------------------------------------------------------------------
(* SELECT. *)

begin_scan ==
  /\ qpc = "start" /\ IsSelectPlan /\ Follow /\ Base.plan = "Scan"
  /\ IF Throws
     THEN answer' = Failure("IndexEntryNotFound") /\ qpc' = "answered" /\ UNCHANGED rows
     ELSE rows' = ScanRows(Base, contents) /\ qpc' = "above" /\ UNCHANGED answer
  /\ UNCHANGED <<lexParseVars, joinVars, printVars, contents, turn, query, plan, script>>

begin_join ==
  /\ qpc = "start" /\ IsSelectPlan /\ Follow /\ Base.plan = "Join"
  /\ IF Throws
     THEN answer' = Failure("IndexEntryNotFound") /\ qpc' = "answered" /\ UNCHANGED joinVars
     ELSE JoinBegin(NestedLoopJoinExecutor(Base, contents)) /\ qpc' = "join" /\ UNCHANGED answer
  /\ UNCHANGED <<lexParseVars, printVars, contents, turn, query, plan, rows, script>>

join_step ==
  /\ qpc = "join"
  /\ find_next \/ JoinNextTuple
  /\ UNCHANGED <<lexParseVars, printVars, queryVars>>

end_join ==
  /\ qpc = "join" /\ jpc = "end"
  /\ rows' = JoinedRows /\ qpc' = "above"
  /\ jpc' = "idle" /\ jin' = NoInput /\ joined' = <<>> /\ lpos' = 1 /\ rpos' = 1
  /\ UNCHANGED <<left_block_count, block_idx, hash_block_ready, hash_match_indices,
                 hash_match_pending>>
  /\ UNCHANGED <<lexParseVars, printVars, contents, turn, query, plan, answer, script>>

(* What the executors above the scan or the join make of its rows. *)
Above == IF SortNode = {} THEN {rows} ELSE UNION {SortResults(s, rows) : s \in SortNode}

Output(above) ==
  IF Root.plan = "Agg" THEN <<compute(Root.sel_items, above)>>
  ELSE Each(LAMBDA row : project(Root.sel_cols, row), above)

(* The name that AS gives to a column appears only beside an aggregate.    *)
Captions ==
  IF Root.plan = "Agg" THEN Each(LAMBDA i : i.alias, Root.sel_items)
  ELSE Each(LAMBDA c : c.col_name, Root.sel_cols)

IsWideSum(above) ==
  /\ Root.plan = "Agg"
  /\ \E i \in DOMAIN Root.sel_items :
       LET item == Root.sel_items[i]
       IN  /\ item.agg = "SUM"
           /\ TypeOfCol(item.col.tab_name, item.col.col_name) = "INT"
           /\ ~InRange(FoldLeft(LAMBDA acc, row : acc + row[item.col].ord, 0, above), INT_MAX)

select_from ==
  /\ qpc = "above"
  /\ \E above \in Above :
       IF IsWideSum(above) /\ "wide_sum" \notin Explore
       THEN qpc' = "left_out" /\ UNCHANGED <<answer, script, printVars>>
       ELSE /\ answer' = [kind |-> "rows", rows |-> above,
                          table |-> Each(LAMBDA r : Each(LAMBDA c : c.ord, r), Output(above))]
            /\ script' = Header(Captions)
                           \o Each(LAMBDA r : Line(Each(LAMBDA c : ToString(c.bits), r)),
                                   Output(above))
                           \o Footer
            /\ RecordPrinter(Len(Captions))
            /\ qpc' = "print"
  /\ UNCHANGED <<lexParseVars, joinVars, contents, turn, query, plan, rows>>

-----------------------------------------------------------------------------
(* Printing and the next statement. *)

print_line ==
  /\ qpc = "print" /\ script # <<>> /\ line = "none"
  /\ IF Head(script).kind = "separator" THEN print_separator ELSE print_record(Head(script).rec)
  /\ script' = Tail(script)
  /\ UNCHANGED <<lexParseVars, joinVars, contents, qpc, turn, query, plan, rows, answer>>

print_piece ==
  /\ qpc = "print" /\ PrintStep
  /\ UNCHANGED <<lexParseVars, joinVars, queryVars>>

CountLength == (IF ellipsis THEN 8 ELSE 0) + 18 + Len(Digits[Len(answer.table)])

print_count ==
  /\ qpc = "print" /\ script = <<>> /\ line = "none"
  /\ IF answer.kind = "rows" THEN print_record_count(CountLength) ELSE UNCHANGED printVars
  /\ qpc' = "answered"
  /\ UNCHANGED <<lexParseVars, joinVars, contents, turn, query, plan, rows, answer, script>>

(* The session goes on after a text; what is left of the statement are     *)
(* the globals of the scanner and the parser.                              *)
NextStatement ==
  /\ qpc = "answered" /\ turn = "text"
  /\ qpc' = "idle" /\ turn' = "again"
  /\ query' = NoQuery /\ plan' = NoPlan /\ rows' = <<>> /\ answer' = NoAnswer
  /\ RecordPrinter(1)
  /\ UNCHANGED <<lexParseVars, joinVars, contents, script>>

Read ==
  \/ \E tokens \in TokenInput : ReadTokens(tokens)
  \/ \E str \in (IF turn = "again" THEN LaterInput ELSE TextInput) : ReadText(str)

(* The loops. *)
ParseLoop == yylex_step \/ yyparse_step
JoinLoop == join_step \/ end_join
PrintLoop == print_line \/ print_piece \/ print_count

Step ==
  \/ NoStatement \/ Terminate \/ Analyse \/ Plan
  \/ LeaveOut \/ run_cmd_utility \/ run_mutli_query \/ start_insert \/ start_update_delete
  \/ begin_scan \/ begin_join \/ select_from

Next == Read \/ ParseLoop \/ JoinLoop \/ PrintLoop \/ Step \/ NextStatement

(* The thread of the session runs its loops on. *)
Spec ==
  /\ Init /\ [][Next]_vars
  /\ WF_vars(ParseLoop) /\ WF_vars(JoinLoop) /\ WF_vars(PrintLoop)

-----------------------------------------------------------------------------
(* Properties. *)

Consumed == SubSeq(lexed, 1, Len(lexed) - Len(input))

AllSpellings == UNION {Spellings(x) : x \in Statement}

StartsAs(tokens, spelling) ==
  Len(spelling) <= Len(tokens) /\ SpelledAs(SubSeq(tokens, 1, Len(spelling)), spelling)

(* Of the literals in a statement, analyze.cpp accepts as an               *)
(* integer what std::stoi can convert, and datetime_util.h what the        *)
(* calendar has, keeping its fields and its order.                         *)
LiteralsExact ==
  LiteralsExactFor({lexed[i].val.sv_str : i \in {j \in DOMAIN lexed : lexed[j].kind = "VALUE_INT"}},
                   {lexed[i].val.sv_str : i \in {j \in DOMAIN lexed : lexed[j].kind = "VALUE_STRING"}})

(* Property: yyparse accepts exactly the statements of the grammar.  The   *)
(* tree it leaves in parse_tree is the one whose spelling it has read, up  *)
(* to the semicolon and nothing behind; what it refuses does not begin     *)
(* with a statement; it dies only of a CHAR length or a LIMIT that is no   *)
(* int; the stack stays far below the depth where it is reallocated; and   *)
(* the literals it has read denote what analyze.cpp makes of them.         *)
ParseExact ==
  /\ LiteralsExact
  /\ Len(yyss) <= StackBound
  /\ yyresult = "accepted" => \E s \in Spellings(parse_tree) : SpelledAs(Consumed, s)
  /\ yyresult = "aborted" => ~\E s \in AllSpellings : StartsAs(lexed, s)
  /\ yyresult = "terminated" =>
       \E i \in DOMAIN Consumed :
         Consumed[i].kind = "VALUE_INT" /\ stoi_throws(Consumed[i].val.sv_str, INT_MAX)

(* A condition between two columns of a table that is not the first one.   *)
HasOwnCondition ==
  \E i \in DOMAIN query.conds :
    LET c == query.conds[i]
    IN  ~c.is_rhs_val /\ c.lhs_col.tab_name = c.rhs_col.tab_name
          /\ c.lhs_col.tab_name # query.tables[1]

(* Property: the plan of a SELECT carries each of its conditions exactly   *)
(* once, as it was written or mirrored, at a scan that has both its        *)
(* columns or at a join that has one on each side.  Nothing is said of a   *)
(* statement with a condition between two columns of one table other than  *)
(* the first: pop_conds hands it to whatever scan asks first               *)
(* (planner.cpp:84), and such a plan is not executed here.                 *)
ConditionsPlaced ==
  qpc = "start" /\ IsSelectPlan /\ ~HasOwnCondition =>
    CarriesConds(Base, query.conds) /\ Placeable(Base)

(* The answer that a statement should get. *)
SelectAnswer(x) ==
  IF IsSelect(x) THEN answer.kind = "rows" /\ IsTable(x, answer.table, answer.rows, contents)
  ELSE answer.kind = "error"

UpdateAnswer(x) ==
  IF ~IsUpdate(x) THEN answer.kind = "error"
  ELSE /\ answer.kind = "dml" /\ answer.tag = "T_Update" /\ answer.tab = x.tab_name
       /\ IsInjective(answer.rids)
       /\ Range(answer.rids) = Selected(x.tab_name, x.conds, contents)
       /\ answer.values = [i \in DOMAIN x.set_clauses |->
            LiteralOrd(TheColumn(<<x.tab_name>>, Col("", x.set_clauses[i].col_name)),
                       x.set_clauses[i].val)]

DeleteAnswer(x) ==
  IF ~IsDelete(x) THEN answer.kind = "error"
  ELSE /\ answer.kind = "dml" /\ answer.tag = "T_Delete" /\ answer.tab = x.tab_name
       /\ IsInjective(answer.rids)
       /\ Range(answer.rids) = Selected(x.tab_name, x.conds, contents)

InsertAnswer(x) ==
  IF ~IsInsert(x, contents) THEN answer.kind = "error"
  ELSE /\ answer.kind = "dml" /\ answer.tag = "T_Insert" /\ answer.tab = x.tab_name
       /\ answer.values = [i \in DOMAIN x.vals |-> LiteralOrd(Db[x.tab_name].cols[i], x.vals[i])]

(* Property: the answer to a statement is the one its parse tree means:    *)
(* a SELECT returns the rows of the product that satisfy its conditions,   *)
(* in order and cut at the limit, whatever index, join order, block or     *)
(* hash table was used; an UPDATE, DELETE or INSERT gets the right rows    *)
(* and values; and exactly the statements that make no sense on this       *)
(* catalog are refused.                                                    *)
AnswerExact ==
  qpc = "answered" /\ answer.kind # "nothing" =>
    CASE parse_tree.node = "SelectStmt" -> SelectAnswer(parse_tree)
      [] parse_tree.node = "UpdateStmt" -> UpdateAnswer(parse_tree)
      [] parse_tree.node = "DeleteStmt" -> DeleteAnswer(parse_tree)
      [] parse_tree.node = "InsertStmt" -> InsertAnswer(parse_tree)
      [] parse_tree.node \in {"DescTable", "ShowIndex"} ->
           (answer.kind = "call" <=> parse_tree.tab_name \in DOMAIN Db)
      [] OTHER -> answer.kind = "call"

(* Property: no statement makes the scanner and the parser, the join or    *)
(* the printer run for ever.                                               *)
QueryEnds ==
  /\ yyresult = "running" ~> yyresult # "running"
  /\ qpc = "join" ~> qpc = "above"
  /\ qpc = "print" ~> qpc = "answered"
=============================================================================
