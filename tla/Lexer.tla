------------------------------- MODULE Lexer -------------------------------
(***************************************************************************)
(* The generated scanner (parser/lex.yy.cpp): its compressed tables, the   *)
(* longest match with backing up, the end of a buffer, and the action of   *)
(* every rule.  The buffer is a new one for every statement; the start     *)
(* condition yy_start is a global that survives it.                        *)
(***************************************************************************)
EXTENDS Integers, Sequences

CONSTANT FloatText   \* from the text of a float to its value in halves

VARIABLES
  text,         \* the characters of the buffer
  yy_c_buf_p,   \* the position of the next character, 0 without a buffer
  yy_start,     \* the start condition: INITIAL or STATE_COMMENT
  lexed         \* the tokens returned from this buffer

lexVars == <<text, yy_c_buf_p, yy_start, lexed>>

INITIAL == 1
STATE_COMMENT == 3
YY_END_OF_BUFFER == 56

-----------------------------------------------------------------------------
(* The tables. *)

(* The class of a character: classes 1 to 68 in order; upper and lower     *)
(* case letters have classes of their own, but for q and z.                *)
ClassChars ==
  <<"!#$%&:?@[]^{|}~", " \t", "\n", "\r", "'", "(", ")", "*", "+", ",", "-", ".", "/",
    "0123456789", ";", "<", "=", ">", "A", "B", "C", "D", "E", "F", "G", "H", "I", "J", "K", "L", "M", "N", "O", "P",
    "QZqz", "R", "S", "T", "U", "V", "W", "X", "Y", "_", "a", "b", "c", "d", "e", "f", "g", "h",
    "i", "j", "k", "l", "m", "n", "o", "p", "r", "s", "t", "u", "v", "w", "x", "y">>

CharsOf(s) == {SubSeq(s, i, i) : i \in 1 .. Len(s)}

yy_ec ==
  [c \in UNION {CharsOf(ClassChars[k]) : k \in DOMAIN ClassChars} |->
     CHOOSE k \in DOMAIN ClassChars : c \in CharsOf(ClassChars[k])]

yy_accept ==
  <<0, 0, 0, 0, 0, 56, 54, 6, 7, 7, 54, 49, 54, 54, 54, 51, 49, 49, 50, 50, 50, 50, 50, 50, 50, 50,
    50, 50, 50, 50, 50, 50, 50, 50, 50, 50, 50, 3, 4, 6, 7, 0, 53, 51, 5, 1, 52, 47, 48, 46, 50, 50,
    50, 44, 50, 50, 38, 50, 50, 50, 50, 50, 50, 50, 50, 50, 50, 50, 50, 50, 50, 50, 50, 50, 50, 50,
    50, 50, 50, 50, 50, 2, 5, 52, 50, 33, 39, 50, 50, 50, 50, 50, 50, 50, 50, 50, 50, 50, 50, 50,
    50, 50, 50, 27, 50, 50, 42, 43, 50, 50, 50, 25, 50, 41, 50, 50, 50, 50, 50, 50, 50, 29, 50, 50,
    50, 50, 50, 17, 16, 35, 50, 22, 36, 50, 50, 19, 34, 50, 50, 50, 50, 8, 50, 50, 50, 50, 11, 9,
    50, 50, 40, 50, 50, 50, 30, 32, 50, 45, 37, 50, 50, 15, 50, 50, 23, 28, 10, 14, 50, 21, 18, 50,
    26, 13, 24, 20, 50, 50, 31, 12, 0>>

yy_meta ==
  <<0, 1, 1, 2, 1, 1, 1, 1, 1, 1, 1, 1, 1, 1, 3, 1, 1, 1, 1, 3, 3, 3, 3, 3, 3, 3, 3, 3, 3, 3, 3, 3,
    3, 3, 3, 3, 3, 3, 3, 3, 3, 3, 3, 3, 3, 3, 3, 3, 3, 3, 3, 3, 3, 3, 3, 3, 3, 3, 3, 3, 3, 3, 3, 3,
    3, 3, 3, 3, 3>>

yy_base ==
  <<0, 0, 0, 328, 326, 333, 361, 330, 361, 327, 321, 361, 276, 58, 236, 59, 57, 179, 50, 54, 50, 65,
    37, 59, 0, 57, 58, 58, 65, 86, 58, 65, 102, 102, 89, 108, 103, 361, 174, 98, 361, 94, 361, 118,
    0, 361, 79, 361, 361, 361, 0, 100, 112, 114, 111, 112, 0, 119, 111, 120, 102, 115, 111, 119,
    115, 123, 127, 151, 131, 136, 134, 146, 157, 150, 156, 148, 154, 170, 169, 162, 172, 361, 0, 71,
    161, 0, 0, 171, 173, 166, 172, 176, 190, 187, 192, 199, 189, 187, 209, 199, 197, 209, 210, 204,
    206, 212, 0, 0, 217, 212, 220, 0, 204, 0, 217, 229, 212, 216, 215, 223, 228, 0, 234, 229, 233,
    234, 237, 0, 0, 0, 241, 0, 0, 238, 246, 0, 0, 245, 248, 242, 264, 0, 266, 253, 270, 271, 0, 0,
    260, 261, 0, 272, 274, 279, 0, 0, 268, 0, 0, 284, 272, 275, 290, 280, 0, 0, 0, 0, 283, 0, 0,
    297, 0, 0, 0, 0, 299, 296, 0, 0, 361, 351, 354, 75, 357>>

yy_def ==
  <<0, 180, 1, 181, 181, 180, 180, 180, 180, 180, 182, 180, 180, 180, 180, 180, 180, 180, 183, 183,
    183, 183, 183, 183, 183, 183, 183, 183, 183, 183, 183, 183, 183, 183, 183, 183, 183, 180, 180,
    180, 180, 182, 180, 180, 184, 180, 180, 180, 180, 180, 183, 183, 183, 183, 183, 183, 183, 183,
    183, 183, 183, 183, 183, 183, 183, 183, 183, 183, 183, 183, 183, 183, 183, 183, 183, 183, 183,
    183, 183, 183, 183, 180, 184, 180, 183, 183, 183, 183, 183, 183, 183, 183, 183, 183, 183, 183,
    183, 183, 183, 183, 183, 183, 183, 183, 183, 183, 183, 183, 183, 183, 183, 183, 183, 183, 183,
    183, 183, 183, 183, 183, 183, 183, 183, 183, 183, 183, 183, 183, 183, 183, 183, 183, 183, 183,
    183, 183, 183, 183, 183, 183, 183, 183, 183, 183, 183, 183, 183, 183, 183, 183, 183, 183, 183,
    183, 183, 183, 183, 183, 183, 183, 183, 183, 183, 183, 183, 183, 183, 183, 183, 183, 183, 183,
    183, 183, 183, 183, 183, 183, 183, 183, 0, 180, 180, 180, 180>>

yy_nxt ==
  <<0, 6, 7, 8, 9, 10, 11, 11, 11, 12, 11, 13, 11, 14, 15, 11, 16, 11, 17, 18, 19, 20, 21, 22, 23,
    24, 25, 26, 27, 24, 28, 29, 24, 30, 24, 24, 31, 32, 33, 34, 35, 36, 24, 24, 6, 18, 19, 20, 21,
    22, 23, 24, 25, 26, 27, 24, 28, 29, 24, 30, 24, 31, 32, 33, 34, 35, 36, 24, 24, 44, 51, 46, 43,
    43, 47, 48, 57, 54, 50, 63, 66, 55, 52, 58, 60, 83, 59, 53, 61, 64, 67, 68, 69, 83, 72, 65, 51,
    56, 73, 42, 39, 62, 57, 54, 63, 70, 66, 55, 52, 58, 60, 59, 53, 71, 61, 64, 67, 68, 69, 72, 65,
    77, 56, 78, 73, 74, 62, 79, 75, 80, 46, 70, 43, 84, 85, 86, 87, 88, 89, 71, 93, 76, 90, 92, 96,
    94, 97, 77, 98, 78, 91, 74, 95, 79, 75, 80, 99, 100, 104, 84, 85, 86, 87, 88, 89, 93, 76, 105,
    90, 92, 96, 94, 97, 101, 98, 91, 106, 95, 107, 108, 109, 112, 99, 100, 104, 113, 110, 81, 102,
    103, 114, 115, 116, 105, 111, 117, 49, 118, 119, 101, 120, 106, 121, 122, 107, 108, 109, 112,
    123, 124, 125, 113, 110, 102, 103, 126, 114, 115, 116, 111, 127, 117, 118, 128, 119, 129, 120,
    121, 130, 122, 131, 132, 133, 134, 123, 124, 125, 135, 136, 137, 138, 126, 139, 140, 45, 141,
    127, 142, 143, 128, 129, 144, 145, 146, 130, 147, 131, 132, 133, 134, 148, 149, 159, 135, 136,
    137, 138, 150, 139, 140, 141, 151, 152, 142, 143, 153, 144, 145, 146, 154, 155, 147, 156, 157,
    158, 160, 148, 149, 159, 161, 43, 162, 150, 163, 164, 167, 151, 152, 165, 166, 153, 168, 169,
    171, 154, 155, 170, 156, 157, 158, 172, 160, 173, 174, 176, 161, 162, 175, 177, 163, 164, 167,
    178, 165, 166, 179, 42, 168, 169, 171, 40, 170, 39, 180, 38, 172, 38, 173, 180, 174, 176, 180,
    175, 180, 177, 180, 180, 180, 178, 180, 180, 179, 37, 37, 37, 41, 41, 41, 82, 180, 82, 5, 180,
    180, 180, 180, 180, 180, 180, 180, 180, 180, 180, 180, 180, 180, 180, 180, 180, 180, 180, 180,
    180, 180, 180, 180, 180, 180, 180, 180, 180, 180, 180, 180, 180, 180, 180, 180, 180, 180, 180,
    180, 180, 180, 180, 180, 180, 180, 180, 180, 180, 180, 180, 180, 180, 180, 180, 180, 180, 180,
    180, 180, 180, 180, 180, 180, 180, 180, 180, 180>>

yy_chk ==
  <<0, 1, 1, 1, 1, 1, 1, 1, 1, 1, 1, 1, 1, 1, 1, 1, 1, 1, 1, 1, 1, 1, 1, 1, 1, 1, 1, 1, 1, 1, 1, 1,
    1, 1, 1, 1, 1, 1, 1, 1, 1, 1, 1, 1, 1, 1, 1, 1, 1, 1, 1, 1, 1, 1, 1, 1, 1, 1, 1, 1, 1, 1, 1, 1,
    1, 1, 1, 1, 1, 13, 18, 15, 13, 15, 16, 16, 20, 19, 183, 22, 25, 19, 18, 20, 21, 83, 20, 18, 21,
    23, 26, 27, 28, 46, 30, 23, 18, 19, 31, 41, 39, 21, 20, 19, 22, 29, 25, 19, 18, 20, 21, 20, 18,
    29, 21, 23, 26, 27, 28, 30, 23, 33, 19, 34, 31, 32, 21, 35, 32, 36, 43, 29, 43, 51, 52, 53, 54,
    55, 57, 29, 60, 32, 58, 59, 62, 61, 63, 33, 64, 34, 58, 32, 61, 35, 32, 36, 65, 66, 68, 51, 52,
    53, 54, 55, 57, 60, 32, 69, 58, 59, 62, 61, 63, 67, 64, 58, 70, 61, 71, 72, 73, 75, 65, 66, 68,
    76, 74, 38, 67, 67, 77, 78, 79, 69, 74, 80, 17, 84, 87, 67, 88, 70, 89, 90, 71, 72, 73, 75, 91,
    92, 93, 76, 74, 67, 67, 94, 77, 78, 79, 74, 95, 80, 84, 96, 87, 97, 88, 89, 98, 90, 99, 100,
    101, 102, 91, 92, 93, 103, 104, 105, 108, 94, 109, 110, 14, 112, 95, 114, 115, 96, 97, 116, 117,
    118, 98, 119, 99, 100, 101, 102, 120, 122, 139, 103, 104, 105, 108, 123, 109, 110, 112, 124,
    125, 114, 115, 126, 116, 117, 118, 130, 133, 119, 134, 137, 138, 140, 120, 122, 139, 142, 12,
    143, 123, 144, 145, 151, 124, 125, 148, 149, 126, 152, 153, 159, 130, 133, 156, 134, 137, 138,
    160, 140, 161, 162, 168, 142, 143, 163, 171, 144, 145, 151, 176, 148, 149, 177, 10, 152, 153,
    159, 9, 156, 7, 5, 4, 160, 3, 161, 0, 162, 168, 0, 163, 0, 171, 0, 0, 0, 176, 0, 0, 177, 181,
    181, 181, 182, 182, 182, 184, 0, 184, 180, 180, 180, 180, 180, 180, 180, 180, 180, 180, 180,
    180, 180, 180, 180, 180, 180, 180, 180, 180, 180, 180, 180, 180, 180, 180, 180, 180, 180, 180,
    180, 180, 180, 180, 180, 180, 180, 180, 180, 180, 180, 180, 180, 180, 180, 180, 180, 180, 180,
    180, 180, 180, 180, 180, 180, 180, 180, 180, 180, 180, 180, 180, 180, 180, 180, 180, 180, 180,
    180>>

LexAt(array, i) == array[i + 1]

-----------------------------------------------------------------------------
(* The automaton. *)

RECURSIVE Transition(_, _)
Transition(state, c) ==
  LET at == LexAt(yy_base, state) + c
      default == LexAt(yy_def, state)
  IN  IF LexAt(yy_chk, at) = state THEN LexAt(yy_nxt, at)
      ELSE Transition(default, IF default >= 181 THEN LexAt(yy_meta, c) ELSE c)

yy_next_state == [state \in 1 .. 180, c \in 0 .. 68 |-> Transition(state, c)]

(* The class of a character of the buffer; the end-of-buffer character is  *)
(* of class 0.                                                             *)
ClassAt(pos) == IF pos > Len(text) THEN 0 ELSE yy_ec[SubSeq(text, pos, pos)]

(* The last accepting state and its position, kept while matching.         *)
Remember(last, state, pos) ==
  IF LexAt(yy_accept, state) # 0 THEN [state |-> state, pos |-> pos] ELSE last

RECURSIVE yy_match(_, _, _)
yy_match(state, pos, last) ==
  LET next == yy_next_state[state, ClassAt(pos)]
      remembered == Remember(last, state, pos)
  IN  IF LexAt(yy_base, next) = 361 THEN [state |-> next, pos |-> pos + 1, last |-> remembered]
      ELSE yy_match(next, pos + 1, remembered)

(* The rule and the position behind its match. *)
yy_find_action(m) ==
  IF LexAt(yy_accept, m.state) # 0 THEN [act |-> LexAt(yy_accept, m.state), pos |-> m.pos]
  ELSE [act |-> LexAt(yy_accept, m.last.state), pos |-> m.last.pos]

RECURSIVE yy_get_previous_state(_, _, _)
yy_get_previous_state(state, pos, last) ==
  IF pos > Len(text) THEN [state |-> state, pos |-> pos, last |-> last]
  ELSE yy_get_previous_state(yy_next_state[state, ClassAt(pos)], pos + 1,
                             Remember(last, state, pos))

NoLast == [state |-> 0, pos |-> 0]

(* One round of yylex's loop: if the match ran into the end of the buffer, *)
(* the text in front of it is matched again without the end.               *)
Matched ==
  LET found == yy_find_action(yy_match(yy_start, yy_c_buf_p, NoLast))
  IN  IF found.act # YY_END_OF_BUFFER THEN found
      ELSE IF found.pos = yy_c_buf_p + 1
      THEN [act |-> YY_END_OF_BUFFER, pos |-> yy_c_buf_p]
      ELSE yy_find_action(yy_get_previous_state(yy_start, yy_c_buf_p, NoLast))

-----------------------------------------------------------------------------
(* The rules. *)

Keyword ==
  <<"SHOW", "TXN_BEGIN", "TXN_COMMIT", "TXN_ABORT", "TXN_ROLLBACK", "TABLES", "CREATE", "TABLE",
    "DROP", "DESC", "INSERT", "INTO", "VALUES", "DELETE", "FROM", "WHERE", "UPDATE", "SET",
    "SELECT", "INT", "BIGINT", "CHAR", "FLOAT", "DATETIME", "INDEX", "AND", "JOIN", "EXIT",
    "HELP", "ORDER", "BY", "ASC", "COUNT", "SUM", "MAX", "MIN", "AS", "LIMIT", "GEQ", "LEQ",
    "NEQ">>

(* The token of a rule for its text. *)
RuleToken(act, yytext) ==
  CASE act \in 8 .. 48 -> [kind |-> Keyword[act - 7], val |-> <<>>]
    [] act = 49 -> [kind |-> yytext, val |-> <<>>]
    [] act = 50 -> [kind |-> "IDENTIFIER", val |-> [sv_str |-> yytext]]
    [] act = 51 -> [kind |-> "VALUE_INT", val |-> [sv_str |-> yytext]]
    [] act = 52 -> [kind |-> "VALUE_FLOAT", val |-> [sv_float |-> FloatText[yytext]]]
    [] act = 53 -> [kind |-> "VALUE_STRING",
                    val |-> [sv_str |-> SubSeq(yytext, 2, Len(yytext) - 1)]]
    [] act = YY_END_OF_BUFFER -> [kind |-> "T_EOF", val |-> <<>>]

LexInit == text = "" /\ yy_c_buf_p = 0 /\ yy_start = INITIAL /\ lexed = <<>>

yy_scan_string(str) ==
  /\ yy_c_buf_p = 0
  /\ text' = str /\ yy_c_buf_p' = 1 /\ lexed' = <<>>
  /\ UNCHANGED yy_start

LexBegin_Stay(found) ==
  /\ found.act \in {1, 2}
  /\ yy_start' = STATE_COMMENT
  /\ UNCHANGED lexed

LexBegin(found) ==
  /\ found.act \in {1, 2}
  /\ yy_start' = IF found.act = 1 THEN STATE_COMMENT ELSE INITIAL
  /\ UNCHANGED lexed

(* Comments, white space, and with a message an unexpected character. *)
LexIgnore(found) ==
  /\ found.act \in {3, 4, 5, 6, 7, 54}
  /\ UNCHANGED <<yy_start, lexed>>

LexReturn(found) ==
  /\ found.act \in 8 .. 53 \cup {YY_END_OF_BUFFER}
  /\ lexed' = Append(lexed, RuleToken(found.act, SubSeq(text, yy_c_buf_p, found.pos - 1)))
  /\ UNCHANGED yy_start

LexStep ==
  /\ yy_c_buf_p > 0
  /\ \E found \in {Matched} :
       /\ LexBegin(found) \/ LexIgnore(found) \/ LexReturn(found)
       /\ yy_c_buf_p' = found.pos
  /\ UNCHANGED text

(* The part of yy_delete_buffer that is the scanner's. *)
LexDelete ==
  /\ text' = "" /\ yy_c_buf_p' = 0 /\ lexed' = <<>>
  /\ UNCHANGED yy_start

-----------------------------------------------------------------------------
(* A reference: the patterns of lex.l, the longest match, and of the rules *)
(* that match it the first.                                                *)

Letters == "abcdefghijklmnopqrstuvwxyz"
Capitals == "ABCDEFGHIJKLMNOPQRSTUVWXYZ"
Alpha == CharsOf(Letters) \cup CharsOf(Capitals)
Digit == CharsOf("0123456789")
Char(s, i) == SubSeq(s, i, i)

Upper(c) ==
  IF c \in CharsOf(Letters)
  THEN LET i == CHOOSE k \in 1 .. 26 : Char(Letters, k) = c IN Char(Capitals, i)
  ELSE c

SameIgnoringCase(s, word) ==
  Len(s) = Len(word) /\ \A i \in 1 .. Len(s) : Upper(Char(s, i)) = Char(word, i)

(* The words and operators of rules 8 to 48. *)
Word ==
  [Keyword EXCEPT ![2] = "BEGIN", ![3] = "COMMIT", ![4] = "ABORT", ![5] = "ROLLBACK",
                  ![39] = ">=", ![40] = "<=", ![41] = "<>"]

AllIn(s, from, chars) == \A i \in from .. Len(s) : Char(s, i) \in chars
Unsigned(s) == IF Char(s, 1) \in {"+", "-"} THEN 2 ELSE 1

IsInt(s) == Len(s) >= Unsigned(s) /\ AllIn(s, Unsigned(s), Digit)
IsFloat(s) ==
  \E dot \in Unsigned(s) + 1 .. Len(s) :
    /\ Char(s, dot) = "." /\ AllIn(SubSeq(s, 1, dot - 1), Unsigned(s), Digit)
    /\ AllIn(s, dot + 1, Digit)

Rules(s) ==
  {r \in 8 .. 48 : SameIgnoringCase(s, Word[r - 7])}
  \cup {r \in {1, 5, 6, 7, 49, 50, 51, 52, 53, 54} :
    CASE r = 1 -> s = "/*"
      [] r = 5 -> Len(s) >= 2 /\ SubSeq(s, 1, 2) = "--" /\ ~\E i \in 1 .. Len(s) : Char(s, i) = "\n"
      [] r = 6 -> AllIn(s, 1, {" ", "\t"})
      [] r = 7 -> s \in {"\r", "\n", "\r\n"}
      [] r = 49 -> s \in CharsOf(";(),*=><.")
      [] r = 50 -> Char(s, 1) \in Alpha /\ AllIn(s, 2, Alpha \cup Digit \cup {"_"})
      [] r = 51 -> IsInt(s)
      [] r = 52 -> IsFloat(s)
      [] r = 53 -> /\ Len(s) >= 2 /\ Char(s, 1) = "'" /\ Char(s, Len(s)) = "'"
                   /\ ~\E i \in 2 .. Len(s) - 1 : Char(s, i) = "'"
      [] r = 54 -> Len(s) = 1 /\ s # "\n"}

(* Inside a comment. *)
CommentRules(s) ==
  IF s = "*/" THEN {2} ELSE IF Len(s) # 1 THEN {} ELSE IF s = "*" THEN {4} ELSE {3}

(* The tokens of str from position pos on, up to position end. *)
RECURSIVE Tokens(_, _, _, _)
Tokens(str, pos, end, comment) ==
  LET Applicable(n) ==
        LET s == SubSeq(str, pos, pos + n - 1) IN IF comment THEN CommentRules(s) ELSE Rules(s)
      lengths == {n \in 1 .. Len(str) + 1 - pos : Applicable(n) # {}}
      longest == CHOOSE n \in lengths : \A m \in lengths : m <= n
      rule == CHOOSE r \in Applicable(longest) : \A q \in Applicable(longest) : r <= q
      rest == Tokens(str, pos + longest, end, IF rule \in {1, 2} THEN rule = 1 ELSE comment)
  IN  IF pos >= end THEN <<>>
      ELSE IF rule \in 8 .. 53
      THEN <<RuleToken(rule, SubSeq(str, pos, pos + longest - 1))>> \o rest
      ELSE rest

(* Property: what yylex has returned is what the patterns of lex.l define, *)
(* however the characters before and behind a token look.  At the end it   *)
(* returns T_EOF.  A buffer is read from the state INITIAL: one that       *)
(* follows a statement with an open comment starts in STATE_COMMENT, and   *)
(* is not what its text alone defines (the situation open_comment).        *)
LexExact ==
  yy_c_buf_p > 0 =>
    SelectSeq(lexed, LAMBDA t : t.kind # "T_EOF") = Tokens(text, 1, yy_c_buf_p, FALSE)
=============================================================================
