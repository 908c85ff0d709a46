--------------------------- MODULE RecordPrinter ---------------------------
(***************************************************************************)
(* The table that answers a query (record_printer.h): lines are written    *)
(* piece by piece into a buffer of BUFFER_LENGTH bytes.  A piece that does *)
(* not fit is dropped and sets `ellipsis`, after which nothing but the     *)
(* record count is written.  Room for the count is kept free.              *)
(*                                                                         *)
(* A piece is what one column adds to a line, or the end of the line.      *)
(***************************************************************************)
EXTENDS Integers, Sequences

CONSTANTS
  BUFFER_LENGTH, RECORD_COUNT_LENGTH,
  ColPiece,        \* the length of a column's piece: COL_WIDTH + 3
  Text             \* what a column of a record may hold

ASSUME PrinterAssumption ==
  /\ BUFFER_LENGTH \in Nat /\ RECORD_COUNT_LENGTH \in Nat /\ ColPiece \in Nat
  /\ RECORD_COUNT_LENGTH < BUFFER_LENGTH
  /\ 2 <= ColPiece

VARIABLES
  num_cols,   \* columns of the table
  line,       \* none, separator or record: the line being printed
  rec_str,    \* its columns
  col,        \* the columns of it that are done
  lines,      \* the kinds of the lines finished
  offset,     \* bytes in the buffer
  ellipsis,
  sent,       \* pieces in the buffer
  asked,      \* pieces that were to be printed
  counted     \* the length of the count line once it is there, or 0

printVars == <<num_cols, line, rec_str, col, lines, offset, ellipsis, sent, asked, counted>>

EndOfSeparator == "+"
EndOfRecord == "|"
EndPieceLength == 2

-----------------------------------------------------------------------------

PrintInit ==
  /\ num_cols = 1 /\ line = "none" /\ rec_str = <<>> /\ col = 0 /\ lines = <<>>
  /\ offset = 0 /\ ellipsis = FALSE
  /\ sent = <<>> /\ asked = <<>> /\ counted = 0

(* A new printer on a context whose buffer is empty. *)
RecordPrinter(n) ==
  /\ n \in Nat \ {0}
  /\ num_cols' = n /\ line' = "none" /\ rec_str' = <<>> /\ col' = 0 /\ lines' = <<>>
  /\ offset' = 0 /\ ellipsis' = FALSE
  /\ sent' = <<>> /\ asked' = <<>> /\ counted' = 0

print_separator ==
  /\ line = "none" /\ counted = 0
  /\ line' = "separator" /\ rec_str' = [i \in 1 .. num_cols |-> "-"] /\ col' = 0
  /\ UNCHANGED <<num_cols, lines, offset, ellipsis, sent, asked, counted>>

print_record(rec) ==
  /\ line = "none" /\ counted = 0
  /\ rec \in [1 .. num_cols -> Text]
  /\ line' = "record" /\ rec_str' = rec /\ col' = 0
  /\ UNCHANGED <<num_cols, lines, offset, ellipsis, sent, asked, counted>>

Fits_NoReserve(length) == offset + length < BUFFER_LENGTH

Fits(length) == offset + RECORD_COUNT_LENGTH + length < BUFFER_LENGTH

(* The last piece of a record is dropped without setting the ellipsis. *)
Put(piece, length, marks) ==
  /\ asked' = Append(asked, piece)
  /\ IF ~ellipsis /\ Fits(length)
     THEN /\ sent' = Append(sent, piece)
          /\ offset' = offset + length
          /\ UNCHANGED ellipsis
     ELSE /\ ellipsis' = (ellipsis \/ marks)
          /\ UNCHANGED <<sent, offset>>

PrintCol ==
  /\ line # "none" /\ col < num_cols
  /\ Put(rec_str[col + 1], ColPiece, TRUE)
  /\ col' = col + 1
  /\ UNCHANGED <<num_cols, line, rec_str, lines, counted>>

PrintEnd ==
  /\ line # "none" /\ col = num_cols
  /\ Put(IF line = "separator" THEN EndOfSeparator ELSE EndOfRecord, EndPieceLength,
         line = "separator")
  /\ lines' = Append(lines, line)
  /\ line' = "none"
  /\ UNCHANGED <<num_cols, rec_str, col, counted>>

(* Every caller prints a separator before the count.  The count line has   *)
(* at most 26 characters and the digits of the number.                     *)
print_record_count(length) ==
  /\ line = "none" /\ counted = 0
  /\ lines # <<>> /\ lines[Len(lines)] = "separator"
  /\ length \in 1 .. RECORD_COUNT_LENGTH
  /\ offset' = offset + length
  /\ counted' = length
  /\ UNCHANGED <<num_cols, line, rec_str, col, lines, ellipsis, sent, asked>>

PrintStep == PrintCol \/ PrintEnd

PrintNext ==
  \/ \E n \in Nat \ {0} : RecordPrinter(n)
  \/ print_separator
  \/ \E rec \in [1 .. num_cols -> Text] : print_record(rec)
  \/ PrintStep
  \/ \E length \in 1 .. RECORD_COUNT_LENGTH : print_record_count(length)

PrintSpec == PrintInit /\ [][PrintNext]_printVars

-----------------------------------------------------------------------------

IsPrefixOf(s, t) == Len(s) <= Len(t) /\ \A i \in 1 .. Len(s) : s[i] = t[i]

(* Property: the buffer is never written past its end and keeps room for   *)
(* the final NUL; what is in it is the beginning of the table; and when    *)
(* the count is printed, either the table is complete or the ellipsis that *)
(* announces the cut is printed with it.                                   *)
AnswerFits ==
  /\ offset < BUFFER_LENGTH
  /\ IsPrefixOf(sent, asked)
  /\ counted # 0 => (sent = asked \/ ellipsis)

(* A piece was dropped silently: it ended a record and did not fit.        *)
SilentlyCut == sent # asked /\ ~ellipsis

PrintInv ==
  /\ num_cols \in Nat \ {0} /\ line \in {"none", "separator", "record"}
  /\ col \in 0 .. num_cols
  /\ lines \in Seq({"separator", "record"})
  /\ offset \in Nat /\ ellipsis \in BOOLEAN /\ counted \in 0 .. RECORD_COUNT_LENGTH
  /\ offset + RECORD_COUNT_LENGTH < BUFFER_LENGTH + counted
  /\ line # "none" => rec_str \in [1 .. num_cols -> Text \cup {"-"}] /\ counted = 0
  /\ sent \in Seq(Text \cup {"-", "+", "|"}) /\ asked \in Seq(Text \cup {"-", "+", "|"})
  /\ IsPrefixOf(sent, asked)
  /\ SilentlyCut =>
       /\ ~Fits(EndPieceLength)
       /\ counted = 0
       /\ line = "none" => (lines # <<>> /\ lines[Len(lines)] = "record")
       /\ line # "none" => col = 0
=============================================================================
