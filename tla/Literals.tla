------------------------------ MODULE Literals ------------------------------
(***************************************************************************)
(* Numbers and datetimes written in a statement: the test of an integer's  *)
(* text against the limits of its type (analyze.cpp), std::stoi, and the   *)
(* validation and packing of a datetime (datetime_util.h).                 *)
(*                                                                         *)
(* The widths are scaled down: INT_MAX and INT64_MAX are constants, and the*)
(* lowest value of a type is -max - 1.                                     *)
(***************************************************************************)
EXTENDS Integers, Sequences, SequencesExt

CONSTANTS
  IntText,      \* from the text of an integer to its sign and digits
  INT_MAX, INT64_MAX,
  StringText    \* from the text of a string to its length, its rank among the
                \* texts and, if it has the separators and digits of a
                \* datetime, its six numbers

ASSUME LiteralAssumption ==
  /\ INT_MAX \in Nat /\ INT64_MAX \in Nat /\ INT_MAX < INT64_MAX
  /\ \A t \in DOMAIN IntText :
       IntText[t].sign \in {"", "+", "-"} /\ IntText[t].digits \in Seq(0 .. 9) \ {<<>>}

-----------------------------------------------------------------------------
(* Integers. *)

Digits[n \in 0 .. INT64_MAX + 1] ==
  IF n < 10 THEN <<n>> ELSE Append(Digits[n \div 10], n % 10)

to_string(n) ==
  IF n < 0 THEN [sign |-> "-", digits |-> Digits[-n]] ELSE [sign |-> "", digits |-> Digits[n]]

(* std::string::compare of two texts of the same length. *)
CompareText(a, b) ==
  LET differ == {i \in DOMAIN a : a[i] # b[i]}
      first == CHOOSE i \in differ : \A j \in differ : i <= j
  IN  IF differ = {} THEN 0 ELSE IF a[first] < b[first] THEN -1 ELSE 1

compare_pos_int_string(a, b) ==
  IF Len(a) # Len(b) THEN (IF Len(a) < Len(b) THEN -1 ELSE 1) ELSE CompareText(a, b)

compare_int_string(a, b) ==
  IF a.sign = "-" /\ b.sign # "-" THEN -1
  ELSE IF a.sign # "-" /\ b.sign = "-" THEN 1
  ELSE IF a.sign = "-" THEN -compare_pos_int_string(a.digits, b.digits)
  ELSE compare_pos_int_string(a.digits, b.digits)

no_overflow(text, max) ==
  /\ compare_int_string(IntText[text], to_string(max)) <= 0
  /\ compare_int_string(IntText[text], to_string(-max - 1)) >= 0

(* The number a text stands for. *)
Number(text) ==
  LET n == FoldLeft(LAMBDA acc, d : 10 * acc + d, 0, IntText[text].digits)
  IN  IF IntText[text].sign = "-" THEN -n ELSE n

(* std::stoi and std::stoll throw std::out_of_range, which is not an        *)
(* RMDBError and which nothing catches.                                     *)
InRange(n, max) == -max - 1 <= n /\ n <= max
stoi_throws(text, max) == ~InRange(Number(text), max)
stoi(text) == Number(text)

-----------------------------------------------------------------------------
(* Datetimes.  The 64-bit value is the sequence of its bytes, high byte    *)
(* first; it is never negative, so values compare as their bytes do.       *)

is_leap_year(year) == (year % 4 = 0 /\ year % 100 # 0) \/ year % 400 = 0

days_in_month(year, month) ==
  IF month = 2 /\ is_leap_year(year) THEN 29
  ELSE <<31, 28, 31, 30, 31, 30, 31, 31, 30, 31, 30, 31>>[month]

pack_datetime(d) ==
  <<d.year \div 256, d.year % 256, d.month, d.day, d.hour, d.minute, d.second, 0>>

unpack_datetime(v) ==
  [year |-> 256 * v[1] + v[2], month |-> v[3], day |-> v[4],
   hour |-> v[5], minute |-> v[6], second |-> v[7]]

(* The fields that snprintf prints, each with its full width. *)
format_datetime(v) == unpack_datetime(v)

IsDatetime(text) ==
  LET s == StringText[text]
      d == s.fields
  IN  /\ s.len = 19
      /\ s.shaped
      /\ d.year >= 1000 /\ d.year <= 9999
      /\ d.month >= 1 /\ d.month <= 12
      /\ d.day >= 1 /\ d.day <= days_in_month(d.year, d.month)
      /\ d.hour <= 23
      /\ d.minute <= 59
      /\ d.second <= 59

parse_datetime(text) == pack_datetime(StringText[text].fields)

-----------------------------------------------------------------------------
(* Reference definitions. *)

(* The number of days from the first of January of year 1 to a date of the *)
(* Gregorian calendar: a year of 365 days, a leap day for the Februaries   *)
(* passed, and the days of the months passed.                              *)
DayNumber(year, month, day) ==
  LET y == IF month > 2 THEN year ELSE year - 1
      before == <<0, 31, 59, 90, 120, 151, 181, 212, 243, 273, 304, 334>>
  IN  365 * year + y \div 4 - y \div 100 + y \div 400 + before[month] + day

MonthLength(year, month) ==
  IF month = 12 THEN 31 ELSE DayNumber(year, month + 1, 1) - DayNumber(year, month, 1)

GregorianDatetime(d) ==
  /\ d.year \in 1000 .. 9999 /\ d.month \in 1 .. 12
  /\ d.day \in 1 .. MonthLength(d.year, d.month)
  /\ d.hour \in 0 .. 23 /\ d.minute \in 0 .. 59 /\ d.second \in 0 .. 59

Seconds(d) == 3600 * d.hour + 60 * d.minute + d.second

Earlier(a, b) ==
  LET da == DayNumber(a.year, a.month, a.day)
      db == DayNumber(b.year, b.month, b.day)
  IN  da < db \/ (da = db /\ Seconds(a) < Seconds(b))

Canonical(text) == IntText[text].digits = <<0>> \/ IntText[text].digits[1] # 0

(* An integer literal passes the overflow test only if std::stoi cannot     *)
(* throw on it, and a literal without leading zeros passes whenever its    *)
(* number fits the type.  A text that is accepted as a datetime is one of  *)
(* the Gregorian calendar and conversely; formatting gives it back, and    *)
(* the packed values of two datetimes compare as the datetimes and their   *)
(* texts do.                                                               *)
LiteralsExactFor(ints, strings) ==
  /\ \A t \in ints, max \in {INT_MAX, INT64_MAX} :
       /\ no_overflow(t, max) => ~stoi_throws(t, max)
       /\ Canonical(t) /\ ~stoi_throws(t, max) => no_overflow(t, max)
  /\ \A s \in strings :
       StringText[s].len = 19 /\ StringText[s].shaped =>
         (IsDatetime(s) <=> GregorianDatetime(StringText[s].fields))
  /\ \A s \in strings : IsDatetime(s) =>
       format_datetime(parse_datetime(s)) = StringText[s].fields
  /\ \A s, t \in strings : IsDatetime(s) /\ IsDatetime(t) =>
       /\ CompareText(parse_datetime(s), parse_datetime(t)) < 0
            <=> Earlier(StringText[s].fields, StringText[t].fields)
       /\ CompareText(parse_datetime(s), parse_datetime(t)) < 0
            <=> StringText[s].ord < StringText[t].ord
=============================================================================
