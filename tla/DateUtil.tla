------------------------------ MODULE DateUtil ------------------------------
(***************************************************************************)
(* DateUtil::Check_and_format_date (meta_util.cpp): the check a CHARS      *)
(* value goes through before it is taken as a DATES value (an INSERT or    *)
(* UPDATE of a DATES column, a condition against one).  It matches the     *)
(* string with ^[0-9]{0,4}-[0-9]{1,2}-[0-9]{1,2}$, reads year, month and   *)
(* day with atoi, checks the calendar and the range of theGlobalDateUtil,  *)
(* and on success rewrites the buffer in place as YYYY-MM-DD, the form     *)
(* every DATES comparison (strcmp) relies on.                              *)
(*                                                                         *)
(* A string is a sequence of character codes.  `input` is one of the      *)
(* strings a statement may carry, with the date it was written for;        *)
(* `buf` is the value's data buffer.                                       *)
(***************************************************************************)
EXTENDS Integers, Sequences, SequencesExt

CONSTANTS
  Inputs,        \* [str, y, m, d, shaped]: a string and what it was written as
  UPBOUNDYEAR,   \* theGlobalDateUtil: the bound of check_dateRange
  UPBOUNDMONTH,
  UPBOUNDDAY

VARIABLES
  input,   \* the string the parser produced, with its intended date
  buf,     \* Value::data
  rc       \* the answer, or "NONE" before the check

vars == <<input, buf, rc>>

Dash == 45
IsDigit(c) == c \in 48..57

(* std::regex_match(datas, "^[0-9]{0,4}-[0-9]{1,2}-[0-9]{1,2}$") *)
regex_match(s) ==
  \E i, j \in 1..Len(s) :
    /\ i < j /\ s[i] = Dash /\ s[j] = Dash
    /\ \A k \in (1..Len(s)) \ {i, j} : IsDigit(s[k])
    /\ i - 1 \in 0..4 /\ j - i - 1 \in 1..2 /\ Len(s) - j \in 1..2

(* atoi: an optional '-' sign, then the leading decimal digits. *)
atoi(s) ==
  LET neg == Len(s) > 0 /\ s[1] = Dash
      t   == IF neg THEN Tail(s) ELSE s
      k   == SelectInSeq(t, LAMBDA c : ~IsDigit(c))
      p   == IF k = 0 THEN t ELSE SubSeq(t, 1, k - 1)
      n   == FoldLeft(LAMBDA acc, c : 10 * acc + (c - 48), 0, p)
  IN  IF neg THEN -n ELSE n

(* strchr(datas, '-') + 1 *)
AfterDash(s) == SubSeq(s, SelectInSeq(s, LAMBDA c : c = Dash) + 1, Len(s))

(* The decimal digits of 0 <= n < 10^5, as sprintf writes them: the regex
   admits at most four digits per field. *)
Digits(n) ==
  LET w == CHOOSE w \in 1..5 : n < 10^w /\ (w = 1 \/ n >= 10^(w - 1))
  IN  [i \in 1..w |-> 48 + ((n \div 10^(w - i)) % 10)]

(* sprintf(tp, "%0wd", n): at least w characters, zeros in front. *)
sprintf_pad(n, w) ==
  LET ds == Digits(n)
  IN  [i \in 1..(w - Len(ds)) |-> 48] \o ds

(* DateUtil::check_dateRange: before UPBOUND, compared field by field, and
   from 1970 on. *)
check_dateRange(y, m, d) ==
  LET isvalid == CASE y # UPBOUNDYEAR  -> y < UPBOUNDYEAR
                   [] m # UPBOUNDMONTH -> m < UPBOUNDMONTH
                   [] d # UPBOUNDDAY   -> d < UPBOUNDDAY
                   [] OTHER            -> TRUE
  IN  isvalid /\ y >= 1970

(* Mutant: every year divisible by 100 is a common year. *)
IsLeap_No400(y) == y % 4 = 0 /\ y % 100 # 0

IsLeap(y) == (y % 400 = 0) \/ (y % 4 = 0 /\ y % 100 # 0)

(* Mutant: the month written with %d instead of %02d. *)
Formatted_NoPad(y, m, d) ==
  sprintf_pad(y, 4) \o <<Dash>> \o Digits(m) \o <<Dash>> \o sprintf_pad(d, 2)

(* The text the three sprintf calls and the two dashes leave, up to the
   NUL at tp[10]. *)
Formatted(y, m, d) ==
  sprintf_pad(y, 4) \o <<Dash>> \o sprintf_pad(m, 2) \o <<Dash>> \o sprintf_pad(d, 2)

(* DateUtil::Check_and_format_date on a buffer: the answer and the buffer
   it leaves.  With no year digits atoi reads the first dash as a sign. *)
Check_and_format_date(s) ==
  LET y == atoi(s)
      m == atoi(AfterDash(s))
      d == atoi(AfterDash(AfterDash(s)))
      leapyear == IF IsLeap(y) THEN 1 ELSE 0
      mismatch == [rc |-> "SCHEMA_FIELD_TYPE_MISMATCH", out |-> s]
  IN  CASE ~regex_match(s) -> mismatch
        [] y < 0 \/ m < 0 \/ d < 0 -> mismatch
        [] m > 12 \/ m < 1 \/ d > 31 \/ d < 1
           \/ (m \in {4, 6, 9, 11} /\ d > 30)
           \/ (m = 2 /\ d > 28 + leapyear) -> mismatch
        [] ~check_dateRange(y, m, d) -> mismatch
        [] OTHER -> [rc |-> "SUCCESS", out |-> Formatted(y, m, d)]

Init ==
  /\ input \in Inputs
  /\ buf = input.str
  /\ rc = "NONE"

(* The value is checked once, and the buffer rewritten in place. *)
CheckAndFormat ==
  LET r == Check_and_format_date(buf)
  IN  /\ rc = "NONE"
      /\ rc' = r.rc
      /\ buf' = r.out
      /\ UNCHANGED input

Next == CheckAndFormat

Spec == Init /\ [][Next]_vars
-----------------------------------------------------------------------------
(* The calendar, stated without the code's arithmetic: the days of a
   month, February having a 29th in years divisible by 4 except the
   centuries not divisible by 400. *)
MonthDays(y, m) ==
  CASE m = 2 -> IF y % 4 = 0 /\ ~(y % 100 = 0 /\ y % 400 # 0) THEN 29 ELSE 28
    [] m \in {4, 6, 9, 11} -> 30
    [] OTHER -> 31

DateBefore(a, b) ==
  \/ a[1] < b[1]
  \/ a[1] = b[1] /\ a[2] < b[2]
  \/ a[1] = b[1] /\ a[2] = b[2] /\ a[3] < b[3]

DateOf(i) == <<i.y, i.m, i.d>>

UpperBound == <<UPBOUNDYEAR, UPBOUNDMONTH, UPBOUNDDAY>>

(* A real date of the range the DATES type holds, as spec.md 4.4 and the
   comments at meta_util.h:33 and meta_util.cpp:13 give it: from
   1970-01-01 up to, not including, the bound. *)
RealDate(i) ==
  /\ i.shaped
  /\ i.m \in 1..12
  /\ i.d \in 1..MonthDays(i.y, i.m)
  /\ ~DateBefore(DateOf(i), <<1970, 1, 1>>)
  /\ DateBefore(DateOf(i), UpperBound)

(* The bound day itself, on which check_dateRange (meta_util.cpp:21)
   and its documentation disagree; see the hazards. *)
BoundDay(i) == i.shaped /\ DateOf(i) = UpperBound

(* spec.md 4.4 and test S3: a CHARS value is taken as a DATES value exactly
   when it is a real date in range: leap days only in leap years, no 31st
   in a short month, nothing before 1970-01-01 or after the bound.  It
   is stated for every value but the bound day, which the code accepts
   and its documentation excludes. *)
DateAccepted ==
  rc # "NONE" /\ ~BoundDay(input) => (rc = "SUCCESS" <=> RealDate(input))

(* strcmp on C strings of character codes: the first difference decides;
   a proper prefix is smaller. *)
StrLess(a, b) ==
  \E k \in 0..Len(a) :
    /\ k <= Len(b)
    /\ SubSeq(a, 1, k) = SubSeq(b, 1, k)
    /\ \/ k = Len(a) /\ k < Len(b)
       \/ k < Len(a) /\ k < Len(b) /\ a[k + 1] < b[k + 1]

AcceptedOut == {[in |-> i, out |-> Check_and_format_date(i.str).out] :
                  i \in {i \in Inputs : Check_and_format_date(i.str).rc = "SUCCESS"}}

(* spec.md 4.5: DATES compare with strcmp on the canonical form.  Whatever
   form the date was written in ("2020-1-9", "2020-01-09"), the buffer the
   check leaves compares with that of any other accepted value as the
   dates do, and equal buffers mean equal dates. *)
DateOrder ==
  rc = "SUCCESS" =>
    \A o \in AcceptedOut :
      /\ StrLess(buf, o.out) <=> DateBefore(DateOf(input), DateOf(o.in))
      /\ (buf = o.out) <=> (DateOf(input) = DateOf(o.in))
=============================================================================
