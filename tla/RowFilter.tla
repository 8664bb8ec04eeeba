----------------------------- MODULE RowFilter ------------------------------
(***************************************************************************)
(* Filter::bind_table and Filter::filter(const Record &) (condition_filter *)
(* .cpp): the predicate a scan applies to the raw records of one table.    *)
(* bind_table resolves each attribute side against the table meta, turns   *)
(* a CHARS constant compared with a DATES column into a DATES constant,    *)
(* checks and rewrites that constant in place with Check_and_format_date, *)
(* and refuses sides of different types.  filter compares the record's     *)
(* bytes with the constant: strcmp for CHARS and DATES, a 32-bit           *)
(* subtraction for INTS.                                                   *)
(*                                                                         *)
(* The table has a DATES column d, a CHARS column s and an INTS column n;  *)
(* a record maps each column to the bytes stored for it (a string of       *)
(* character codes, or an int).  FLOATS columns are left out.              *)
(***************************************************************************)
EXTENDS Integers, Sequences, SequencesExt

CONSTANTS
  Inputs, UPBOUNDYEAR, UPBOUNDMONTH, UPBOUNDDAY,  \* as in DateUtil
  Rows,     \* the records of the table, each with the date it stores
  Conds     \* the conditions a statement may carry: [left, right, op], a side
            \* [is_attr, field, type, data (a string), num (an int), in]

VARIABLES
  cond,   \* the condition, as bind_table leaves it
  frc,    \* bind_table's answer, "NONE" before it ran
  out     \* whether the scan ran, and the records filter accepted

vars == <<cond, frc, out>>

(* The date a CHARS constant was written for; NoIn for any other side. *)
NoIn == [str |-> <<>>, y |-> 0, m |-> 0, d |-> 0, shaped |-> FALSE]

DU == INSTANCE DateUtil WITH input <- NoIn, buf <- <<>>, rc <- "NONE"

NoOut == [done |-> FALSE, rows |-> {}]

(* The table meta: the type of each column. *)
FieldType == [d |-> "DATES", s |-> "CHARS", n |-> "INTS"]

(* TableMeta::field(name): nullptr for a name the table does not have. *)
field(name) == name \in DOMAIN FieldType

(* A side as bind_table leaves it: an attribute side takes the type of its
   field. *)
BindSide(s) == IF s.is_attr THEN [s EXCEPT !.type = FieldType[s.field]] ELSE s

(* The CHARS constant facing a DATES column becomes a DATES constant. *)
ToDate(s, other) ==
  IF other.is_attr /\ other.type = "DATES" /\ ~s.is_attr /\ s.type = "CHARS"
  THEN [s EXCEPT !.type = "DATES"] ELSE s

(* Mutant: the date checked on a copy, the constant left as written. *)
FormatSide_Copy(s) ==
  IF ~s.is_attr /\ s.type = "DATES"
  THEN [ok |-> DU!Check_and_format_date(s.data).rc = "SUCCESS", side |-> s]
  ELSE [ok |-> TRUE, side |-> s]

(* Check_and_format_date on a DATES constant, in place. *)
FormatSide(s) ==
  IF ~s.is_attr /\ s.type = "DATES"
  THEN LET r == DU!Check_and_format_date(s.data)
       IN  [ok |-> r.rc = "SUCCESS", side |-> [s EXCEPT !.data = r.out]]
  ELSE [ok |-> TRUE, side |-> s]

(* The last steps of bind_table, once both sides are typed: the left date
   is checked first and the right one only if the left passed (||). *)
BindChecked(c, fl) ==
  CASE ~fl.ok -> [rc |-> "SCHEMA_FIELD_TYPE_MISMATCH", cond |-> c]
    [] OTHER ->
         LET fr == FormatSide(c.right)
         IN  CASE ~fr.ok -> [rc |-> "SCHEMA_FIELD_TYPE_MISMATCH", cond |-> c]
               [] fl.side.type # fr.side.type ->
                    [rc |-> "SCHEMA_FIELD_TYPE_MISMATCH", cond |-> c]
               [] OTHER -> [rc |-> "SUCCESS",
                            cond |-> [c EXCEPT !.left = fl.side, !.right = fr.side]]

BindTyped(c, l, r) ==
  LET r2 == ToDate(r, l)
      l2 == ToDate(l, r2)
  IN  BindChecked([c EXCEPT !.left = l2, !.right = r2], FormatSide(l2))

(* Filter::bind_table. *)
bind_table(c) ==
  CASE c.left.is_attr /\ ~field(c.left.field) -> [rc |-> "SCHEMA_FIELD_MISSING", cond |-> c]
    [] c.right.is_attr /\ ~field(c.right.field) -> [rc |-> "SCHEMA_FIELD_MISSING", cond |-> c]
    [] OTHER -> BindTyped(c, BindSide(c.left), BindSide(c.right))

(* strcmp: the sign of the first difference; a proper prefix is smaller. *)
strcmp(a, b) ==
  LET n == IF Len(a) < Len(b) THEN Len(a) ELSE Len(b)
      k == SelectInSeq([i \in 1..n |-> a[i] # b[i]], LAMBDA x : x)
  IN  CASE k # 0      -> IF a[k] < b[k] THEN -1 ELSE 1
        [] Len(a) < Len(b) -> -1
        [] Len(a) > Len(b) -> 1
        [] OTHER -> 0

(* int left - right, wrapping modulo 2^32 as the 32-bit subtraction does;
   written so that no intermediate value leaves the 32-bit range. *)
IntMax == 2147483647
Int32Sub(l, r) ==
  CASE r < 0 /\ l > IntMax + r -> (l - IntMax - 1) - ((r + IntMax) + 1)
    [] r > 0 /\ l < -IntMax - 1 + r -> (l + IntMax + 1) - ((r - IntMax) - 1)
    [] OTHER -> l - r

(* compare_result. *)
compare_result(cmp, op) ==
  CASE op = "EQ" -> cmp = 0
    [] op = "LE" -> cmp <= 0
    [] op = "NE" -> cmp # 0
    [] op = "LT" -> cmp < 0
    [] op = "GE" -> cmp >= 0
    [] op = "GT" -> cmp > 0

SideData(s, rec) ==
  CASE s.is_attr         -> rec[s.field]
    [] s.type = "INTS"   -> s.num
    [] OTHER             -> s.data

(* The INTS cmp_result, left - right.  An overflow of the subtraction is
   undefined: a build wraps it (wrap), or, where it folds the subtraction
   into the sign test of compare_result, keeps the sign of the exact
   difference. *)
IntCmp(l, r, wrap) ==
  CASE wrap  -> Int32Sub(l, r)
    [] l < r -> -1
    [] l > r -> 1
    [] OTHER -> 0

(* Filter::filter(const Record &). *)
filter(c, rec, wrap) ==
  LET lv == SideData(c.left, rec)
      rv == SideData(c.right, rec)
  IN  compare_result(IF c.left.type = "INTS" THEN IntCmp(lv, rv, wrap) ELSE strcmp(lv, rv), c.op)

Init == cond \in Conds /\ frc = "NONE" /\ out = NoOut

(* The scan binds its filter to the table before it reads a record. *)
BindTable ==
  /\ frc = "NONE"
  /\ \E b \in {bind_table(cond)} : frc' = b.rc /\ cond' = b.cond
  /\ UNCHANGED out

(* The scan reads every record and keeps those the filter accepts, under
   either outcome of an overflowing subtraction. *)
FilterRecords ==
  /\ frc = "SUCCESS" /\ out = NoOut
  /\ \E wrap \in BOOLEAN :
       out' = [done |-> TRUE, rows |-> {r \in Rows : filter(cond, r.rec, wrap)}]
  /\ UNCHANGED <<cond, frc>>

Next == BindTable \/ FilterRecords

Spec == Init /\ [][Next]_vars
-----------------------------------------------------------------------------
(* The constant side of a condition between column d and a CHARS
   constant, whichever side the column is on. *)
DateCompare(c) ==
  \/ c.left.is_attr /\ c.left.field = "d" /\ ~c.right.is_attr /\ c.right.in # NoIn
  \/ c.right.is_attr /\ c.right.field = "d" /\ ~c.left.is_attr /\ c.left.in # NoIn

ConstOf(c) == IF c.left.is_attr THEN c.right ELSE c.left

DateRel(op, a, b) ==
  CASE op = "EQ" -> a = b
    [] op = "NE" -> a # b
    [] op = "LT" -> DU!DateBefore(a, b)
    [] op = "LE" -> ~DU!DateBefore(b, a)
    [] op = "GT" -> DU!DateBefore(b, a)
    [] op = "GE" -> ~DU!DateBefore(a, b)

(* spec.md 4.4 and 4.5: a condition comparing a DATE column with a string
   is accepted exactly when the string is a real date in range, in any of
   the forms it may be written in, and then the scan keeps exactly the
   records whose date stands in the relation to it, the column on either
   side.  It takes bind_table's coercion of the constant, its in-place
   rewrite by Check_and_format_date and strcmp on the stored bytes.  The
   bound day, which the code accepts and its documentation excludes, is
   left out, as in DateAccepted. *)
FilterMatchesDates ==
  frc # "NONE" /\ DateCompare(cond) /\ ~DU!BoundDay(ConstOf(cond).in) =>
    LET k == ConstOf(cond).in
    IN  IF DU!RealDate(k)
          THEN /\ frc = "SUCCESS"
               /\ out.done =>
                    out.rows = {r \in Rows :
                             IF cond.left.is_attr
                             THEN DateRel(cond.op, r.date, DU!DateOf(k))
                             ELSE DateRel(cond.op, DU!DateOf(k), r.date)}
          ELSE frc = "SCHEMA_FIELD_TYPE_MISMATCH"
-----------------------------------------------------------------------------
(* A condition between column n and an INTS constant. *)
IntCompare(c) ==
  \/ c.left.is_attr /\ c.left.field = "n" /\ ~c.right.is_attr /\ c.right.type = "INTS"
  \/ c.right.is_attr /\ c.right.field = "n" /\ ~c.left.is_attr /\ c.left.type = "INTS"

IntRel(op, a, b) ==
  CASE op = "EQ" -> a = b
    [] op = "NE" -> a # b
    [] op = "LT" -> a < b
    [] op = "LE" -> a <= b
    [] op = "GT" -> a > b
    [] op = "GE" -> a >= b

(* spec.md 4.5 (INT compares by subtraction): a condition comparing the
   INT column with an INT constant keeps exactly the records whose value
   stands in the relation to it, the column on either side, for every
   value an INT column can hold.  It takes the sign of Filter::filter's
   `left - right` as the order of the two ints. *)
FilterMatchesInts ==
  frc = "SUCCESS" /\ out.done /\ IntCompare(cond) =>
    out.rows = {r \in Rows :
                  IF cond.left.is_attr THEN IntRel(cond.op, r.rec.n, cond.right.num)
                  ELSE IntRel(cond.op, cond.left.num, r.rec.n)}
====
