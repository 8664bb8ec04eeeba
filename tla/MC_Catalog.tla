------------------------------ MODULE MC_Catalog ------------------------------
(***************************************************************************)
(* The catalog side of a table, in three parts that share no state: the   *)
(* page layout of PageLayout (a CREATE TABLE and the first data page), the *)
(* DATES check of DateUtil (a value written into a DATE column), and the   *)
(* table's files of TableFiles (create, drop, create_index, crashes and    *)
(* the open at start-up), and the record filter of RowFilter (a scan       *)
(* binding a condition to the table and applying it to its records), and  *)
(* the output of a SELECT of OutputSchema (its schema, scans, cartesian    *)
(* node and projection), and the statements of Table over one UNIQUE     *)
(* index (INSERT and CREATE INDEX), and the TEXT rows of TextTable over   *)
(* their record file, and a plain record file of RecordFile.  One        *)
(* behaviour runs one of them while the others                           *)
(* stay in their initial state, so none multiplies the states of the      *)
(* others.                                                                 *)
(***************************************************************************)
EXTENDS Integers, Sequences, TLC

CONSTANTS
  BP_PAGE_SIZE, PAGENUMSIZE, DATESSIZE, TEXTSIZE, MAX_NUM, TrxFieldLen,
  IntLen, CharLens,
  Inputs, UPBOUNDYEAR, UPBOUNDMONTH, UPBOUNDDAY,
  IndexNames, MaxFaults,
  NULL, GARBAGE, NoRel, NoRecord

VARIABLES attrs, meta, header, rc, input, buf, drc,
          metaFile, metaIdx, data, idxFiles, tbl, pc, todo, db, res, faults,
          cond, frc, out,
          qsel, schema, scans, joined, shown, qstage,
          slot, indexes, tree, resp,
          page_count, allocated, hdr, rdata, fh, scan, text, rresp, tpage, pending,
          f_page_count, f_allocated, f_hdr, f_data, f_fh, f_scan, f_text, f_resp

\* The empty date slot: no string has been given to the check.
NoInput == [str |-> <<>>, y |-> 0, m |-> 0, d |-> 0, shaped |-> FALSE]

\* The strings the check is run on: years around both ends of the range
\* and around the leap rules, months and days around their limits, each
\* written with and without a leading zero, and strings the regex refuses.
\* The numeral is written here, not with DateUtil's sprintf_pad, so that
\* the inputs do not depend on the module they are given to.
Hyphen == 45

Numeral(n, w) ==
  LET k  == CHOOSE k \in 1..5 : n < 10^k /\ (k = 1 \/ n >= 10^(k - 1))
      ds == [i \in 1..k |-> 48 + ((n \div 10^(k - i)) % 10)]
  IN  [i \in 1..(w - k) |-> 48] \o ds

Years  == {1969, 1970, 2000, 2021, 2024, 2037, 2038, 2039}
Months == {0, 1, 2, 3, 4, 9, 10, 12, 13}
Days   == {0, 1, 28, 29, 30, 31, 32}

\* The widths a month or day of value n may be written with.
Widths(n) == IF n < 10 THEN {1, 2} ELSE {2}

Written(y, m, d, wm, wd) ==
  [str |-> Numeral(y, 4) \o <<Hyphen>> \o Numeral(m, wm) \o <<Hyphen>> \o Numeral(d, wd),
   y |-> y, m |-> m, d |-> d, shaped |-> TRUE]

Shaped ==
  UNION {{Written(y, m, d, wm, wd) : wm \in Widths(m), wd \in Widths(d)} :
           <<y, m, d>> \in Years \X Months \X Days}

\* Not a date whatever the numbers: a three-digit month, a five-digit
\* year, a slash for a dash, a missing day, a missing year.
Bad(str) == [str |-> str, y |-> 2020, m |-> 1, d |-> 1, shaped |-> FALSE]

Malformed ==
  {Bad(Numeral(2020, 4) \o <<Hyphen>> \o Numeral(1, 3) \o <<Hyphen>> \o Numeral(1, 2)),
   Bad(Numeral(2020, 5) \o <<Hyphen>> \o Numeral(1, 2) \o <<Hyphen>> \o Numeral(1, 2)),
   Bad(Numeral(2020, 4) \o <<47>> \o Numeral(1, 2) \o <<Hyphen>> \o Numeral(1, 2)),
   Bad(Numeral(2020, 4) \o <<Hyphen>> \o Numeral(1, 2) \o <<Hyphen>>),
   Bad(<<Hyphen>> \o Numeral(12, 2) \o <<Hyphen>> \o Numeral(31, 2))}

MCInputs == Shaped \cup Malformed

\* The canonical text of a date, as a DATES column stores it.
Canonical(y, m, d) ==
  Numeral(y, 4) \o <<Hyphen>> \o Numeral(m, 2) \o <<Hyphen>> \o Numeral(d, 2)

\* Five records: dates on both sides of a month, a year and a leap day.
RowDates == {<<2019, 12, 31>>, <<2020, 1, 9>>, <<2020, 2, 29>>, <<2020, 3, 1>>, <<2021, 1, 1>>}

MCRows == {[rec |-> [d |-> Canonical(t[1], t[2], t[3]),
                     s |-> Numeral(t[1], 4), n |-> t[3]],
            date |-> t] : t \in RowDates}

\* The sides of a condition: a column, a string written for a date (or
\* not a date at all), an int.
Attr(f)   == [is_attr |-> TRUE, field |-> f, type |-> "UNDEFINED", data |-> <<>>, num |-> 0, in |-> NoInput]
Str(i)    == [is_attr |-> FALSE, field |-> "", type |-> "CHARS", data |-> i.str, num |-> 0, in |-> i]
IntVal(v) == [is_attr |-> FALSE, field |-> "", type |-> "INTS", data |-> <<>>, num |-> v, in |-> NoInput]

\* Date strings: a row's date written short and long, dates between the
\* rows, a leap day of a common year, the bound and the day after it, a
\* string the regex refuses.
DateStrs ==
  {Written(2020, 1, 9, 1, 1), Written(2020, 1, 9, 2, 2), Written(2020, 2, 1, 1, 1),
   Written(2019, 12, 31, 2, 2), Written(2021, 2, 29, 2, 2), Written(2038, 3, 1, 1, 1),
   Written(2038, 3, 2, 2, 2), Written(1969, 12, 31, 2, 2)}
   \cup {Bad(Numeral(2020, 4) \o <<47>> \o Numeral(1, 2) \o <<Hyphen>> \o Numeral(1, 2))}

Ops == {"EQ", "NE", "LT", "LE", "GT", "GE"}

Cond(l, r, op) == [left |-> l, right |-> r, op |-> op]

\* The date conditions with the column on either side, and the others:
\* a CHARS and an INTS column against constants of their own type and of
\* the wrong one, two columns, two constants, a column the table lacks.
MCConds ==
  {Cond(Attr("d"), Str(i), op) : i \in DateStrs, op \in Ops}
  \cup {Cond(Str(i), Attr("d"), op) : i \in DateStrs, op \in Ops}
  \cup {Cond(Attr("s"), Str(Written(2020, 1, 9, 1, 1)), op) : op \in {"EQ", "LT"}}
  \cup {Cond(Attr("n"), IntVal(v), op) : v \in {9, 31}, op \in {"EQ", "GT"}}
  \cup {Cond(IntVal(1), Attr("n"), "LT"), Cond(Attr("n"), Str(Written(2020, 1, 9, 1, 1)), "EQ"),
         Cond(Attr("d"), Attr("s"), "EQ"), Cond(Attr("d"), Attr("d"), "EQ"),
         Cond(IntVal(1), IntVal(2), "LT"), Cond(Attr("x"), IntVal(1), "EQ"),
         Cond(IntVal(1), Attr("x"), "EQ")}
-----------------------------------------------------------------------------

\* Two tables sharing the column name id, a NULL in each, and the select
\* lists of `select *`, of qualified, unqualified and `t.*` columns, over
\* one or two tables, listed or joined.
MCFields == ("t1" :> <<"id", "a">>) @@ ("t2" :> <<"id", "b">>)
MCStored == ("t1" :> {[id |-> 1, a |-> NULL], [id |-> NULL, a |-> 2]})
            @@ ("t2" :> {[id |-> 1, b |-> 2], [id |-> 2, b |-> NULL]})
Col(r, n) == [rel |-> r, name |-> n]
MCSelections ==
  {[attrs |-> <<Col(NoRel, "*")>>, relations |-> <<"t1", "t2">>, joins |-> <<>>],
   [attrs |-> <<Col("t1", "id"), Col("t2", "id")>>, relations |-> <<"t1", "t2">>, joins |-> <<>>],
   [attrs |-> <<Col(NoRel, "a"), Col("t1", "*")>>, relations |-> <<"t1">>, joins |-> <<>>],
   [attrs |-> <<Col(NoRel, "*")>>, relations |-> <<"t1">>, joins |-> <<"t2">>],
   [attrs |-> <<Col("t2", "b"), Col(NoRel, "id")>>, relations |-> <<"t1", "t2">>, joins |-> <<>>]}
NoQuery == [attrs |-> <<>>, relations |-> <<>>, joins |-> <<>>]

\* Two columns, the second NULLABLE, two values, two slots and one index
\* name, so that an INSERT fails on the first index it touches; the
\* conditions are only those Table's Next needs for its scans.
TBFields == {"a", "b"}
TBConds  == {[lhsAttr |-> TRUE, field |-> f, op |-> o, val |-> 1] :
               f \in TBFields, o \in {"EQ", "GE"}}

PL == INSTANCE PageLayout
DU == INSTANCE DateUtil WITH rc <- drc
TF == INSTANCE TableFiles WITH meta <- metaFile
RF == INSTANCE RowFilter WITH Rows <- MCRows, Conds <- MCConds
OS == INSTANCE OutputSchema WITH Fields <- MCFields, TRX <- "__trx",
        Stored <- MCStored, Selections <- MCSelections
TB == INSTANCE Table WITH Fields <- TBFields, Nullable <- {"b"}, Vals <- {1, 2},
        MaxRecords <- 2, IndexNames <- {"u1"}, UniqueOpts <- {TRUE},
        Conds <- TBConds, MaxConds <- 0, UpdateFields <- {}
\* One TEXT column with non-NULL values, two rows per data page and room
\* for two rows with their overflow pages.
TT == INSTANCE TextTable WITH MaxPages <- 5, Cap <- 2, Vals <- {"v1"},
        NullText <- {FALSE}, data <- rdata, resp <- rresp
\* A plain record file of two data pages of two slots and two values.
RFL == INSTANCE RecordFile WITH MaxPages <- 3, Cap <- 2, Vals <- {"v1", "v2"},
         page_count <- f_page_count, allocated <- f_allocated, hdr <- f_hdr,
         data <- f_data, fh <- f_fh, scan <- f_scan, text <- f_text,
         resp <- f_resp

plvars == <<attrs, meta, header, rc>>
duvars == <<input, buf, drc>>
tfvars == <<metaFile, metaIdx, data, idxFiles, tbl, pc, todo, db, res, faults>>
rfvars == <<cond, frc, out>>
osvars == <<qsel, schema, scans, joined, shown, qstage>>
tbvars == <<slot, indexes, tree, resp>>
ttvars == <<page_count, allocated, hdr, rdata, fh, scan, text, rresp, tpage, pending>>
flvars == <<f_page_count, f_allocated, f_hdr, f_data, f_fh, f_scan, f_text, f_resp>>

DateIdle == input = NoInput

\* No file of the table has been made: the database as it first starts.
FilesIdle == TF!Init

\* No condition has been given to the scan.
NoCond == [none |-> TRUE]
FilterIdle == cond = NoCond /\ frc = "NONE" /\ out = RF!NoOut

\* No SELECT has been given to the executor.
QueryIdle == qsel = NoQuery

\* No statement has reached the table of Table.
TableIdle == TB!Init

\* No call has reached the TEXT table's record file.
TextIdle == TT!TTInit

\* No call has reached the plain record file.
RecIdle == RFL!Init

\* A step of the plain record file, the other parts left as they are.
FLStep(A) == A /\ UNCHANGED <<plvars, duvars, tfvars, rfvars, osvars, tbvars, ttvars>>

Init ==
  /\ PL!Init /\ input = NoInput /\ buf = <<>> /\ drc = "NONE" /\ TF!Init
  /\ cond = NoCond /\ frc = "NONE" /\ out = RF!NoOut
  /\ qsel = NoQuery /\ schema = <<>> /\ scans = OS!NoFn /\ joined = OS!NoSet
  /\ shown = {} /\ qstage = "plan" /\ TB!Init /\ TT!TTInit /\ RFL!Init

\* A statement hands a string to the check, on the freshly started catalog.
GiveDate ==
  /\ DateIdle /\ PL!Init /\ FilesIdle /\ FilterIdle /\ QueryIdle /\ TableIdle /\ TextIdle /\ RecIdle
  /\ input' \in Inputs
  /\ buf' = input'.str
  /\ UNCHANGED <<plvars, drc, tfvars, rfvars, osvars, tbvars, ttvars, flvars>>

\* A statement hands a condition to a scan of the table of MCRows.
GiveCond ==
  /\ FilterIdle /\ DateIdle /\ PL!Init /\ FilesIdle /\ QueryIdle /\ TableIdle /\ TextIdle /\ RecIdle
  /\ cond' \in MCConds
  /\ UNCHANGED <<plvars, duvars, tfvars, frc, out, osvars, tbvars, ttvars, flvars>>

\* A SELECT of MCSelections reaches ExecutorBuilder::build.
GiveSelect ==
  /\ QueryIdle /\ FilterIdle /\ DateIdle /\ PL!Init /\ FilesIdle /\ TableIdle /\ TextIdle /\ RecIdle
  /\ qsel' \in MCSelections
  /\ UNCHANGED <<plvars, duvars, tfvars, rfvars, schema, scans, joined, shown, qstage,
                 tbvars, ttvars, flvars>>

Next ==
  \/ DateIdle /\ FilesIdle /\ FilterIdle /\ QueryIdle /\ TableIdle /\ TextIdle /\ RecIdle /\ PL!Next
     /\ UNCHANGED <<duvars, tfvars, rfvars, osvars, tbvars, ttvars, flvars>>
  \/ GiveDate
  \/ ~DateIdle /\ DU!Next /\ UNCHANGED <<plvars, tfvars, rfvars, osvars, tbvars, ttvars, flvars>>
  \/ DateIdle /\ PL!Init /\ FilterIdle /\ QueryIdle /\ TableIdle /\ TextIdle /\ RecIdle /\ TF!Next
     /\ UNCHANGED <<plvars, duvars, rfvars, osvars, tbvars, ttvars, flvars>>
  \/ GiveCond
  \/ ~FilterIdle /\ RF!Next /\ UNCHANGED <<plvars, duvars, tfvars, osvars, tbvars, ttvars, flvars>>
  \/ GiveSelect
  \/ ~QueryIdle /\ OS!Next /\ UNCHANGED <<plvars, duvars, tfvars, rfvars, tbvars, ttvars, flvars>>
  \/ DateIdle /\ PL!Init /\ FilesIdle /\ FilterIdle /\ QueryIdle /\ TextIdle /\ RecIdle /\ TB!Next
     /\ UNCHANGED <<plvars, duvars, tfvars, rfvars, osvars, ttvars, flvars>>
  \/ DateIdle /\ PL!Init /\ FilesIdle /\ FilterIdle /\ QueryIdle /\ TableIdle /\ RecIdle
     /\ TT!TTNext /\ UNCHANGED <<plvars, duvars, tfvars, rfvars, osvars, tbvars, flvars>>
  \/ DateIdle /\ PL!Init /\ FilesIdle /\ FilterIdle /\ QueryIdle /\ TableIdle /\ TextIdle
     /\ FLStep(RFL!Next)

allvars == <<plvars, duvars, tfvars, rfvars, osvars, tbvars, ttvars, flvars>>

\* TableFiles' handler steps and the start-up open, the other parts idle.
TFStep(A) == A /\ UNCHANGED <<plvars, duvars, rfvars, osvars, tbvars, ttvars, flvars>>

\* Fairness is on the steps of a statement already begun: a begun handler
\* of TableFiles is run to its return and an open scan of the plain
\* record file to its end (spec.md 5, one worker runs a statement to
\* completion), and the database opens its tables when it starts.  Which
\* statement comes next, and whether one comes at all, is the client's
\* choice.
Spec == Init /\ [][Next]_allvars
          /\ WF_allvars(TFStep(TF!HandlerStep))
          /\ WF_allvars(FLStep(RFL!ScanNext))
-----------------------------------------------------------------------------
\* The types of the layout's, the files', the query's and the table's state.
TypeOK == PL!TypeOK /\ TF!TypeOK /\ OS!TypeOK /\ TB!TypeOK /\ TT!TTTypeOK /\ RFL!TypeOK

\* init_empty_page wastes no slot (PageLayout).
CapacityMaximal == PL!CapacityMaximal

\* Check_and_format_date accepts exactly the real dates in range (DateUtil).
DateAccepted == DU!DateAccepted

\* The canonical buffers compare under strcmp as the dates do (DateUtil).
DateOrder == DU!DateOrder

\* A written meta file names an index whose file is gone only once the
\* data file is gone too (TableFiles: the order of drop and create_index).
IndexFilesBeforeMeta == TF!IndexFilesBeforeMeta

\* A drop that returns SUCCESS leaves none of the table's files (TableFiles).
DropComplete == TF!DropComplete

\* A begun create, drop or create_index returns (TableFiles).
HandlerReturns == TF!HandlerReturns


\* A DATE column against a string keeps exactly the records whose date
\* stands in the relation to it, in any written form (RowFilter).
FilterMatchesDates == RF!FilterMatchesDates

\* Every tuple of a SELECT shows the values its rows stored, NULLs
\* included, for every combination of rows (OutputSchema).
ShowsStoredValues == OS!ShowsStoredValues

\* The output schema has every column the select list asks for
\* (OutputSchema).
SchemaRequested == OS!SchemaRequested

\* A UNIQUE index never covers two live rows with the same key (Table).
UniqueKeys == TB!UniqueKeys

\* An INSERT fails with RECORD_DUPLICATE_KEY iff a live row has its key in
\* a UNIQUE index (Table).
InsertFailsIffDuplicate == TB!InsertFailsIffDuplicate

\* Every live TEXT row names an overflow page of its own that holds no
\* records (TextTable).
TextOwned == TT!TextOwned

\* The record file of the TEXT table implements RecordStore (TextTable).
AbsSpec == TT!AbsSpec


\* The plain record file implements RecordStore: every insert, delete,
\* update and get, among scans, TEXT pages and reopens (RecordFile).
FileAbsSpec == RFL!AbsSpec

\* A scan of the plain record file returns no RID twice and misses no
\* record that stayed live while it ran (RecordFile).
ScanExact == RFL!ScanExact

\* An open scan of the plain record file comes to its end (RecordFile).
ScanTerminates == RFL!ScanTerminates
=============================================================================
