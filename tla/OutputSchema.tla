---------------------------- MODULE OutputSchema ----------------------------
(***************************************************************************)
(* The columns a SELECT shows and the values under them.                   *)
(* ExecutorBuilder::build_output_schema (executor_builder.cpp) builds the  *)
(* output TupleSchema from the select list with TupleSchema::from_table    *)
(* and schema_add_field / add_if_not_exists (tuple.cpp); a SelectExeNode   *)
(* turns every record of its table into a Tuple (TupleRecordConverter::   *)
(* add_record, reading the NULL bitmap at TableMeta::field_index); a       *)
(* cartesianExeNode concatenates one tuple of every input set; and an      *)
(* OutputExeNode projects each joined tuple onto the output schema through *)
(* TupleSchema::table_field_index of the joined schema.                    *)
(*                                                                         *)
(* A table's columns are names; a stored row maps each column to a value   *)
(* or NULL, and is written as MakeRecord writes it: a NULL column sets its *)
(* bit and leaves its bytes uninitialised (GARBAGE).  The filters of the   *)
(* cartesian node, expressions and aggregates are left out (Query models   *)
(* the filters).                                                           *)
(***************************************************************************)
EXTENDS Integers, Sequences, SequencesExt, TLC

CONSTANTS
  Fields,      \* table -> its columns in declaration order
  TRX,         \* Trx::trx_field_name(): the invisible sys field, first
  Stored,      \* table -> the rows stored in it
  Selections,  \* [attrs, relations, joins] as the parser fills Selects
  NoRel,       \* RelAttr::relation_name == NULL
  NULL,        \* a NULL column value
  GARBAGE      \* the bytes new char[] leaves in a NULL column

VARIABLES
  qsel,    \* the Selects; build_output_schema fills in relation names
  schema,  \* the output TupleSchema: a sequence of [table, field]
  scans,   \* table -> the TupleSet its SelectExeNode produced
  joined,  \* the cartesianExeNode's TupleSet
  shown,   \* the OutputExeNode's tuples, each with the rows it came from
  qstage   \* "plan", "scan", "output" or "done"

vars == <<qsel, schema, scans, joined, shown, qstage>>

NoFn == [x \in {} |-> NULL]
NoSet == [schema |-> <<>>, rows |-> {}]

(* TableMeta::fields_: the sys field, then the attributes. *)
fields_(t) == <<TRX>> \o Fields[t]

(* TableMeta::field_index: the 0-based position in fields_. *)
field_index(t, name) == SelectInSeq(fields_(t), LAMBDA f : f = name) - 1

(* TupleSchema::from_table: every visible field of t, appended to s. *)
from_table(t, s) ==
  LET vis == SelectSeq(fields_(t), LAMBDA f : f # TRX)
  IN  s \o [i \in DOMAIN vis |-> [table |-> t, field |-> vis[i]]]

(* Mutant: a field already shown for another table counts as present. *)
add_if_not_exists_NameOnly(s, t, f) ==
  IF \E i \in DOMAIN s : s[i].field = f
  THEN s ELSE Append(s, [table |-> t, field |-> f])

(* TupleSchema::add_if_not_exists. *)
add_if_not_exists(s, t, f) ==
  IF \E i \in DOMAIN s : s[i] = [table |-> t, field |-> f]
  THEN s ELSE Append(s, [table |-> t, field |-> f])

(* TupleSchema::schema_add_field. *)
schema_add_field(t, f, s) == add_if_not_exists(s, t, f)

IsStar(sel) ==
  Len(sel.attrs) = 1 /\ sel.attrs[1].rel = NoRel /\ sel.attrs[1].name = "*"

(* An attribute without a table is given relations[0]. *)
Resolved(sel) ==
  [sel EXCEPT !.attrs = [i \in DOMAIN sel.attrs |->
     IF sel.attrs[i].rel = NoRel THEN [sel.attrs[i] EXCEPT !.rel = sel.relations[1]]
     ELSE sel.attrs[i]]]

AddAttr(s, a) ==
  IF a.name = "*" THEN from_table(a.rel, s) ELSE schema_add_field(a.rel, a.name, s)

(* ExecutorBuilder::build_output_schema: the Selects it leaves and the
   schema.  `select *` alone takes the relations from the last one back
   and then the joins; otherwise the attributes are taken from the last. *)
build_output_schema(sel) ==
  IF IsStar(sel)
  THEN [sel |-> sel,
        schema |-> FoldLeft(LAMBDA s, t : from_table(t, s), <<>>,
                            Reverse(sel.relations) \o sel.joins)]
  ELSE [sel |-> Resolved(sel),
        schema |-> FoldLeft(LAMBDA s, a : AddAttr(s, a), <<>>,
                            Reverse(Resolved(sel).attrs))]

(* Table::make_record: bit i + normal_field_start_index for a NULL value,
   the value's bytes otherwise. *)
record_of(t, row) ==
  [null  |-> {field_index(t, f) : f \in {g \in DOMAIN row : row[g] = NULL}},
   bytes |-> [f \in DOMAIN row |-> IF row[f] = NULL THEN GARBAGE ELSE row[f]]]

(* Mutant: the bit read at the attribute's position, the sys field not
   counted. *)
add_record_Unshifted(t, rec, s) ==
  [k \in DOMAIN s |-> IF field_index(t, s[k].field) - 1 \in rec.null
                      THEN NULL ELSE rec.bytes[s[k].field]]

(* TupleRecordConverter::add_record: one value per field of the set's
   schema, NULL where the record's bitmap has the field's bit. *)
add_record(t, rec, s) ==
  [k \in DOMAIN s |-> IF field_index(t, s[k].field) \in rec.null
                      THEN NULL ELSE rec.bytes[s[k].field]]

(* SelectExeNode::execute: the TupleSet of table t under its schema sc,
   every row kept with the row it came from. *)
SelectExecute(t, sc) ==
  [schema |-> sc,
   rows |-> {[from |-> (t :> row), tuple |-> add_record(t, record_of(t, row), sc)] :
               row \in Stored[t]}]

(* cartesianExeNode::execute: one tuple of each set, concatenated in the
   order of the sets, under the appended schemas (TupleSchema::append). *)
Cartesian(ord) ==
  [schema |-> FoldLeft(LAMBDA s, t : s \o scans[t].schema, <<>>, ord),
   rows |-> FoldLeft(LAMBDA acc, t :
                       {[from |-> a.from @@ r.from, tuple |-> a.tuple \o r.tuple] :
                          a \in acc, r \in scans[t].rows},
                     {[from |-> NoFn, tuple |-> <<>>]}, ord)]

(* TupleSchema::table_field_index: table -> field -> index, a later field
   of the same name overwriting an earlier one. *)
table_field_index(s) ==
  [p \in {<<s[i].table, s[i].field>> : i \in DOMAIN s} |->
     SelectLastInSeq(s, LAMBDA f : <<f.table, f.field>> = p) - 1]

(* OutputExeNode::execute: each tuple projected onto the output schema. *)
Project(j, idx) ==
  {[from |-> r.from,
    tuple |-> [k \in DOMAIN schema |-> r.tuple[idx[<<schema[k].table, schema[k].field>>] + 1]]] :
     r \in j.rows}

TablesOf(sel) == ToSet(sel.relations) \cup ToSet(sel.joins)

Init ==
  /\ qsel \in Selections
  /\ schema = <<>> /\ scans = NoFn /\ joined = NoSet /\ shown = {}
  /\ qstage = "plan"

(* ExecutorBuilder::build ends with set_output_schema. *)
BuildOutputSchema ==
  /\ qstage = "plan"
  /\ \E b \in {build_output_schema(qsel)} : qsel' = b.sel /\ schema' = b.schema
  /\ qstage' = "scan"
  /\ UNCHANGED <<scans, joined, shown>>

(* A scan of one table of the query, in any order. *)
Scan(t) ==
  /\ qstage = "scan" /\ t \notin DOMAIN scans
  /\ \E sc \in {from_table(t, <<>>)} : scans' = scans @@ (t :> SelectExecute(t, sc))
  /\ UNCHANGED <<qsel, schema, joined, shown, qstage>>

(* The cartesian node over the scanned sets, in any order of them. *)
Join ==
  /\ qstage = "scan" /\ DOMAIN scans = TablesOf(qsel)
  /\ \E ord \in SetToSeqs(TablesOf(qsel)) : joined' = Cartesian(ord)
  /\ qstage' = "output"
  /\ UNCHANGED <<qsel, schema, scans, shown>>

(* Every field of the output schema is in the joined schema, so at()
   never throws here. *)
Output ==
  /\ qstage = "output"
  /\ \E idx \in {table_field_index(joined.schema)} : shown' = Project(joined, idx)
  /\ qstage' = "done"
  /\ UNCHANGED <<qsel, schema, scans, joined>>

Next == BuildOutputSchema \/ Join \/ Output \/ \E t \in TablesOf(qsel) : Scan(t)

Spec == Init /\ [][Next]_vars
-----------------------------------------------------------------------------
TypeOK ==
  /\ qstage \in {"plan", "scan", "output", "done"}
  /\ schema \in Seq([table : DOMAIN Fields, field : UNION {ToSet(Fields[t]) : t \in DOMAIN Fields}])
  /\ DOMAIN scans \subseteq TablesOf(qsel)

(* The combinations of one stored row from each table of the query. *)
Combos(ts) ==
  {f \in [ts -> UNION {Stored[t] : t \in ts}] : \A t \in ts : f[t] \in Stored[t]}

(* spec.md 4.6, Output, and invariant 6 (a set NULL bit hides the bytes):
   a SELECT shows one tuple for every combination of one stored row per
   table of the query, and under each column of the output schema the
   value that row stored in that column, NULL for a NULL.  It takes
   make_record's bitmap, add_record's field_index (the sys field counted),
   the cartesian node's concatenation and table_field_index of the joined
   schema, in whatever order the tables were scanned and joined. *)
ShowsStoredValues ==
  qstage = "done" =>
    /\ {o.from : o \in shown} = Combos(TablesOf(qsel))
    /\ \A o \in shown : \A k \in DOMAIN schema :
         o.tuple[k] = o.from[schema[k].table][schema[k].field]

(* The columns a select list asks for: each named column with the table it
   names, and every column of a table named by `*`. *)
Requested(sel) ==
  IF IsStar(sel)
  THEN UNION {{[table |-> t, field |-> f] : f \in ToSet(Fields[t])} : t \in TablesOf(sel)}
  ELSE UNION {IF a.name = "*"
              THEN {[table |-> a.rel, field |-> f] : f \in ToSet(Fields[a.rel])}
              ELSE {[table |-> a.rel, field |-> a.name]} : a \in ToSet(sel.attrs)}

(* spec.md 4.6, Output, and scenario S5 (`SELECT t1.a, t2.b`): once
   build_output_schema ran, every column the select list asks for is a
   column of the output schema, also when two tables have a column of the
   same name; a column named without a table is taken from relations[0]. *)
SchemaRequested ==
  qstage # "plan" => \A c \in Requested(qsel) : \E k \in DOMAIN schema : schema[k] = c
====
