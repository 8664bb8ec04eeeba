------------------------------- MODULE Query -------------------------------
(***************************************************************************)
(* Planning and running a SELECT over several tables (executor_builder.cpp *)
(* and the tuple-level Filter of condition_filter.cpp).                    *)
(*                                                                         *)
(* ExecutorBuilder::build turns the Selects the parser produced into a     *)
(* tree of executors: build_select_executor scans the FROM tables and      *)
(* joins them in a left-deep chain, starting from the last entry of        *)
(* selects->relations; build_join_executor adds one scan and one join per  *)
(* INNER JOIN clause.  Each scan and each join gets the Filters            *)
(* Filter::from_condition derives from the conditions for it, and a        *)
(* ban_all flag when a condition between two constants is false.           *)
(*                                                                         *)
(* Data: every table has one column (the column name plays no part in     *)
(* which filter goes where), its rows are distinct values, and a tuple of *)
(* a scan or join is a function from the tables it covers to their rows.   *)
(* A value is an INTS value; expressions, aggregates and NULLs are left   *)
(* out.  A sub-query side is run by its own executor tree: a constant side *)
(* takes its first output value, and a side compared with IN or with a     *)
(* column gets a SubQueryExecutor (build_sub_query_executor).              *)
(*                                                                         *)
(* The executors themselves (ScanExecutor, NestLoopJoinExecutor) are not   *)
(* in the source tree; Scan and Join below follow spec.md 4.6 and apply    *)
(* the filters the builder gave them with the Filter::filter overloads     *)
(* that are.                                                               *)
(***************************************************************************)
EXTENDS Integers, Sequences, FiniteSets, TLC

CONSTANTS
  Tables,     \* table names
  Vals,       \* INTS values of the column and of literals; 0 among them
  NoRel,      \* RelAttr::relation_name == nullptr: the table is not written
  NoTable,    \* the Table * argument of from_condition is nullptr
  Selections, \* the Selects the parser may hand to ExecutorBuilder::build
  DBs         \* the table contents a query may run on

VARIABLES
  db,      \* table -> the set of its rows
  stmt,    \* the SELECT as the parser produced it
  sel,     \* the Selects; from_condition rewrites its conditions
  stage,   \* "select", "join", "run", "done" or "crashed"
  exec,    \* the executor tree built so far
  result   \* the tuples the executor tree produced

vars == <<db, stmt, sel, stage, exec, result>>

CompOps == {"EQUAL_TO", "LESS_EQUAL", "NOT_EQUAL", "LESS_THAN",
            "GREAT_EQUAL", "GREAT_THAN", "IN_OP", "NOT_IN_OP"}

(* A Selects that is no sub-query: left_selects and right_selects unset. *)
NoSel == [relations |-> <<>>, joins |-> <<>>, conds |-> <<>>]

(* One side of a Condition: an attribute (left_is_attr), a value, or a
   sub-query (left_is_select, with left_is_attr 0). *)
Attr(t) == [attr |-> TRUE, rel |-> t, val |-> 0, sel |-> NoSel]
Lit(v)  == [attr |-> FALSE, rel |-> NoRel, val |-> v, sel |-> NoSel]
Sub(q)  == [attr |-> FALSE, rel |-> NoRel, val |-> 0, sel |-> q]

IsSel(o) == o.sel # NoSel

(* change_to_true_condition: 0 = 0 between two INTS values. *)
TrueCondition == [l |-> Lit(0), comp |-> "EQUAL_TO", r |-> Lit(0)]

(* compare_result *)
compare_result(cmp, op) ==
  CASE op = "EQUAL_TO"    -> cmp = 0
    [] op = "LESS_EQUAL"  -> cmp <= 0
    [] op = "NOT_EQUAL"   -> cmp # 0
    [] op = "LESS_THAN"   -> cmp < 0
    [] op = "GREAT_EQUAL" -> cmp >= 0
    [] op = "GREAT_THAN"  -> cmp > 0
    [] OTHER              -> FALSE

(* IntValue::compare against another IntValue: value_ - other_value.  The
   values of Vals are far from the 32-bit limits. *)
Compare(a, b) == a - b
-----------------------------------------------------------------------------
(* Mutant: the check that an attribute names the scanned table dropped. *)
SideOf_AnyTable(o, table, attr_only) ==
  CASE o.attr /\ o.rel = NoRel /\ table = NoTable -> "crash"
    [] ~o.attr /\ attr_only                       -> "none"
    [] OTHER                                      -> "desc"

(* Filter::from_condition for one side of a condition that is not a
   constant: an attribute of another table than the one being scanned
   makes no filter, as does a value when only attr op attr is wanted; an
   attribute written without its table takes the scanned table's name,
   and with no table (table == nullptr) the assert is gone under NDEBUG
   and table->name() dereferences null. *)
SideOf(o, table, attr_only) ==
  CASE o.attr /\ table # NoTable /\ o.rel # NoRel /\ o.rel # table -> "none"
    [] o.attr /\ o.rel = NoRel /\ table = NoTable                  -> "crash"
    [] ~o.attr /\ attr_only                                        -> "none"
    [] OTHER                                                       -> "desc"

(* The FilterDesc from_condition fills in for a side. *)
DescOf(o, table) ==
  IF o.attr THEN [attr |-> TRUE, rel |-> IF o.rel = NoRel THEN table ELSE o.rel,
                  val |-> 0]
            ELSE o

NoFilter == [none |-> TRUE]

RECURSIVE build(_), Exec(_, _)

(* The value in the first column of a sub-query's row: a sub-query reads
   one table, whose column is its first. *)
OutValue(tup) == tup[CHOOSE t \in DOMAIN tup : TRUE]

(* tuple_set.get(0).get_pointer(0) over the values of a result: the scan
   yields rows in slot order, which for rows inserted in ascending order
   (as in MC_Query) is the smallest value first.  On an empty result
   get(0) reads past the end of the vector: taken as a crash. *)
FirstValue(rows) ==
  IF rows = {} THEN [crash |-> TRUE, val |-> 0]
  ELSE [crash |-> FALSE, val |-> CHOOSE v \in rows : \A w \in rows : v <= w]

(* The executor that ExecutorBuilder::build returned, initialised and run. *)
RunSubQuery(b) ==
  FirstValue(IF b.crash THEN {} ELSE {OutValue(t) : t \in Exec(b.exec, db)})

(* construct_tuple_value_from_selects: the sub-query is built, run, and
   the first column of its first row taken. *)
construct_tuple_value_from_selects(q) == RunSubQuery(build(q))

(* The constant a side stands for: a sub-query's first value, or the
   value itself (construct_tuple_value_from_value). *)
SideValue(o) ==
  IF IsSel(o) THEN construct_tuple_value_from_selects(o.sel)
  ELSE [crash |-> FALSE, val |-> o.val]

(* What from_condition answers: the Filter or nullptr, whether it set
   ban_all, the condition as it leaves it, and whether it crashed. *)
FilterOut(f, ban, cond, crash) ==
  [filter |-> f, ban |-> ban, cond |-> cond, crash |-> crash]

(* Two constants compared at once: true turns the condition into 0 = 0,
   false bans every row. *)
FoldConstants(c, lv, rv) ==
  CASE lv.crash \/ rv.crash -> FilterOut(NoFilter, FALSE, c, TRUE)
    [] compare_result(Compare(lv.val, rv.val), c.comp) ->
         FilterOut(NoFilter, FALSE, TrueCondition, FALSE)
    [] OTHER -> FilterOut(NoFilter, TRUE, c, FALSE)

(* Filter::from_condition for one condition.  1. Two constants (values or
   sub-queries) are folded.  2. One sub-query against an attribute makes
   no filter: a sub-query executor takes it.  3. Otherwise each side is an
   attribute or a value. *)
from_condition(c, table, attr_only) ==
  LET ls == SideOf(c.l, table, attr_only)
      rs == SideOf(c.r, table, attr_only)
  IN  CASE ~c.l.attr /\ ~c.r.attr -> FoldConstants(c, SideValue(c.l), SideValue(c.r))
        [] IsSel(c.l) \/ IsSel(c.r) -> FilterOut(NoFilter, FALSE, c, FALSE)
        [] ls = "none"  -> FilterOut(NoFilter, FALSE, c, FALSE)
        [] ls = "crash" -> FilterOut(NoFilter, FALSE, c, TRUE)
        [] rs = "none"  -> FilterOut(NoFilter, FALSE, c, FALSE)
        [] rs = "crash" -> FilterOut(NoFilter, FALSE, c, TRUE)
        [] OTHER -> FilterOut([l |-> DescOf(c.l, table), comp |-> c.comp,
                               r |-> DescOf(c.r, table)], FALSE, c, FALSE)

(* Filter::from_condition over a condition array, appending to filters:
   ban_all starts FALSE; the first condition that sets it clears the
   filters and ends the loop; conditions are rewritten in place.  The
   answer carries the filters, ban_all, the conditions and a crash.
   FromCondsNext is the loop body given from_condition's answer r. *)
RECURSIVE FromConds(_, _, _, _, _), FromCondsNext(_, _, _, _, _, _)
FromConds(conds, i, table, attr_only, acc) ==
  IF i > Len(conds) \/ acc.crash THEN acc
  ELSE FromCondsNext(conds, i, table, attr_only, acc,
                     from_condition(conds[i], table, attr_only))

FromCondsNext(conds, i, table, attr_only, acc, r) ==
  LET conds2 == [conds EXCEPT ![i] = r.cond]
  IN  CASE r.crash -> [acc EXCEPT !.crash = TRUE]
        [] r.ban   -> [acc EXCEPT !.filters = <<>>, !.ban = TRUE, !.conds = conds2]
        [] r.filter = NoFilter ->
             FromConds(conds2, i + 1, table, attr_only, [acc EXCEPT !.conds = conds2])
        [] OTHER ->
             FromConds(conds2, i + 1, table, attr_only,
                       [acc EXCEPT !.conds = conds2, !.filters = Append(@, r.filter)])

filters_from_condition(conds, table, filters, attr_only) ==
  FromConds(conds, 1, table, attr_only,
            [filters |-> filters, ban |-> FALSE, conds |-> conds, crash |-> FALSE])
-----------------------------------------------------------------------------
(* The executor tree.  ScanExecutor and NestLoopJoinExecutor are built
   with their filters and ban_all. *)
Scan(t, f, ban)        == [kind |-> "scan", table |-> t, filters |-> f, ban |-> ban]
Join(l, r, f, ban)     == [kind |-> "join", left |-> l, right |-> r, filters |-> f,
                           ban |-> ban]
NoExec == [kind |-> "none"]
SubQ(e, a, op, r, corr) ==
  [kind |-> "subq", child |-> e, attr |-> a, comp |-> op, right |-> r,
   corr |-> corr, ban |-> FALSE]

(* symmetric_op: the operator with its sides swapped. *)
symmetric_op(op) ==
  CASE op = "LESS_EQUAL"  -> "GREAT_EQUAL"
    [] op = "LESS_THAN"   -> "GREAT_THAN"
    [] op = "GREAT_EQUAL" -> "LESS_EQUAL"
    [] op = "GREAT_THAN"  -> "LESS_THAN"
    [] OTHER              -> op

(* build_multi_table_conditions: the attr op attr conditions of a
   sub-query, both tables written, that name the outer table.  The walk
   into sub-queries of the sub-query is left out with them. *)
build_multi_table_conditions(table_name, conds) ==
  SelectSeq(conds, LAMBDA c : /\ c.l.attr /\ c.r.attr
                              /\ c.l.rel # NoRel /\ c.r.rel # NoRel
                              /\ table_name \in {c.l.rel, c.r.rel})

(* A SubQueryExecutor around the chain acc for the sub-query q against the
   attribute a (its table defaulting to table_name), given what build(q)
   returned. *)
SubWrap(acc, table_name, a, op, q, b) ==
  [acc EXCEPT
     !.exec  = SubQ(acc.exec, IF a.rel = NoRel THEN [a EXCEPT !.rel = table_name] ELSE a,
                    op, b.exec, build_multi_table_conditions(table_name, q.conds)),
     !.crash = b.crash]

(* build_sub_query_executor: every condition with a sub-query on exactly
   one side wraps the chain in a SubQueryExecutor on the other side's
   attribute, with the operator turned round when the sub-query is on the
   left (SubChain), then on the right (SubChainRight).  The sub-query is
   built with ExecutorBuilder::build. *)
RECURSIVE SubChain(_, _, _, _), SubChainRight(_, _, _, _)
SubChain(table_name, conds, i, acc) ==
  IF i > Len(conds) \/ acc.crash THEN acc
  ELSE SubChainRight(table_name, conds, i,
         IF IsSel(conds[i].l) /\ ~IsSel(conds[i].r)
         THEN SubWrap(acc, table_name, conds[i].r, symmetric_op(conds[i].comp),
                      conds[i].l.sel, build(conds[i].l.sel))
         ELSE acc)

SubChainRight(table_name, conds, i, acc) ==
  SubChain(table_name, conds, i + 1,
    IF IsSel(conds[i].r) /\ ~IsSel(conds[i].l) /\ ~acc.crash
    THEN SubWrap(acc, table_name, conds[i].l, conds[i].comp,
                 conds[i].r.sel, build(conds[i].r.sel))
    ELSE acc)

build_sub_query_executor(e, table_name, conds, crash) ==
  SubChain(table_name, conds, 1, [exec |-> e, conds |-> conds, crash |-> crash])

(* build_select_executor: the last FROM table is scanned first; every
   other one, from the back, is scanned with the filters of the conditions
   on its own table (SelectScan) and joined to the chain with the attr op
   attr conditions, whatever tables they name (SelectJoin); then the WHERE
   sub-queries wrap the chain. *)
RECURSIVE SelectChain(_, _, _), SelectScan(_, _, _, _), SelectJoin(_, _, _, _, _)
SelectChain(rels, i, acc) ==
  IF i = 0 \/ acc.crash THEN acc
  ELSE SelectScan(rels, i, acc, filters_from_condition(acc.conds, rels[i], <<>>, FALSE))

SelectScan(rels, i, acc, s) ==
  SelectJoin(rels, i, acc, s, filters_from_condition(s.conds, NoTable, <<>>, TRUE))

SelectJoin(rels, i, acc, s, j) ==
  SelectChain(rels, i - 1,
    [exec  |-> Join(acc.exec, Scan(rels[i], s.filters, s.ban), j.filters, j.ban),
     conds |-> j.conds,
     crash |-> s.crash \/ j.crash])

(* The chain from the scan of the last FROM table, given its filters. *)
SelectFrom(s, first) ==
  SelectChain(s.relations, Len(s.relations) - 1,
              [exec  |-> Scan(s.relations[Len(s.relations)], first.filters, first.ban),
               conds |-> first.conds,
               crash |-> first.crash])

SelectWrap(s, chain) ==
  build_sub_query_executor(chain.exec, s.relations[1], chain.conds, chain.crash)

build_select_executor(s) ==
  SelectWrap(s, SelectFrom(s, filters_from_condition(s.conds, s.relations[Len(s.relations)],
                                                     <<>>, FALSE)))

(* Mutant: the WHERE conditions never given to the last join. *)
JoinFilters_NoWhere(joins, i, s2, j1) == [j1 EXCEPT !.conds = s2.conds]

(* The filters of the i-th join: those of its attr op attr ON conditions
   and, at the last JOIN unless they banned it, of the attr op attr WHERE
   conditions. *)
JoinFilters(joins, i, s2, j1) ==
  IF i = Len(joins) /\ ~j1.ban
  THEN filters_from_condition(s2.conds, NoTable, j1.filters, TRUE)
  ELSE [j1 EXCEPT !.conds = s2.conds]

(* build_join_executor: per INNER JOIN, the scan of its table gets the
   filters s1 of its ON conditions and, unless those banned it, of the
   WHERE conditions on that table (JoinScan); the join gets JoinFilters
   (JoinOn); then the sub-queries of its ON conditions wrap the join
   (JoinNext). *)
RECURSIVE JoinChain(_, _, _), JoinScan(_, _, _, _), JoinOn(_, _, _, _, _, _),
          JoinNext(_, _, _, _, _, _, _)
JoinChain(joins, i, acc) ==
  IF i > Len(joins) \/ acc.crash THEN acc
  ELSE JoinScan(joins, i, acc,
                filters_from_condition(joins[i].conds, joins[i].table, <<>>, FALSE))

JoinScan(joins, i, acc, s1) ==
  JoinOn(joins, i, acc, s1,
         IF s1.ban THEN [s1 EXCEPT !.conds = acc.conds]
         ELSE filters_from_condition(acc.conds, joins[i].table, s1.filters, FALSE),
         filters_from_condition(s1.conds, NoTable, <<>>, TRUE))

JoinOn(joins, i, acc, s1, s2, j1) ==
  JoinNext(joins, i, acc, s2, j1, JoinFilters(joins, i, s2, j1),
           s1.crash \/ s2.crash \/ j1.crash)

JoinNext(joins, i, acc, s2, j1, j2, crash) ==
  LET joins2 == [joins EXCEPT ![i].conds = j1.conds]
  IN  JoinChain(joins2, i + 1,
        [conds |-> j2.conds, joins |-> joins2, rel0 |-> acc.rel0]
        @@ build_sub_query_executor(
             Join(acc.exec, Scan(joins[i].table, s2.filters, s2.ban), j2.filters, j2.ban),
             acc.rel0, j1.conds, crash \/ j2.crash))

build_join_executor(s, e) ==
  JoinChain(s.joins, 1, [exec |-> e, conds |-> s.conds, joins |-> s.joins,
                         rel0 |-> s.relations[1], crash |-> FALSE])

(* ExecutorBuilder::build(selects) as a sub-query runs it: the select
   chain, then, unless it crashed, the joins with the conditions as the
   first part left them.  Aggregation and the output schema are not
   modelled. *)
BuildJoins(s, b1) ==
  IF b1.crash THEN b1
  ELSE build_join_executor([s EXCEPT !.conds = b1.conds], b1.exec)

build(s) == BuildJoins(s, build_select_executor(s))
-----------------------------------------------------------------------------
(* construct_desc_value over one tuple: an attribute whose table is not in
   the tuple's schema is nullptr. *)
Found(d, tup) == ~d.attr \/ d.rel \in DOMAIN tup
ValueOf(d, tup) == IF d.attr THEN tup[d.rel] ELSE d.val

(* Filter::filter(tuple, schema): nullptr on either side is false. *)
filter_tuple(f, tup) ==
  /\ Found(f.l, tup) /\ Found(f.r, tup)
  /\ compare_result(Compare(ValueOf(f.l, tup), ValueOf(f.r, tup)), f.comp)

(* Filter::filter(left_tuple, left_schema, right_tuple, right_schema):
   each side is looked up in the left tuple, then in the right one. *)
Lookup2(d, lt, rt) == IF Found(d, lt) THEN ValueOf(d, lt) ELSE ValueOf(d, rt)
filter_join(f, lt, rt) ==
  /\ Found(f.l, lt) \/ Found(f.l, rt)
  /\ Found(f.r, lt) \/ Found(f.r, rt)
  /\ compare_result(Compare(Lookup2(f.l, lt, rt), Lookup2(f.r, lt, rt)), f.comp)

(* SubQueryExecutor (spec.md 4.6): the rows of the sub-query that pass
   the multi-table conditions against the outer tuple, each looked up in
   the outer tuple first; IN keeps the outer tuple when one of them holds
   its value, NOT IN when none does, and a comparison when one of them
   satisfies it.  An attribute whose table the outer tuple lacks keeps
   nothing, as construct_desc_value's nullptr does in Filter::filter. *)
SubMatch(p, tup, inner) ==
  LET ms  == {it \in inner : \A k \in DOMAIN p.corr : filter_join(p.corr[k], tup, it)}
      x   == ValueOf(p.attr, tup)
  IN  /\ Found(p.attr, tup)
      /\ CASE p.comp = "IN_OP"     -> \E it \in ms : x = OutValue(it)
           [] p.comp = "NOT_IN_OP" -> \A it \in ms : x # OutValue(it)
           [] OTHER -> \E it \in ms : compare_result(Compare(x, OutValue(it)), p.comp)

(* What the tree yields (spec.md 4.6): a banned executor yields nothing; a
   scan yields the rows of its table that pass its filters; a join yields
   every left tuple combined with every right tuple that passes its
   filters; a sub-query executor runs its sub-query once and keeps the
   tuples of its child that match. *)
Exec(p, d) ==
  CASE p.ban -> {}
    [] p.kind = "scan" ->
         {tup \in {[x \in {p.table} |-> v] : v \in d[p.table]} :
            \A k \in DOMAIN p.filters : filter_tuple(p.filters[k], tup)}
    [] p.kind = "join" ->
         {pr[1] @@ pr[2] : pr \in {pr \in Exec(p.left, d) \X Exec(p.right, d) :
            \A k \in DOMAIN p.filters : filter_join(p.filters[k], pr[1], pr[2])}}
    [] p.kind = "subq" ->
         LET inner == Exec(p.right, d)
         IN  {tup \in Exec(p.child, d) : SubMatch(p, tup, inner)}
-----------------------------------------------------------------------------
Init ==
  /\ db \in DBs
  /\ stmt \in Selections
  /\ sel = stmt
  /\ stage = "select"
  /\ exec = NoExec
  /\ result = {}

(* ExecutorBuilder::build, first part: build_select_executor, with the
   conditions as from_condition leaves them. *)
BuildSelectExecutor ==
  /\ stage = "select"
  /\ \E b \in {build_select_executor(sel)} :
       /\ exec' = b.exec
       /\ sel' = [sel EXCEPT !.conds = b.conds]
       /\ stage' = IF b.crash THEN "crashed" ELSE "join"
  /\ UNCHANGED <<db, stmt, result>>

(* ExecutorBuilder::build, second part: build_join_executor. *)
BuildJoinExecutor ==
  /\ stage = "join"
  /\ \E b \in {build_join_executor(sel, exec)} :
       /\ exec' = b.exec
       /\ sel' = [sel EXCEPT !.conds = b.conds, !.joins = b.joins]
       /\ stage' = IF b.crash THEN "crashed" ELSE "run"
  /\ UNCHANGED <<db, stmt, result>>

(* The executor tree is run to the end. *)
Execute ==
  /\ stage = "run"
  /\ result' = Exec(exec, db)
  /\ stage' = "done"
  /\ UNCHANGED <<db, stmt, sel, exec>>

Next == BuildSelectExecutor \/ BuildJoinExecutor \/ Execute

Spec == Init /\ [][Next]_vars
-----------------------------------------------------------------------------
(* The relational meaning of the statement: every combination of one row
   per table of FROM and JOIN that satisfies every WHERE and ON
   condition, compared as integers. *)
QueryTables(s) ==
  {s.relations[i] : i \in DOMAIN s.relations} \cup {s.joins[j].table : j \in DOMAIN s.joins}

AllConditions(s) ==
  {s.conds[i] : i \in DOMAIN s.conds}
  \cup UNION {{s.joins[j].conds[i] : i \in DOMAIN s.joins[j].conds} : j \in DOMAIN s.joins}

SqlValue(o, s, tup) ==
  CASE ~o.attr       -> o.val
    [] o.rel = NoRel -> tup[s.relations[1]]
    [] OTHER         -> tup[o.rel]

SqlHolds(a, op, b) ==
  CASE op = "EQUAL_TO"    -> a = b
    [] op = "LESS_EQUAL"  -> a <= b
    [] op = "NOT_EQUAL"   -> a # b
    [] op = "LESS_THAN"   -> a < b
    [] op = "GREAT_EQUAL" -> a >= b
    [] op = "GREAT_THAN"  -> a > b

(* The values a sub-query yields for the outer combination tup: the rows
   of its table that satisfy its conditions, other tables read in tup. *)
SubRows(q, d, tup) ==
  LET t == q.relations[1]
  IN  {v \in d[t] : \A i \in DOMAIN q.conds :
         LET u == tup @@ (t :> v)
         IN  SqlHolds(SqlValue(q.conds[i].l, q, u), q.conds[i].comp,
                      SqlValue(q.conds[i].r, q, u))}

(* A condition of the statement on a combination of rows: x IN / NOT IN a
   sub-query is membership; a comparison with a sub-query holds when it
   holds for one of its values (for a sub-query of one row, the SQL
   scalar comparison). *)
CondHolds(c, s, d, tup) ==
  CASE IsSel(c.r) /\ c.comp = "IN_OP" ->
         SqlValue(c.l, s, tup) \in SubRows(c.r.sel, d, tup)
    [] IsSel(c.r) /\ c.comp = "NOT_IN_OP" ->
         SqlValue(c.l, s, tup) \notin SubRows(c.r.sel, d, tup)
    [] IsSel(c.r) ->
         \E v \in SubRows(c.r.sel, d, tup) : SqlHolds(SqlValue(c.l, s, tup), c.comp, v)
    [] IsSel(c.l) ->
         \E v \in SubRows(c.l.sel, d, tup) : SqlHolds(v, c.comp, SqlValue(c.r, s, tup))
    [] OTHER -> SqlHolds(SqlValue(c.l, s, tup), c.comp, SqlValue(c.r, s, tup))

Reference(s, d) ==
  {tup \in [QueryTables(s) -> Vals] :
     /\ \A t \in QueryTables(s) : tup[t] \in d[t]
     /\ \A c \in AllConditions(s) : CondHolds(c, s, d, tup)}
-----------------------------------------------------------------------------
(* Rows of the statement's tables that satisfy the given conditions. *)
Satisfies(s, d, tup, conds) ==
  /\ tup \in [QueryTables(s) -> Vals]
  /\ \A t \in QueryTables(s) : tup[t] \in d[t]
  /\ \A c \in conds : CondHolds(c, s, d, tup)

(* spec.md 4.5 and 4.6: the WHERE clause holds for every row a SELECT
   returns.  build_select_executor and build_join_executor spread the
   WHERE conditions over the scans of FROM and JOIN tables and over the
   joins; whichever executor a condition lands in, no combination that
   breaks it comes out. *)
WhereSound ==
  stage = "done" =>
    \A tup \in result : Satisfies(stmt, db, tup, {stmt.conds[i] : i \in DOMAIN stmt.conds})

(* spec.md 4.6 and test S5: with two tables, every combination of rows
   that satisfies the WHERE and ON conditions comes out: no condition is
   given to an executor that cannot evaluate it. *)
TwoTableComplete ==
  stage = "done" /\ Cardinality(QueryTables(stmt)) <= 2 =>
    Reference(stmt, db) \subseteq result

(* spec.md 4.5 and 4.6: the ON conditions of an INNER JOIN hold for every
   row it returns, as the WHERE conditions do. *)
QuerySound == stage = "done" => result \subseteq Reference(stmt, db)

(* Every combination of rows that satisfies the conditions comes out,
   whatever the number of tables. *)
QueryComplete == stage = "done" => Reference(stmt, db) \subseteq result
=============================================================================
