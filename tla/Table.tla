------------------------------- MODULE Table -------------------------------
(***************************************************************************)
(* The table layer of the storage engine (storage/common/table.cpp): rows  *)
(* addressed by RID, the B+Tree secondary indexes kept beside them, and    *)
(* the statements that change or read both -- INSERT, UPDATE, DELETE,      *)
(* SELECT and CREATE INDEX -- each as one atomic step, as a statement runs *)
(* to completion on one worker (single writer per table).                  *)
(*                                                                         *)
(* Data is abstracted to what the properties tell apart: a column value is *)
(* a small integer, a row is its column values plus its NULL bitmap, an    *)
(* index is a set of (key, RID) pairs.  The control of every handler is    *)
(* kept: the order in which indexes are touched, every early break on an   *)
(* error, what is and is not undone, and the scan plan chosen.             *)
(***************************************************************************)
EXTENDS Integers, Sequences, FiniteSets, SequencesExt

CONSTANTS
    Fields,       \* user columns of the table (model values)
    Nullable,     \* the columns declared NULLABLE
    Vals,         \* column values (small integers)
    NULL,         \* a NULL literal / a NULL column read
    NoRecord,     \* an empty slot
    MaxRecords,   \* bound: number of slots (RIDs) the record file holds
    IndexNames,   \* names CREATE INDEX may use
    UniqueOpts,   \* subset of BOOLEAN: whether CREATE INDEX may be UNIQUE
    Conds,        \* WHERE conditions the statements may carry
    MaxConds,     \* bound: conditions in one WHERE clause
    UpdateFields  \* columns UPDATE may set

ASSUME Nullable \subseteq Fields /\ Vals \subseteq Int /\ MaxRecords \in Nat
ASSUME UniqueOpts \subseteq BOOLEAN /\ MaxConds \in Nat /\ UpdateFields \subseteq Fields

RIDs == 1..MaxRecords

\* CompOp values the B+Tree scanner accepts, and the two NULL tests.
CmpOps  == {"EQ", "LE", "NE", "LT", "GE", "GT"}
NullOps == {"IS", "IS_NOT"}

\* A condition `attr op value` (lhsAttr) or `value op attr` (not lhsAttr),
\* the shapes DefaultConditionFilter::init accepts for one table.
Cond == [lhsAttr: BOOLEAN, field: Fields, op: CmpOps \cup NullOps,
         val: Vals \cup {NULL}]
ASSUME Conds \subseteq Cond

\* A row: the bytes of every column and the NULL bitmap.
Rec == [val: [Fields -> Vals], null: SUBSET Fields]

\* make_record leaves the bytes of a NULL column uninitialized.  No path
\* reads them while the NULL bit is set and no path clears the bit in
\* place, so one fixed value stands for whatever the bytes hold.
Garbage == CHOOSE v \in Vals : TRUE

VARIABLES
    slot,     \* RID -> row or NoRecord (the record file)
    indexes,  \* Table::indexes_: <<[name, field, unique]>> in creation order
    tree,     \* index name -> set of <<key, RID>> (its B+Tree leaf entries)
    resp      \* outcome of the last statement

vars == <<slot, indexes, tree, resp>>

Live == {r \in RIDs : slot[r] # NoRecord}

\* Value of column f as read through the NULL bitmap.
ColVal(rec, f) == IF f \in rec.null THEN NULL ELSE rec.val[f]

\* TableMeta::find_index_by_field: positions of indexes_ on field f.
IndexOn(f) == {i \in 1..Len(indexes) : indexes[i].field = f}

IndexedNames == {indexes[i].name : i \in 1..Len(indexes)}

-----------------------------------------------------------------------------
(* Condition filter                                                        *)

\* compare_result: IS / IS_NOT fall to the default and yield FALSE.
CompareResult(cmp, op) ==
    CASE op = "EQ" -> cmp = 0
      [] op = "LE" -> cmp <= 0
      [] op = "NE" -> cmp # 0
      [] op = "LT" -> cmp < 0
      [] op = "GE" -> cmp >= 0
      [] op = "GT" -> cmp > 0
      [] OTHER     -> FALSE

\* DefaultConditionFilter::filter: a NULL on either side satisfies only
\* NULL IS NULL and non-NULL IS NOT NULL; otherwise compare left - right.
Filter(c, rec) ==
    LET l == IF c.lhsAttr THEN ColVal(rec, c.field) ELSE c.val
        r == IF c.lhsAttr THEN c.val ELSE ColVal(rec, c.field)
    IN  IF l = NULL \/ r = NULL
          THEN \/ l = NULL /\ r = NULL /\ c.op = "IS"
               \/ l # NULL /\ r = NULL /\ c.op = "IS_NOT"
          ELSE CompareResult(l - r, c.op)

\* CompositeConditionFilter::filter: every condition holds.
Matches(where, rec) == \A i \in DOMAIN where : Filter(where[i], rec)

-----------------------------------------------------------------------------
(* Index maintenance                                                       *)

\* Variant of the probe: an EQUAL_TO seek that lands on the first entry
\* above the key instead of the first at or above it.
DupKeyPastEqual(t, n, key) ==
    LET above == {e \in t[n] : e[1] > key}
    IN  above # {} /\ (CHOOSE e \in above : \A x \in above : e[1] <= x[1])[1] = key

\* Variant of the probe: a LESS_EQUAL scanner in place of EQUAL_TO.
DupKeyAtOrBelow(t, n, key) == \E e \in t[n] : e[1] <= key

\* BplusTreeIndex::insert_entry's uniqueness probe: an EQUAL_TO scanner
\* on the key that yields any entry.
DupKey(t, n, key) == \E e \in t[n] : e[1] = key

\* Table::insert_entry_of_indexes: indexes in order, NULL columns skipped,
\* the first failure breaks the loop; entries already added stay.
RECURSIVE InsertEntries(_, _, _, _)
InsertEntries(i, rec, r, t) ==
    IF i > Len(indexes) THEN [tree |-> t, rc |-> "SUCCESS"]
    ELSE LET ix  == indexes[i]
             key == rec.val[ix.field]
         IN  IF ix.field \in rec.null
               THEN InsertEntries(i + 1, rec, r, t)
             ELSE IF ix.unique /\ DupKey(t, ix.name, key)
               THEN [tree |-> t, rc |-> "RECORD_DUPLICATE_KEY"]
             ELSE InsertEntries(i + 1, rec, r,
                                [t EXCEPT ![ix.name] = @ \cup {<<key, r>>}])

\* Table::delete_entry_of_indexes(.., error_on_not_exists = false):
\* BplusTreeIndex::delete_entry answers RECORD_INVALID_KEY for a missing
\* entry and the loop breaks on it, leaving later indexes untouched.
RECURSIVE DeleteEntries(_, _, _, _)
DeleteEntries(i, rec, r, t) ==
    IF i > Len(indexes) THEN [tree |-> t, rc |-> "SUCCESS"]
    ELSE LET ix == indexes[i]
             e  == <<rec.val[ix.field], r>>
         IN  IF ix.field \in rec.null
               THEN DeleteEntries(i + 1, rec, r, t)
             ELSE IF e \notin t[ix.name]
               THEN [tree |-> t, rc |-> "RECORD_INVALID_KEY"]
             ELSE DeleteEntries(i + 1, rec, r, [t EXCEPT ![ix.name] = @ \ {e}])

-----------------------------------------------------------------------------
(* Scans                                                                   *)

\* Table::find_index_for_scan on one DefaultConditionFilter: an attr/value
\* condition, neither IS nor IS_NOT, no NULL side, and an index on the
\* attribute.  The attribute side's ConDesc.is_null is never written by
\* DefaultConditionFilter::init, so the NULL test also reads an
\* uninitialized bool: a condition meeting the rest may still be passed
\* over.
IndexEligible(c) ==
    c.op \in CmpOps /\ c.val # NULL /\ IndexOn(c.field) # {}

\* Scan plans Table::scan_record may take: 0 is the full file scan, i > 0
\* an index scan driven by condition i (the first eligible condition whose
\* uninitialized bit reads false; any earlier one read true).
Plans(where) == {0} \cup {i \in DOMAIN where : IndexEligible(where[i])}

KeyRidLess(x, y) == x[1] < y[1] \/ (x[1] = y[1] /\ x[2] < y[2])

\* Variant of the scanner seek: an index scan that starts after the
\* entries equal to the value.
ScanOrderPastEqual(where, plan) ==
    IF plan = 0 THEN SetToSortSeq(Live, <)
    ELSE LET c    == where[plan]
             ix   == indexes[CHOOSE i \in IndexOn(c.field) : TRUE]
             hits == SetToSortSeq({e \in tree[ix.name] :
                                     CompareResult(e[1] - c.val, c.op) /\ e[1] # c.val},
                                  KeyRidLess)
         IN  [k \in DOMAIN hits |-> hits[k][2]]

\* RIDs in the order the plan yields them.  A full scan walks live slots
\* in RID order.  An index scan yields the entries with `key op value`,
\* in (key, RID) order: the scanner is created with the condition's
\* comp_op and value whichever side the attribute is on.
ScanOrder(where, plan) ==
    IF plan = 0 THEN SetToSortSeq(Live, <)
    ELSE LET c    == where[plan]
             ix   == indexes[CHOOSE i \in IndexOn(c.field) : TRUE]
             hits == SetToSortSeq({e \in tree[ix.name] :
                                     CompareResult(e[1] - c.val, c.op)},
                                  KeyRidLess)
         IN  [k \in DOMAIN hits |-> hits[k][2]]

\* Variant of the row update that never deletes the old entries.
UpdateOneKeepOld(f, v, r, st) ==
    LET rec2 == [st.slot[r] EXCEPT !.val[f] = v]
        ins  == InsertEntries(1, rec2, r, st.tree)
    IN  [st EXCEPT !.slot[r] = rec2, !.tree = ins.tree, !.rc = ins.rc,
                   !.rows = IF ins.rc = "SUCCESS" THEN Append(@, r) ELSE @]

\* Variant of the row update that never inserts the new entries.
UpdateOneNoReinsert(f, v, r, st) ==
    LET d == DeleteEntries(1, st.slot[r], r, st.tree)
    IN  IF d.rc # "SUCCESS"
          THEN [st EXCEPT !.tree = d.tree, !.rc = d.rc]
          ELSE [st EXCEPT !.slot[r].val[f] = v, !.tree = d.tree,
                          !.rows = Append(@, r)]

\* Table::update_record_one_attr on row r: delete the row's entries (stop
\* on error), write the column bytes (the NULL bit is left as it is),
\* store the row, insert the entries of the new row (stop on error).
UpdateOne(f, v, r, st) ==
    LET rec  == st.slot[r]
        d    == DeleteEntries(1, rec, r, st.tree)
        rec2 == [rec EXCEPT !.val[f] = v]
        ins  == InsertEntries(1, rec2, r, d.tree)
    IN  IF d.rc # "SUCCESS"
          THEN [st EXCEPT !.tree = d.tree, !.rc = d.rc]
          ELSE [st EXCEPT !.slot[r] = rec2, !.tree = ins.tree, !.rc = ins.rc,
                          !.rows = IF ins.rc = "SUCCESS" THEN Append(@, r)
                                                         ELSE @]

\* The record reader a statement passes to scan_record: UPDATE updates the
\* row; SELECT converts it to a tuple; DELETE hands it to the transaction
\* (Trx::delete_record), which only marks it for deletion at commit.
Reader(stmt, r, st) ==
    IF stmt.op = "update" THEN UpdateOne(stmt.field, stmt.val, r, st)
    ELSE [st EXCEPT !.rows = Append(@, r)]

\* One row of the scan loop.  A full scan yields only live slots; an
\* index entry whose slot is empty makes get_record fail with
\* RECORD_RECORD_NOT_EXIST (record_manager.cpp:244), which breaks the
\* scan with that rc (table.cpp:494).  The filter is (re)checked on the
\* row as it is now.
Visit(stmt, r, st) ==
    IF st.slot[r] = NoRecord THEN [st EXCEPT !.rc = "RECORD_RECORD_NOT_EXIST"]
    ELSE IF Matches(stmt.where, st.slot[r]) THEN Reader(stmt, r, st)
    ELSE st

\* The loop of scan_record / scan_record_by_index: stops at the first
\* error of get_record or of the reader.
RECURSIVE ScanLoop(_, _, _)
ScanLoop(stmt, todo, st) ==
    IF todo = <<>> \/ st.rc # "SUCCESS" THEN st
    ELSE ScanLoop(stmt, Tail(todo), Visit(stmt, Head(todo), st))

\* Table::scan_record under plan: the order is fixed when the scan starts.
ScanRecord(stmt, plan) ==
    ScanLoop(stmt, ScanOrder(stmt.where, plan),
             [slot |-> slot, tree |-> tree, rows |-> <<>>, rc |-> "SUCCESS"])

\* Trx::commit of the marked deletions, Table::commit_delete per row: the
\* index entries are deleted (an error is only logged) and the slot freed.
RECURSIVE CommitDeletes(_, _)
CommitDeletes(todo, st) ==
    IF todo = <<>> THEN st
    ELSE LET r == Head(todo)
             d == DeleteEntries(1, st.slot[r], r, st.tree)
         IN  CommitDeletes(Tail(todo),
                           [st EXCEPT !.tree = d.tree, !.slot[r] = NoRecord])

-----------------------------------------------------------------------------
(* Statements                                                              *)

Where == UNION {[1..k -> Conds] : k \in 0..MaxConds}

Resp(op, rc, rows, where, field, val) ==
    [op |-> op, rc |-> rc, rows |-> rows, where |-> where,
     field |-> field, val |-> val]

Init ==
    /\ slot = [r \in RIDs |-> NoRecord]
    /\ indexes = <<>>
    /\ tree = [n \in IndexNames |-> {}]
    /\ resp = Resp("none", "SUCCESS", <<>>, <<>>, NULL, NULL)

\* Variant of make_record that copies every value, NULLs included, into
\* the row bytes.
MakeRecordCopyAll(vals) ==
    [val |-> vals, null |-> {f \in Fields : vals[f] = NULL}]

\* Table::make_record: the row bytes and NULL bitmap of a value list.
MakeRecord(vals) ==
    [val  |-> [f \in Fields |-> IF vals[f] = NULL THEN Garbage ELSE vals[f]],
     null |-> {f \in Fields : vals[f] = NULL}]

\* RecordFileHandler::insert_record: the slot the row lands in (the first
\* free one; the page search itself is the record manager's).
FreeSlot == CHOOSE r \in RIDs : slot[r] = NoRecord /\ \A q \in RIDs :
                                   slot[q] = NoRecord => r <= q

\* Table::insert_record(values): a NULL for a NOT NULL column is refused;
\* else the row is stored, then its index entries are added; on
\* RECORD_DUPLICATE_KEY only the row is deleted again.
InsertRecord(vals) ==
    \/ /\ \E f \in Fields \ Nullable : vals[f] = NULL
       /\ resp' = Resp("insert", "CONSTRAINT_NOTNULL", <<>>, <<>>, NULL, vals)
       /\ UNCHANGED <<slot, indexes, tree>>
    \/ /\ \A f \in Fields \ Nullable : vals[f] # NULL
       /\ Live # RIDs
       /\ LET rec == MakeRecord(vals)
              r   == FreeSlot
              ins == InsertEntries(1, rec, r, tree)
          IN  /\ slot' = IF ins.rc = "SUCCESS" THEN [slot EXCEPT ![r] = rec]
                                               ELSE slot
              /\ tree' = ins.tree
              /\ resp' = Resp("insert", ins.rc,
                              IF ins.rc = "SUCCESS" THEN <<r>> ELSE <<>>,
                              <<>>, NULL, vals)
       /\ UNCHANGED indexes

\* Table::create_index: a name or a field already indexed is refused;
\* else every live row with a non-NULL key is inserted into the new tree
\* (IndexInserter over a full scan); a unique violation drops the index.
CreateIndex(n, f, u) ==
    \/ /\ n \in IndexedNames \/ IndexOn(f) # {}
       /\ resp' = Resp("create_index", "SCHEMA_INDEX_EXIST", <<>>, <<>>, f, NULL)
       /\ UNCHANGED <<slot, indexes, tree>>
    \/ /\ n \notin IndexedNames /\ IndexOn(f) = {}
       /\ LET keyed == {r \in Live : f \notin slot[r].null}
              dup   == u /\ \E r1, r2 \in keyed :
                             r1 # r2 /\ slot[r1].val[f] = slot[r2].val[f]
          IN  IF dup
                THEN /\ resp' = Resp("create_index", "RECORD_DUPLICATE_KEY",
                                     <<>>, <<>>, f, NULL)
                     /\ UNCHANGED <<indexes, tree>>
                ELSE /\ indexes' = Append(indexes,
                                          [name |-> n, field |-> f, unique |-> u])
                     /\ tree' = [tree EXCEPT ![n] =
                                   {<<slot[r].val[f], r>> : r \in keyed}]
                     /\ resp' = Resp("create_index", "SUCCESS", <<>>, <<>>, f, NULL)
       /\ UNCHANGED slot

\* Table::update_record: a NULL value (type UNDEFINED) is a type mismatch;
\* else scan and update every matching row.  The scan's error is dropped:
\* the statement answers SUCCESS with the rows updated before it.
UpdateRecord(f, v, where) ==
    \/ /\ v = NULL
       /\ resp' = Resp("update", "SCHEMA_FIELD_TYPE_MISMATCH", <<>>, where, f, v)
       /\ UNCHANGED <<slot, indexes, tree>>
    \/ /\ v # NULL
       /\ \E plan \in Plans(where) :
            LET st == ScanRecord([op |-> "update", where |-> where,
                                  field |-> f, val |-> v], plan)
            IN  /\ slot' = st.slot
                /\ tree' = st.tree
                /\ resp' = Resp("update", "SUCCESS", st.rows, where, f, v)
       /\ UNCHANGED indexes

\* Table::delete_record(filter) in an auto-commit transaction: the scan
\* marks the matching rows; on success the commit deletes them, on an
\* error the statement's marks are rolled back.
DeleteRecord(where) ==
    /\ \E plan \in Plans(where) :
         LET st == ScanRecord([op |-> "delete", where |-> where,
                               field |-> NULL, val |-> NULL], plan)
             cm == CommitDeletes(st.rows, st)
         IN  IF st.rc = "SUCCESS"
               THEN /\ slot' = cm.slot
                    /\ tree' = cm.tree
                    /\ resp' = Resp("delete", "SUCCESS", st.rows, where, NULL, NULL)
               ELSE /\ resp' = Resp("delete", st.rc, <<>>, where, NULL, NULL)
                    /\ UNCHANGED <<slot, tree>>
    /\ UNCHANGED indexes

\* SelectExeNode::execute: scan_record with a reader collecting tuples.
SelectRecord(where) ==
    /\ \E plan \in Plans(where) :
         LET st == ScanRecord([op |-> "select", where |-> where,
                               field |-> NULL, val |-> NULL], plan)
         IN  resp' = Resp("select", st.rc, st.rows, where, NULL, NULL)
    /\ UNCHANGED <<slot, indexes, tree>>

Next ==
    \/ \E vals \in [Fields -> Vals \cup {NULL}] : InsertRecord(vals)
    \/ \E n \in IndexNames, f \in Fields, u \in UniqueOpts : CreateIndex(n, f, u)
    \/ \E f \in UpdateFields, v \in Vals \cup {NULL}, w \in Where :
         UpdateRecord(f, v, w)
    \/ \E w \in Where : DeleteRecord(w)
    \/ \E w \in Where : SelectRecord(w)

Spec == Init /\ [][Next]_vars

-----------------------------------------------------------------------------
(* Properties                                                              *)

RCs == {"SUCCESS", "CONSTRAINT_NOTNULL", "SCHEMA_INDEX_EXIST",
        "SCHEMA_FIELD_TYPE_MISMATCH", "RECORD_DUPLICATE_KEY",
        "RECORD_INVALID_KEY", "RECORD_RECORD_NOT_EXIST"}

TypeOK ==
    /\ slot \in [RIDs -> Rec \cup {NoRecord}]
    /\ indexes \in Seq([name: IndexNames, field: Fields, unique: BOOLEAN])
    /\ tree \in [IndexNames -> SUBSET (Vals \X RIDs)]
    /\ resp.op \in {"none", "insert", "create_index", "update", "delete", "select"}
    /\ resp.rc \in RCs
    /\ resp.rows \in Seq(RIDs)

\* The entries an index on f must hold: one <<key, RID>> per live row
\* whose column f is not NULL.
IndexEntries(f) == {<<slot[r].val[f], r>> : r \in {q \in Live : f \notin slot[q].null}}

\* Index consistency (spec 8.3): after any sequence of INSERT, UPDATE,
\* DELETE and CREATE INDEX, every index holds exactly the entries of the
\* live rows -- no entry of a deleted or failed row, none missing.  This
\* is what insert_entry_of_indexes / delete_entry_of_indexes and their
\* callers' partial-failure paths must preserve.
IndexConsistent ==
    \A i \in 1..Len(indexes) : tree[indexes[i].name] = IndexEntries(indexes[i].field)

\* A UNIQUE index never covers two live rows with the same non-NULL key:
\* the probe in BplusTreeIndex::insert_entry and the duplicate check of
\* create_index must keep it whatever order rows arrive in.
UniqueKeys ==
    \A i \in 1..Len(indexes) : indexes[i].unique =>
        \A r1, r2 \in Live :
            /\ r1 # r2
            /\ indexes[i].field \notin slot[r1].null \cup slot[r2].null
            => slot[r1].val[indexes[i].field] # slot[r2].val[indexes[i].field]

\* A successful SELECT returns every live row satisfying the WHERE clause
\* exactly once and no other, whichever plan Table::scan_record took
\* (full scan or an index scanner chosen by find_index_for_scan).
SelectReturnsMatches ==
    resp.op = "select" /\ resp.rc = "SUCCESS" =>
        /\ IsInjective(resp.rows)
        /\ ToSet(resp.rows) = {r \in Live : Matches(resp.where, slot[r])}

\* Unique insert (spec 8.4): an INSERT fails with RECORD_DUPLICATE_KEY iff
\* a live row already has the same non-NULL key in a UNIQUE index.
InsertFailsIffDuplicate ==
    [][resp'.op = "insert" /\ resp'.rc \in {"SUCCESS", "RECORD_DUPLICATE_KEY"} =>
        ((resp'.rc = "RECORD_DUPLICATE_KEY") <=>
            \E i \in 1..Len(indexes) :
                LET f == indexes[i].field IN
                /\ indexes[i].unique
                /\ resp'.val[f] # NULL
                /\ \E r \in Live : f \notin slot[r].null /\ slot[r].val[f] = resp'.val[f])
      ]_vars

\* Index entries of row r, per index name.
EntriesOf(r, t) == [n \in IndexedNames |-> {e \in t[n] : e[2] = r}]

\* The entries row rec at r must have, per index name.
RowEntries(rec, r) ==
    [i \in 1..Len(indexes) |->
        IF indexes[i].field \in rec.null THEN {}
        ELSE {<<rec.val[indexes[i].field], r>>}]

\* A row as SELECT reads it.
View(rec) == [f \in Fields |-> ColVal(rec, f)]

\* Update atomicity of a row (spec 8.5): after an UPDATE every row that
\* was live either reads its old values with its old index entries, or
\* reads the new value with exactly the entries of the new row -- never
\* the new value with entries missing, as update_record_one_attr could
\* leave it.
UpdateAtomic ==
    [][resp'.op = "update" =>
        \A r \in Live :
            \/ /\ View(slot'[r]) = View(slot[r])
               /\ EntriesOf(r, tree') = EntriesOf(r, tree)
            \/ /\ View(slot'[r]) = [View(slot[r]) EXCEPT ![resp'.field] = resp'.val]
               /\ \A i \in 1..Len(indexes) :
                    EntriesOf(r, tree')[indexes[i].name] = RowEntries(slot'[r], r)[i]
      ]_vars

\* UPDATE sets the column (spec 4, Update; invariant 6, the NULL bitmap):
\* every row an UPDATE answering SUCCESS counts as updated reads the new
\* value afterwards.  update_record_one_attr memcpys the value into the
\* column bytes; whether the row then reads it depends on the NULL bit the
\* row was inserted with.
UpdateApplied ==
    [][resp'.op = "update" /\ resp'.rc = "SUCCESS" =>
        \A r \in ToSet(resp'.rows) : ColVal(slot'[r], resp'.field) = resp'.val
      ]_vars

=============================================================================
