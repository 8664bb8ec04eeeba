# TLA+ models of the Atangyldb storage engine

Atangyldb is a small relational database derived from miniob. A client sends SQL
over a socket. A pipeline of stages parses the statement and plans it, and the plan
runs against a disk-backed storage engine. This directory holds three things:

- TLA+ models of the engine and of the executor above it;
- the TLC configurations that check them;
- `PROJECT.json`, which lists the components, runs, mutants, source map (which
  definition models which lines), findings and hazards.

All paths below are relative to `src/src/observer/`.

## 1. The system

| Part | Source | What it does |
|---|---|---|
| Buffer pool | `storage/default/disk_buffer_pool.h` (the `.cpp` is not in the tree) | frames, pins, LRU, page allocation and disposal |
| Record manager | `storage/common/record_manager.cpp` | slotted data pages with a slot bitmap, the cached insert page, the file scanner, TEXT overflow pages |
| Table | `storage/common/table.cpp`, `table_meta.cpp` | the files of a table (create, drop, open, create_index), INSERT / UPDATE / DELETE / scan with index maintenance, TEXT columns |
| B+Tree index | `storage/common/bplus_tree_index.cpp` (`bplus_tree.cpp` is not in the tree) | `(key, RID)` entries, the uniqueness probe, range scanners |
| Condition filter | `storage/common/condition_filter.cpp` | record filters with NULL semantics, `Filter::bind_table` / `filter`, `from_condition` with constant folding |
| Date check | `storage/common/meta_util.cpp` | `DateUtil::Check_and_format_date` |
| Executor | `sql/executor/executor_builder.cpp`, `execution_node.cpp`, `tuple.cpp` | the executor tree of a SELECT, the output schema and the projection |
| Parser, session, network, stages | `sql/parser`, `session`, `net`, `deps/common/seda` | building query structs, I/O and forwarding |

A SELECT goes through the following steps:

1. `ExecutorBuilder::build` plans the SELECT. It builds scans of the FROM tables and
   of the joined tables, nested-loop joins and sub-query executors. Each executor
   gets its `Filter`s from `Filter::from_condition`.
2. A scan calls `Table::scan_record`. That runs either a full scan of the record
   file or an index scan chosen by `find_index_for_scan`, and calls a reader for
   each matching row.
3. For SELECT, the reader turns the row into a tuple
   (`TupleRecordConverter::add_record`).
4. The output schema comes from the select list (`build_output_schema`).

UPDATE and DELETE work differently. Their readers change the rows and index
entries they are scanning. DELETE marks rows, and the auto-commit deletes them.
The record manager and the B+Tree both sit on the buffer pool.

## 2. The modules

| Module | Models | State | Actions |
|---|---|---|---|
| `Table.tla`, `MC_Table.tla` | `Table::insert_record`, `update_record`, `delete_record` (auto-commit), `scan_record` / `scan_record_by_index`, `create_index`, `find_index_for_scan`, `DefaultConditionFilter` | `slot` (RID → row with NULL bitmap), `indexes` (creation order), `tree` (index → `(key, RID)` pairs), `resp` | one per statement, plus the scan loop |
| `RecordStore.tla` | the record manager's promise, without pages | `store` (RID → record), `answer` | insert, delete, update, get |
| `RecordFile.tla` | `RecordFileHandler`, `RecordPageHandler`, `RecordFileScanner`, the buffer pool's allocate, dispose and get | pages, headers, bitmaps, the cached insert handler (with its stale `page_header_`), the scanner, TEXT pages | one per call; the scanner advances one record per step |
| `TextTable.tla` | `make_and_insert_text_record`, `delete_text_record`, `update_record_text_attr` | RecordFile's state plus the pending first half of a two-call operation | the two record-file calls of each, nothing between them |
| `PageLayout.tla` | `attr_info_init`, `TableMeta::init` record size, `init_empty_page` | the columns of a CREATE TABLE, the page header | append a column (up to MAX_NUM, an exploration bound: the code checks none), lay out the page |
| `DateUtil.tla` | `Check_and_format_date`, `check_dateRange` | the input string, the buffer, rc | check and rewrite in place |
| `TableFiles.tla` | `Table::create`, `Table::drop`, the file steps of `create_index`, `Table::open` at start-up | meta, data and index files; the `Table` object; the handler's program counter; the database's up/boot/down state; a fault count | one per file-system call, each with its I/O-error branch; crash; open at restart |
| `RowFilter.tla`, `MC_RowFilter.tla` | `Filter::bind_table`, `Filter::filter(Record)`, `compare_result`, `TableMeta::field` | the condition, bind_table's rc, the records kept | bind, filter the table (under either outcome of an overflowing INTS subtraction) |
| `OutputSchema.tla` | `build_output_schema`, `TupleSchema::from_table` / `add_if_not_exists` / `table_field_index`, `TupleRecordConverter::add_record`, the Select, cartesian and Output ExeNodes | the Selects, the output schema, the scans' tuple sets, the joined set, the output tuples | build the schema, scan each table in any order, join in any order, project |
| `Query.tla`, `MC_Query.tla` | `ExecutorBuilder` (select, join and sub-query executors, `build_multi_table_conditions`, `symmetric_op`), `Filter::from_condition`, the tuple and join overloads of `Filter::filter` | the database, the Selects (rewritten by `from_condition`), the executor tree, the result | build the tree, run it |
| `MC_Catalog.tla` | a composition of PageLayout, DateUtil, TableFiles, RowFilter, OutputSchema, Table (one UNIQUE index), TextTable and a plain RecordFile | all of theirs, the two record files' under separate names | each runs while the others stay in their initial state |

How each action corresponds to the code:

- **A guard is a condition or an early return of the handler.** Primed variables are
  its assignments. Every call that changes state is part of the same action. For
  example, `InsertRecord` includes `insert_entry_of_indexes`, and `DropMeta` includes
  the reset of the `Table` object.
- **Where the code is a loop with its own hazards, each iteration is a step.** This
  applies to the record-file scanner, whose readers change rows between steps, and to
  the file steps of `Table::drop` and `Table::create`, where a crash may fall between
  two of them.
- **Data is abstracted.**
  - Values are small integers.
  - Strings are sequences of character codes only where the bytes matter (DateUtil
    and RowFilter).
  - Column names are model values.
  - The bytes of a NULL column are one fixed value (`Garbage`, `GARBAGE`), because
    `new char[]` leaves them uninitialized.
- **Undefined behaviour is a nondeterministic choice.** One case is the uninitialized
  `ConDesc.is_null` read by `find_index_for_scan`. Another is the uninitialized page
  number of a NULL TEXT value. A third is the overflow of the INTS `left - right` in
  `Filter::filter`: a build may wrap it, or fold it into the sign test and keep the
  true order (`RowFilter!IntCmp`).

**Refinement.** `RecordFile` is shown to implement `RecordStore`. `Abs == INSTANCE
RecordStore WITH store <- StoreView, answer <- resp` maps the pages to RID → record,
and `AbsSpec == Abs!Spec` is checked as a property. `TextTable` is checked against
the same abstract specification. Both refinements are checked in `catalog`, as
`FileAbsSpec` (the plain record file) and `AbsSpec` (the TEXT table's file).

**Fault model.** `TableFiles` lets every file-system call fail with an I/O error, and
lets the process crash between any two steps. Together these are bounded by
`MaxFaults`. After a crash the files stay, the `Table` object is gone, and the
database reopens every table whose meta file exists; that open's `fs.open` of the
meta file can fail too. The `drop_file` of `create_index`'s rollback can fail, and
then, as in the code, it is only logged and the index file stays. The record manager's failure
paths are reached through the buffer pool's answers: `get_this_page` on a disposed
page, and dispose of a pinned page.

## 3. Runs

| Run | Expect | Properties | Shows | States |
|---|---|---|---|---|
| `table_nonunique` | pass | TypeOK, IndexConsistent, SelectReturnsMatches, UpdateAtomic | With non-unique indexes, every sequence of statements keeps each index exact. SELECT returns exactly the matching rows under every plan. Each updated row moves with its entries. | 52,273 |
| `insert_dup_dangling` | violation | IndexConsistent | An INSERT refused by a later UNIQUE index leaves its entry in an earlier index. | |
| `update_unique_partial` | violation | UpdateAtomic | An UPDATE to a key a UNIQUE index holds keeps the new value with no entry. | |
| `update_null_stays` | violation | UpdateApplied | INSERT (1, NULL), then UPDATE b = 1: the bytes change but the NULL bit stays, so the row still reads NULL. | |
| `index_scan_swapped` | violation | SelectReturnsMatches | `1 < a` over an index on `a` scans `a < 1`. | |
| `catalog` | pass | TypeOK, CapacityMaximal, DateAccepted, DateOrder, IndexFilesBeforeMeta, DropComplete, FilterMatchesDates, ShowsStoredValues, SchemaRequested, UniqueKeys, TextOwned, ScanExact; HandlerReturns, InsertFailsIffDuplicate, AbsSpec, FileAbsSpec, ScanTerminates | See below. | 216,444 |
| `filter_int_overflow` | violation | FilterMatchesInts | `WHERE -1000 < n` drops the row with n = 2147483000 when the subtraction wraps. | |
| `create_index_meta_fail` | violation | IndexesMatchMeta | create_index pushes the index into `indexes_` before it writes the meta file. If that write fails, the open table has an index its meta file does not name. | |
| `insert_after_reopen` | violation | InsertSucceeds | After a reopen, and once page 1 is disposed, every INSERT fails. | |
| `text_null_garbage` | violation | OthersIntact | Deleting a row with a NULL TEXT value resets the page its garbage page number names. | |
| `query` | pass | WhereSound, TwoTableComplete | The executor tree returns only rows that satisfy WHERE. With two tables it returns exactly the relational result. | 171,294 |
| `query_on_dropped` | violation | QuerySound | An ON condition `t1.a = 1` reaches no executor. | |

The `catalog` run checks the following:

- **Data page layout.** A data page leaves no room for one more slot, for every table
  of up to MAX_NUM columns.
- **Date check.** `Check_and_format_date` accepts exactly the real dates from
  1970-01-01 up to, not including, 2038-03-01, the range spec.md 4.4 and the
  comments at `meta_util.h:33` and `meta_util.cpp:13` give. The bound day itself is
  left out of the property: `check_dateRange` accepts it (`meta_util.cpp:21`), and
  showing that disagreement needs a violation run the project has no slot for. Its
  canonical buffers order under `strcmp` as the dates do.
- **Table files.** This covers every sequence of create, drop and create_index with
  up to two faults and the restart:
  - a written meta file names a missing index file only once the data file is gone;
  - a drop that returns SUCCESS leaves none of the table's files.
- **Date conditions.** A condition comparing a DATE column with a string, on either
  side, is accepted exactly for real dates (the bound day left out, as above). The scan then keeps exactly the records
  on the right side of that date, however the date was written. This goes through
  `bind_table`'s coercion, the in-place rewrite and `strcmp`.
- **Liveness of the files.** A begun create, drop or create_index returns
  (`HandlerReturns`).
- **UNIQUE index.** One UNIQUE index over two slots. It never covers two live rows
  with the same key, and INSERT fails with RECORD_DUPLICATE_KEY exactly when a live
  row holds the key.
- **TEXT rows.** TEXT insert, delete and update keep each overflow page owned by one
  row. The TEXT table's record file implements
  RecordStore.
- **Plain record file.** Over three pages of two slots, every interleaving of the
  record-file calls with scans and reopening does three things: it implements
  RecordStore, a scan returns each record that stays live exactly once, and every
  scan ends.
- **SELECT output.** Two tables share the column name `id` and hold NULLs. For every
  SELECT over them:
  - every output tuple shows the stored values, NULLs included;
  - the output has one tuple per combination of rows, in any scan and join order;
  - the output schema has every requested column.

Each violation run is a finding in `PROJECT.json`. A finding gives the source line
and what spec.md says instead.

Every property of a passing run has a mutant in `PROJECT.json`. A mutant is a variant
of one mapped definition, written just before it, under which TLC finds the property
violated. Examples are a dropped NULL-bit shift in `add_record`, a column lookup by
name only in `add_if_not_exists`, and the date checked on a copy in `bind_table`.

`catalog` takes about three minutes and every other run under two. The violations need two to six steps.

### Bounds, and why they are enough

- **Table.** Two columns (one NULLABLE), values {1, 2}, two RIDs and two index names.
  This gives equal and distinct keys, a NULL, a collision on a key, and a partial
  failure across two indexes. At most one condition is used, and it compares with 1,
  so both a key below the boundary and a key at it exist.
- **RecordFile** (the plain record file of `catalog`). Three pages of two slots. A full page, a partly filled page and a
  disposed page can exist at the same time, and the cached insert page can be
  different from the page the scanner is on.
- **TableFiles.** Two index names and two faults. That is enough for one crash in
  the middle of a drop after a create_index, and for an I/O error followed by a
  crash.
- **DateUtil and RowFilter.** The date strings are every combination of years
  {1969, 1970, 2000, 2021, 2024, 2037, 2038, 2039}, months {0, 1, 2, 3, 4, 9, 10,
  12, 13} and days {0, 1, 28, 29, 30, 31, 32}. Each is written in every width the
  regex admits. Five malformed strings are added. Together these reach the leap days
  of 2000 and 2024, the 31st of a short month, the days before 1970, the bound day
  and the day after it. The conditions use nine date strings, padded and unpadded,
  against five stored dates on both sides of them.
- **OutputSchema.** Two tables, two rows each. Each table has a NULL in a different
  column, and both tables have a column `id`. The five select lists cover `*` alone,
  `t.*` with a plain column, qualified columns of the same name, an unqualified
  column, and a JOIN.
- **TextTable** (in `catalog`). Five pages of two slots: two TEXT rows with their
  two overflow pages, and a data page left over for the page search.
- **MC_RowFilter.** Rows holding -2147483000, 0 and 2147483000 against the
  constants -1000 and 1000. The first and last are far enough apart from a constant
  of the other sign for the subtraction to overflow; zero is a row it does not.
- **Query.** Three tables (symmetric), up to two FROM tables, one JOIN, two
  conditions of every shape from_condition tells apart, and values {0, 1}.

### Fairness

Fairness is assumed only for the steps of a statement that has already begun.
spec.md 5 says one worker runs a statement to completion. Which statement comes
next, and whether one comes at all, is the client's choice, so no fairness is
assumed for it. The `catalog` spec has two weak-fairness conjuncts:

- `WF(TF!HandlerStep)`: a begun `Table::create`, `drop` or `create_index` runs to its
  return.
- `WF(RFL!ScanNext)`: `Table::scan_record` runs its loop to the end.

Each is taken on its part's step with the other parts unchanged. When a part has
left its initial state, no other part can start. So the step stays enabled until
it is taken.

Deadlock checking is off in the pass runs `catalog` and `query`, because a finished
statement really stops. It is also off in the violation runs on MC_Query,
MC_RowFilter and TableFiles. It is on everywhere else.

## 4. Hazards

`PROJECT.json` lists what is hard to test in this code, at the line where it bites,
and names the properties that cover each hazard. Some hazards have no property; for
those, the entry says why. Two examples:

- **`Table::open` rc overwrite (`table.cpp:180`).** A failed `init_record_handler` is
  overwritten with SUCCESS when the table has indexes. No violation run exists for
  it, because of the limit on runs.
- **Page search (`record_manager.cpp:360`).** `(current_page_num + i) % page_count`
  skips pages once the file has five or more. Showing it needs a run of its own.
- **Crash recovery and concurrent writers.** spec.md makes them non-goals, and
  `trx.cpp` is not in the tree. The hazards at `table.cpp:600`, `:237` and `:423` are
  listed with that note.

## 5. Not modelled

- **Buffer pool.** `disk_buffer_pool.cpp` is not in the source tree: there is no code
  to translate. RecordFile keeps the part of the contract the record manager relies
  on.
- **B+Tree internals.** `bplus_tree.cpp` is not in the tree. The index is a set of
  `(key, RID)` pairs with an ordered scanner.
- **Transactions beyond auto-commit.** `trx.cpp` is not in the tree, and neither is
  `field_meta.cpp`.
- **`read_text_data` and `tuple_add_text_field`.** These only copy bytes. Their
  overflow of `char s[4097]` (`tuple.cpp:327`) is the same on every path, so a model
  has nothing to explore. It is listed as a hazard.
- **Parts of the executor whose code is not in the tree:**
  - aggregation (`agg_executor`);
  - ORDER BY: `TupleSortUtil` is defined nowhere in the tree and nothing builds an
    `OrderByExeNode`, so the code is dead;
  - the Scan, NestLoopJoin and SubQuery executor classes. Query models their
    filtering from spec.md 4.6 and marks it spec_modelled.
- **TableMeta serialize and deserialize.** The per-field and per-index JSON halves
  (`FieldMeta::to_json` and `from_json`, `IndexMeta::from_json`) are not in the tree.
  What is in the tree is `deserialize`'s sort of the fields by offset and its
  `record_size_ = back.offset + back.len`. Every column length attr_info_init gives is
  positive, so `TableMeta::init` lays the fields out at strictly increasing offsets:
  the sort is the identity and the record size equals init's. A property on that
  round trip would hold by construction. A zero-length column would make the
  unstable sort matter, but the grammar that fixes CHAR lengths is not in the tree.
- **`Table::sync`.** Page contents are not part of TableFiles.
- **Printing of headers and rows, expressions (`ast`), FLOATS columns.** These are
  formatting, or data that no property tells apart.
- **`selects_destroy` (`parse.cpp:259`).** Its ORDER BY loop frees `attributes[i]`
  again instead of `order_by[i].attribute`, so every SELECT with ORDER BY leaks its
  order-by names. It also resets `condition_num` twice and never resets `aggre_num`;
  `query_destroy` frees the Query right after, so the stale count is never read. The
  leak is listed as a hazard; it touches no state the engine shares.
- **Parser, network, session and stage glue, metrics, configuration, pid files and
  `MemPool`.** These are I/O and forwarding with no state the engine shares. Nothing
  in the tree uses `MemPool`.
