----------------------------- MODULE TableFiles -----------------------------
(***************************************************************************)
(* The files of one table and the handlers that change them (table.cpp):  *)
(* Table::create, Table::drop, Table::create_index, and Table::open with  *)
(* init_record_handler, which the database runs for every <name>.table    *)
(* file when it starts.  Each file-system call is a step of its own: the  *)
(* process may crash between two of them (the files stay, the Table       *)
(* object is gone), and any call may fail with an I/O error, which the    *)
(* handler answers by returning early.  Page contents are left out: a     *)
(* file is there or not, and the meta file is absent, empty (created by   *)
(* the exclusive open, not yet written) or written.                       *)
(***************************************************************************)
EXTENDS Naturals, FiniteSets

CONSTANTS
  IndexNames,   \* the index names a statement may use
  MaxFaults     \* bound on I/O errors and crashes together

VARIABLES
  meta,      \* <name>.table: "none", "empty" or "full"
  metaIdx,   \* the indexes the written meta file records
  data,      \* <name>.data exists
  idxFiles,  \* the <name>-<index>.index files that exist
  tbl,       \* the Table object the database holds, or NoTable
  pc,        \* the step of the handler running, "idle" between statements
  todo,      \* the indexes the running handler has still to visit
  db,        \* "up", "boot" (restarting) or "down" (failed to start)
  res,       \* the last handler that returned, or the last crash
  faults     \* I/O errors and crashes so far

vars == <<meta, metaIdx, data, idxFiles, tbl, pc, todo, db, res, faults>>

NoTable == [handler |-> FALSE, fid |-> FALSE, indexes |-> {}, meta |-> {}, live |-> FALSE]

(* A Table object: record_handler_ set, file_id_ naming an open file, the
   opened indexes_ and the in-memory table_meta_'s indexes. *)
TableObj(h, f, ix, m) == [handler |-> h, fid |-> f, indexes |-> ix, meta |-> m, live |-> TRUE]

Init ==
  /\ meta = "none" /\ metaIdx = {} /\ data = FALSE /\ idxFiles = {}
  /\ tbl = NoTable /\ pc = "idle" /\ todo = {} /\ db = "up"
  /\ res = [op |-> "none", rc |-> "SUCCESS", named |-> {}]
  /\ faults = 0

CanFail == faults < MaxFaults

(* A handler returns rc; a failed create, or a failed open at start-up,
   makes the database delete the Table object. *)
Return(op, rc, named) ==
  /\ pc' = "idle" /\ todo' = {}
  /\ res' = [op |-> op, rc |-> rc, named |-> named]

IOFail(op) ==
  /\ CanFail /\ faults' = faults + 1
  /\ Return(op, "IOERR", tbl.meta)

Running(step) == db = "up" /\ pc = step
-----------------------------------------------------------------------------
(* Table::create: ::open(path, O_CREAT | O_EXCL) refuses an existing meta
   file; otherwise the file is made, then written. *)
CreateOpen ==
  /\ Running("idle") /\ ~tbl.live
  /\ \/ /\ meta # "none"
        /\ Return("create", "SCHEMA_TABLE_EXIST", {})
        /\ UNCHANGED <<meta, faults>>
     \/ /\ meta = "none"
        /\ meta' = "empty" /\ pc' = "create_write"
        /\ UNCHANGED <<todo, res, faults>>
     \/ meta = "none" /\ IOFail("create") /\ UNCHANGED meta
  /\ UNCHANGED <<metaIdx, data, idxFiles, tbl, db>>

(* fs.open and table_meta_.serialize. *)
CreateWrite ==
  /\ Running("create_write")
  /\ \/ /\ meta' = "full" /\ metaIdx' = {} /\ pc' = "create_data"
        /\ UNCHANGED <<todo, res, faults>>
     \/ IOFail("create") /\ UNCHANGED <<meta, metaIdx>>
  /\ UNCHANGED <<data, idxFiles, tbl, db>>

(* data_buffer_pool_->create_file.  No data file outlives its meta file
   (drop removes it first, create makes it last), so the exclusive create
   meets no old file here. *)
CreateData ==
  /\ Running("create_data")
  /\ ~data
  /\ \/ /\ data' = TRUE /\ pc' = "create_handler"
        /\ UNCHANGED <<todo, res, faults>>
     \/ IOFail("create") /\ UNCHANGED data
  /\ UNCHANGED <<meta, metaIdx, idxFiles, tbl, db>>

(* init_record_handler: open_file, then the RecordFileHandler.  Only a
   create that returns SUCCESS leaves the database a Table object. *)
CreateHandler ==
  /\ Running("create_handler")
  /\ \/ /\ tbl' = TableObj(TRUE, TRUE, {}, {})
        /\ Return("create", "SUCCESS", {}) /\ UNCHANGED faults
     \/ IOFail("create") /\ UNCHANGED tbl
  /\ UNCHANGED <<meta, metaIdx, data, idxFiles, db>>
-----------------------------------------------------------------------------
(* Table::drop: close_file(file_id_), which fails for the -1 of a table
   whose data file never opened and for a file already closed. *)
DropClose ==
  /\ Running("idle") /\ tbl.live
  /\ \/ /\ ~tbl.fid
        /\ Return("drop", "IOERR", tbl.meta) /\ UNCHANGED <<tbl, faults>>
     \/ /\ tbl.fid
        /\ tbl' = [tbl EXCEPT !.fid = FALSE]
        /\ pc' = "drop_data" /\ todo' = tbl.indexes
        /\ UNCHANGED <<res, faults>>
  /\ UNCHANGED <<meta, metaIdx, data, idxFiles, db>>

(* Mutant: the data file's drop_file left out. *)
DropData_KeepData ==
  /\ Running("drop_data")
  /\ pc' = "drop_index"
  /\ UNCHANGED <<data, todo, res, faults, meta, metaIdx, idxFiles, tbl, db>>

(* drop_file of the data file, which close_file has just found open. *)
DropData ==
  /\ Running("drop_data")
  /\ \/ /\ data' = FALSE /\ pc' = "drop_index"
        /\ UNCHANGED <<todo, res, faults>>
     \/ IOFail("drop") /\ UNCHANGED data
  /\ UNCHANGED <<meta, metaIdx, idxFiles, tbl, db>>

(* Mutant: the loop drops the index file but does not advance past it. *)
DropIndex_NoAdvance ==
  /\ Running("drop_index")
  /\ \E i \in todo :
       \/ /\ idxFiles' = idxFiles \ {i}
          /\ UNCHANGED <<pc, todo, res, faults>>
       \/ IOFail("drop") /\ UNCHANGED idxFiles
  /\ UNCHANGED <<meta, metaIdx, data, tbl, db>>

(* One turn of the loop over indexes_: close the index (which always
   succeeds), drop its file.  Every index in indexes_ was opened or made
   from its file, and only drop removes one. *)
DropIndex ==
  /\ Running("drop_index")
  /\ \E i \in todo :
       \/ /\ idxFiles' = idxFiles \ {i} /\ todo' = todo \ {i}
          /\ UNCHANGED <<pc, res, faults>>
       \/ IOFail("drop") /\ UNCHANGED idxFiles
  /\ UNCHANGED <<meta, metaIdx, data, tbl, db>>

(* Mutant: the loop stops one index short (i < indexes_.size() - 1). *)
DropMeta_OffByOne ==
  /\ Running("drop_index") /\ Cardinality(todo) <= 1
  /\ \/ /\ meta # "none"
        /\ meta' = "none" /\ metaIdx' = {} /\ tbl' = NoTable
        /\ Return("drop", "SUCCESS", tbl.meta) /\ UNCHANGED faults
     \/ meta # "none" /\ IOFail("drop") /\ UNCHANGED <<meta, metaIdx, tbl>>
  /\ UNCHANGED <<data, idxFiles, db>>

(* ::unlink(path) once the loop is done; the database then forgets the
   table.  A failed drop leaves the Table object registered. *)
DropMeta ==
  /\ Running("drop_index") /\ todo = {}
  /\ \/ /\ meta # "none"
        /\ meta' = "none" /\ metaIdx' = {} /\ tbl' = NoTable
        /\ Return("drop", "SUCCESS", tbl.meta) /\ UNCHANGED faults
     \/ meta # "none" /\ IOFail("drop") /\ UNCHANGED <<meta, metaIdx, tbl>>
  /\ UNCHANGED <<data, idxFiles, db>>
-----------------------------------------------------------------------------
(* Table::create_index: an existing index name is refused; then
   index->create makes the index file with an exclusive create. *)
CreateIndexFile ==
  /\ Running("idle") /\ tbl.live
  /\ \E i \in IndexNames \ tbl.meta :
       \/ /\ i \in idxFiles
          /\ Return("create_index", "IOERR", tbl.meta) /\ UNCHANGED <<idxFiles, faults>>
       \/ /\ i \notin idxFiles
          /\ idxFiles' = idxFiles \cup {i} /\ pc' = "ci_scan" /\ todo' = {i}
          /\ UNCHANGED <<res, faults>>
       \/ i \notin idxFiles /\ IOFail("create_index") /\ UNCHANGED idxFiles
  /\ UNCHANGED <<meta, metaIdx, data, tbl, db>>

(* scan_record with the IndexInserter: the scan opens file_id_, so it
   fails on a table whose data file is not open; on failure the index is
   closed and its file dropped, and a failure of that drop_file is only
   logged: the index file stays (RollbackDrop, given the fault count after
   the scan's own failure).  On success the index joins indexes_. *)
RollbackDrop(i, f) ==
  \/ idxFiles' = idxFiles \ {i} /\ faults' = f
  \/ f < MaxFaults /\ faults' = f + 1 /\ UNCHANGED idxFiles

CreateIndexScan ==
  /\ Running("ci_scan")
  /\ \E i \in todo :
       \/ /\ tbl.fid
          /\ tbl' = [tbl EXCEPT !.indexes = @ \cup {i}] /\ pc' = "ci_meta"
          /\ UNCHANGED <<idxFiles, todo, res, faults>>
       \/ /\ ~tbl.fid /\ RollbackDrop(i, faults)
          /\ Return("create_index", "IOERR", tbl.meta) /\ UNCHANGED tbl
       \/ /\ tbl.fid /\ CanFail /\ RollbackDrop(i, faults + 1)
          /\ Return("create_index", "IOERR", tbl.meta) /\ UNCHANGED tbl
  /\ UNCHANGED <<meta, metaIdx, data, db>>

(* The new meta goes to <name>.table.tmp and is renamed over the meta
   file; only then does table_meta_ take it.  A failure of either call
   returns IOERR with the index kept in indexes_. *)
CreateIndexMeta ==
  /\ Running("ci_meta")
  /\ \E i \in todo :
       \/ /\ metaIdx' = metaIdx \cup {i}
          /\ tbl' = [tbl EXCEPT !.meta = @ \cup {i}]
          /\ Return("create_index", "SUCCESS", tbl.meta \cup {i}) /\ UNCHANGED faults
       \/ IOFail("create_index") /\ UNCHANGED <<metaIdx, tbl>>
  /\ UNCHANGED <<meta, data, idxFiles, db>>
-----------------------------------------------------------------------------
(* The process dies: between two steps of a handler or between two
   statements.  The files stay; the Table object is gone. *)
Crash ==
  /\ db = "up" /\ CanFail
  /\ faults' = faults + 1 /\ db' = "boot"
  /\ tbl' = NoTable /\ pc' = "idle" /\ todo' = {}
  /\ res' = [op |-> "crash", rc |-> "NONE", named |-> {}]
  /\ UNCHANGED <<meta, metaIdx, data, idxFiles>>

(* Table::open as the database runs it for a <name>.table file at start:
   fs.open of the meta file, which an I/O error fails with IOERR; then
   deserialize the meta, init_record_handler (whose rc the index loop
   overwrites), then open every index the meta records, returning at the
   first that fails.  A failed open stops the database from starting. *)
OpenRc(initOk) ==
  CASE meta = "empty"       -> "GENERIC_ERROR"
    [] ~(metaIdx \subseteq idxFiles) -> "IOERR"
    [] metaIdx # {}         -> "SUCCESS"
    [] OTHER                -> IF initOk THEN "SUCCESS" ELSE "IOERR"

Open ==
  /\ db = "boot" /\ meta # "none"
  /\ \/ \E initOk \in {data} \cup (IF data /\ CanFail THEN {FALSE} ELSE {}) :
          \E rc \in {OpenRc(initOk)} :
            /\ db' = IF rc = "SUCCESS" THEN "up" ELSE "down"
            /\ tbl' = IF rc = "SUCCESS" THEN TableObj(initOk, initOk, metaIdx, metaIdx) ELSE NoTable
            /\ res' = [op |-> "open", rc |-> rc, named |-> metaIdx]
            /\ faults' = IF data /\ ~initOk THEN faults + 1 ELSE faults
     \/ /\ CanFail /\ faults' = faults + 1
        /\ db' = "down" /\ tbl' = NoTable
        /\ res' = [op |-> "open", rc |-> "IOERR", named |-> metaIdx]
  /\ UNCHANGED <<meta, metaIdx, data, idxFiles, pc, todo>>

(* No meta file: the database starts without the table. *)
StartEmpty ==
  /\ db = "boot" /\ meta = "none"
  /\ db' = "up"
  /\ UNCHANGED <<meta, metaIdx, data, idxFiles, tbl, pc, todo, res, faults>>

Next ==
  \/ CreateOpen \/ CreateWrite \/ CreateData \/ CreateHandler
  \/ DropClose \/ DropData \/ DropIndex \/ DropMeta
  \/ CreateIndexFile \/ CreateIndexScan \/ CreateIndexMeta
  \/ Crash \/ Open \/ StartEmpty

Spec == Init /\ [][Next]_vars

(* The steps of a handler after its first: a statement runs to completion
   on the worker that took it (spec.md 5), so once begun they are taken
   until the handler returns, unless the process dies. *)
HandlerStep ==
  \/ CreateWrite \/ CreateData \/ CreateHandler
  \/ DropData \/ DropIndex \/ DropMeta
  \/ CreateIndexScan \/ CreateIndexMeta

-----------------------------------------------------------------------------
TypeOK ==
  /\ meta \in {"none", "empty", "full"} /\ metaIdx \subseteq IndexNames
  /\ data \in BOOLEAN /\ idxFiles \subseteq IndexNames
  /\ tbl.indexes \subseteq IndexNames /\ tbl.meta \subseteq tbl.indexes
  /\ db \in {"up", "boot", "down"} /\ faults \in 0..MaxFaults

(* The order of the file steps makes every crash state recognisable: drop
   removes the data file before any index file and the meta file last, and
   create_index makes the index file before the meta names it.  So a
   written meta file naming an index whose file is gone occurs only with
   the data file gone too, whichever step a crash or an I/O error stopped. *)
IndexFilesBeforeMeta ==
  meta = "full" => (metaIdx \subseteq idxFiles \/ ~data)

(* A drop that returns SUCCESS leaves none of the table's files: not the
   data file, not the meta file, and no index file the meta named, however
   earlier crashes and failed create_index calls left indexes_ and the
   meta file apart. *)
DropComplete ==
  res.op = "drop" /\ res.rc = "SUCCESS" /\ pc = "idle" =>
    meta = "none" /\ ~data /\ idxFiles \cap res.named = {}

(* spec.md 7, Propagation: a failed statement rolls back its own effects.
   So between statements the indexes_ of the Table object are exactly the
   indexes its table_meta_ records.  create_index pushes the new index
   into indexes_ before it writes <name>.table.tmp and renames it; a
   failure of either call returns IOERR and leaves the index in indexes_
   (where every INSERT keeps feeding it) but in no meta, and its file
   makes the exclusive create of a retry under the same name fail. *)
IndexesMatchMeta == pc = "idle" => tbl.indexes = tbl.meta

(* Every handler that has begun returns: create, drop and create_index
   each reach their return, with SUCCESS or an error, or the process dies
   first.  It relies on every step of the three handlers being enabled
   until it returns (CreateData's data file absent, the drop loop's todo
   shrinking to empty) and on no step waiting on another statement. *)
HandlerReturns == pc # "idle" ~> pc = "idle"
====
