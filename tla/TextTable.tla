----------------------------- MODULE TextTable -----------------------------
(***************************************************************************)
(* A table with one TEXT column over its record file (table.cpp).          *)
(*                                                                         *)
(* A TEXT value keeps 28 bytes inline; the rest goes to an overflow page   *)
(* of its own whose number is stored in the first 4 bytes of the column.   *)
(* Each table-level operation is two record-file calls in a row:          *)
(*                                                                         *)
(*   make_and_insert_text_record   insert_text_data, then insert_record    *)
(*   delete_text_record            delete_text_data, then delete_record    *)
(*   update_record_text_attr       update_record, then update_text_data    *)
(*                                                                         *)
(* and nothing else runs between the two (spec.md 5: a statement runs on   *)
(* one worker), so `pending` holds the first call's result and only the    *)
(* second call is enabled.  The other calls of the table on its file are   *)
(* RecordFile's: get_record and update_record (a non-TEXT column) on any   *)
(* RID a caller holds, scans, and reopening the table.                    *)
(*                                                                         *)
(* A NULL TEXT value sets the NULL bit and writes nothing: the page-number *)
(* bytes keep what `new char[record_size]` left there.  That read of       *)
(* uninitialized memory is any page number the model has.                  *)
(*                                                                         *)
(* Assertions: make_and_insert_text_record asserts that both calls         *)
(* succeeded, and the delete and update paths assert on the TEXT page      *)
(* call.  The model follows a build with NDEBUG: the code goes on after a  *)
(* failed call.                                                            *)
(***************************************************************************)
EXTENDS RecordFile

CONSTANTS
  NullText   \* the NULL flags an INSERT may give the TEXT column

VARIABLES
  tpage,     \* RID -> the PageNum in the record's TEXT column bytes
  pending    \* the first call of a table operation, done; or NoPending

ttvars == <<vars, tpage, pending>>

NoPending == [op |-> "none"]

(* The model leaves a TEXT insert out when the file bound could not hold
   both pages the insert may allocate (the text page and a data page). *)
RoomForTextInsert == Cardinality(FreePages) + (MaxPages - page_count) >= 2

TTInit ==
  /\ Init
  /\ tpage = [r \in RIDs |-> 1]
  /\ pending = NoPending

(* make_and_insert_text_record, first part: a non-NULL value gets an
   overflow page from insert_text_data and its number goes into the
   record; a NULL value leaves the bytes as they were. *)
InsertTextRecord(v, isnull, g) ==
  /\ pending = NoPending
  /\ RoomForTextInsert
  /\ IF isnull THEN UNCHANGED vars ELSE InsertTextData
  /\ pending' = [op |-> "insert", val |-> v,
                 page |-> IF isnull THEN g ELSE NextPage]
  /\ UNCHANGED tpage

(* make_and_insert_text_record, second part: Table::insert_record.  If
   the record file refuses the row, the overflow page stays allocated. *)
FinishInsert ==
  /\ pending.op = "insert"
  /\ InsertRecord(pending.val)
  /\ tpage' = IF resp'.rc = "SUCCESS"
              THEN [tpage EXCEPT ![resp'.rid] = pending.page] ELSE tpage
  /\ pending' = NoPending

(* delete_text_record (and commit_delete), first part, for a row the
   scan handed to the reader: delete_text_data re-initializes the page
   the TEXT bytes name as an empty data page.  init_empty_page fails on
   a page that is not allocated. *)
DeleteTextRecord(r) ==
  /\ pending = NoPending
  /\ IsLive(r)
  /\ IF tpage[r] \in allocated THEN DeleteTextData(tpage[r])
                               ELSE UNCHANGED vars
  /\ pending' = [op |-> "delete", rid |-> r]
  /\ UNCHANGED tpage

(* delete_text_record, second part: the row itself. *)
FinishDelete ==
  /\ pending.op = "delete"
  /\ DeleteRecord(pending.rid)
  /\ pending' = NoPending
  /\ UNCHANGED tpage

(* update_record_text_attr, first part: get_record, then the inline
   prefix is rewritten and update_record stores the row. *)
UpdateTextAttr(r, v) ==
  /\ pending = NoPending
  /\ IsLive(r)
  /\ UpdateRecord(r, v)
  /\ pending' = [op |-> "update", rid |-> r]
  /\ UNCHANGED tpage

(* Mutant: update_text_data on the row's own data page. *)
FinishUpdate_RowPage ==
  LET p == pending.rid[1]
  IN  /\ pending.op = "update"
      /\ hdr' = IF p \in allocated THEN [hdr EXCEPT ![p] = Zeroed] ELSE hdr
      /\ pending' = NoPending
      /\ UNCHANGED <<page_count, allocated, data, fh, scan, resp, text, tpage>>

(* update_text_data on the page the TEXT bytes name: the page data is
   zeroed, header included, and the tail written after 24 bytes. *)
FinishUpdate ==
  LET p == tpage[pending.rid]
  IN  /\ pending.op = "update"
      /\ hdr' = IF p \in allocated THEN [hdr EXCEPT ![p] = Zeroed] ELSE hdr
      /\ pending' = NoPending
      /\ UNCHANGED <<page_count, allocated, data, fh, scan, text, resp, tpage>>

(* Calls of RecordFile that leave the TEXT column alone. *)
FileCall ==
  /\ pending = NoPending
  /\ \/ \E r \in RIDs : GetRecord(r)
     \/ \E r \in RIDs, v \in Vals : UpdateRecord(r, v)
     \/ OpenScan
     \/ ScanNext
     \/ Reopen
  /\ UNCHANGED <<tpage, pending>>

TTNext ==
  \/ \E v \in Vals, isnull \in NullText, g \in Pages :
       InsertTextRecord(v, isnull, g)
  \/ FinishInsert
  \/ \E r \in RIDs : DeleteTextRecord(r)
  \/ FinishDelete
  \/ \E r \in RIDs, v \in Vals : UpdateTextAttr(r, v)
  \/ FinishUpdate
  \/ FileCall

TTSpec == TTInit /\ [][TTNext]_ttvars
-----------------------------------------------------------------------------
TTTypeOK ==
  /\ TypeOK
  /\ tpage \in [RIDs -> Pages]
  /\ pending \in {NoPending}
                 \cup [op : {"insert"}, val : Vals, page : Pages]
                 \cup [op : {"delete", "update"}, rid : RIDs]

(* spec.md 3 and 4.2: the overflow page of a TEXT value is exclusive to
   it and holds no records.  Every live row's TEXT bytes name a page
   that insert_text_data allocated and no other live row names, and no
   insert, page search or delete has put a record on such a page.  It
   is stated between table operations, not between their two calls. *)
TextOwned ==
  pending = NoPending =>
    /\ \A r \in RIDs : IsLive(r) => tpage[r] \in text
    /\ \A r, s \in RIDs : IsLive(r) /\ IsLive(s) /\ r # s => tpage[r] # tpage[s]
    /\ \A p \in text : hdr[p].bits = {}

(* The rows a step of a table operation acts on: the row of a pending
   delete or update, and the row a record-file call answered for. *)
Acted ==
  {q.rid : q \in {pending, pending'} \cap [op : {"delete", "update"}, rid : RIDs]}
  \cup ({resp'.rid} \cap RIDs)

(* spec.md 4.4: DELETE and UPDATE change the rows the WHERE clause
   selected and no other.  Whatever the TEXT column of a row holds,
   deleting or updating it leaves every other live row live and
   unchanged. *)
OthersIntact ==
  [][\A s \in RIDs \ Acted : IsLive(s) => IsLive(s)' /\ data'[s] = data[s]]_ttvars
=============================================================================
