---------------------------- MODULE RecordFile ----------------------------
(***************************************************************************)
(* The record manager (record_manager.cpp) over one paged file.            *)
(*                                                                         *)
(* Page 0 is the buffer pool's file header; data pages are 1 ..            *)
(* page_count-1.  A data page has a header (record_num, record_capacity)   *)
(* and a slot bitmap.  RecordFileHandler keeps one RecordPageHandler,      *)
(* record_page_handler_, open on the page it last inserted into; a         *)
(* RecordFileScanner keeps another on the page it is reading.  A           *)
(* RecordPageHandler holds a pin on its page while disk_buffer_pool_ is    *)
(* set.  deinit() releases the pin but keeps page_header_ and bitmap_, so  *)
(* a handler whose next init fails still reads the old page's header.     *)
(*                                                                         *)
(* The buffer pool (disk_buffer_pool.cpp is not in the tree) is reduced    *)
(* to what spec.md 4.1 states and the record manager relies on: the       *)
(* header bitmap of allocated pages, page_count, allocate_page (first     *)
(* free page, else a new one, pre-zeroed), dispose_page (refused while     *)
(* the page is pinned) and get_this_page (BUFFERPOOL_INVALID_PAGE_NUM on   *)
(* a page that is not allocated).  Frames are never evicted here, so a     *)
(* stale page_header_ reads the page it was taken from.                    *)
(*                                                                         *)
(* Each call of RecordFileHandler is one step.  The scanner advances one   *)
(* get_next_record per step, and any call may come between two of its     *)
(* steps, as the readers of Table::scan_record delete and update rows.     *)
(***************************************************************************)
EXTENDS Integers, FiniteSets, FiniteSetsExt

CONSTANTS
  MaxPages,   \* bound on page_count (pages 0 .. MaxPages-1)
  Cap,        \* record_capacity of a data page (PageLayout computes it)
  Vals,       \* record contents
  NoRecord    \* no record / no value

VARIABLES
  page_count,  \* BPFileSubHeader::page_count, the header page included
  allocated,   \* data pages whose header-bitmap bit is set
  hdr,         \* page -> [num, cap, bits]: PageHeader and slot bitmap
  data,        \* RID -> bytes last written to that slot
  fh,          \* RecordFileHandler::record_page_handler_
  scan,        \* the RecordFileScanner of an open Table::scan_record
  text,        \* TEXT overflow pages referenced by records
  resp         \* answer of the last RecordFileHandler call

vars == <<page_count, allocated, hdr, data, fh, scan, text, resp>>

Pages == 1 .. MaxPages - 1
Slots == 0 .. Cap - 1
RIDs  == Pages \X Slots

(* A RecordPageHandler: pool is disk_buffer_pool_ # nullptr (it holds a
   pin), page is the page of page_header_, -1 while that is nullptr. *)
Closed == [pool |-> FALSE, page |-> -1]

(* The header of a pre-zeroed page: capacity 0, so it reads as full. *)
Zeroed == [num |-> 0, cap |-> 0, bits |-> {}]

RespOf(op, rid, val, rc) == [op |-> op, rid |-> rid, val |-> val, rc |-> rc]

IsLive(r) == r[1] \in allocated /\ r[2] \in hdr[r[1]].bits

Pinned(p) ==
  \/ fh.pool /\ fh.page = p
  \/ scan.open /\ scan.h.pool /\ scan.h.page = p

(* Mutant: the result of init is not looked at; the handler is taken as
   open on p. *)
Reinit_IgnoresFailure(h, p) == [pool |-> TRUE, page |-> p]

(* RecordPageHandler::deinit then init(page): a failed init leaves the
   handler closed with the old page_header_. *)
Reinit(h, p) ==
  IF p \in allocated THEN [pool |-> TRUE, page |-> p]
                     ELSE [pool |-> FALSE, page |-> h.page]

IsFull(h) == hdr[h.page].num >= hdr[h.page].cap

(* The loop of RecordFileHandler::insert_record: the page number steps
   by i in round i, cumulatively, modulo page_count, and page 0 is
   skipped. *)
RECURSIVE Search(_, _, _)
Search(i, cur, h) ==
  IF i >= page_count THEN [found |-> FALSE, h |-> h]
  ELSE LET c  == (cur + i) % page_count
           h2 == IF c # h.page THEN Reinit(h, c) ELSE h
       IN  IF c = 0 THEN Search(i + 1, c, h)
           ELSE IF ~IsFull(h2) THEN [found |-> TRUE, h |-> h2]
           ELSE Search(i + 1, c, h2)

(* Mutant: a new page is numbered one past the end of the file. *)
NextPage_PastEnd ==
  IF (1 .. page_count - 1) \ allocated # {}
  THEN Min((1 .. page_count - 1) \ allocated) ELSE page_count + 1

(* allocate_page: the first page whose header bit is clear, else a new
   page at the end of the file. *)
FreePages == (1 .. page_count - 1) \ allocated
NextPage  == IF FreePages # {} THEN Min(FreePages) ELSE page_count

Init ==
  /\ page_count = 1
  /\ allocated = {}
  /\ hdr = [p \in Pages |-> Zeroed]
  /\ data = [r \in RIDs |-> NoRecord]
  /\ fh = Closed
  /\ scan = [open |-> FALSE, rid |-> <<1, -1>>, h |-> Closed,
             rc |-> "SUCCESS", dup |-> FALSE, skipped |-> FALSE, stable |-> {}]
  /\ text = {}
  /\ resp = RespOf("none", NoRecord, NoRecord, "SUCCESS")

(* RecordFileScanner::get_next_record from the record after cur.  The
   loop runs while cur's page is below page_count; a page whose init
   fails with BUFFERPOOL_INVALID_PAGE_NUM is skipped, and the code then
   returns that code if it was the last page.  ret is the code the loop
   last set. *)
RECURSIVE ScanFrom(_, _, _)
ScanFrom(cur, h, ret) ==
  IF cur[1] >= page_count THEN [rc |-> ret, rid |-> cur, h |-> h]
  ELSE IF cur[1] # h.page /\ cur[1] \notin allocated
  THEN ScanFrom(<<cur[1] + 1, -1>>, [pool |-> FALSE, page |-> h.page],
                "BUFFERPOOL_INVALID_PAGE_NUM")
  ELSE LET h2   == IF cur[1] # h.page THEN [pool |-> TRUE, page |-> cur[1]]
                                      ELSE h
           hd   == hdr[h2.page]
           next == {i \in hd.bits : i > cur[2]}
       IN  IF cur[2] >= hd.cap - 1 \/ next = {}
           THEN ScanFrom(<<cur[1] + 1, -1>>, h2, "RECORD_EOF")
           ELSE [rc |-> "SUCCESS", rid |-> <<cur[1], Min(next)>>, h |-> h2]

(* Mutant: the search restarts at the slot it returned last. *)
GetNextRecord_NoAdvance(cur, h) ==
  IF page_count = 1 THEN [rc |-> "RECORD_EOF", rid |-> cur, h |-> h]
                    ELSE ScanFrom(<<cur[1], cur[2] - 1>>, h, "SUCCESS")

(* Mutant: the search starts one slot too far. *)
GetNextRecord_SkipOne(cur, h) ==
  IF page_count = 1 THEN [rc |-> "RECORD_EOF", rid |-> cur, h |-> h]
                    ELSE ScanFrom(<<cur[1], cur[2] + 1>>, h, "SUCCESS")

GetNextRecord(cur, h) ==
  IF page_count = 1 THEN [rc |-> "RECORD_EOF", rid |-> cur, h |-> h]
                    ELSE ScanFrom(cur, h, "SUCCESS")

-----------------------------------------------------------------------------
(* RecordPageHandler::insert_record on the page of h: the first clear bit
   of the bitmap, record_num + 1, the bytes into the slot.  Its
   RECORD_NOMEM return is left out: both callers hand it a page that
   is_full() has just found with room, or a page init_empty_page has
   just laid out with Cap > 0 slots. *)
InsertInto(h, hd, dt, v) ==
  LET p   == h.page
      idx == Min(Slots \ hd[p].bits)
  IN  /\ hdr' = [hd EXCEPT ![p] = [@ EXCEPT !.num = @ + 1,
                                            !.bits = @ \cup {idx}]]
      /\ data' = [dt EXCEPT ![<<p, idx>>] = v]
      /\ fh' = h
      /\ resp' = RespOf("insert", <<p, idx>>, v, "SUCCESS")

(* RecordFileHandler::insert_record.  With no page open yet, page 1 is
   opened when the file has a data page; that init failing ends the
   insert.  The search follows; if it finds no page with room, a page is
   allocated and init_empty_page lays it out.  The guard NextPage <
   MaxPages bounds the file. *)
InsertRecord(v) ==
  LET cp    == fh.page
      first == cp < 0 /\ page_count >= 2
      h0    == IF first THEN [pool |-> TRUE, page |-> 1] ELSE fh
      start == IF cp >= 0 THEN cp ELSE IF first THEN 1 ELSE 0
      s     == Search(0, start, h0)
      p     == NextPage
  IN  /\ \/ /\ first /\ 1 \notin allocated
            /\ resp' = RespOf("insert", NoRecord, v,
                              "BUFFERPOOL_INVALID_PAGE_NUM")
            /\ UNCHANGED <<page_count, allocated, hdr, data, fh>>
         \/ /\ ~(first /\ 1 \notin allocated)
            /\ s.found
            /\ InsertInto(s.h, hdr, data, v)
            /\ UNCHANGED <<page_count, allocated>>
         \/ /\ ~(first /\ 1 \notin allocated)
            /\ ~s.found
            /\ p < MaxPages
            /\ page_count' = IF p = page_count THEN page_count + 1
                                               ELSE page_count
            /\ allocated' = allocated \cup {p}
            /\ InsertInto([pool |-> TRUE, page |-> p],
                          [hdr EXCEPT ![p] = [num |-> 0, cap |-> Cap,
                                              bits |-> {}]],
                          [r \in RIDs |-> IF r[1] = p THEN NoRecord
                                                      ELSE data[r]], v)
      /\ UNCHANGED <<scan, text>>

(* The RecordPageHandler a RecordFileHandler call opens on the page of
   rid: (ret != init(...)) != SUCCESS is true when init fails, and the
   call then returns ret, which is still SUCCESS. *)
PageMissing(r) == r[1] \notin allocated

(* RecordFileHandler::delete_record and RecordPageHandler::delete_record.
   A page left with no record is disposed after the local handler's
   deinit; dispose_page refuses a page another handler pins, and its
   answer is ignored. *)
DeleteRecord(r) ==
  LET p == r[1]
      s == r[2]
  IN  /\ \/ /\ PageMissing(r)
            /\ resp' = RespOf("delete", r, NoRecord, "SUCCESS")
            /\ UNCHANGED <<allocated, hdr, data, scan>>
         \/ /\ ~PageMissing(r) /\ s >= hdr[p].cap
            /\ resp' = RespOf("delete", r, NoRecord, "INVALID_ARGUMENT")
            /\ UNCHANGED <<allocated, hdr, data, scan>>
         \/ /\ ~PageMissing(r) /\ s < hdr[p].cap /\ s \notin hdr[p].bits
            /\ resp' = RespOf("delete", r, NoRecord, "RECORD_RECORD_NOT_EXIST")
            /\ UNCHANGED <<allocated, hdr, data, scan>>
         \/ /\ ~PageMissing(r) /\ s \in hdr[p].bits
            /\ hdr' = [hdr EXCEPT ![p] = [@ EXCEPT !.num = @ - 1,
                                                   !.bits = @ \ {s}]]
            /\ allocated' = IF hdr[p].num = 1 /\ ~Pinned(p)
                            THEN allocated \ {p} ELSE allocated
            /\ data' = [data EXCEPT ![r] = NoRecord]
            /\ scan' = [scan EXCEPT !.stable = @ \ {r}]
            /\ resp' = RespOf("delete", r, NoRecord, "SUCCESS")
      /\ UNCHANGED <<page_count, fh, text>>

(* RecordFileHandler::update_record and RecordPageHandler::update_record. *)
UpdateRecord(r, v) ==
  LET p == r[1]
      s == r[2]
  IN  /\ \/ /\ PageMissing(r)
            /\ resp' = RespOf("update", r, v, "SUCCESS")
            /\ UNCHANGED data
         \/ /\ ~PageMissing(r) /\ s >= hdr[p].cap
            /\ resp' = RespOf("update", r, v, "INVALID_ARGUMENT")
            /\ UNCHANGED data
         \/ /\ ~PageMissing(r) /\ s < hdr[p].cap /\ s \notin hdr[p].bits
            /\ resp' = RespOf("update", r, v, "RECORD_RECORD_NOT_EXIST")
            /\ UNCHANGED data
         \/ /\ ~PageMissing(r) /\ s \in hdr[p].bits
            /\ data' = [data EXCEPT ![r] = v]
            /\ resp' = RespOf("update", r, v, "SUCCESS")
      /\ UNCHANGED <<page_count, allocated, hdr, fh, scan, text>>

(* RecordFileHandler::get_record and RecordPageHandler::get_record.  On
   the init failure the caller's Record is left as it was: no bytes. *)
GetRecord(r) ==
  LET p == r[1]
      s == r[2]
  IN  /\ resp' = CASE PageMissing(r)      -> RespOf("get", r, NoRecord, "SUCCESS")
                 []   s >= hdr[p].cap     -> RespOf("get", r, NoRecord, "RECORD_INVALIDRID")
                 []   s \notin hdr[p].bits -> RespOf("get", r, NoRecord,
                                                    "RECORD_RECORD_NOT_EXIST")
                 []   OTHER               -> RespOf("get", r, data[r], "SUCCESS")
      /\ UNCHANGED <<page_count, allocated, hdr, data, fh, scan, text>>
-----------------------------------------------------------------------------
(* Table::scan_record over the record file: open_scan and
   get_first_record, which is get_next_record from <<1, -1>>.  The
   scanner stays open while it answers SUCCESS; any other answer ends
   the loop, and the scanner's destructor releases its page.  Ghost
   fields: stable holds the records live when the scan opened, not
   deleted since and not yet passed; dup and skipped record a step that
   did not move forward or passed over one of them. *)
Before(a, b) == a[1] < b[1] \/ (a[1] = b[1] /\ a[2] < b[2])

ScanStep(sc, n) ==
  IF n.rc = "SUCCESS"
  THEN [sc EXCEPT !.open = TRUE, !.rid = n.rid, !.h = n.h, !.rc = n.rc,
         !.dup = @ \/ ~Before(sc.rid, n.rid),
         !.skipped = @ \/ \E r \in sc.stable : Before(r, n.rid),
         !.stable = {r \in @ : Before(n.rid, r)}]
  ELSE [sc EXCEPT !.open = FALSE, !.rid = <<1, -1>>, !.h = Closed,
         !.rc = n.rc, !.skipped = @ \/ sc.stable # {}, !.stable = {}]

OpenScan ==
  /\ ~scan.open
  /\ scan' = ScanStep([open |-> FALSE, rid |-> <<1, -1>>, h |-> Closed,
                       rc |-> "SUCCESS", dup |-> FALSE, skipped |-> FALSE,
                       stable |-> {r \in RIDs : IsLive(r)}],
                      GetNextRecord(<<1, -1>>, Closed))
  /\ UNCHANGED <<page_count, allocated, hdr, data, fh, text, resp>>

(* The reader has handled the record; the scan loop calls
   get_next_record again. *)
ScanNext ==
  /\ scan.open
  /\ scan' = ScanStep(scan, GetNextRecord(scan.rid, scan.h))
  /\ UNCHANGED <<page_count, allocated, hdr, data, fh, text, resp>>

(* The table is closed and opened again (Table::~Table, Table::open):
   the new RecordFileHandler has no page open, and the old one's
   record_page_handler_ released its pin. *)
Reopen ==
  /\ ~scan.open
  /\ fh # Closed
  /\ fh' = Closed
  /\ UNCHANGED <<page_count, allocated, hdr, data, scan, text, resp>>

(* Mutant: the text page laid out as an empty data page. *)
InsertTextData_InitEmpty ==
  LET p == NextPage
  IN  /\ p < MaxPages
      /\ page_count' = IF p = page_count THEN page_count + 1 ELSE page_count
      /\ allocated' = allocated \cup {p}
      /\ hdr' = [hdr EXCEPT ![p] = [num |-> 0, cap |-> Cap, bits |-> {}]]
      /\ data' = [r \in RIDs |-> IF r[1] = p THEN NoRecord ELSE data[r]]
      /\ text' = text \cup {p}
      /\ UNCHANGED <<fh, scan, resp>>

(* Mutant: the new page is taken without growing the page count. *)
InsertTextData_NoCount ==
  LET p == NextPage
  IN  /\ p < MaxPages
      /\ allocated' = allocated \cup {p}
      /\ hdr' = [hdr EXCEPT ![p] = Zeroed]
      /\ data' = [r \in RIDs |-> IF r[1] = p THEN NoRecord ELSE data[r]]
      /\ text' = text \cup {p}
      /\ UNCHANGED <<page_count, fh, scan, resp>>

(* RecordFileHandler::insert_text_data: a page of its own for the bytes
   of a TEXT value past the inline prefix, allocated pre-zeroed. *)
InsertTextData ==
  LET p == NextPage
  IN  /\ p < MaxPages
      /\ page_count' = IF p = page_count THEN page_count + 1 ELSE page_count
      /\ allocated' = allocated \cup {p}
      /\ hdr' = [hdr EXCEPT ![p] = Zeroed]
      /\ data' = [r \in RIDs |-> IF r[1] = p THEN NoRecord ELSE data[r]]
      /\ text' = text \cup {p}
      /\ UNCHANGED <<fh, scan, resp>>

(* RecordFileHandler::delete_text_data: the TEXT page is laid out again
   as an empty data page (init_empty_page), not disposed. *)
DeleteTextData(p) ==
  /\ hdr' = [hdr EXCEPT ![p] = [num |-> 0, cap |-> Cap, bits |-> {}]]
  /\ text' = text \ {p}
  /\ UNCHANGED <<page_count, allocated, data, fh, scan, resp>>

Next ==
  \/ \E v \in Vals : InsertRecord(v)
  \/ \E r \in RIDs : DeleteRecord(r) \/ GetRecord(r)
  \/ \E r \in RIDs, v \in Vals : UpdateRecord(r, v)
  \/ OpenScan
  \/ ScanNext
  \/ Reopen
  \/ InsertTextData
  \/ \E p \in text : DeleteTextData(p)

(* Table::scan_record runs its loop to the end on one worker (spec.md 5),
   so a scan that can take its next step eventually does. *)
Spec == Init /\ [][Next]_vars /\ WF_vars(ScanNext)
-----------------------------------------------------------------------------
RCs == {"SUCCESS", "INVALID_ARGUMENT", "RECORD_NOMEM", "RECORD_INVALIDRID",
        "RECORD_RECORD_NOT_EXIST", "RECORD_EOF", "BUFFERPOOL_INVALID_PAGE_NUM"}

Handler == [pool : BOOLEAN, page : Pages \cup {-1}]

TypeOK ==
  /\ page_count \in 1 .. MaxPages
  /\ allocated \subseteq 1 .. page_count - 1
  /\ hdr \in [Pages -> [num : 0 .. Cap, cap : {0, Cap}, bits : SUBSET Slots]]
  /\ data \in [RIDs -> Vals \cup {NoRecord}]
  /\ fh \in Handler
  /\ scan.h \in Handler /\ scan.rc \in RCs
  /\ text \subseteq allocated
  /\ resp.rc \in RCs

(* The records the file holds, as RecordStore sees them. *)
StoreView == [r \in RIDs |-> IF IsLive(r) THEN data[r] ELSE NoRecord]

Abs == INSTANCE RecordStore WITH store <- StoreView, answer <- resp

(* RecordFileHandler implements RecordStore: every insert, delete,
   update and get, interleaved with scans, TEXT pages and reopening,
   is a step of the page-free record map.  In particular an insert that
   answers SUCCESS has put the record at a RID that held none, where a
   scan and get_record find it, and nothing else changed. *)
AbsSpec == Abs!Spec

(* spec.md 8.2: a scan (RecordFileScanner from <<1, -1>> to its last
   answer) returns no RID twice, and every record live when it opened
   and not deleted before it ended has been returned, whatever the
   readers deleted or updated in between and whichever pages were
   disposed meanwhile. *)
ScanExact ==
  /\ ~scan.dup
  /\ ~scan.skipped

(* A scan that Table::scan_record starts comes to its end: each
   get_next_record moves past the record it returned. *)
ScanTerminates == scan.open ~> ~scan.open
(* An insert the file has room for succeeds: RecordFileHandler::insert_
   record fails only when it cannot allocate a page (here the bound,
   which disables the step). *)
InsertSucceeds ==
  [][resp'.op = "insert" => resp'.rc = "SUCCESS"]_vars

=============================================================================
