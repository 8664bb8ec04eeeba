---------------------------- MODULE PageLayout ----------------------------
(***************************************************************************)
(* The byte layout of a table's records and of its slotted data pages.     *)
(*                                                                         *)
(* CREATE TABLE collects AttrInfo entries (attr_info_init and              *)
(* create_table_append_attribute, parse.cpp).  TableMeta::init             *)
(* (table_meta.cpp) turns them into a record size: the NULL bitmap, the    *)
(* 4-byte trx column, then the columns.  RecordPageHandler::init_empty_page *)
(* (record_manager.cpp) lays a data page out for that record size: a       *)
(* 20-byte header, a slot bitmap, padding to 8 bytes, then `capacity`      *)
(* slots of align8(record_size) bytes each, inside Page::data.             *)
(*                                                                         *)
(* The order of the columns does not change any size, so the attributes    *)
(* collected so far are a bag.                                             *)
(***************************************************************************)
EXTENDS Integers, Bags, Functions

CONSTANTS
  BP_PAGE_SIZE,     \* bytes of a Page (page_num plus data)
  PAGENUMSIZE,      \* sizeof(PageNum)
  DATESSIZE,        \* parse_defs.h
  TEXTSIZE,         \* parse_defs.h: page number plus the 28-byte prefix
  MAX_NUM,          \* parse_defs.h: CreateTable::attributes[MAX_NUM]
  TrxFieldLen,      \* Trx::trx_field_len(): a 32-bit integer
  IntLen,           \* the length the grammar gives INTS and FLOATS
  CharLens          \* lengths CHAR(n) columns are declared with

VARIABLES
  attrs,   \* bag of AttrInfo [type, length] of the CREATE TABLE being parsed
  meta,    \* TableMeta::record_size_, 0 before TableMeta::init succeeded
  header,  \* PageHeader of the first data page, NoPage before it exists
  rc       \* return code of the last step

vars == <<attrs, meta, header, rc>>

NoPage == [record_num |-> -1]

(* sizeof(Page::data): the page minus its page_num. *)
BP_PAGE_DATA_SIZE == BP_PAGE_SIZE - PAGENUMSIZE

(* attr_info_init: DATES and TEXTS have fixed lengths; any other type
   keeps the length the grammar passes. *)
attr_info_init(type, length) ==
  [type |-> type,
   length |-> CASE type = "DATES" -> DATESSIZE
              []   type = "TEXTS" -> TEXTSIZE
              []   OTHER          -> length]

AttrInputs ==
  {attr_info_init("INTS", IntLen), attr_info_init("DATES", 0),
   attr_info_init("TEXTS", 0)}
  \cup {attr_info_init("CHARS", n) : n \in CharLens}

(* common::align8 as used by record_manager.cpp and table_meta.cpp. *)
align8(size) == (size \div 8) * 8 + (IF size % 8 = 0 THEN 0 ELSE 8)

(* TableMeta::init: the trx field first, then the columns at increasing
   offsets, then every offset is shifted by the NULL bitmap, which has
   one bit per field (the trx field included) rounded up to a byte. *)
TableMetaRecordSize(a) ==
  LET field_num       == BagCardinality(a) + 1
      field_offset    == TrxFieldLen
                         + SumFunction([x \in DOMAIN a |-> a[x] * x.length])
      null_bitmap_len == align8(field_num) \div 8
  IN  field_offset + null_bitmap_len

(* page_fix_size: five ints of PageHeader. *)
page_fix_size == 5 * 4

(* Mutant: a whole byte of bitmap per slot instead of a bit. *)
page_record_capacity_ByteBitmap(page_size, record_size) ==
  (page_size - page_fix_size - 1) \div (record_size + 1)

(* page_record_capacity computes
     (int)((page_size - page_fix_size() - 1) / (record_size + 0.125))
   in double.  The quotient of two such doubles is never within one ulp
   of an integer it is not equal to, so the truncation equals this exact
   integer floor. *)
page_record_capacity(page_size, record_size) ==
  (8 * (page_size - page_fix_size - 1)) \div (8 * record_size + 1)

page_bitmap_size(record_capacity) ==
  record_capacity \div 8 + (IF record_capacity % 8 = 0 THEN 0 ELSE 1)

page_header_size(record_capacity) ==
  align8(page_fix_size + page_bitmap_size(record_capacity))

(* RecordPageHandler::init_empty_page: the header of a fresh data page
   for records of record_size bytes. *)
init_empty_page(record_size) ==
  LET page_size       == BP_PAGE_DATA_SIZE
      record_phy_size == align8(record_size)
      capacity        == page_record_capacity(page_size, record_phy_size)
  IN  [record_num          |-> 0,
       record_capacity     |-> capacity,
       record_real_size    |-> record_size,
       record_size         |-> record_phy_size,
       first_record_offset |-> page_header_size(capacity)]

Init ==
  /\ attrs = EmptyBag
  /\ meta = 0
  /\ header = NoPage
  /\ rc = "SUCCESS"

(* The parser appends one column definition to CreateTable::attributes,
   which has MAX_NUM entries.  create_table_append_attribute itself checks
   no bound: a column past the array is a write out of bounds, undefined
   behaviour the model does not follow, so the guard on the count is the
   model's exploration bound, not a check of the code.  Whether the
   grammar (not in the tree) refuses such a statement is unknown. *)
AppendAttribute(ai) ==
  /\ meta = 0
  /\ BagCardinality(attrs) < MAX_NUM
  /\ attrs' = attrs (+) SetToBag({ai})
  /\ rc' = "SUCCESS"
  /\ UNCHANGED <<meta, header>>

(* TableMeta::init: no columns is INVALID_ARGUMENT, else the record size. *)
CreateTable ==
  /\ meta = 0
  /\ \/ /\ BagCardinality(attrs) = 0
        /\ rc' = "INVALID_ARGUMENT"
        /\ UNCHANGED meta
     \/ /\ BagCardinality(attrs) > 0
        /\ meta' = TableMetaRecordSize(attrs)
        /\ rc' = "SUCCESS"
  /\ UNCHANGED <<attrs, header>>

(* The first INSERT allocates a page and initialises it as a data page. *)
InitEmptyPage ==
  /\ meta > 0
  /\ header = NoPage
  /\ header' = init_empty_page(meta)
  /\ rc' = "SUCCESS"
  /\ UNCHANGED <<attrs, meta>>

Next ==
  \/ \E ai \in AttrInputs : AppendAttribute(ai)
  \/ CreateTable
  \/ InitEmptyPage

Spec == Init /\ [][Next]_vars

-----------------------------------------------------------------------------
TypeOK ==
  /\ attrs \in [DOMAIN attrs -> 1..MAX_NUM] /\ DOMAIN attrs \subseteq AttrInputs
  /\ meta \in Nat
  /\ header = NoPage \/ header.record_num = 0
  /\ rc \in {"SUCCESS", "INVALID_ARGUMENT"}

(* Bytes from the start of Page::data to the end of the last slot. *)
SlotsEnd(h) == h.first_record_offset + h.record_capacity * h.record_size

(* page_record_capacity wastes no slot: whenever the page it lays out
   fits, the same page with one slot more, its bitmap and header grown
   accordingly, would not fit. *)
CapacityMaximal ==
  header # NoPage /\ SlotsEnd(header) <= BP_PAGE_DATA_SIZE =>
    LET more == header.record_capacity + 1
    IN  page_header_size(more) + more * header.record_size > BP_PAGE_DATA_SIZE
=============================================================================
