\* Every CREATE TABLE of up to MAX_NUM INT, DATE, TEXT, CHAR(3) and CHAR(50)
\* columns and its first data page; and every string of MCInputs checked
\* once as a DATES value against the bound of theGlobalDateUtil; and every
\* sequence of create, drop and create_index on one table with two index
\* names, with up to MaxFaults I/O errors and crashes.  The first two end
\* when their last step is done, and a database whose start-up open fails
\* stays down, so some final states have no successor.  And every
\* condition of MCConds bound to a table of five dated records and
\* applied to each of them.  And every SELECT of MCSelections over
\* two two-row tables, planned, scanned, joined and projected.  And every
\* INSERT and CREATE INDEX on a table of two slots with one UNIQUE index.  And every
\* insert, delete and update of a TEXT row, with scans, gets, plain updates
\* and reopens of its record file, on five pages of two slots.  And every
\* call of a plain record file of two data pages of two slots.
CONSTANTS
  BP_PAGE_SIZE = 8192
  PAGENUMSIZE = 4
  DATESSIZE = 12
  TEXTSIZE = 32
  MAX_NUM = 20
  TrxFieldLen = 4
  IntLen = 4
  CharLens = {3, 50}
  UPBOUNDYEAR = 2038
  UPBOUNDMONTH = 3
  UPBOUNDDAY = 1
  Inputs <- MCInputs
  IndexNames = {i1, i2}
  MaxFaults = 2
  NULL = NULL
  GARBAGE = GARBAGE
  NoRel = NoRel
  NoRecord = NoRecord
SPECIFICATION Spec
CHECK_DEADLOCK FALSE
INVARIANTS
  TypeOK
  CapacityMaximal
  DateAccepted
  DateOrder
  IndexFilesBeforeMeta
  DropComplete
  FilterMatchesDates
  ShowsStoredValues
  SchemaRequested
  UniqueKeys
  TextOwned
  ScanExact
PROPERTIES
  HandlerReturns
  InsertFailsIffDuplicate
  AbsSpec
  FileAbsSpec
  ScanTerminates
