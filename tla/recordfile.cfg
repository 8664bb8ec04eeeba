CONSTANTS
  MaxPages = 3
  Cap = 2
  Vals = {v1, v2}
  NoRecord = NoRecord
SPECIFICATION Spec
INVARIANTS
  TypeOK
  ScanExact
PROPERTIES
  AbsSpec
  ScanTerminates
