CONSTANTS
  MaxPages = 3
  Cap = 1
  Vals = {v1}
  NoRecord = NoRecord
SPECIFICATION Spec
PROPERTIES
  InsertSucceeds
