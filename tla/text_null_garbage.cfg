\* The same table where an INSERT may leave the TEXT column NULL.
CONSTANTS
  MaxPages = 4
  Cap = 2
  Vals = {v1}
  NoRecord = NoRecord
  NullText = {FALSE, TRUE}
SPECIFICATION TTSpec
PROPERTIES
  OthersIntact
