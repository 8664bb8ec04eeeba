\* SELECT over up to two FROM tables and one INNER JOIN, two WHERE
\* conditions, every table holding the rows 0 and 1.
CONSTANTS
  t1 = t1
  t2 = t2
  t3 = t3
  Tables = {t1, t2, t3}
  Vals = {0, 1}
  NoRel = NoRel
  NoTable = NoTable
  MaxRelations = 2
  MaxJoins = 1
  MaxConds = 2
  MaxSubConds = 1
  Selections <- MCSelections
  DBs <- MCDBs
SYMMETRY MCSymmetry
SPECIFICATION Spec
CHECK_DEADLOCK FALSE
INVARIANTS
  WhereSound
  TwoTableComplete
