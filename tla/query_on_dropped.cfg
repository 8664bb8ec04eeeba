\* One FROM table and one INNER JOIN with one ON condition, no WHERE.
CONSTANTS
  t1 = t1
  t2 = t2
  t3 = t3
  Tables = {t1, t2, t3}
  Vals = {0, 1}
  NoRel = NoRel
  NoTable = NoTable
  MaxRelations = 1
  MaxJoins = 1
  MaxConds = 0
  MaxSubConds = 0
  Selections <- MCSelections
  DBs <- MCDBs
SYMMETRY MCSymmetry
SPECIFICATION Spec
CHECK_DEADLOCK FALSE
INVARIANTS
  QuerySound
