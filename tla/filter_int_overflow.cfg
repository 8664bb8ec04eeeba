\* Every condition of MCIntConds bound to a table of three INT records,
\* one at each end of the 32-bit range and one at zero, and applied to
\* each of them.  No date is checked, so Inputs is empty.
CONSTANTS
  Inputs = {}
  UPBOUNDYEAR = 2038
  UPBOUNDMONTH = 3
  UPBOUNDDAY = 1
  Rows <- MCIntRows
  Conds <- MCIntConds
SPECIFICATION Spec
CHECK_DEADLOCK FALSE
INVARIANT FilterMatchesInts
