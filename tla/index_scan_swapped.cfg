\* SELECT with the value on the left of the comparison, over an index.
CONSTANTS
    a = a
    b = b
    Fields = {a, b}
    Nullable = {}
    Vals = {1, 2}
    NULL = NULL
    NoRecord = NoRecord
    MaxRecords = 2
    IndexNames = {i1}
    UniqueOpts = {FALSE}
    MaxConds = 1
    UpdateFields = {}
    Conds <- MCSwappedConds
SPECIFICATION Spec
INVARIANT SelectReturnsMatches
