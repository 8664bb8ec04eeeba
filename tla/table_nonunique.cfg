\* Every statement over non-unique indexes: two columns, b NULLABLE.
CONSTANTS
    a = a
    b = b
    Fields = {a, b}
    Nullable = {b}
    Vals = {1, 2}
    NULL = NULL
    NoRecord = NoRecord
    MaxRecords = 2
    IndexNames = {i1, i2}
    UniqueOpts = {FALSE}
    MaxConds = 1
    UpdateFields = {a, b}
    Conds <- MCConds
SPECIFICATION Spec
INVARIANT TypeOK
INVARIANT IndexConsistent
INVARIANT SelectReturnsMatches
PROPERTY UpdateAtomic
