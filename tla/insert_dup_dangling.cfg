\* Two indexes, the second UNIQUE: a duplicate leaves the first entry.
CONSTANTS
    a = a
    b = b
    Fields = {a, b}
    Nullable = {}
    Vals = {1, 2}
    NULL = NULL
    NoRecord = NoRecord
    MaxRecords = 2
    IndexNames = {i1, i2}
    UniqueOpts = {FALSE, TRUE}
    MaxConds = 0
    UpdateFields = {}
    Conds <- MCUniqueConds
SPECIFICATION Spec
INVARIANT IndexConsistent
