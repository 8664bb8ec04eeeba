\* INSERT with the NULLABLE column b NULL, then UPDATE of b to a value.
CONSTANTS
    a = a
    b = b
    Fields = {a, b}
    Nullable = {b}
    Vals = {1, 2}
    NULL = NULL
    NoRecord = NoRecord
    MaxRecords = 1
    IndexNames = {i1}
    UniqueOpts = {FALSE}
    MaxConds = 0
    UpdateFields = {b}
    Conds <- MCUniqueConds
SPECIFICATION Spec
PROPERTY UpdateApplied
