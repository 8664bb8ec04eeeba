\* UPDATE of a column under a UNIQUE index to a key another row holds.
CONSTANTS
    a = a
    b = b
    Fields = {a, b}
    Nullable = {}
    Vals = {1, 2}
    NULL = NULL
    NoRecord = NoRecord
    MaxRecords = 2
    IndexNames = {i1}
    UniqueOpts = {TRUE}
    MaxConds = 1
    UpdateFields = {a}
    Conds <- MCUniqueConds
SPECIFICATION Spec
PROPERTY UpdateAtomic
