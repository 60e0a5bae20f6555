CONSTANTS
    Ids = {i1, i2}
    Keys = {k1}
    Texts = {empty, default}
    EmptyText = empty
    DefaultName = default
    DefaultStatus = default
    Null = null
    MaxTerms = 2
SPECIFICATION Spec
SYMMETRY Symmetry
INVARIANT LoadReportsSuccess
