CONSTANTS
    Ids = {i1, i2}
    Keys = {k1, k2}
    Texts = {empty, default, text}
    EmptyText = empty
    DefaultName = default
    DefaultStatus = default
    Null = null
    MaxTerms = 2
SPECIFICATION FairSpec
INVARIANTS
    TypeOK
    FileMatchesMemory
PROPERTIES
    AccountKept
    ClosingSaves
    ImplementsAccount
    TermEndsProcess
