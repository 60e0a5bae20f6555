CONSTANTS
    Keys = {k1, k2}
    OwnKey = own
    Nospams = {n1, n2}
    Other = other
    None = none
SPECIFICATION Spec
SYMMETRY Symmetry
INVARIANTS
    TypeOK
    ShownIsStranger
    ResultIsTrue
    DialogOnAddPage
    DigitsClearedOnLeave
