CONSTANTS
    Keys = {k1}
    OwnKey = own
    Nospams = {n1, n2}
    Other = other
    None = none
SPECIFICATION Spec
INVARIANT CheckIsRedundant
