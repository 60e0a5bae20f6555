CONSTANTS
    Tolerance = 3
    IntMin <- MC_IntMin
    NodeCount = 9
    Burst = 4
    UintRange = 40
SPECIFICATION FairSpec
INVARIANTS
    TypeOK
    OneBootstrapPerOutage
    BurstHasDistinctNodes
PROPERTIES
    NextBurstIsFresh
    OutageIsAnswered
    LabelSettles
