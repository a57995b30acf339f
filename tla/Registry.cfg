SPECIFICATION StatsSpec
CONSTANTS
    Containers = {c1, c2}
    Threshold = 2
    MaxListings = 4
INVARIANTS
    MissesAreConsecutiveAbsences
    StraysAreOfOneAnswer
PROPERTIES
    LedgerSpec
    SamplingGoesOn
