SPECIFICATION Spec
CONSTANTS
    LastDay = 2
    Callers = {c1, c2, c3}
    UsdDailyCap = 2
    MaxCost = 2
SYMMETRY Symmetry
INVARIANTS
    TypeOK
    NeverOvercounts
    OvershootBounded
    OvershootReserve
PROPERTY
    TotalFallsOnlyByLateStamp
