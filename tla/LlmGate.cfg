SPECIFICATION FairSpec
CONSTANTS
    Callers = {c1, c2, c3, c4}
    TotalSetting = 3
    ReservedSetting = 4
INVARIANTS PermitsConserved Headroom
PROPERTY EveryCallReturns
