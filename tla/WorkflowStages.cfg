\* Handlers of different lanes interleave, one may die half way.
CONSTANTS
    Requests = {r1, r2}
    Figures = {f1, f2}
    MaxCrashes = 1
    Calm = TRUE
    None = None
SPECIFICATION Spec
SYMMETRY Symmetry
INVARIANTS
    TypeOK
    FreshCommit
    RecordsAgree
    NotWedged
PROPERTIES
    ImplementsOrdering
CHECK_DEADLOCK FALSE
