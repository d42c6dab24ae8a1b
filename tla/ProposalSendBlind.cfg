SPECIFICATION Spec
SYMMETRY Symmetry
CONSTANTS
    Requests = {p1, p2}
    Figures = {0, 1}
    ProjectFigure = 0
    Recipients = {to}
    None = None
    MaxFiles = 3
    MaxCommands = 5
    MaxCrashes = 0
    MaxTimeouts = 1
    MaxFaults = 0
    Timely = TRUE
    Calm = TRUE
INVARIANTS NoBlindRetry
CHECK_DEADLOCK FALSE
