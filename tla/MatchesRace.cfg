SPECIFICATION Spec
CONSTANTS
    Emails = {e1, e2}
    Projects = {p1}
    People = {h1, h2}
    Sweep = sweep
    None = None
    Calm = FALSE
    MaxRows = 4
    MaxCommands = 2
    MaxTrouble = 0
CHECK_DEADLOCK FALSE
INVARIANTS WinnerKept
