SPECIFICATION FairSpec
CONSTRAINT Scenarios
CONSTANTS
    Emails = {e1, e2}
    Projects = {p1, p2}
    People = {h1, h2}
    Sweep = sweep
    None = None
    Calm = TRUE
    MaxRows = 4
    MaxCommands = 3
    MaxTrouble = 1
CHECK_DEADLOCK FALSE
INVARIANTS TypeOK MergeIsWhole
PROPERTIES SentStays EveryMatchDecided
