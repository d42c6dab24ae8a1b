SPECIFICATION FairSpec
CONSTANTS
    Senders = {s1, s2}
    Gcs = {g1}
    NoGc = NoGc
    MaxDate = 2
    Timely = TRUE
    Calm = TRUE
    MaxCommands = 2
    MaxCrashes = 1
    MaxFaults = 1
CONSTRAINT Scenarios
CHECK_DEADLOCK FALSE
INVARIANTS TypeOK OneEmailPerGc
PROPERTIES EveryRunSettles
