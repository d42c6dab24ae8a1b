SPECIFICATION Spec
CONSTANTS
    Senders = {s1, s2}
    Gcs = {g1, g2}
    NoGc = NoGc
    MaxDate = 1
    Timely = TRUE
    Calm = TRUE
    MaxCommands = 2
    MaxCrashes = 1
    MaxFaults = 1
CHECK_DEADLOCK FALSE
SYMMETRY Symmetry
INVARIANTS HumanWins RunTellsTheTruth OneBid
PROPERTIES AcceptedIsClosed
