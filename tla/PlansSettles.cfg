SPECIFICATION FairSpec
CONSTANTS
    Workers = {w1}
    Requests = {q1}
    Categories = {a}
    Subs = 2
    Flagged = {}
    HasLower = TRUE
    Slots = 2
    Kinds = {1, 2}
    Calm = TRUE
    MaxTrouble = 2
CHECK_DEADLOCK FALSE
PROPERTIES EveryRunRests
