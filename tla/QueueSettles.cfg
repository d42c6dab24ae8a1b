SPECIFICATION FairSpec
CONSTANTS
    Workers = {w1, w2}
    Materials = {}
    Analyses = {a}
    Chats = {c}
    Runs = {r}
    NoTarget = NoTarget
    NoWorker = NoWorker
    Concurrency = 2
    Delays = 1
    Timely = TRUE
    MaxJobs = 2
    MaxCrashes = 1
    MaxStops = 1
    MaxFaults = 1
    MaxCommands = 0
CONSTRAINT Gentle
CHECK_DEADLOCK FALSE

INVARIANT NoOverlap
PROPERTIES EveryJobSettles EveryRowSettles
