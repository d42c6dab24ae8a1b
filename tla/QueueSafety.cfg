SPECIFICATION Spec
CONSTANTS
    Workers = {w1, w2}
    Materials = {m}
    Analyses = {}
    Chats = {}
    Runs = {r}
    NoTarget = NoTarget
    NoWorker = NoWorker
    Concurrency = 2
    Delays = 1
    Timely = FALSE
    MaxJobs = 2
    MaxCrashes = 1
    MaxStops = 1
    MaxFaults = 2
    MaxCommands = 2
CHECK_DEADLOCK FALSE
SYMMETRY WorkerSymmetry
INVARIANTS TypeOK OneActiveJob OneOwner
PROPERTIES SettledJobIsFinal SettledRowIsFinal ImplementsLedger
CONSTRAINT OneScenario
