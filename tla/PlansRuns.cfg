SPECIFICATION Spec
CONSTANTS
    Workers = {w1, w2}
    Requests = {q1}
    Categories = {a}
    Subs = 1
    Flagged = {a}
    HasLower = TRUE
    Slots = 2
    Kinds = {1}
    Calm = TRUE
    MaxTrouble = 2
CHECK_DEADLOCK FALSE
SYMMETRY WorkerSymmetry
CONSTRAINT OneDuplicate
INVARIANTS TypeOK PaidOnce DoneIsComplete RenderedOnce
PROPERTIES AnswerKept
