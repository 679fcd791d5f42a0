\* Two runs that overlap (the scripts started by hand beside the schedule) on one
\* task, with faults and refreshes; attempts and their history.
SPECIFICATION HSpec
SYMMETRY WorkerSymmetry
CONSTANTS
    w1 = w1
    w2 = w2
    NoTask = NoTask
    Workers <- MCWorkers
    Tasks <- MCOneTask
    PageCount <- MCOnePage
    MaxAttempts = 3
    BackoffBase = 1
    BackoffCap = 3
    MaxPages = 1
    MaxDenied = 1
    MaxUnexpected = 1
    OneSlot = FALSE
    MaxFaults = 2
    MaxDiscoveries = 2
INVARIANTS
    AttemptsAreAnswers
    DeadIsEarned
    FetchInv
PROPERTIES
    IndexMovesForward
    ImplementsLedger
