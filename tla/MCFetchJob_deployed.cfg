\* The deployed pipeline: one job at a time, with a task of exactly MaxPages
\* pages and one of a page too many; and every known task settles.
SPECIFICATION FairSpec
CONSTANTS
    w1 = w1
    w2 = w2
    NoTask = NoTask
    Workers <- MCOneWorker
    Tasks <- MCTwoTasks
    PageCount <- MCLongPages
    MaxAttempts = 2
    BackoffBase = 1
    BackoffCap = 3
    MaxPages = 2
    MaxDenied = 2
    MaxUnexpected = 2
    OneSlot = TRUE
    MaxFaults = 2
    MaxDiscoveries = 2
INVARIANTS
    FetchInv
PROPERTY EveryTaskSettles
