\* A task killed by access denials alone.
SPECIFICATION HSpec
CONSTANTS
    w1 = w1
    w2 = w2
    NoTask = NoTask
    Workers <- MCOneWorker
    Tasks <- MCTwoTasks
    PageCount <- MCOnePage
    MaxAttempts = 3
    BackoffBase = 1
    BackoffCap = 3
    MaxPages = 1
    MaxDenied = 2
    MaxUnexpected = 2
    OneSlot = TRUE
    MaxFaults = 0
    MaxDiscoveries = 1
INVARIANTS
    DenialsNeverKill
