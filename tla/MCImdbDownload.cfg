\* The deployed system: one slot, so a second runner waits for the first.
SPECIFICATION Spec
CONSTANTS
    r1 = r1
    r2 = r2
    Runners <- MCRunners
    FileCount = 2
    OneSlot = TRUE
    MaxRuns = 4
    MaxVersions = 2
    MaxFaults = 2
SYMMETRY RunnerSymmetry
CHECK_DEADLOCK FALSE
INVARIANTS
    DownloadInv
    ArchiveMovesForward
PROPERTIES
    EndsCurrent
