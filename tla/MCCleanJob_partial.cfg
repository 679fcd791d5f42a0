\* A full pass takes up the cursor of a failed incremental run.
SPECIFICATION Spec
CONSTANTS
    Rows <- MCRows
    Details <- MCDetails
    AnimeOf <- MCAnimeOf
    BatchSize = 1
    ResumeMaxAge = 3
    OneSlot = TRUE
    MaxClock = 3
    MaxStores = 2
    MaxFaults = 1
PROPERTY FullPassReadsEverything
