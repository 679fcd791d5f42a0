\* The pipeline with its slot; fetches may run before a failed clean goes on.
SPECIFICATION FairSpec
CONSTANTS
    Rows <- MCRows
    Details <- MCDetails
    AnimeOf <- MCAnimeOf
    BatchSize = 2
    ResumeMaxAge = 1
    OneSlot = TRUE
    MaxClock = 3
    MaxStores = 3
    MaxFaults = 2
INVARIANT CleanInv
PROPERTIES
    SuccessMeansCaughtUp
    ChainReadsItsRows
    SkipOnlyWithoutDetails
    EverythingIsCleaned
