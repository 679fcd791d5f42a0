\* Another run fetches between a failed clean and its continuation.
SPECIFICATION Spec
CONSTANTS
    Rows <- MCRows
    Details <- MCDetails
    AnimeOf <- MCAnimeOf
    BatchSize = 1
    ResumeMaxAge = 1
    OneSlot = TRUE
    MaxClock = 3
    MaxStores = 3
    MaxFaults = 1
PROPERTY RefreshCleansNewRows
