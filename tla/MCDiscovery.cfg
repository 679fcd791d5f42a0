\* Failures at every point and lists that change while they are read.
SPECIFICATION FairSpec
CONSTANTS
    Anime <- MCAnime
    PageSize = 1
    Recent <- MCRecent
    PopularPages = 2
    Scenarios <- MCScenarios
INVARIANT DiscoveryInv
PROPERTIES
    SuccessCoversList
    EndIsLearnt
    ListedIsFound
