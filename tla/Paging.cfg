SPECIFICATION FairSpec
CONSTANTS
    Lo = 2
    Hi = 6
    PageSize = 2
    Asked = {"log", "metric"}
    DropsFinished = TRUE
    Unreadable = {4, 5}
    Matching = {2, 6}
    MaxId = 6
INVARIANTS
    NothingTwice
    NothingSkipped
    AtMostOneLatePage
PROPERTIES
    NullCursorMeansAll
    PagingEnds
