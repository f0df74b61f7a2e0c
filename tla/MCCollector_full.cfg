\* Both kinds of source, failing posts, reattachments, restarts on both sides.
SPECIFICATION FairSpec
CONSTANTS
    LastLine = 4
    Records <- ThreeOfFour
    Sources = {"tail", "file"}
    MaxRuns = 2
INVARIANTS
    TypeOK
    TailStoresOnce
    PostedIsStored
PROPERTY LinesAreCounted
CHECK_DEADLOCK FALSE
