\* Two processes, a death, and sources that fail, in two configurations.
SPECIFICATION FairSpec
CONSTANTS
    Ids = {1, 2, 3}
    Stamp <- Stamps
    Titled <- Titles
    Described <- Descriptions
    Score <- Scores
    Procs = {p1, p2}
    Limit = 2
    Configs <- Pairs
    Entries <- Lists
    MaxRuns = 2
    MaxDeaths = 1
INVARIANTS
    TypeOK
    SettledLockExcludes
    PublishedInOrder
    MergeKeepsEvidence
PROPERTY LockIsRecovered
CHECK_DEADLOCK FALSE
