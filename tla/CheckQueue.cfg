SPECIFICATION FairSpec
CONSTANTS
    t1 = t1
    t2 = t2
    Tasks = {t1, t2}
    Small = {t2}
    TaskWait = 2
    ReportWait = 1
    ResultWait = 1
    Rows = 2
    Capacity = 3
    MaxResults = 4
    Sizes <- MCSizes
    MaxLate = 1
    MaxHurry = 1
    MaxCrashes = 1
INVARIANTS
    TypeOK
    QueueSorted
    PagesFit
    DoneIsAll
PROPERTIES
    DueIsChecked
    FetchEnds
