SPECIFICATION Spec
CONSTANTS
    t1 = t1
    Tasks = {t1}
    Small = {}
    TaskWait = 2
    ReportWait = 1
    ResultWait = 1
    Rows = 2
    Capacity = 4
    MaxResults = 4
    Sizes <- MCSizes
    MaxLate = 1
    MaxHurry = 0
    MaxCrashes = 0
INVARIANTS
    DoneWhenAllRead
