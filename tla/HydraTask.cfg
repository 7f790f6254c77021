SPECIFICATION FairSpec
CONSTANTS
    h1 = h1
    HNames = {h1}
    NoName = NoName
    MaxId = 2
    MaxProc = 2
    MaxWork = 3
    MaxGen = 2
    Services = 2
INVARIANTS
    TypeOK
    StoreComplete
    CronOwned
    RunnerKnown
    PidFileNeverStale
    DirKept
PROPERTIES
    ExitNoticed
    RestartPossible
