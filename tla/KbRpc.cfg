SPECIFICATION FairSpec
CONSTANTS
    r1 = r1
    r2 = r2
    Reqs = {r1, r2}
    NoReq = NoReq
    Results = {"ok"}
    MaxFaults = 4
    MaxCrashes = 1
INVARIANTS
    TypeOK
    Accounted
    AnswersExpire
PROPERTIES
    Promised
    DropsAfterOutage
    ComesToRest
