SPECIFICATION Spec
CONSTANTS
    n1 = n1
    Names = {n1}
    Nobody = Nobody
    MaxId = 1
    MaxRuns = 2
    Extras = {"schedule"}
    Faults = {"fail", "lost", "write", "status", "link"}
    MaxCrashes = 1
INVARIANTS
    TypeOK
    StatusMatchesCheck
    ResultBeforeStatus
PROPERTIES
    FollowedToTheEnd
