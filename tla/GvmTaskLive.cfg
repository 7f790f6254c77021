SPECIFICATION FairSpec
CONSTANTS
    n1 = n1
    Names = {n1}
    Nobody = Nobody
    MaxId = 1
    MaxRuns = 2
    Extras = {}
    Faults = {"lost", "write", "link"}
    MaxCrashes = 1
PROPERTIES
    BusyEnds
    Settles
    DeletionCompletes
