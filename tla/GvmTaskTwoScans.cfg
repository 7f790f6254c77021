SPECIFICATION Spec
CONSTANTS
    n1 = n1
    Names = {n1}
    Nobody = Nobody
    MaxId = 1
    MaxRuns = 2
    Extras = {}
    Faults = {}
    MaxCrashes = 0
INVARIANTS
    OneScanAtATime
