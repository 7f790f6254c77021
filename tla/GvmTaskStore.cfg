SPECIFICATION Spec
CONSTANTS
    n1 = n1
    n2 = n2
    Names = {n1, n2}
    Nobody = Nobody
    MaxId = 2
    MaxRuns = 0
    Extras = {"schedule", "config"}
    Faults = {"fail", "lost", "write"}
    MaxCrashes = 2
SYMMETRY NameSymmetry
INVARIANTS
    AckedDurable
    StoreDurable
    RestartSafe
    NoLeak
    NoDangling
