SPECIFICATION FairSpec
CONSTANTS
    s1 = s1
    s2 = s2
    g = g
    a = a
    b = b
    m = m
    d = d
    e = e
    Plugins <- MCPlugins
    Category <- MCCategory
    Deps <- MCDeps
    Exclusive <- MCExclusive
    None = None
    MaxProcesses = 2
    MaxChecks = 3
    MaxForkRetries = 1
INVARIANTS
    TableSound
PROPERTIES
    OrderKept
    KeptApart
    HostEnds
CHECK_DEADLOCK FALSE
