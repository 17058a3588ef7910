\* Two requests: the second meets whatever the first left behind, and a crash,
\* a change of the host's interfaces and any number of server deaths fall
\* anywhere between their steps.
CONSTANTS
    i1 = i1
    i2 = i2
    s1 = s1
    s2 = s2
    p1 = p1
    p2 = p2
    v1 = v1
    v2 = v2
    Interfaces <- MCInterfaces
    Ids <- MCIds
    Keys <- MCKeys
    Values <- MCValues
    InitialConf <- MCInitialConf
    Requests <- MCPairRequests
    MaxRequests = 2
    MaxCrashes = 1
    MaxMoves = 1
SPECIFICATION Spec
INVARIANTS
    TypeOK
    Synced
    AckedSurvives
    RollbackTargetKept
\* The process may end for good: a boot that fails is log.Fatalf.
CHECK_DEADLOCK FALSE
