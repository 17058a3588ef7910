\* One request, without crashes: its rollback is enough.
CONSTANTS
    i1 = i1
    i2 = i2
    s1 = s1
    s2 = s2
    p1 = p1
    p2 = p2
    v1 = v1
    v2 = v2
    Interfaces <- MCInterfaces
    Ids <- MCIds
    Keys <- MCKeys
    Values <- MCValues
    InitialConf <- MCInitialConf
    Requests <- MCRequests
    MaxRequests = 1
    MaxCrashes = 0
    MaxMoves = 1
SPECIFICATION Spec
INVARIANT RollbackSendsOld
\* The process may end for good: a boot that fails is log.Fatalf.
CHECK_DEADLOCK FALSE
