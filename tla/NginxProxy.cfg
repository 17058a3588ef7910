\* Two requests: the second meets the files the first left behind; a crash
\* and any number of keepers fall anywhere between their steps.
CONSTANTS
    x1 = x1
    x2 = x2
    u1 = u1
    u2 = u2
    p1 = p1
    p2 = p2
    None = None
    Domains <- MCDomains
    Urls <- MCUrls
    Pairs <- MCPairs
    Requests <- MCRequests
    InitialDb <- MCInitialDb
    MaxRequests = 2
    MaxCrashes = 1
SPECIFICATION Spec
INVARIANTS
    TypeOK
    ServesCommitted
    RefusedFromDrift
PROPERTY ImplementsRollout
\* A boot that fails is log.Fatalf.
CHECK_DEADLOCK FALSE
