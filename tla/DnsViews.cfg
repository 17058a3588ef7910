\* Two requests: the second meets what the first left behind; a crash and any
\* number of deaths of named fall anywhere between their steps.
CONSTANTS
    v1 = v1
    v2 = v2
    a1 = a1
    a2 = a2
    a3 = a3
    f1 = f1
    r1 = r1
    r2 = r2
    r3 = r3
    t1 = t1
    t2 = t2
    Views <- MCViews
    Acls <- MCAcls
    Forwards <- MCForwards
    Names <- MCNames
    Values <- MCValues
    DefaultAcls <- MCDefaultAcls
    AnyAcl = a1
    DefaultView = v2
    Requests <- MCRequests
    InitialDb <- MCInitialDb
    MaxRequests = 2
    MaxCrashes = 1
SPECIFICATION Spec
INVARIANTS
    TypeOK
    RunsAsCommitted
    ReferencedExist
PROPERTY DanglingFromDrift
\* A boot that fails is log.Fatalf.
CHECK_DEADLOCK FALSE
