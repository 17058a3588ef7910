\* Three requests: each meets what the ones before left behind; a crash and any
\* number of deaths of named fall anywhere between their steps.
CONSTANTS
    z1 = z1
    z2 = z2
    a = a
    b = b
    Zones <- MCZones
    RRs <- MCRRs
    Requests <- MCRequests
    InitialDb <- MCInitialDb
    Runners <- MCRunners
    p = p
    q = q
    MaxRequests = 3
    MaxCrashes = 1
SYMMETRY MCSymmetry
SPECIFICATION Spec
INVARIANTS
    TypeOK
    ServedAsCommitted
PROPERTIES
    OrphansFromDrift
    ImplementsRollout
\* A boot that fails is log.Fatalf, and a call without answer blocks for good.
CHECK_DEADLOCK FALSE
