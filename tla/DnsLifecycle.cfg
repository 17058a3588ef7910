\* Two keepers: the least with which keepers share, and lose, the ticker.
CONSTANTS
    Keepers = {k1, k2}
    MaxCrashes = 1
SPECIFICATION FairSpec
INVARIANTS
    TypeOK
    KeepersBalance
PROPERTIES
    StopsStay
    DeadNamedRevived
    MatchedStopReturns
\* The process may end for good: a boot that fails is log.Fatalf.
CHECK_DEADLOCK FALSE
