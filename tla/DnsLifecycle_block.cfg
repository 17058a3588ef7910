CONSTANTS
    Keepers = {k1}
    MaxCrashes = 0
SPECIFICATION FairSpec
PROPERTY StopReturns
CHECK_DEADLOCK FALSE
