CONSTANTS
    Keepers = {k1}
    MaxCrashes = 0
SPECIFICATION Spec
INVARIANT StoppedIsDown
CHECK_DEADLOCK FALSE
