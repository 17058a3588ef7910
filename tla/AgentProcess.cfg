\* Two uploads of this node, which can fall into one second and into two, and
\* one of another; the process is run twice.
CONSTANTS
    a = a
    b = b
    c = c
    Uploads <- MCUploads
    Mine <- MCMine
    MaxSeconds = 1
    MaxStarts = 2
SPECIFICATION ProcessSpec
INVARIANTS
    ProcessTypeOK
    DoneMeansStored
    UsedAreSet
PROPERTIES
    ImplementsReport
    UploadsEnd
\* The agent need not be run again.
CHECK_DEADLOCK FALSE
