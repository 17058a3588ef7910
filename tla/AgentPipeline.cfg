\* Two commands for each loop, one with an event and one without: the second is read
\* after a crash, a failed read or a reader that rejoined at the first.
CONSTANTS
    Consumers <- MCConsumers
    Topic <- MCTopic
    Last = 2
    MaxCrashes = 1
SPECIFICATION FairSpec
INVARIANTS
    TypeOK
    NoneForgotten
PROPERTIES
    ImplementsCommandLog
    EachPassed
\* The topics may have been read to their ends.
CHECK_DEADLOCK FALSE
