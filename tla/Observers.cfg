CONSTANTS
    Views = {"v", "w"}
    \* 2^32 - 1, scaled down; more queries than that between two samples.
    CounterMax = 3
    MaxQueries = 5
    MaxWait = 2
    MaxCached = 1
    Subnets4 = {"s"}
    Subnets6 = {"t"}
    MaxLeases = 1
    MaxEvents = 2
    MaxTime = 2
    Leases <- MCLeases
    Calls <- MCCalls
    Named <- MCNamed
    AsBytes <- MCAsBytes
    MaxChanges = 2
SPECIFICATION ObserversSpec
INVARIANTS
    ObserversTypeOK
    RateTrue
    RatiosWeighed
    CountedRight
    LpsTrue
    AnswersTruthful
    SubnetCountsTruthful
