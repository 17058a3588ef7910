---------------------------- MODULE DnsCollector ----------------------------
(***************************************************************************)
(* The rates and ratios of DNS queries that the agent exports.             *)
(*                                                                         *)
(* pkg/metric/dnscollector.go.  Run samples named's counter of queries on  *)
(* a ticker and keeps the rate; Collect, called by the metrics server,     *)
(* asks named again and exports the kept rate beside the new counters.     *)
(* named's counter is external: it grows, wraps after CounterMax (2^32-1   *)
(* in the code) and starts again from zero with named.  A ratio is the     *)
(* pair of its terms.                                                      *)
(***************************************************************************)
EXTENDS Naturals, FiniteSetsExt

CONSTANTS
    Views,         \* the views named keeps cache statistics of
    CounterMax,    \* the largest value of named's counter
    MaxQueries,    \* bound on the queries between two samples
    MaxWait,       \* bound on the time between two samples
    MaxCached      \* bound on a view's hits and misses

ASSUME DnsCollectorAssumption ==
    /\ IsFiniteSet(Views)
    /\ CounterMax \in Nat \ {0} /\ MaxQueries \in Nat /\ MaxWait \in Nat
    /\ MaxCached \in Nat

VARIABLES
    counter,          \* named's counter of queries
    lastQueryCount,   \* dns.lastQueryCount
    qps,              \* dns.qps
    queried,          \* history: queries since the last sample
    waited,           \* time since the last sample: now less dns.lastGetTime
    renamed,          \* history: named was restarted since the last sample
    sampled,          \* history: what the kept rate is about
    scraped           \* history: what Collect has just exported

dnsCollectorVars ==
    <<counter, lastQueryCount, qps, queried, waited, renamed, sampled, scraped>>

\* What a step in which Collect exports nothing leaves.
Nothing == [qps |-> 0, total |-> 0, ratio |-> {}, overall |-> {}]

DnsCollectorInit ==
    /\ counter = 0
    /\ lastQueryCount = 0 /\ qps = 0
    /\ queried = 0 /\ waited = 0 /\ renamed = FALSE
    /\ sampled = [from |-> 0, queries |-> 0, time |-> 0, renamed |-> FALSE]
    /\ scraped = Nothing

-----------------------------------------------------------------------------
(* named.                                                                  *)

Queried ==
    /\ queried < MaxQueries
    /\ queried' = queried + 1
    /\ counter' = (counter + 1) % (CounterMax + 1)
    /\ UNCHANGED <<lastQueryCount, qps, waited, renamed, sampled>>
    /\ scraped' = Nothing

TimePasses ==
    /\ waited < MaxWait
    /\ waited' = waited + 1
    /\ UNCHANGED <<counter, lastQueryCount, qps, queried, renamed, sampled>>
    /\ scraped' = Nothing

NamedRestarts ==
    /\ counter' = 0 /\ renamed' = TRUE
    /\ UNCHANGED <<lastQueryCount, qps, queried, waited, sampled>>
    /\ scraped' = Nothing

-----------------------------------------------------------------------------
(* Run.                                                                    *)

\* Mutant of Growth: a wrapped counter is taken as it is.
GrowthUnwrapped(c, last) == IF c >= last THEN c - last ELSE c

\* Mutant of Growth: a wrap is a negative difference.
GrowthSigned(c, last) == c - last

\* The difference of two readings; 2^32-1, not 2^32, is added for a wrap.
Growth(c, last) == IF c >= last THEN c - last ELSE c + CounterMax - last

\* Nothing can be said after a reading of zero, which is also what there is
\* before the first one.
Rate(c, last, time) == IF time > 0 /\ last # 0 THEN Growth(c, last) \div time ELSE 0

Sample ==
    /\ qps' = Rate(counter, lastQueryCount, waited)
    /\ lastQueryCount' = counter
    /\ sampled' = [from |-> lastQueryCount, queries |-> queried,
                   time |-> waited, renamed |-> renamed]
    /\ queried' = 0 /\ waited' = 0 /\ renamed' = FALSE
    /\ UNCHANGED <<counter>>
    /\ scraped' = Nothing

\* named has counted nothing and does not list the counter: the rate is set to
\* zero and the last reading stays.  (After an error nothing changes at all.)
SampleUnlisted ==
    /\ counter = 0
    /\ qps' = 0
    /\ sampled' = [from |-> 0, queries |-> queried, time |-> waited, renamed |-> renamed]
    /\ UNCHANGED <<counter, lastQueryCount, queried, waited, renamed>>
    /\ scraped' = Nothing

-----------------------------------------------------------------------------
(* Collect.                                                                *)

Total(of) == MapThenSumSet(LAMBDA v : of[v], Views)

\* Mutant of ViewRatios: against the misses alone.
ViewRatiosToMisses(hits, misses) ==
    {<<hits[v], misses[v]>> : v \in {w \in Views : misses[w] # 0}}

\* Of the views that were asked anything.
ViewRatios(hits, misses) ==
    {<<hits[v], hits[v] + misses[v]>> : v \in {w \in Views : hits[w] + misses[w] # 0}}

Overall(hits, misses) ==
    IF Total(hits) + Total(misses) = 0 THEN {}
    ELSE {<<Total(hits), Total(hits) + Total(misses)>>}

\* Of a named that has counted nothing, nothing is exported.  (Nor is after an
\* error.)
Collect(hits, misses) ==
    /\ scraped' =
         IF counter = 0 THEN Nothing
         ELSE [qps |-> qps, total |-> counter,
               ratio |-> ViewRatios(hits, misses), overall |-> Overall(hits, misses)]
    /\ UNCHANGED <<counter, lastQueryCount, qps, queried, waited, renamed, sampled>>

DnsCollectorNext ==
    \/ Queried \/ TimePasses \/ NamedRestarts
    \/ Sample \/ SampleUnlisted
    \/ \E hits, misses \in [Views -> 0 .. MaxCached] : Collect(hits, misses)

DnsCollectorSpec == DnsCollectorInit /\ [][DnsCollectorNext]_dnsCollectorVars

-----------------------------------------------------------------------------
(* Properties.                                                             *)

Ratios == (0 .. MaxCached * Cardinality(Views)) \X (1 .. 2 * MaxCached * Cardinality(Views))

\* Every variable has its type.
DnsCollectorTypeOK ==
    /\ {counter, lastQueryCount} \subseteq 0 .. CounterMax
    /\ qps \in 0 .. 2 * CounterMax
    /\ queried \in 0 .. MaxQueries /\ waited \in 0 .. MaxWait
    /\ renamed \in BOOLEAN
    /\ sampled \in [from : 0 .. CounterMax, queries : 0 .. MaxQueries,
                    time : 0 .. MaxWait, renamed : BOOLEAN]
    /\ scraped \in [qps : 0 .. 2 * CounterMax, total : 0 .. CounterMax,
                    ratio : SUBSET Ratios, overall : SUBSET Ratios]

\* Over the time it is about, the rate is never more than the queries there
\* were, and less only by what the division drops, by one query when the
\* counter wrapped, and by everything after a reading of zero; a restart of
\* named may show any rate at all (dnscollector.go:95-117).
RateTrue ==
    ~sampled.renamed =>
        /\ qps * sampled.time <= sampled.queries
        /\ sampled.from # 0 /\ sampled.time # 0 /\ sampled.queries <= CounterMax =>
               sampled.queries <= (qps + 1) * sampled.time

Leq(p, q) == p[1] * q[2] <= q[1] * p[2]

\* The overall ratio of cache hits is exported when a view's is, and lies
\* between the least and the largest of them (dnscollector.go:151-198).
RatiosWeighed ==
    /\ scraped.ratio = {} <=> scraped.overall = {}
    /\ \A o \in scraped.overall :
           /\ \E r \in scraped.ratio : Leq(r, o)
           /\ \E r \in scraped.ratio : Leq(o, r)
=============================================================================
