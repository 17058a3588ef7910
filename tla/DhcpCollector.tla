--------------------------- MODULE DhcpCollector ---------------------------
(***************************************************************************)
(* The numbers of DHCP leases that the agent exports.                      *)
(*                                                                         *)
(* pkg/metric/dhcpcollector.go.  Both the goroutine that keeps the rate of *)
(* leases (Run) and the metrics server (Collect) ask kea's two servers for *)
(* all their statistics, one after the other, and add up the leases of the *)
(* subnets from a Go map, whose order is anybody's guess.  Run gives up    *)
(* when one of the servers fails, Collect leaves that server out.  The two *)
(* share only the rate, so that one job is followed at a time.             *)
(*                                                                         *)
(* kea is external: it grants and takes back leases, and what is           *)
(* configured may take every pool of a kind from a subnet and give it one  *)
(* again.                                                                  *)
(***************************************************************************)
EXTENDS Naturals, SequencesExt

CONSTANTS
    Subnets4,     \* the subnets of the v4 server
    Subnets6,     \* those of the v6 server
    MaxLeases,    \* bound on the leases of a kind in a subnet
    MaxEvents,    \* bound on leases granted, leases ended and changes of
                  \* pools between two samples
    MaxTime       \* bound on the time between two samples

ASSUME DhcpCollectorAssumption ==
    /\ IsFiniteSet(Subnets4) /\ IsFiniteSet(Subnets6)
    /\ MaxLeases \in Nat /\ MaxEvents \in Nat /\ MaxTime \in Nat

Versions == {4, 6}

\* What is counted: addresses, and for v6 non-temporary addresses and prefixes.
Kinds ==
    [version : {4}, subnet : Subnets4, kind : {"addresses"}]
        \cup [version : {6}, subnet : Subnets6, kind : {"nas", "pds"}]

SubnetsOf(v) == IF v = 4 THEN Subnets4 ELSE Subnets6

VARIABLES
    assigned,        \* leases of each kind
    pooled,          \* addresses of each kind there are to lease, 1 for any
    job,             \* what is being done: "sample" or "scrape"
    phase,           \* and how far
    answer,          \* the statistics each server answered with, none if it failed to
    lastAssigned,    \* dhcp.lastAssignedAddrsCount
    lps,             \* dhcp.lps
    gone,            \* time since the last sample: now less dhcp.lastGetTime
    events,          \* history: leases granted and ended, and pools changed,
                     \* since each server answered for the last sample
    mark,            \* history: the same, when it answered for this one
    period,          \* history: what the rate that was just kept is about
    exported         \* history: what Collect has just exported, and should have

dhcpCollectorVars ==
    <<assigned, pooled, job, phase, answer, lastAssigned, lps, gone,
      events, mark, period, exported>>

keaVars == <<assigned, pooled>>
keptVars == <<lastAssigned, lps, gone>>

NoExport == [leases |-> 0, right |-> 0]

NoPeriod == [granted |-> 0, ended |-> 0, pools |-> 0, time |-> 0, kept |-> FALSE]

\* A step in which no rate is kept and nothing is exported.
Silent == period' = NoPeriod /\ exported' = NoExport

None == [granted |-> 0, ended |-> 0, pools |-> 0]

Nowhere == [v \in Versions |-> None]

DhcpCollectorInit ==
    /\ assigned = [k \in Kinds |-> 0]
    /\ pooled = [k \in Kinds |-> 1]
    /\ job = "none" /\ phase = "idle"
    /\ answer = [v \in Versions |-> {}]
    /\ lastAssigned = 0 /\ lps = 0 /\ gone = 0
    /\ events = Nowhere /\ mark = Nowhere
    /\ period = NoPeriod
    /\ exported = NoExport

-----------------------------------------------------------------------------
(* kea.                                                                    *)

Happened ==
    MapThenSumSet(LAMBDA v : events[v].granted + events[v].ended + events[v].pools, Versions)

Granted(k) ==
    /\ pooled[k] = 1 /\ assigned[k] < MaxLeases
    /\ Happened < MaxEvents
    /\ assigned' = [assigned EXCEPT ![k] = @ + 1]
    /\ events' = [events EXCEPT ![k.version].granted = @ + 1]
    /\ UNCHANGED <<pooled, job, phase, answer, mark, keptVars>>
    /\ Silent

LeaseEnded(k) ==
    /\ assigned[k] > 0
    /\ Happened < MaxEvents
    /\ assigned' = [assigned EXCEPT ![k] = @ - 1]
    /\ events' = [events EXCEPT ![k.version].ended = @ + 1]
    /\ UNCHANGED <<pooled, job, phase, answer, mark, keptVars>>
    /\ Silent

\* Leases outlive the pool they are from.
PoolsChanged(k) ==
    /\ Happened < MaxEvents
    /\ pooled' = [pooled EXCEPT ![k] = 1 - @]
    /\ events' = [events EXCEPT ![k.version].pools = @ + 1]
    /\ UNCHANGED <<assigned, job, phase, answer, mark, keptVars>>
    /\ Silent

TimeGoes ==
    /\ gone < MaxTime
    /\ gone' = gone + 1
    /\ UNCHANGED <<keaVars, job, phase, answer, lastAssigned, lps,
                   events, mark>>
    /\ Silent

-----------------------------------------------------------------------------
(* Statistics.                                                             *)

\* statistic-get-all: a total and an assigned number of each kind.
Statistics(v) ==
    {[name |-> "total", of |-> k, value |-> pooled[k]] : k \in {l \in Kinds : l.version = v}}
        \cup {[name |-> "assigned", of |-> k, value |-> assigned[k]] :
                 k \in {l \in Kinds : l.version = v}}

\* Mutant of Put: v6 is treated as v4.
PutOver(sum, stat) == stat.value

\* A v4 subnet has one statistic of a name, those of a v6 subnet are added up.
Put(sum, stat) == IF stat.of.version = 4 THEN stat.value ELSE sum + stat.value

\* setDHCPSubnetAddressStats.
Noted(stat, stats) == [stats EXCEPT ![stat.of.subnet][stat.name] = Put(@, stat)]

\* The statistics of a server's subnets, read in this order.
SubnetStats(v, order) ==
    FoldLeft(LAMBDA stats, stat : Noted(stat, stats),
             [s \in SubnetsOf(v) |-> [total |-> 0, assigned |-> 0]], order)

\* Leases are counted in subnets that have anything to lease.
LeasesCount(v, order) ==
    LET stats == SubnetStats(v, order)
    IN  MapThenSumSet(LAMBDA s : stats[s].assigned,
                      {s \in SubnetsOf(v) : stats[s].total # 0})

-----------------------------------------------------------------------------
(* Run and Collect.                                                        *)

Begin(j) ==
    /\ phase = "idle"
    /\ job' = j /\ phase' = "ask4"
    /\ UNCHANGED <<keaVars, answer, events, mark, keptVars>>
    /\ Silent

Rest ==
    /\ job' = "none" /\ phase' = "idle"
    /\ answer' = [v \in Versions |-> {}] /\ mark' = Nowhere

Asked == IF phase = "ask4" THEN 4 ELSE 6

After(v) == IF v = 4 THEN "ask6" ELSE "count"

Answers ==
    /\ phase \in {"ask4", "ask6"}
    /\ answer' = [answer EXCEPT ![Asked] = Statistics(Asked)]
    /\ mark' = IF job = "sample" THEN [mark EXCEPT ![Asked] = events[Asked]] ELSE mark
    /\ phase' = After(Asked)
    /\ UNCHANGED <<keaVars, job, events, keptVars>>
    /\ Silent

\* Mutant of Fails: the sampler, too, goes on without the server.
FailsForNone ==
    /\ phase \in {"ask4", "ask6"}
    /\ phase' = After(Asked)
    /\ UNCHANGED <<keaVars, job, answer, events, mark, keptVars>>
    /\ Silent

Fails ==
    /\ phase \in {"ask4", "ask6"}
    /\ IF job = "sample" THEN Rest
       ELSE phase' = After(Asked) /\ UNCHANGED <<job, answer, mark>>
    /\ UNCHANGED <<keaVars, events, keptVars>>
    /\ Silent

\* A map is read in any order.
Counts(v) == {LeasesCount(v, order) : order \in SetToSeqs(answer[v])}

Store(count) ==
    /\ lps' = IF gone > 0 /\ lastAssigned # 0 /\ count >= lastAssigned
              THEN (count - lastAssigned) \div gone ELSE lps
    /\ lastAssigned' = count
    /\ gone' = 0
    /\ period' = [granted |-> mark[4].granted + mark[6].granted,
                  ended |-> mark[4].ended + mark[6].ended,
                  pools |-> mark[4].pools + mark[6].pools,
                  time |-> gone,
                  kept |-> gone > 0 /\ lastAssigned # 0 /\ count >= lastAssigned]
    /\ events' = [v \in Versions |->
                    [granted |-> events[v].granted - mark[v].granted,
                     ended |-> events[v].ended - mark[v].ended,
                     pools |-> events[v].pools - mark[v].pools]]
    /\ exported' = NoExport

\* What the servers that answered lease, told from their answers at once.
RightCount ==
    LET Has(v, s) == \E a \in answer[v] : a.name = "total" /\ a.of.subnet = s /\ a.value # 0
        Counted == {a \in answer[4] \cup answer[6] :
                       a.name = "assigned" /\ Has(a.of.version, a.of.subnet)}
    IN  MapThenSumSet(LAMBDA a : a.value, Counted)

Export(count) ==
    /\ exported' = [leases |-> count, right |-> RightCount]
    /\ UNCHANGED <<lastAssigned, lps, gone, events>>
    /\ period' = NoPeriod

Finish ==
    /\ phase = "count"
    /\ \E count4 \in Counts(4), count6 \in Counts(6) :
           IF job = "sample" THEN Store(count4 + count6) ELSE Export(count4 + count6)
    /\ Rest
    /\ UNCHANGED keaVars

DhcpCollectorNext ==
    \/ \E k \in Kinds : Granted(k) \/ LeaseEnded(k) \/ PoolsChanged(k)
    \/ TimeGoes
    \/ \E j \in {"sample", "scrape"} : Begin(j)
    \/ Answers \/ Fails \/ Finish

DhcpCollectorSpec == DhcpCollectorInit /\ [][DhcpCollectorNext]_dhcpCollectorVars

-----------------------------------------------------------------------------
(* Properties.                                                             *)

Happenings == [granted : 0 .. MaxEvents, ended : 0 .. MaxEvents, pools : 0 .. MaxEvents]

MaxCount == MaxLeases * Cardinality(Kinds)

\* Every variable has its type.
DhcpCollectorTypeOK ==
    /\ assigned \in [Kinds -> 0 .. MaxLeases] /\ pooled \in [Kinds -> 0 .. 1]
    /\ job \in {"none", "sample", "scrape"}
    /\ phase \in {"idle", "ask4", "ask6", "count"}
    /\ \A v \in Versions :
           answer[v] \subseteq [name : {"total", "assigned"}, of : Kinds,
                             value : (0 .. 1) \cup (0 .. MaxLeases)]
    /\ lastAssigned \in 0 .. MaxCount /\ lps \in 0 .. MaxCount /\ gone \in 0 .. MaxTime
    /\ events \in [Versions -> Happenings] /\ mark \in [Versions -> Happenings]
    /\ period.time \in 0 .. MaxTime /\ period.kept \in BOOLEAN
    /\ exported \in [leases : 0 .. MaxCount, right : 0 .. MaxCount]

\* In whatever order the statistics were read, the exported number of leases
\* is that of the subnets that have pools, addresses and prefixes together, of
\* the servers that answered (dhcpcollector.go:153-251).
CountedRight == exported.leases = exported.right

\* A rate that was kept is true of what each server granted between its two
\* answers, although the two were not asked at once: no more than the leases
\* granted, no less than those less the ended ones and what the division
\* drops, unless a subnet lost its pools or was given some
\* (dhcpcollector.go:89-105).
LpsTrue ==
    period.kept /\ period.pools = 0 =>
        /\ lps * period.time <= period.granted
        /\ period.granted < (lps + 1) * period.time + period.ended
=============================================================================
