-------------------------- MODULE Observers_proofs --------------------------
(***************************************************************************)
(* What the observers tell of the servers: the rate of queries, the ratios *)
(* of cache hits, the order of addresses, what is answered on leases, the  *)
(* number of leases and their rate, for any number of views, subnets,      *)
(* leases and calls; and the types of all they keep.                       *)
(***************************************************************************)
EXTENDS Observers, FiniteSetTheorems, WellFoundedInduction, TLAPS

-----------------------------------------------------------------------------
(* The rate of queries.                                                    *)

\* What the counter tells of the queries since it was read, with a wrap or not.
Tracks ==
    /\ counter >= lastQueryCount => counter - lastQueryCount <= queried
    /\ counter < lastQueryCount => counter + CounterMax + 1 - lastQueryCount <= queried
    /\ queried <= CounterMax /\ counter >= lastQueryCount => queried = counter - lastQueryCount
    /\ queried <= CounterMax /\ counter < lastQueryCount =>
           queried = counter + CounterMax + 1 - lastQueryCount

Readings ==
    /\ counter \in 0 .. CounterMax /\ lastQueryCount \in 0 .. CounterMax
    /\ queried \in Nat /\ waited \in Nat

CounterOK == Readings /\ renamed \in BOOLEAN /\ (~renamed => Tracks)

RateInv == CounterOK /\ RateTrue

\* Whole division.
LEMMA Divided ==
    ASSUME NEW a \in Nat, NEW b \in Nat \ {0}
    PROVE  /\ a \div b \in Nat
           /\ (a \div b) * b <= a
           /\ a + 1 <= (a \div b + 1) * b
  OBVIOUS

\* What the rate, times the time, says of any number close to the growth.
LEMMA DividedBounds ==
    \A a, n \in Nat, b \in Nat \ {0} :
        /\ a <= n => (a \div b) * b <= n
        /\ n <= a + 1 => n <= (a \div b + 1) * b
<1> SUFFICES ASSUME NEW a \in Nat, NEW n \in Nat, NEW b \in Nat \ {0}
             PROVE  /\ a <= n => (a \div b) * b <= n
                    /\ n <= a + 1 => n <= (a \div b + 1) * b
  OBVIOUS
<1> DEFINE p == (a \div b) * b
           q == (a \div b + 1) * b
<1>1. a \div b \in Nat /\ p <= a /\ a + 1 <= q
  BY Divided
<1>3. p \in Nat /\ q \in Nat
  BY <1>1
<1> HIDE DEF p, q
<1>2. (a <= n => p <= n) /\ (n <= a + 1 => n <= q)
  BY <1>1, <1>3
<1>q. QED  BY <1>2 DEF p, q

\* One query more: the counter goes on, or wraps.
LEMMA Counted ==
    ASSUME NEW c \in 0 .. CounterMax
    PROVE  (c + 1) % (CounterMax + 1) = IF c = CounterMax THEN 0 ELSE c + 1
<1>1. CounterMax \in Nat
  BY DnsCollectorAssumption
<1>q. QED  BY <1>1

\* Each step on the queries keeps what their counter tells.
LEMMA QueriedInv == ASSUME RateInv, Queried PROVE RateInv'
<1>1. CounterMax \in Nat
  BY DnsCollectorAssumption
<1>2. counter' = IF counter = CounterMax THEN 0 ELSE counter + 1
  BY Counted DEF RateInv, CounterOK, Readings, Tracks, Queried
<1>3. CounterOK'
  BY <1>1, <1>2 DEF RateInv, CounterOK, Readings, Tracks, Queried
<1>4. RateTrue'
  BY DEF RateInv, RateTrue, Queried
<1>q. QED  BY <1>3, <1>4 DEF RateInv

LEMMA SampleInv == ASSUME RateInv, Sample PROVE RateInv'
<1>1. CounterMax \in Nat
  BY DnsCollectorAssumption
<1>2. CounterOK'
  <2>1. /\ counter' = counter /\ lastQueryCount' = counter
        /\ queried' = 0 /\ waited' = 0 /\ renamed' = FALSE
    BY DEF Sample
  <2>2. counter \in 0 .. CounterMax /\ counter - counter = 0
    BY <1>1 DEF RateInv, CounterOK, Readings, Tracks
  <2>3. Readings' /\ Tracks'
    BY <1>1, <2>1, <2>2 DEF Readings, Tracks
  <2>q. QED  BY <2>1, <2>3 DEF CounterOK
<1>3. ASSUME ~renamed PROVE qps' * waited <= queried
  <2>1. CASE waited > 0 /\ lastQueryCount # 0
    <3>1. Growth(counter, lastQueryCount) \in Nat /\ Growth(counter, lastQueryCount) <= queried
      BY <1>1, <1>3 DEF RateInv, CounterOK, Readings, Tracks, Growth
    <3>2. qps' = Growth(counter, lastQueryCount) \div waited
      BY <2>1 DEF Sample, Rate
    <3>3. waited \in Nat \ {0} /\ queried \in Nat
      BY <2>1 DEF RateInv, CounterOK, Readings, Tracks
    <3>q. QED  BY <3>1, <3>2, <3>3, DividedBounds
  <2>2. CASE ~(waited > 0 /\ lastQueryCount # 0)
    BY <2>2 DEF RateInv, CounterOK, Readings, Tracks, Sample, Rate
  <2>q. QED  BY <2>1, <2>2
<1>4. ASSUME ~renamed, lastQueryCount # 0, waited # 0, queried <= CounterMax
      PROVE  queried <= (qps' + 1) * waited
  <2>1. Growth(counter, lastQueryCount) \in Nat /\ queried <= Growth(counter, lastQueryCount) + 1
    BY <1>1, <1>4 DEF RateInv, CounterOK, Readings, Tracks, Growth
  <2>2. waited \in Nat \ {0} /\ queried \in Nat
    BY <1>4 DEF RateInv, CounterOK, Readings, Tracks
  <2>3. qps' = Growth(counter, lastQueryCount) \div waited
    BY <1>4, <2>2 DEF Sample, Rate
  <2>q. QED  BY <2>1, <2>2, <2>3, DividedBounds
<1>5. sampled' = [from |-> lastQueryCount, queries |-> queried, time |-> waited, renamed |-> renamed]
  BY DEF Sample
<1>6. RateTrue'
  BY <1>3, <1>4, <1>5 DEF RateTrue
<1>q. QED  BY <1>2, <1>6 DEF RateInv

\* Every step of it, whatever named does meanwhile.
LEMMA RateStep == ASSUME RateInv, DnsCollectorNext \/ UNCHANGED dnsCollectorVars PROVE RateInv'
<1>1. CounterMax \in Nat
  BY DnsCollectorAssumption
<1>2. CASE TimePasses
  BY <1>2 DEF RateInv, CounterOK, Readings, Tracks, RateTrue, TimePasses
<1>3. CASE NamedRestarts
  BY <1>1, <1>3 DEF RateInv, CounterOK, Readings, Tracks, RateTrue, NamedRestarts
<1>4. CASE SampleUnlisted
  <2>1. CounterOK'
    BY <1>4 DEF RateInv, CounterOK, Readings, Tracks, SampleUnlisted
  <2>2. qps' = 0 /\ waited \in Nat /\ queried \in Nat
    BY <1>4 DEF RateInv, CounterOK, Readings, Tracks, SampleUnlisted
  <2>3. sampled' = [from |-> 0, queries |-> queried, time |-> waited, renamed |-> renamed]
    BY <1>4 DEF SampleUnlisted
  <2>q. QED  BY <2>1, <2>2, <2>3 DEF RateInv, RateTrue
<1>5. CASE \E hits, misses \in [Views -> 0 .. MaxCached] : Collect(hits, misses)
  BY <1>5 DEF RateInv, CounterOK, Readings, Tracks, RateTrue, Collect
<1>6. CASE UNCHANGED dnsCollectorVars
  BY <1>6 DEF RateInv, CounterOK, Readings, Tracks, RateTrue, dnsCollectorVars
<1>q. QED  BY <1>2, <1>3, <1>4, <1>5, <1>6, QueriedInv, SampleInv DEF DnsCollectorNext

LEMMA RateInit == DnsCollectorInit => RateInv
<1>1. CounterMax \in Nat
  BY DnsCollectorAssumption
<1>2. DnsCollectorInit => CounterOK
  <2>1. DnsCollectorInit => Readings /\ Tracks
    BY <1>1 DEF DnsCollectorInit, Readings, Tracks
  <2>2. DnsCollectorInit => renamed \in BOOLEAN
    BY DEF DnsCollectorInit
  <2>q. QED  BY <2>1, <2>2 DEF CounterOK
<1>3. DnsCollectorInit => qps = 0 /\ sampled = [from |-> 0, queries |-> 0, time |-> 0, renamed |-> FALSE]
  BY DEF DnsCollectorInit
<1>q. QED  BY <1>2, <1>3 DEF RateInv, RateTrue

\* The kept rate is true of the queries it is about, for any counter, however
\* long it takes to wrap (dnscollector.go:95-117).
THEOREM RateIsTrue == ObserversSpec => []RateTrue
<1>1. ObserversInit => RateInv
  BY RateInit DEF ObserversInit
<1>2. RateInv /\ [ObserversNext]_observersVars => RateInv'
  BY RateStep DEF ObserversNext, observersVars
<1>3. RateInv => RateTrue
  BY DEF RateInv
<1>q. QED  BY <1>1, <1>2, <1>3, PTL DEF ObserversSpec

-----------------------------------------------------------------------------
(* The order of addresses.                                                 *)

\* OneIpLessThanAnother orders all addresses, those of v4 before those of v6:
\* a strict order of which any two different addresses are on one side
\* (util.go:35-55).
THEOREM AddressesOrdered ==
    /\ \A p \in Address : ~OneIpLessThanAnother(p, p)
    /\ \A p, q, r \in Address :
          OneIpLessThanAnother(p, q) /\ OneIpLessThanAnother(q, r) => OneIpLessThanAnother(p, r)
    /\ \A p, q \in Address : p # q => OneIpLessThanAnother(p, q) \/ OneIpLessThanAnother(q, p)
<1>1. \A p \in Address : /\ p = [family |-> p.family, n |-> p.n]
                         /\ p.family \in {4, 6} /\ p.n \in Nat
  BY DEF Address
<1>2. \A p, q \in Address : p # q => p.family # q.family \/ p.n # q.n
  BY <1>1
<1>3. \A p, q \in Address : p # q => OneIpLessThanAnother(p, q) \/ OneIpLessThanAnother(q, p)
  BY <1>1, <1>2 DEF OneIpLessThanAnother
<1>q. QED  BY <1>1, <1>3 DEF OneIpLessThanAnother

\* It is the order of the ranks.
LEMMA Ordered ==
    \A p, q \in Address : OneIpLessThanAnother(p, q) <=> Before(Rank(p), Rank(q))
  BY DEF OneIpLessThanAnother, Before, Rank, Address

-----------------------------------------------------------------------------
(* Queries for leases.                                                     *)

\* The leases that statement and filter leave.
FoundOf(leases) == {l \in leases : Where(call, l) /\ Filter(call, l)}

\* They are those that are meant, but for the bounds of a v6 pool.
LEMMA FoundIsMeant ==
    ASSUME NEW c, CallOK(c), c.kind # "subnets", Understood(c), NEW l \in Leases
    PROVE  /\ Where(c, l) /\ Filter(c, l) => Meant(c, l)
           /\ Meant(c, l) /\ l.address \notin AtBounds(c) => Where(c, l) /\ Filter(c, l)
<1>1. l.address \in Address /\ l.version = l.address.family /\ l.address.n \in Nat
  BY LeaseQueriesAssumption DEF Address
<1> DEFINE Inside == /\ ~Before(Rank(l.address), Rank(c.begin))
                     /\ ~Before(Rank(c.end), Rank(l.address))
<1>2. ASSUME c.kind = "pool", c.version = 4, l.version = 4
      PROVE  InPool(c, l) <=> Inside
  <2>1. c.begin.n \in Nat /\ c.end.n \in Nat /\ c.begin.family = 4 /\ c.end.family = 4
    BY <1>2 DEF CallOK, Address
  <2>2. Uint32(c.begin) = c.begin.n /\ Uint32(c.end) = c.end.n /\ Uint32(l.address) = l.address.n
    BY <1>1, <1>2, <2>1 DEF Uint32
  <2>3. Inside <=> c.begin.n <= l.address.n /\ l.address.n <= c.end.n
    BY <1>1, <1>2, <2>1 DEF Before, Rank
  <2>q. QED  BY <1>1, <1>2, <2>1, <2>2, <2>3 DEF InPool
<1>3. ASSUME c.kind = "pool", c.version = 6, l.version = 6
      PROVE  /\ InPool(c, l) => Inside
             /\ Inside /\ l.address \notin AtBounds(c) => InPool(c, l)
  <2>1. c.begin \in Address /\ c.end \in Address /\ AtBounds(c) = {c.begin, c.end}
    BY <1>3 DEF CallOK, AtBounds
  <2>2. Inside <=> /\ ~OneIpLessThanAnother(l.address, c.begin)
                   /\ ~OneIpLessThanAnother(c.end, l.address)
    BY <1>1, <2>1, Ordered
  <2>3. InPool(c, l) => Inside
    BY <1>1, <1>3, <2>1, <2>2, AddressesOrdered DEF InPool
  <2>4. Inside /\ l.address \notin AtBounds(c) => InPool(c, l)
    BY <1>1, <1>3, <2>1, <2>2, AddressesOrdered DEF InPool
  <2>q. QED  BY <2>3, <2>4
<1>4. AtBounds(c) = {} \/ (c.kind = "pool" /\ c.version = 6)
  BY DEF AtBounds
<1>5. c.version \in {4, 6}
  BY DEF CallOK
<1>q. QED  BY <1>2, <1>3, <1>4, <1>5 DEF Meant, Where, Filter, Understood

\* Leases are finitely many, so that fewer leases have a smaller count.
LEMMA Fewer ==
    ASSUME NEW S \in SUBSET Leases, NEW T \in SUBSET S
    PROVE  /\ IsFiniteSet(T) /\ Cardinality(T) \in Nat /\ Cardinality(S) \in Nat
           /\ Cardinality(T) <= Cardinality(S)
<1>1. IsFiniteSet(S)
  BY LeaseQueriesAssumption, FS_Subset
<1>q. QED  BY <1>1, FS_Subset, FS_CardinalityType

\* The leases of the versions' subnets.
LeasesOf(leases, v, s) == {l \in leases : l.version = v /\ l.subnet = s}

\* A call is one of those there are, or has come to the subnets of v6.
CallRuns ==
    \/ CallOK(call) /\ call.kind # "subnets"
    \/ \E v \in {4, 6} : call = [kind |-> "subnets", version |-> v, count |-> TRUE]

Histories ==
    /\ live \subseteq Leases /\ ever \subseteq Leases /\ always \subseteq live \cap ever
    /\ step \in {"idle", "query", "rows", "answered", "failed"}
    /\ step \in {"query", "rows"} => live \subseteq ever
    /\ step # "rows" => rows = {}
    /\ step = "idle" => result = {} /\ broken = FALSE /\ always = {}
    /\ step # "idle" => CallRuns

\* What a list of leases holds so far, and the answer.
ListOK ==
    /\ step = "query" => result = {}
    /\ step = "rows" => Listed(call) /\ rows \subseteq {l \in ever : Where(call, l)}
    /\ step \in {"rows", "answered"} /\ Listed(call) =>
          /\ result \subseteq FoundOf(ever)
          /\ broken \/ FoundOf(always) \subseteq result \cup rows
    /\ step = "answered" /\ ~Listed(call) =>
          \E n \in result : /\ n \in Nat /\ result = {n}
                            /\ Cardinality(FoundOf(always)) <= n /\ n <= Cardinality(FoundOf(ever))

\* A count lies between those of the leases there always and ever were.
CountOK(r) ==
    /\ r.count \in Nat
    /\ Cardinality(LeasesOf(always, r.version, r.subnet)) <= r.count
    /\ r.count <= Cardinality(LeasesOf(ever, r.version, r.subnet))

\* What was counted, and is being read, in all subnets.
CountsOK ==
    /\ step = "query" /\ call.version = 4 => result = {}
    /\ step = "answered" => call.version = 6
    /\ step # "failed" => \A r \in result \cup rows : CountOK(r)
    /\ \A r \in rows : r.version = call.version
    /\ \A q, r \in rows : q.subnet = r.subnet => q = r
    /\ \A q, r \in result : q.subnet = r.subnet => q = r
    /\ step # "failed" /\ ~broken =>
          \A l \in always :
             l.version < call.version \/ (l.version = call.version /\ step # "query") =>
                \E r \in result \cup rows : r.subnet = l.subnet /\ (l.version = 6 => r.version = 6)

LeasesInv ==
    /\ Histories
    /\ step # "idle" => IF call.kind = "subnets" THEN CountsOK ELSE ListOK

\* The answers on leases: no call at first, then step by step.
LEMMA LeasesInit == LeaseQueriesInit => LeasesInv
  BY DEF LeaseQueriesInit, LeasesInv, Histories

LEMMA AskInv == ASSUME LeasesInv, NEW c \in Calls, Ask(c) PROVE LeasesInv'
<1>1. CallOK(c)
  BY LeaseQueriesAssumption
<1>2. /\ step = "idle" /\ step' = "query" /\ call' = c
      /\ always' = live /\ ever' = live /\ live' = live
      /\ rows = {} /\ rows' = {} /\ result' = {} /\ broken' = FALSE
  BY DEF Ask, LeasesInv, Histories
<1>3. CallRuns'
  <2>1. c.kind = "subnets" => c = [kind |-> "subnets", version |-> 4, count |-> TRUE]
    BY <1>1 DEF CallOK
  <2>q. QED  BY <1>1, <1>2, <2>1 DEF CallRuns
<1>4. Histories'
  BY <1>2, <1>3 DEF LeasesInv, Histories
<1>5. call'.kind = "subnets" => CountsOK'
  <2>1. c.kind = "subnets" => c.version = 4
    BY <1>1 DEF CallOK
  <2>2. \A l \in live : l.version \in {4, 6}
    BY LeaseQueriesAssumption DEF Address, LeasesInv, Histories
  <2>q. QED  BY <1>2, <2>1, <2>2 DEF CountsOK
<1>6. ListOK'
  BY <1>2 DEF ListOK
<1>q. QED  BY <1>4, <1>5, <1>6 DEF LeasesInv

LEMMA QueryRowInv == ASSUME LeasesInv, QueryRow PROVE LeasesInv'
<1>1. /\ step = "query" /\ step' = "answered" /\ ~Listed(call) /\ call.kind # "subnets"
      /\ UNCHANGED <<live, call, rows, broken, always, ever>>
      /\ result' = {Cardinality({l \in live : Where(call, l)})}
  BY DEF QueryRow
<1>2. Histories'
  BY <1>1 DEF LeasesInv, Histories, CallRuns
<1>3. /\ live \in SUBSET Leases /\ ever \in SUBSET Leases /\ always \in SUBSET Leases
      /\ live \subseteq ever /\ always \subseteq live /\ rows = {}
  BY <1>1 DEF LeasesInv, Histories
<1>5. \A l : Filter(call, l)
  BY <1>1 DEF Filter, Listed
<1>6. {l \in live : Where(call, l)} = FoundOf(live)
  BY <1>5 DEF FoundOf
<1>7. /\ FoundOf(live) \in SUBSET FoundOf(ever) /\ FoundOf(always) \in SUBSET FoundOf(live)
      /\ FoundOf(live) \in SUBSET Leases /\ FoundOf(ever) \in SUBSET Leases
  BY <1>3 DEF FoundOf
<1>8. /\ Cardinality(FoundOf(live)) \in Nat
      /\ Cardinality(FoundOf(always)) <= Cardinality(FoundOf(live))
      /\ Cardinality(FoundOf(live)) <= Cardinality(FoundOf(ever))
  BY <1>7, Fewer
<1>9. FoundOf(always)' = FoundOf(always) /\ FoundOf(ever)' = FoundOf(ever)
  BY <1>1 DEF FoundOf
<1>10. ListOK'
  BY <1>1, <1>6, <1>8, <1>9 DEF ListOK, Listed
<1>q. QED  BY <1>1, <1>2, <1>10 DEF LeasesInv

\* The counts of a statement are those of the leases that are live.
LEMMA GroupedCounts ==
    ASSUME Histories, call.kind = "subnets", NEW v, v = call.version
    PROVE  /\ \A r \in Grouped(v) : /\ r.version = v
                                    /\ r.count = Cardinality(LeasesOf(live, v, r.subnet))
           /\ \A q, r \in Grouped(v) : q.subnet = r.subnet => q = r
           /\ \A l \in live : l.version = v => \E r \in Grouped(v) : r.subnet = l.subnet /\ r.version = v
<1> DEFINE Of(s) == {l \in live : Where(call, l) /\ l.version = v /\ l.subnet = s}
           row(s) == [subnet |-> s, version |-> v, count |-> Cardinality(Of(s))]
<1>1. \A s : Of(s) = LeasesOf(live, v, s)
  BY DEF Where, LeasesOf
<1>2. Grouped(v) = {row(s) : s \in {t \in Subnets : Of(t) # {}}}
  BY DEF Grouped
<1>3. \A s : row(s).subnet = s /\ row(s).version = v /\ row(s).count = Cardinality(LeasesOf(live, v, s))
  BY <1>1
<1>4. ASSUME NEW l \in live, l.version = v
      PROVE  l.subnet \in {t \in Subnets : Of(t) # {}}
  <2>1. l.subnet \in Subnets
    BY DEF Subnets, Histories
  <2>2. l \in Of(l.subnet)
    BY <1>1, <1>4 DEF LeasesOf
  <2>q. QED  BY <2>1, <2>2
<1> HIDE DEF row, Of
<1>q. QED  BY <1>2, <1>3, <1>4

LEMMA QueryInv == ASSUME LeasesInv, Query PROVE LeasesInv'
<1>1. /\ step = "query" /\ step' = "rows"
      /\ UNCHANGED <<live, call, result, broken, always, ever>>
      /\ call.kind = "subnets" \/ Listed(call)
      /\ call.kind = "subnets" => rows' = Grouped(call.version)
      /\ call.kind # "subnets" => rows' = {l \in live : Where(call, l)}
  BY DEF Query
<1>2. Histories'
  BY <1>1 DEF LeasesInv, Histories, CallRuns
<1>3. /\ live \in SUBSET Leases /\ ever \in SUBSET Leases /\ always \in SUBSET Leases
      /\ live \subseteq ever /\ always \subseteq live /\ rows = {} /\ Histories
  BY <1>1 DEF LeasesInv, Histories
<1>4. ASSUME call.kind # "subnets" PROVE ListOK'
  <2>1. FoundOf(always)' = FoundOf(always) /\ FoundOf(ever)' = FoundOf(ever) /\ Listed(call)'
    BY <1>1, <1>4 DEF FoundOf, Listed
  <2>2. result = {}
    BY <1>1, <1>4 DEF LeasesInv, ListOK
  <2>3. FoundOf(always) \subseteq rows'
    BY <1>1, <1>3, <1>4 DEF FoundOf
  <2>4. rows' \subseteq {l \in ever' : Where(call', l)}
    BY <1>1, <1>3, <1>4
  <2>q. QED  BY <1>1, <2>1, <2>2, <2>3, <2>4 DEF ListOK
<1>5. ASSUME call.kind = "subnets" PROVE CountsOK'
  <2>1. CountsOK /\ rows' = Grouped(call.version)
    BY <1>1, <1>5 DEF LeasesInv
  <2>2. ASSUME NEW r \in Grouped(call.version) PROVE CountOK(r)
    <3>1. r.version = call.version /\ r.count = Cardinality(LeasesOf(live, r.version, r.subnet))
      BY <1>3, <1>5, GroupedCounts
    <3>2. /\ LeasesOf(always, r.version, r.subnet) \in SUBSET LeasesOf(live, r.version, r.subnet)
          /\ LeasesOf(live, r.version, r.subnet) \in SUBSET LeasesOf(ever, r.version, r.subnet)
          /\ LeasesOf(live, r.version, r.subnet) \in SUBSET Leases
          /\ LeasesOf(ever, r.version, r.subnet) \in SUBSET Leases
      BY <1>3 DEF LeasesOf
    <3>q. QED  BY <3>1, <3>2, Fewer DEF CountOK
  <2>3. \A r : CountOK(r)' <=> CountOK(r)
    BY <1>1 DEF CountOK
  <2>4. \A r \in result : CountOK(r)
    BY <1>1, <2>1 DEF CountsOK
  <2>5. \A l \in Leases : l.version \in {4, 6}
    BY LeaseQueriesAssumption DEF Address
  <2>6. call.version \in {4, 6}
    BY <1>1, <1>3, <1>5 DEF Histories, CallRuns
  <2>7. ASSUME NEW l \in always, ~broken, l.version < call.version \/ l.version = call.version
        PROVE  \E r \in result \cup Grouped(call.version) :
                  r.subnet = l.subnet /\ (l.version = 6 => r.version = 6)
    <3>1. CASE l.version < call.version
      BY <1>1, <2>1, <2>7, <3>1, <1>3 DEF CountsOK
    <3>2. CASE l.version = call.version
      BY <1>3, <1>5, <3>2, GroupedCounts
    <3>q. QED  BY <2>7, <3>1, <3>2
  <2>8. /\ \A r \in rows' : r.version = call.version
        /\ \A q, r \in rows' : q.subnet = r.subnet => q = r
    BY <1>3, <1>5, <2>1, GroupedCounts
  <2>9. \A q, r \in result : q.subnet = r.subnet => q = r
    BY <2>1 DEF CountsOK
  <2>q. QED  BY <1>1, <2>1, <2>2, <2>3, <2>4, <2>7, <2>8, <2>9 DEF CountsOK
<1>q. QED  BY <1>1, <1>2, <1>4, <1>5 DEF LeasesInv

\* Nothing that a count is judged by changes.
LEMMA SameCounts ==
    ASSUME UNCHANGED <<always, ever>>
    PROVE  \A r : CountOK(r)' <=> CountOK(r)
  BY DEF CountOK

LEMMA ReadRowInv == ASSUME LeasesInv, NEW row \in rows, ReadRow(row) PROVE LeasesInv'
<1>1. /\ step = "rows" /\ step' = "rows" /\ rows' = rows \ {row} /\ result' = Gathered(row)
      /\ UNCHANGED <<live, call, broken, always, ever>>
  BY DEF ReadRow
<1>2. Histories'
  BY <1>1 DEF LeasesInv, Histories, CallRuns
<1>3. /\ ever \in SUBSET Leases /\ always \in SUBSET Leases /\ Histories
  BY <1>1 DEF LeasesInv, Histories
<1>4. ASSUME call.kind # "subnets" PROVE ListOK'
  <2>1. FoundOf(always)' = FoundOf(always) /\ FoundOf(ever)' = FoundOf(ever) /\ Listed(call)'= Listed(call)
    BY <1>1, <1>4 DEF FoundOf, Listed
  <2>2. ListOK
    BY <1>1, <1>4 DEF LeasesInv
  <2>3. result' = IF Filter(call, row) THEN result \cup {row} ELSE result
    BY <1>1, <1>4 DEF Gathered
  <2>4. Filter(call, row) => row \in FoundOf(ever)
    BY <1>1, <1>3, <1>4, <2>2 DEF ListOK, FoundOf
  <2>5. FoundOf(always) = {l \in always : Where(call, l) /\ Filter(call, l)}
    BY <1>1, <1>3, <1>4 DEF FoundOf
  <2>6. broken \/ FoundOf(always) \subseteq result' \cup rows'
    BY <1>1, <2>2, <2>3, <2>5 DEF ListOK
  <2>q. QED  BY <1>1, <2>1, <2>2, <2>3, <2>4, <2>6 DEF ListOK
<1>5. ASSUME call.kind = "subnets" PROVE CountsOK'
  <2>1. CountsOK
    BY <1>1, <1>5 DEF LeasesInv
  <2>2. result' = {r \in result : r.subnet # row.subnet} \cup {row}
    BY <1>1, <1>5 DEF Gathered
  <2>3. \A r : CountOK(r)' <=> CountOK(r)
    BY <1>1, SameCounts
  <2>4. row.version = call.version
    BY <2>1 DEF CountsOK
  <2>5. call.version \in {4, 6} /\ \A l \in always : l.version \in {4, 6}
    BY <1>1, <1>3, <1>5, LeaseQueriesAssumption DEF Histories, CallRuns, Address
  <2>6. ASSUME NEW l \in always, ~broken, l.version < call.version \/ l.version = call.version
        PROVE  \E r \in result' \cup rows' : r.subnet = l.subnet /\ (l.version = 6 => r.version = 6)
    <3>1. PICK r \in result \cup rows : r.subnet = l.subnet /\ (l.version = 6 => r.version = 6)
      BY <1>1, <2>1, <2>6 DEF CountsOK
    <3>2. CASE r.subnet = row.subnet
      <4>1. l.version = 6 => row.version = 6
        BY <2>4, <2>5, <2>6
      <4>q. QED  BY <2>2, <3>1, <3>2, <4>1
    <3>3. CASE r.subnet # row.subnet
      BY <1>1, <2>2, <3>1, <3>3
    <3>q. QED  BY <3>2, <3>3
  <2>7. \A q, r \in result' : q.subnet = r.subnet => q = r
    BY <2>1, <2>2 DEF CountsOK
  <2>8. \A r \in result' \cup rows' : CountOK(r)
    BY <1>1, <2>1, <2>2 DEF CountsOK
  <2>9. /\ \A r \in rows' : r.version = call.version
        /\ \A q, r \in rows' : q.subnet = r.subnet => q = r
    BY <1>1, <2>1 DEF CountsOK
  <2>q. QED  BY <1>1, <2>3, <2>6, <2>7, <2>8, <2>9 DEF CountsOK
<1>q. QED  BY <1>1, <1>2, <1>4, <1>5 DEF LeasesInv

\* The rows end, all of them read or not.
LEMMA ExhaustedInv ==
    ASSUME LeasesInv, step = "rows", Exhausted, rows' = {},
           broken' = TRUE \/ (broken' = broken /\ rows = {}),
           UNCHANGED <<live, result, always, ever>>
    PROVE  LeasesInv'
<1>1. /\ step' \in {"query", "answered"}
      /\ call.kind = "subnets" /\ call.version = 4 => step' = "query" /\ call' = [call EXCEPT !.version = 6]
      /\ ~(call.kind = "subnets" /\ call.version = 4) => step' = "answered" /\ call' = call
  BY DEF Exhausted
<1>2. Histories /\ CallRuns
  BY DEF LeasesInv, Histories
<1>3. ASSUME call.kind # "subnets" PROVE LeasesInv'
  <2>1. call' = call /\ step' = "answered" /\ FoundOf(always)' = FoundOf(always) /\ FoundOf(ever)' = FoundOf(ever)
    BY <1>1, <1>3 DEF FoundOf
  <2>2. ListOK /\ Listed(call) /\ Listed(call)'
    BY <1>3, <2>1 DEF LeasesInv, ListOK, Listed
  <2>3. broken' \/ FoundOf(always) \subseteq result \cup rows'
    BY <2>2 DEF ListOK
  <2>4. ListOK'
    BY <2>1, <2>2, <2>3 DEF ListOK
  <2>5. Histories'
    BY <1>2, <2>1 DEF Histories, CallRuns
  <2>q. QED  BY <1>3, <2>1, <2>4, <2>5 DEF LeasesInv
<1>4. ASSUME call.kind = "subnets" PROVE LeasesInv'
  <2>1. PICK v \in {4, 6} : call = [kind |-> "subnets", version |-> v, count |-> TRUE]
    BY <1>2, <1>4 DEF CallRuns
  <2>2. /\ call' = [kind |-> "subnets", version |-> 6, count |-> TRUE]
        /\ step' = IF v = 4 THEN "query" ELSE "answered"
    BY <1>1, <1>4, <2>1
  <2>3. Histories'
    BY <1>2, <1>1, <2>2 DEF Histories, CallRuns
  <2>4. CountsOK
    BY <1>4 DEF LeasesInv
  <2>5. \A l \in always : l.version \in {4, 6}
    BY <1>2, LeaseQueriesAssumption DEF Histories, Address
  <2>6. ASSUME NEW l \in always, ~broken', l.version < 6 \/ (l.version = 6 /\ step' # "query")
        PROVE  \E r \in result : r.subnet = l.subnet /\ (l.version = 6 => r.version = 6)
    <3>1. l.version < v \/ l.version = v
      BY <2>2, <2>5, <2>6
    <3>2. \E r \in result \cup rows : r.subnet = l.subnet /\ (l.version = 6 => r.version = 6)
      BY <2>1, <2>4, <2>6, <3>1 DEF CountsOK
    <3>q. QED  BY <2>6, <3>2
  <2>7. \A r : CountOK(r)' <=> CountOK(r)
    BY SameCounts
  <2>8. (\A r \in result : CountOK(r)) /\ (\A q, r \in result : q.subnet = r.subnet => q = r)
    BY <2>4 DEF CountsOK
  <2>9. /\ step' = "query" /\ call'.version = 4 => result' = {}
        /\ step' = "answered" => call'.version = 6
        /\ call'.version = 6
    BY <2>2
  <2>10. CountsOK'
    BY <2>6, <2>7, <2>8, <2>9 DEF CountsOK
  <2>q. QED  BY <2>2, <2>3, <2>10 DEF LeasesInv
<1>q. QED  BY <1>3, <1>4

LEMMA RowsEndInv == ASSUME LeasesInv, RowsEnd \/ ConnectionBreaks PROVE LeasesInv'
<1>1. CASE RowsEnd
  BY <1>1, ExhaustedInv DEF RowsEnd
<1>2. CASE ConnectionBreaks
  BY <1>2, ExhaustedInv DEF ConnectionBreaks
<1>q. QED  BY <1>1, <1>2

LEMMA QueryFailsInv == ASSUME LeasesInv, QueryFails PROVE LeasesInv'
<1>1. /\ step' = "failed" /\ rows' = {} /\ result' = {} /\ step \in {"query", "rows"}
      /\ UNCHANGED <<live, call, broken, always, ever>>
  BY DEF QueryFails
<1>2. Histories'
  BY <1>1 DEF LeasesInv, Histories, CallRuns
<1>3. CountsOK' /\ ListOK'
  BY <1>1 DEF CountsOK, ListOK
<1>q. QED  BY <1>2, <1>3 DEF LeasesInv

LEMMA AnswerInv == ASSUME LeasesInv, Answer PROVE LeasesInv'
<1>1. step' = "idle" /\ result' = {} /\ broken' = FALSE /\ always' = {} /\ ever' = {}
      /\ rows' = rows /\ live' = live /\ step # "rows"
  BY DEF Answer
<1>2. Histories'
  BY <1>1 DEF LeasesInv, Histories
<1>q. QED  BY <1>1, <1>2 DEF LeasesInv

\* kea grants a lease, or ends one, while a call is served: more leases that
\* ever were, or fewer that always were.
LEMMA LeasesChange ==
    ASSUME LeasesInv, step \in {"query", "rows"},
           UNCHANGED <<call, step, rows, result, broken>>,
           live' \subseteq ever', ever \subseteq ever', ever' \subseteq Leases,
           always' \subseteq always, always' \subseteq live'
    PROVE  LeasesInv'
<1>1. Histories /\ ever \in SUBSET Leases /\ always \in SUBSET Leases
  BY DEF LeasesInv, Histories
<1>2. Histories'
  BY <1>1 DEF Histories, CallRuns
<1>3. ASSUME call.kind # "subnets" PROVE ListOK'
  <2>1. ListOK
    BY <1>3 DEF LeasesInv
  <2>2. FoundOf(ever) \subseteq FoundOf(ever)' /\ FoundOf(always)' \subseteq FoundOf(always)
    BY DEF FoundOf
  <2>q. QED  BY <2>1, <2>2 DEF ListOK, Listed
<1>4. ASSUME call.kind = "subnets" PROVE CountsOK'
  <2>1. CountsOK
    BY <1>4 DEF LeasesInv
  <2>2. ASSUME NEW r, CountOK(r) PROVE CountOK(r)'
    <3>1. /\ LeasesOf(always', r.version, r.subnet) \in SUBSET LeasesOf(always, r.version, r.subnet)
          /\ LeasesOf(ever, r.version, r.subnet) \in SUBSET LeasesOf(ever', r.version, r.subnet)
          /\ LeasesOf(always, r.version, r.subnet) \in SUBSET Leases
          /\ LeasesOf(ever', r.version, r.subnet) \in SUBSET Leases
      BY <1>1 DEF LeasesOf
    <3>2. /\ Cardinality(LeasesOf(always', r.version, r.subnet)) \in Nat
          /\ Cardinality(LeasesOf(always, r.version, r.subnet)) \in Nat
          /\ Cardinality(LeasesOf(ever, r.version, r.subnet)) \in Nat
          /\ Cardinality(LeasesOf(ever', r.version, r.subnet)) \in Nat
          /\ Cardinality(LeasesOf(always', r.version, r.subnet)) <= Cardinality(LeasesOf(always, r.version, r.subnet))
          /\ Cardinality(LeasesOf(ever, r.version, r.subnet)) <= Cardinality(LeasesOf(ever', r.version, r.subnet))
      BY <3>1, Fewer
    <3>q. QED  BY <2>2, <3>2 DEF CountOK
  <2>q. QED  BY <2>1, <2>2 DEF CountsOK
<1>q. QED  BY <1>2, <1>3, <1>4 DEF LeasesInv

LEMMA KeaInv ==
    ASSUME LeasesInv, NEW l \in Leases, LeaseGranted(l) \/ LeaseExpires(l)
    PROVE  LeasesInv'
<1>1. UNCHANGED <<call, step, rows, result, broken>> /\ step \in {"idle", "query", "rows"}
  BY DEF LeaseGranted, LeaseExpires, Goes
<1>2. CASE step = "idle"
  <2>1. live \subseteq Leases /\ always = {} /\ ever \subseteq Leases
    BY <1>2 DEF LeasesInv, Histories
  <2>2. live' \subseteq Leases /\ always' = {} /\ ever' \subseteq Leases
    BY <1>2, <2>1 DEF LeaseGranted, LeaseExpires
  <2>3. rows = {} /\ result = {} /\ broken = FALSE
    BY <1>2 DEF LeasesInv, Histories
  <2>4. rows' = {} /\ result' = {} /\ broken' = FALSE /\ step' = "idle"
    BY <1>1, <1>2, <2>3
  <2>5. Histories'
    BY <2>2, <2>4 DEF Histories
  <2>q. QED  BY <2>4, <2>5 DEF LeasesInv
<1>3. CASE step \in {"query", "rows"}
  <2>1. /\ live \subseteq ever /\ always \subseteq live /\ ever \subseteq Leases
    BY <1>3 DEF LeasesInv, Histories
  <2>2. /\ live' \subseteq ever' /\ ever \subseteq ever' /\ ever' \subseteq Leases
        /\ always' \subseteq always /\ always' \subseteq live'
    BY <1>3, <2>1 DEF LeaseGranted, LeaseExpires
  <2>q. QED  BY <1>1, <1>3, <2>2, LeasesChange
<1>q. QED  BY <1>1, <1>2, <1>3

\* Nothing is learnt while nothing happens.
LEMMA LeasesStutter == ASSUME LeasesInv, UNCHANGED leaseQueriesVars PROVE LeasesInv'
<1>1. UNCHANGED <<live, call, step, rows, result, broken, always, ever>>
  BY DEF leaseQueriesVars
<1>2. Histories'
  BY <1>1 DEF LeasesInv, Histories, CallRuns
<1>3. CountsOK => CountsOK'
  BY <1>1, SameCounts DEF CountsOK
<1>4. ListOK => ListOK'
  BY <1>1 DEF ListOK, Listed, FoundOf
<1>q. QED  BY <1>1, <1>2, <1>3, <1>4 DEF LeasesInv

\* Every step of a call and of the servers.
LEMMA LeasesStep == ASSUME LeasesInv, LeaseQueriesNext PROVE LeasesInv'
<1>1. CASE \E c \in Calls : Ask(c)
  BY <1>1, AskInv
<1>2. CASE \E row \in rows : ReadRow(row)
  BY <1>2, ReadRowInv
<1>3. CASE \E l \in Leases : LeaseGranted(l) \/ LeaseExpires(l)
  BY <1>3, KeaInv
<1>q. QED  BY <1>1, <1>2, <1>3, QueryInv, QueryRowInv, RowsEndInv, QueryFailsInv, AnswerInv
           DEF LeaseQueriesNext

\* What is answered lies between the leases always there and those ever there.
LEMMA ListsAreTruthful == LeasesInv => AnswersTruthful
<1> DEFINE found == IF Listed(call) THEN Cardinality(result) ELSE CHOOSE n \in result : TRUE
           sure == {l \in MeantOf(always) : l.address \notin AtBounds(call)}
<1> SUFFICES ASSUME LeasesInv, step = "answered", call.kind # "subnets", Understood(call)
             PROVE  /\ Listed(call) => result \subseteq MeantOf(ever) /\ (broken \/ sure \subseteq result)
                    /\ found <= Cardinality(MeantOf(ever))
                    /\ broken \/ Cardinality(sure) <= found
  BY DEF AnswersTruthful
<1>1. ListOK /\ rows = {} /\ ever \in SUBSET Leases /\ always \in SUBSET Leases /\ CallOK(call)
  BY DEF LeasesInv, Histories, CallRuns
<1>2. /\ FoundOf(ever) \in SUBSET MeantOf(ever) /\ sure \in SUBSET FoundOf(always)
      /\ FoundOf(always) \in SUBSET Leases /\ MeantOf(ever) \in SUBSET Leases
  BY <1>1, FoundIsMeant DEF FoundOf, MeantOf
<1>3. /\ Cardinality(FoundOf(ever)) <= Cardinality(MeantOf(ever))
      /\ Cardinality(sure) <= Cardinality(FoundOf(always))
      /\ Cardinality(FoundOf(ever)) \in Nat /\ Cardinality(MeantOf(ever)) \in Nat
      /\ Cardinality(sure) \in Nat /\ Cardinality(FoundOf(always)) \in Nat
  <2>1. FoundOf(ever) \in SUBSET Leases
    BY <1>2
  <2>q. QED  BY <1>2, <2>1, Fewer
<1>4. CASE Listed(call)
  <2>1. result \subseteq MeantOf(ever) /\ (broken \/ sure \subseteq result)
    BY <1>1, <1>2, <1>4 DEF ListOK
  <2>2. result \in SUBSET Leases
    BY <1>2, <2>1
  <2>3. Cardinality(result) <= Cardinality(MeantOf(ever))
    BY <1>2, <2>1, Fewer
  <2>4. broken \/ Cardinality(sure) <= Cardinality(result)
    BY <2>1, <2>2, Fewer
  <2>q. QED  BY <1>4, <2>1, <2>3, <2>4
<1>5. CASE ~Listed(call)
  <2>1. PICK n \in result : /\ n \in Nat /\ result = {n}
                            /\ Cardinality(FoundOf(always)) <= n /\ n <= Cardinality(FoundOf(ever))
    BY <1>1, <1>5 DEF ListOK
  <2>2. (CHOOSE m \in result : TRUE) = n
    BY <2>1
  <2>q. QED  BY <1>3, <1>5, <2>1, <2>2
<1>q. QED  BY <1>4, <1>5

LEMMA CountsAreTruthful == LeasesInv => SubnetCountsTruthful
<1> SUFFICES ASSUME LeasesInv, step = "answered", call.kind = "subnets"
             PROVE  /\ \A r \in result :
                          /\ r.count <= Cardinality(LeasesOf(ever, r.version, r.subnet))
                          /\ r.count >= Cardinality(LeasesOf(always, r.version, r.subnet))
                    /\ \A l \in always :
                          \/ broken
                          \/ \E r \in result : r.subnet = l.subnet /\ (l.version = 6 => r.version = 6)
                    /\ \A q, r \in result : q.subnet = r.subnet => q = r
  BY DEF SubnetCountsTruthful, LeasesOf
<1>1. CountsOK /\ rows = {} /\ ever \in SUBSET Leases /\ always \in SUBSET Leases /\ call.version = 6
  BY DEF LeasesInv, Histories, CountsOK
<1>2. ASSUME NEW r \in result
      PROVE  /\ r.count <= Cardinality(LeasesOf(ever, r.version, r.subnet))
             /\ r.count >= Cardinality(LeasesOf(always, r.version, r.subnet))
  <2>1. LeasesOf(ever, r.version, r.subnet) \in SUBSET Leases
        /\ LeasesOf(always, r.version, r.subnet) \in SUBSET Leases
    BY <1>1 DEF LeasesOf
  <2>2. Cardinality(LeasesOf(ever, r.version, r.subnet)) \in Nat
        /\ Cardinality(LeasesOf(always, r.version, r.subnet)) \in Nat
    BY <2>1, Fewer
  <2>q. QED  BY <1>1, <2>2 DEF CountsOK, CountOK
<1>3. \A l \in always : l.version \in {4, 6}
  BY <1>1, LeaseQueriesAssumption DEF Address
<1>4. \A l \in always : l.version < 6 \/ l.version = 6
  BY <1>3
<1>5. \A l \in always : \/ broken
                        \/ \E r \in result : r.subnet = l.subnet /\ (l.version = 6 => r.version = 6)
  BY <1>1, <1>4 DEF CountsOK
<1>q. QED  BY <1>1, <1>2, <1>5 DEF CountsOK

\* So it is in every state.
LEMMA LeasesInvariant == ObserversSpec => []LeasesInv
<1>1. ObserversInit => LeasesInv
  BY LeasesInit DEF ObserversInit
<1>2. LeasesInv /\ [ObserversNext]_observersVars => LeasesInv'
  BY LeasesStep, LeasesStutter DEF ObserversNext, observersVars
<1>q. QED  BY <1>1, <1>2, PTL DEF ObserversSpec

\* A list of leases, and a count of them, lie between the leases there were all
\* through the call and those there were at some time of it, for any leases and
\* any pool, whatever kea does meanwhile; unless the connection broke
\* (dhcphandler.go:1081-1290, util.go:35-55).
THEOREM AnswersAreTruthful == ObserversSpec => []AnswersTruthful
  BY LeasesInvariant, ListsAreTruthful, PTL

\* So do the counts of all subnets, of which none is listed twice although a
\* subnet of v4 and one of v6 may have the same number (dhcphandler.go:1125-1159).
THEOREM SubnetCountsAreTruthful == ObserversSpec => []SubnetCountsTruthful
  BY LeasesInvariant, CountsAreTruthful, PTL

-----------------------------------------------------------------------------
(* Sums over a set.                                                        *)

\* One step of a sum over a set, and a function that takes it everywhere.
Step(f, g, s) == IF s = {} THEN 0 ELSE f[CHOOSE x \in s : TRUE] + g[s \ {CHOOSE x \in s : TRUE}]

Sums(f, g, S) == g = [s \in SUBSET S |-> Step(f, g, s)]

SumOf(f, S) == (CHOOSE g : Sums(f, g, S))[S]

\* Induction over the subsets of a finite set.
LEMMA SubsetInduction ==
    ASSUME NEW S, IsFiniteSet(S), NEW P, {} \in P,
           \A T \in SUBSET S : T # {} /\ (\A x \in T : T \ {x} \in P) => T \in P
    PROVE  \A T \in SUBSET S : T \in P
<1> DEFINE Bad == {Cardinality(T) : T \in (SUBSET S) \ P}
<1>1. \A T \in SUBSET S : IsFiniteSet(T) /\ Cardinality(T) \in Nat
  BY FS_Subset, FS_CardinalityType
<1>2. Bad \in SUBSET Nat
  BY <1>1
<1>3. \A T \in SUBSET S : T \notin P => Cardinality(T) \in Bad
  OBVIOUS
<1>4. \A n \in Bad : \E T \in SUBSET S : T \notin P /\ n = Cardinality(T)
  OBVIOUS
<1> HIDE DEF Bad
<1>5. ASSUME Bad # {} PROVE FALSE
  <2>1. PICK n \in Bad : \A m \in Bad : ~ (<<m, n>> \in OpToRel(<, Nat))
    BY <1>2, <1>5, NatLessThanWellFounded, WFMin
  <2>2. \A m \in Bad : n <= m
    <3>1. SUFFICES ASSUME NEW m \in Bad, m < n PROVE FALSE
      BY <1>2
    <3>2. <<m, n>> \in Nat \X Nat /\ <<m, n>>[1] = m /\ <<m, n>>[2] = n
      BY <1>2
    <3>3. <<m, n>> \in OpToRel(<, Nat)
      BY <3>1, <3>2 DEF OpToRel
    <3>q. QED  BY <2>1, <3>3
  <2>3. PICK T \in SUBSET S : T \notin P /\ n = Cardinality(T)
    BY <1>4
  <2>4. ASSUME NEW x \in T PROVE T \ {x} \in P
    <3>1. Cardinality(T \ {x}) = Cardinality(T) - 1 /\ T \ {x} \in SUBSET S
      BY <1>1, FS_RemoveElement
    <3>2. Cardinality(T) \in Nat
      BY <1>1
    <3>3. ~(n <= Cardinality(T \ {x}))
      BY <2>3, <3>1, <3>2
    <3>q. QED  BY <1>3, <2>2, <3>1, <3>3
  <2>q. QED  BY <2>3, <2>4
<1>q. QED  BY <1>3, <1>5

\* Two such functions agree on the sets they both sum over.
LEMMA SumsAgree ==
    ASSUME NEW f, NEW S, NEW T, NEW g, NEW h, Sums(f, g, S), Sums(f, h, T),
           NEW U \in SUBSET (S \cap T), IsFiniteSet(U)
    PROVE  g[U] = h[U]
<1> DEFINE P == {V \in SUBSET U : g[V] = h[V]}
<1>1. \A V \in SUBSET U : g[V] = Step(f, g, V) /\ h[V] = Step(f, h, V)
  BY DEF Sums
<1>2. {} \in P
  BY <1>1 DEF Step
<1>3. ASSUME NEW V \in SUBSET U, V # {}, \A x \in V : V \ {x} \in P
      PROVE  V \in P
  <2>1. (CHOOSE x \in V : TRUE) \in V
    BY <1>3
  <2>q. QED  BY <1>1, <1>3, <2>1 DEF Step
<1> HIDE DEF P
<1>4. U \in P
  BY <1>2, <1>3, SubsetInduction
<1>q. QED  BY <1>4 DEF P

\* There is one for every finite set.
LEMMA SumsExist ==
    ASSUME NEW f, NEW S, IsFiniteSet(S)
    PROVE  \A T \in SUBSET S : \E g : Sums(f, g, T)
<1> DEFINE P == {T \in SUBSET S : \E g : Sums(f, g, T)}
           G(T) == CHOOSE g : Sums(f, g, T)
<1>1. \A T \in P : Sums(f, G(T), T)
  OBVIOUS
<1>2. {} \in P
  <2>1. Sums(f, [s \in SUBSET {} |-> 0], {})
    BY DEF Sums, Step
  <2>q. QED  BY <2>1
<1>3. ASSUME NEW T \in P, NEW U \in SUBSET T PROVE U \in P
  <2>1. Sums(f, G(T), T)
    BY <1>1
  <2> DEFINE h == [s \in SUBSET U |-> G(T)[s]]
  <2>2. ASSUME NEW s \in SUBSET U PROVE h[s] = Step(f, h, s)
    <3>1. G(T)[s] = Step(f, G(T), s)
      BY <2>1 DEF Sums
    <3>2. s # {} => s \ {CHOOSE x \in s : TRUE} \in SUBSET U
      OBVIOUS
    <3>q. QED  BY <3>1, <3>2 DEF Step
  <2>3. Sums(f, h, U)
    BY <2>2 DEF Sums
  <2>q. QED  BY <2>3
<1>4. ASSUME NEW T \in SUBSET S, T # {}, \A x \in T : T \ {x} \in P
      PROVE  T \in P
  <2> DEFINE c == CHOOSE x \in T : TRUE
             h == [s \in SUBSET T |-> IF s = T THEN f[c] + G(T \ {c})[T \ {c}] ELSE G(s)[s]]
  <2>1. c \in T
    BY <1>4
  <2>2. \A s \in SUBSET T : s # T => s \in P
    <3> SUFFICES ASSUME NEW s \in SUBSET T, s # T PROVE s \in P
      OBVIOUS
    <3>1. PICK x \in T : x \notin s
      OBVIOUS
    <3>2. s \in SUBSET (T \ {x}) /\ T \ {x} \in P
      BY <1>4, <3>1
    <3> HIDE DEF P
    <3>q. QED  BY <1>3, <3>2
  <2>3. ASSUME NEW s \in SUBSET T PROVE h[s] = Step(f, h, s)
    <3>1. CASE s = T
      BY <2>1, <3>1, <1>4 DEF Step
    <3>2. CASE s # T /\ s = {}
      BY <1>1, <2>2, <3>2 DEF Step, Sums
    <3>3. CASE s # T /\ s # {}
      <4> DEFINE d == CHOOSE x \in s : TRUE
      <4>1. d \in s /\ s \ {d} \in SUBSET T /\ s \ {d} # T /\ s \in P
        BY <2>2, <3>3
      <4>2. Sums(f, G(s), s) /\ Sums(f, G(s \ {d}), s \ {d}) /\ IsFiniteSet(s \ {d})
        <5>1. s \ {d} \in P /\ s \ {d} \in SUBSET S
          BY <2>2, <4>1
        <5>q. QED  BY <1>1, <4>1, <5>1, FS_Subset
      <4>3. G(s)[s \ {d}] = G(s \ {d})[s \ {d}]
        BY <4>1, <4>2, SumsAgree
      <4>4. h[s] = G(s)[s] /\ G(s)[s] = Step(f, G(s), s) /\ h[s \ {d}] = G(s \ {d})[s \ {d}]
        BY <3>3, <4>1, <4>2 DEF Sums
      <4>q. QED  BY <3>3, <4>3, <4>4 DEF Step
    <3>q. QED  BY <3>1, <3>2, <3>3
  <2>4. Sums(f, h, T)
    BY <2>3 DEF Sums
  <2>q. QED  BY <2>4
<1>5. \A T \in SUBSET S : T \in P
  <2> HIDE DEF P
  <2>q. QED  BY <1>2, <1>4, SubsetInduction
<1>q. QED  BY <1>5

\* A sum, one element at a time.
LEMMA SumStep ==
    ASSUME NEW f, NEW S, IsFiniteSet(S)
    PROVE  /\ SumOf(f, {}) = 0
           /\ S # {} => \E x \in S : x = (CHOOSE y \in S : TRUE)
                                     /\ SumOf(f, S) = f[x] + SumOf(f, S \ {x})
<1> DEFINE G(T) == CHOOSE g : Sums(f, g, T)
<1>1. \A T \in SUBSET S : Sums(f, G(T), T)
  BY SumsExist
<1>2. \A T \in SUBSET S : SumOf(f, T) = G(T)[T] /\ G(T)[T] = Step(f, G(T), T)
  BY <1>1 DEF SumOf, Sums
<1>3. SumOf(f, {}) = 0
  BY <1>2 DEF Step
<1>4. ASSUME NEW x \in S, x = (CHOOSE y \in S : TRUE)
      PROVE  SumOf(f, S) = f[x] + SumOf(f, S \ {x})
  <2>1. S \ {x} \in SUBSET S /\ S \ {x} \in SUBSET (S \cap (S \ {x})) /\ IsFiniteSet(S \ {x})
    BY FS_Subset
  <2>2. G(S)[S \ {x}] = G(S \ {x})[S \ {x}]
    BY <1>1, <2>1, SumsAgree
  <2>3. G(S)[S] = f[x] + G(S)[S \ {x}]
    BY <1>2, <1>4 DEF Step
  <2>q. QED  BY <1>2, <2>1, <2>2, <2>3
<1>q. QED  BY <1>3, <1>4

\* A sum of natural numbers is one, and zero if they are.
LEMMA SumType ==
    ASSUME NEW f, NEW S, IsFiniteSet(S), \A x \in S : f[x] \in Nat
    PROVE  SumOf(f, S) \in Nat
<1> DEFINE P == {T \in SUBSET S : SumOf(f, T) \in Nat}
<1>1. {} \in P
  BY SumStep, FS_EmptySet
<1>2. ASSUME NEW T \in SUBSET S, T # {}, \A x \in T : T \ {x} \in P
      PROVE  T \in P
  <2>0. IsFiniteSet(T)
    BY FS_Subset
  <2>1. PICK x \in T : SumOf(f, T) = f[x] + SumOf(f, T \ {x})
    BY <1>2, <2>0, SumStep
  <2>2. f[x] \in Nat /\ SumOf(f, T \ {x}) \in Nat
    BY <1>2
  <2>q. QED  BY <2>1, <2>2
<1> HIDE DEF P
<1>3. \A T \in SUBSET S : T \in P
  BY <1>1, <1>2, SubsetInduction
<1>4. S \in P
  BY <1>3
<1>q. QED  BY <1>4 DEF P

-----------------------------------------------------------------------------
(* The ratios.                                                             *)

\* Of naturals, what is left of a common factor.
LEMMA Cancel ==
    ASSUME NEW x \in Nat, NEW y \in Nat, NEW q \in Nat \ {0}, x * q <= y * q
    PROVE  x <= y
<1>1. CASE y < x
  <2>1. y + 1 <= x /\ (y + 1) * q <= x * q
    BY <1>1
  <2>2. (y + 1) * q = y * q + q
    OBVIOUS
  <2>3. x * q \in Nat /\ y * q \in Nat
    OBVIOUS
  <2>q. QED  BY <2>1, <2>2, <2>3
<1>q. QED  BY <1>1

\* What is used of products, since the provers know little of them.
LEMMA Products ==
    \A x, y, z \in Nat : /\ x * y \in Nat /\ x * y = y * x /\ x * (y * z) = (x * y) * z
                         /\ x * (y + z) = x * y + x * z /\ (y + z) * x = y * x + z * x
                         /\ y <= z => x * y <= x * z
  OBVIOUS

\* Between two fractions lies that of the sums of their terms: if r of t is no
\* more than b of q, then it or a of p is no more than a + b of p + q.
LEMMA Lower ==
    ASSUME NEW a \in Nat, NEW p \in Nat, NEW b \in Nat, NEW q \in Nat \ {0}, NEW r \in Nat, NEW t \in Nat,
           r * q <= b * t
    PROVE  a * (p + q) <= (a + b) * p \/ r * (p + q) <= (a + b) * t
<1>1. CASE a * q <= b * p
  <2>1. a * (p + q) = a * p + a * q /\ (a + b) * p = a * p + b * p
    BY Products
  <2>2. a * p \in Nat /\ a * q \in Nat /\ b * p \in Nat
    BY Products
  <2>q. QED  BY <1>1, <2>1, <2>2
<1>2. CASE b * p <= a * q
  <2>1. p * (r * q) <= p * (b * t) /\ t * (b * p) <= t * (a * q)
    BY <1>2, Products
  <2>2. p * (r * q) = (r * p) * q /\ t * (a * q) = (a * t) * q /\ p * (b * t) = t * (b * p)
    BY Products
  <2>3. (r * p) * q \in Nat /\ (a * t) * q \in Nat /\ p * (b * t) \in Nat
    BY Products
  <2>4. (r * p) * q <= (a * t) * q
    BY <2>1, <2>2, <2>3
  <2>5. r * p \in Nat /\ a * t \in Nat
    BY Products
  <2>6. r * p <= a * t
    BY <2>4, <2>5, Cancel
  <2>7. r * (p + q) = r * p + r * q /\ (a + b) * t = a * t + b * t
    BY Products
  <2>8. r * q \in Nat /\ b * t \in Nat
    BY Products
  <2>q. QED  BY <2>5, <2>6, <2>7, <2>8
<1>3. a * q \in Nat /\ b * p \in Nat
  BY Products
<1>q. QED  BY <1>1, <1>2, <1>3

\* A mediant is at most the larger of two ratios.
LEMMA Upper ==
    ASSUME NEW a \in Nat, NEW p \in Nat, NEW b \in Nat, NEW q \in Nat \ {0}, NEW r \in Nat, NEW t \in Nat,
           b * t <= r * q
    PROVE  (a + b) * p <= a * (p + q) \/ (a + b) * t <= r * (p + q)
<1>1. CASE b * p <= a * q
  <2>1. a * (p + q) = a * p + a * q /\ (a + b) * p = a * p + b * p
    BY Products
  <2>2. a * p \in Nat /\ a * q \in Nat /\ b * p \in Nat
    BY Products
  <2>q. QED  BY <1>1, <2>1, <2>2
<1>2. CASE a * q <= b * p
  <2>1. p * (b * t) <= p * (r * q) /\ t * (a * q) <= t * (b * p)
    BY <1>2, Products
  <2>2. p * (r * q) = (r * p) * q /\ t * (a * q) = (a * t) * q /\ p * (b * t) = t * (b * p)
    BY Products
  <2>3. (r * p) * q \in Nat /\ (a * t) * q \in Nat /\ p * (b * t) \in Nat
    BY Products
  <2>4. (a * t) * q <= (r * p) * q
    BY <2>1, <2>2, <2>3
  <2>5. r * p \in Nat /\ a * t \in Nat
    BY Products
  <2>6. a * t <= r * p
    BY <2>4, <2>5, Cancel
  <2>7. r * (p + q) = r * p + r * q /\ (a + b) * t = a * t + b * t
    BY Products
  <2>8. r * q \in Nat /\ b * t \in Nat
    BY Products
  <2>q. QED  BY <2>5, <2>6, <2>7, <2>8
<1>3. a * q \in Nat /\ b * p \in Nat
  BY Products
<1>q. QED  BY <1>1, <1>2, <1>3

\* Fractions h of h + m, and that of their sums over T.
AllBetween(h, m, T) ==
    LET H == SumOf(h, T)
        M == SumOf(m, T)
    IN  /\ H \in Nat /\ M \in Nat
        /\ H + M = 0 => \A v \in T : h[v] + m[v] = 0
        /\ H + M # 0 =>
              /\ \E v \in T : h[v] + m[v] # 0 /\ h[v] * (H + M) <= H * (h[v] + m[v])
              /\ \E v \in T : h[v] + m[v] # 0 /\ H * (h[v] + m[v]) <= h[v] * (H + M)

\* One fraction more.
LEMMA OneMore ==
    ASSUME NEW h, NEW m, NEW T, NEW x \in T, \A v \in T : h[v] \in Nat /\ m[v] \in Nat,
           SumOf(h, T) = h[x] + SumOf(h, T \ {x}), SumOf(m, T) = m[x] + SumOf(m, T \ {x}),
           AllBetween(h, m, T \ {x})
    PROVE  AllBetween(h, m, T)
<1> DEFINE R == T \ {x}
<1>1. PICK a \in Nat, p \in Nat : a = h[x] /\ p = h[x] + m[x] /\ a <= p
  OBVIOUS
<1>2. PICK b \in Nat, q \in Nat : b = SumOf(h, R) /\ q = SumOf(h, R) + SumOf(m, R) /\ b <= q
  BY DEF AllBetween
<1>3. /\ SumOf(h, T) = a + b /\ SumOf(h, T) + SumOf(m, T) = p + q
      /\ SumOf(h, T) \in Nat /\ SumOf(m, T) \in Nat
  BY <1>1, <1>2 DEF AllBetween
<1>4. /\ q = 0 => \A v \in R : h[v] + m[v] = 0
      /\ q # 0 => /\ \E v \in R : h[v] + m[v] # 0 /\ h[v] * q <= b * (h[v] + m[v])
                  /\ \E v \in R : h[v] + m[v] # 0 /\ b * (h[v] + m[v]) <= h[v] * q
  BY <1>2 DEF AllBetween
<1>5. ASSUME p + q = 0, NEW v \in T
      PROVE  h[v] + m[v] = 0
  <2>1. p = 0 /\ q = 0
    BY <1>5
  <2>2. v = x \/ v \in R
    OBVIOUS
  <2>3. CASE v = x
    BY <1>1, <2>1, <2>3
  <2>4. CASE v \in R
    BY <1>4, <2>1, <2>4
  <2>q. QED  BY <2>2, <2>3, <2>4
<1>6. ASSUME p + q # 0
      PROVE  \E v \in T : h[v] + m[v] # 0 /\ h[v] * (p + q) <= (a + b) * (h[v] + m[v])
  <2>1. CASE q = 0
    <3>1. b = 0 /\ p # 0
      BY <1>2, <1>6, <2>1
    <3>2. a * (p + q) <= (a + b) * p
      BY <2>1, <3>1
    <3>q. QED  BY <1>1, <3>1, <3>2
  <2>2. CASE q # 0
    <3>1. PICK v \in R : h[v] + m[v] # 0 /\ h[v] * q <= b * (h[v] + m[v])
      BY <1>4, <2>2
    <3>2. PICK r \in Nat, t \in Nat : r = h[v] /\ t = h[v] + m[v]
      OBVIOUS
    <3>3. p = 0 => a = 0 /\ r * (p + q) <= (a + b) * t
      BY <1>1, <3>1, <3>2
    <3>4. a * (p + q) <= (a + b) * p \/ r * (p + q) <= (a + b) * t
      BY <2>2, <3>1, <3>2, Lower
    <3>5. CASE r * (p + q) <= (a + b) * t
      BY <3>1, <3>2, <3>5
    <3>6. CASE p # 0 /\ a * (p + q) <= (a + b) * p
      BY <1>1, <3>6
    <3>q. QED  BY <3>3, <3>4, <3>5, <3>6
  <2>q. QED  BY <2>1, <2>2
<1>7. ASSUME p + q # 0
      PROVE  \E v \in T : h[v] + m[v] # 0 /\ (a + b) * (h[v] + m[v]) <= h[v] * (p + q)
  <2>1. CASE q = 0
    <3>1. b = 0 /\ p # 0
      BY <1>2, <1>7, <2>1
    <3>2. (a + b) * p <= a * (p + q)
      BY <2>1, <3>1
    <3>q. QED  BY <1>1, <3>1, <3>2
  <2>2. CASE q # 0
    <3>1. PICK v \in R : h[v] + m[v] # 0 /\ b * (h[v] + m[v]) <= h[v] * q
      BY <1>4, <2>2
    <3>2. PICK r \in Nat, t \in Nat : r = h[v] /\ t = h[v] + m[v]
      OBVIOUS
    <3>3. p = 0 => a = 0 /\ (a + b) * t <= r * (p + q)
      BY <1>1, <3>1, <3>2
    <3>4. (a + b) * p <= a * (p + q) \/ (a + b) * t <= r * (p + q)
      BY <2>2, <3>1, <3>2, Upper
    <3>5. CASE (a + b) * t <= r * (p + q)
      BY <3>1, <3>2, <3>5
    <3>6. CASE p # 0 /\ (a + b) * p <= a * (p + q)
      BY <1>1, <3>6
    <3>q. QED  BY <3>3, <3>4, <3>5, <3>6
  <2>q. QED  BY <2>1, <2>2
<1>q. QED  BY <1>3, <1>5, <1>6, <1>7 DEF AllBetween

\* The sums of two functions are in a ratio between those of their values.
LEMMA SumsBetween ==
    ASSUME NEW S, IsFiniteSet(S), NEW h, NEW m, \A v \in S : h[v] \in Nat /\ m[v] \in Nat
    PROVE  AllBetween(h, m, S)
<1> DEFINE P == {T \in SUBSET S : AllBetween(h, m, T)}
<1>1. {} \in P
  <2>1. SumOf(h, {}) = 0 /\ SumOf(m, {}) = 0
    BY SumStep, FS_EmptySet
  <2>2. AllBetween(h, m, {})
    BY <2>1 DEF AllBetween
  <2>q. QED  BY <2>2
<1>2. ASSUME NEW T \in SUBSET S, T # {}, \A x \in T : T \ {x} \in P
      PROVE  T \in P
  <2>1. IsFiniteSet(T)
    BY FS_Subset
  <2> DEFINE x == CHOOSE y \in T : TRUE
  <2>2. /\ x \in T
        /\ SumOf(h, T) = h[x] + SumOf(h, T \ {x})
        /\ SumOf(m, T) = m[x] + SumOf(m, T \ {x})
    <3>1. /\ \E y \in T : y = x /\ SumOf(h, T) = h[y] + SumOf(h, T \ {y})
          /\ \E y \in T : y = x /\ SumOf(m, T) = m[y] + SumOf(m, T \ {y})
      BY <1>2, <2>1, SumStep
    <3>q. QED  BY <3>1
  <2> HIDE DEF x
  <2>3. AllBetween(h, m, T \ {x})
    BY <1>2, <2>2
  <2>4. AllBetween(h, m, T)
    BY <2>2, <2>3, OneMore
  <2>q. QED  BY <2>4
<1> HIDE DEF P
<1>3. \A T \in SUBSET S : T \in P
  BY <1>1, <1>2, SubsetInduction
<1>4. S \in P
  BY <1>3
<1>q. QED  BY <1>4 DEF P

\* The total of the caches is the sum over the views.
LEMMA TotalIsSum == \A f : Total(f) = SumOf(f, Views)
  BY DEF MapThenSumSet, MapThenFoldSet, SumOf, Sums, Step, Total

\* The overall ratio lies between those of the views.
LEMMA OverallBetween ==
    ASSUME NEW h \in [Views -> 0 .. MaxCached], NEW m \in [Views -> 0 .. MaxCached]
    PROVE  /\ ViewRatios(h, m) = {} <=> Overall(h, m) = {}
           /\ \A o \in Overall(h, m) :
                  /\ \E r \in ViewRatios(h, m) : Leq(r, o)
                  /\ \E r \in ViewRatios(h, m) : Leq(o, r)
<1>1. /\ \A v \in Views : h[v] \in Nat /\ m[v] \in Nat
      /\ IsFiniteSet(Views)
  BY DnsCollectorAssumption
<1>2. AllBetween(h, m, Views)
  BY <1>1, SumsBetween
<1>3. PICK H \in Nat, M \in Nat : H = Total(h) /\ M = Total(m)
  BY <1>2, TotalIsSum DEF AllBetween
<1>4. /\ H + M = 0 => \A v \in Views : h[v] + m[v] = 0
      /\ H + M # 0 =>
            /\ \E v \in Views : h[v] + m[v] # 0 /\ h[v] * (H + M) <= H * (h[v] + m[v])
            /\ \E v \in Views : h[v] + m[v] # 0 /\ H * (h[v] + m[v]) <= h[v] * (H + M)
  BY <1>2, <1>3, TotalIsSum DEF AllBetween
<1>5. CASE H + M = 0
  <2>1. ViewRatios(h, m) = {}
    BY <1>4, <1>5 DEF ViewRatios
  <2>2. Overall(h, m) = {}
    BY <1>3, <1>5 DEF Overall
  <2>q. QED  BY <2>1, <2>2
<1>6. CASE H + M # 0
  <2>1. Overall(h, m) = {<<H, H + M>>}
    BY <1>3, <1>6 DEF Overall
  <2>2. \A v \in Views : h[v] + m[v] # 0 => <<h[v], h[v] + m[v]>> \in ViewRatios(h, m)
    BY DEF ViewRatios
  <2>3. \E r \in ViewRatios(h, m) : Leq(r, <<H, H + M>>)
    BY <1>4, <1>6, <2>2 DEF Leq
  <2>4. \E r \in ViewRatios(h, m) : Leq(<<H, H + M>>, r)
    BY <1>4, <1>6, <2>2 DEF Leq
  <2>q. QED  BY <2>1, <2>3, <2>4
<1>q. QED  BY <1>5, <1>6

\* A scrape weighs the ratios; the other steps leave none to weigh.
LEMMA RatiosStep == ASSUME RatiosWeighed, DnsCollectorNext \/ UNCHANGED dnsCollectorVars PROVE RatiosWeighed'
<1>1. CASE Queried \/ TimePasses \/ NamedRestarts \/ Sample \/ SampleUnlisted
  <2>1. scraped' = Nothing
    BY <1>1 DEF Queried, TimePasses, NamedRestarts, Sample, SampleUnlisted
  <2>q. QED  BY <2>1 DEF RatiosWeighed, Nothing
<1>2. ASSUME NEW h \in [Views -> 0 .. MaxCached], NEW m \in [Views -> 0 .. MaxCached], Collect(h, m)
      PROVE  RatiosWeighed'
  <2>1. \/ scraped' = Nothing
        \/ scraped'.ratio = ViewRatios(h, m) /\ scraped'.overall = Overall(h, m)
    BY <1>2 DEF Collect
  <2>2. CASE scraped' = Nothing
    BY <2>2 DEF RatiosWeighed, Nothing
  <2>3. CASE scraped'.ratio = ViewRatios(h, m) /\ scraped'.overall = Overall(h, m)
    BY <2>3, OverallBetween DEF RatiosWeighed
  <2>q. QED  BY <2>1, <2>2, <2>3
<1>3. CASE UNCHANGED dnsCollectorVars
  BY <1>3 DEF RatiosWeighed, dnsCollectorVars
<1>q. QED  BY <1>1, <1>2, <1>3 DEF DnsCollectorNext

\* The overall ratio of cache hits that is exported lies between those of the
\* views, for any number of views and whatever they counted, and is there when
\* one of theirs is (dnscollector.go:151-198).
THEOREM RatiosAreWeighed == ObserversSpec => []RatiosWeighed
<1>1. ObserversInit => RatiosWeighed
  BY DEF ObserversInit, DnsCollectorInit, RatiosWeighed, Nothing
<1>2. RatiosWeighed /\ [ObserversNext]_observersVars => RatiosWeighed'
  BY RatiosStep DEF ObserversNext, observersVars
<1>q. QED  BY <1>1, <1>2, PTL DEF ObserversSpec

-----------------------------------------------------------------------------
(* Sums, in any order.                                                     *)

\* A sum is the same whichever element is added last.
LEMMA SumAny ==
    ASSUME NEW f, NEW S, IsFiniteSet(S), \A v \in S : f[v] \in Nat, NEW x \in S
    PROVE  SumOf(f, S) = f[x] + SumOf(f, S \ {x})
<1> DEFINE P == {T \in SUBSET S : \A y \in T : SumOf(f, T) = f[y] + SumOf(f, T \ {y})}
<1>1. {} \in P
  OBVIOUS
<1>2. ASSUME NEW T \in SUBSET S, T # {}, \A y \in T : T \ {y} \in P
      PROVE  T \in P
  <2> DEFINE c == CHOOSE y \in T : TRUE
  <2>1. IsFiniteSet(T)
    BY FS_Subset
  <2>2. c \in T /\ SumOf(f, T) = f[c] + SumOf(f, T \ {c})
    <3>1. \E y \in T : y = c /\ SumOf(f, T) = f[y] + SumOf(f, T \ {y})
      BY <1>2, <2>1, SumStep
    <3>q. QED  BY <3>1
  <2> HIDE DEF c
  <2>3. ASSUME NEW y \in T PROVE SumOf(f, T) = f[y] + SumOf(f, T \ {y})
    <3>1. CASE y = c
      BY <2>2, <3>1
    <3>2. CASE y # c
      <4> DEFINE R == (T \ {c}) \ {y}
      <4>1. SumOf(f, T \ {c}) = f[y] + SumOf(f, R)
        BY <1>2, <2>2, <3>2
      <4>2. SumOf(f, T \ {y}) = f[c] + SumOf(f, R)
        <5>1. R = (T \ {y}) \ {c}
          OBVIOUS
        <5>2. T \ {y} \in P /\ c \in T \ {y}
          BY <1>2, <2>2, <3>2
        <5>q. QED  BY <5>1, <5>2
      <4>3. f[y] \in Nat /\ f[c] \in Nat /\ SumOf(f, R) \in Nat
        <5>1. IsFiniteSet(R) /\ \A v \in R : f[v] \in Nat
          BY <2>1, FS_Subset
        <5>q. QED  BY <2>2, <5>1, SumType
      <4> HIDE DEF R
      <4>q. QED  BY <2>2, <4>1, <4>2, <4>3
    <3>q. QED  BY <3>1, <3>2
  <2>q. QED  BY <2>3
<1> HIDE DEF P
<1>3. \A T \in SUBSET S : T \in P
  BY <1>1, <1>2, SubsetInduction
<1>4. S \in P
  BY <1>3
<1>q. QED  BY <1>4 DEF P

\* It depends on the terms alone, and not on what they are the terms of.
LEMMA SumMapped ==
    ASSUME NEW f, NEW h, NEW m, NEW S, IsFiniteSet(S),
           \A v \in S : h[v] \in Nat /\ f[m[v]] = h[v],
           \A v, w \in S : m[v] = m[w] => v = w
    PROVE  SumOf(f, {m[v] : v \in S}) = SumOf(h, S)
<1> DEFINE Of(T) == {m[v] : v \in T}
           P == {T \in SUBSET S : SumOf(f, Of(T)) = SumOf(h, T)}
<1>1. {} \in P
  <2>1. Of({}) = {} /\ SumOf(f, {}) = 0 /\ SumOf(h, {}) = 0
    BY SumStep, FS_EmptySet
  <2>q. QED  BY <2>1
<1>2. ASSUME NEW T \in SUBSET S, T # {}, \A x \in T : T \ {x} \in P
      PROVE  T \in P
  <2>1. IsFiniteSet(T)
    BY FS_Subset
  <2>2. PICK x : x \in T
    BY <1>2
  <2>3. SumOf(h, T) = h[x] + SumOf(h, T \ {x})
    BY <2>1, <2>2, SumAny
  <2>4. IsFiniteSet(Of(T))
    <3> DEFINE n == [v \in T |-> m[v]]
    <3>1. n \in Surjection(T, Of(T))
      BY DEF Surjection
    <3> HIDE DEF n
    <3>q. QED  BY <2>1, <3>1, FS_Surjection
  <2>5. m[x] \in Of(T) /\ \A v \in Of(T) : f[v] \in Nat
    BY <2>2
  <2>6. Of(T) \ {m[x]} = Of(T \ {x})
    BY <2>2
  <2>7. SumOf(f, Of(T)) = f[m[x]] + SumOf(f, Of(T) \ {m[x]})
    <3> HIDE DEF Of
    <3>q. QED  BY <2>4, <2>5, SumAny
  <2>8. SumOf(f, Of(T \ {x})) = SumOf(h, T \ {x})
    BY <1>2, <2>2
  <2>q. QED  BY <2>2, <2>3, <2>6, <2>7, <2>8
<1> HIDE DEF P
<1>3. \A T \in SUBSET S : T \in P
  BY <1>1, <1>2, SubsetInduction
<1>4. S \in P
  BY <1>3
<1>q. QED  BY <1>4 DEF P

\* Functions that agree on a set have the same sum over it.
LEMMA SumSame ==
    ASSUME NEW f, NEW h, NEW S, IsFiniteSet(S), \A v \in S : h[v] \in Nat /\ f[v] = h[v]
    PROVE  SumOf(f, S) = SumOf(h, S)
<1> DEFINE m == [v \in S |-> v]
<1>1. {m[v] : v \in S} = S
  OBVIOUS
<1>2. \A v \in S : h[v] \in Nat /\ f[m[v]] = h[v]
  OBVIOUS
<1>3. \A v, w \in S : m[v] = m[w] => v = w
  OBVIOUS
<1> HIDE DEF m
<1>4. SumOf(f, {m[v] : v \in S}) = SumOf(h, S)
  BY <1>2, <1>3, SumMapped
<1>q. QED  BY <1>1, <1>4

\* Sums of disjoint sets.
LEMMA SumUnion ==
    ASSUME NEW f, NEW S, NEW U, IsFiniteSet(S), IsFiniteSet(U), S \cap U = {},
           \A v \in S \cup U : f[v] \in Nat
    PROVE  SumOf(f, S \cup U) = SumOf(f, S) + SumOf(f, U)
<1> DEFINE P == {T \in SUBSET S : SumOf(f, T \cup U) = SumOf(f, T) + SumOf(f, U)}
<1>0. SumOf(f, U) \in Nat
  BY SumType
<1>1. {} \in P
  <2>1. {} \cup U = U /\ SumOf(f, {}) = 0
    BY SumStep, FS_EmptySet
  <2>q. QED  BY <1>0, <2>1
<1>2. ASSUME NEW T \in SUBSET S, T # {}, \A x \in T : T \ {x} \in P
      PROVE  T \in P
  <2>1. IsFiniteSet(T) /\ IsFiniteSet(T \cup U)
    BY FS_Subset, FS_Union
  <2>2. PICK x : x \in T
    BY <1>2
  <2>3. SumOf(f, T) = f[x] + SumOf(f, T \ {x})
    BY <2>1, <2>2, SumAny
  <2>4. SumOf(f, T \cup U) = f[x] + SumOf(f, (T \cup U) \ {x})
    <3>1. x \in T \cup U /\ \A v \in T \cup U : f[v] \in Nat
      BY <2>2
    <3>q. QED  BY <2>1, <3>1, SumAny
  <2>5. (T \cup U) \ {x} = (T \ {x}) \cup U
    BY <2>2
  <2>6. SumOf(f, (T \ {x}) \cup U) = SumOf(f, T \ {x}) + SumOf(f, U)
    BY <1>2, <2>2
  <2>7. f[x] \in Nat /\ SumOf(f, T \ {x}) \in Nat
    <3>1. IsFiniteSet(T \ {x}) /\ \A v \in T \ {x} : f[v] \in Nat
      BY <2>1, FS_Subset
    <3>q. QED  BY <2>2, <3>1, SumType
  <2>q. QED  BY <1>0, <2>3, <2>4, <2>5, <2>6, <2>7
<1> HIDE DEF P
<1>3. \A T \in SUBSET S : T \in P
  BY <1>1, <1>2, SubsetInduction
<1>4. S \in P
  BY <1>3
<1>q. QED  BY <1>4 DEF P

\* A bound of the terms is one of the sum.
LEMMA SumBound ==
    ASSUME NEW f, NEW S, IsFiniteSet(S), NEW b \in Nat, \A v \in S : f[v] \in 0 .. b
    PROVE  SumOf(f, S) \in 0 .. b * Cardinality(S)
<1> DEFINE P == {T \in SUBSET S : SumOf(f, T) \in 0 .. b * Cardinality(T)}
<1>1. {} \in P
  <2>1. Cardinality({}) = 0 /\ SumOf(f, {}) = 0
    BY SumStep, FS_EmptySet
  <2>q. QED  BY <2>1
<1>2. ASSUME NEW T \in SUBSET S, T # {}, \A x \in T : T \ {x} \in P
      PROVE  T \in P
  <2>1. IsFiniteSet(T)
    BY FS_Subset
  <2>2. PICK x : x \in T
    BY <1>2
  <2>3. SumOf(f, T) = f[x] + SumOf(f, T \ {x})
    BY <2>1, <2>2, SumAny
  <2>4. /\ Cardinality(T \ {x}) = Cardinality(T) - 1
        /\ Cardinality(T) \in Nat /\ Cardinality(T \ {x}) \in Nat
    BY <2>1, <2>2, FS_RemoveElement, FS_CardinalityType, FS_Subset
  <2>5. SumOf(f, T \ {x}) \in 0 .. b * Cardinality(T \ {x})
    BY <1>2, <2>2
  <2>6. b * Cardinality(T) = b * Cardinality(T \ {x}) + b
    <3>1. \A n \in Nat : b * (n + 1) = b * n + b
      OBVIOUS
    <3>2. Cardinality(T) = Cardinality(T \ {x}) + 1
      BY <2>4
    <3>q. QED  BY <2>4, <3>1, <3>2
  <2>7. b * Cardinality(T \ {x}) \in Nat
    BY <2>4
  <2>8. f[x] \in 0 .. b
    BY <2>2
  <2>q. QED  BY <2>3, <2>5, <2>6, <2>7, <2>8
<1> HIDE DEF P
<1>3. \A T \in SUBSET S : T \in P
  BY <1>1, <1>2, SubsetInduction
<1>4. S \in P
  BY <1>3
<1>q. QED  BY <1>4 DEF P

-----------------------------------------------------------------------------
(* The reading of the statistics a server answers, in some order.          *)

\* A finite set of numbers has a largest one.
LEMMA MaxIn ==
    ASSUME NEW S \in SUBSET Nat, IsFiniteSet(S)
    PROVE  \A T \in SUBSET S : T # {} => Max(T) \in T
<1> DEFINE P == {T \in SUBSET S : T # {} => \E x \in T : \A y \in T : x >= y}
<1>1. {} \in P
  OBVIOUS
<1>2. ASSUME NEW T \in SUBSET S, T # {}, \A x \in T : T \ {x} \in P
      PROVE  T \in P
  <2>1. PICK z : z \in T
    BY <1>2
  <2>2. CASE T \ {z} = {}
    <3>1. \A y \in T : z >= y
      BY <2>1, <2>2
    <3>q. QED  BY <2>1, <3>1
  <2>3. CASE T \ {z} # {}
    <3>1. PICK x \in T \ {z} : \A y \in T \ {z} : x >= y
      BY <1>2, <2>1, <2>3
    <3>2. CASE x >= z
      <4>1. \A y \in T : x >= y
        BY <3>1, <3>2
      <4>q. QED  BY <3>1, <4>1
    <3>3. CASE z >= x
      <4>1. \A y \in T : z >= y
        <5>1. \A y \in T : y \in Nat
          OBVIOUS
        <5>q. QED  BY <2>1, <3>1, <3>3, <5>1
      <4>q. QED  BY <2>1, <4>1
    <3>4. x \in Nat /\ z \in Nat
      BY <2>1
    <3>q. QED  BY <3>2, <3>3, <3>4
  <2>q. QED  BY <2>2, <2>3
<1> HIDE DEF P
<1>3. \A T \in SUBSET S : T \in P
  BY <1>1, <1>2, SubsetInduction
<1>q. QED  BY <1>3 DEF P, Max

\* One step of the reading of statistics, the last one first, and a function
\* that takes it everywhere.
ReadStep(v, o, g, s) ==
    IF s = {} THEN [n \in SubnetsOf(v) |-> [total |-> 0, assigned |-> 0]]
    ELSE Noted(o[Max(s)], g[s \ {Max(s)}])

Reads(v, o, g, S) == g = [s \in SUBSET S |-> ReadStep(v, o, g, s)]

\* The collector's loop over the statistics, as a function on sets of places.
LEMMA StatsAreRead ==
    \A v, o : SubnetStats(v, o) = (CHOOSE g : Reads(v, o, g, DOMAIN o))[DOMAIN o]
  BY DEF SubnetStats, FoldLeft, MapThenFoldSet, Reads, ReadStep

\* Two such functions agree.
LEMMA ReadsAgree ==
    ASSUME NEW v, NEW o, NEW S, NEW T, NEW g, NEW h, Reads(v, o, g, S), Reads(v, o, h, T),
           NEW U \in SUBSET (S \cap T), IsFiniteSet(U), U \in SUBSET Nat
    PROVE  g[U] = h[U]
<1> DEFINE P == {V \in SUBSET U : g[V] = h[V]}
<1>1. \A V \in SUBSET U : g[V] = ReadStep(v, o, g, V) /\ h[V] = ReadStep(v, o, h, V)
  BY DEF Reads
<1>2. {} \in P
  BY <1>1 DEF ReadStep
<1>3. ASSUME NEW V \in SUBSET U, V # {}, \A x \in V : V \ {x} \in P
      PROVE  V \in P
  <2>1. Max(V) \in V
    BY <1>3, MaxIn
  <2>2. g[V \ {Max(V)}] = h[V \ {Max(V)}]
    BY <1>3, <2>1
  <2>q. QED  BY <1>1, <1>3, <2>2 DEF ReadStep
<1> HIDE DEF P
<1>4. \A V \in SUBSET U : V # {} /\ (\A x \in V : V \ {x} \in P) => V \in P
  BY <1>3
<1>5. \A V \in SUBSET U : V \in P
  BY <1>2, <1>4, SubsetInduction
<1>q. QED  BY <1>5 DEF P

\* There is one.
LEMMA ReadsExist ==
    ASSUME NEW v, NEW o, NEW S \in SUBSET Nat, IsFiniteSet(S)
    PROVE  \A T \in SUBSET S : \E g : Reads(v, o, g, T)
<1> DEFINE P == {T \in SUBSET S : \E g : Reads(v, o, g, T)}
           G(T) == CHOOSE g : Reads(v, o, g, T)
<1>1. \A T \in P : Reads(v, o, G(T), T)
  OBVIOUS
<1>2. {} \in P
  <2>1. Reads(v, o, [s \in SUBSET {} |-> [n \in SubnetsOf(v) |-> [total |-> 0, assigned |-> 0]]], {})
    BY DEF Reads, ReadStep
  <2>q. QED  BY <2>1
<1>3. ASSUME NEW T \in P, NEW U \in SUBSET T PROVE U \in P
  <2>1. Reads(v, o, G(T), T)
    BY <1>1
  <2> DEFINE h == [s \in SUBSET U |-> G(T)[s]]
  <2>2. ASSUME NEW s \in SUBSET U PROVE h[s] = ReadStep(v, o, h, s)
    <3>1. G(T)[s] = ReadStep(v, o, G(T), s)
      BY <2>1 DEF Reads
    <3>2. s \ {Max(s)} \in SUBSET U
      OBVIOUS
    <3>q. QED  BY <3>1, <3>2 DEF ReadStep
  <2>3. Reads(v, o, h, U)
    BY <2>2 DEF Reads
  <2>q. QED  BY <2>3
<1>4. ASSUME NEW T \in SUBSET S, T # {}, \A x \in T : T \ {x} \in P
      PROVE  T \in P
  <2> DEFINE c == Max(T)
             h == [s \in SUBSET T |-> IF s = T THEN Noted(o[c], G(T \ {c})[T \ {c}]) ELSE G(s)[s]]
  <2>1. c \in T
    BY <1>4, MaxIn
  <2>2. \A s \in SUBSET T : s # T => s \in P
    <3> SUFFICES ASSUME NEW s \in SUBSET T, s # T PROVE s \in P
      OBVIOUS
    <3>1. PICK x \in T : x \notin s
      OBVIOUS
    <3>2. s \in SUBSET (T \ {x}) /\ T \ {x} \in P
      BY <1>4, <3>1
    <3> HIDE DEF P
    <3>q. QED  BY <1>3, <3>2
  <2>3. ASSUME NEW s \in SUBSET T PROVE h[s] = ReadStep(v, o, h, s)
    <3>1. CASE s = T
      BY <2>1, <3>1, <1>4 DEF ReadStep
    <3>2. CASE s # T /\ s = {}
      BY <1>1, <2>2, <3>2 DEF ReadStep, Reads
    <3>3. CASE s # T /\ s # {}
      <4> DEFINE d == Max(s)
      <4>0. d \in s
        BY <3>3, MaxIn
      <4>1. s \ {d} \in SUBSET T /\ s \ {d} # T /\ s \in P
        BY <2>2, <3>3, <4>0
      <4>2. Reads(v, o, G(s), s) /\ Reads(v, o, G(s \ {d}), s \ {d}) /\ IsFiniteSet(s \ {d})
        <5>1. s \ {d} \in P /\ s \ {d} \in SUBSET S
          BY <2>2, <4>1
        <5>q. QED  BY <1>1, <4>1, <5>1, FS_Subset
      <4>3. G(s)[s \ {d}] = G(s \ {d})[s \ {d}]
        <5>1. s \ {d} \in SUBSET (s \cap (s \ {d})) /\ s \ {d} \in SUBSET Nat
          OBVIOUS
        <5> HIDE DEF d
        <5>q. QED  BY <4>2, <5>1, ReadsAgree
      <4>4. h[s] = G(s)[s] /\ G(s)[s] = ReadStep(v, o, G(s), s) /\ h[s \ {d}] = G(s \ {d})[s \ {d}]
        BY <3>3, <4>1, <4>2 DEF Reads
      <4>q. QED  BY <3>3, <4>3, <4>4 DEF ReadStep
    <3>q. QED  BY <3>1, <3>2, <3>3
  <2>4. Reads(v, o, h, T)
    BY <2>3 DEF Reads
  <2>q. QED  BY <2>4
<1>5. \A T \in SUBSET S : T \in P
  <2> HIDE DEF P
  <2>q. QED  BY <1>2, <1>4, SubsetInduction
<1>q. QED  BY <1>5

\* What the first statistics, in this order, make of those of the subnets.
ReadOf(v, o, I) == (CHOOSE g : Reads(v, o, g, I))[I]

\* The last statistic is read after the others.
LEMMA ReadingStep ==
    ASSUME NEW v, NEW o, NEW S \in SUBSET Nat, IsFiniteSet(S)
    PROVE  /\ ReadOf(v, o, {}) = [n \in SubnetsOf(v) |-> [total |-> 0, assigned |-> 0]]
           /\ S # {} => ReadOf(v, o, S) = Noted(o[Max(S)], ReadOf(v, o, S \ {Max(S)}))
<1> DEFINE G(T) == CHOOSE g : Reads(v, o, g, T)
<1>1. \A T \in SUBSET S : Reads(v, o, G(T), T)
  BY ReadsExist
<1>2. \A T \in SUBSET S : ReadOf(v, o, T) = G(T)[T] /\ G(T)[T] = ReadStep(v, o, G(T), T)
  BY <1>1 DEF ReadOf, Reads
<1>3. ReadOf(v, o, {}) = [n \in SubnetsOf(v) |-> [total |-> 0, assigned |-> 0]]
  BY <1>2 DEF ReadStep
<1>4. ASSUME S # {} PROVE ReadOf(v, o, S) = Noted(o[Max(S)], ReadOf(v, o, S \ {Max(S)}))
  <2> DEFINE d == Max(S)
  <2>1. S \ {d} \in SUBSET S /\ S \ {d} \in SUBSET (S \cap (S \ {d})) /\ IsFiniteSet(S \ {d})
        /\ S \ {d} \in SUBSET Nat
    BY FS_Subset
  <2>2. G(S)[S \ {d}] = G(S \ {d})[S \ {d}]
    <3> HIDE DEF d
    <3>1. Reads(v, o, G(S), S) /\ Reads(v, o, G(S \ {d}), S \ {d})
      BY <1>1, <2>1
    <3>q. QED  BY <2>1, <3>1, ReadsAgree
  <2>3. ReadOf(v, o, S) = Noted(o[d], G(S)[S \ {d}])
    BY <1>2, <1>4 DEF ReadStep
  <2>q. QED  BY <1>2, <2>1, <2>2, <2>3
<1>q. QED  BY <1>3, <1>4

Stat(v) == [name : {"total", "assigned"}, of : {k \in Kinds : k.version = v}, value : Nat]

\* An answer of a server: one value of a name and a kind.
Proper(v, A) ==
    /\ IsFiniteSet(A) /\ A \in SUBSET Stat(v)
    /\ \A a, b \in A : a.name = b.name /\ a.of = b.of => a = b

ValueOf == [a \in [name : {"total", "assigned"}, of : Kinds, value : Nat] |-> a.value]

\* A v4 subnet has but one kind of leases.
LEMMA OneKind ==
    ASSUME NEW A, Proper(4, A), NEW a \in A, NEW b \in A, a.name = b.name, a.of.subnet = b.of.subnet
    PROVE  a = b
<1>1. a.of \in Kinds /\ b.of \in Kinds /\ a.of.version = 4 /\ b.of.version = 4
  BY DEF Proper, Stat
<1>2. a.of = [version |-> 4, subnet |-> a.of.subnet, kind |-> "addresses"]
  BY <1>1 DEF Kinds
<1>3. b.of = [version |-> 4, subnet |-> b.of.subnet, kind |-> "addresses"]
  BY <1>1 DEF Kinds
<1>4. a.of = b.of
  BY <1>2, <1>3
<1>q. QED  BY <1>4 DEF Proper

SubnetStat(v) == [SubnetsOf(v) -> [total : Nat, assigned : Nat]]

\* A statistic that says something about a subnet and a name.
Tells(a, s, n) == a.of.subnet = s /\ a.name = n /\ a.value # 0

\* The assigned leases told of some subnets by what is read.
Told(o, I, C) == {o[i] : i \in {j \in I : o[j].name = "assigned" /\ o[j].of.subnet \in C}}

AssignedOf(r) == [s \in DOMAIN r |-> r[s].assigned]

ReadOK(v, o, I) ==
    /\ ReadOf(v, o, I) \in SubnetStat(v)
    /\ \A s \in SubnetsOf(v), n \in {"total", "assigned"} :
          ReadOf(v, o, I)[s][n] # 0 <=> \E i \in I : Tells(o[i], s, n)
    /\ \A C \in SUBSET SubnetsOf(v) : SumOf(AssignedOf(ReadOf(v, o, I)), C) = SumOf(ValueOf, Told(o, I, C))

\* One statistic is noted.
LEMMA NotedAdds ==
    ASSUME NEW v, NEW r \in SubnetStat(v), NEW a \in Stat(v), v \in Versions,
           v = 4 => r[a.of.subnet][a.name] = 0
    PROVE  /\ a.of.subnet \in SubnetsOf(v)
           /\ Noted(a, r) \in SubnetStat(v)
           /\ Noted(a, r)[a.of.subnet][a.name] = r[a.of.subnet][a.name] + a.value
           /\ \A s \in SubnetsOf(v), n \in {"total", "assigned"} :
                 s # a.of.subnet \/ n # a.name => Noted(a, r)[s][n] = r[s][n]
<1>1. a.of.subnet \in SubnetsOf(v) /\ a.name \in {"total", "assigned"} /\ a.value \in Nat /\ a.of.version = v
  BY DEF Stat, Kinds, SubnetsOf, Versions
<1>2. PICK s \in SubnetsOf(v), n \in {"total", "assigned"} : s = a.of.subnet /\ n = a.name
  BY <1>1
<1>3. r[s] \in [total : Nat, assigned : Nat] /\ r[s][n] \in Nat
  BY DEF SubnetStat
<1>4. Put(r[s][n], a) = r[s][n] + a.value
  BY <1>1, <1>2, <1>3 DEF Put
<1> DEFINE p == r[s][n] + a.value
<1>5. Noted(a, r) = [r EXCEPT ![s] = [r[s] EXCEPT ![n] = p]]
  BY <1>2, <1>4 DEF Noted
<1>6. p \in Nat
  BY <1>1, <1>3
<1> HIDE DEF p
<1>7. [r[s] EXCEPT ![n] = p] \in [total : Nat, assigned : Nat]
  BY <1>3, <1>6
<1>8. Noted(a, r) \in SubnetStat(v)
  BY <1>5, <1>7 DEF SubnetStat
<1>9. Noted(a, r)[s][n] = p
  BY <1>3, <1>5 DEF SubnetStat
<1>10. ASSUME NEW t \in SubnetsOf(v), NEW l \in {"total", "assigned"}, t # s \/ l # n
       PROVE  Noted(a, r)[t][l] = r[t][l]
  BY <1>3, <1>5, <1>10 DEF SubnetStat
<1>q. QED  BY <1>1, <1>2, <1>8, <1>9, <1>10 DEF p

-----------------------------------------------------------------------------
(* Any order of the statistics gives the same numbers.                     *)

\* A statistic has a value, which is a number.
LEMMA ValueType ==
    ASSUME NEW v \in Versions, NEW a \in Stat(v)
    PROVE  a.value \in Nat /\ ValueOf[a] = a.value
<1>1. a \in [name : {"total", "assigned"}, of : Kinds, value : Nat] /\ a.value \in Nat
  BY DEF Stat
<1>q. QED  BY <1>1 DEF ValueOf

\* What is read of no statistics.
LEMMA NothingRead ==
    ASSUME NEW v, IsFiniteSet(SubnetsOf(v)), NEW o
    PROVE  ReadOK(v, o, {})
<1> DEFINE r == ReadOf(v, o, {})
<1>0. IsFiniteSet({}) /\ {} \in SUBSET Nat
  BY FS_EmptySet
<1>1. r = [n \in SubnetsOf(v) |-> [total |-> 0, assigned |-> 0]]
  BY <1>0, ReadingStep
<1> HIDE DEF r
<1>2. r \in SubnetStat(v)
  BY <1>1 DEF SubnetStat
<1>3. \A s \in SubnetsOf(v), n \in {"total", "assigned"} : r[s][n] = 0
  BY <1>1
<1>4. ASSUME NEW C \in SUBSET SubnetsOf(v) PROVE SumOf(AssignedOf(r), C) = SumOf(ValueOf, Told(o, {}, C))
  <2>1. Told(o, {}, C) = {} /\ SumOf(ValueOf, {}) = 0
    BY SumStep, FS_EmptySet DEF Told
  <2>2. IsFiniteSet(C)
    BY FS_Subset
  <2>3. \A s \in C : AssignedOf(r)[s] \in 0 .. 0
    BY <1>1 DEF AssignedOf
  <2>4. SumOf(AssignedOf(r), C) \in 0 .. 0 * Cardinality(C)
    BY <2>2, <2>3, SumBound
  <2>5. Cardinality(C) \in Nat
    BY <2>2, FS_CardinalityType
  <2>q. QED  BY <2>1, <2>4, <2>5
<1>q. QED  BY <1>2, <1>3, <1>4 DEF ReadOK, r

\* An order of an answer.
LEMMA OrderIsOne ==
    ASSUME NEW A, IsFiniteSet(A), NEW o \in SetToSeqs(A)
    PROVE  /\ DOMAIN o \in SUBSET Nat /\ IsFiniteSet(DOMAIN o)
           /\ \A i \in DOMAIN o : o[i] \in A
           /\ \A i, j \in DOMAIN o : i # j => o[i] # o[j]
           /\ \A a \in A : \E i \in DOMAIN o : o[i] = a
<1> DEFINE n == Cardinality(A)
<1>1. n \in Nat
  BY FS_CardinalityType
<1>2. IsFiniteSet(1 .. n) /\ Cardinality(1 .. n) = n
  BY <1>1, FS_Interval
<1>3. o \in [1 .. n -> A] /\ \A i, j \in 1 .. n : i # j => o[i] # o[j]
  BY DEF SetToSeqs
<1>4. o \in Injection(1 .. n, A)
  BY <1>3 DEF Injection, IsInjective
<1>5. o \in Surjection(1 .. n, A)
  <2> HIDE DEF n
  <2>q. QED  BY <1>2, <1>4, FS_Injection DEF n
<1> HIDE DEF n
<1>q. QED  BY <1>2, <1>3, <1>5, <1>1 DEF Surjection

\* What is read of one statistic more.
LEMMA OneRead ==
    ASSUME NEW v \in Versions, IsFiniteSet(SubnetsOf(v)), NEW A, Proper(v, A), NEW o \in SetToSeqs(A),
           NEW I \in SUBSET DOMAIN o, I # {}, ReadOK(v, o, I \ {Max(I)})
    PROVE  ReadOK(v, o, I)
<1> DEFINE J == I \ {Max(I)}
           a == o[Max(I)]
           q == ReadOf(v, o, J)
           r == ReadOf(v, o, I)
<1>1. IsFiniteSet(A)
  BY DEF Proper
<1>2. /\ DOMAIN o \in SUBSET Nat /\ IsFiniteSet(DOMAIN o)
      /\ \A i \in DOMAIN o : o[i] \in A
      /\ \A i, j \in DOMAIN o : i # j => o[i] # o[j]
  BY <1>1, OrderIsOne
<1>3. I \in SUBSET Nat /\ IsFiniteSet(I)
  BY <1>2, FS_Subset
<1>4. Max(I) \in I
  BY <1>3, MaxIn
<1>5. r = Noted(a, q)
  BY <1>3, ReadingStep
<1>6. a \in A /\ \A j \in J : o[j] \in A /\ o[j] # a
  BY <1>2, <1>4
<1>7. \A b \in A : b \in Stat(v) /\ b.value \in Nat /\ ValueOf[b] = b.value
  BY ValueType DEF Proper
<1>i. /\ I = J \cup {Max(I)}
      /\ J \in SUBSET DOMAIN o
  BY <1>4
<1>8. /\ q \in SubnetStat(v)
      /\ \A s \in SubnetsOf(v), n \in {"total", "assigned"} :
            q[s][n] # 0 <=> \E i \in J : Tells(o[i], s, n)
      /\ \A C \in SUBSET SubnetsOf(v) : SumOf(AssignedOf(q), C) = SumOf(ValueOf, Told(o, J, C))
  BY DEF ReadOK
<1> HIDE DEF J, q, r
<1>9. v = 4 => q[a.of.subnet][a.name] = 0
  <2> SUFFICES ASSUME v = 4, q[a.of.subnet][a.name] # 0 PROVE FALSE
    OBVIOUS
  <2>1. a.of.subnet \in SubnetsOf(v) /\ a.name \in {"total", "assigned"}
    BY <1>6, <1>7 DEF Stat, Kinds, SubnetsOf
  <2>2. PICK j \in J : Tells(o[j], a.of.subnet, a.name)
    BY <1>8, <2>1
  <2>3. o[j] = a
    BY <1>6, <2>2, OneKind DEF Tells
  <2>q. QED  BY <1>6, <2>3
<1>10. /\ a.of.subnet \in SubnetsOf(v)
       /\ r \in SubnetStat(v)
       /\ r[a.of.subnet][a.name] = q[a.of.subnet][a.name] + a.value
       /\ \A s \in SubnetsOf(v), n \in {"total", "assigned"} :
             s # a.of.subnet \/ n # a.name => r[s][n] = q[s][n]
  BY <1>5, <1>6, <1>7, <1>8, <1>9, NotedAdds
<1> DEFINE u == a.of.subnet
           l == a.name
<1>11. u \in SubnetsOf(v) /\ l \in {"total", "assigned"} /\ a.value \in Nat
  BY <1>6, <1>7, <1>10 DEF Stat
<1>12. ASSUME NEW s \in SubnetsOf(v), NEW n \in {"total", "assigned"}
       PROVE  r[s][n] # 0 <=> \E i \in I : Tells(o[i], s, n)
  <2>1. CASE s = u /\ n = l
    <3>1. q[s][n] \in Nat
      BY <1>8 DEF SubnetStat
    <3>4. r[s][n] = q[s][n] + a.value
      BY <1>10, <2>1
    <3>2. r[s][n] # 0 <=> q[s][n] # 0 \/ a.value # 0
      BY <1>11, <3>1, <3>4
    <3>3. a.value # 0 <=> Tells(a, s, n)
      BY <2>1 DEF Tells
    <3>q. QED  BY <1>8, <1>i, <3>2, <3>3
  <2>2. CASE ~(s = u /\ n = l)
    <3>1. r[s][n] = q[s][n]
      BY <1>10, <2>2
    <3>2. ~Tells(a, s, n)
      BY <2>2 DEF Tells
    <3>q. QED  BY <1>8, <1>i, <3>1, <3>2
  <2>q. QED  BY <2>1, <2>2
<1>13. ASSUME NEW C \in SUBSET SubnetsOf(v)
       PROVE  SumOf(AssignedOf(r), C) = SumOf(ValueOf, Told(o, I, C))
  <2> DEFINE f == AssignedOf(r)
             g == AssignedOf(q)
  <2>1. IsFiniteSet(C)
    BY FS_Subset
  <2>2. \A s \in C : f[s] \in Nat /\ g[s] \in Nat /\ f[s] = r[s]["assigned"] /\ g[s] = q[s]["assigned"]
    BY <1>8, <1>10 DEF AssignedOf, SubnetStat
  <2>3. SumOf(g, C) = SumOf(ValueOf, Told(o, J, C))
    BY <1>8
  <2> HIDE DEF f, g
  <2>4. CASE l = "assigned" /\ u \in C
    <3>1. SumOf(f, C) = f[u] + SumOf(f, C \ {u}) /\ SumOf(g, C) = g[u] + SumOf(g, C \ {u})
      BY <2>1, <2>2, <2>4, SumAny
    <3>2. IsFiniteSet(C \ {u}) /\ \A s \in C \ {u} : g[s] \in Nat /\ f[s] = g[s]
      BY <1>10, <2>1, <2>2, FS_Subset
    <3>3. SumOf(f, C \ {u}) = SumOf(g, C \ {u}) /\ SumOf(g, C \ {u}) \in Nat
      BY <3>2, SumSame, SumType
    <3>4. f[u] = g[u] + a.value /\ g[u] \in Nat
      BY <1>10, <2>2, <2>4
    <3>5. Told(o, I, C) = Told(o, J, C) \cup {a} /\ a \notin Told(o, J, C)
      BY <1>6, <1>i, <2>4 DEF Told
    <3>6. IsFiniteSet(Told(o, I, C)) /\ \A b \in Told(o, I, C) : b \in A
      <4>1. Told(o, I, C) \in SUBSET A
        BY <1>2 DEF Told
      <4>q. QED  BY <1>1, <4>1, FS_Subset
    <3>7. SumOf(ValueOf, Told(o, I, C)) = ValueOf[a] + SumOf(ValueOf, Told(o, I, C) \ {a})
      BY <1>7, <3>5, <3>6, SumAny
    <3>8. Told(o, I, C) \ {a} = Told(o, J, C) /\ ValueOf[a] = a.value
      BY <1>6, <1>7, <3>5
    <3>9. SumOf(f, C) = SumOf(g, C) + a.value
      BY <1>11, <3>1, <3>3, <3>4
    <3>10. SumOf(g, C) \in Nat
      BY <3>1, <3>3, <3>4
    <3>11. SumOf(ValueOf, Told(o, I, C)) = a.value + SumOf(ValueOf, Told(o, J, C))
      BY <3>7, <3>8
    <3>12. SumOf(f, C) = SumOf(ValueOf, Told(o, I, C))
      BY <1>11, <2>3, <3>9, <3>10, <3>11
    <3>q. QED  BY <3>12 DEF f
  <2>5. CASE ~(l = "assigned" /\ u \in C)
    <3>1. \A s \in C : g[s] \in Nat /\ f[s] = g[s]
      BY <1>10, <2>2, <2>5
    <3>2. SumOf(f, C) = SumOf(g, C)
      BY <2>1, <3>1, SumSame
    <3>3. Told(o, I, C) = Told(o, J, C)
      BY <1>i, <2>5 DEF Told
    <3>q. QED  BY <2>3, <3>2, <3>3 DEF f
  <2>q. QED  BY <2>4, <2>5
<1>q. QED  BY <1>10, <1>12, <1>13 DEF ReadOK, r

\* A sum of the leases that the statistics of some subnets have.
StatsSums(r, D, g) ==
    g = [s \in SUBSET D |-> IF s = {} THEN 0
                            ELSE r[CHOOSE x \in s : TRUE].assigned + g[s \ {CHOOSE x \in s : TRUE}]]

\* The collector's sum over the subnets of DHCPv4.
LEMMA StatsSummed ==
    ASSUME NEW r, NEW D \in SUBSET DOMAIN r, IsFiniteSet(D)
    PROVE  (CHOOSE g : StatsSums(r, D, g))[D] = SumOf(AssignedOf(r), D)
<1> DEFINE f == AssignedOf(r)
<1>1. \A x \in D : f[x] = r[x].assigned
  BY DEF AssignedOf
<1> HIDE DEF f
<1>2. \A s \in SUBSET D : s # {} => (CHOOSE x \in s : TRUE) \in D
  OBVIOUS
<1>3. \A g : StatsSums(r, D, g) <=> Sums(f, g, D)
  <2> SUFFICES ASSUME NEW g PROVE StatsSums(r, D, g) <=> Sums(f, g, D)
    OBVIOUS
  <2>1. \A s \in SUBSET D :
            Step(f, g, s) = IF s = {} THEN 0
                            ELSE r[CHOOSE x \in s : TRUE].assigned + g[s \ {CHOOSE x \in s : TRUE}]
    BY <1>1, <1>2 DEF Step
  <2>q. QED  BY <2>1 DEF StatsSums, Sums
<1> DEFINE g == CHOOSE h : StatsSums(r, D, h)
           k == CHOOSE h : Sums(f, h, D)
<1>4. Sums(f, k, D)
  BY SumsExist
<1>5. StatsSums(r, D, k)
  BY <1>3, <1>4
<1>6. StatsSums(r, D, g)
  BY <1>5
<1>7. Sums(f, g, D)
  BY <1>3, <1>6
<1> HIDE DEF g, k
<1>8. g[D] = k[D]
  BY <1>4, <1>7, SumsAgree
<1>q. QED  BY <1>8 DEF g, k, SumOf, f

\* A sum of what statistics say.
ValueSums(C, g) ==
    g = [s \in SUBSET C |-> IF s = {} THEN 0
                            ELSE (CHOOSE x \in s : TRUE).value + g[s \ {CHOOSE x \in s : TRUE}]]

\* The collector's sum over the statistics of DHCPv6.
LEMMA ValuesSummed ==
    ASSUME NEW C, IsFiniteSet(C), \A a \in C : ValueOf[a] = a.value
    PROVE  (CHOOSE g : ValueSums(C, g))[C] = SumOf(ValueOf, C)
<1>2. \A s \in SUBSET C : s # {} => (CHOOSE x \in s : TRUE) \in C
  OBVIOUS
<1>3. \A g : ValueSums(C, g) <=> Sums(ValueOf, g, C)
  <2> SUFFICES ASSUME NEW g PROVE ValueSums(C, g) <=> Sums(ValueOf, g, C)
    OBVIOUS
  <2> DEFINE A(s) == IF s = {} THEN 0
                     ELSE (CHOOSE x \in s : TRUE).value + g[s \ {CHOOSE x \in s : TRUE}]
  <2>1. \A s \in SUBSET C : Step(ValueOf, g, s) = A(s)
    BY <1>2 DEF Step
  <2>2. ValueSums(C, g) <=> g = [s \in SUBSET C |-> A(s)]
    BY DEF ValueSums
  <2> HIDE DEF A
  <2>3. [s \in SUBSET C |-> Step(ValueOf, g, s)] = [s \in SUBSET C |-> A(s)]
    BY <2>1
  <2>q. QED  BY <2>2, <2>3 DEF Sums
<1> DEFINE g == CHOOSE h : ValueSums(C, h)
           k == CHOOSE h : Sums(ValueOf, h, C)
<1>4. Sums(ValueOf, k, C)
  BY SumsExist
<1>5. ValueSums(C, k)
  BY <1>3, <1>4
<1>6. ValueSums(C, g)
  BY <1>5
<1>7. Sums(ValueOf, g, C)
  BY <1>3, <1>6
<1> HIDE DEF g, k
<1>8. g[C] = k[C]
  BY <1>4, <1>7, SumsAgree
<1>q. QED  BY <1>8 DEF g, k, SumOf

\* The leases told of by an answer, in the subnets that have anything to lease.
LeasesIn(A) == {a \in A : a.name = "assigned" /\ \E b \in A : Tells(b, a.of.subnet, "total")}

\* In any order the leases of an answer are counted alike.
LEMMA OrderIsAlike ==
    ASSUME NEW v \in Versions, IsFiniteSet(SubnetsOf(v)), NEW A, Proper(v, A), NEW o \in SetToSeqs(A)
    PROVE  LeasesCount(v, o) = SumOf(ValueOf, LeasesIn(A))
<1> DEFINE r == SubnetStats(v, o)
           D == {s \in SubnetsOf(v) : r[s].total # 0}
           I == DOMAIN o
<1>1. /\ I \in SUBSET Nat /\ IsFiniteSet(I)
      /\ \A i \in I : o[i] \in A
      /\ \A a \in A : \E i \in I : o[i] = a
  BY OrderIsOne DEF Proper
<1>2. ReadOK(v, o, I)
  <2> DEFINE P == {T \in SUBSET I : ReadOK(v, o, T)}
  <2>1. {} \in P
    BY NothingRead
  <2>2. ASSUME NEW T \in SUBSET I, T # {}, \A x \in T : T \ {x} \in P
        PROVE  T \in P
    <3>1. Max(T) \in T
      BY <1>1, <2>2, MaxIn
    <3>q. QED  BY <2>2, <3>1, OneRead
  <2> HIDE DEF P
  <2>3. \A T \in SUBSET I : T \in P
    BY <1>1, <2>1, <2>2, SubsetInduction
  <2>4. I \in P
    BY <2>3
  <2>q. QED  BY <2>4 DEF P
<1>3. r = ReadOf(v, o, I)
  BY StatsAreRead DEF ReadOf
<1>4. LeasesCount(v, o) = (CHOOSE g : StatsSums(r, D, g))[D]
  BY DEF LeasesCount, MapThenSumSet, MapThenFoldSet, StatsSums
<1> HIDE DEF r
<1>5. DOMAIN r = SubnetsOf(v) /\ \A s \in SubnetsOf(v) : r[s].total = r[s]["total"]
  BY <1>2, <1>3 DEF ReadOK, SubnetStat
<1>6. IsFiniteSet(D) /\ D \in SUBSET SubnetsOf(v)
  BY FS_Subset
<1>7. LeasesCount(v, o) = SumOf(AssignedOf(r), D)
  BY <1>4, <1>5, <1>6, StatsSummed
<1>8. SumOf(AssignedOf(r), D) = SumOf(ValueOf, Told(o, I, D))
  BY <1>2, <1>3, <1>6 DEF ReadOK
<1>9. ASSUME NEW s \in SubnetsOf(v) PROVE s \in D <=> \E b \in A : Tells(b, s, "total")
  <2>1. s \in D <=> \E i \in I : Tells(o[i], s, "total")
    BY <1>2, <1>3, <1>5 DEF ReadOK
  <2>q. QED  BY <1>1, <2>1
<1>10. \A a \in A : a.of.subnet \in SubnetsOf(v)
  BY DEF Proper, Stat, Kinds, SubnetsOf
<1>11. Told(o, I, D) = LeasesIn(A)
  <2>1. Told(o, I, D) = {a \in A : a.name = "assigned" /\ a.of.subnet \in D}
    BY <1>1 DEF Told
  <2> HIDE DEF D
  <2>2. LeasesIn(A) = {a \in A : a.name = "assigned" /\ a.of.subnet \in D}
    BY <1>9, <1>10 DEF LeasesIn
  <2>q. QED  BY <2>1, <2>2
<1>q. QED  BY <1>7, <1>8, <1>11

-----------------------------------------------------------------------------
(* What a server leases, and the numbers that tell of it.                  *)

\* Sums that differ in one term.
LEMMA SumChanged ==
    ASSUME NEW f, NEW h, NEW S, IsFiniteSet(S), NEW x \in S,
           \A v \in S : f[v] \in Nat /\ h[v] \in Nat /\ (v # x => f[v] = h[v])
    PROVE  \E n \in Nat : SumOf(f, S) = f[x] + n /\ SumOf(h, S) = h[x] + n
<1> DEFINE R == S \ {x}
<1>1. SumOf(f, S) = f[x] + SumOf(f, R) /\ SumOf(h, S) = h[x] + SumOf(h, R)
  BY SumAny
<1>2. IsFiniteSet(R) /\ \A v \in R : h[v] \in Nat /\ f[v] = h[v]
  BY FS_Subset
<1> HIDE DEF R
<1>3. SumOf(f, R) = SumOf(h, R) /\ SumOf(h, R) \in Nat
  BY <1>2, SumSame, SumType
<1>q. QED  BY <1>1, <1>3

\* A finite set has a finite image.
LEMMA FiniteImage ==
    ASSUME NEW S, IsFiniteSet(S), NEW m
    PROVE  IsFiniteSet({m[x] : x \in S}) /\ Cardinality({m[x] : x \in S}) <= Cardinality(S)
<1> DEFINE n == [x \in S |-> m[x]]
           T == {m[x] : x \in S}
<1>1. n \in Surjection(S, T)
  BY DEF Surjection
<1> HIDE DEF n, T
<1>2. IsFiniteSet(T) /\ Cardinality(T) <= Cardinality(S)
  BY <1>1, FS_Surjection
<1>q. QED  BY <1>2 DEF T

\* There are finitely many statistics.
LEMMA FiniteKinds == IsFiniteSet(Kinds)
<1> DEFINE a == [s \in Subnets4 |-> [version |-> 4, subnet |-> s, kind |-> "addresses"]]
           n == [s \in Subnets6 |-> [version |-> 6, subnet |-> s, kind |-> "nas"]]
           p == [s \in Subnets6 |-> [version |-> 6, subnet |-> s, kind |-> "pds"]]
           A == {a[s] : s \in Subnets4}
           N == {n[s] : s \in Subnets6}
           P == {p[s] : s \in Subnets6}
<1>1. Kinds = A \cup (N \cup P)
  BY DEF Kinds
<1> HIDE DEF a, n, p
<1>2. IsFiniteSet(A) /\ IsFiniteSet(N) /\ IsFiniteSet(P)
  BY FiniteImage, DhcpCollectorAssumption
<1> HIDE DEF A, N, P
<1>3. IsFiniteSet(N \cup P)
  BY <1>2, FS_Union
<1>4. IsFiniteSet(A \cup (N \cup P))
  BY <1>2, <1>3, FS_Union
<1>q. QED  BY <1>1, <1>4

LEMMA FiniteSubnets == ASSUME NEW v \in Versions PROVE IsFiniteSet(SubnetsOf(v))
  BY DhcpCollectorAssumption DEF Versions, SubnetsOf

KindsOf(v) == {k \in Kinds : k.version = v}

KeaOK == assigned \in [Kinds -> 0 .. MaxLeases] /\ pooled \in [Kinds -> 0 .. 1]

\* What kea leases in subnets that have anything to lease.
Leased(v) == {k \in KindsOf(v) : \E l \in KindsOf(v) : l.subnet = k.subnet /\ pooled[l] # 0}

Now(v) == SumOf(assigned, Leased(v))

\* A server's statistics are proper: one of a name for each kind of lease.
LEMMA StatisticsProper ==
    ASSUME KeaOK, NEW v \in Versions
    PROVE  /\ Proper(v, Statistics(v))
           /\ \A s \in Statistics(v) : s.value \in (0 .. 1) \cup (0 .. MaxLeases)
                                       /\ (s.name = "assigned" => s.value \in 0 .. MaxLeases)
<1> DEFINE t == [k \in KindsOf(v) |-> [name |-> "total", of |-> k, value |-> pooled[k]]]
           a == [k \in KindsOf(v) |-> [name |-> "assigned", of |-> k, value |-> assigned[k]]]
           T == {t[k] : k \in KindsOf(v)}
           A == {a[k] : k \in KindsOf(v)}
<1>1. Statistics(v) = T \cup A
  BY DEF Statistics, KindsOf
<1>2. IsFiniteSet(KindsOf(v))
  BY FiniteKinds, FS_Subset DEF KindsOf
<1>3. IsFiniteSet(Statistics(v))
  <2> HIDE DEF t, a
  <2>1. IsFiniteSet(T) /\ IsFiniteSet(A)
    BY <1>2, FiniteImage
  <2> HIDE DEF T, A
  <2>q. QED  BY <1>1, <2>1, FS_Union
<1>4. \A k \in KindsOf(v) : /\ k \in Kinds /\ k.version = v
                            /\ pooled[k] \in 0 .. 1 /\ assigned[k] \in 0 .. MaxLeases
  BY DEF KeaOK, KindsOf
<1>5. MaxLeases \in Nat
  BY DhcpCollectorAssumption
<1>6. Statistics(v) \in SUBSET Stat(v)
  BY <1>1, <1>4, <1>5 DEF Stat
<1>7. \A s \in Statistics(v) : \/ s.of \in KindsOf(v) /\ s = t[s.of] /\ s.name = "total"
                               \/ s.of \in KindsOf(v) /\ s = a[s.of] /\ s.name = "assigned"
  BY <1>1
<1>8. ASSUME NEW s \in Statistics(v), NEW u \in Statistics(v), s.name = u.name, s.of = u.of
      PROVE  s = u
  <2> HIDE DEF t, a
  <2>1. \/ s = t[s.of] /\ s.name = "total"
        \/ s = a[s.of] /\ s.name = "assigned"
    BY <1>7
  <2>2. \/ u = t[s.of] /\ s.name = "total"
        \/ u = a[s.of] /\ s.name = "assigned"
    BY <1>7, <1>8
  <2>q. QED  BY <2>1, <2>2
<1>9. \A s \in Statistics(v) : s.value \in (0 .. 1) \cup (0 .. MaxLeases)
                               /\ (s.name = "assigned" => s.value \in 0 .. MaxLeases)
  BY <1>1, <1>4
<1>q. QED  BY <1>3, <1>6, <1>8, <1>9 DEF Proper

\* What they tell is what the server leases.
LEMMA StatisticsTell ==
    ASSUME KeaOK, NEW v \in Versions
    PROVE  SumOf(ValueOf, LeasesIn(Statistics(v))) = Now(v)
<1> DEFINE a == [k \in KindsOf(v) |-> [name |-> "assigned", of |-> k, value |-> assigned[k]]]
<1>1. \A k \in KindsOf(v) : /\ k \in Kinds /\ k.version = v
                            /\ pooled[k] \in 0 .. 1 /\ assigned[k] \in Nat
  BY DhcpCollectorAssumption DEF KeaOK, KindsOf
<1>2. \A s : \A b \in Statistics(v) :
          Tells(b, s, "total") => b.of \in KindsOf(v) /\ b.of.subnet = s /\ pooled[b.of] # 0
  BY DEF Tells, Statistics, KindsOf
<1>3. \A s : \A l \in KindsOf(v) :
          l.subnet = s /\ pooled[l] # 0 => \E b \in Statistics(v) : Tells(b, s, "total")
  <2> SUFFICES ASSUME NEW s, NEW l \in KindsOf(v), l.subnet = s, pooled[l] # 0
               PROVE  \E b \in Statistics(v) : Tells(b, s, "total")
    OBVIOUS
  <2> DEFINE b == [name |-> "total", of |-> l, value |-> pooled[l]]
  <2>1. b \in Statistics(v) /\ Tells(b, s, "total")
    BY DEF Statistics, KindsOf, Tells
  <2>q. QED  BY <2>1
<1>4. {b \in Statistics(v) : b.name = "assigned"} = {a[k] : k \in KindsOf(v)}
  <2>1. ASSUME NEW b \in Statistics(v), b.name = "assigned" PROVE b \in {a[k] : k \in KindsOf(v)}
    BY <2>1 DEF Statistics, KindsOf
  <2>2. ASSUME NEW k \in KindsOf(v) PROVE a[k] \in Statistics(v) /\ a[k].name = "assigned"
    BY DEF Statistics, KindsOf
  <2> HIDE DEF a
  <2>q. QED  BY <2>1, <2>2
<1>5. \A k \in KindsOf(v) : a[k].of = k /\ a[k].value = assigned[k]
                            /\ a[k] \in [name : {"total", "assigned"}, of : Kinds, value : Nat]
  BY <1>1
<1> HIDE DEF a
<1>6. LeasesIn(Statistics(v)) = {a[k] : k \in Leased(v)}
  <2>1. \A s : (\E b \in Statistics(v) : Tells(b, s, "total"))
               <=> (\E l \in KindsOf(v) : l.subnet = s /\ pooled[l] # 0)
    BY <1>2, <1>3
  <2>2. LeasesIn(Statistics(v)) =
          {b \in {a[k] : k \in KindsOf(v)} : \E l \in KindsOf(v) : l.subnet = b.of.subnet /\ pooled[l] # 0}
    BY <1>4, <2>1 DEF LeasesIn
  <2>q. QED  BY <1>5, <2>2 DEF Leased
<1>7. IsFiniteSet(Leased(v)) /\ Leased(v) \in SUBSET KindsOf(v)
  BY FiniteKinds, FS_Subset DEF Leased, KindsOf
<1>8. \A k \in Leased(v) : assigned[k] \in Nat /\ ValueOf[a[k]] = assigned[k]
  BY <1>1, <1>5, <1>7 DEF ValueOf
<1>9. \A k, l \in Leased(v) : a[k] = a[l] => k = l
  BY <1>5, <1>7
<1>10. SumOf(ValueOf, {a[k] : k \in Leased(v)}) = SumOf(assigned, Leased(v))
  BY <1>7, <1>8, <1>9, SumMapped
<1>q. QED  BY <1>6, <1>10 DEF Now

Count(v) == SumOf(ValueOf, LeasesIn(answer[v]))

\* The answers of the servers, or none.
AnswersOK ==
    \A v \in Versions :
        /\ Proper(v, answer[v])
        /\ \A a \in answer[v] : a.value \in (0 .. 1) \cup (0 .. MaxLeases)
                                /\ (a.name = "assigned" => a.value \in 0 .. MaxLeases)

BothLeases == LeasesIn(answer[4]) \cup LeasesIn(answer[6])

\* The two servers' leases are counted together.
LEMMA CountsAdd ==
    ASSUME AnswersOK
    PROVE  /\ SumOf(ValueOf, BothLeases) = Count(4) + Count(6)
           /\ Count(4) \in Nat /\ Count(6) \in Nat
           /\ SumOf(ValueOf, BothLeases) \in 0 .. MaxCount
<1> DEFINE S == LeasesIn(answer[4])
           T == LeasesIn(answer[6])
<1>0. 4 \in Versions /\ 6 \in Versions
  BY DEF Versions
<1>1. /\ IsFiniteSet(answer[4]) /\ IsFiniteSet(answer[6])
      /\ answer[4] \in SUBSET Stat(4) /\ answer[6] \in SUBSET Stat(6)
  BY <1>0 DEF AnswersOK, Proper
<1>2. IsFiniteSet(S) /\ IsFiniteSet(T)
  <2>1. S \in SUBSET answer[4] /\ T \in SUBSET answer[6]
    BY DEF LeasesIn
  <2>q. QED  BY <1>1, <2>1, FS_Subset
<1>3. /\ \A a \in S : a \in Stat(4) /\ a.of \in Kinds /\ a.of.version = 4 /\ a.name = "assigned"
      /\ \A a \in T : a \in Stat(6) /\ a.of \in Kinds /\ a.of.version = 6 /\ a.name = "assigned"
  BY <1>1 DEF LeasesIn, Stat
<1>4. S \cap T = {}
  BY <1>3
<1>5. \A a \in S \cup T : ValueOf[a] = a.value /\ a.value \in Nat
  BY <1>0, <1>3, ValueType
<1>6. \A a \in S \cup T : ValueOf[a] \in 0 .. MaxLeases
  BY <1>0, <1>3, <1>5 DEF AnswersOK, LeasesIn
<1>7. \A a, b \in S \cup T : a.of = b.of => a = b
  <2>1. \A a, b \in S : a.of = b.of => a = b
    BY <1>0, <1>3 DEF AnswersOK, Proper, LeasesIn
  <2>2. \A a, b \in T : a.of = b.of => a = b
    BY <1>0, <1>3 DEF AnswersOK, Proper, LeasesIn
  <2> HIDE DEF S, T
  <2>q. QED  BY <1>3, <2>1, <2>2
<1>8. S \cup T = BothLeases /\ Count(4) = SumOf(ValueOf, S) /\ Count(6) = SumOf(ValueOf, T)
  BY DEF BothLeases, Count
<1> HIDE DEF S, T
<1>9. IsFiniteSet(S \cup T)
  BY <1>2, FS_Union
<1>10. SumOf(ValueOf, S \cup T) = SumOf(ValueOf, S) + SumOf(ValueOf, T)
  BY <1>2, <1>4, <1>5, SumUnion
<1>11. SumOf(ValueOf, S) \in Nat /\ SumOf(ValueOf, T) \in Nat
  BY <1>2, <1>5, SumType
<1>12. Cardinality(S \cup T) <= Cardinality(Kinds)
  <2> DEFINE m == [a \in S \cup T |-> a.of]
  <2>1. m \in Injection(S \cup T, Kinds)
    BY <1>3, <1>7 DEF Injection, IsInjective
  <2> HIDE DEF m
  <2>q. QED  BY <2>1, FS_Injection, FiniteKinds
<1>13. MaxLeases \in Nat
  BY DhcpCollectorAssumption
<1>14. SumOf(ValueOf, S \cup T) \in 0 .. MaxLeases * Cardinality(S \cup T)
  BY <1>6, <1>9, <1>13, SumBound
<1>15. Cardinality(S \cup T) \in Nat /\ Cardinality(Kinds) \in Nat
  BY <1>9, FiniteKinds, FS_CardinalityType
<1>16. /\ MaxLeases * Cardinality(S \cup T) <= MaxLeases * Cardinality(Kinds)
       /\ MaxLeases * Cardinality(S \cup T) \in Nat /\ MaxLeases * Cardinality(Kinds) \in Nat
  BY <1>12, <1>13, <1>15, Products
<1>17. SumOf(ValueOf, S \cup T) \in 0 .. MaxCount
  BY <1>14, <1>16 DEF MaxCount
<1>q. QED  BY <1>8, <1>10, <1>11, <1>17

\* What Collect should have exported.
LEMMA RightIsSum == ASSUME AnswersOK PROVE RightCount = SumOf(ValueOf, BothLeases)
<1> DEFINE Has(v, s) == \E a \in answer[v] : a.name = "total" /\ a.of.subnet = s /\ a.value # 0
           C == {a \in answer[4] \cup answer[6] : a.name = "assigned" /\ Has(a.of.version, a.of.subnet)}
<1>1. RightCount = (CHOOSE g : ValueSums(C, g))[C]
  BY DEF RightCount, MapThenSumSet, MapThenFoldSet, ValueSums
<1>2. /\ \A a \in answer[4] : a \in Stat(4) /\ a.of.version = 4
      /\ \A a \in answer[6] : a \in Stat(6) /\ a.of.version = 6
      /\ IsFiniteSet(answer[4]) /\ IsFiniteSet(answer[6])
  BY DEF AnswersOK, Proper, Stat, Versions
<1>3. \A v, s : Has(v, s) <=> \E b \in answer[v] : Tells(b, s, "total")
  BY DEF Tells
<1> HIDE DEF Has
<1>4. C = BothLeases
  BY <1>2, <1>3 DEF BothLeases, LeasesIn
<1>5. IsFiniteSet(C)
  <2>1. IsFiniteSet(answer[4] \cup answer[6])
    BY <1>2, FS_Union
  <2>2. C \in SUBSET (answer[4] \cup answer[6])
    OBVIOUS
  <2> HIDE DEF C
  <2>q. QED  BY <2>1, <2>2, FS_Subset
<1>6. \A a \in C : ValueOf[a] = a.value
  BY <1>2, ValueType DEF Versions
<1> HIDE DEF C
<1>7. (CHOOSE g : ValueSums(C, g))[C] = SumOf(ValueOf, C)
  BY <1>5, <1>6, ValuesSummed
<1>q. QED  BY <1>1, <1>4, <1>7

\* Whatever the orders, the count is the right one.
LEMMA CountIsRight ==
    ASSUME AnswersOK, NEW count4 \in Counts(4), NEW count6 \in Counts(6)
    PROVE  count4 = Count(4) /\ count6 = Count(6)
<1> SUFFICES ASSUME NEW v \in Versions, NEW c \in Counts(v) PROVE c = Count(v)
  BY DEF Versions
<1>1. PICK o \in SetToSeqs(answer[v]) : c = LeasesCount(v, o)
  BY DEF Counts
<1>2. IsFiniteSet(SubnetsOf(v)) /\ Proper(v, answer[v])
  BY FiniteSubnets DEF AnswersOK
<1>q. QED  BY <1>1, <1>2, OrderIsAlike DEF Count

-----------------------------------------------------------------------------
(* The number and the rate of leases.                                      *)

\* Of a sample under way, the servers that have answered.
Answered(v) == job = "sample" /\ (phase = "count" \/ (phase = "ask6" /\ v = 4))

AtMost(m, e) == m.granted <= e.granted /\ m.ended <= e.ended /\ m.pools <= e.pools

Less(e, m) ==
    [granted |-> e.granted - m.granted, ended |-> e.ended - m.ended, pools |-> e.pools - m.pools]

\* What the leases were and are, with what happened between.
Tie(from, to, e) ==
    e.pools = 0 => to <= from + e.granted /\ from + e.granted <= to + e.ended

AskingOK ==
    /\ job \in {"none", "sample", "scrape"} /\ phase \in {"idle", "ask4", "ask6", "count"}
    /\ answer \in [Versions -> SUBSET [name : {"total", "assigned"}, of : Kinds, value : Nat]]
    /\ AnswersOK

EventsOK ==
    /\ events \in [Versions -> Happenings] /\ mark \in [Versions -> Happenings]
    /\ \A v \in Versions : AtMost(mark[v], events[v]) /\ (~Answered(v) => mark[v] = None)

KeptOK ==
    /\ lastAssigned \in 0 .. MaxCount /\ lps \in 0 .. MaxCount /\ gone \in 0 .. MaxTime
    /\ period.time \in 0 .. MaxTime /\ period.kept \in BOOLEAN
    /\ exported \in [leases : 0 .. MaxCount, right : 0 .. MaxCount]

\* The kept number is the sum of two, each tied to what its server leases now
\* and, when it has answered, to what it has told.
TiedTo(L, v) ==
    /\ Tie(L[v], Now(v), events[v])
    /\ Answered(v) => Tie(L[v], Count(v), mark[v]) /\ Tie(Count(v), Now(v), Less(events[v], mark[v]))

Tied == \E L \in [Versions -> Nat] : lastAssigned = L[4] + L[6] /\ \A v \in Versions : TiedTo(L, v)

DhcpInv == KeaOK /\ AskingOK /\ EventsOK /\ KeptOK /\ Tied /\ CountedRight /\ LpsTrue

\* All that happened, as a sum.
HappenedSums(g) ==
    g = [s \in SUBSET Versions |->
            IF s = {} THEN 0
            ELSE (events[CHOOSE x \in s : TRUE].granted + events[CHOOSE x \in s : TRUE].ended
                  + events[CHOOSE x \in s : TRUE].pools) + g[s \ {CHOOSE x \in s : TRUE}]]

\* The bound on what happens bounds each of its counts.
LEMMA MoreCanHappen ==
    ASSUME EventsOK, Happened < MaxEvents, NEW v \in Versions
    PROVE  events[v].granted < MaxEvents /\ events[v].ended < MaxEvents /\ events[v].pools < MaxEvents
<1> DEFINE f == [x \in Versions |-> events[x].granted + events[x].ended + events[x].pools]
<1>0. IsFiniteSet(Versions)
  <2>1. Versions = {4} \cup {6} /\ IsFiniteSet({4}) /\ IsFiniteSet({6})
    BY FS_Singleton DEF Versions
  <2>q. QED  BY <2>1, FS_Union
<1>1. MaxEvents \in Nat
  BY DhcpCollectorAssumption
<1>2. \A x \in Versions : /\ events[x].granted \in Nat /\ events[x].ended \in Nat /\ events[x].pools \in Nat
  BY <1>1 DEF EventsOK, Happenings
<1>3. \A x \in Versions : f[x] \in Nat
  BY <1>2
<1>4. \A s \in SUBSET Versions : s # {} => (CHOOSE x \in s : TRUE) \in Versions
  OBVIOUS
<1>5. \A g : HappenedSums(g) <=> Sums(f, g, Versions)
  <2> SUFFICES ASSUME NEW g PROVE HappenedSums(g) <=> Sums(f, g, Versions)
    OBVIOUS
  <2> DEFINE A(s) == IF s = {} THEN 0
                     ELSE (events[CHOOSE x \in s : TRUE].granted + events[CHOOSE x \in s : TRUE].ended
                           + events[CHOOSE x \in s : TRUE].pools) + g[s \ {CHOOSE x \in s : TRUE}]
  <2>1. \A s \in SUBSET Versions : Step(f, g, s) = A(s)
    BY <1>4 DEF Step
  <2>2. HappenedSums(g) <=> g = [s \in SUBSET Versions |-> A(s)]
    BY DEF HappenedSums
  <2> HIDE DEF A, f
  <2>3. [s \in SUBSET Versions |-> Step(f, g, s)] = [s \in SUBSET Versions |-> A(s)]
    BY <2>1
  <2>q. QED  BY <2>2, <2>3 DEF Sums
<1>6. Happened = (CHOOSE g : HappenedSums(g))[Versions]
  BY DEF Happened, MapThenSumSet, MapThenFoldSet, HappenedSums
<1>7. f[v] = events[v].granted + events[v].ended + events[v].pools
  OBVIOUS
<1> DEFINE g == CHOOSE h : HappenedSums(h)
           k == CHOOSE h : Sums(f, h, Versions)
<1> HIDE DEF f
<1>8. Sums(f, k, Versions)
  BY <1>0, SumsExist
<1>9. HappenedSums(g)
  BY <1>5, <1>8
<1>10. Sums(f, g, Versions)
  BY <1>5, <1>9
<1> HIDE DEF g, k
<1>11. g[Versions] = k[Versions]
  BY <1>0, <1>8, <1>10, SumsAgree
<1>12. Happened = SumOf(f, Versions)
  BY <1>6, <1>11 DEF g, k, SumOf
<1>13. SumOf(f, Versions) = f[v] + SumOf(f, Versions \ {v})
  BY <1>0, <1>3, SumAny
<1>14. SumOf(f, Versions \ {v}) \in Nat
  <2>1. IsFiniteSet(Versions \ {v}) /\ \A x \in Versions \ {v} : f[x] \in Nat
    BY <1>0, <1>3, FS_Subset
  <2>q. QED  BY <2>1, SumType
<1>q. QED  BY <1>1, <1>2, <1>7, <1>12, <1>13, <1>14

-----------------------------------------------------------------------------

EventRecord == [granted : Nat, ended : Nat, pools : Nat]

\* Nothing happens, a lease is granted, one ends, or pools change.
Moves(n, e, n2, e2) ==
    \/ e2 = e /\ n2 = n
    \/ e2 = [e EXCEPT !.granted = @ + 1] /\ n2 = n + 1
    \/ e2 = [e EXCEPT !.ended = @ + 1] /\ (n2 = n \/ n = n2 + 1)
    \/ e2 = [e EXCEPT !.pools = @ + 1]

\* A number that moves as the events do stays tied to them.
LEMMA MoveTie ==
    ASSUME NEW x \in Nat, NEW n \in Nat, NEW n2 \in Nat, NEW e \in EventRecord, NEW e2,
           Moves(n, e, n2, e2), Tie(x, n, e)
    PROVE  Tie(x, n2, e2)
<1>1. e.granted \in Nat /\ e.ended \in Nat /\ e.pools \in Nat
  BY DEF EventRecord
<1>2. CASE e2 = e /\ n2 = n
  BY <1>2 DEF Tie
<1>3. CASE e2 = [e EXCEPT !.granted = @ + 1] /\ n2 = n + 1
  <2>1. e2.granted = e.granted + 1 /\ e2.ended = e.ended /\ e2.pools = e.pools
    BY <1>3 DEF EventRecord
  <2>q. QED  BY <1>1, <1>3, <2>1 DEF Tie
<1>4. CASE e2 = [e EXCEPT !.ended = @ + 1] /\ (n2 = n \/ n = n2 + 1)
  <2>1. e2.granted = e.granted /\ e2.ended = e.ended + 1 /\ e2.pools = e.pools
    BY <1>4 DEF EventRecord
  <2>q. QED  BY <1>1, <1>4, <2>1 DEF Tie
<1>5. CASE e2 = [e EXCEPT !.pools = @ + 1]
  <2>1. e2.pools # 0
    BY <1>1, <1>5 DEF EventRecord
  <2>q. QED  BY <2>1 DEF Tie
<1>q. QED  BY <1>2, <1>3, <1>4, <1>5 DEF Moves

\* It does when they are counted from a mark.
LEMMA MoveLess ==
    ASSUME NEW n, NEW n2, NEW e \in EventRecord, NEW m \in EventRecord, NEW e2,
           AtMost(m, e), Moves(n, e, n2, e2)
    PROVE  Less(e, m) \in EventRecord /\ AtMost(m, e2) /\ Moves(n, Less(e, m), n2, Less(e2, m))
<1>1. /\ e.granted \in Nat /\ e.ended \in Nat /\ e.pools \in Nat
      /\ m.granted \in Nat /\ m.ended \in Nat /\ m.pools \in Nat
  BY DEF EventRecord
<1>2. Less(e, m) \in EventRecord
  BY <1>1 DEF Less, AtMost, EventRecord
<1>3. CASE e2 = e /\ n2 = n
  BY <1>2, <1>3 DEF Moves
<1>4. CASE e2 = [e EXCEPT !.granted = @ + 1] /\ n2 = n + 1
  <2>1. e2.granted = e.granted + 1 /\ e2.ended = e.ended /\ e2.pools = e.pools
    BY <1>4 DEF EventRecord
  <2>2. Less(e2, m) = [Less(e, m) EXCEPT !.granted = @ + 1]
    BY <1>1, <2>1 DEF Less, AtMost
  <2>q. QED  BY <1>1, <1>2, <1>4, <2>1, <2>2 DEF Moves, AtMost
<1>5. CASE e2 = [e EXCEPT !.ended = @ + 1] /\ (n2 = n \/ n = n2 + 1)
  <2>1. e2.granted = e.granted /\ e2.ended = e.ended + 1 /\ e2.pools = e.pools
    BY <1>5 DEF EventRecord
  <2>2. Less(e2, m) = [Less(e, m) EXCEPT !.ended = @ + 1]
    BY <1>1, <2>1 DEF Less, AtMost
  <2>q. QED  BY <1>1, <1>2, <1>5, <2>1, <2>2 DEF Moves, AtMost
<1>6. CASE e2 = [e EXCEPT !.pools = @ + 1]
  <2>1. e2.granted = e.granted /\ e2.ended = e.ended /\ e2.pools = e.pools + 1
    BY <1>6 DEF EventRecord
  <2>2. Less(e2, m) = [Less(e, m) EXCEPT !.pools = @ + 1]
    BY <1>1, <2>1 DEF Less, AtMost
  <2>q. QED  BY <1>1, <1>2, <1>6, <2>1, <2>2 DEF Moves, AtMost
<1>q. QED  BY <1>3, <1>4, <1>5, <1>6 DEF Moves

\* What is leased of a server is finite, before a step and after it.
LEMMA LeasedType ==
    ASSUME NEW v PROVE IsFiniteSet(Leased(v)) /\ Leased(v) \in SUBSET KindsOf(v)
                       /\ IsFiniteSet(Leased(v)') /\ Leased(v)' \in SUBSET KindsOf(v)
  BY FiniteKinds, FS_Subset DEF Leased, KindsOf

\* So its number is one.
LEMMA NowType ==
    ASSUME NEW v
    PROVE  (KeaOK => Now(v) \in Nat) /\ (KeaOK' => Now(v)' \in Nat)
<1>1. /\ KeaOK => \A k \in Leased(v) : assigned[k] \in Nat
      /\ KeaOK' => \A k \in Leased(v)' : assigned'[k] \in Nat
  BY LeasedType, DhcpCollectorAssumption DEF KeaOK, KindsOf
<1>q. QED  BY <1>1, LeasedType, SumType DEF Now

\* What kea does moves the number of leases along with what has happened.
KeaMoves == \A v \in Versions : Moves(Now(v), events[v], Now(v)', events'[v])

\* Each step of a server moves the number of its leases and its events together.
LEMMA GrantMoves ==
    ASSUME KeaOK, EventsOK, NEW k \in Kinds, Granted(k)
    PROVE  KeaOK' /\ events' \in [Versions -> Happenings] /\ KeaMoves
<1>0. k.version \in Versions /\ MaxLeases \in Nat /\ MaxEvents \in Nat
  BY DhcpCollectorAssumption DEF Kinds, Versions
<1>1. /\ assigned' = [assigned EXCEPT ![k] = @ + 1] /\ UNCHANGED pooled
      /\ assigned[k] < MaxLeases /\ pooled[k] = 1 /\ Happened < MaxEvents
      /\ events' = [events EXCEPT ![k.version].granted = @ + 1]
  BY DEF Granted
<1>2. KeaOK'
  BY <1>0, <1>1 DEF KeaOK
<1>3. events' \in [Versions -> Happenings]
  <2>1. events[k.version].granted < MaxEvents
    BY <1>0, <1>1, MoreCanHappen
  <2>2. [events[k.version] EXCEPT !.granted = @ + 1] \in Happenings
    BY <1>0, <2>1 DEF EventsOK, Happenings
  <2>3. events' = [events EXCEPT ![k.version] = [events[k.version] EXCEPT !.granted = @ + 1]]
    BY <1>1
  <2>q. QED  BY <1>0, <2>2, <2>3 DEF EventsOK
<1>4. ASSUME NEW v \in Versions PROVE Moves(Now(v), events[v], Now(v)', events'[v])
  <2>1. Leased(v)' = Leased(v)
    BY <1>1 DEF Leased
  <2>2. CASE v = k.version
    <3>1. k \in Leased(v)
      BY <1>1, <2>2 DEF Leased, KindsOf
    <3>2. \A l \in Leased(v) : /\ l \in Kinds /\ assigned[l] \in Nat /\ assigned'[l] \in Nat
                               /\ (l # k => assigned'[l] = assigned[l])
      BY <1>0, <1>1, <1>2, LeasedType DEF KindsOf, KeaOK
    <3>3. PICK n \in Nat : SumOf(assigned', Leased(v)) = assigned'[k] + n
                           /\ SumOf(assigned, Leased(v)) = assigned[k] + n
      BY <3>1, <3>2, LeasedType, SumChanged
    <3>4. assigned'[k] = assigned[k] + 1
      BY <1>1 DEF KeaOK
    <3>5. assigned[k] \in Nat
      BY <3>1, <3>2
    <3>6. Now(v)' = Now(v) + 1
      BY <2>1, <3>3, <3>4, <3>5 DEF Now
    <3>7. events'[v] = [events[v] EXCEPT !.granted = @ + 1]
      BY <1>1, <2>2 DEF EventsOK
    <3>q. QED  BY <3>6, <3>7 DEF Moves
  <2>3. CASE v # k.version
    <3>1. \A l \in Leased(v) : assigned[l] \in Nat /\ assigned'[l] = assigned[l]
      BY <1>0, <1>1, <2>3, LeasedType DEF KindsOf, KeaOK
    <3>2. Now(v)' = Now(v)
      BY <2>1, <3>1, LeasedType, SumSame DEF Now
    <3>3. events'[v] = events[v]
      BY <1>1, <2>3 DEF EventsOK
    <3>q. QED  BY <3>2, <3>3 DEF Moves
  <2>q. QED  BY <2>2, <2>3
<1>q. QED  BY <1>2, <1>3, <1>4 DEF KeaMoves

LEMMA EndMoves ==
    ASSUME KeaOK, EventsOK, NEW k \in Kinds, LeaseEnded(k)
    PROVE  KeaOK' /\ events' \in [Versions -> Happenings] /\ KeaMoves
<1>0. k.version \in Versions /\ MaxLeases \in Nat /\ MaxEvents \in Nat
  BY DhcpCollectorAssumption DEF Kinds, Versions
<1>1. /\ assigned' = [assigned EXCEPT ![k] = @ - 1] /\ UNCHANGED pooled
      /\ assigned[k] > 0 /\ Happened < MaxEvents
      /\ events' = [events EXCEPT ![k.version].ended = @ + 1]
  BY DEF LeaseEnded
<1>2. KeaOK'
  BY <1>0, <1>1 DEF KeaOK
<1>3. events' \in [Versions -> Happenings]
  <2>1. events[k.version].ended < MaxEvents
    BY <1>0, <1>1, MoreCanHappen
  <2>2. [events[k.version] EXCEPT !.ended = @ + 1] \in Happenings
    BY <1>0, <2>1 DEF EventsOK, Happenings
  <2>3. events' = [events EXCEPT ![k.version] = [events[k.version] EXCEPT !.ended = @ + 1]]
    BY <1>1
  <2>q. QED  BY <1>0, <2>2, <2>3 DEF EventsOK
<1>4. ASSUME NEW v \in Versions PROVE Moves(Now(v), events[v], Now(v)', events'[v])
  <2>1. Leased(v)' = Leased(v)
    BY <1>1 DEF Leased
  <2>2. CASE k \in Leased(v)
    <3>0. v = k.version
      BY <2>2, LeasedType DEF KindsOf
    <3>2. \A l \in Leased(v) : /\ l \in Kinds /\ assigned[l] \in Nat /\ assigned'[l] \in Nat
                               /\ (l # k => assigned'[l] = assigned[l])
      BY <1>0, <1>1, <1>2, LeasedType DEF KindsOf, KeaOK
    <3>3. PICK n \in Nat : SumOf(assigned', Leased(v)) = assigned'[k] + n
                           /\ SumOf(assigned, Leased(v)) = assigned[k] + n
      BY <2>2, <3>2, LeasedType, SumChanged
    <3>4. assigned[k] = assigned'[k] + 1
      BY <1>0, <1>1 DEF KeaOK
    <3>5. assigned'[k] \in Nat
      BY <2>2, <3>2
    <3>6. Now(v) = Now(v)' + 1
      BY <2>1, <3>3, <3>4, <3>5 DEF Now
    <3>7. events'[v] = [events[v] EXCEPT !.ended = @ + 1]
      BY <1>1, <3>0 DEF EventsOK
    <3>q. QED  BY <3>6, <3>7 DEF Moves
  <2>3. CASE k \notin Leased(v)
    <3>1. \A l \in Leased(v) : assigned[l] \in Nat /\ assigned'[l] = assigned[l]
      BY <1>0, <1>1, <2>3, LeasedType DEF KindsOf, KeaOK
    <3>2. Now(v)' = Now(v)
      BY <2>1, <3>1, LeasedType, SumSame DEF Now
    <3>3. events'[v] = events[v] \/ events'[v] = [events[v] EXCEPT !.ended = @ + 1]
      BY <1>1 DEF EventsOK
    <3>q. QED  BY <3>2, <3>3 DEF Moves
  <2>q. QED  BY <2>2, <2>3
<1>q. QED  BY <1>2, <1>3, <1>4 DEF KeaMoves

LEMMA PoolMoves ==
    ASSUME KeaOK, EventsOK, NEW k \in Kinds, PoolsChanged(k)
    PROVE  KeaOK' /\ events' \in [Versions -> Happenings] /\ KeaMoves
<1>0. k.version \in Versions /\ MaxLeases \in Nat /\ MaxEvents \in Nat
  BY DhcpCollectorAssumption DEF Kinds, Versions
<1>1. /\ pooled' = [pooled EXCEPT ![k] = 1 - @] /\ UNCHANGED assigned /\ Happened < MaxEvents
      /\ events' = [events EXCEPT ![k.version].pools = @ + 1]
  BY DEF PoolsChanged
<1>2. KeaOK'
  BY <1>1 DEF KeaOK
<1>3. events' \in [Versions -> Happenings]
  <2>1. events[k.version].pools < MaxEvents
    BY <1>0, <1>1, MoreCanHappen
  <2>2. [events[k.version] EXCEPT !.pools = @ + 1] \in Happenings
    BY <1>0, <2>1 DEF EventsOK, Happenings
  <2>3. events' = [events EXCEPT ![k.version] = [events[k.version] EXCEPT !.pools = @ + 1]]
    BY <1>1
  <2>q. QED  BY <1>0, <2>2, <2>3 DEF EventsOK
<1>4. ASSUME NEW v \in Versions PROVE Moves(Now(v), events[v], Now(v)', events'[v])
  <2>1. CASE v = k.version
    <3>1. events'[v] = [events[v] EXCEPT !.pools = @ + 1]
      BY <1>1, <2>1 DEF EventsOK
    <3>q. QED  BY <3>1 DEF Moves
  <2>2. CASE v # k.version
    <3>1. \A l \in KindsOf(v) : pooled'[l] = pooled[l]
      BY <1>1, <2>2 DEF KindsOf, KeaOK
    <3>2. Leased(v)' = Leased(v)
      <4>1. Leased(v)' = {l \in KindsOf(v) : \E j \in KindsOf(v) : j.subnet = l.subnet /\ pooled'[j] # 0}
        BY DEF Leased, KindsOf
      <4>q. QED  BY <3>1, <4>1 DEF Leased
    <3>3. Now(v)' = Now(v) /\ events'[v] = events[v]
      BY <1>1, <2>2, <3>2 DEF Now, EventsOK
    <3>q. QED  BY <3>3 DEF Moves
  <2>q. QED  BY <2>1, <2>2
<1>q. QED  BY <1>2, <1>3, <1>4 DEF KeaMoves

\* The largest count is a number.
LEMMA MaxCountType == MaxCount \in Nat
<1>1. Cardinality(Kinds) \in Nat /\ MaxLeases \in Nat
  BY FiniteKinds, FS_CardinalityType, DhcpCollectorAssumption
<1>q. QED  BY <1>1 DEF MaxCount

\* Of a step that says nothing, nothing has to be shown.
Told0 == /\ period.time \in 0 .. MaxTime /\ period.kept \in BOOLEAN
         /\ exported \in [leases : 0 .. MaxCount, right : 0 .. MaxCount]
         /\ CountedRight /\ LpsTrue

\* When nothing is kept or exported, nothing is told.
LEMMA SilentKeeps == ASSUME Silent PROVE Told0'
<1>1. MaxCount \in Nat /\ MaxTime \in Nat
  BY MaxCountType, DhcpCollectorAssumption
<1>2. period'.time = 0 /\ period'.kept = FALSE /\ exported'.leases = exported'.right
  BY DEF Silent, NoPeriod, NoExport
<1>3. exported' \in [leases : 0 .. MaxCount, right : 0 .. MaxCount]
  BY <1>1 DEF Silent, NoExport
<1>4. LpsTrue' /\ CountedRight'
  BY <1>2 DEF LpsTrue, CountedRight
<1>5. period'.time \in 0 .. MaxTime
  BY <1>1, <1>2
<1>6. period'.kept \in BOOLEAN
  BY <1>2
<1>q. QED  BY <1>3, <1>4, <1>5, <1>6, Zenon DEF Told0

\* Events and marks are counts.
LEMMA EventTypes ==
    ASSUME EventsOK, NEW v \in Versions
    PROVE  events[v] \in EventRecord /\ mark[v] \in EventRecord
  BY DhcpCollectorAssumption DEF EventsOK, EventRecord, Happenings

\* The count of a server is a number.
LEMMA CountType == ASSUME AnswersOK, NEW v \in Versions PROVE Count(v) \in Nat
  BY CountsAdd DEF Versions

\* kea's steps, and time.
LEMMA KeaKeeps ==
    ASSUME DhcpInv, KeaOK', events' \in [Versions -> Happenings], KeaMoves,
           UNCHANGED <<job, phase, answer, mark, lastAssigned, lps>>, gone' \in 0 .. MaxTime, Silent
    PROVE  DhcpInv'
<1>0. KeaOK /\ AskingOK /\ EventsOK /\ KeptOK /\ Tied /\ AnswersOK
  BY DEF DhcpInv, AskingOK
<1>1. AskingOK'
  BY <1>0 DEF AskingOK, AnswersOK
<1>2. \A v \in Versions : (Answered(v)' <=> Answered(v)) /\ Count(v)' = Count(v)
  BY DEF Answered, Count
<1>3. \A v \in Versions :
        /\ events[v] \in EventRecord /\ mark[v] \in EventRecord /\ Count(v) \in Nat
        /\ Now(v) \in Nat /\ Now(v)' \in Nat /\ AtMost(mark[v], events[v])
        /\ Moves(Now(v), events[v], Now(v)', events'[v])
  BY <1>0, EventTypes, CountType, NowType DEF KeaMoves, EventsOK
<1>4. \A v \in Versions :
        /\ Less(events[v], mark[v]) \in EventRecord /\ AtMost(mark[v], events'[v])
        /\ Moves(Now(v), Less(events[v], mark[v]), Now(v)', Less(events'[v], mark[v]))
  BY <1>3, MoveLess
<1>5. EventsOK'
  BY <1>0, <1>2, <1>4 DEF EventsOK
<1>6. Tied'
  <2>1. PICK L \in [Versions -> Nat] : lastAssigned = L[4] + L[6] /\ \A v \in Versions : TiedTo(L, v)
    BY <1>0 DEF Tied
  <2>2. ASSUME NEW v \in Versions PROVE TiedTo(L, v)'
    <3>0. L[v] \in Nat
      OBVIOUS
    <3>1. Tie(L[v], Now(v)', events'[v])
      BY <2>1, <1>3, <3>0, MoveTie DEF TiedTo
    <3>2. ASSUME Answered(v) PROVE Tie(L[v], Count(v), mark[v]) /\ Tie(Count(v), Now(v)', Less(events'[v], mark[v]))
      <4>1. Tie(L[v], Count(v), mark[v]) /\ Tie(Count(v), Now(v), Less(events[v], mark[v]))
        BY <2>1, <3>2 DEF TiedTo
      <4>q. QED  BY <4>1, <1>3, <1>4, MoveTie
    <3>q. QED  BY <1>2, <3>1, <3>2 DEF TiedTo
  <2>q. QED  BY <2>1, <2>2 DEF Tied
<1>7. KeptOK' /\ CountedRight' /\ LpsTrue'
  BY <1>0, SilentKeeps DEF KeptOK, Told0
<1>q. QED  BY <1>1, <1>5, <1>6, <1>7 DEF DhcpInv

LEMMA TimeKeeps == ASSUME DhcpInv, TimeGoes PROVE DhcpInv'
<1>1. /\ UNCHANGED <<keaVars, job, phase, answer, mark, lastAssigned, lps, events>>
      /\ gone' = gone + 1 /\ gone < MaxTime /\ Silent
  BY DEF TimeGoes
<1>2. gone' \in 0 .. MaxTime
  BY <1>1, DhcpCollectorAssumption DEF DhcpInv, KeptOK
<1>3. KeaOK' /\ events' \in [Versions -> Happenings]
  BY <1>1 DEF DhcpInv, KeaOK, EventsOK, keaVars
<1>4. \A v \in Versions : Now(v)' = Now(v) /\ events'[v] = events[v]
  BY <1>1 DEF Now, Leased, keaVars
<1>5. KeaMoves
  BY <1>4 DEF KeaMoves, Moves
<1>q. QED  BY <1>1, <1>2, <1>3, <1>5, KeaKeeps

\* What the two jobs do leaves kea alone.
LEMMA NowStays == ASSUME UNCHANGED keaVars PROVE \A v : Now(v)' = Now(v)
  BY DEF Now, Leased, keaVars

\* Nobody is asked, or somebody is, and nothing is marked.
LEMMA UnmarkedKeeps ==
    ASSUME DhcpInv, UNCHANGED <<keaVars, events, keptVars>>, AskingOK', Silent,
           \A v \in Versions : ~Answered(v)', mark' = Nowhere
    PROVE  DhcpInv'
<1>0. KeaOK /\ EventsOK /\ KeptOK /\ Tied
  BY DEF DhcpInv
<1>1. KeaOK' /\ \A v \in Versions : Now(v)' = Now(v)
  BY <1>0, NowStays DEF KeaOK, keaVars
<1>2. EventsOK'
  <2>1. \A v \in Versions : events[v] \in EventRecord
    BY <1>0, EventTypes
  <2>2. \A v \in Versions : mark'[v] = None /\ AtMost(None, events[v])
    BY <2>1 DEF Nowhere, None, AtMost, EventRecord
  <2>3. mark' \in [Versions -> Happenings]
    BY DhcpCollectorAssumption DEF Nowhere, None, Happenings
  <2>q. QED  BY <1>0, <2>2, <2>3 DEF EventsOK
<1>3. Tied'
  <2>1. PICK L \in [Versions -> Nat] : lastAssigned = L[4] + L[6] /\ \A v \in Versions : TiedTo(L, v)
    BY <1>0 DEF Tied
  <2>2. \A v \in Versions : TiedTo(L, v)'
    BY <1>1, <2>1 DEF TiedTo
  <2>q. QED  BY <2>1, <2>2 DEF Tied, keptVars
<1>4. KeptOK' /\ CountedRight' /\ LpsTrue'
  BY <1>0, SilentKeeps DEF KeptOK, Told0, keptVars
<1>q. QED  BY <1>1, <1>2, <1>3, <1>4 DEF DhcpInv

\* No answer is a proper one.
LEMMA NoneAnswered == \A v : Proper(v, {})
  BY FS_EmptySet DEF Proper

\* A collector at rest has no answer and no mark.
LEMMA RestAsks == ASSUME Rest PROVE AskingOK' /\ (\A v \in Versions : ~Answered(v)') /\ mark' = Nowhere
<1>1. \A v \in Versions : answer'[v] = {}
  BY DEF Rest
<1>2. AnswersOK'
  BY <1>1, NoneAnswered DEF AnswersOK
<1>3. answer' \in [Versions -> SUBSET [name : {"total", "assigned"}, of : Kinds, value : Nat]]
  BY DEF Rest
<1>q. QED  BY <1>2, <1>3 DEF Rest, AskingOK, Answered

LEMMA MarkIsNowhere ==
    ASSUME EventsOK, \A v \in Versions : ~Answered(v) PROVE mark = Nowhere
  BY DEF EventsOK, Nowhere

\* The collector's steps: asking, failing, being answered, counting.
LEMMA BeginKeeps == ASSUME DhcpInv, NEW j \in {"sample", "scrape"}, Begin(j) PROVE DhcpInv'
<1>1. AskingOK'
  BY DEF DhcpInv, AskingOK, AnswersOK, Begin
<1>2. \A v \in Versions : ~Answered(v) /\ ~Answered(v)'
  BY DEF Begin, Answered
<1>3. mark' = Nowhere
  BY <1>2, MarkIsNowhere DEF DhcpInv, Begin
<1>q. QED  BY <1>1, <1>2, <1>3, UnmarkedKeeps DEF Begin

\* A server that does not answer ends the job.
LEMMA FailsKeeps == ASSUME DhcpInv, Fails PROVE DhcpInv'
<1>1. CASE job = "sample"
  <2>1. Rest
    BY <1>1 DEF Fails
  <2>q. QED  BY <2>1, RestAsks, UnmarkedKeeps DEF Fails
<1>2. CASE job # "sample"
  <2>1. /\ phase' = After(Asked) /\ UNCHANGED <<job, answer, mark>> /\ phase \in {"ask4", "ask6"}
    BY <1>2 DEF Fails
  <2>2. AskingOK'
    BY <2>1 DEF DhcpInv, AskingOK, AnswersOK, After
  <2>3. \A v \in Versions : ~Answered(v) /\ ~Answered(v)'
    BY <1>2, <2>1 DEF Answered
  <2>4. mark' = Nowhere
    BY <2>1, <2>3, MarkIsNowhere DEF DhcpInv
  <2>q. QED  BY <2>2, <2>3, <2>4, UnmarkedKeeps DEF Fails
<1>q. QED  BY <1>1, <1>2

\* The answer tells what the server leases when it answers.
LEMMA AnswersKeeps == ASSUME DhcpInv, Answers PROVE DhcpInv'
<1>a. PICK a \in Versions : a = Asked
  BY DEF Asked, Versions
<1>0. KeaOK /\ AskingOK /\ EventsOK /\ KeptOK /\ Tied /\ AnswersOK
  BY DEF DhcpInv, AskingOK
<1>1. /\ phase \in {"ask4", "ask6"} /\ answer' = [answer EXCEPT ![a] = Statistics(a)]
      /\ mark' = IF job = "sample" THEN [mark EXCEPT ![a] = events[a]] ELSE mark
      /\ phase' = After(a) /\ UNCHANGED <<keaVars, job, events, keptVars>> /\ Silent
  BY <1>a DEF Answers
<1>2. a \in Versions /\ (phase = "ask4" => a = 4) /\ (phase = "ask6" => a = 6)
  BY <1>1, <1>a DEF Asked, Versions
<1>3. KeaOK' /\ \A v \in Versions : Now(v)' = Now(v)
  BY <1>0, <1>1, NowStays DEF KeaOK, keaVars
<1>4. /\ answer'[a] = Statistics(a) /\ \A v \in Versions : v # a => answer'[v] = answer[v]
      /\ Statistics(a) \in SUBSET [name : {"total", "assigned"}, of : Kinds, value : Nat]
  BY <1>0, <1>1, <1>2, StatisticsProper DEF AskingOK, Proper, Stat
<1>5. AnswersOK'
  <2>1. Proper(a, answer'[a]) /\ \A s \in answer'[a] :
            s.value \in (0 .. 1) \cup (0 .. MaxLeases) /\ (s.name = "assigned" => s.value \in 0 .. MaxLeases)
    BY <1>0, <1>2, <1>4, StatisticsProper
  <2>q. QED  BY <1>0, <1>4, <2>1 DEF AnswersOK
<1>6. AskingOK'
  BY <1>0, <1>1, <1>2, <1>4, <1>5 DEF AskingOK, After
<1>7. /\ Answered(a)' <=> job = "sample"
      /\ \A v \in Versions : v # a => (Answered(v)' <=> Answered(v))
  <2>1. CASE phase = "ask4"
    BY <1>1, <1>2, <2>1 DEF Answered, After, Versions
  <2>2. CASE phase = "ask6"
    BY <1>1, <1>2, <2>2 DEF Answered, After, Versions
  <2>q. QED  BY <1>1, <2>1, <2>2
<1>8. Count(a)' = Now(a) /\ \A v \in Versions : v # a => Count(v)' = Count(v)
  BY <1>0, <1>2, <1>4, StatisticsTell DEF Count
<1>9. /\ job = "sample" => mark'[a] = events[a]
      /\ job # "sample" => mark' = mark
      /\ \A v \in Versions : v # a => mark'[v] = mark[v]
      /\ mark' \in [Versions -> Happenings]
  BY <1>0, <1>1, <1>2 DEF EventsOK
<1>10. \A v \in Versions : events[v] \in EventRecord /\ mark[v] \in EventRecord /\ Now(v) \in Nat
  BY <1>0, EventTypes, NowType
<1>11. EventsOK'
  <2>1. AtMost(events[a], events[a])
    BY <1>2, <1>10 DEF AtMost, EventRecord
  <2>2. ASSUME NEW v \in Versions PROVE AtMost(mark'[v], events[v]) /\ (~Answered(v)' => mark'[v] = None)
    <3>1. CASE v = a /\ job = "sample"
      BY <1>7, <1>9, <2>1, <3>1
    <3>2. CASE v = a /\ job # "sample"
      <4>1. ~Answered(v)
        BY <3>2 DEF Answered
      <4>q. QED  BY <1>0, <1>9, <3>2, <4>1 DEF EventsOK
    <3>3. CASE v # a
      BY <1>0, <1>7, <1>9, <3>3 DEF EventsOK
    <3>q. QED  BY <3>1, <3>2, <3>3
  <2>q. QED  BY <1>0, <1>1, <1>9, <2>2 DEF EventsOK
<1>12. Tied'
  <2>1. PICK L \in [Versions -> Nat] : lastAssigned = L[4] + L[6] /\ \A v \in Versions : TiedTo(L, v)
    BY <1>0 DEF Tied
  <2>2. ASSUME NEW v \in Versions PROVE TiedTo(L, v)'
    <3>1. Tie(L[v], Now(v)', events'[v])
      BY <1>1, <1>3, <2>1 DEF TiedTo
    <3>2. CASE v = a
      <4>1. Tie(Now(v), Now(v), Less(events[v], events[v]))
        BY <1>10 DEF Tie, Less, EventRecord
      <4>2. Tie(L[v], Now(v), events[v])
        BY <2>1 DEF TiedTo
      <4>q. QED  BY <1>1, <1>3, <1>7, <1>8, <1>9, <3>1, <3>2, <4>1, <4>2 DEF TiedTo
    <3>3. CASE v # a
      BY <1>1, <1>3, <1>7, <1>8, <1>9, <2>1, <3>3 DEF TiedTo
    <3>q. QED  BY <3>2, <3>3
  <2>q. QED  BY <1>1, <2>1, <2>2 DEF Tied, keptVars
<1>13. KeptOK' /\ CountedRight' /\ LpsTrue'
  BY <1>0, <1>1, SilentKeeps DEF KeptOK, Told0, keptVars
<1>q. QED  BY <1>3, <1>6, <1>11, <1>12, <1>13 DEF DhcpInv

\* A scrape exports a right count.
LEMMA ExportKeeps ==
    ASSUME DhcpInv, NEW count4 \in Counts(4), NEW count6 \in Counts(6), Export(count4 + count6),
           Rest, UNCHANGED keaVars
    PROVE  DhcpInv'
<1>0. KeaOK /\ AskingOK /\ EventsOK /\ KeptOK /\ Tied /\ AnswersOK
  BY DEF DhcpInv, AskingOK
<1>1. exported'.leases = exported'.right /\ exported' \in [leases : 0 .. MaxCount, right : 0 .. MaxCount]
  BY <1>0, CountIsRight, CountsAdd, RightIsSum DEF Export
<1>2. period' = NoPeriod /\ UNCHANGED <<lastAssigned, lps, gone, events>>
  BY DEF Export
<1>3. KeaOK' /\ \A v \in Versions : Now(v)' = Now(v)
  BY <1>0, NowStays DEF KeaOK, keaVars
<1>4. AskingOK' /\ (\A v \in Versions : ~Answered(v)') /\ mark' = Nowhere
  BY RestAsks
<1>5. EventsOK'
  <2>1. \A v \in Versions : events[v] \in EventRecord
    BY <1>0, EventTypes
  <2>2. \A v \in Versions : mark'[v] = None /\ AtMost(None, events[v])
    BY <1>4, <2>1 DEF Nowhere, None, AtMost, EventRecord
  <2>3. mark' \in [Versions -> Happenings]
    BY <1>4, DhcpCollectorAssumption DEF Nowhere, None, Happenings
  <2>q. QED  BY <1>0, <1>2, <2>2, <2>3 DEF EventsOK
<1>6. Tied'
  <2>1. PICK L \in [Versions -> Nat] : lastAssigned = L[4] + L[6] /\ \A v \in Versions : TiedTo(L, v)
    BY <1>0 DEF Tied
  <2>2. \A v \in Versions : TiedTo(L, v)'
    BY <1>2, <1>3, <1>4, <2>1 DEF TiedTo
  <2>q. QED  BY <1>2, <2>1, <2>2 DEF Tied
<1>7. period'.kept = FALSE /\ period'.time \in 0 .. MaxTime
  BY <1>2, DhcpCollectorAssumption DEF NoPeriod
<1>8. CountedRight' /\ LpsTrue'
  BY <1>1, <1>7 DEF CountedRight, LpsTrue
<1>9. period'.kept \in BOOLEAN
  BY <1>7
<1>10. lastAssigned' \in 0 .. MaxCount /\ lps' \in 0 .. MaxCount /\ gone' \in 0 .. MaxTime
  BY <1>0, <1>2 DEF KeptOK
<1>11. KeptOK'
  BY <1>1, <1>7, <1>9, <1>10, Zenon DEF KeptOK
<1>q. QED  BY <1>3, <1>4, <1>5, <1>6, <1>8, <1>11 DEF DhcpInv

\* The rate of what two numbers rose to, if it did.
LEMMA RateOfRise ==
    ASSUME NEW last \in Nat, NEW count \in Nat, count >= last, NEW time \in Nat \ {0},
           NEW granted \in Nat, NEW ended \in Nat,
           count <= last + granted, last + granted <= count + ended
    PROVE  LET r == (count - last) \div time
           IN  /\ r \in 0 .. count
               /\ r * time <= granted
               /\ granted < (r + 1) * time + ended
<1> DEFINE d == count - last
           r == d \div time
<1>1. d \in Nat /\ d <= count /\ d <= granted /\ granted <= d + ended
  OBVIOUS
<1> HIDE DEF d
<1>2. r \in Nat /\ r * time <= d /\ d + 1 <= (r + 1) * time
  BY <1>1, Divided
<1>3. r * time \in Nat /\ (r + 1) * time \in Nat
  BY <1>2, Products
<1>4. r <= r * time
  <2>1. r * 1 <= r * time /\ r * 1 = r
    BY <1>2, Products
  <2>q. QED  BY <2>1
<1> HIDE DEF r
<1>5. r \in 0 .. count /\ r * time <= granted /\ granted < (r + 1) * time + ended
  BY <1>1, <1>2, <1>3, <1>4
<1>q. QED  BY <1>5 DEF r, d

\* A rate is at most what was counted.
LEMMA RateBound ==
    ASSUME NEW last \in Nat, NEW count \in Nat, count >= last, NEW time \in Nat \ {0}
    PROVE  (count - last) \div time \in 0 .. count
<1> DEFINE d == count - last
<1>1. d \in Nat /\ d <= count
  OBVIOUS
<1> HIDE DEF d
<1>2. d \div time \in Nat /\ (d \div time) * time <= d
  BY <1>1, Divided
<1>3. d \div time <= (d \div time) * time /\ (d \div time) * time \in Nat
  <2>1. (d \div time) * 1 <= (d \div time) * time /\ (d \div time) * 1 = d \div time
    BY <1>2, Products
  <2>q. QED  BY <1>2, <2>1, Products
<1>q. QED  BY <1>1, <1>2, <1>3 DEF d

\* A sample stores a right count and a true rate.
LEMMA StoreKeeps ==
    ASSUME DhcpInv, phase = "count", job = "sample", NEW count4 \in Counts(4), NEW count6 \in Counts(6),
           Store(count4 + count6), Rest, UNCHANGED keaVars
    PROVE  DhcpInv'
<1>0. KeaOK /\ AskingOK /\ EventsOK /\ KeptOK /\ Tied /\ AnswersOK /\ LpsTrue
  BY DEF DhcpInv, AskingOK
<1>v. 4 \in Versions /\ 6 \in Versions /\ MaxCount \in Nat /\ MaxTime \in Nat
  BY MaxCountType, DhcpCollectorAssumption DEF Versions
<1>1. PICK count \in 0 .. MaxCount : count = count4 + count6 /\ count = Count(4) + Count(6)
  BY <1>0, CountIsRight, CountsAdd
<1>2. Count(4) \in Nat /\ Count(6) \in Nat
  BY <1>0, CountsAdd
<1> DEFINE rises == gone > 0 /\ lastAssigned # 0 /\ count >= lastAssigned
<1>3. /\ lps' = IF rises THEN (count - lastAssigned) \div gone ELSE lps
      /\ lastAssigned' = count /\ gone' = 0
      /\ exported' = NoExport
      /\ period' = [granted |-> mark[4].granted + mark[6].granted, ended |-> mark[4].ended + mark[6].ended,
                    pools |-> mark[4].pools + mark[6].pools, time |-> gone, kept |-> rises]
      /\ events' = [v \in Versions |-> Less(events[v], mark[v])]
  BY <1>1 DEF Store, Less
<1>4. KeaOK' /\ \A v \in Versions : Now(v)' = Now(v)
  BY <1>0, NowStays DEF KeaOK, keaVars
<1>5. AskingOK' /\ (\A v \in Versions : ~Answered(v)') /\ mark' = Nowhere
  BY RestAsks
<1>6. \A v \in Versions : /\ events[v] \in Happenings /\ mark[v] \in Happenings /\ AtMost(mark[v], events[v])
                          /\ events[v] \in EventRecord /\ mark[v] \in EventRecord
  BY <1>0, EventTypes DEF EventsOK
<1>7. EventsOK'
  <2>0. MaxEvents \in Nat
    BY DhcpCollectorAssumption
  <2>1. \A v \in Versions : Less(events[v], mark[v]) \in Happenings
    BY <1>6, <2>0 DEF Less, AtMost, Happenings
  <2>2. events' \in [Versions -> Happenings]
    BY <1>3, <2>1
  <2>3. \A v \in Versions : mark'[v] = None /\ AtMost(None, events'[v])
    BY <1>3, <1>5, <2>0, <2>1 DEF Nowhere, None, AtMost, Happenings
  <2>4. mark' \in [Versions -> Happenings]
    BY <1>5, <2>0 DEF Nowhere, None, Happenings
  <2>q. QED  BY <2>2, <2>3, <2>4 DEF EventsOK
<1>8. PICK L \in [Versions -> Nat] : lastAssigned = L[4] + L[6] /\ \A v \in Versions : TiedTo(L, v)
  BY <1>0 DEF Tied
<1>9. \A v \in Versions : /\ Tie(L[v], Count(v), mark[v])
                          /\ Tie(Count(v), Now(v), Less(events[v], mark[v]))
  BY <1>8 DEF TiedTo, Answered
<1>10. Tied'
  <2> DEFINE M == [v \in Versions |-> Count(v)]
  <2>1. PICK N \in [Versions -> Nat] : \A v \in Versions : N[v] = Count(v)
    <3>1. M \in [Versions -> Nat] /\ \A v \in Versions : M[v] = Count(v)
      BY <1>2 DEF Versions
    <3>q. QED  BY <3>1
  <2>2. lastAssigned' = N[4] + N[6]
    BY <1>1, <1>3, <1>v, <2>1
  <2>3. ASSUME NEW v \in Versions PROVE TiedTo(N, v)'
    <3>1. events'[v] = Less(events[v], mark[v])
      BY <1>3
    <3>q. QED  BY <1>4, <1>5, <1>9, <2>1, <3>1 DEF TiedTo
  <2>q. QED  BY <2>2, <2>3 DEF Tied
<1>11. lastAssigned \in Nat /\ lps \in 0 .. MaxCount /\ gone \in 0 .. MaxTime
  BY <1>0, <1>v DEF KeptOK
<1>12. lps' \in 0 .. MaxCount
  <2>1. CASE rises
    <3>1. (count - lastAssigned) \div gone \in 0 .. count
      BY <1>11, <1>v, <2>1, RateBound
    <3>2. lps' = (count - lastAssigned) \div gone
      BY <1>3, <2>1
    <3>q. QED  BY <1>v, <3>1, <3>2
  <2>2. CASE ~rises
    BY <1>3, <1>11, <2>2
  <2>q. QED  BY <2>1, <2>2
<1>13. LpsTrue'
  <2> SUFFICES ASSUME period'.kept, period'.pools = 0
               PROVE  /\ lps' * period'.time <= period'.granted
                      /\ period'.granted < (lps' + 1) * period'.time + period'.ended
    BY DEF LpsTrue
  <2>1. rises
    <3> HIDE DEF rises
    <3>1. period'.kept = rises
      BY <1>3
    <3>q. QED  BY <3>1
  <2>2. /\ mark[4].granted \in Nat /\ mark[4].ended \in Nat /\ mark[4].pools \in Nat
        /\ mark[6].granted \in Nat /\ mark[6].ended \in Nat /\ mark[6].pools \in Nat
    BY <1>6, <1>v DEF EventRecord
  <2>3. /\ period'.granted = mark[4].granted + mark[6].granted
        /\ period'.ended = mark[4].ended + mark[6].ended
        /\ period'.pools = mark[4].pools + mark[6].pools
        /\ period'.time = gone
    BY <1>3
  <2>4. mark[4].pools = 0 /\ mark[6].pools = 0
    BY <2>2, <2>3
  <2>5. /\ Count(4) <= L[4] + mark[4].granted /\ L[4] + mark[4].granted <= Count(4) + mark[4].ended
        /\ Count(6) <= L[6] + mark[6].granted /\ L[6] + mark[6].granted <= Count(6) + mark[6].ended
    BY <1>9, <1>v, <2>4 DEF Tie
  <2>6. L[4] \in Nat /\ L[6] \in Nat
    BY <1>v
  <2>7. PICK granted \in Nat, ended \in Nat : granted = period'.granted /\ ended = period'.ended
    BY <2>2, <2>3
  <2>8. count <= lastAssigned + granted /\ lastAssigned + granted <= count + ended
    BY <1>1, <1>2, <1>8, <2>2, <2>3, <2>5, <2>6, <2>7
  <2>9. /\ count \in Nat /\ count >= lastAssigned /\ gone \in Nat \ {0}
    BY <1>11, <1>v, <2>1
  <2>10. LET r == (count - lastAssigned) \div gone
         IN  r * gone <= granted /\ granted < (r + 1) * gone + ended
    BY <1>11, <2>8, <2>9, RateOfRise
  <2>11. lps' = (count - lastAssigned) \div gone
    BY <1>3, <2>1
  <2>q. QED  BY <2>3, <2>7, <2>10, <2>11
<1>14. exported' \in [leases : 0 .. MaxCount, right : 0 .. MaxCount] /\ CountedRight'
  BY <1>3, <1>v DEF NoExport, CountedRight
<1>15. period'.kept \in BOOLEAN
  <2>1. rises \in BOOLEAN
    OBVIOUS
  <2> HIDE DEF rises
  <2>2. period'.kept = rises
    BY <1>3
  <2>q. QED  BY <2>1, <2>2
<1>16. period'.time \in 0 .. MaxTime
  BY <1>3, <1>11
<1>17. lastAssigned' \in 0 .. MaxCount /\ gone' \in 0 .. MaxTime
  BY <1>1, <1>3, <1>v
<1>18. KeptOK'
  BY <1>12, <1>14, <1>15, <1>16, <1>17, Zenon DEF KeptOK
<1>q. QED  BY <1>4, <1>5, <1>7, <1>10, <1>13, <1>14, <1>18 DEF DhcpInv

\* Either follows from the count.
LEMMA FinishKeeps == ASSUME DhcpInv, Finish PROVE DhcpInv'
<1>1. PICK count4 \in Counts(4), count6 \in Counts(6) :
          IF job = "sample" THEN Store(count4 + count6) ELSE Export(count4 + count6)
  BY DEF Finish
<1>2. phase = "count" /\ Rest /\ UNCHANGED keaVars
  BY DEF Finish
<1>3. CASE job = "sample"
  BY <1>1, <1>2, <1>3, StoreKeeps
<1>4. CASE job # "sample"
  BY <1>1, <1>2, <1>4, ExportKeeps
<1>q. QED  BY <1>3, <1>4

-----------------------------------------------------------------------------
(* The steps of the collector.                                             *)

\* It holds at first, and each step of the servers and the collector keeps it.
LEMMA DhcpInit == DhcpCollectorInit => DhcpInv
<1> SUFFICES ASSUME DhcpCollectorInit PROVE DhcpInv
  OBVIOUS
<1>0. MaxCount \in Nat /\ MaxTime \in Nat /\ MaxLeases \in Nat /\ MaxEvents \in Nat
  BY MaxCountType, DhcpCollectorAssumption
<1>1. KeaOK
  BY <1>0 DEF DhcpCollectorInit, KeaOK
<1>2. \A v \in Versions : answer[v] = {} /\ ~Answered(v) /\ events[v] = None /\ mark[v] = None
  BY DEF DhcpCollectorInit, Answered, Nowhere
<1>3. AnswersOK
  BY <1>2, NoneAnswered DEF AnswersOK
<1>4. AskingOK
  BY <1>3 DEF DhcpCollectorInit, AskingOK
<1>5. EventsOK
  <2>1. AtMost(None, None) /\ None \in Happenings
    BY <1>0 DEF AtMost, None, Happenings
  <2>q. QED  BY <1>2, <2>1 DEF EventsOK, DhcpCollectorInit, Nowhere
<1>6. \A v \in Versions : Now(v) = 0
  <2> SUFFICES ASSUME NEW v \in Versions PROVE Now(v) = 0
    OBVIOUS
  <2>1. IsFiniteSet(Leased(v)) /\ Leased(v) \in SUBSET KindsOf(v)
    BY LeasedType
  <2>2. \A k \in Leased(v) : assigned[k] \in 0 .. 0
    BY <2>1 DEF KindsOf, DhcpCollectorInit
  <2>3. SumOf(assigned, Leased(v)) \in 0 .. 0 * Cardinality(Leased(v)) /\ Cardinality(Leased(v)) \in Nat
    BY <2>1, <2>2, SumBound, FS_CardinalityType
  <2>q. QED  BY <2>3 DEF Now
<1>7. Tied
  <2> DEFINE L == [v \in Versions |-> 0]
  <2>1. L \in [Versions -> Nat] /\ \A v \in Versions : L[v] = 0
    OBVIOUS
  <2> HIDE DEF L
  <2>2. lastAssigned = L[4] + L[6]
    BY <2>1 DEF DhcpCollectorInit, Versions
  <2>3. Tie(0, 0, None)
    BY DEF Tie, None
  <2>4. \A v \in Versions : TiedTo(L, v)
    BY <1>2, <1>6, <2>1, <2>3 DEF TiedTo
  <2>q. QED  BY <2>1, <2>2, <2>4 DEF Tied
<1>8. /\ lastAssigned \in 0 .. MaxCount /\ lps \in 0 .. MaxCount /\ gone \in 0 .. MaxTime
      /\ period.time \in 0 .. MaxTime /\ period.kept = FALSE
      /\ exported \in [leases : 0 .. MaxCount, right : 0 .. MaxCount]
  BY <1>0 DEF DhcpCollectorInit, NoPeriod, NoExport
<1>9. period.kept \in BOOLEAN /\ LpsTrue
  BY <1>8 DEF LpsTrue
<1>10. CountedRight
  BY DEF DhcpCollectorInit, NoExport, CountedRight
<1>11. KeptOK
  BY <1>8, <1>9, Zenon DEF KeptOK
<1>q. QED  BY <1>1, <1>4, <1>5, <1>7, <1>9, <1>10, <1>11 DEF DhcpInv

LEMMA DhcpStep == ASSUME DhcpInv, DhcpCollectorNext PROVE DhcpInv'
<1>1. KeaOK /\ EventsOK /\ KeptOK
  BY DEF DhcpInv
<1>2. ASSUME NEW k \in Kinds, Granted(k) \/ LeaseEnded(k) \/ PoolsChanged(k) PROVE DhcpInv'
  <2>1. KeaOK' /\ events' \in [Versions -> Happenings] /\ KeaMoves
    BY <1>1, <1>2, GrantMoves, EndMoves, PoolMoves
  <2>2. UNCHANGED <<job, phase, answer, mark, lastAssigned, lps, gone>> /\ Silent
    BY <1>2 DEF Granted, LeaseEnded, PoolsChanged, keptVars
  <2>3. gone' \in 0 .. MaxTime
    BY <1>1, <2>2 DEF KeptOK
  <2>q. QED  BY <2>1, <2>2, <2>3, KeaKeeps
<1>q. QED  BY <1>2, TimeKeeps, BeginKeeps, AnswersKeeps, FailsKeeps, FinishKeeps DEF DhcpCollectorNext

LEMMA DhcpStutter == ASSUME DhcpInv, UNCHANGED dhcpCollectorVars PROVE DhcpInv'
<1>0. KeaOK /\ AskingOK /\ EventsOK /\ KeptOK /\ Tied /\ AnswersOK /\ CountedRight /\ LpsTrue
  BY DEF DhcpInv, AskingOK
<1>1. \A v : Now(v)' = Now(v) /\ Count(v)' = Count(v) /\ (Answered(v)' <=> Answered(v))
  BY DEF Now, Leased, Count, Answered, dhcpCollectorVars
<1>2. KeaOK' /\ AskingOK' /\ AnswersOK'
  BY <1>0 DEF KeaOK, AskingOK, AnswersOK, dhcpCollectorVars
<1>3. EventsOK'
  BY <1>0, <1>1 DEF EventsOK, dhcpCollectorVars
<1>4. \A L, v : TiedTo(L, v)' <=> TiedTo(L, v)
  BY <1>1 DEF TiedTo, dhcpCollectorVars
<1>5. Tied'
  BY <1>0, <1>4 DEF Tied, dhcpCollectorVars
<1>6. KeptOK' /\ CountedRight' /\ LpsTrue'
  BY <1>0 DEF KeptOK, CountedRight, LpsTrue, dhcpCollectorVars
<1>q. QED  BY <1>2, <1>3, <1>5, <1>6 DEF DhcpInv

\* So it does in every state.
LEMMA DhcpInvariant == ObserversSpec => []DhcpInv
<1>1. ObserversInit => DhcpInv
  BY DhcpInit DEF ObserversInit
<1>2. DhcpInv /\ [ObserversNext]_observersVars => DhcpInv'
  BY DhcpStep, DhcpStutter DEF ObserversNext, observersVars
<1>q. QED  BY <1>1, <1>2, PTL DEF ObserversSpec

\* Whatever order the maps are read in, the exported number of leases is that
\* of the subnets that have anything to lease, for any number of subnets, and
\* also when a server does not answer (dhcpcollector.go:153-251).
THEOREM CountsAreRight == ObserversSpec => []CountedRight
<1>1. DhcpInv => CountedRight
  BY DEF DhcpInv
<1>q. QED  BY <1>1, DhcpInvariant, PTL

\* A kept rate of leases is true of what each server granted between two
\* answers, although leases come and go between the answers of one server and
\* the other and samples fail (dhcpcollector.go:89-105).
THEOREM LeaseRateIsTrue == ObserversSpec => []LpsTrue
<1>1. DhcpInv => LpsTrue
  BY DEF DhcpInv
<1>q. QED  BY <1>1, DhcpInvariant, PTL

-----------------------------------------------------------------------------
(* Types.                                                                  *)

\* The types of the collector of leases are in its invariant.
LEMMA DhcpTypes == DhcpInv => DhcpCollectorTypeOK
<1> SUFFICES ASSUME DhcpInv PROVE DhcpCollectorTypeOK
  OBVIOUS
<1>1. KeaOK /\ AskingOK /\ AnswersOK /\ EventsOK /\ KeptOK
  BY DEF DhcpInv, AskingOK
<1>2. assigned \in [Kinds -> 0 .. MaxLeases] /\ pooled \in [Kinds -> 0 .. 1]
  BY <1>1 DEF KeaOK
<1>3. \A v \in Versions : answer[v] \subseteq [name : {"total", "assigned"}, of : Kinds,
                                               value : (0 .. 1) \cup (0 .. MaxLeases)]
  <2> SUFFICES ASSUME NEW v \in Versions, NEW a \in answer[v]
               PROVE  a \in [name : {"total", "assigned"}, of : Kinds, value : (0 .. 1) \cup (0 .. MaxLeases)]
    OBVIOUS
  <2>1. a \in [name : {"total", "assigned"}, of : Kinds, value : Nat]
    BY <1>1 DEF AskingOK
  <2>2. a.value \in (0 .. 1) \cup (0 .. MaxLeases)
    BY <1>1 DEF AnswersOK
  <2>q. QED  BY <2>1, <2>2
<1>4. /\ job \in {"none", "sample", "scrape"} /\ phase \in {"idle", "ask4", "ask6", "count"}
      /\ events \in [Versions -> Happenings] /\ mark \in [Versions -> Happenings]
  BY <1>1 DEF AskingOK, EventsOK
<1>q. QED  BY <1>1, <1>2, <1>3, <1>4, Zenon DEF KeptOK, DhcpCollectorTypeOK

-----------------------------------------------------------------------------

\* The collector of queries has its types at first.
LEMMA QueriesInit == DnsCollectorInit => DnsCollectorTypeOK
<1> SUFFICES ASSUME DnsCollectorInit PROVE DnsCollectorTypeOK
  OBVIOUS
<1>1. CounterMax \in Nat /\ MaxQueries \in Nat /\ MaxWait \in Nat
  BY DnsCollectorAssumption
<1>2. sampled \in [from : 0 .. CounterMax, queries : 0 .. MaxQueries, time : 0 .. MaxWait, renamed : BOOLEAN]
  BY <1>1 DEF DnsCollectorInit
<1>3. scraped \in [qps : 0 .. 2 * CounterMax, total : 0 .. CounterMax,
                   ratio : SUBSET Ratios, overall : SUBSET Ratios]
  BY <1>1 DEF DnsCollectorInit, Nothing
<1>4. renamed \in BOOLEAN
  BY DEF DnsCollectorInit
<1>5. /\ {counter, lastQueryCount} \subseteq 0 .. CounterMax /\ qps \in 0 .. 2 * CounterMax
      /\ queried \in 0 .. MaxQueries /\ waited \in 0 .. MaxWait
  BY <1>1 DEF DnsCollectorInit
<1>q. QED  BY <1>2, <1>3, <1>4, <1>5 DEF DnsCollectorTypeOK

\* A rate is at most twice the counter's range, for a wrap adds its size.
LEMMA QpsType ==
    ASSUME NEW c \in 0 .. CounterMax, NEW last \in 0 .. CounterMax, NEW time \in Nat
    PROVE  Rate(c, last, time) \in 0 .. 2 * CounterMax
<1>0. CounterMax \in Nat
  BY DnsCollectorAssumption
<1> DEFINE g == Growth(c, last)
<1>1. g \in Nat /\ g <= 2 * CounterMax
  BY <1>0 DEF Growth
<1> HIDE DEF g
<1>2. CASE time > 0
  <2>1. g \div time \in 0 .. g
    <3>1. (g - 0) \div time \in 0 .. g
      BY <1>1, <1>2, RateBound
    <3>2. g - 0 = g
      BY <1>1
    <3>q. QED  BY <3>1, <3>2
  <2>q. QED  BY <1>0, <1>1, <2>1 DEF Rate, g
<1>3. CASE ~(time > 0)
  BY <1>0, <1>3 DEF Rate
<1>q. QED  BY <1>2, <1>3

\* A total is at most as many of the largest as there are views.
LEMMA TotalType ==
    ASSUME NEW f \in [Views -> 0 .. MaxCached]
    PROVE  /\ Total(f) \in 0 .. MaxCached * Cardinality(Views)
           /\ MaxCached * Cardinality(Views) \in Nat
           /\ \A v \in Views : f[v] \in 0 .. MaxCached * Cardinality(Views)
<1>1. IsFiniteSet(Views) /\ MaxCached \in Nat /\ Cardinality(Views) \in Nat
  BY DnsCollectorAssumption, FS_CardinalityType
<1>2. SumOf(f, Views) \in 0 .. MaxCached * Cardinality(Views)
  BY <1>1, SumBound
<1>3. MaxCached * Cardinality(Views) \in Nat
  BY <1>1
<1>4. ASSUME NEW v \in Views PROVE f[v] \in 0 .. MaxCached * Cardinality(Views)
  <2>1. Cardinality(Views) # 0
    BY <1>1, FS_EmptySet
  <2>2. MaxCached * 1 <= MaxCached * Cardinality(Views) /\ MaxCached * 1 = MaxCached
    <3>1. 1 <= Cardinality(Views) /\ 1 \in Nat
      BY <1>1, <2>1
    <3>q. QED  BY <1>1, <3>1, Products
  <2>3. f[v] \in 0 .. MaxCached
    OBVIOUS
  <2>q. QED  BY <1>1, <1>3, <2>2, <2>3
<1>q. QED  BY <1>2, <1>3, <1>4, TotalIsSum

\* The ratios are of such numbers.
LEMMA RatiosType ==
    ASSUME NEW hits \in [Views -> 0 .. MaxCached], NEW misses \in [Views -> 0 .. MaxCached]
    PROVE  ViewRatios(hits, misses) \in SUBSET Ratios /\ Overall(hits, misses) \in SUBSET Ratios
<1> DEFINE B == MaxCached * Cardinality(Views)
<1>1. /\ B \in Nat /\ Total(hits) \in 0 .. B /\ Total(misses) \in 0 .. B
      /\ \A v \in Views : hits[v] \in 0 .. B /\ misses[v] \in 0 .. B
  BY TotalType
<1>2. 2 * MaxCached * Cardinality(Views) = B + B
  <2>1. MaxCached \in Nat /\ Cardinality(Views) \in Nat
    BY DnsCollectorAssumption, FS_CardinalityType
  <2>2. \A m, c \in Nat : 2 * m * c = m * c + m * c
    OBVIOUS
  <2>q. QED  BY <2>1, <2>2
<1> HIDE DEF B
<1>3. \A a, b \in 0 .. B : a + b # 0 => <<a, a + b>> \in (0 .. B) \X (1 .. B + B)
  BY <1>1
<1>4. Ratios = (0 .. B) \X (1 .. B + B)
  BY <1>2 DEF Ratios, B
<1>5. ViewRatios(hits, misses) \in SUBSET Ratios
  BY <1>1, <1>3, <1>4 DEF ViewRatios
<1>6. Overall(hits, misses) \in SUBSET Ratios
  BY <1>1, <1>3, <1>4 DEF Overall
<1>q. QED  BY <1>5, <1>6

\* Each step keeps the types of the collector of queries.
LEMMA QueriesStep ==
    ASSUME DnsCollectorTypeOK, DnsCollectorNext \/ UNCHANGED dnsCollectorVars PROVE DnsCollectorTypeOK'
<1>0. CounterMax \in Nat /\ MaxQueries \in Nat /\ MaxWait \in Nat
  BY DnsCollectorAssumption
<1>1. /\ counter \in 0 .. CounterMax /\ lastQueryCount \in 0 .. CounterMax /\ qps \in 0 .. 2 * CounterMax
      /\ queried \in 0 .. MaxQueries /\ waited \in 0 .. MaxWait
  BY DEF DnsCollectorTypeOK
<1>2. renamed \in BOOLEAN
  BY DEF DnsCollectorTypeOK
<1>3. sampled \in [from : 0 .. CounterMax, queries : 0 .. MaxQueries, time : 0 .. MaxWait, renamed : BOOLEAN]
  BY DEF DnsCollectorTypeOK
<1> DEFINE Scrapes == [qps : 0 .. 2 * CounterMax, total : 0 .. CounterMax,
                       ratio : SUBSET Ratios, overall : SUBSET Ratios]
<1>4. scraped \in Scrapes /\ Nothing \in Scrapes
  BY <1>0 DEF DnsCollectorTypeOK, Nothing
<1>5. /\ counter' \in 0 .. CounterMax /\ lastQueryCount' \in 0 .. CounterMax
      /\ queried' \in 0 .. MaxQueries /\ waited' \in 0 .. MaxWait
  <2>1. CASE Queried
    <3>1. counter' \in 0 .. CounterMax
      BY <1>0, <1>1, <2>1, Counted DEF Queried
    <3>q. QED  BY <1>0, <1>1, <2>1, <3>1 DEF Queried
  <2>2. CASE ~Queried
    BY <1>0, <1>1, <2>2 DEF DnsCollectorNext, TimePasses, NamedRestarts, Sample, SampleUnlisted, Collect,
                            dnsCollectorVars
  <2>q. QED  BY <2>1, <2>2
<1>6. qps' \in 0 .. 2 * CounterMax
  <2>1. CASE Sample
    BY <1>1, <2>1, QpsType DEF Sample
  <2>2. CASE ~Sample
    BY <1>0, <1>1, <2>2 DEF DnsCollectorNext, Queried, TimePasses, NamedRestarts, SampleUnlisted, Collect,
                            dnsCollectorVars
  <2>q. QED  BY <2>1, <2>2
<1>7. renamed' \in BOOLEAN
  BY <1>2 DEF DnsCollectorNext, Queried, TimePasses, NamedRestarts, Sample, SampleUnlisted, Collect,
              dnsCollectorVars
<1>8. sampled' \in [from : 0 .. CounterMax, queries : 0 .. MaxQueries, time : 0 .. MaxWait, renamed : BOOLEAN]
  <2>1. CASE Sample
    BY <1>1, <1>2, <2>1 DEF Sample
  <2>2. CASE SampleUnlisted
    BY <1>0, <1>1, <1>2, <2>2 DEF SampleUnlisted
  <2>3. CASE sampled' = sampled
    BY <1>3, <2>3
  <2>q. QED  BY <2>1, <2>2, <2>3 DEF DnsCollectorNext, Queried, TimePasses, NamedRestarts, Collect, dnsCollectorVars
<1>9. scraped' \in Scrapes
  <2>1. ASSUME NEW hits \in [Views -> 0 .. MaxCached], NEW misses \in [Views -> 0 .. MaxCached],
               Collect(hits, misses)
        PROVE  scraped' \in Scrapes
    <3>1. /\ ViewRatios(hits, misses) \in SUBSET Ratios /\ Overall(hits, misses) \in SUBSET Ratios
      BY RatiosType
    <3>q. QED  BY <1>1, <1>4, <2>1, <3>1 DEF Collect
  <2> HIDE DEF Scrapes
  <2>2. CASE scraped' = Nothing \/ scraped' = scraped
    BY <1>4, <2>2
  <2>q. QED  BY <2>1, <2>2 DEF DnsCollectorNext, Queried, TimePasses, NamedRestarts, Sample, SampleUnlisted,
                               dnsCollectorVars
<1>q. QED  BY <1>5, <1>6, <1>7, <1>8, <1>9 DEF DnsCollectorTypeOK

-----------------------------------------------------------------------------

LeaseTypes == LeasesInv /\ LeaseQueriesTypeOK

\* The calls on leases have their types at first, and keep them.
LEMMA LeaseTypesInit == ASSUME LeaseQueriesInit PROVE LeaseQueriesTypeOK
<1>1. broken \in BOOLEAN
  BY DEF LeaseQueriesInit
<1>2. changes \in 0 .. MaxChanges
  BY LeaseQueriesAssumption DEF LeaseQueriesInit
<1>3. call.kind \in {"none", "subnet", "pool", "reservation", "subnets"}
  BY DEF LeaseQueriesInit, NoCall
<1>q. QED  BY <1>1, <1>2, <1>3 DEF LeaseQueriesInit, LeaseQueriesTypeOK

LEMMA LeaseTypesStep ==
    ASSUME LeaseTypes, LeasesInv', LeaseQueriesNext \/ UNCHANGED leaseQueriesVars PROVE LeaseQueriesTypeOK'
<1>1. /\ (live \subseteq Leases /\ ever \subseteq Leases /\ always \subseteq live \cap ever)'
      /\ step' \in {"idle", "query", "rows", "answered", "failed"}
      /\ step' # "rows" => rows' = {}
  BY DEF LeasesInv, Histories
<1>2. broken' \in BOOLEAN
  BY DEF LeaseTypes, LeaseQueriesTypeOK, LeaseQueriesNext, Ask, Query, QueryRow, ReadRow, RowsEnd,
         ConnectionBreaks, QueryFails, Answer, LeaseGranted, LeaseExpires, leaseQueriesVars
<1>3. changes' \in 0 .. MaxChanges
  BY LeaseQueriesAssumption
     DEF LeaseTypes, LeaseQueriesTypeOK, LeaseQueriesNext, Ask, Query, QueryRow, ReadRow, RowsEnd,
         ConnectionBreaks, QueryFails, Answer, LeaseGranted, LeaseExpires, Goes, leaseQueriesVars
<1>4. call'.kind \in {"none", "subnet", "pool", "reservation", "subnets"}
  <2>1. call'.kind = call.kind \/ (\E c \in Calls : call' = c) \/ call' = NoCall
    <3>1. CASE RowsEnd \/ ConnectionBreaks
      <4>1. Exhausted /\ step = "rows"
        BY <3>1 DEF RowsEnd, ConnectionBreaks
      <4>2. CallRuns
        BY <4>1 DEF LeaseTypes, LeasesInv, Histories
      <4>3. CASE call.kind = "subnets" /\ call.version = 4
        <5>1. PICK v \in {4, 6} : call = [kind |-> "subnets", version |-> v, count |-> TRUE]
          BY <4>2, <4>3 DEF CallRuns
        <5>2. call' = [call EXCEPT !.version = 6]
          BY <4>1, <4>3 DEF Exhausted
        <5>q. QED  BY <5>1, <5>2
      <4>4. CASE ~(call.kind = "subnets" /\ call.version = 4)
        BY <4>1, <4>4 DEF Exhausted
      <4>q. QED  BY <4>3, <4>4
    <3>2. CASE ~(RowsEnd \/ ConnectionBreaks)
      BY <3>2 DEF LeaseQueriesNext, Ask, Query, QueryRow, ReadRow, QueryFails, Answer, LeaseGranted,
                  LeaseExpires, leaseQueriesVars
    <3>q. QED  BY <3>1, <3>2
  <2>2. \A c \in Calls : c.kind \in {"subnet", "pool", "reservation", "subnets"}
    BY LeaseQueriesAssumption DEF CallOK
  <2>q. QED  BY <2>1, <2>2 DEF LeaseTypes, LeaseQueriesTypeOK, NoCall
<1>q. QED  BY <1>1, <1>2, <1>3, <1>4 DEF LeaseQueriesTypeOK

\* Types, for any number of views, subnets, leases and calls: with the bounds
\* that the sums keep.
THEOREM ObserversTypeCorrect == ObserversSpec => []ObserversTypeOK
<1> DEFINE Types == DnsCollectorTypeOK /\ DhcpInv /\ LeaseTypes
<1>1. ObserversInit => Types
  BY QueriesInit, DhcpInit, LeasesInit, LeaseTypesInit DEF ObserversInit, LeaseTypes
<1>2. Types /\ [ObserversNext]_observersVars => Types'
  <2> SUFFICES ASSUME Types, [ObserversNext]_observersVars PROVE Types'
    OBVIOUS
  <2>1. DnsCollectorTypeOK'
    BY QueriesStep DEF ObserversNext, observersVars
  <2>2. DhcpInv'
    BY DhcpStep, DhcpStutter DEF ObserversNext, observersVars
  <2>3. LeasesInv'
    BY LeasesStep, LeasesStutter DEF ObserversNext, observersVars, LeaseTypes
  <2>4. LeaseQueriesTypeOK'
    BY <2>3, LeaseTypesStep DEF ObserversNext, observersVars
  <2>q. QED  BY <2>1, <2>2, <2>3, <2>4 DEF LeaseTypes
<1>3. Types => ObserversTypeOK
  BY DhcpTypes DEF LeaseTypes, ObserversTypeOK
<1>q. QED  BY <1>1, <1>2, <1>3, PTL DEF ObserversSpec
=============================================================================
