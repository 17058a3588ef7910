---------------------------- MODULE LeaseQueries ----------------------------
(***************************************************************************)
(* Queries for the leases in kea's database.                               *)
(*                                                                         *)
(* pkg/dhcp/grpcservice/dhcphandler.go, from Lease4 on, with the address   *)
(* functions of pkg/dhcp/util/util.go.  A statement sees the leases of one *)
(* moment; its rows are read one by one while kea goes on.  Rows end when  *)
(* there are no more and also when the connection breaks: rows.Err is not  *)
(* asked, so that either way the call succeeds with what it has.  Queries  *)
(* only read, each through a connection of its own, so that one is         *)
(* followed at a time.                                                     *)
(*                                                                         *)
(* An address is its family and a number.  A hardware address is raw bytes *)
(* in the database, and in a request the text in which the agent shows     *)
(* them.  Reading a row fails when a column is null for which the code has *)
(* no place.                                                               *)
(***************************************************************************)
EXTENDS Integers, FiniteSetsExt

CONSTANTS
    Leases,        \* leases, in state 0 while live: [version, address, subnet, hwaddr]
    Calls,         \* the calls there are
    Named,         \* the bytes a text stands for, as HardwareAddr.String has them
    AsBytes,       \* the bytes the database takes a text for: its characters,
                   \* unless they are written \x... as it writes bytes itself
    MaxChanges     \* bound on the leases granted and ended during a call

\* An IP address, as far as its order goes.
Address == [family : {4, 6}, n : Nat]

\* GetPool4Leases compares the bounds of its pool with v4 leases in SQL, and
\* GetSubnetsLeasesCount begins with the subnets of v4.
CallOK(c) ==
    /\ c.kind \in {"subnet", "pool", "reservation", "subnets"}
    /\ c.version \in {4, 6} /\ c.count \in BOOLEAN
    /\ c.kind = "pool" =>
           /\ c.begin \in Address /\ c.end \in Address
           /\ c.version = 4 => c.begin.family = 4 /\ c.end.family = 4
    /\ c.kind = "reservation" => c.count /\ c.hwaddr \in DOMAIN Named \cap DOMAIN AsBytes
    /\ c.kind = "subnets" => c = [kind |-> "subnets", version |-> 4, count |-> TRUE]

ASSUME LeaseQueriesAssumption ==
    /\ IsFiniteSet(Leases)
    /\ \A l \in Leases : l.address \in Address /\ l.version = l.address.family
    /\ \A c \in Calls : CallOK(c)
    /\ MaxChanges \in Nat

VARIABLES
    live,       \* leases in the database that have not expired
    call,       \* the call being served
    step,       \* how far it is
    rows,       \* rows of its statement not read yet
    result,     \* what has been gathered: leases, or a count of each subnet
    broken,     \* history: the connection broke while rows were read
    always,     \* history: leases live all through the call
    ever,       \* history: leases live at some time of the call
    changes     \* bounded

leaseQueriesVars == <<live, call, step, rows, result, broken, always, ever, changes>>

NoCall == [kind |-> "none", version |-> 4]

Subnets == {l.subnet : l \in Leases}

-----------------------------------------------------------------------------
(* Addresses.                                                              *)

\* Ipv4StringToUint32: what is not of v4 is 0.
Uint32(ip) == IF ip.family = 4 THEN ip.n ELSE 0

\* Mutant of OneIpLessThanAnother: families are not told apart.
NumberLessThanAnother(one, another) == one.n < another.n

OneIpLessThanAnother(one, another) ==
    \/ one.family = 4 /\ another.family # 4
    \/ one.family = another.family /\ one.n < another.n

\* BETWEEN takes the bounds in, ipV6InPool leaves them out.
InPool(c, l) ==
    IF l.version = 4
    THEN Uint32(l.address) \in Uint32(c.begin) .. Uint32(c.end)
    ELSE OneIpLessThanAnother(c.begin, l.address) /\ OneIpLessThanAnother(l.address, c.end)

-----------------------------------------------------------------------------
(* Statements.                                                             *)

\* What the statement asks of a lease; a v6 pool is no part of the statement.
Where(c, l) ==
    /\ l.version = c.version
    /\ c.kind # "subnets" => l.subnet = c.subnet
    /\ c.kind = "pool" /\ c.version = 4 => InPool(c, l)
    /\ c.kind = "reservation" => l.hwaddr = AsBytes[c.hwaddr]

\* The filter of getLease6s.
Filter(c, l) == c.kind = "pool" /\ c.version = 6 => InPool(c, l)

\* GetPool6LeasesCount reads leases and counts them; other counts are one row.
Listed(c) == c.count => c.kind = "pool" /\ c.version = 6

LeaseQueriesInit ==
    /\ live = {}
    /\ call = NoCall /\ step = "idle"
    /\ rows = {} /\ result = {} /\ broken = FALSE
    /\ always = {} /\ ever = {} /\ changes = 0

Ask(c) ==
    /\ step = "idle"
    /\ call' = c /\ step' = "query"
    /\ always' = live /\ ever' = live
    /\ changes' = 0
    /\ UNCHANGED <<live, rows, result, broken>>

\* The count of every subnet that has any.
Grouped(v) ==
    LET Of(s) == {l \in live : Where(call, l) /\ l.version = v /\ l.subnet = s}
    IN  {[subnet |-> s, version |-> v, count |-> Cardinality(Of(s))] :
            s \in {t \in Subnets : Of(t) # {}}}

\* db.Query: rows are to be read.
Query ==
    /\ step = "query"
    /\ call.kind = "subnets" \/ Listed(call)
    /\ rows' = IF call.kind = "subnets" THEN Grouped(call.version)
               ELSE {l \in live : Where(call, l)}
    /\ step' = "rows"
    /\ UNCHANGED <<live, call, result, broken, always, ever, changes>>

\* getLeasesCountFromDB: the one row is read at once.
QueryRow ==
    /\ step = "query"
    /\ call.kind # "subnets" /\ ~Listed(call)
    /\ result' = {Cardinality({l \in live : Where(call, l)})}
    /\ step' = "answered"
    /\ UNCHANGED <<live, call, rows, broken, always, ever, changes>>

\* Mutant of Gathered: the count that was read first stays.
GatheredFirst(row) ==
    IF call.kind = "subnets" /\ \E r \in result : r.subnet = row.subnet THEN result
    ELSE IF Filter(call, row) THEN result \cup {row} ELSE result

\* A count read later replaces one of the same subnet.
Gathered(row) ==
    IF call.kind = "subnets" THEN {r \in result : r.subnet # row.subnet} \cup {row}
    ELSE IF Filter(call, row) THEN result \cup {row} ELSE result

ReadRow(row) ==
    /\ step = "rows" /\ row \in rows
    /\ rows' = rows \ {row}
    /\ result' = Gathered(row)
    /\ UNCHANGED <<live, call, step, broken, always, ever, changes>>

\* rows.Next is false.  The counts of v6 follow those of v4.
Exhausted ==
    IF call.kind = "subnets" /\ call.version = 4
    THEN step' = "query" /\ call' = [call EXCEPT !.version = 6]
    ELSE step' = "answered" /\ UNCHANGED call

RowsEnd ==
    /\ step = "rows" /\ rows = {}
    /\ Exhausted
    /\ UNCHANGED <<live, rows, result, broken, always, ever, changes>>

ConnectionBreaks ==
    /\ step = "rows" /\ rows # {}
    /\ rows' = {} /\ broken' = TRUE
    /\ Exhausted
    /\ UNCHANGED <<live, result, always, ever, changes>>

\* The statement, or reading a row, fails; what was gathered is dropped.
QueryFails ==
    /\ step = "query" \/ (step = "rows" /\ rows # {})
    /\ step' = "failed"
    /\ rows' = {} /\ result' = {}
    /\ UNCHANGED <<live, call, broken, always, ever, changes>>

Answer ==
    /\ step \in {"answered", "failed"}
    /\ call' = NoCall /\ step' = "idle"
    /\ result' = {} /\ broken' = FALSE
    /\ always' = {} /\ ever' = {} /\ changes' = 0
    /\ UNCHANGED <<live, rows>>

-----------------------------------------------------------------------------
(* kea.                                                                    *)

\* Between two calls as much as it likes.
Goes ==
    \/ step = "idle" /\ UNCHANGED changes
    \/ step \in {"query", "rows"} /\ changes < MaxChanges /\ changes' = changes + 1

LeaseGranted(l) ==
    /\ Goes /\ l \notin live
    /\ live' = live \cup {l}
    /\ ever' = IF step = "idle" THEN {} ELSE ever \cup {l}
    /\ UNCHANGED <<call, step, rows, result, broken, always>>

LeaseExpires(l) ==
    /\ Goes /\ l \in live
    /\ live' = live \ {l} /\ always' = always \ {l}
    /\ UNCHANGED <<call, step, rows, result, broken, ever>>

LeaseQueriesNext ==
    \/ \E c \in Calls : Ask(c)
    \/ Query \/ QueryRow
    \/ \E row \in rows : ReadRow(row)
    \/ RowsEnd \/ ConnectionBreaks \/ QueryFails \/ Answer
    \/ \E l \in Leases : LeaseGranted(l) \/ LeaseExpires(l)

LeaseQueriesSpec == LeaseQueriesInit /\ [][LeaseQueriesNext]_leaseQueriesVars

-----------------------------------------------------------------------------
(* Properties.                                                             *)

\* Every variable has its type.
LeaseQueriesTypeOK ==
    /\ live \subseteq Leases /\ ever \subseteq Leases
    /\ always \subseteq live \cap ever
    /\ call.kind \in {"none", "subnet", "pool", "reservation", "subnets"}
    /\ step \in {"idle", "query", "rows", "answered", "failed"}
    /\ step # "rows" => rows = {}
    /\ broken \in BOOLEAN /\ changes \in 0 .. MaxChanges

\* Every v4 address comes before every v6 address.
Rank(ip) == <<ip.family, ip.n>>

Before(p, q) == p[1] < q[1] \/ (p[1] = q[1] /\ p[2] < q[2])

\* The leases a call is about: those of a pool from its first address to its
\* last, those of a reservation by the address its text stands for.
Meant(c, l) ==
    /\ l.version = c.version /\ l.subnet = c.subnet
    /\ c.kind = "pool" => /\ ~Before(Rank(l.address), Rank(c.begin))
                          /\ ~Before(Rank(c.end), Rank(l.address))
    /\ c.kind = "reservation" => l.hwaddr = Named[c.hwaddr]

MeantOf(leases) == {l \in leases : Meant(call, l)}

\* The two that are missing from every answer about a v6 pool.
AtBounds(c) == IF c.kind = "pool" /\ c.version = 6 THEN {c.begin, c.end} ELSE {}

\* The database reads a request's hardware address as it was meant.
Understood(c) == c.kind = "reservation" => AsBytes[c.hwaddr] = Named[c.hwaddr]

\* A list that is answered has the leases that were live all through the call
\* and none that never was, and a count lies between theirs
\* (dhcphandler.go:1081-1290, util.go:35-55).  Three things are excepted: a
\* broken connection, after which leases can be missing although the call
\* succeeds; leases at the very bounds of a v6 pool, which ipV6InPool leaves
\* out (1282); and reservations given by a text the database does not read as
\* bytes, whose leases are not counted (1195, 1289).
AnswersTruthful ==
    step = "answered" /\ call.kind # "subnets" /\ Understood(call) =>
        LET found == IF Listed(call) THEN Cardinality(result)
                     ELSE CHOOSE n \in result : TRUE
            sure == {l \in MeantOf(always) : l.address \notin AtBounds(call)}
        IN  /\ Listed(call) => /\ result \subseteq MeantOf(ever)
                               /\ broken \/ sure \subseteq result
            /\ found <= Cardinality(MeantOf(ever))
            /\ broken \/ Cardinality(sure) <= found

\* The counts of all subnets, although those of v4 and of v6 are taken at two
\* moments: a subnet that had a lease all through the call has its count, a
\* count lies between the leases it always and ever had, and the count of a
\* number used for a v4 and a v6 subnet is that of v6 if there is any
\* (dhcphandler.go:1125-1159).
SubnetCountsTruthful ==
    step = "answered" /\ call.kind = "subnets" =>
        LET Of(leases, v, s) == {l \in leases : l.version = v /\ l.subnet = s}
        IN  /\ \A r \in result :
                   /\ r.count <= Cardinality(Of(ever, r.version, r.subnet))
                   /\ r.count >= Cardinality(Of(always, r.version, r.subnet))
            /\ \A l \in always :
                   \/ broken
                   \/ \E r \in result :
                          r.subnet = l.subnet /\ (l.version = 6 => r.version = 6)
            /\ \A q, r \in result : q.subnet = r.subnet => q = r
=============================================================================
