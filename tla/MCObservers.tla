---------------------------- MODULE MCObservers ----------------------------
(***************************************************************************)
(* Instances of the observers.                                             *)
(***************************************************************************)
EXTENDS Observers, TLC

Ip(f, n) == [family |-> f, n |-> n]

Lease(v, n, s, h) == [version |-> v, address |-> Ip(v, n), subnet |-> s, hwaddr |-> h]

\* Subnet 1 is used by both versions; two leases are of one client.
MCLeases ==
    {Lease(4, 1, 1, "h"), Lease(4, 2, 1, "k"), Lease(4, 1, 2, "h"),
     Lease(6, 1, 1, "h"), Lease(6, 2, 1, "k"), Lease(6, 3, 1, "k")}

\* A v6 pool may be asked for with a v4 address.
Bounds(v) == IF v = 4 THEN {Ip(4, 1), Ip(4, 2)} ELSE {Ip(4, 2), Ip(6, 1), Ip(6, 3)}

MCCalls ==
    {[kind |-> "subnets", version |-> 4, count |-> TRUE]}
        \cup [kind : {"subnet"}, version : {4, 6}, subnet : {1}, count : BOOLEAN]
        \cup [kind : {"reservation"}, version : {4, 6}, subnet : {1}, count : {TRUE},
              hwaddr : {"h as shown", "h escaped", "k escaped"}]
        \cup UNION {[kind : {"pool"}, version : {v}, subnet : {1}, count : BOOLEAN,
                     begin : Bounds(v), end : Bounds(v)] : v \in {4, 6}}

MCNamed == ("h as shown" :> "h") @@ ("h escaped" :> "h") @@ ("k escaped" :> "k")

\* No lease has the characters of a text for its bytes.
MCAsBytes == ("h as shown" :> "its characters") @@ ("h escaped" :> "h") @@ ("k escaped" :> "k")
=============================================================================
