----------------------------- MODULE Observers -----------------------------
(***************************************************************************)
(* What the agent tells of DNS and DHCP without changing either: the       *)
(* exported metrics and the queries for leases.  They share no state, so   *)
(* that a behaviour follows one of them, its subject.                      *)
(***************************************************************************)
EXTENDS DnsCollector, DhcpCollector, LeaseQueries

VARIABLE subject

observersVars == <<subject, dnsCollectorVars, dhcpCollectorVars, leaseQueriesVars>>

ObserversInit ==
    /\ subject \in {"queries", "leases", "leaseQueries"}
    /\ DnsCollectorInit /\ DhcpCollectorInit /\ LeaseQueriesInit

Follow(s) == subject = s /\ UNCHANGED subject

ObserversNext ==
    \/ /\ Follow("queries") /\ DnsCollectorNext
       /\ UNCHANGED <<dhcpCollectorVars, leaseQueriesVars>>
    \/ /\ Follow("leases") /\ DhcpCollectorNext
       /\ UNCHANGED <<dnsCollectorVars, leaseQueriesVars>>
    \/ /\ Follow("leaseQueries") /\ LeaseQueriesNext
       /\ UNCHANGED <<dnsCollectorVars, dhcpCollectorVars>>

ObserversSpec == ObserversInit /\ [][ObserversNext]_observersVars

\* Every variable has its type.
ObserversTypeOK == DnsCollectorTypeOK /\ DhcpCollectorTypeOK /\ LeaseQueriesTypeOK
=============================================================================
