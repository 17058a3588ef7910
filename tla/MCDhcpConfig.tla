---------------------------- MODULE MCDhcpConfig ----------------------------
(***************************************************************************)
(* Model values and requests for DhcpConfig.                               *)
(***************************************************************************)
EXTENDS DhcpConfig

CONSTANTS i1, i2, s1, s2, p1, p2, v1, v2

MCInterfaces == {i1, i2}
MCIds    == {s1, s2}
MCKeys   == {p1, p2}
MCValues == {v1, v2}

\* One subnet, which for IPv4 has two pools.
MCInitialConf ==
    [s \in Services |->
        [ifaces |-> i1, global |-> v1,
         entries |-> << [id |-> s1, val |-> v1,
                         items |-> IF s = "dhcp4"
                                   THEN << [key |-> p1, val |-> v1], [key |-> p2, val |-> v1] >>
                                   ELSE <<>>] >>]]

Ask(level, act, service, id, key, val) ==
    [level |-> level, act |-> act, service |-> service, id |-> id, key |-> key, val |-> val]

\* A request of every level and act; one for an entry that may not be there,
\* one for an item of an entry that may not be there.
MCRequests ==
    { Ask("entry", "create", "dhcp4", s2, p1, v2),
      Ask("entry", "update", "dhcp4", s1, p1, v2),
      Ask("entry", "delete", "dhcp6", s1, p1, v1),
      Ask("item", "create", "dhcp6", s1, p1, v1),
      Ask("item", "update", "dhcp4", s1, p2, v2),
      Ask("item", "delete", "dhcp4", s1, p1, v1),
      Ask("global", "update", "dhcp4", s1, p1, v2) }

\* For pairs of requests: creates, which cannot be refused for what they look
\* for, and the update of an item, which shares what its delete shares, are
\* left out.
MCPairRequests ==
    {r \in MCRequests : r.act # "create" /\ <<r.level, r.act>> # <<"item", "update">>}
=============================================================================
