----------------------------- MODULE MCDnsZones -----------------------------
(***************************************************************************)
(* Model values and requests for DnsZones.                                 *)
(***************************************************************************)
EXTENDS DnsZones, TLC

CONSTANTS z1, z2, a, b, p, q

MCZones == {z1, z2}
MCRRs   == {a, b}
MCRunners == {p, q}

\* No step tells one runner from another.
MCSymmetry == Permutations(MCRunners)

\* One zone with one record.
MCInitialDb == [zones |-> {z1}, rows |-> {<<z1, a>>}]

Ask(kind, zones, old, new) == [kind |-> kind, zones |-> zones, old |-> old, new |-> new]

\* A request of every kind; records of a zone that may not be there, and an
\* update of a record that may not be there.
MCRequests ==
    { Ask("createZone", <<z2>>, <<>>, << <<z2, a>> >>),
      Ask("updateZone", <<z1>>, <<>>, <<>>),
      Ask("deleteZone", <<z1>>, <<>>, <<>>),
      Ask("deleteZone", <<z2>>, <<>>, <<>>),
      Ask("axfr", <<z1, z2>>, <<>>, << <<z1, b>>, <<z2, b>> >>),
      Ask("rrs", <<>>, << <<z1, a>> >>, << <<z1, b>> >>),
      Ask("rrs", <<>>, <<>>, << <<z2, b>> >>),
      Ask("updateRR", <<z1>>, << <<z1, a>> >>, << <<z1, b>> >>),
      Ask("batch", <<>>, <<>>, << <<z1, b>> >>) }
=============================================================================
