----------------------------- MODULE MCDnsViews -----------------------------
(***************************************************************************)
(* Model values and requests for DnsViews.                                 *)
(***************************************************************************)
EXTENDS DnsViews

CONSTANTS v1, v2, a1, a2, a3, f1, r1, r2, r3, t1, t2

MCViews == {v1, v2}
MCAcls == {a1, a2, a3}
MCForwards == {f1}
MCNames == {r1, r2, r3}
MCValues == {t1, t2}
MCDefaultAcls == {a1}

ForwardOf(v) == [view |-> v, zone |-> f1]

Redirection(v, type, name) == [view |-> v, type |-> type, name |-> name, ttl |-> t1]

Changed(row) == [row EXCEPT !.ttl = t2]

\* Two views, v2 the default one, with an access list and an rpz rule each; v2
\* has two redirect rules as well.
MCInitialDb ==
    [acls |-> {a1, a2}, options |-> t1, views |-> {<<v1, a2>>, <<v2, a1>>},
     forwards |-> {ForwardOf(v1)},
     rules |-> {Redirection(v1, "rpz", r1), Redirection(v2, "rpz", r1)}
               \cup {Redirection(v2, "redirect", name) : name \in {r2, r3}}]

Ask(kind, view, acl, value, gone, rows) ==
    [kind |-> kind, view |-> view, acl |-> acl, value |-> value, gone |-> gone, rows |-> rows]

\* A request of every kind; access lists that are used and that are not there;
\* a redirection taken for one of the other type.
MCRequests ==
    { Ask("createAcl", v1, a3, t1, {}, {}),
      Ask("updateAcl", v1, a1, t1, {}, {}),
      Ask("deleteAcl", v1, a2, t1, {}, {}),
      Ask("createView", v2, a1, t1, {}, {}),
      Ask("updateView", v1, a1, t1, {}, {}),
      Ask("updateView", v2, a3, t1, {}, {}),
      Ask("deleteView", v2, a1, t1, {}, {}),
      Ask("createForward", v2, a1, t1, {}, {ForwardOf(v2)}),
      Ask("updateForward", v1, a1, t1, {ForwardOf(v1)}, {ForwardOf(v1)}),
      Ask("flush", v1, a1, t1, {ForwardOf(v1)}, {}),
      Ask("createRule", v1, a1, t1, {}, {Redirection(v1, "redirect", r2)}),
      Ask("updateRule", v1, a1, t1, {Redirection(v1, "rpz", r1)}, {Redirection(v1, "redirect", r1)}),
      Ask("updateRule", v1, a1, t1, {Redirection(v1, "rpz", r1)}, {Changed(Redirection(v1, "rpz", r1))}),
      Ask("deleteRule", v2, a1, t1, {Redirection(v2, "rpz", r1)}, {}),
      Ask("deleteRule", v2, a1, t1, {Redirection(v2, "rpz", r2)}, {}),
      Ask("options", v1, a1, t2, {}, {}),
      Ask("ttl", v1, a1, t2, {}, {}) }
=============================================================================
