---------------------------- MODULE MCNginxProxy ----------------------------
(***************************************************************************)
(* Model values and requests for NginxProxy.                               *)
(***************************************************************************)
EXTENDS NginxProxy

CONSTANTS x1, x2, u1, u2, p1, p2

MCDomains == {x1, x2}
MCUrls    == {u1, u2}
MCPairs   == {p1, p2}

\* One site of each kind.
MCInitialDb == [s \in Sites |-> IF s[2] = x1 THEN u1 ELSE None]

Ask(kind, scheme, x, url, crt) ==
    [kind |-> kind, site |-> <<scheme, x>>, url |-> url, key |-> p1, crt |-> crt]

\* Every handler on both kinds of sites, there and not there; a certificate
\* that does not belong to its key.
MCRequests ==
    { Ask("create", "http", x2, u1, p1),
      Ask("update", "http", x1, u2, p1),
      Ask("delete", "http", x1, u1, p1),
      Ask("create", "https", x2, u1, p1),
      Ask("create", "https", x2, u1, p2),
      Ask("update", "https", x1, u2, p1),
      Ask("update", "https", x2, u2, p1),
      Ask("delete", "https", x1, u1, p1),
      Ask("delete", "https", x2, u1, p1) }
=============================================================================
