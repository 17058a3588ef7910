------------------------------ MODULE DhcpConf ------------------------------
(***************************************************************************)
(* The configuration of one DHCP service and what a request makes of it.   *)
(*                                                                         *)
(* pkg/dhcp/grpcservice/dhcphandler.go, lines 255-1065.  A configuration   *)
(* is a list of entries under some global settings.  An entry stands for a *)
(* subnet or a client class, which the handlers keep in slices they copy;  *)
(* an item of an entry stands for a pool, a prefix delegation pool or a    *)
(* reservation of a subnet, kept in slices nested in the copied ones and   *)
(* so shared by the copy and its original.  The settings an update may     *)
(* change (lifetimes, options, relays, class expressions) are one value.   *)
(* The interfaces to listen on are the host's, never a request's.          *)
(***************************************************************************)
EXTENDS Naturals, Sequences, SequencesExt

CONSTANTS
    Interfaces,  \* what the interfaces of the host may be
    Ids,       \* identities of entries: subnet IDs and client class names
    Keys,      \* identities of items: address ranges, prefixes, hardware addresses
    Values     \* settings

Services == {"dhcp4", "dhcp6"}

Item   == [key : Keys, val : Values]
Entry  == [id : Ids, val : Values, items : Seq(Item)]
Config == [ifaces : Interfaces, global : Values, entries : Seq(Entry)]

\* All of a configuration but its interfaces: what requests are about.
Settings(c) == [global |-> c.global, entries |-> c.entries]

Same(c, d) == Settings(c) = Settings(d)

\* genDhcp4ConfFromDeepCopy and genDhcp6ConfFromDeepCopy assign the interfaces
\* of the host to the configuration they are about to copy.
OnHost(c, i) == [c EXCEPT !.ifaces = i]

\* A request names the level it works on; "global" works on both services.
Request ==
    [level : {"entry", "item", "global"}, act : {"create", "update", "delete"},
     service : Services, id : Ids, key : Keys, val : Values]

-----------------------------------------------------------------------------
(* The loops of the handlers: the first match is changed, then "break".    *)

EntriesOf(r, c) == {i \in DOMAIN c.entries : c.entries[i].id = r.id}
ItemsOf(r, s)   == {j \in DOMAIN s : s[j].key = r.key}

EntryOf(r, c) == Min(EntriesOf(r, c))

\* The handler's "exists".  A create looks for nothing: if there is no entry
\* for the item to go into, the configuration is pushed as it is.
Exists(r, c) ==
    \/ r.level = "global"
    \/ r.act = "create"
    \/ /\ EntriesOf(r, c) # {}
       /\ r.level = "item" => ItemsOf(r, c.entries[EntryOf(r, c)].items) # {}

\* The nested slice of the copy, after the change.
ItemsAfter(r, s) ==
    CASE r.act = "create" -> Append(s, [key |-> r.key, val |-> r.val])
      [] r.act = "update" -> [s EXCEPT ![Min(ItemsOf(r, s))].val = r.val]
      [] r.act = "delete" -> RemoveAt(s, Min(ItemsOf(r, s)))

\* The same slice of the original, after the change: its length is its own,
\* its array is the copy's.  append(s[:j], s[j+1:]...) moves the items after
\* j one place down in that array and leaves the last one where it was.
ItemsShared(r, s) ==
    CASE r.act = "create" -> s
      [] r.act = "update" -> ItemsAfter(r, s)
      [] r.act = "delete" -> Append(ItemsAfter(r, s), Last(s))

EntriesAfter(r, c) ==
    CASE r.act = "create" -> Append(c.entries, [id |-> r.id, val |-> r.val, items |-> <<>>])
      [] r.act = "update" -> [c.entries EXCEPT ![EntryOf(r, c)].val = r.val]
      [] r.act = "delete" -> RemoveAt(c.entries, EntryOf(r, c))

\* The configuration a handler builds out of c.
Apply(r, c) ==
    CASE r.level = "global" -> [c EXCEPT !.global = r.val]
      [] r.level = "entry"  -> [c EXCEPT !.entries = EntriesAfter(r, c)]
      [] r.level = "item"   ->
            IF EntriesOf(r, c) = {} THEN c
            ELSE [c EXCEPT !.entries[EntryOf(r, c)].items = ItemsAfter(r, @)]

\* Does building Apply(r, c) write into arrays that c still uses?
WritesShared(r) == r.level = "item" /\ r.act # "create"

\* Mutant of Original: entries that are not copied either, as if
\* genDhcp4ConfFromDeepCopy were *dst = *src alone.
OriginalUncopied(r, c) ==
    IF r.level = "entry" /\ r.act = "update" THEN Apply(r, c)
    ELSE IF WritesShared(r)
         THEN [c EXCEPT !.entries[EntryOf(r, c)].items = ItemsShared(r, @)]
         ELSE c

\* What has become of c once Apply(r, c) has been built.
Original(r, c) ==
    IF WritesShared(r)
    THEN [c EXCEPT !.entries[EntryOf(r, c)].items = ItemsShared(r, @)]
    ELSE c
=============================================================================
