-------------------------- MODULE DhcpConfig_proofs --------------------------
(***************************************************************************)
(* Synced, AckedSurvives and RollbackTargetKept for every set of requests, *)
(* every first configuration and any number of requests and crashes.       *)
(*                                                                         *)
(* The properties speak of the moments when nobody is at work.  What makes *)
(* them inductive is what each handler and the monitor has already done at *)
(* each of its steps, and that a history variable tells of everything that *)
(* two of them did at the same time.                                       *)
(***************************************************************************)
EXTENDS DhcpConfig, SequenceTheorems, WellFoundedInduction, TLAPS

-----------------------------------------------------------------------------
(* The first match of a loop.                                              *)

\* A set of indexes that is not empty has a least one, and Min is it.
LEMMA MinIsLeast ==
  ASSUME NEW S \in SUBSET Nat, S # {}
  PROVE  Min(S) \in S /\ \A i \in S : Min(S) <= i
  <1>1. PICK x \in S : \A y \in S : ~ (<<y, x>> \in OpToRel(<, Nat))
    BY NatLessThanWellFounded, WFMin
  <1>2. ASSUME NEW y \in S PROVE x <= y
    <2>1. x \in Nat /\ y \in Nat
      OBVIOUS
    <2>2. <<y, x>> \in Nat \X Nat /\ <<y, x>>[1] = y /\ <<y, x>>[2] = x
      BY <2>1
    <2>3. ~ (<<y, x>>[1] < <<y, x>>[2])
      BY <1>1, <2>2 DEF OpToRel
    <2>4. QED
      BY <2>1, <2>2, <2>3
  <1>3. QED
    BY <1>2 DEF Min

\* A loop that finds something finds an index of the slice.
LEMMA FirstItem ==
  ASSUME NEW r, NEW s \in Seq(Item), ItemsOf(r, s) # {}
  PROVE  Min(ItemsOf(r, s)) \in 1 .. Len(s)
  <1>1. ItemsOf(r, s) \in SUBSET (1 .. Len(s))
    BY LenProperties DEF ItemsOf
  <1>2. QED
    BY <1>1, MinIsLeast, LenProperties

\* The same for the entry a handler works on.
LEMMA FirstEntry ==
  ASSUME NEW r, NEW c \in Config, EntriesOf(r, c) # {}
  PROVE  EntryOf(r, c) \in 1 .. Len(c.entries)
  <1>1. c.entries \in Seq(Entry)
    BY DEF Config
  <1>2. EntriesOf(r, c) \in SUBSET (1 .. Len(c.entries))
    BY <1>1, LenProperties DEF EntriesOf
  <1>3. QED
    BY <1>1, <1>2, MinIsLeast, LenProperties DEF EntryOf

-----------------------------------------------------------------------------
(* Slices stay slices.                                                     *)

\* append(s[:i], s[i+1:]...) gives a slice of the same elements, one shorter.
LEMMA RemoveAtSeq ==
  ASSUME NEW S, NEW s \in Seq(S), NEW i \in 1 .. Len(s)
  PROVE  RemoveAt(s, i) \in Seq(S) /\ Len(RemoveAt(s, i)) = Len(s) - 1
  <1> DEFINE a == SubSeq(s, 1, i - 1)
             b == SubSeq(s, i + 1, Len(s))
  <1>0. Len(s) \in Nat /\ \A j \in 1 .. Len(s) : s[j] \in S
    BY LenProperties, ElementOfSeq
  <1>1. a \in Seq(S) /\ Len(a) = i - 1
    BY <1>0, SubSeqProperties
  <1>2. b \in Seq(S) /\ Len(b) = Len(s) - i
    BY <1>0, SubSeqProperties
  <1>3. RemoveAt(s, i) = a \o b
    BY DEF RemoveAt
  <1> HIDE DEF a, b
  <1>4. a \o b \in Seq(S) /\ Len(a \o b) = Len(a) + Len(b)
    BY <1>1, <1>2, ConcatProperties
  <1>5. QED
    BY <1>0, <1>1, <1>2, <1>3, <1>4

\* A changed nested slice is a slice of items.
LEMMA ItemsAfterSeq ==
  ASSUME NEW r \in Request, NEW s \in Seq(Item),
         r.act = "create" \/ ItemsOf(r, s) # {}
  PROVE  ItemsAfter(r, s) \in Seq(Item)
  <1>1. CASE r.act = "create"
    <2>1. [key |-> r.key, val |-> r.val] \in Item
      BY DEF Request, Item
    <2>2. QED
      BY <1>1, <2>1, AppendProperties DEF ItemsAfter
  <1>2. CASE r.act = "update"
    <2> DEFINE j == Min(ItemsOf(r, s))
    <2>1. j \in 1 .. Len(s)
      BY <1>2, FirstItem
    <2>2. s[j] \in Item
      BY <2>1, ElementOfSeq
    <2>3. [s[j] EXCEPT !.val = r.val] \in Item
      BY <2>2 DEF Request, Item
    <2>4. ItemsAfter(r, s) = [s EXCEPT ![j] = [s[j] EXCEPT !.val = r.val]]
      BY <1>2 DEF ItemsAfter
    <2> HIDE DEF j
    <2>5. QED
      BY <2>1, <2>3, <2>4, ExceptSeq
  <1>3. CASE r.act = "delete"
    BY <1>3, FirstItem, RemoveAtSeq DEF ItemsAfter
  <1>4. QED
    BY <1>1, <1>2, <1>3 DEF Request

\* So is what its original sees of it, whose length has not changed.
LEMMA ItemsSharedSeq ==
  ASSUME NEW r \in Request, NEW s \in Seq(Item), ItemsOf(r, s) # {}, r.act # "create"
  PROVE  ItemsShared(r, s) \in Seq(Item) /\ Len(ItemsShared(r, s)) = Len(s)
  <1>0. Len(s) \in Nat /\ Min(ItemsOf(r, s)) \in 1 .. Len(s)
    BY FirstItem, LenProperties
  <1>1. CASE r.act = "update"
    <2>1. ItemsShared(r, s) = ItemsAfter(r, s)
      BY <1>1 DEF ItemsShared
    <2>2. Len(ItemsAfter(r, s)) = Len(s)
      BY <1>0, <1>1, LenProperties, ItemsAfterSeq DEF ItemsAfter
    <2>3. QED
      BY <2>1, <2>2, ItemsAfterSeq
  <1>2. CASE r.act = "delete"
    <2>1. Last(s) \in Item
      BY <1>0, ElementOfSeq DEF Last
    <2>2. ItemsAfter(r, s) \in Seq(Item) /\ Len(ItemsAfter(r, s)) = Len(s) - 1
      BY <1>0, <1>2, RemoveAtSeq DEF ItemsAfter
    <2>3. ItemsShared(r, s) = Append(ItemsAfter(r, s), Last(s))
      BY <1>2 DEF ItemsShared
    <2>4. QED
      BY <1>0, <2>1, <2>2, <2>3, AppendProperties
  <1>3. QED
    BY <1>1, <1>2 DEF Request

\* The slice of entries after a request on entries is one of entries.
LEMMA EntriesAfterSeq ==
  ASSUME NEW r \in Request, NEW c \in Config,
         r.act = "create" \/ EntriesOf(r, c) # {}
  PROVE  EntriesAfter(r, c) \in Seq(Entry)
  <1>0. c.entries \in Seq(Entry)
    BY DEF Config
  <1>1. CASE r.act = "create"
    <2> DEFINE e == [id |-> r.id, val |-> r.val, items |-> <<>>]
    <2>1. e \in Entry
      BY EmptySeq DEF Request, Entry
    <2>2. EntriesAfter(r, c) = Append(c.entries, e)
      BY <1>1 DEF EntriesAfter
    <2> HIDE DEF e
    <2>3. QED
      BY <1>0, <2>1, <2>2, AppendProperties
  <1>2. CASE r.act = "update"
    <2> DEFINE i == EntryOf(r, c)
               e == [c.entries[i] EXCEPT !.val = r.val]
    <2>1. i \in 1 .. Len(c.entries)
      BY <1>2, FirstEntry
    <2>2. c.entries[i] \in Entry
      BY <1>0, <2>1, ElementOfSeq
    <2>3. e \in Entry
      BY <2>2 DEF Request, Entry
    <2>4. EntriesAfter(r, c) = [c.entries EXCEPT ![i] = e]
      BY <1>2 DEF EntriesAfter
    <2> HIDE DEF i, e
    <2>5. QED
      BY <1>0, <2>1, <2>3, <2>4, ExceptSeq
  <1>3. CASE r.act = "delete"
    <2>1. EntryOf(r, c) \in 1 .. Len(c.entries)
      BY <1>3, FirstEntry
    <2>2. EntriesAfter(r, c) = RemoveAt(c.entries, EntryOf(r, c))
      BY <1>3 DEF EntriesAfter
    <2>3. QED
      BY <1>0, <2>1, <2>2, RemoveAtSeq
  <1>4. QED
    BY <1>1, <1>2, <1>3 DEF Request

\* Changing the items of the entry a handler works on gives a configuration.
LEMMA NestedChange ==
  ASSUME NEW r \in Request, NEW c \in Config, EntriesOf(r, c) # {},
         NEW s \in Seq(Item)
  PROVE  [c EXCEPT !.entries[EntryOf(r, c)].items = s] \in Config
  <1> DEFINE i == EntryOf(r, c)
             e == [c.entries[i] EXCEPT !.items = s]
             es == [c.entries EXCEPT ![i] = e]
  <1>0. c.entries \in Seq(Entry)
    BY DEF Config
  <1>1. i \in 1 .. Len(c.entries)
    BY FirstEntry
  <1>2. c.entries[i] \in Entry
    BY <1>0, <1>1, ElementOfSeq
  <1>3. e \in Entry
    BY <1>2 DEF Entry
  <1>4. es \in Seq(Entry)
    <2> HIDE DEF i, e
    <2>1. QED
      BY <1>0, <1>1, <1>3, ExceptSeq
  <1>5. [c EXCEPT !.entries[i].items = s] = [c EXCEPT !.entries = es]
    OBVIOUS
  <1> HIDE DEF es
  <1>6. [c EXCEPT !.entries = es] \in Config
    BY <1>4 DEF Config
  <1>7. QED
    BY <1>5, <1>6

\* The items of the entry a handler works on are a slice of items.
LEMMA EntryItems ==
  ASSUME NEW r \in Request, NEW c \in Config, EntriesOf(r, c) # {}
  PROVE  c.entries[EntryOf(r, c)].items \in Seq(Item)
  <1>1. c.entries \in Seq(Entry)
    BY DEF Config
  <1>2. c.entries[EntryOf(r, c)] \in Entry
    BY <1>1, FirstEntry, ElementOfSeq
  <1>3. QED
    BY <1>2 DEF Entry

-----------------------------------------------------------------------------
(* Configurations stay configurations.                                     *)

\* What a handler sends to Kea is a configuration, provided that it found
\* what the request is about (dhcphandler.go:255-1065).
THEOREM ApplyType ==
  ASSUME NEW r \in Request, NEW c \in Config, Exists(r, c)
  PROVE  Apply(r, c) \in Config
  <1>1. CASE r.level = "global"
    <2>1. Apply(r, c) = [c EXCEPT !.global = r.val]
      BY <1>1 DEF Apply
    <2>2. QED
      BY <2>1 DEF Config, Request
  <1>2. CASE r.level = "entry"
    <2>1. r.act = "create" \/ EntriesOf(r, c) # {}
      BY <1>2 DEF Exists
    <2>2. EntriesAfter(r, c) \in Seq(Entry)
      BY <2>1, EntriesAfterSeq
    <2>3. Apply(r, c) = [c EXCEPT !.entries = EntriesAfter(r, c)]
      BY <1>2 DEF Apply
    <2>4. QED
      BY <2>2, <2>3 DEF Config
  <1>3. CASE r.level = "item"
    <2>1. CASE EntriesOf(r, c) = {}
      BY <1>3, <2>1 DEF Apply
    <2>2. CASE EntriesOf(r, c) # {}
      <3> DEFINE s == c.entries[EntryOf(r, c)].items
      <3>1. s \in Seq(Item)
        BY <2>2, EntryItems
      <3>2. r.act = "create" \/ ItemsOf(r, s) # {}
        BY <1>3 DEF Exists
      <3>3. ItemsAfter(r, s) \in Seq(Item)
        BY <3>1, <3>2, ItemsAfterSeq
      <3>4. Apply(r, c) = [c EXCEPT !.entries[EntryOf(r, c)].items = ItemsAfter(r, s)]
        BY <1>3, <2>2 DEF Apply
      <3> HIDE DEF s
      <3>5. QED
        BY <2>2, <3>3, <3>4, NestedChange
    <2>3. QED
      BY <2>1, <2>2
  <1>4. QED
    BY <1>1, <1>2, <1>3 DEF Request

\* A request leaves the interfaces alone.
LEMMA ApplyInterfaces ==
  ASSUME NEW r \in Request, NEW c \in Config
  PROVE  Apply(r, c).ifaces = c.ifaces
  <1>1. CASE r.level = "global"
    BY <1>1 DEF Apply, Config
  <1>2. CASE r.level = "entry"
    BY <1>2 DEF Apply, Config
  <1>3. CASE r.level = "item"
    <2>1. CASE EntriesOf(r, c) = {}
      BY <1>3, <2>1 DEF Apply
    <2>2. CASE EntriesOf(r, c) # {}
      <3>1. Apply(r, c) =
              [c EXCEPT !.entries[EntryOf(r, c)].items =
                            ItemsAfter(r, c.entries[EntryOf(r, c)].items)]
        BY <1>3, <2>2 DEF Apply
      <3>2. QED
        BY <3>1 DEF Config
    <2>3. QED
      BY <2>1, <2>2
  <1>4. QED
    BY <1>1, <1>2, <1>3 DEF Request

\* The interfaces of the host in a configuration leave the rest of it alone.
LEMMA OnHostFacts ==
  ASSUME NEW c \in Config, NEW i \in Interfaces
  PROVE  /\ OnHost(c, i) \in Config /\ OnHost(c, i).ifaces = i
         /\ Same(OnHost(c, i), c)
         /\ i = c.ifaces => OnHost(c, i) = c
         /\ \A r : Exists(r, OnHost(c, i)) = Exists(r, c)
  <1>1. /\ OnHost(c, i) \in Config /\ OnHost(c, i).ifaces = i
        /\ OnHost(c, i).entries = c.entries /\ OnHost(c, i).global = c.global
    BY DEF OnHost, Config
  <1>2. i = c.ifaces => OnHost(c, i) = c
    BY DEF OnHost, Config
  <1>3. \A r : EntriesOf(r, OnHost(c, i)) = EntriesOf(r, c)
    BY <1>1 DEF EntriesOf
  <1>4. \A r : EntryOf(r, OnHost(c, i)) = EntryOf(r, c)
    BY <1>3 DEF EntryOf
  <1>5. QED
    BY <1>1, <1>2, <1>3, <1>4 DEF Same, Settings, Exists

\* What becomes of h.conf while the copy is built is a configuration too: the
\* slices it shares with the copy keep their length (dhcphandler.go:286-293).
THEOREM OriginalType ==
  ASSUME NEW r \in Request, NEW c \in Config, Exists(r, c)
  PROVE  Original(r, c) \in Config
  <1>1. CASE ~WritesShared(r)
    BY <1>1 DEF Original
  <1>2. CASE WritesShared(r)
    <2> DEFINE s == c.entries[EntryOf(r, c)].items
    <2>1. EntriesOf(r, c) # {} /\ ItemsOf(r, s) # {} /\ r.act # "create"
      BY <1>2 DEF WritesShared, Exists
    <2>2. s \in Seq(Item)
      BY <2>1, EntryItems
    <2>3. ItemsShared(r, s) \in Seq(Item)
      BY <2>1, <2>2, ItemsSharedSeq
    <2>4. Original(r, c) = [c EXCEPT !.entries[EntryOf(r, c)].items = ItemsShared(r, s)]
      BY <1>2 DEF Original
    <2> HIDE DEF s
    <2>5. QED
      BY <2>1, <2>3, <2>4, NestedChange
  <1>3. QED
    BY <1>1, <1>2

-----------------------------------------------------------------------------
(* The inductive invariant.                                                *)

\* Who is at work, and what the history variables say when two are.
LocksOK ==
    /\ mon.pc = "sleep" => mon = Asleep
    /\ mon.pc = "exited" => mon = Exited
    /\ mon.by = "boot" => ~Busy /\ mon.run = "alone"
    /\ mon.pc \in {"state", "set", "write"} => mon.by = "boot"
    /\ Busy => (Reloading => op.run = "together" /\ mon.run = "together")
    /\ Busy => (op.run = "together" => drift = Services)
    /\ mon.run = "together" => drift = Services
    /\ drift \subseteq lost

\* What a request still has to do.
TodoOK ==
    Busy => /\ op.req.level = "global" =>
                    \/ op.todo = <<"dhcp4", "dhcp6">>
                    \/ op.todo = <<"dhcp6">> /\ op.pc # "build"
            /\ op.req.level # "global" => op.todo = <<op.req.service>>

\* What a request that no reload interferes with has done so far.
OpOK ==
    Busy => (op.run = "alone" =>
        /\ op.of = "current"
        /\ op.pc = "build" => conf = op.src
        /\ ~WritesShared(op.req) => \A s \in ToSet(op.todo) :
                conf[s] = IF op.pc = "build" THEN op.src[s]
                          ELSE OnHost(op.src[s], op.cand[s].ifaces)
        /\ op.pc # "build" => \A s \in Touched(op.req) \ ToSet(op.todo) :
                conf[s] = op.cand[s] /\ s \in lost /\ s \notin drift
        /\ op.pc # "build" => (WritesShared(op.req) => Touched(op.req) \subseteq lost)
        /\ op.pc = "write" => (Service \in up => kea[Service] = op.cand[Service])
        /\ op.pc = "rewrite" => (Service \in up => kea[Service] = conf[Service]))

\* What a reload that no request interferes with has done so far.
MonOK ==
    /\ mon.pc \in {"rewrite", "set", "write"} => mon.todo # <<>>
    /\ mon.run = "alone" =>
        /\ mon.pc \in {"load", "rewrite"} =>
                \A s \in Services \ ToSet(mon.todo) : mon.loaded[s] = file[s]
        /\ mon.pc = "rewrite" => Same(mon.loaded[Head(mon.todo)], file[Head(mon.todo)])
        /\ mon.pc \in {"state", "set", "write", "stop", "start"} => conf = file
        /\ mon.pc = "write" =>
                (Head(mon.todo) \in up => kea[Head(mon.todo)] = conf[Head(mon.todo)])

\* The service a request is reconfiguring.
AtWork(s) == Busy /\ (op.pc # "build" /\ s = Service)

\* The three copies of a service's configuration agree, except where
\* somebody is at work or left it unfinished.
InSync == \A s \in Services \ drift : ~AtWork(s) => InStep(s)

IInv == TypeOK /\ LocksOK /\ TodoOK /\ OpOK /\ MonOK /\ InSync /\ AckedSurvives

-----------------------------------------------------------------------------
(* What the steps are made of.                                             *)

\* The lists of services that there are.
LEMMA TodoFacts ==
  /\ Head(<<"dhcp4", "dhcp6">>) = "dhcp4" /\ Tail(<<"dhcp4", "dhcp6">>) = <<"dhcp6">>
  /\ Head(<<"dhcp4">>) = "dhcp4" /\ Head(<<"dhcp6">>) = "dhcp6"
  /\ Tail(<<"dhcp6">>) = <<>>
  /\ Len(<<"dhcp4", "dhcp6">>) = 2 /\ Len(<<"dhcp4">>) = 1 /\ Len(<<"dhcp6">>) = 1
  /\ ToSet(<<"dhcp4", "dhcp6">>) = Services
  /\ ToSet(<<"dhcp4">>) = {"dhcp4"} /\ ToSet(<<"dhcp6">>) = {"dhcp6"} /\ ToSet(<<>>) = {}
  /\ <<"dhcp4", "dhcp6">> # <<>> /\ <<"dhcp4">> # <<>> /\ <<"dhcp6">> # <<>>
  /\ <<"dhcp4", "dhcp6">> # <<"dhcp6">>
  BY DEF ToSet, Services

\* A handler at work: its service, and what comes after it.
LEMMA OpFacts ==
  ASSUME TypeOK, TodoOK, Busy
  PROVE  /\ op \in OpType /\ op.req \in Request
         /\ Service \in Touched(op.req) /\ Touched(op.req) \subseteq Services
         /\ Service \in ToSet(op.todo) /\ ToSet(op.todo) \subseteq Touched(op.req)
         /\ op.req.level = "global" => Touched(op.req) = Services
         /\ op.req.level # "global" => Touched(op.req) = {Service} /\ op.todo = <<Service>>
         /\ Len(op.todo) > 1 => /\ op.todo = <<"dhcp4", "dhcp6">> /\ op.req.level = "global"
                                /\ Service = "dhcp4"
         /\ Len(op.todo) = 1 => ToSet(op.todo) = {Service}
         /\ Len(op.todo) \in 1 .. 2
         /\ op.pc = "build" => ToSet(op.todo) = Touched(op.req)
  <1>1. op \in OpType
    BY DEF TypeOK, Busy, Idle
  <1>2. op.req \in Request
    BY <1>1, DhcpAssumption DEF OpType
  <1>3. CASE op.req.level = "global"
    BY SMTT(30), <1>1, <1>2, <1>3, TodoFacts DEF TodoOK, Service, Touched, Services
  <1>4. CASE op.req.level # "global"
    <2>1. op.req.service \in Services /\ op.todo = <<op.req.service>>
      BY <1>2, <1>4 DEF TodoOK, Request
    <2>2. QED
      BY <1>1, <1>2, <1>4, <2>1, TodoFacts DEF Service, Touched, Services
  <1>5. QED
    BY <1>3, <1>4

\* The monitor's service.
LEMMA MonFacts ==
  ASSUME TypeOK
  PROVE  /\ mon \in MonType
         /\ mon.todo # <<>> =>
                /\ Head(mon.todo) \in Services
                /\ Tail(mon.todo) \in {<<>>, <<"dhcp6">>}
                /\ ToSet(mon.todo) \subseteq {Head(mon.todo)} \cup ToSet(Tail(mon.todo))
                /\ Len(mon.todo) > 1 => Tail(mon.todo) # <<>>
         /\ mon.todo = <<>> => ToSet(mon.todo) = {}
  <1>1. mon \in MonType
    BY DEF TypeOK
  <1>2. CASE mon.todo = <<>>
    BY <1>1, <1>2, TodoFacts
  <1>3. CASE mon.todo = <<"dhcp4", "dhcp6">>
    BY <1>1, <1>3, TodoFacts DEF Services
  <1>4. CASE mon.todo = <<"dhcp6">>
    BY <1>1, <1>4, TodoFacts DEF Services
  <1>5. QED
    BY <1>1, <1>2, <1>3, <1>4 DEF MonType

\* The monitor's records at rest.
LEMMA RestFacts ==
  /\ Asleep \in MonType /\ Booting \in MonType /\ Exited \in MonType
  /\ Asleep.pc = "sleep" /\ Asleep.by = "monitor" /\ Asleep.run = "alone"
  /\ Booting.pc = "load" /\ Booting.by = "boot" /\ Booting.run = "alone"
  /\ Booting.todo = <<"dhcp4", "dhcp6">>
  /\ Exited.pc = "exited" /\ Exited.by = "boot" /\ Exited.run = "alone"
  BY DhcpAssumption DEF Asleep, Booting, Exited, MonType

-----------------------------------------------------------------------------
(* The handler's steps.                                                    *)

\* A request begins: nothing is changed yet.
LEMMA ReceiveIInv ==
  ASSUME IInv, NEW r \in Requests, Receive(r)
  PROVE  IInv'
  <1> USE DEF Receive, confVars, Busy
  <1>1. TypeOK /\ LocksOK /\ TodoOK /\ OpOK /\ MonOK /\ InSync /\ AckedSurvives
    BY DEF IInv
  <1>2. Todo(r) \in {<<"dhcp4", "dhcp6">>, <<"dhcp4">>, <<"dhcp6">>} /\ r \in Request
    BY DhcpAssumption DEF Todo, Request, Services
  <1>3. TypeOK'
    <2>1. op' \in OpType
      BY <1>1, <1>2, DhcpAssumption DEF TypeOK, OpType, Together
    <2>2. mon' \in MonType
      BY <1>1 DEF TypeOK, MonType
    <2>3. drift' \subseteq Services /\ lost' \subseteq Services /\ requests' \in 0 .. MaxRequests
      BY <1>1, DhcpAssumption DEF TypeOK, Overlap
    <2>4. QED
      BY <1>1, <2>1, <2>2, <2>3 DEF TypeOK, env
  <1>4. LocksOK'
    BY <1>1, RestFacts DEF LocksOK, Reloading, Together, Overlap, TypeOK, MonType
  <1>5. TodoOK'
    BY DEF TodoOK, Todo
  <1>6. OpOK'
    BY <1>1, <1>2 DEF OpOK, TypeOK
  <1>7. MonOK'
    BY <1>1 DEF MonOK, Reloading, TypeOK, MonType
  <1>8. InSync'
    BY <1>1 DEF InSync, Overlap, AtWork, InStep
  <1>9. AckedSurvives'
    BY <1>1 DEF AckedSurvives, Overlap
  <1>10. QED
    BY <1>3, <1>4, <1>5, <1>6, <1>7, <1>8, <1>9 DEF IInv

\* What a handler works on once it has taken the interfaces from the host.
LEMMA SourceFacts ==
  ASSUME TypeOK, op \in OpType, NEW S \in SUBSET Services
  PROVE  \A s \in Services :
            /\ Source(S)[s] \in Config /\ Same(Source(S)[s], op.src[s])
            /\ Source(S)[s].ifaces = op.src[s].ifaces => Source(S)[s] = op.src[s]
            /\ s \in S => Source(S)[s] = OnHost(op.src[s], host[s])
  <1>1. TAKE s \in Services
  <1>2. op.src[s] \in Config /\ host[s] \in Interfaces
    BY DEF TypeOK, OpType
  <1>3. Source(S)[s] = IF s \in S THEN OnHost(op.src[s], host[s]) ELSE op.src[s]
    BY DEF Source
  <1>4. QED
    BY <1>2, <1>3, OnHostFacts DEF Same

\* The copy is changed, and h.conf with it only where "ahead" and "lost" say so.
LEMMA BuildIInv ==
  ASSUME IInv, Build
  PROVE  IInv'
  <1> USE DEF Build, Busy
  <1>1. TypeOK /\ LocksOK /\ TodoOK /\ OpOK /\ MonOK /\ InSync /\ AckedSurvives
    BY DEF IInv
  <1>2. /\ op \in OpType /\ op.req \in Request
        /\ Touched(op.req) \subseteq Services /\ ToSet(op.todo) = Touched(op.req)
        /\ Service \in Touched(op.req)
        /\ op.req.level # "global" => Touched(op.req) = {Service}
    BY <1>1, OpFacts
  <1> DEFINE src == Source(Touched(op.req))
  <1>3. \A s \in Services :
            /\ src[s] \in Config /\ Same(src[s], op.src[s])
            /\ src[s].ifaces = op.src[s].ifaces => src[s] = op.src[s]
            /\ s \in Touched(op.req) => src[s] = OnHost(op.src[s], host[s])
    BY <1>1, <1>2, SourceFacts
  <1>4. \A s \in Touched(op.req) :
            /\ Exists(op.req, src[s])
            /\ Apply(op.req, src[s]) \in Config /\ Original(op.req, src[s]) \in Config
            /\ Apply(op.req, src[s]).ifaces = host[s]
    <2>1. TAKE s \in Touched(op.req)
    <2>2. s \in Services /\ op.src[s] \in Config /\ host[s] \in Interfaces
      BY <1>1, <1>2 DEF OpType, TypeOK
    <2>3. Exists(op.req, src[s]) /\ src[s].ifaces = host[s] /\ src[s] \in Config
      BY <1>3, <2>2, OnHostFacts
    <2>4. QED
      BY <1>2, <2>3, ApplyType, OriginalType, ApplyInterfaces
  <1>5. /\ op' = [op EXCEPT !.pc = "set", !.cand = Candidate(src)]
        /\ Assign(Touched(op.req), Originals(src))
    OBVIOUS
  <1> HIDE DEF src
  <1>6. \A s \in Services :
            Candidate(src)[s] = IF s \in Touched(op.req) THEN Apply(op.req, src[s]) ELSE src[s]
    BY DEF Candidate
  <1>7. Service' = Service /\ op'.req = op.req /\ op'.todo = op.todo /\ op'.run = op.run
        /\ op'.src = op.src /\ op'.of = op.of /\ op'.pc = "set" /\ op'.cand = Candidate(src)
    BY <1>2, <1>5 DEF OpType, Service
  <1>8. \A s \in Services :
            /\ conf'[s] = IF op.of = "current" /\ s \in Touched(op.req)
                          THEN Original(op.req, src[s]) ELSE conf[s]
            /\ op.of = "current" /\ s \in Touched(op.req) =>
                    (Original(op.req, src[s]).ifaces # op.src[s].ifaces => s \in ahead')
    BY <1>2, <1>5 DEF Assign, Originals
  <1>9. ahead \subseteq ahead' /\ ahead' \subseteq Services
    BY <1>1, <1>2, <1>5 DEF Assign, TypeOK
  <1>10. ~WritesShared(op.req) => \A c : Original(op.req, c) = c
    BY DEF Original
  <1>11. WritesShared(op.req) => Touched(op.req) = {Service}
    BY <1>2 DEF WritesShared
  <1>12. TypeOK'
    <2>1. Candidate(src) \in [Services -> Config]
      BY <1>2, <1>3, <1>4 DEF Candidate
    <2>2. op' \in OpType
      BY <1>2, <1>5, <2>1 DEF OpType
    <2>3. conf' \in [Services -> Config]
      BY <1>1, <1>4, <1>5, <1>8 DEF TypeOK, Assign
    <2>4. QED
      BY <1>1, <1>2, <1>9, <2>2, <2>3 DEF TypeOK, bounds, env
  <1>13. LocksOK'
    BY <1>1, <1>2, <1>7 DEF LocksOK, Reloading
  <1>14. TodoOK'
    BY <1>1, <1>7 DEF TodoOK
  <1>15. op.run = "alone" /\ ~WritesShared(op.req) =>
            \A s \in Services :
                /\ conf'[s] = IF s \in Touched(op.req) THEN src[s] ELSE conf[s]
                /\ Same(conf'[s], conf[s]) /\ (s \notin ahead' => conf'[s] = conf[s])
    BY <1>1, <1>2, <1>3, <1>8, <1>10 DEF OpOK, Same
  <1>16. OpOK'
    <2>1. ASSUME op.run = "alone", ~WritesShared(op.req), NEW s \in ToSet(op.todo)
          PROVE  conf'[s] = OnHost(op.src[s], Candidate(src)[s].ifaces)
      BY <1>2, <1>3, <1>4, <1>6, <1>15, <2>1
    <2>2. QED
      BY <1>1, <1>2, <1>7, <2>1 DEF OpOK
  <1>17. MonOK'
    BY <1>1, <1>2 DEF MonOK, LocksOK, Reloading, TypeOK, MonType
  <1>18. \A s \in Services \ drift : s # Service =>
            Same(conf'[s], conf[s]) /\ (s \notin ahead' => conf'[s] = conf[s])
    <2>1. TAKE s \in Services \ drift
    <2>2. op.run = "alone"
      BY <1>1, <1>2 DEF LocksOK, TypeOK, OpType
    <2>3. CASE WritesShared(op.req)
      BY <1>8, <1>11, <2>3 DEF Same
    <2>4. CASE ~WritesShared(op.req)
      BY <1>15, <2>2, <2>4
    <2>5. QED
      BY <2>3, <2>4
  <1>19. InSync'
    BY <1>1, <1>7, <1>9, <1>18 DEF InSync, AtWork, InStep, Same
  <1>20. AckedSurvives'
    <2>1. SUFFICES ASSUME NEW s \in Services \ lost' PROVE Settings(conf'[s]) = acked[s]
      BY DEF AckedSurvives
    <2>2. s \in Services \ lost /\ op.run = "alone"
      BY <1>1, <1>2 DEF LocksOK, TypeOK, OpType
    <2>3. Same(conf'[s], conf[s])
      <3>1. CASE WritesShared(op.req)
        BY <1>8, <2>1, <3>1 DEF Same
      <3>2. CASE ~WritesShared(op.req)
        BY <1>15, <2>2, <3>2
      <3>3. QED
        BY <3>1, <3>2
    <2>4. QED
      BY <1>1, <2>2, <2>3 DEF AckedSurvives, Same
  <1>21. QED
    BY <1>12, <1>13, <1>14, <1>16, <1>17, <1>19, <1>20 DEF IInv

\* A step that ends a request without touching conf: what is left to show
\* is that its service is in sync, or in "drift".
LEMMA EndIInv ==
  ASSUME IInv, Busy, op' = Idle, UNCHANGED <<conf, up, mon, bounds, acked>>,
         ahead' = ahead \/ ahead' = ahead \ {Service},
         kea' \in [Services -> Config], file' \in [Services -> Config],
         drift \subseteq drift', lost \subseteq lost',
         drift' \subseteq drift \cup {Service}, lost' \subseteq lost \cup {Service},
         drift' \subseteq lost',
         \A s \in Services : s # Service => kea'[s] = kea[s] /\ file'[s] = file[s],
         Service \notin drift' =>
             file'[Service] = conf[Service] /\ (Service \in up => kea'[Service] = conf[Service])
  PROVE  IInv'
  <1> USE DEF Busy
  <1>1. TypeOK /\ LocksOK /\ TodoOK /\ OpOK /\ MonOK /\ InSync /\ AckedSurvives
    BY DEF IInv
  <1>2. Service \in Services /\ ~Busy'
    BY <1>1, OpFacts DEF Idle
  <1>3. TypeOK'
    BY <1>1, <1>2 DEF TypeOK, bounds, env
  <1>4. LocksOK'
    BY <1>1, <1>2 DEF LocksOK, Reloading, TypeOK
  <1>5. TodoOK' /\ OpOK'
    BY <1>2 DEF TodoOK, OpOK
  <1>6. MonOK'
    BY <1>1 DEF MonOK, LocksOK, Reloading
  <1>7. InSync'
    BY <1>1, <1>2 DEF InSync, AtWork, InStep, Same
  <1>8. AckedSurvives'
    BY <1>1 DEF AckedSurvives
  <1>9. QED
    BY <1>3, <1>4, <1>5, <1>6, <1>7, <1>8 DEF IInv

\* A step of a handler that leaves conf alone, touches one service at most
\* and goes on: what is left to show is OpOK.
LEMMA GoOnIInv ==
  ASSUME IInv, Busy, op.pc # "build",
         NEW p \in {"write", "reset", "rewrite"}, op' = [op EXCEPT !.pc = p],
         UNCHANGED <<conf, up, mon, bounds, history>>,
         kea' \in [Services -> Config], file' \in [Services -> Config],
         \A s \in Services : s # Service => kea'[s] = kea[s] /\ file'[s] = file[s],
         op.run = "alone" => /\ p = "write" => kea'[Service] = op.cand[Service]
                             /\ p = "rewrite" => kea'[Service] = conf[Service]
  PROVE  IInv'
  <1> USE DEF Busy, history
  <1>1. TypeOK /\ LocksOK /\ TodoOK /\ OpOK /\ MonOK /\ InSync /\ AckedSurvives
    BY DEF IInv
  <1>2. op \in OpType /\ Service \in Services
    BY <1>1, OpFacts
  <1>3. /\ op'.pc = p /\ op'.req = op.req /\ op'.todo = op.todo /\ op'.run = op.run
        /\ op'.src = op.src /\ op'.cand = op.cand /\ op'.of = op.of /\ Service' = Service
    BY <1>2 DEF OpType, Service
  <1>4. TypeOK'
    <2>1. op' \in OpType
      BY <1>2 DEF OpType
    <2>2. QED
      BY <1>1, <2>1 DEF TypeOK, bounds, env
  <1>5. LocksOK'
    BY <1>1, <1>3 DEF LocksOK, Reloading
  <1>6. TodoOK'
    BY <1>1, <1>3 DEF TodoOK
  <1>7. OpOK'
    BY <1>1, <1>3 DEF OpOK
  <1>8. MonOK'
    BY <1>1 DEF MonOK, LocksOK, Reloading
  <1>9. InSync'
    BY <1>1, <1>3 DEF InSync, AtWork, InStep
  <1>10. AckedSurvives'
    BY <1>1 DEF AckedSurvives
  <1>11. QED
    BY <1>4, <1>5, <1>6, <1>7, <1>8, <1>9, <1>10 DEF IInv

\* A request that is refused changes the interfaces at most.
LEMMA BuildFailsIInv ==
  ASSUME IInv, BuildFails
  PROVE  IInv'
  <1> USE DEF Busy
  <1>1. TypeOK /\ LocksOK /\ TodoOK /\ OpOK /\ MonOK /\ InSync /\ AckedSurvives /\ Busy
    BY DEF IInv, BuildFails
  <1>2. /\ op \in OpType /\ op.pc = "build" /\ Touched(op.req) \subseteq Services
        /\ op' = Idle /\ ~Busy'
        /\ UNCHANGED <<kea, up, file, mon, bounds, acked, drift, lost>>
    BY <1>1, OpFacts DEF BuildFails, Reject, Idle
  <1>3. PICK S \in Copied : Assign(S, Source(S))
    BY DEF BuildFails
  <1>4. S \in SUBSET Services
    BY <1>2, <1>3 DEF Copied, Services
  <1>5. \A s \in Services :
            /\ Source(S)[s] \in Config /\ Same(Source(S)[s], op.src[s])
            /\ Source(S)[s].ifaces = op.src[s].ifaces => Source(S)[s] = op.src[s]
    BY <1>1, <1>2, <1>4, SourceFacts
  <1>6. /\ conf' \in [Services -> Config] /\ ahead \subseteq ahead' /\ ahead' \subseteq Services
        /\ \A s \in Services :
              \/ conf'[s] = conf[s]
              \/ conf'[s] = Source(S)[s] /\ (Source(S)[s].ifaces # op.src[s].ifaces => s \in ahead')
    BY <1>1, <1>3, <1>4, <1>5 DEF Assign, TypeOK
  <1>7. op.run = "alone" => \A s \in Services :
            Same(conf'[s], conf[s]) /\ (s \notin ahead' => conf'[s] = conf[s])
    BY <1>1, <1>2, <1>5, <1>6 DEF OpOK, Same
  <1>8. op.run # "alone" => drift = Services /\ lost = Services
    BY <1>1, <1>2 DEF LocksOK, TypeOK, OpType
  <1>9. TypeOK'
    BY <1>1, <1>2, <1>6 DEF TypeOK, bounds, env
  <1>10. LocksOK'
    BY <1>1, <1>2 DEF LocksOK, Reloading
  <1>11. TodoOK' /\ OpOK'
    BY <1>2 DEF TodoOK, OpOK
  <1>12. MonOK'
    BY <1>1, <1>2, <1>6, RestFacts DEF MonOK, LocksOK, Reloading, TypeOK, MonType
  <1>13. InSync'
    BY <1>1, <1>2, <1>6, <1>7, <1>8 DEF InSync, AtWork, InStep, Same
  <1>14. AckedSurvives'
    BY <1>1, <1>2, <1>7, <1>8 DEF AckedSurvives, Same
  <1>15. QED
    BY <1>9, <1>10, <1>11, <1>12, <1>13, <1>14 DEF IInv

\* config-set, confirmed or not.
LEMMA SetIInv ==
  ASSUME IInv, Set \/ SetFails
  PROVE  IInv'
  <1>1. TypeOK /\ TodoOK /\ Busy /\ op.pc # "build"
    BY DEF IInv, Set, SetFails, Busy
  <1>2. op \in OpType /\ Service \in Services
    BY <1>1, OpFacts
  <1>3. CASE Set
    BY <1>1, <1>2, <1>3, GoOnIInv DEF Set, TypeOK, OpType
  <1>4. CASE SetFails
    BY <1>1, <1>2, <1>4, GoOnIInv DEF SetFails, TypeOK, OpType
  <1>5. QED
    BY <1>3, <1>4

\* config-write is not confirmed.
LEMMA WriteFailsIInv ==
  ASSUME IInv, WriteFails
  PROVE  IInv'
  <1>1. TypeOK /\ TodoOK /\ Busy /\ op.pc # "build"
    BY DEF IInv, WriteFails, Busy
  <1>2. op \in OpType /\ Service \in Services
    BY <1>1, OpFacts
  <1>3. QED
    BY <1>1, <1>2, GoOnIInv DEF WriteFails, TypeOK

\* h.conf is sent again.
LEMMA RollbackSetIInv ==
  ASSUME IInv, RollbackSet
  PROVE  IInv'
  <1>1. TypeOK /\ TodoOK /\ Busy /\ op.pc # "build"
    BY DEF IInv, RollbackSet, Busy
  <1>2. op \in OpType /\ Service \in Services
    BY <1>1, OpFacts
  <1>3. QED
    BY <1>1, <1>2, GoOnIInv DEF RollbackSet, TypeOK

\* A rollback that is confirmed leaves its service in sync.
LEMMA RollbackWriteIInv ==
  ASSUME IInv, RollbackWrite
  PROVE  IInv'
  <1>1. TypeOK /\ TodoOK /\ LocksOK /\ OpOK /\ Busy
    BY DEF IInv, RollbackWrite, Busy
  <1>2. op \in OpType /\ Service \in Services
    BY <1>1, OpFacts
  <1>3. Service \notin drift => kea[Service] = conf[Service]
    BY <1>1, <1>2 DEF RollbackWrite, OpOK, LocksOK, OpType
  <1>4. QED
    BY <1>1, <1>2, <1>3, EndIInv DEF RollbackWrite, Reject, history, TypeOK, LocksOK

\* A rollback that fails is remembered in "drift".
LEMMA RollbackFailsIInv ==
  ASSUME IInv, RollbackFails
  PROVE  IInv'
  <1>1. TypeOK /\ TodoOK /\ LocksOK /\ Busy
    BY DEF IInv, RollbackFails, Busy
  <1>2. op \in OpType /\ Service \in Services
    BY <1>1, OpFacts
  <1>3. kea' \in [Services -> Config] /\ file' \in [Services -> Config]
    BY <1>1, <1>2 DEF RollbackFails, TypeOK
  <1>4. \A s \in Services : s # Service => kea'[s] = kea[s] /\ file'[s] = file[s]
    BY <1>1, <1>2 DEF RollbackFails, TypeOK
  <1>5. op' = Idle /\ UNCHANGED <<conf, up, mon, bounds, acked>>
    BY DEF RollbackFails, Reject
  <1>6. drift' = drift \cup {Service} /\ lost' = lost \cup {Service} /\ ahead' = ahead
    BY DEF RollbackFails
  <1>7. QED
    BY <1>1, <1>2, <1>3, <1>4, <1>5, <1>6, EndIInv DEF LocksOK

\* A confirmed config-write: the service is in sync again, with the candidate.
LEMMA CommitFacts ==
  ASSUME IInv, Commit
  PROVE  /\ op \in OpType /\ Service \in Services /\ Busy /\ op.pc = "write"
         /\ conf' \in [Services -> Config] /\ file' \in [Services -> Config]
         /\ conf'[Service] = op.cand[Service]
         /\ \A s \in Services : s # Service => conf'[s] = conf[s]
         /\ op.run = "together" => drift' = Services
         /\ op.run # "together" => op.run = "alone" /\ drift' = drift \ {Service}
         /\ ahead' = ahead \ {Service} /\ up' = up /\ kea' = kea
         /\ \A s \in Services \ drift' : InStep(s)'
  <1>1. TypeOK /\ LocksOK /\ TodoOK /\ OpOK /\ InSync
    BY DEF IInv
  <1>2. op \in OpType /\ Service \in Services /\ Busy /\ op.pc = "write"
    BY <1>1, OpFacts DEF Commit, Busy
  <1>3. conf' \in [Services -> Config] /\ file' \in [Services -> Config]
    BY <1>1, <1>2 DEF TypeOK, OpType, Commit
  <1>4. conf'[Service] = op.cand[Service] /\ file'[Service] = kea[Service]
    BY <1>1, <1>2 DEF Commit, TypeOK
  <1>5. \A s \in Services : s # Service => conf'[s] = conf[s] /\ file'[s] = file[s]
    BY <1>1, <1>2 DEF Commit, TypeOK
  <1>6. CASE op.run = "together"
    BY <1>1, <1>2, <1>3, <1>4, <1>5, <1>6 DEF Commit, LocksOK, TypeOK
  <1>7. CASE op.run = "alone"
    <2>1. kea[Service] = op.cand[Service]
      BY <1>1, <1>2, <1>7 DEF OpOK, Commit
    <2>2. drift' = drift \ {Service}
      BY <1>7 DEF Commit
    <2>3. ahead' = ahead \ {Service} /\ up' = up /\ kea' = kea
      BY DEF Commit
    <2>4. \A s \in Services \ drift : s # Service => InStep(s)'
      <3>1. \A s \in Services \ drift : s # Service => InStep(s)
        BY <1>1 DEF InSync, AtWork
      <3>2. QED
        BY <1>5, <2>3, <3>1 DEF InStep
    <2>5. \A s \in Services : s = Service => InStep(s)'
      BY <1>4, <2>1, <2>3 DEF InStep, Same
    <2>6. QED
      BY <1>2, <1>3, <1>4, <1>5, <1>7, <2>2, <2>3, <2>4, <2>5
  <1>8. QED
    BY <1>2, <1>6, <1>7 DEF OpType

\* The first half of UpdateGlobalConfig is in force.
LEMMA WriteFirstIInv ==
  ASSUME IInv, WriteFirst
  PROVE  IInv'
  <1> USE DEF Busy
  <1>1. TypeOK /\ LocksOK /\ TodoOK /\ OpOK /\ MonOK /\ InSync /\ AckedSurvives
    BY DEF IInv
  <1>2. Commit /\ Len(op.todo) > 1 /\ lost' = lost \cup {Service}
        /\ op' = [op EXCEPT !.pc = "set", !.todo = Tail(@)]
        /\ UNCHANGED <<kea, up, mon, bounds, acked>>
    BY DEF WriteFirst, Commit
  <1>3. op.todo = <<"dhcp4", "dhcp6">> /\ op.req.level = "global" /\ Service = "dhcp4"
        /\ Touched(op.req) = Services /\ op \in OpType
    BY <1>1, <1>2, CommitFacts, OpFacts DEF IInv
  <1>4. /\ op'.pc = "set" /\ op'.todo = <<"dhcp6">> /\ op'.req = op.req /\ op'.run = op.run
        /\ op'.src = op.src /\ op'.cand = op.cand /\ op'.of = op.of
    BY <1>2, <1>3, TodoFacts DEF OpType
  <1>5. ~WritesShared(op.req) /\ ToSet(op'.todo) = {"dhcp6"} /\ Service' = "dhcp6"
    BY <1>3, <1>4, TodoFacts DEF WritesShared, Service
  <1>6. TypeOK'
    <2>1. op' \in OpType
      BY <1>2, <1>3, TodoFacts DEF OpType
    <2>2. drift' \subseteq Services
      BY <1>1, <1>2, CommitFacts DEF TypeOK
    <2>3. QED
      BY <1>1, <1>2, <2>1, <2>2, CommitFacts DEF TypeOK, bounds, env
  <1>7. LocksOK'
    <2>1. drift' \subseteq lost' /\ (op.run = "together" => drift' = Services)
      BY <1>1, <1>2, CommitFacts DEF LocksOK
    <2>2. mon.run = "together" => drift' = Services
      BY <1>1, <1>2, <2>1, CommitFacts, RestFacts DEF LocksOK, Reloading
    <2>3. QED
      BY <1>1, <1>2, <1>4, <2>1, <2>2, CommitFacts DEF LocksOK, Reloading
  <1>8. TodoOK'
    BY <1>3, <1>4 DEF TodoOK
  <1>9. OpOK'
    <2>1. SUFFICES ASSUME op.run = "alone" PROVE OpOK'
      BY <1>4 DEF OpOK
    <2>2. conf'["dhcp6"] = OnHost(op.src["dhcp6"], op.cand["dhcp6"].ifaces)
      BY <1>1, <1>2, <1>3, <1>5, <2>1, CommitFacts, TodoFacts DEF OpOK, Services
    <2>3. conf'["dhcp4"] = op.cand["dhcp4"] /\ "dhcp4" \in lost' /\ "dhcp4" \notin drift'
      BY <1>2, <1>3, <2>1, CommitFacts
    <2>4. QED
      BY <1>1, <1>2, <1>3, <1>4, <1>5, <2>1, <2>2, <2>3, CommitFacts DEF OpOK, Services
  <1>10. MonOK'
    BY <1>1, <1>2, CommitFacts DEF MonOK, LocksOK, Reloading, TypeOK, MonType
  <1>11. InSync'
    BY <1>2, CommitFacts DEF InSync
  <1>12. AckedSurvives'
    BY <1>1, <1>2, CommitFacts DEF AckedSurvives
  <1>13. QED
    BY <1>6, <1>7, <1>8, <1>9, <1>10, <1>11, <1>12 DEF IInv

\* The request is answered: what it touched is what was answered for.
LEMMA WriteLastIInv ==
  ASSUME IInv, WriteLast
  PROVE  IInv'
  <1> USE DEF Busy
  <1>1. TypeOK /\ LocksOK /\ TodoOK /\ OpOK /\ MonOK /\ InSync /\ AckedSurvives
    BY DEF IInv
  <1>2. Commit /\ Len(op.todo) = 1 /\ op' = Idle /\ UNCHANGED <<kea, up, mon, bounds>>
        /\ acked' = [s \in Services |-> IF s \in Touched(op.req) THEN Settings(op.cand[s])
                                       ELSE acked[s]]
        /\ lost' = IF op.run = "alone" THEN lost \ Touched(op.req) ELSE lost
    BY DEF WriteLast, Commit
  <1>3. op \in OpType /\ ToSet(op.todo) = {Service} /\ Touched(op.req) \subseteq Services
        /\ Service \in Touched(op.req)
    BY <1>1, <1>2, CommitFacts, OpFacts
  <1>4. ~Busy' /\ Idle \notin OpType
    BY <1>2 DEF Idle, OpType
  <1>5. op.run = "alone" => \A s \in Touched(op.req) : conf'[s] = op.cand[s] /\ s \notin drift'
    BY <1>1, <1>2, <1>3, CommitFacts DEF OpOK
  <1>6. op.run = "alone" => \A s \in Services \ Touched(op.req) : conf'[s] = conf[s]
    BY <1>2, <1>3, CommitFacts
  <1>7. TypeOK'
    <2>1. acked' \in [Services -> [global : Values, entries : Seq(Entry)]]
      BY <1>1, <1>2, <1>3 DEF TypeOK, OpType, Settings, Config
    <2>2. drift' \subseteq Services /\ lost' \subseteq Services
      BY <1>1, <1>2, CommitFacts DEF TypeOK
    <2>3. QED
      BY <1>1, <1>2, <2>1, <2>2, CommitFacts DEF TypeOK, bounds, env
  <1>8. LocksOK'
    <2>1. drift' \subseteq lost'
      BY <1>1, <1>2, <1>3, <1>5, CommitFacts DEF LocksOK, OpType
    <2>2. mon.run = "together" => drift' = Services
      BY <1>1, <1>2, CommitFacts, RestFacts DEF LocksOK, Reloading
    <2>3. QED
      BY <1>1, <1>2, <1>4, <2>1, <2>2 DEF LocksOK, Reloading
  <1>9. TodoOK' /\ OpOK'
    BY <1>4 DEF TodoOK, OpOK
  <1>10. MonOK'
    BY <1>1, <1>2, CommitFacts DEF MonOK, LocksOK, Reloading, TypeOK, MonType
  <1>11. InSync'
    BY <1>2, CommitFacts DEF InSync
  <1>12. AckedSurvives'
    <2>1. CASE op.run = "alone"
      BY <1>1, <1>2, <1>3, <1>5, <1>6, <2>1 DEF AckedSurvives, Same
    <2>2. CASE op.run = "together"
      BY <1>1, <1>2, <2>2, CommitFacts DEF AckedSurvives, LocksOK
    <2>3. QED
      BY <1>3, <2>1, <2>2 DEF OpType
  <1>13. QED
    BY <1>7, <1>8, <1>9, <1>10, <1>11, <1>12 DEF IInv

-----------------------------------------------------------------------------
(* The monitor's steps.  None of them ends or advances a request: one that *)
(* is under way when they are taken is "together" with them.               *)

\* A step of the monitor after which it is awake: the request, if any, is no
\* longer bound by OpOK.
LEMMA AwakeFacts ==
  ASSUME IInv, Reloading
  PROVE  /\ Busy => op.run = "together" /\ mon.run = "together"
         /\ mon.run = "alone" => ~Busy
         /\ mon.run = "together" => drift = Services
         /\ mon \in MonType /\ drift \subseteq lost /\ drift \subseteq Services
  BY DEF IInv, LocksOK, TypeOK, MonType

\* The monitor wakes, and from then on a request under way is not alone.
LEMMA MonitorWakesIInv ==
  ASSUME IInv, MonitorWakes
  PROVE  IInv'
  <1> USE DEF Busy
  <1>1. TypeOK /\ LocksOK /\ TodoOK /\ OpOK /\ MonOK /\ InSync /\ AckedSurvives
    BY DEF IInv
  <1>2. mon = Asleep
    BY <1>1 DEF MonitorWakes, LocksOK
  <1>3. /\ mon'.pc = "load" /\ mon'.by = "monitor" /\ mon'.todo = <<"dhcp4", "dhcp6">>
        /\ mon'.run = Together(Busy) /\ mon' \in MonType
    BY <1>2, RestFacts DEF MonitorWakes, MonType, Together
  <1>4. CASE Busy
    <2>1. op' \in OpType /\ op'.run = "together" /\ op'.pc = op.pc /\ op'.todo = op.todo
          /\ op'.req = op.req /\ op \in OpType
      BY <1>1, <1>4, OpFacts DEF MonitorWakes, OpType
    <2>2. drift' = Services /\ lost' = Services /\ mon'.run = "together"
      BY <1>3, <1>4 DEF MonitorWakes, Overlap, Together
    <2>3. TypeOK'
      BY <1>1, <1>3, <2>1, <2>2 DEF MonitorWakes, TypeOK, confVars, bounds, env
    <2>4. LocksOK'
      BY <1>3, <2>1, <2>2 DEF LocksOK
    <2>5. TodoOK' /\ OpOK'
      BY <1>1, <1>4, <2>1 DEF TodoOK, OpOK
    <2>6. MonOK'
      BY <1>3, <2>2, TodoFacts DEF MonOK
    <2>7. InSync' /\ AckedSurvives'
      BY <2>2 DEF InSync, AckedSurvives
    <2>8. QED
      BY <2>3, <2>4, <2>5, <2>6, <2>7 DEF IInv
  <1>5. CASE ~Busy
    <2>1. UNCHANGED <<op, drift, lost>> /\ mon'.run = "alone"
      BY <1>3, <1>5 DEF MonitorWakes, Overlap, Together
    <2>2. TypeOK'
      BY <1>1, <1>3, <2>1 DEF MonitorWakes, TypeOK, confVars, bounds, env
    <2>3. LocksOK'
      <3>1. ~Busy' /\ drift' \subseteq lost'
        BY <1>1, <1>5, <2>1 DEF LocksOK
      <3>2. QED
        BY <1>3, <2>1, <3>1 DEF LocksOK
    <2>4. TodoOK' /\ OpOK'
      BY <1>5, <2>1 DEF TodoOK, OpOK
    <2>5. MonOK'
      BY <1>3, TodoFacts DEF MonOK
    <2>6. InSync' /\ AckedSurvives'
      BY <1>1, <2>1 DEF InSync, InStep, AckedSurvives, AtWork, Service, MonitorWakes, confVars
    <2>7. QED
      BY <2>2, <2>3, <2>4, <2>5, <2>6 DEF IInv
  <1>6. QED
    BY <1>4, <1>5

\* A step that changes nothing but where the monitor is.
LEMMA MonitorMoves ==
  ASSUME IInv, Reloading, mon' \in MonType, mon'.run = mon.run, mon'.by = mon.by,
         mon'.pc \notin {"sleep", "exited"},
         mon'.pc \in {"state", "set", "write"} => mon.by = "boot",
         UNCHANGED <<conf, up, file, op, bounds, history>>,
         kea' \in [Services -> Config],
         MonOK', InSync'
  PROVE  IInv'
  <1> USE DEF Busy, history
  <1>1. TypeOK /\ LocksOK /\ TodoOK /\ OpOK /\ AckedSurvives
    BY DEF IInv
  <1>2. TypeOK'
    BY <1>1 DEF TypeOK, bounds, env
  <1>3. LocksOK'
    BY <1>1 DEF LocksOK, Reloading
  <1>4. TodoOK'
    BY <1>1 DEF TodoOK
  <1>5. OpOK'
    BY <1>1, AwakeFacts DEF OpOK
  <1>6. AckedSurvives'
    BY <1>1 DEF AckedSurvives
  <1>7. QED
    BY <1>2, <1>3, <1>4, <1>5, <1>6 DEF IInv

\* The monitor goes back to sleep, or the boot ends for good.
LEMMA MonitorRests ==
  ASSUME IInv, Reloading,
         mon' = Asleep \/ (mon' = Exited /\ ~Busy),
         UNCHANGED <<conf, op, bounds, acked, lost>>,
         up' \subseteq Services, kea' \in [Services -> Config], file' \in [Services -> Config],
         drift' \subseteq drift, mon.run = "together" => drift' = drift,
         ahead' \subseteq Services,
         InSync'
  PROVE  IInv'
  <1> USE DEF Busy
  <1>1. TypeOK /\ LocksOK /\ TodoOK /\ OpOK /\ AckedSurvives
    BY DEF IInv
  <1>2. mon' \in MonType /\ mon'.run = "alone"
    BY RestFacts
  <1>3. TypeOK'
    BY <1>1, <1>2 DEF TypeOK, bounds, env
  <1>4. LocksOK'
    BY <1>1, RestFacts, AwakeFacts DEF LocksOK, Reloading
  <1>5. TodoOK'
    BY <1>1 DEF TodoOK
  <1>6. OpOK'
    BY <1>1, AwakeFacts DEF OpOK
  <1>7. MonOK'
    BY RestFacts DEF MonOK
  <1>8. AckedSurvives'
    BY <1>1 DEF AckedSurvives
  <1>9. QED
    BY <1>3, <1>4, <1>5, <1>6, <1>7, <1>8 DEF IInv

\* A file is read.
LEMMA LoadFileIInv ==
  ASSUME IInv, NEW s \in Services, LoadFile(s)
  PROVE  IInv'
  <1> USE DEF history
  <1>1. TypeOK /\ MonOK /\ InSync
    BY DEF IInv
  <1>2. mon \in MonType /\ mon.pc = "load" /\ mon.todo # <<>> /\ s = Head(mon.todo)
        /\ UNCHANGED <<conf, kea, up, file, op, bounds, history>>
    BY <1>1, MonFacts DEF LoadFile, Reading, confVars
  <1>3. /\ mon'.run = mon.run /\ mon'.by = mon.by
        /\ mon'.loaded = [mon.loaded EXCEPT ![s] = OnHost(file[s], host[s])]
        /\ mon'.pc = IF host[s] # file[s].ifaces THEN "rewrite" ELSE "load"
        /\ mon'.todo = IF host[s] # file[s].ifaces THEN mon.todo ELSE Tail(mon.todo)
    BY <1>2 DEF LoadFile, MonType
  <1>4. /\ OnHost(file[s], host[s]) \in Config /\ Same(OnHost(file[s], host[s]), file[s])
        /\ host[s] = file[s].ifaces => OnHost(file[s], host[s]) = file[s]
    BY <1>1, OnHostFacts DEF TypeOK
  <1>5. mon' \in MonType
    BY <1>1, <1>2, <1>4, MonFacts DEF LoadFile, MonType, TypeOK
  <1>6. MonOK'
    <2>1. mon'.loaded[s] = OnHost(file[s], host[s])
          /\ \A t \in Services : t # s => mon'.loaded[t] = mon.loaded[t]
      BY <1>2, <1>3 DEF MonType
    <2>2. ASSUME NEW t \in Services \ ToSet(mon'.todo), mon.run = "alone"
          PROVE  mon'.loaded[t] = file[t]
      <3>1. CASE t = s
        <4>1. host[s] = file[s].ifaces
          BY <1>1, <1>2, <1>3, <2>2, <3>1, TodoFacts DEF MonType
        <4>2. QED
          BY <1>4, <2>1, <3>1, <4>1
      <3>2. CASE t # s
        <4>1. t \notin ToSet(mon.todo)
          BY <1>1, <1>2, <1>3, <2>2, <3>2, MonFacts
        <4>2. QED
          BY <1>1, <1>2, <2>1, <2>2, <3>2, <4>1 DEF MonOK
      <3>3. QED
        BY <3>1, <3>2
    <2>3. QED
      BY <1>2, <1>3, <1>4, <2>1, <2>2 DEF MonOK
  <1>7. InSync'
    BY <1>1, <1>2 DEF InSync, InStep, AtWork, Service, Busy
  <1>8. QED
    BY <1>1, <1>2, <1>3, <1>5, <1>6, <1>7, MonitorMoves DEF Reloading, TypeOK

\* A file is written with what was read from it and the interfaces of the host,
\* unless a request wrote it in the meantime.
LEMMA RewriteFileIInv ==
  ASSUME IInv, NEW s \in Services, RewriteFile(s)
  PROVE  IInv'
  <1> USE DEF Busy, history
  <1>1. TypeOK /\ LocksOK /\ TodoOK /\ OpOK /\ MonOK /\ InSync /\ AckedSurvives
    BY DEF IInv
  <1>2. /\ mon \in MonType /\ mon.pc = "rewrite" /\ s = Head(mon.todo) /\ mon.todo # <<>>
        /\ mon' = [mon EXCEPT !.pc = "load", !.todo = Tail(@)]
        /\ UNCHANGED <<conf, kea, up, op, bounds, acked, drift, lost>>
        /\ ahead' = ahead \cup {s}
        /\ file' = [file EXCEPT ![s] = mon.loaded[s]] /\ Reloading
    BY <1>1, MonFacts DEF RewriteFile, Reading, Reloading
  <1>3. mon'.run = mon.run /\ mon'.by = mon.by /\ mon'.loaded = mon.loaded
        /\ mon'.pc = "load" /\ mon'.todo = Tail(mon.todo)
    BY <1>2 DEF MonType
  <1>4. /\ file'[s] = mon.loaded[s] /\ \A t \in Services : t # s => file'[t] = file[t]
        /\ mon.run = "alone" => Same(file'[s], file[s])
    BY <1>1, <1>2 DEF MonOK, TypeOK
  <1>5. TypeOK'
    <2>1. mon' \in MonType
      BY <1>2, MonFacts, <1>1 DEF MonType
    <2>2. file' \in [Services -> Config]
      BY <1>1, <1>2 DEF TypeOK, MonType
    <2>3. QED
      BY <1>1, <1>2, <2>1, <2>2 DEF TypeOK, bounds, env
  <1>6. LocksOK'
    BY <1>1, <1>2, <1>3 DEF LocksOK, Reloading
  <1>7. TodoOK'
    BY <1>1, <1>2 DEF TodoOK
  <1>8. OpOK'
    BY <1>1, <1>2, AwakeFacts DEF OpOK
  <1>9. MonOK'
    <2>1. \A t \in Services \ ToSet(mon'.todo) :
            mon.run = "alone" => mon'.loaded[t] = file'[t]
      BY <1>1, <1>2, <1>3, <1>4, MonFacts DEF MonOK
    <2>2. QED
      BY <1>3, <2>1 DEF MonOK
  <1>10. InSync'
    <2>1. CASE mon.run = "alone"
      BY <1>1, <1>2, <1>4, <2>1 DEF InSync, InStep, AtWork, Service, Same
    <2>2. CASE mon.run = "together"
      BY <1>2, <2>2, AwakeFacts DEF InSync
    <2>3. QED
      BY <1>2, <2>1, <2>2 DEF MonType
  <1>11. AckedSurvives'
    BY <1>1, <1>2 DEF AckedSurvives
  <1>12. QED
    BY <1>5, <1>6, <1>7, <1>8, <1>9, <1>10, <1>11 DEF IInv

\* The boot ends for good, or the monitor tries again later.
LEMMA FailsIInv ==
  ASSUME IInv, LoadFails \/ BootFails
  PROVE  IInv'
  <1> USE DEF history
  <1>1. TypeOK /\ LocksOK /\ InSync
    BY DEF IInv
  <1>2. /\ mon' = IF mon.by = "boot" THEN Exited ELSE Asleep
        /\ UNCHANGED <<conf, kea, up, file, op, bounds, history>> /\ Reloading
    BY DEF LoadFails, BootFails, MonitorFails, confVars, Reloading
  <1>3. InSync'
    BY <1>1, <1>2 DEF InSync, InStep, AtWork, Service, Busy, Same
  <1>4. QED
    BY <1>1, <1>2, <1>3, MonitorRests DEF TypeOK, LocksOK

\* h.conf becomes what the files hold, as it already was unless "drift" says
\* otherwise.
LEMMA StoreConfIInv ==
  ASSUME IInv, StoreConf
  PROVE  IInv'
  <1> USE DEF Busy, history
  <1>1. TypeOK /\ LocksOK /\ TodoOK /\ OpOK /\ MonOK /\ InSync /\ AckedSurvives
    BY DEF IInv
  <1>2. /\ mon \in MonType /\ mon.pc = "load" /\ conf' = mon.loaded
        /\ mon' = [mon EXCEPT !.pc = IF mon.by = "boot" THEN "state" ELSE "stop"]
        /\ op' = IF Busy THEN [op EXCEPT !.of = "replaced"] ELSE op
        /\ UNCHANGED <<kea, up, file, bounds, history>>
        /\ ToSet(mon.todo) = {} /\ Reloading
    BY <1>1, MonFacts DEF StoreConf, Reloading
  <1>3. /\ mon'.run = mon.run /\ mon'.by = mon.by /\ mon' \in MonType
        /\ mon'.pc = IF mon.by = "boot" THEN "state" ELSE "stop"
    BY <1>2 DEF MonType
  <1>4. mon.run = "alone" => conf' = file
    BY <1>1, <1>2 DEF MonOK, TypeOK, MonType
  <1>5. Busy' = Busy
        /\ (Busy => op' \in OpType /\ op'.run = op.run /\ op'.req = op.req
                    /\ op'.todo = op.todo /\ op'.pc = op.pc)
    BY <1>1, <1>2, OpFacts DEF OpType
  <1>6. TypeOK'
    BY <1>1, <1>2, <1>3, <1>5 DEF TypeOK, bounds, env, MonType
  <1>7. LocksOK'
    <2>1. Busy' => op'.run = "together" /\ mon'.run = "together"
      BY <1>2, <1>3, <1>5, AwakeFacts
    <2>2. QED
      BY <1>1, <1>2, <1>3, <1>5, <2>1 DEF LocksOK
  <1>8. TodoOK'
    BY <1>1, <1>5 DEF TodoOK
  <1>9. OpOK'
    BY <1>2, <1>5, AwakeFacts DEF OpOK
  <1>10. MonOK'
    BY <1>2, <1>3, <1>4 DEF MonOK
  <1>11. mon.run = "alone" => \A s \in Services \ drift :
            Same(conf'[s], conf[s]) /\ (s \notin ahead => conf'[s] = conf[s])
    BY <1>1, <1>2, <1>4, AwakeFacts DEF InSync, AtWork, InStep, Same
  <1>12. InSync'
    <2>1. CASE mon.run = "alone"
      BY <1>1, <1>2, <1>4, <1>11, <2>1, AwakeFacts DEF InSync, AtWork, InStep, Same
    <2>2. CASE mon.run = "together"
      BY <1>2, <2>2, AwakeFacts DEF InSync
    <2>3. QED
      BY <1>2, <2>1, <2>2 DEF MonType
  <1>13. AckedSurvives'
    <2>1. CASE mon.run = "alone"
      BY <1>1, <1>2, <1>11, <2>1, AwakeFacts DEF AckedSurvives, Same
    <2>2. CASE mon.run = "together"
      BY <1>2, <2>2, AwakeFacts DEF AckedSurvives
    <2>3. QED
      BY <1>2, <2>1, <2>2 DEF MonType
  <1>14. QED
    BY <1>6, <1>7, <1>8, <1>9, <1>10, <1>12, <1>13 DEF IInv

\* The servers all run.
LEMMA GetDHCPStateIInv ==
  ASSUME IInv, GetDHCPState
  PROVE  IInv'
  <1> USE DEF history
  <1>1. TypeOK /\ LocksOK /\ MonOK /\ InSync
    BY DEF IInv
  <1>2. /\ mon \in MonType /\ mon.pc = "state" /\ Reloading /\ mon.by = "boot"
        /\ UNCHANGED <<conf, kea, up, file, op, bounds, history>>
    BY <1>1, MonFacts DEF GetDHCPState, Reloading, confVars, LocksOK
  <1>3. /\ mon' \in MonType /\ mon'.run = mon.run /\ mon'.by = mon.by
        /\ \/ mon'.pc = "set" /\ mon'.todo = <<"dhcp4", "dhcp6">>
           \/ mon'.pc = "stop"
    BY <1>2 DEF GetDHCPState, MonType
  <1>4. MonOK'
    BY <1>1, <1>2, <1>3, TodoFacts DEF MonOK
  <1>5. InSync'
    BY <1>1, <1>2 DEF InSync, InStep, AtWork, Service, Busy, Same
  <1>6. QED
    BY <1>1, <1>2, <1>3, <1>4, <1>5, MonitorMoves DEF TypeOK

\* A server is given h.conf at boot.
LEMMA BootSetIInv ==
  ASSUME IInv, BootSet
  PROVE  IInv'
  <1> USE DEF history
  <1>1. TypeOK /\ LocksOK /\ MonOK /\ InSync
    BY DEF IInv
  <1>2. /\ mon \in MonType /\ mon.pc = "set" /\ Reloading /\ mon.by = "boot" /\ mon.todo # <<>>
        /\ Head(mon.todo) \in Services
        /\ mon' = [mon EXCEPT !.pc = "write"]
        /\ kea' = [kea EXCEPT ![Head(mon.todo)] = conf[Head(mon.todo)]]
        /\ UNCHANGED <<conf, up, file, op, bounds, history>>
    BY <1>1, MonFacts DEF BootSet, Reloading, LocksOK, MonOK
  <1>3. /\ mon' \in MonType /\ mon'.run = mon.run /\ mon'.by = mon.by
        /\ mon'.pc = "write" /\ mon'.todo = mon.todo
    BY <1>2 DEF MonType
  <1>4. /\ kea' \in [Services -> Config] /\ kea'[Head(mon.todo)] = conf[Head(mon.todo)]
        /\ \A s \in Services : kea'[s] = kea[s] \/ kea'[s] = conf[s]
    BY <1>1, <1>2 DEF TypeOK
  <1>5. MonOK'
    BY <1>1, <1>2, <1>3, <1>4 DEF MonOK
  <1>6. InSync'
    BY <1>1, <1>2, <1>4 DEF InSync, InStep, AtWork, Service, Busy, Same
  <1>7. QED
    BY <1>1, <1>2, <1>3, <1>4, <1>5, <1>6, MonitorMoves DEF TypeOK

\* A server writes its file at boot; what it writes is h.conf.
LEMMA BootWriteIInv ==
  ASSUME IInv, BootWrite
  PROVE  IInv'
  <1> USE DEF Busy
  <1>1. TypeOK /\ LocksOK /\ TodoOK /\ OpOK /\ MonOK /\ InSync /\ AckedSurvives
    BY DEF IInv
  <1>2. /\ mon \in MonType /\ mon.pc = "write" /\ Reloading /\ mon.by = "boot"
        /\ mon.run = "alone" /\ ~Busy /\ mon.todo # <<>>
        /\ Head(mon.todo) \in Services /\ Head(mon.todo) \in up
        /\ file' = [file EXCEPT ![Head(mon.todo)] = kea[Head(mon.todo)]]
        /\ mon' = IF Len(mon.todo) > 1 THEN [mon EXCEPT !.pc = "set", !.todo = Tail(@)] ELSE Asleep
        /\ drift' = drift \ {Head(mon.todo)} /\ ahead' = ahead \ {Head(mon.todo)}
        /\ UNCHANGED <<conf, kea, up, op, bounds, acked, lost>>
    BY <1>1, MonFacts DEF BootWrite, Reloading, LocksOK, MonOK
  <1>3. kea[Head(mon.todo)] = conf[Head(mon.todo)] /\ conf = file
    BY <1>1, <1>2 DEF MonOK
  <1>4. file' = file
    BY <1>1, <1>2, <1>3 DEF TypeOK
  <1>5. InSync'
    BY <1>1, <1>2, <1>3, <1>4 DEF InSync, InStep, AtWork, Same
  <1>6. CASE Len(mon.todo) > 1
    <2>1. /\ mon' \in MonType /\ mon'.pc = "set" /\ mon'.todo # <<>> /\ mon'.by = "boot"
          /\ mon'.run = "alone"
      BY <1>1, <1>2, <1>6, MonFacts DEF MonType
    <2>2. TypeOK'
      BY <1>1, <1>2, <1>4, <2>1 DEF TypeOK, bounds, env
    <2>3. LocksOK'
      BY <1>1, <1>2, <2>1 DEF LocksOK
    <2>4. TodoOK' /\ OpOK'
      BY <1>2 DEF TodoOK, OpOK
    <2>5. MonOK'
      BY <1>2, <1>3, <1>4, <2>1 DEF MonOK
    <2>6. AckedSurvives'
      BY <1>1, <1>2 DEF AckedSurvives
    <2>7. QED
      BY <1>5, <2>2, <2>3, <2>4, <2>5, <2>6 DEF IInv
  <1>7. CASE ~ (Len(mon.todo) > 1)
    BY <1>1, <1>2, <1>4, <1>5, <1>7, MonitorRests DEF TypeOK
  <1>8. QED
    BY <1>6, <1>7

\* A server that is not reconfigured at boot keeps what it has, or has got the
\* same after all.
LEMMA BootReconfigFailsIInv ==
  ASSUME IInv, BootReconfigFails
  PROVE  IInv'
  <1> USE DEF history
  <1>1. TypeOK /\ LocksOK /\ MonOK /\ InSync
    BY DEF IInv
  <1>2. /\ mon.pc \in {"set", "write"} /\ Reloading /\ mon.run = "alone" /\ ~Busy
        /\ Head(mon.todo) \in Services /\ mon' = Asleep
        /\ UNCHANGED <<conf, up, op, bounds, history>>
    BY <1>1, MonFacts DEF BootReconfigFails, Reloading, LocksOK, MonOK
  <1>3. file' = file
    BY <1>1, <1>2 DEF BootReconfigFails, MonOK, TypeOK
  <1>4. /\ kea' \in [Services -> Config]
        /\ \A s \in Services : kea'[s] = kea[s] \/ kea'[s] = conf[s]
    BY <1>1, <1>2 DEF BootReconfigFails, TypeOK
  <1>5. InSync'
    BY <1>1, <1>2, <1>3, <1>4 DEF InSync, InStep, AtWork, Service, Busy, Same
  <1>6. QED
    BY <1>1, <1>2, <1>3, <1>4, <1>5, MonitorRests DEF TypeOK

-----------------------------------------------------------------------------
(* Servers stop, start and die.                                            *)

\* Servers that are down are out of sync in nothing.
LEMMA DownIInv ==
  ASSUME IInv, UNCHANGED <<conf, file, op, requests, crashes, history>>, up' \subseteq up,
         kea' \in [Services -> Config], \A s \in up' : kea'[s] = kea[s],
         host' \in [Services -> Interfaces], moves' \in 0 .. MaxMoves,
         mon' = mon \/ (mon.pc = "stop" /\ mon' = [mon EXCEPT !.pc = "start"])
  PROVE  IInv'
  <1> USE DEF Busy, history
  <1>1. TypeOK /\ LocksOK /\ TodoOK /\ OpOK /\ MonOK /\ InSync /\ AckedSurvives
    BY DEF IInv
  <1>2. /\ mon' \in MonType /\ mon'.run = mon.run /\ mon'.by = mon.by /\ mon'.todo = mon.todo
        /\ mon'.loaded = mon.loaded
        /\ mon' = mon \/ (mon.pc = "stop" /\ mon'.pc = "start")
    BY <1>1, MonFacts DEF MonType
  <1>3. TypeOK'
    BY <1>1, <1>2 DEF TypeOK, bounds, env
  <1>4. LocksOK'
    BY <1>1, <1>2 DEF LocksOK, Reloading
  <1>5. TodoOK'
    BY <1>1 DEF TodoOK
  <1>6. OpOK'
    BY <1>1 DEF OpOK, Service
  <1>7. MonOK'
    BY <1>1, <1>2 DEF MonOK
  <1>8. InSync'
    BY <1>1 DEF InSync, InStep, AtWork, Service
  <1>9. AckedSurvives'
    BY <1>1 DEF AckedSurvives
  <1>10. QED
    BY <1>3, <1>4, <1>5, <1>6, <1>7, <1>8, <1>9 DEF IInv

\* What goes down leaves the servers that stay up as they are.
LEMMA GoDownFacts ==
  ASSUME IInv, NEW S \in SUBSET up, GoDown(S)
  PROVE  /\ UNCHANGED <<conf, file, op, requests, crashes, history>> /\ up' \subseteq up
         /\ kea' \in [Services -> Config] /\ \A s \in up' : kea'[s] = kea[s]
         /\ host' \in [Services -> Interfaces] /\ moves' \in 0 .. MaxMoves
  BY DhcpAssumption DEF GoDown, IInv, TypeOK, bounds, env

\* A server that comes up reads its file, which is h.conf.
LEMMA ComeUpIInv ==
  ASSUME IInv, NEW S \in SUBSET (Services \ up), ComeUp(S), UNCHANGED <<op, bounds>>,
         mon' = Asleep \/ (mon' = Exited /\ mon.by = "boot")
  PROVE  IInv'
  <1>1. TypeOK /\ LocksOK /\ MonOK /\ InSync
    BY DEF IInv
  <1>2. Reloading /\ (mon.by = "boot" => ~Busy)
    BY <1>1 DEF ComeUp, Reloading, LocksOK
  <1>3. /\ kea' \in [Services -> Config] /\ up' \subseteq Services
        /\ UNCHANGED <<conf, file, acked, lost>>
    BY <1>1 DEF ComeUp, TypeOK
  <1>4. /\ drift' = IF mon.run = "alone" THEN drift \ S ELSE drift
        /\ ahead' = IF mon.run = "alone" THEN ahead \ S ELSE ahead
    BY DEF ComeUp
  <1>5. InSync'
    <2>1. CASE mon.run = "alone"
      <3>1. conf = file /\ ~Busy
        BY <1>1, <1>2, <2>1, AwakeFacts DEF MonOK, ComeUp
      <3>2. \A s \in S : kea'[s] = file[s]
        BY DEF ComeUp
      <3>3. \A s \in Services \ S : kea'[s] = kea[s] /\ (s \in up' => s \in up)
        BY DEF ComeUp
      <3>4. QED
        BY <1>1, <1>3, <1>4, <2>1, <3>1, <3>2, <3>3 DEF InSync, InStep, AtWork, Same
    <2>2. CASE mon.run = "together"
      BY <1>2, <1>4, <2>2, AwakeFacts DEF InSync
    <2>3. QED
      BY <1>2, <2>1, <2>2, AwakeFacts DEF MonType
  <1>6. QED
    BY <1>1, <1>2, <1>3, <1>4, <1>5, MonitorRests DEF TypeOK

\* The servers start, all or some.
LEMMA StartIInv ==
  ASSUME IInv, StartDHCP \/ StartDHCPFails
  PROVE  IInv'
  <1>1. ASSUME StartDHCP PROVE IInv'
    BY <1>1, ComeUpIInv DEF StartDHCP, ComeUp
  <1>2. ASSUME StartDHCPFails PROVE IInv'
    BY <1>2, ComeUpIInv DEF StartDHCPFails, ComeUp
  <1>3. QED
    BY <1>1, <1>2

\* The agent dies: what it was changing is remembered in "drift".
LEMMA AgentRestartsIInv ==
  ASSUME IInv, AgentRestarts
  PROVE  IInv'
  <1> USE DEF Busy
  <1>1. TypeOK /\ LocksOK /\ TodoOK /\ OpOK /\ MonOK /\ InSync /\ AckedSurvives
    BY DEF IInv
  <1>2. /\ ~Busy' /\ op' = Idle /\ mon' = Booting
        /\ drift' = drift \cup Unanswered /\ lost' = lost \cup Unanswered
        /\ UNCHANGED <<conf, kea, up, file, requests, acked, ahead, env>>
        /\ crashes' = crashes + 1 /\ crashes < MaxCrashes
    BY DEF AgentRestarts, confVars, Idle
  <1>3. Unanswered \subseteq Services /\ \A s \in Services : AtWork(s) => s \in Unanswered
    BY <1>1, OpFacts DEF Unanswered, AtWork
  <1>4. TypeOK'
    BY <1>1, <1>2, <1>3, RestFacts, DhcpAssumption DEF TypeOK, env
  <1>5. LocksOK'
    BY <1>1, <1>2, RestFacts DEF LocksOK
  <1>6. TodoOK' /\ OpOK'
    BY <1>2 DEF TodoOK, OpOK
  <1>7. MonOK'
    BY <1>2, RestFacts, TodoFacts DEF MonOK
  <1>8. InSync'
    BY <1>1, <1>2, <1>3 DEF InSync, InStep
  <1>9. AckedSurvives'
    BY <1>1, <1>2 DEF AckedSurvives
  <1>10. QED
    BY <1>4, <1>5, <1>6, <1>7, <1>8, <1>9 DEF IInv

-----------------------------------------------------------------------------
(* The invariant holds, and with it the properties.                        *)

\* It holds at first.
LEMMA InitIInv == Init => IInv
  <1> SUFFICES ASSUME Init PROVE IInv
    OBVIOUS
  <1> USE DEF Init
  <1>1. ~Busy /\ mon = Booting
    BY DEF Busy, Idle
  <1>2. TypeOK
    <2>1. \A s \in Services :
            /\ InitialConf[s] \in Config /\ InitialConf[s].ifaces \in Interfaces
            /\ Settings(InitialConf[s]) \in [global : Values, entries : Seq(Entry)]
      BY DhcpAssumption DEF Config, Settings
    <2>2. /\ host \in [Services -> Interfaces]
          /\ acked \in [Services -> [global : Values, entries : Seq(Entry)]]
      BY <2>1
    <2>3. QED
      BY <1>1, <2>2, RestFacts, DhcpAssumption DEF TypeOK
  <1>3. LocksOK /\ TodoOK /\ OpOK /\ MonOK
    BY <1>1, RestFacts, TodoFacts DEF LocksOK, TodoOK, OpOK, MonOK
  <1>4. InSync /\ AckedSurvives
    BY DEF InSync, InStep, AckedSurvives, Same
  <1>5. QED
    BY <1>2, <1>3, <1>4 DEF IInv

\* Every step preserves it.
LEMMA NextIInv == IInv /\ [Next]_vars => IInv'
  <1> SUFFICES ASSUME IInv, [Next]_vars PROVE IInv'
    OBVIOUS
  <1>1. ASSUME NEW r \in Requests, Receive(r) PROVE IInv'
    BY <1>1, ReceiveIInv
  <1>2. CASE HandlerNext
    BY <1>2, BuildIInv, BuildFailsIInv, SetIInv, WriteFirstIInv, WriteLastIInv, WriteFailsIInv,
       RollbackSetIInv, RollbackWriteIInv, RollbackFailsIInv DEF HandlerNext
  <1>3. CASE MonitorNext
    <2>1. CASE StopDHCP
      <3>1. mon.pc = "stop" /\ mon' = [mon EXCEPT !.pc = "start"]
        BY <2>1 DEF StopDHCP
      <3>2. PICK S \in SUBSET up : GoDown(S)
        BY <2>1 DEF StopDHCP
      <3>3. QED
        BY <3>1, <3>2, GoDownFacts, DownIInv
    <2>2. ASSUME NEW s \in Services, LoadFile(s) \/ RewriteFile(s) PROVE IInv'
      BY <2>2, LoadFileIInv, RewriteFileIInv
    <2>3. QED
      BY <1>3, <2>1, <2>2, MonitorWakesIInv, FailsIInv, StoreConfIInv, GetDHCPStateIInv,
         BootSetIInv, BootWriteIInv, BootReconfigFailsIInv, StartIInv DEF MonitorNext
  <1>4. ASSUME NEW s \in Services, KeaDies(s) PROVE IInv'
    <2>1. {s} \in SUBSET up /\ GoDown({s}) /\ mon' = mon
      BY <1>4 DEF KeaDies
    <2>2. QED
      BY <2>1, GoDownFacts, DownIInv
  <1>9. ASSUME NEW s \in Services, NEW i \in Interfaces, HostMoves(s, i) PROVE IInv'
    <2>1. /\ host' \in [Services -> Interfaces] /\ moves' \in 0 .. MaxMoves
          /\ kea \in [Services -> Config]
      BY <1>9, DhcpAssumption DEF HostMoves, IInv, TypeOK
    <2>2. QED
      BY <1>9, <2>1, DownIInv DEF HostMoves, confVars
  <1>5. CASE AgentRestarts
    BY <1>5, AgentRestartsIInv
  <1>6. CASE UNCHANGED vars
    <2>1. /\ UNCHANGED <<conf, file, op, requests, crashes, history>> /\ up' \subseteq up
          /\ mon' = mon /\ kea' = kea /\ host' = host /\ moves' = moves
      BY <1>6 DEF vars, confVars, bounds, env
    <2>2. QED
      BY <2>1, DownIInv DEF IInv, TypeOK
  <1>7. QED
    BY <1>1, <1>2, <1>3, <1>4, <1>5, <1>6, <1>9 DEF Next

\* So it always holds.
LEMMA AlwaysIInv == Spec => []IInv
  BY InitIInv, NextIInv, PTL DEF Spec

\* Whatever fails, every variable keeps its type: configurations stay
\* configurations and a handler never runs out of services before it ends
\* (dhcphandler.go:59-1065).
THEOREM TypeCorrect == Spec => []TypeOK
  <1>1. IInv => TypeOK
    BY DEF IInv
  <1>2. QED
    BY <1>1, AlwaysIInv, PTL

\* The agent, the files and the running servers hold the same configuration
\* whenever nobody is at work, save where "drift" records why not
\* (dhcphandler.go:323-341, 241-253).
THEOREM SyncedHolds == Spec => []Synced
  <1>1. IInv => Synced
    BY DEF IInv, InSync, AtWork, Synced
  <1>2. QED
    BY <1>1, AlwaysIInv, PTL

\* What was answered with success stays, save where "lost" records why not
\* (dhcphandler.go:331, 184-187).
THEOREM AckedSurvivesHolds == Spec => []AckedSurvives
  <1>1. IInv => AckedSurvives
    BY DEF IInv
  <1>2. QED
    BY <1>1, AlwaysIInv, PTL

\* What a rollback sends is the configuration from before the request, if the
\* request changes no nested slice and no reload interferes
\* (dhcphandler.go:286-293, 325).
THEOREM RollbackTargetHolds == Spec => []RollbackTargetKept
  <1>1. IInv => RollbackTargetKept
    BY DEF IInv, OpOK, RollbackTargetKept
  <1>2. QED
    BY <1>1, AlwaysIInv, PTL
=============================================================================
