--------------------------- MODULE DnsZones_proofs ---------------------------
(***************************************************************************)
(* What named serves, for any zones, records and requests and any number   *)
(* of runs of reconfigOrStartDNS, and that they and the handlers implement *)
(* Rollout.                                                                *)
(*                                                                         *)
(* What makes it true is the order of the calls a request is carried out   *)
(* with.  A statement of the transaction is followed by the call that      *)
(* tells named of it, named reads a zone's file when it has just been      *)
(* written, a dynamic update goes with the statement about the same        *)
(* record, and a zone is in the table before named is given it (Fits,      *)
(* Grounded, Ungrounded).  That order holds of the whole list of calls     *)
(* (CallsStarted) and of what is left of it (TailProper, GroundedTail,     *)
(* UngroundedTail), so that named and the tables of the transaction agree  *)
(* on every zone but those of which a call is still to come (Agreeing).    *)
(*                                                                         *)
(* Of a handler beside a run, and of two runs at a time, nothing of the    *)
(* kind is true: there every zone is adrift (Overlap), which is all that   *)
(* IInv says.                                                              *)
(***************************************************************************)
EXTENDS DnsZones, SequenceTheorems, TLAPS

\* The calls a request is carried out with.
Calling ==
    [do : Statements \cup {"file", "addZone", "modifyZone", "deleteZone", "add", "remove", "dump"},
     zone : Zones, rows : Seq(Rows)]

\* The requests of whose changes named is told with rndc, not with an update.
RndcKinds == {"createZone", "updateZone", "deleteZone", "axfr", "batch"}

\* What a request of each kind calls.
DosOf(kind) ==
    CASE kind = "createZone" -> {"insertZone", "insertRows", "file", "addZone"}
      [] kind = "updateZone" -> {"file", "modifyZone"}
      [] kind = "deleteZone" -> {"deleteRowOfZone", "clear", "deleteZone"}
      [] kind = "axfr"       -> {"clear", "deleteZone", "insertRows", "file", "addZone"}
      [] kind = "rrs"        -> {"deleteRow", "remove", "insertRows", "add", "dump"}
      [] kind = "updateRR"   -> {"remove", "updateRow", "add", "dump"}
      [] kind = "batch"      -> {"findZone", "insertRows", "file", "modifyZone"}

\* What makes named follow the tables on a zone, whatever it served.
RndcDos == {"addZone", "modifyZone", "deleteZone"}

\* Among the calls t after the i-th, and before it, is one of dos on zone z.
Follows(t, i, z, dos) == \E j \in i + 1 .. Len(t) : t[j].do \in dos /\ t[j].zone = z
Precedes(t, i, z, dos) == \E j \in 1 .. i - 1 : t[j].do \in dos /\ t[j].zone = z

\* Each call is one of its request's, and on the zones the request is about.
InScope(r, t, i) ==
    t[i].do \in DosOf(r.kind) /\ {t[i].zone} \cup ZonesOf(t[i].rows) \subseteq About(r)

\* A statement is followed by the call that tells named.
Covered(r, t, i) ==
    /\ r.kind \in RndcKinds /\ t[i].do \in Statements =>
          \A z \in {t[i].zone} \cup ZonesOf(t[i].rows) : Follows(t, i, z, RndcDos)
    /\ t[i].do = "deleteRowOfZone" => Follows(t, i, t[i].zone, {"clear"})
    /\ r.kind = "axfr" /\ t[i].do = "deleteZone" => Follows(t, i, t[i].zone, {"addZone"})

\* named reads a zone's file when it was just written.
Prepared(r, t, i) ==
    i >= 2 /\ t[i].do \in {"addZone", "modifyZone"} => t[i - 1].do = "file" /\ t[i - 1].zone = t[i].zone

\* A dynamic update is of one record, of the zone it names.
Single(r, t, i) ==
    r.kind \in {"rrs", "updateRR"} =>
      /\ ZonesOf(t[i].rows) \subseteq {t[i].zone}
      /\ t[i].do \in {"insertRows", "deleteRow", "add", "remove"} => Len(t[i].rows) = 1
      /\ t[i].do = "updateRow" => Len(t[i].rows) = 2
      /\ t[i].do \in {"insertRows", "updateRow"} => Follows(t, i, t[i].zone, {"dump"})

\* Call d after call c makes named follow the tables.
Told(kind, c, d) ==
    /\ d.zone = c.zone
    /\ \/ kind = "rrs" /\ c.do = "insertRows" /\ d.do = "add" /\ d.rows = c.rows
       \/ kind = "rrs" /\ c.do = "deleteRow" /\ d.do = "remove" /\ d.rows = c.rows
       \/ kind = "updateRR" /\ c.do = "remove" /\ d.do = "updateRow" /\ d.rows[1] = c.rows[1]
       \/ kind = "updateRR" /\ c.do = "updateRow" /\ d.do = "add" /\ d.rows[1] = c.rows[2]

\* The first and the second call of such a pair.
Tells(kind) == IF kind = "rrs" THEN {"insertRows", "deleteRow"} ELSE {"remove", "updateRow"}

IsTold(kind) == IF kind = "rrs" THEN {"add", "remove"} ELSE {"updateRow", "add"}

\* Such calls come in pairs.
Paired(r, t, i) ==
    r.kind \in {"rrs", "updateRR"} =>
      /\ t[i].do \in Tells(r.kind) => i < Len(t) /\ Told(r.kind, t[i], t[i + 1])
      /\ i >= 2 /\ t[i].do \in IsTold(r.kind) => t[i - 1].do \in Tells(r.kind)

\* The i-th of the calls t of request r is in its place.
Fits(r, t, i) ==
    InScope(r, t, i) /\ Covered(r, t, i) /\ Prepared(r, t, i) /\ Single(r, t, i)
      /\ Paired(r, t, i)

Proper(r, t) == \A i \in 1 .. Len(t) : Fits(r, t, i)

\* The first call of a request.
Begins(r, t) ==
    t # <<>> => t[1].do \notin {"add", "addZone", "modifyZone", "updateRow"}
                /\ (t[1].do = "remove" => r.kind = "updateRR")

\* A zone is in the table, adrift or still to be put there before a call needs
\* it, or the call that fails without the zone is to come.
Grounded(d, t, D) ==
    \A i \in 1 .. Len(t) :
       /\ t[i].do = "addZone" => t[i].zone \in d.zones \cup D \/ Precedes(t, i, t[i].zone, {"insertZone", "deleteZone"})
       /\ t[i].do = "insertRows" => \A y \in ZonesOf(t[i].rows) :
             y \in d.zones \cup D \/ Precedes(t, i, y, {"insertZone", "findZone", "deleteZone"})
                 \/ Follows(t, i, y, {"dump"})

\* A zone that is to be deleted leaves the table before named is told.
Ungrounded(r, d, t) ==
    \A i \in 1 .. Len(t) :
       r.kind = "deleteZone" /\ t[i].do = "deleteZone" =>
           t[i].zone \notin d.zones \/ Precedes(t, i, t[i].zone, {"deleteRowOfZone"})

\* named will be told of zone z with rndc.
Touches(t, z) == Follows(t, 0, z, RndcDos)

\* What named will serve of z, of which it serves s, once it has made the update
\* that is the next call; and what the table will hold of z, of which it holds R,
\* once the statement that is the next call has taken out what named dropped.
Due(r, t, z, s) ==
    IF t = <<>> \/ t[1].zone # z THEN s
    ELSE IF t[1].do = "add" THEN s \cup {t[1].rows[1][2]}
    ELSE IF t[1].do = "remove" /\ r.kind = "rrs" THEN s \ {t[1].rows[1][2]}
    ELSE s

Taken(t, z, R) ==
    IF t # <<>> /\ t[1].zone = z /\ t[1].do = "updateRow" THEN R \ {t[1].rows[1][2]} ELSE R

\* named, which serves s of z, agrees with the tables d but for that next call.
Agrees(r, t, d, z, s) ==
    IF z \in d.zones THEN s # Absent /\ Due(r, t, z, s) = Taken(t, z, RecordsOf(d, z))
    ELSE s = Absent

\* It does so on every zone that is not adrift and that no rndc call is to follow.
Agreeing ==
    up => \A z \in Zones \ (drift \cup op.unsure) :
             ~Touches(op.todo, z) => Agrees(op.req, op.todo, op.tx, z, served[z])

\* The file that named is about to read holds the records of its zone.
Written ==
    op.todo # <<>> /\ op.todo[1].do \in {"addZone", "modifyZone"} =>
        file[op.todo[1].zone] = RecordsOf(op.tx, op.todo[1].zone)

\* A zone whose change named has taken over is in the table.
Placed == op.req.kind # "deleteZone" => op.did \ drift \subseteq op.tx.zones

\* A record without its zone was there before, or the call that
\* drops it, or that fails without the zone, is to come.
Housed ==
    \A row \in op.tx.rows :
       \/ row[1] \in op.tx.zones \cup drift
       \/ row \in db.rows /\ row[1] \notin db.zones
       \/ Follows(op.todo, 0, row[1], {"clear", "dump"})

\* Only two kinds of request change the table of zones.
SameZones == op.req.kind \notin {"createZone", "deleteZone"} => op.tx.zones = db.zones

\* A request changes nothing of a zone it is not about.
Untouched ==
    /\ op.did \cup op.unsure \subseteq About(op.req)
    /\ \A z \in Zones \ About(op.req) :
          (z \in op.tx.zones <=> z \in db.zones) /\ RecordsOf(op.tx, z) = RecordsOf(db, z)

\* The handler, when it works alone.
HandlerOK ==
    Busy =>
      /\ Proper(op.req, op.todo) /\ Untouched
      /\ op.pc = "blocked" => op.todo # <<>> /\ op.todo[1].do \notin Statements
      /\ op.run = "together" => drift = Zones
      /\ op.run = "alone" => \A k \in Runners : runs[k].pc = "sleep"
      /\ op.run = "alone" /\ op.pc = "work" =>
            /\ SameZones /\ Placed /\ Written /\ Agreeing /\ Housed
            /\ Grounded(op.tx, op.todo, drift) /\ Ungrounded(op.req, op.tx, op.todo)

\* A run that is alone writes down the tables as they stand.
AloneOK(k) ==
    /\ ~Busy /\ \A j \in Runners \ {k} : runs[j].pc = "sleep"
    /\ runs[k].pc \in {"rows", "files"} => runs[k].zones = db.zones /\ file = [z \in Zones |-> Absent]
    /\ runs[k].pc = "files" => runs[k].rows = db.rows
    /\ runs[k].pc \in {"nzf", "state", "start", "reload"} => file = [z \in Zones |-> Expected(db, z)]
    /\ runs[k].pc \in {"state", "start", "reload"} => nzf = db.zones
    /\ runs[k].by = "keeper" \/ runs[k].pc = "start" => ~up

\* The boot is alone, and it and a command keep requests waiting.
RunsOK ==
    \A k \in Runners :
       /\ runs[k].by # "keeper" => ~Busy
       /\ runs[k].by = "boot" => runs[k].run = "alone"
       /\ runs[k].pc # "sleep" /\ runs[k].run = "together" => drift = Zones
       /\ runs[k].pc # "sleep" /\ runs[k].run = "alone" => AloneOK(k)

\* The inductive invariant.
IInv == TypeOK /\ ServedAsCommitted /\ HandlerOK /\ RunsOK

-----------------------------------------------------------------------------
(* The calls of a request.                                                 *)

\* A request has its type and keeps the contract of its callers.
LEMMA Typed ==
    ASSUME NEW r \in Requests
    PROVE  /\ RequestOK(r) /\ r \in Request
           /\ r.zones \in Seq(Zones) /\ r.old \in Seq(Rows) /\ r.new \in Seq(Rows)
           /\ r.kind \in {"createZone", "updateZone", "deleteZone", "axfr", "rrs", "updateRR", "batch"}
  BY ZonesAssumption DEF Request

\* A call has its type.
LEMMA CallTyped ==
    /\ <<>> \in Seq(Rows)
    /\ \A z \in Zones, rows \in Seq(Rows) :
          \A do \in Statements \cup {"file", "addZone", "modifyZone", "deleteZone", "add", "remove", "dump"} :
             Call(do, z, rows) \in Calling
  BY DEF Call, Calling

\* What is dropped of each zone, what is added of it again, and what is taken
\* out and put in of each record: where in the list each call stands.
LEMMA Dropped ==
    ASSUME NEW s \in Seq(Zones)
    PROVE  /\ ForEach(DropRecords, 2, s) \in Seq(Calling)
           /\ Len(ForEach(DropRecords, 2, s)) = 2 * Len(s)
           /\ \A j \in 1 .. Len(s) :
                 /\ ForEach(DropRecords, 2, s)[2 * j - 1] = Call("clear", s[j], <<>>)
                 /\ ForEach(DropRecords, 2, s)[2 * j] = Call("deleteZone", s[j], <<>>)
<1> DEFINE f == ForEach(DropRecords, 2, s)
<1>1. Len(s) \in Nat /\ 2 * Len(s) \in Nat
  OBVIOUS
<1>2. ASSUME NEW j \in 1 .. Len(s)
      PROVE  /\ 2 * j - 1 \in 1 .. 2 * Len(s) /\ 2 * j \in 1 .. 2 * Len(s)
             /\ (2 * j - 1 + 2 - 1) \div 2 = j /\ ((2 * j - 1 + 2 - 1) % 2) + 1 = 1
             /\ (2 * j + 2 - 1) \div 2 = j /\ ((2 * j + 2 - 1) % 2) + 1 = 2
  BY <1>1
<1>3. ASSUME NEW i \in 1 .. 2 * Len(s)
      PROVE  \E j \in 1 .. Len(s) : i = 2 * j - 1 \/ i = 2 * j
  <2>1. (i + 1) \div 2 \in 1 .. Len(s) /\ (i = 2 * ((i + 1) \div 2) - 1 \/ i = 2 * ((i + 1) \div 2))
    BY <1>1
  <2>q. QED  BY <2>1
<1>4. \A j \in 1 .. Len(s) : /\ f[2 * j - 1] = Call("clear", s[j], <<>>)
                             /\ f[2 * j] = Call("deleteZone", s[j], <<>>)
  BY <1>2 DEF ForEach, DropRecords
<1>5. Len(f) = 2 * Len(s) /\ DOMAIN f = 1 .. 2 * Len(s)
  BY <1>1 DEF ForEach
<1>6. ASSUME NEW i \in 1 .. 2 * Len(s)
      PROVE  f[i] \in Calling
  <2>1. PICK j \in 1 .. Len(s) : i = 2 * j - 1 \/ i = 2 * j
    BY <1>3
  <2>2. s[j] \in Zones
    OBVIOUS
  <2>q. QED  BY <1>4, <2>1, <2>2, CallTyped DEF Statements
<1>7. f \in Seq(Calling)
  BY <1>1, <1>6 DEF ForEach
<1>q. QED  BY <1>4, <1>5, <1>7

LEMMA Readded ==
    ASSUME NEW s \in Seq(Zones)
    PROVE  /\ ForEach(AddAgain, 2, s) \in Seq(Calling)
           /\ Len(ForEach(AddAgain, 2, s)) = 2 * Len(s)
           /\ \A j \in 1 .. Len(s) :
                 /\ ForEach(AddAgain, 2, s)[2 * j - 1] = Call("file", s[j], <<>>)
                 /\ ForEach(AddAgain, 2, s)[2 * j] = Call("addZone", s[j], <<>>)
<1> DEFINE f == ForEach(AddAgain, 2, s)
<1>1. Len(s) \in Nat /\ 2 * Len(s) \in Nat
  OBVIOUS
<1>2. ASSUME NEW j \in 1 .. Len(s)
      PROVE  /\ 2 * j - 1 \in 1 .. 2 * Len(s) /\ 2 * j \in 1 .. 2 * Len(s)
             /\ (2 * j - 1 + 2 - 1) \div 2 = j /\ ((2 * j - 1 + 2 - 1) % 2) + 1 = 1
             /\ (2 * j + 2 - 1) \div 2 = j /\ ((2 * j + 2 - 1) % 2) + 1 = 2
  BY <1>1
<1>3. ASSUME NEW i \in 1 .. 2 * Len(s)
      PROVE  \E j \in 1 .. Len(s) : i = 2 * j - 1 \/ i = 2 * j
  <2>1. (i + 1) \div 2 \in 1 .. Len(s) /\ (i = 2 * ((i + 1) \div 2) - 1 \/ i = 2 * ((i + 1) \div 2))
    BY <1>1
  <2>q. QED  BY <2>1
<1>4. \A j \in 1 .. Len(s) : /\ f[2 * j - 1] = Call("file", s[j], <<>>)
                             /\ f[2 * j] = Call("addZone", s[j], <<>>)
  BY <1>2 DEF ForEach, AddAgain
<1>5. Len(f) = 2 * Len(s) /\ DOMAIN f = 1 .. 2 * Len(s)
  BY <1>1 DEF ForEach
<1>6. ASSUME NEW i \in 1 .. 2 * Len(s)
      PROVE  f[i] \in Calling
  <2>1. PICK j \in 1 .. Len(s) : i = 2 * j - 1 \/ i = 2 * j
    BY <1>3
  <2>2. s[j] \in Zones
    OBVIOUS
  <2>q. QED  BY <1>4, <2>1, <2>2, CallTyped DEF Statements
<1>7. f \in Seq(Calling)
  BY <1>1, <1>6 DEF ForEach
<1>q. QED  BY <1>4, <1>5, <1>7

LEMMA TakenOut ==
    ASSUME NEW s \in Seq(Rows)
    PROVE  /\ ForEach(TakeOut, 3, s) \in Seq(Calling)
           /\ Len(ForEach(TakeOut, 3, s)) = 3 * Len(s)
           /\ \A j \in 1 .. Len(s) :
                 /\ ForEach(TakeOut, 3, s)[3 * j - 2] = Call("deleteRow", s[j][1], <<s[j]>>)
                 /\ ForEach(TakeOut, 3, s)[3 * j - 1] = Call("remove", s[j][1], <<s[j]>>)
                 /\ ForEach(TakeOut, 3, s)[3 * j] = Call("dump", s[j][1], <<>>)
<1> DEFINE f == ForEach(TakeOut, 3, s)
<1>1. Len(s) \in Nat /\ 3 * Len(s) \in Nat
  OBVIOUS
<1>2. ASSUME NEW j \in 1 .. Len(s)
      PROVE  /\ {3 * j - 2, 3 * j - 1, 3 * j} \subseteq 1 .. 3 * Len(s)
             /\ (3 * j - 2 + 3 - 1) \div 3 = j /\ ((3 * j - 2 + 3 - 1) % 3) + 1 = 1
             /\ (3 * j - 1 + 3 - 1) \div 3 = j /\ ((3 * j - 1 + 3 - 1) % 3) + 1 = 2
             /\ (3 * j + 3 - 1) \div 3 = j /\ ((3 * j + 3 - 1) % 3) + 1 = 3
  BY <1>1
<1>3. ASSUME NEW i \in 1 .. 3 * Len(s)
      PROVE  \E j \in 1 .. Len(s) : i \in {3 * j - 2, 3 * j - 1, 3 * j}
  <2>1. (i + 2) \div 3 \in 1 .. Len(s) /\ i \in {3 * ((i + 2) \div 3) - 2, 3 * ((i + 2) \div 3) - 1, 3 * ((i + 2) \div 3)}
    BY <1>1
  <2>q. QED  BY <2>1
<1>4. ASSUME NEW j \in 1 .. Len(s)
      PROVE  /\ f[3 * j - 2] = Call("deleteRow", s[j][1], <<s[j]>>)
             /\ f[3 * j - 1] = Call("remove", s[j][1], <<s[j]>>)
             /\ f[3 * j] = Call("dump", s[j][1], <<>>)
  <2>1. \A i \in 1 .. 3 * Len(s) : f[i] = TakeOut(s[(i + 3 - 1) \div 3])[((i + 3 - 1) % 3) + 1]
    BY DEF ForEach
  <2>2. f[3 * j - 2] = TakeOut(s[j])[1] /\ f[3 * j - 1] = TakeOut(s[j])[2] /\ f[3 * j] = TakeOut(s[j])[3]
    BY <1>2, <2>1
  <2>q. QED  BY <2>2 DEF TakeOut
<1>5. Len(f) = 3 * Len(s) /\ DOMAIN f = 1 .. 3 * Len(s)
  BY <1>1 DEF ForEach
<1>6. ASSUME NEW i \in 1 .. 3 * Len(s)
      PROVE  f[i] \in Calling
  <2>1. PICK j \in 1 .. Len(s) : i \in {3 * j - 2, 3 * j - 1, 3 * j}
    BY <1>3
  <2>2. s[j] \in Rows /\ s[j][1] \in Zones /\ <<s[j]>> \in Seq(Rows)
    BY DEF Rows
  <2>3. /\ Call("deleteRow", s[j][1], <<s[j]>>) \in Calling
        /\ Call("remove", s[j][1], <<s[j]>>) \in Calling
        /\ Call("dump", s[j][1], <<>>) \in Calling
    BY <2>2, CallTyped DEF Statements
  <2>4. {f[3 * j - 2], f[3 * j - 1], f[3 * j]} \subseteq Calling
    BY <1>4, <2>3
  <2>q. QED  BY <2>1, <2>4
<1>7. f \in Seq(Calling)
  BY <1>1, <1>6 DEF ForEach
<1>q. QED  BY <1>4, <1>5, <1>7

LEMMA PutBack ==
    ASSUME NEW s \in Seq(Rows)
    PROVE  /\ ForEach(PutIn, 3, s) \in Seq(Calling)
           /\ Len(ForEach(PutIn, 3, s)) = 3 * Len(s)
           /\ \A j \in 1 .. Len(s) :
                 /\ ForEach(PutIn, 3, s)[3 * j - 2] = Call("insertRows", s[j][1], <<s[j]>>)
                 /\ ForEach(PutIn, 3, s)[3 * j - 1] = Call("add", s[j][1], <<s[j]>>)
                 /\ ForEach(PutIn, 3, s)[3 * j] = Call("dump", s[j][1], <<>>)
<1> DEFINE f == ForEach(PutIn, 3, s)
<1>1. Len(s) \in Nat /\ 3 * Len(s) \in Nat
  OBVIOUS
<1>2. ASSUME NEW j \in 1 .. Len(s)
      PROVE  /\ {3 * j - 2, 3 * j - 1, 3 * j} \subseteq 1 .. 3 * Len(s)
             /\ (3 * j - 2 + 3 - 1) \div 3 = j /\ ((3 * j - 2 + 3 - 1) % 3) + 1 = 1
             /\ (3 * j - 1 + 3 - 1) \div 3 = j /\ ((3 * j - 1 + 3 - 1) % 3) + 1 = 2
             /\ (3 * j + 3 - 1) \div 3 = j /\ ((3 * j + 3 - 1) % 3) + 1 = 3
  BY <1>1
<1>3. ASSUME NEW i \in 1 .. 3 * Len(s)
      PROVE  \E j \in 1 .. Len(s) : i \in {3 * j - 2, 3 * j - 1, 3 * j}
  <2>1. (i + 2) \div 3 \in 1 .. Len(s) /\ i \in {3 * ((i + 2) \div 3) - 2, 3 * ((i + 2) \div 3) - 1, 3 * ((i + 2) \div 3)}
    BY <1>1
  <2>q. QED  BY <2>1
<1>4. ASSUME NEW j \in 1 .. Len(s)
      PROVE  /\ f[3 * j - 2] = Call("insertRows", s[j][1], <<s[j]>>)
             /\ f[3 * j - 1] = Call("add", s[j][1], <<s[j]>>)
             /\ f[3 * j] = Call("dump", s[j][1], <<>>)
  <2>1. \A i \in 1 .. 3 * Len(s) : f[i] = PutIn(s[(i + 3 - 1) \div 3])[((i + 3 - 1) % 3) + 1]
    BY DEF ForEach
  <2>2. f[3 * j - 2] = PutIn(s[j])[1] /\ f[3 * j - 1] = PutIn(s[j])[2] /\ f[3 * j] = PutIn(s[j])[3]
    BY <1>2, <2>1
  <2>q. QED  BY <2>2 DEF PutIn
<1>5. Len(f) = 3 * Len(s) /\ DOMAIN f = 1 .. 3 * Len(s)
  BY <1>1 DEF ForEach
<1>6. ASSUME NEW i \in 1 .. 3 * Len(s)
      PROVE  f[i] \in Calling
  <2>1. PICK j \in 1 .. Len(s) : i \in {3 * j - 2, 3 * j - 1, 3 * j}
    BY <1>3
  <2>2. s[j] \in Rows /\ s[j][1] \in Zones /\ <<s[j]>> \in Seq(Rows)
    BY DEF Rows
  <2>3. /\ Call("insertRows", s[j][1], <<s[j]>>) \in Calling
        /\ Call("add", s[j][1], <<s[j]>>) \in Calling
        /\ Call("dump", s[j][1], <<>>) \in Calling
    BY <2>2, CallTyped DEF Statements
  <2>4. {f[3 * j - 2], f[3 * j - 1], f[3 * j]} \subseteq Calling
    BY <1>4, <2>3
  <2>q. QED  BY <2>1, <2>4
<1>7. f \in Seq(Calling)
  BY <1>1, <1>6 DEF ForEach
<1>q. QED  BY <1>4, <1>5, <1>7

\* The calls of a transfer of the zones s, with the records rows: every zone is
\* dropped, the records are inserted, and every zone is added again.
LikeAxfr(s, rows, t) ==
    /\ Len(t) = 4 * Len(s) + 1
    /\ t[2 * Len(s) + 1] = Call("insertRows", Head(s), rows)
    /\ \A j \in 1 .. Len(s) :
          /\ t[2 * j - 1] = Call("clear", s[j], <<>>)
          /\ t[2 * j] = Call("deleteZone", s[j], <<>>)
          /\ t[2 * Len(s) + 2 * j] = Call("file", s[j], <<>>)
          /\ t[2 * Len(s) + 2 * j + 1] = Call("addZone", s[j], <<>>)

\* The calls that take out the records old and put in the records new.
LikeIxfr(old, new, t) ==
    /\ Len(t) = 3 * Len(old) + 3 * Len(new)
    /\ \A j \in 1 .. Len(old) :
          /\ t[3 * j - 2] = Call("deleteRow", old[j][1], <<old[j]>>)
          /\ t[3 * j - 1] = Call("remove", old[j][1], <<old[j]>>)
          /\ t[3 * j] = Call("dump", old[j][1], <<>>)
    /\ \A j \in 1 .. Len(new) :
          /\ t[3 * Len(old) + 3 * j - 2] = Call("insertRows", new[j][1], <<new[j]>>)
          /\ t[3 * Len(old) + 3 * j - 1] = Call("add", new[j][1], <<new[j]>>)
          /\ t[3 * Len(old) + 3 * j] = Call("dump", new[j][1], <<>>)

\* The calls of one list after those of another.
LEMMA Concatenated ==
    ASSUME NEW A \in Seq(Calling), NEW B \in Seq(Calling), NEW C, C = A \o B
    PROVE  /\ C \in Seq(Calling) /\ Len(C) = Len(A) + Len(B)
           /\ \A i \in 1 .. Len(A) : C[i] = A[i]
           /\ \A i \in 1 .. Len(B) : C[Len(A) + i] = B[i]
<1>1. Len(A) \in Nat /\ Len(B) \in Nat
  OBVIOUS
<1>2. /\ C \in Seq(Calling) /\ Len(C) = Len(A) + Len(B)
      /\ \A i \in 1 .. Len(A) + Len(B) : C[i] = IF i <= Len(A) THEN A[i] ELSE B[i - Len(A)]
  BY ConcatProperties
<1>3. \A i \in 1 .. Len(A) : C[i] = A[i]
  BY <1>1, <1>2
<1>4. ASSUME NEW i \in 1 .. Len(B)
      PROVE  C[Len(A) + i] = B[i]
  <2>1. Len(A) + i \in 1 .. Len(A) + Len(B) /\ ~(Len(A) + i <= Len(A)) /\ Len(A) + i - Len(A) = i
    BY <1>1
  <2>q. QED  BY <1>2, <2>1
<1>q. QED  BY <1>2, <1>3, <1>4

\* The calls of an AXFR update are those lists, one after the other.
LEMMA AxfrCalls ==
    ASSUME NEW s \in Seq(Zones), NEW rows \in Seq(Rows), s # <<>>, rows # <<>>
    PROVE  /\ UpdateAuthZoneAXFR(s, rows) \in Seq(Calling)
           /\ LikeAxfr(s, rows, UpdateAuthZoneAXFR(s, rows))
<1> DEFINE A == ForEach(DropRecords, 2, s)
           M == <<Call("insertRows", Head(s), rows)>>
           B == ForEach(AddAgain, 2, s)
<1>1. Call("insertRows", Head(s), rows) \in Calling
  BY CallTyped DEF Statements
<1>2. M \in Seq(Calling) /\ Len(M) = 1 /\ M[1] = Call("insertRows", Head(s), rows)
  BY <1>1
<1>3. A \in Seq(Calling) /\ Len(A) = 2 * Len(s) /\ Len(s) \in Nat
      /\ \A j \in 1 .. Len(s) : A[2 * j - 1] = Call("clear", s[j], <<>>) /\ A[2 * j] = Call("deleteZone", s[j], <<>>)
  BY Dropped
<1>4. B \in Seq(Calling) /\ Len(B) = 2 * Len(s)
      /\ \A j \in 1 .. Len(s) : B[2 * j - 1] = Call("file", s[j], <<>>) /\ B[2 * j] = Call("addZone", s[j], <<>>)
  BY Readded
<1>5. UpdateAuthZoneAXFR(s, rows) = (A \o M) \o B
  BY DEF UpdateAuthZoneAXFR
<1> HIDE DEF A, M, B
<1> DEFINE C == A \o M
           t == C \o B
<1>c. C = A \o M /\ t = C \o B
  OBVIOUS
<1> HIDE DEF t, C
<1>m. A \in Seq(Calling) /\ M \in Seq(Calling)
  BY <1>2, <1>3
<1>6. /\ C \in Seq(Calling) /\ Len(C) = 2 * Len(s) + 1
      /\ \A i \in 1 .. 2 * Len(s) : C[i] = A[i]
      /\ C[2 * Len(s) + 1] = Call("insertRows", Head(s), rows)
  <2>1. /\ C \in Seq(Calling) /\ Len(C) = Len(A) + Len(M)
        /\ \A i \in 1 .. Len(A) : C[i] = A[i]
        /\ \A i \in 1 .. Len(M) : C[Len(A) + i] = M[i]
    BY <1>m, <1>c, Concatenated
  <2>q. QED  BY <1>2, <1>3, <2>1
<1>7. /\ t \in Seq(Calling) /\ Len(t) = 4 * Len(s) + 1
      /\ \A i \in 1 .. 2 * Len(s) + 1 : t[i] = C[i]
      /\ \A i \in 1 .. 2 * Len(s) : t[2 * Len(s) + 1 + i] = B[i]
  <2>m. C \in Seq(Calling) /\ B \in Seq(Calling)
    BY <1>6, <1>4
  <2>1. Len(C) = 2 * Len(s) + 1
    BY <1>6
  <2>2. /\ t \in Seq(Calling) /\ Len(t) = Len(C) + Len(B)
        /\ \A i \in 1 .. Len(C) : t[i] = C[i]
        /\ \A i \in 1 .. Len(B) : t[Len(C) + i] = B[i]
    BY <2>m, <1>c, Concatenated
  <2>q. QED  BY <1>3, <1>4, <2>1, <2>2
<1>8. t[2 * Len(s) + 1] = Call("insertRows", Head(s), rows)
  <2>1. 2 * Len(s) + 1 \in 1 .. 2 * Len(s) + 1
    BY <1>3
  <2>q. QED  BY <1>6, <1>7, <2>1
<1>9. ASSUME NEW j \in 1 .. Len(s)
      PROVE  /\ t[2 * j - 1] = Call("clear", s[j], <<>>)
             /\ t[2 * j] = Call("deleteZone", s[j], <<>>)
             /\ t[2 * Len(s) + 2 * j] = Call("file", s[j], <<>>)
             /\ t[2 * Len(s) + 2 * j + 1] = Call("addZone", s[j], <<>>)
  <2>1. /\ {2 * j - 1, 2 * j} \subseteq 1 .. 2 * Len(s) /\ 1 .. 2 * Len(s) \subseteq 1 .. 2 * Len(s) + 1
        /\ 2 * Len(s) + 1 + (2 * j - 1) = 2 * Len(s) + 2 * j
        /\ 2 * Len(s) + 1 + 2 * j = 2 * Len(s) + 2 * j + 1
    BY <1>3
  <2>2. t[2 * j - 1] = A[2 * j - 1] /\ t[2 * j] = A[2 * j]
    BY <1>6, <1>7, <2>1
  <2>3. t[2 * Len(s) + 2 * j] = B[2 * j - 1] /\ t[2 * Len(s) + 2 * j + 1] = B[2 * j]
    BY <1>7, <2>1
  <2>q. QED  BY <1>3, <1>4, <2>2, <2>3
<1>q. QED  BY <1>5, <1>7, <1>8, <1>9 DEF LikeAxfr, t, C

\* So are those of an update of single records.
LEMMA IxfrCalls ==
    ASSUME NEW old \in Seq(Rows), NEW new \in Seq(Rows)
    PROVE  /\ UpdateAuthZoneIXFR(old, new) \in Seq(Calling)
           /\ LikeIxfr(old, new, UpdateAuthZoneIXFR(old, new))
<1> DEFINE A == ForEach(TakeOut, 3, old)
           B == ForEach(PutIn, 3, new)
           t == A \o B
<1>1. /\ A \in Seq(Calling) /\ Len(A) = 3 * Len(old) /\ Len(old) \in Nat /\ Len(new) \in Nat
      /\ \A j \in 1 .. Len(old) : /\ A[3 * j - 2] = Call("deleteRow", old[j][1], <<old[j]>>)
                                  /\ A[3 * j - 1] = Call("remove", old[j][1], <<old[j]>>)
                                  /\ A[3 * j] = Call("dump", old[j][1], <<>>)
  <2>1. Len(old) \in Nat /\ Len(new) \in Nat
    OBVIOUS
  <2>q. QED  BY <2>1, TakenOut
<1>2. /\ B \in Seq(Calling) /\ Len(B) = 3 * Len(new)
      /\ \A j \in 1 .. Len(new) : /\ B[3 * j - 2] = Call("insertRows", new[j][1], <<new[j]>>)
                                  /\ B[3 * j - 1] = Call("add", new[j][1], <<new[j]>>)
                                  /\ B[3 * j] = Call("dump", new[j][1], <<>>)
  BY PutBack
<1>3. UpdateAuthZoneIXFR(old, new) = t
  BY DEF UpdateAuthZoneIXFR
<1>c. t = A \o B
  OBVIOUS
<1> HIDE DEF A, B, t
<1>m. A \in Seq(Calling) /\ B \in Seq(Calling)
  BY <1>1, <1>2
<1>4. /\ t \in Seq(Calling) /\ Len(t) = 3 * Len(old) + 3 * Len(new)
      /\ \A i \in 1 .. 3 * Len(old) : t[i] = A[i]
      /\ \A i \in 1 .. 3 * Len(new) : t[3 * Len(old) + i] = B[i]
  <2>1. Len(A) = 3 * Len(old)
    BY <1>1
  <2>2. /\ t \in Seq(Calling) /\ Len(t) = Len(A) + Len(B)
        /\ \A i \in 1 .. Len(A) : t[i] = A[i]
        /\ \A i \in 1 .. Len(B) : t[Len(A) + i] = B[i]
    BY <1>m, <1>c, Concatenated
  <2>q. QED  BY <1>1, <1>2, <2>1, <2>2
<1>5. ASSUME NEW j \in 1 .. Len(old)
      PROVE  /\ t[3 * j - 2] = Call("deleteRow", old[j][1], <<old[j]>>)
             /\ t[3 * j - 1] = Call("remove", old[j][1], <<old[j]>>)
             /\ t[3 * j] = Call("dump", old[j][1], <<>>)
  <2>1. {3 * j - 2, 3 * j - 1, 3 * j} \subseteq 1 .. 3 * Len(old)
    BY <1>1
  <2>q. QED  BY <1>1, <1>4, <2>1
<1>6. ASSUME NEW j \in 1 .. Len(new)
      PROVE  /\ t[3 * Len(old) + 3 * j - 2] = Call("insertRows", new[j][1], <<new[j]>>)
             /\ t[3 * Len(old) + 3 * j - 1] = Call("add", new[j][1], <<new[j]>>)
             /\ t[3 * Len(old) + 3 * j] = Call("dump", new[j][1], <<>>)
  <2>1. {3 * j - 2, 3 * j - 1, 3 * j} \subseteq 1 .. 3 * Len(new)
        /\ 3 * Len(old) + (3 * j - 2) = 3 * Len(old) + 3 * j - 2
        /\ 3 * Len(old) + (3 * j - 1) = 3 * Len(old) + 3 * j - 1
    BY <1>1
  <2>q. QED  BY <1>2, <1>4, <2>1
<1>q. QED  BY <1>3, <1>4, <1>5, <1>6 DEF LikeIxfr

\* The zones of rows.
LEMMA RowZones ==
    /\ ZonesOf(<<>>) = {}
    /\ \A row : ZonesOf(<<row>>) = {row[1]}
    /\ \A row, x : ZonesOf(<<row, x>>) = {row[1], x[1]}
    /\ \A rows \in Seq(Rows) : ZonesOf(rows) \subseteq Zones
    /\ \A rows \in Seq(Rows) : rows # <<>> => Head(rows)[1] \in ZonesOf(rows) /\ Head(rows)[1] \in Zones
<1>1. ZonesOf(<<>>) = {}
  BY DEF ZonesOf, Among
<1>2. \A row : Among(<<row>>) = {row}
  BY DEF Among
<1>3. \A row, x : Among(<<row, x>>) = {row, x}
  BY DEF Among
<1>4. ASSUME NEW rows \in Seq(Rows)
      PROVE  ZonesOf(rows) \subseteq Zones
  BY DEF ZonesOf, Among, Rows
<1>5. ASSUME NEW rows \in Seq(Rows), rows # <<>>
      PROVE  Head(rows)[1] \in ZonesOf(rows) /\ Head(rows)[1] \in Zones
  <2>1. Head(rows) \in Among(rows) /\ Head(rows) \in Rows
    BY <1>5 DEF Among
  <2>q. QED  BY <2>1 DEF ZonesOf, Rows
<1>6. ASSUME NEW row, NEW x
      PROVE  ZonesOf(<<row>>) = {row[1]} /\ ZonesOf(<<row, x>>) = {row[1], x[1]}
  BY <1>2, <1>3 DEF ZonesOf
<1>q. QED  BY <1>1, <1>4, <1>5, <1>6

\* A request is about the zones and rows it carries.
LEMMA AboutParts ==
    ASSUME NEW r \in Requests
    PROVE  /\ \A i \in 1 .. Len(r.zones) : r.zones[i] \in About(r) /\ r.zones[i] \in Zones
           /\ r.zones # <<>> => Head(r.zones) \in About(r) /\ Head(r.zones) \in Zones
                                 /\ Head(r.zones) \in Among(r.zones)
           /\ ZonesOf(r.old) \cup ZonesOf(r.new) \subseteq About(r)
           /\ \A i \in 1 .. Len(r.old) : r.old[i][1] \in About(r)
           /\ \A i \in 1 .. Len(r.new) : r.new[i][1] \in About(r)
<1>1. r.zones \in Seq(Zones) /\ r.old \in Seq(Rows) /\ r.new \in Seq(Rows)
  BY Typed
<1>2. About(r) = Among(r.zones) \cup ZonesOf(r.old) \cup ZonesOf(r.new)
  BY DEF About, ZonesOf
<1>3. \A i \in 1 .. Len(r.zones) : r.zones[i] \in Among(r.zones) /\ r.zones[i] \in Zones
  BY <1>1 DEF Among
<1>4. r.zones # <<>> => Head(r.zones) \in Among(r.zones) /\ Head(r.zones) \in Zones
  <2>1. \A s \in Seq(Zones) : s # <<>> => 1 \in 1 .. Len(s) /\ Head(s) = s[1]
    OBVIOUS
  <2>q. QED  BY <1>1, <1>3, <2>1
<1>5. \A i \in 1 .. Len(r.old) : r.old[i][1] \in ZonesOf(r.old)
  BY <1>1 DEF ZonesOf, Among
<1>6. \A i \in 1 .. Len(r.new) : r.new[i][1] \in ZonesOf(r.new)
  BY <1>1 DEF ZonesOf, Among
<1>q. QED  BY <1>2, <1>3, <1>4, <1>5, <1>6

\* A request of one zone z, by its kind.
LikeShort(r, z, t) ==
    \/ /\ r.kind = "createZone" /\ ZonesOf(r.new) \subseteq {z} /\ Len(t) = 4
       /\ t[1] = Call("insertZone", z, <<>>) /\ t[2] = Call("insertRows", z, r.new)
       /\ t[3] = Call("file", z, <<>>) /\ t[4] = Call("addZone", z, <<>>)
    \/ /\ r.kind = "updateZone" /\ Len(t) = 2
       /\ t[1] = Call("file", z, <<>>) /\ t[2] = Call("modifyZone", z, <<>>)
    \/ /\ r.kind = "deleteZone" /\ Len(t) = 3
       /\ t[1] = Call("deleteRowOfZone", z, <<>>) /\ t[2] = Call("clear", z, <<>>)
       /\ t[3] = Call("deleteZone", z, <<>>)
    \/ /\ r.kind = "batch" /\ ZonesOf(r.new) \subseteq {z} /\ Len(t) = 4
       /\ t[1] = Call("findZone", z, <<>>) /\ t[2] = Call("insertRows", z, r.new)
       /\ t[3] = Call("file", z, <<>>) /\ t[4] = Call("modifyZone", z, <<>>)
    \/ /\ r.kind = "updateRR" /\ Len(t) = 4 /\ Len(r.old) = 1 /\ Len(r.new) = 1
       /\ ZonesOf(r.old) \subseteq {z} /\ ZonesOf(r.new) \subseteq {z}
       /\ t[1] = Call("remove", z, r.old) /\ \E rows \in Seq(Rows) :
             /\ t[2] = Call("updateRow", z, rows) /\ ZonesOf(rows) \subseteq {z}
             /\ Len(rows) = 2 /\ rows[1] = r.old[1] /\ rows[2] = r.new[1]
       /\ t[3] = Call("add", z, r.new) /\ t[4] = Call("dump", z, <<>>)

\* The calls of each kind of request.
LEMMA CallsLike ==
    ASSUME NEW r \in Requests
    PROVE  /\ Calls(r) \in Seq(Calling)
           /\ \/ Calls(r) = <<>>
              \/ \E z \in About(r) \cap Zones : LikeShort(r, z, Calls(r))
              \/ /\ r.kind = "axfr" /\ r.zones # <<>> /\ ZonesOf(r.new) \subseteq Among(r.zones)
                 /\ LikeAxfr(r.zones, r.new, Calls(r))
              \/ r.kind = "rrs" /\ LikeIxfr(r.old, r.new, Calls(r))
<1>0. /\ RequestOK(r) /\ r.zones \in Seq(Zones) /\ r.old \in Seq(Rows) /\ r.new \in Seq(Rows)
      /\ r.kind \in {"createZone", "updateZone", "deleteZone", "axfr", "rrs", "updateRR", "batch"}
  BY Typed
<1> DEFINE z == Head(r.zones)
           t == Calls(r)
<1>t. t = Calls(r)
  OBVIOUS
<1> HIDE DEF t
<1>a. ASSUME r.zones # <<>> PROVE z \in About(r) /\ z \in Zones
  BY <1>a, AboutParts
<1> HIDE DEF z
<1>1. CASE r.kind = "createZone"
  <2>1. t = <<Call("insertZone", z, <<>>), Call("insertRows", z, r.new)>>
                      \o <<Call("file", z, <<>>), Call("addZone", z, <<>>)>>
    BY <1>1, <1>t DEF Calls, CreateAuthZone, AddAgain, z
  <2>2. z \in About(r) /\ z \in Zones /\ ZonesOf(r.new) \subseteq {z}
    BY <1>0, <1>1, <1>a DEF RequestOK, z
  <2>3. {Call("insertZone", z, <<>>), Call("insertRows", z, r.new), Call("file", z, <<>>),
         Call("addZone", z, <<>>)} \subseteq Calling
    BY <1>0, <2>2, CallTyped DEF Statements
  <2>4. /\ Len(t) = 4 /\ t[1] = Call("insertZone", z, <<>>) /\ t[2] = Call("insertRows", z, r.new)
        /\ t[3] = Call("file", z, <<>>) /\ t[4] = Call("addZone", z, <<>>)
    BY <2>1
  <2>5. t \in Seq(Calling)
    BY <2>1, <2>3
  <2>q. QED  BY <1>1, <1>t, <2>2, <2>4, <2>5 DEF LikeShort
<1>2. CASE r.kind = "updateZone"
  <2>1. t = <<Call("file", z, <<>>), Call("modifyZone", z, <<>>)>>
    BY <1>2, <1>t DEF Calls, UpdateAuthZone, z
  <2>2. z \in About(r) /\ z \in Zones
    BY <1>0, <1>2, <1>a DEF RequestOK
  <2>3. {Call("file", z, <<>>), Call("modifyZone", z, <<>>)} \subseteq Calling
    BY <2>2, CallTyped
  <2>q. QED  BY <1>2, <1>t, <2>1, <2>2, <2>3 DEF LikeShort
<1>3. CASE r.kind = "deleteZone"
  <2>1. t = <<Call("deleteRowOfZone", z, <<>>)>>
                      \o <<Call("clear", z, <<>>), Call("deleteZone", z, <<>>)>>
    BY <1>3, <1>t DEF Calls, DeleteAuthZone, DropRecords, z
  <2>2. z \in About(r) /\ z \in Zones
    BY <1>0, <1>3, <1>a DEF RequestOK
  <2>3. {Call("deleteRowOfZone", z, <<>>), Call("clear", z, <<>>), Call("deleteZone", z, <<>>)} \subseteq Calling
    BY <2>2, CallTyped DEF Statements
  <2>4. /\ Len(t) = 3 /\ t[1] = Call("deleteRowOfZone", z, <<>>) /\ t[2] = Call("clear", z, <<>>)
        /\ t[3] = Call("deleteZone", z, <<>>)
    BY <2>1
  <2>5. t \in Seq(Calling)
    BY <2>1, <2>3
  <2>q. QED  BY <1>3, <1>t, <2>2, <2>4, <2>5 DEF LikeShort
<1>4. CASE r.kind = "axfr"
  <2>1. t = UpdateAuthZoneAXFR(r.zones, r.new)
    BY <1>4, <1>t DEF Calls
  <2>2. CASE r.new = <<>>
    BY <1>t, <2>1, <2>2 DEF UpdateAuthZoneAXFR
  <2>3. CASE r.new # <<>>
    <3>1. ZonesOf(r.new) \subseteq Among(r.zones)
      BY <1>0, <1>4 DEF RequestOK
    <3>2. r.zones # <<>>
      <4>1. ZonesOf(r.new) # {}
        BY <1>0, <2>3, RowZones
      <4>2. Among(<<>>) = {}
        BY DEF Among
      <4>q. QED  BY <3>1, <4>1, <4>2
    <3>q. QED  BY <1>0, <1>4, <1>t, <2>1, <2>3, <3>1, <3>2, AxfrCalls
  <2>q. QED  BY <2>2, <2>3
<1>5. CASE r.kind = "rrs"
  <2>1. t = UpdateAuthZoneIXFR(r.old, r.new)
    BY <1>5, <1>t DEF Calls
  <2>q. QED  BY <1>0, <1>5, <1>t, <2>1, IxfrCalls
<1>6. CASE r.kind = "updateRR"
  <2>1. t = <<Call("remove", z, r.old), Call("updateRow", z, r.old \o r.new),
                     Call("add", z, r.new), Call("dump", z, <<>>)>>
    BY <1>6, <1>t DEF Calls, UpdateAuthRR, z
  <2>2. /\ z \in About(r) /\ z \in Zones /\ ZonesOf(r.old) \subseteq {z} /\ ZonesOf(r.new) \subseteq {z}
        /\ Len(r.old) = 1 /\ Len(r.new) = 1
    BY <1>0, <1>6, <1>a DEF RequestOK, z
  <2> DEFINE rows == r.old \o r.new
  <2>3. /\ rows \in Seq(Rows) /\ Len(rows) = 2
        /\ \A i \in 1 .. 2 : rows[i] = IF i <= 1 THEN r.old[i] ELSE r.new[i - 1]
    <3>1. /\ rows \in Seq(Rows) /\ Len(rows) = Len(r.old) + Len(r.new)
          /\ \A i \in 1 .. Len(r.old) + Len(r.new) :
                rows[i] = IF i <= Len(r.old) THEN r.old[i] ELSE r.new[i - Len(r.old)]
      BY <1>0, ConcatProperties
    <3> HIDE DEF rows
    <3>q. QED  BY <2>2, <3>1
  <2> HIDE DEF rows
  <2>4. rows[1] = r.old[1] /\ rows[2] = r.new[1]
    BY <2>3
  <2>5. ZonesOf(rows) \subseteq {z}
    <3>1. r.old[1][1] \in {z} /\ r.new[1][1] \in {z}
      <4>1. r.old[1] \in Among(r.old) /\ r.new[1] \in Among(r.new)
        BY <1>0, <2>2 DEF Among
      <4>q. QED  BY <2>2, <4>1 DEF ZonesOf
    <3>2. \A i \in 1 .. 2 : rows[i][1] \in {z}
      BY <2>4, <3>1
    <3>q. QED  BY <2>3, <3>2 DEF ZonesOf, Among
  <2>6. {Call("remove", z, r.old), Call("updateRow", z, rows), Call("add", z, r.new),
         Call("dump", z, <<>>)} \subseteq Calling
    BY <1>0, <2>2, <2>3, CallTyped DEF Statements
  <2>7. t = <<Call("remove", z, r.old), Call("updateRow", z, rows), Call("add", z, r.new), Call("dump", z, <<>>)>>
    BY <2>1 DEF rows
  <2>q. QED  BY <1>6, <1>t, <2>2, <2>3, <2>4, <2>5, <2>6, <2>7 DEF LikeShort
<1>7. CASE r.kind = "batch"
  <2> DEFINE y == Head(r.new)[1]
  <2>1. CASE r.new = <<>>
    BY <1>7, <1>t, <2>1 DEF Calls, BatchCreateAuthRRs
  <2>2. CASE r.new # <<>>
    <3>1. t = <<Call("findZone", y, <<>>), Call("insertRows", y, r.new),
                       Call("file", y, <<>>), Call("modifyZone", y, <<>>)>>
      BY <1>7, <2>2, <1>t DEF Calls, BatchCreateAuthRRs
    <3>2. y \in ZonesOf(r.new) /\ y \in Zones
      BY <1>0, <2>2, RowZones
    <3> HIDE DEF y
    <3>3. ZonesOf(r.new) \subseteq {y} /\ y \in About(r)
      BY <1>0, <1>7, <3>2, AboutParts DEF RequestOK
    <3>4. {Call("findZone", y, <<>>), Call("insertRows", y, r.new), Call("file", y, <<>>),
           Call("modifyZone", y, <<>>)} \subseteq Calling
      BY <1>0, <3>2, CallTyped DEF Statements
    <3>q. QED  BY <1>7, <1>t, <3>1, <3>2, <3>3, <3>4 DEF LikeShort
  <2>q. QED  BY <2>1, <2>2
<1>q. QED  BY <1>0, <1>1, <1>2, <1>3, <1>4, <1>5, <1>6, <1>7

\* A list of calls with which a request may begin.
Started(r, t) ==
    /\ Proper(r, t) /\ Begins(r, t)
    /\ \A d \in Db, D \in SUBSET Zones : Grounded(d, t, D) /\ Ungrounded(r, d, t)

\* What a call is made of.
LEMMA CallParts ==
    \A do, z, rows : /\ Call(do, z, rows).do = do /\ Call(do, z, rows).zone = z
                     /\ Call(do, z, rows).rows = rows
  BY DEF Call

\* A call that stands there follows, or precedes.
LEMMA FollowsBy ==
    ASSUME NEW t, NEW i, NEW j \in i + 1 .. Len(t), NEW z, NEW dos, t[j].do \in dos, t[j].zone = z
    PROVE  Follows(t, i, z, dos)
  BY DEF Follows

LEMMA PrecedesBy ==
    ASSUME NEW t, NEW i, NEW j \in 1 .. i - 1, NEW z, NEW dos, t[j].do \in dos, t[j].zone = z
    PROVE  Precedes(t, i, z, dos)
  BY DEF Precedes

\* No calls at all, as few as a request of one zone makes, an AXFR update's
\* and those of single records: each list starts in order.
LEMMA EmptyStarted ==
    ASSUME NEW r
    PROVE  Started(r, <<>>)
  BY DEF Started, Proper, Begins, Grounded, Ungrounded

LEMMA ShortStarted ==
    ASSUME NEW r \in Requests, NEW t \in Seq(Calling), NEW z \in About(r), LikeShort(r, z, t)
    PROVE  Started(r, t)
<1> USE RowZones, CallParts
<1>1. CASE r.kind = "createZone"
  <2>1. /\ Len(t) = 4 /\ ZonesOf(r.new) \subseteq {z}
        /\ t[1] = Call("insertZone", z, <<>>) /\ t[2] = Call("insertRows", z, r.new)
        /\ t[3] = Call("file", z, <<>>) /\ t[4] = Call("addZone", z, <<>>)
    BY <1>1 DEF LikeShort
  <2>2. /\ \A i \in {1, 2, 3} : Follows(t, i, z, RndcDos)
        /\ \A i \in {2, 3, 4} : Precedes(t, i, z, {"insertZone", "findZone", "deleteZone"})
        /\ \A i \in {2, 3, 4} : Precedes(t, i, z, {"insertZone", "deleteZone"})
    BY <2>1 DEF Follows, Precedes, RndcDos
  <2>3. \A i \in 1 .. Len(t) : i \in {1, 2, 3, 4}
    BY <2>1
  <2>a. \A i \in {1, 2, 3, 4} : t[i].zone = z /\ ZonesOf(t[i].rows) \subseteq {z}
    BY <2>1
  <2>b. \A i \in {1, 2, 3, 4} : Covered(r, t, i)
    <3>1. t[4].do \notin Statements /\ \A i \in {1, 2, 3, 4} : t[i].do \notin {"deleteRowOfZone", "deleteZone"}
      BY <2>1 DEF Statements
    <3>q. QED  BY <2>a, <2>2, <3>1 DEF Covered
  <2>4. \A i \in {1, 2, 3, 4} : Fits(r, t, i)
    BY <1>1, <2>1, <2>a, <2>b DEF Fits, InScope, DosOf, Prepared, Single, Paired
  <2>5. \A d \in Db, D \in SUBSET Zones : Grounded(d, t, D) /\ Ungrounded(r, d, t)
    <3>1. \A i \in {1, 2, 3, 4} : /\ t[i].do = "insertRows" => i = 2
                                  /\ t[i].do = "addZone" => i = 4
      BY <2>1
    <3>2. \A y \in ZonesOf(t[2].rows) : y = z
      BY <2>a
    <3>3. /\ Precedes(t, 2, z, {"insertZone", "findZone", "deleteZone"}) /\ Precedes(t, 4, z, {"insertZone", "deleteZone"})
          /\ t[2].zone = z /\ t[4].zone = z
      BY <2>2, <2>a
    <3>q. QED  BY <1>1, <2>3, <3>1, <3>2, <3>3 DEF Grounded, Ungrounded
  <2>6. Proper(r, t)
    BY <2>3, <2>4 DEF Proper
  <2>7. Begins(r, t)
    BY <2>1 DEF Begins
  <2>q. QED  BY <2>5, <2>6, <2>7 DEF Started
<1>2. CASE r.kind = "updateZone"
  <2>1. Len(t) = 2 /\ t[1] = Call("file", z, <<>>) /\ t[2] = Call("modifyZone", z, <<>>)
    BY <1>2 DEF LikeShort
  <2>3. \A i \in 1 .. Len(t) : i \in {1, 2}
    BY <2>1
  <2>4. \A i \in {1, 2} : Fits(r, t, i)
    BY <1>2, <2>1 DEF Fits, InScope, DosOf, Covered, RndcKinds, Prepared, Single, Paired, Statements
  <2>5. \A d \in Db, D \in SUBSET Zones : Grounded(d, t, D) /\ Ungrounded(r, d, t)
    BY <1>2, <2>1, <2>3 DEF Grounded, Ungrounded
  <2>6. Proper(r, t)
    BY <2>3, <2>4 DEF Proper
  <2>7. Begins(r, t)
    BY <2>1 DEF Begins
  <2>q. QED  BY <2>5, <2>6, <2>7 DEF Started
<1>3. CASE r.kind = "deleteZone"
  <2>1. /\ Len(t) = 3 /\ t[1] = Call("deleteRowOfZone", z, <<>>) /\ t[2] = Call("clear", z, <<>>)
        /\ t[3] = Call("deleteZone", z, <<>>)
    BY <1>3 DEF LikeShort
  <2>2. /\ \A i \in {1, 2} : Follows(t, i, z, RndcDos)
        /\ Follows(t, 1, z, {"clear"})
        /\ Precedes(t, 3, z, {"deleteRowOfZone"})
    BY <2>1 DEF Follows, Precedes, RndcDos
  <2>3. \A i \in 1 .. Len(t) : i \in {1, 2, 3}
    BY <2>1
  <2>4. \A i \in {1, 2, 3} : Fits(r, t, i)
    BY <1>3, <2>1, <2>2 DEF Fits, InScope, DosOf, Covered, RndcKinds, Prepared, Single, Paired, Statements
  <2>5. \A d \in Db, D \in SUBSET Zones : Grounded(d, t, D) /\ Ungrounded(r, d, t)
    BY <1>3, <2>1, <2>2, <2>3 DEF Grounded, Ungrounded
  <2>6. Proper(r, t)
    BY <2>3, <2>4 DEF Proper
  <2>7. Begins(r, t)
    BY <2>1 DEF Begins
  <2>q. QED  BY <2>5, <2>6, <2>7 DEF Started
<1>4. CASE r.kind = "batch"
  <2>1. /\ Len(t) = 4 /\ ZonesOf(r.new) \subseteq {z}
        /\ t[1] = Call("findZone", z, <<>>) /\ t[2] = Call("insertRows", z, r.new)
        /\ t[3] = Call("file", z, <<>>) /\ t[4] = Call("modifyZone", z, <<>>)
    BY <1>4 DEF LikeShort
  <2>2. /\ \A i \in {1, 2, 3} : Follows(t, i, z, RndcDos)
        /\ \A i \in {2, 3, 4} : Precedes(t, i, z, {"insertZone", "findZone", "deleteZone"})
    BY <2>1 DEF Follows, Precedes, RndcDos
  <2>3. \A i \in 1 .. Len(t) : i \in {1, 2, 3, 4}
    BY <2>1
  <2>a. \A i \in {1, 2, 3, 4} : t[i].zone = z /\ ZonesOf(t[i].rows) \subseteq {z}
    BY <2>1
  <2>b. \A i \in {1, 2, 3, 4} : Covered(r, t, i)
    <3>1. t[4].do \notin Statements /\ \A i \in {1, 2, 3, 4} : t[i].do \notin {"deleteRowOfZone", "deleteZone"}
      BY <2>1 DEF Statements
    <3>q. QED  BY <2>a, <2>2, <3>1 DEF Covered
  <2>4. \A i \in {1, 2, 3, 4} : Fits(r, t, i)
    BY <1>4, <2>1, <2>a, <2>b DEF Fits, InScope, DosOf, Prepared, Single, Paired
  <2>5. \A d \in Db, D \in SUBSET Zones : Grounded(d, t, D) /\ Ungrounded(r, d, t)
    <3>1. \A i \in {1, 2, 3, 4} : /\ t[i].do = "insertRows" => i = 2
                                  /\ t[i].do = "addZone" => FALSE
      BY <2>1
    <3>2. \A y \in ZonesOf(t[2].rows) : y = z
      BY <2>a
    <3>3. /\ Precedes(t, 2, z, {"insertZone", "findZone", "deleteZone"})
          /\ t[2].zone = z /\ t[4].zone = z
      BY <2>2, <2>a
    <3>q. QED  BY <1>4, <2>3, <3>1, <3>2, <3>3 DEF Grounded, Ungrounded
  <2>6. Proper(r, t)
    BY <2>3, <2>4 DEF Proper
  <2>7. Begins(r, t)
    BY <2>1 DEF Begins
  <2>q. QED  BY <2>5, <2>6, <2>7 DEF Started
<1>5. CASE r.kind = "updateRR"
  <2>1. /\ Len(t) = 4 /\ Len(r.old) = 1 /\ Len(r.new) = 1
        /\ ZonesOf(r.old) \subseteq {z} /\ ZonesOf(r.new) \subseteq {z}
        /\ t[1] = Call("remove", z, r.old) /\ t[3] = Call("add", z, r.new) /\ t[4] = Call("dump", z, <<>>)
    BY <1>5 DEF LikeShort
  <2>2. PICK rows \in Seq(Rows) :
            /\ t[2] = Call("updateRow", z, rows) /\ ZonesOf(rows) \subseteq {z}
            /\ Len(rows) = 2 /\ rows[1] = r.old[1] /\ rows[2] = r.new[1]
    BY <1>5 DEF LikeShort
  <2>3. Follows(t, 2, z, {"dump"})
    BY <2>1 DEF Follows
  <2>4. \A i \in 1 .. Len(t) : i \in {1, 2, 3, 4}
    BY <2>1
  <2>5. \A i \in {1, 2, 3, 4} : InScope(r, t, i) /\ Covered(r, t, i) /\ Prepared(r, t, i) /\ Single(r, t, i)
    BY <1>5, <2>1, <2>2, <2>3 DEF InScope, DosOf, Covered, RndcKinds, Prepared, Single
  <2>6. \A i \in {1, 2, 3, 4} : Paired(r, t, i)
    BY <1>5, <2>1, <2>2 DEF Paired, Tells, IsTold, Told
  <2>7. \A d \in Db, D \in SUBSET Zones : Grounded(d, t, D) /\ Ungrounded(r, d, t)
    BY <1>5, <2>1, <2>2, <2>4 DEF Grounded, Ungrounded
  <2>q. QED  BY <1>5, <2>1, <2>4, <2>5, <2>6, <2>7 DEF Started, Proper, Begins, Fits
<1>q. QED  BY <1>1, <1>2, <1>3, <1>4, <1>5 DEF LikeShort

LEMMA AxfrStarted ==
    ASSUME NEW r \in Requests, r.kind = "axfr", r.zones # <<>>, ZonesOf(r.new) \subseteq Among(r.zones),
           NEW t \in Seq(Calling), LikeAxfr(r.zones, r.new, t)
    PROVE  Started(r, t)
<1> DEFINE s == r.zones
           n == Len(s)
<1>0. /\ s \in Seq(Zones) /\ s # <<>> /\ r.new \in Seq(Rows)
      /\ \A i \in 1 .. n : s[i] \in About(r)
      /\ ZonesOf(r.new) \subseteq Among(s) /\ ZonesOf(r.new) \subseteq About(r)
  BY Typed, AboutParts
<1>1. n \in Nat \ {0} /\ 1 \in 1 .. n /\ Head(s) = s[1]
  BY <1>0
<1>2. /\ Len(t) = 4 * n + 1
      /\ t[2 * n + 1] = Call("insertRows", s[1], r.new)
      /\ \A j \in 1 .. n :
            /\ t[2 * j - 1] = Call("clear", s[j], <<>>)
            /\ t[2 * j] = Call("deleteZone", s[j], <<>>)
            /\ t[2 * n + 2 * j] = Call("file", s[j], <<>>)
            /\ t[2 * n + 2 * j + 1] = Call("addZone", s[j], <<>>)
  BY <1>1 DEF LikeAxfr
<1>3. \A y \in Among(s) : \E j \in 1 .. n : s[j] = y
  BY <1>0 DEF Among
<1> HIDE DEF s, n
<1>4. ASSUME NEW i \in 1 .. Len(t)
      PROVE  \/ i = 2 * n + 1
             \/ \E j \in 1 .. n : i = 2 * j - 1 \/ i = 2 * j \/ i = 2 * n + 2 * j \/ i = 2 * n + 2 * j + 1
  <2>1. CASE i <= 2 * n
    <3>1. (i + 1) \div 2 \in 1 .. n /\ (i = 2 * ((i + 1) \div 2) - 1 \/ i = 2 * ((i + 1) \div 2))
      BY <1>1, <2>1
    <3>q. QED  BY <3>1
  <2>2. CASE i >= 2 * n + 2
    <3>1. /\ (i - 2 * n) \div 2 \in 1 .. n
          /\ i = 2 * n + 2 * ((i - 2 * n) \div 2) \/ i = 2 * n + 2 * ((i - 2 * n) \div 2) + 1
      BY <1>1, <1>2, <2>2
    <3>q. QED  BY <3>1
  <2>3. CASE i = 2 * n + 1
    BY <2>3
  <2>q. QED  BY <1>1, <1>2, <2>1, <2>2, <2>3
<1>5. ASSUME NEW j \in 1 .. n
      PROVE  /\ Follows(t, 2 * j - 1, s[j], RndcDos)
             /\ Follows(t, 2 * j, s[j], {"addZone"})
             /\ Follows(t, 2 * n + 1, s[j], RndcDos)
             /\ Precedes(t, 2 * n + 1, s[j], {"insertZone", "findZone", "deleteZone"})
             /\ Precedes(t, 2 * n + 2 * j + 1, s[j], {"insertZone", "deleteZone"})
  <2>1. /\ 2 * j \in 2 * j - 1 + 1 .. Len(t) /\ 2 * n + 2 * j + 1 \in 2 * j + 1 .. Len(t)
        /\ 2 * n + 2 * j + 1 \in 2 * n + 1 + 1 .. Len(t)
        /\ 2 * j \in 1 .. 2 * n + 1 - 1 /\ 2 * j \in 1 .. 2 * n + 2 * j + 1 - 1
    BY <1>1, <1>2
  <2>2. /\ t[2 * j].do = "deleteZone" /\ t[2 * j].zone = s[j]
        /\ t[2 * n + 2 * j + 1].do = "addZone" /\ t[2 * n + 2 * j + 1].zone = s[j]
    BY <1>2, CallParts
  <2>3. Follows(t, 2 * j - 1, s[j], RndcDos) /\ Follows(t, 2 * n + 1, s[j], RndcDos)
    BY <2>1, <2>2 DEF Follows, RndcDos
  <2>4. Follows(t, 2 * j, s[j], {"addZone"})
    BY <2>1, <2>2 DEF Follows
  <2>5. Precedes(t, 2 * n + 1, s[j], {"insertZone", "findZone", "deleteZone"})
    <3>1. t[2 * j].do \in {"insertZone", "findZone", "deleteZone"}
      BY <2>2
    <3>2. 2 * j \in 1 .. (2 * n + 1) - 1 /\ t[2 * j].zone = s[j]
      BY <1>1, <2>1, <2>2
    <3>q. QED  BY <3>1, <3>2, PrecedesBy
  <2>6. Precedes(t, 2 * n + 2 * j + 1, s[j], {"insertZone", "deleteZone"})
    <3>1. t[2 * j].do \in {"insertZone", "deleteZone"} /\ t[2 * j].zone = s[j]
      BY <2>2
    <3>2. 2 * j \in 1 .. (2 * n + 2 * j + 1) - 1
      BY <1>1, <2>1
    <3>q. QED  BY <3>1, <3>2, PrecedesBy
  <2>q. QED  BY <2>3, <2>4, <2>5, <2>6
<1>6. ASSUME NEW j \in 1 .. n
      PROVE  Fits(r, t, 2 * j - 1) /\ Fits(r, t, 2 * j)
  <2>1. /\ t[2 * j - 1].do = "clear" /\ t[2 * j - 1].zone = s[j] /\ ZonesOf(t[2 * j - 1].rows) = {}
        /\ t[2 * j].do = "deleteZone" /\ t[2 * j].zone = s[j] /\ ZonesOf(t[2 * j].rows) = {}
    BY <1>2, CallParts, RowZones
  <2>q. QED  BY <1>0, <1>5, <2>1 DEF n, Fits, InScope, DosOf, Covered, Prepared, Single, Paired, Statements
<1>7. ASSUME NEW j \in 1 .. n
      PROVE  Fits(r, t, 2 * n + 2 * j) /\ Fits(r, t, 2 * n + 2 * j + 1)
  <2>1. /\ t[2 * n + 2 * j].do = "file" /\ t[2 * n + 2 * j].zone = s[j]
        /\ ZonesOf(t[2 * n + 2 * j].rows) = {}
        /\ t[2 * n + 2 * j + 1].do = "addZone" /\ t[2 * n + 2 * j + 1].zone = s[j]
        /\ ZonesOf(t[2 * n + 2 * j + 1].rows) = {}
    BY <1>2, CallParts, RowZones
  <2>2. 2 * n + 2 * j + 1 - 1 = 2 * n + 2 * j
    BY <1>1
  <2>q. QED  BY <1>0, <2>1, <2>2 DEF n, Fits, InScope, DosOf, Covered, Prepared, Single, Paired, Statements
<1>8. /\ t[2 * n + 1].do = "insertRows" /\ t[2 * n + 1].zone = s[1] /\ t[2 * n + 1].rows = r.new
  BY <1>2, CallParts
<1>9. \A y \in {s[1]} \cup ZonesOf(r.new) : \E j \in 1 .. n : s[j] = y
  BY <1>0, <1>1, <1>3
<1>10. Fits(r, t, 2 * n + 1)
  <2>1. \A y \in {s[1]} \cup ZonesOf(r.new) : Follows(t, 2 * n + 1, y, RndcDos)
    BY <1>5, <1>9
  <2>q. QED  BY <1>0, <1>1, <1>8, <2>1 DEF n, Fits, InScope, DosOf, Covered, Prepared, Single, Paired
<1>11. Proper(r, t)
  BY <1>4, <1>6, <1>7, <1>10 DEF Proper
<1>12. Begins(r, t)
  <2>1. t[2 * 1 - 1].do = "clear"
    BY <1>1, <1>2, CallParts
  <2>q. QED  BY <2>1 DEF Begins
<1>13. ASSUME NEW d \in Db, NEW D \in SUBSET Zones, NEW i \in 1 .. Len(t)
       PROVE  /\ t[i].do = "addZone" =>
                    t[i].zone \in d.zones \cup D \/ Precedes(t, i, t[i].zone, {"insertZone", "deleteZone"})
              /\ t[i].do = "insertRows" => \A y \in ZonesOf(t[i].rows) :
                    Precedes(t, i, y, {"insertZone", "findZone", "deleteZone"})
  <2>1. CASE i = 2 * n + 1
    BY <1>5, <1>8, <1>9, <2>1
  <2>2. ASSUME NEW j \in 1 .. n, i = 2 * j - 1 \/ i = 2 * j
        PROVE  t[i].do \notin {"addZone", "insertRows"}
    BY <1>2, <2>2, CallParts, SMTT(30)
  <2>3. ASSUME NEW j \in 1 .. n, i = 2 * n + 2 * j
        PROVE  t[i].do \notin {"addZone", "insertRows"}
    BY <1>2, <2>3, CallParts
  <2>4. ASSUME NEW j \in 1 .. n, i = 2 * n + 2 * j + 1
        PROVE  t[i].do # "insertRows" /\ Precedes(t, i, t[i].zone, {"insertZone", "deleteZone"})
    <3>1. t[i].do = "addZone" /\ t[i].zone = s[j]
      BY <1>2, <2>4, CallParts
    <3>q. QED  BY <1>5, <2>4, <3>1
  <2>q. QED  BY <1>4, <2>1, <2>2, <2>3, <2>4
<1>14. \A d \in Db, D \in SUBSET Zones : Grounded(d, t, D) /\ Ungrounded(r, d, t)
  BY <1>13 DEF Grounded, Ungrounded
<1>q. QED  BY <1>11, <1>12, <1>14 DEF Started

LEMMA IxfrStarted ==
    ASSUME NEW r \in Requests, r.kind = "rrs", NEW t \in Seq(Calling), LikeIxfr(r.old, r.new, t)
    PROVE  Started(r, t)
<1> DEFINE m == Len(r.old)
           n == Len(r.new)
<1>0. /\ m \in Nat /\ n \in Nat
      /\ \A i \in 1 .. m : r.old[i][1] \in About(r)
      /\ \A i \in 1 .. n : r.new[i][1] \in About(r)
  <2>1. r.old \in Seq(Rows) /\ r.new \in Seq(Rows)
    BY Typed
  <2>2. m \in Nat /\ n \in Nat
    BY <2>1
  <2>q. QED  BY <2>2, AboutParts
<1>1. Len(t) = 3 * m + 3 * n
  BY DEF LikeIxfr
<1>2. ASSUME NEW j \in 1 .. m
      PROVE  \E z \in About(r) :
               /\ t[3 * j - 2] = Call("deleteRow", z, <<r.old[j]>>)
               /\ t[3 * j - 1] = Call("remove", z, <<r.old[j]>>)
               /\ t[3 * j] = Call("dump", z, <<>>)
               /\ ZonesOf(<<r.old[j]>>) = {z}
  BY <1>0, RowZones DEF LikeIxfr
<1>3. ASSUME NEW j \in 1 .. n
      PROVE  \E z \in About(r) :
               /\ t[3 * m + 3 * j - 2] = Call("insertRows", z, <<r.new[j]>>)
               /\ t[3 * m + 3 * j - 1] = Call("add", z, <<r.new[j]>>)
               /\ t[3 * m + 3 * j] = Call("dump", z, <<>>)
               /\ ZonesOf(<<r.new[j]>>) = {z}
  BY <1>0, RowZones DEF LikeIxfr
<1> HIDE DEF m, n
<1>4. ASSUME NEW i \in 1 .. Len(t)
      PROVE  \/ \E j \in 1 .. m : i = 3 * j - 2 \/ i = 3 * j - 1 \/ i = 3 * j
             \/ \E j \in 1 .. n : i = 3 * m + 3 * j - 2 \/ i = 3 * m + 3 * j - 1 \/ i = 3 * m + 3 * j
  <2>1. CASE i <= 3 * m
    <3>1. /\ (i + 2) \div 3 \in 1 .. m
          /\ i = 3 * ((i + 2) \div 3) - 2 \/ i = 3 * ((i + 2) \div 3) - 1 \/ i = 3 * ((i + 2) \div 3)
      BY <1>0, <2>1
    <3>q. QED  BY <3>1
  <2>2. CASE i > 3 * m
    <3> DEFINE k == i - 3 * m
               j == (k + 2) \div 3
    <3>1. k \in 1 .. 3 * n /\ i = 3 * m + k
      BY <1>0, <1>1, <2>2
    <3> HIDE DEF k
    <3>2. j \in 1 .. n /\ (k = 3 * j - 2 \/ k = 3 * j - 1 \/ k = 3 * j)
      BY <1>0, <3>1
    <3> HIDE DEF j
    <3>3. i = 3 * m + 3 * j - 2 \/ i = 3 * m + 3 * j - 1 \/ i = 3 * m + 3 * j
      BY <1>0, <3>1, <3>2
    <3>q. QED  BY <3>2, <3>3
  <2>3. i <= 3 * m \/ i > 3 * m
    BY <1>0, <1>1
  <2>q. QED  BY <2>1, <2>2, <2>3
\* Three calls one after the other.
<1> DEFINE Of(k, c, d) ==
             \E z \in About(r) : \E row :
                /\ ZonesOf(<<row>>) = {z}
                /\ t[k + 1] = Call(c, z, <<row>>) /\ t[k + 2] = Call(d, z, <<row>>)
                /\ t[k + 3] = Call("dump", z, <<>>)
           Triple(k) == Of(k, "deleteRow", "remove") \/ Of(k, "insertRows", "add")
           Fine(i) ==
             /\ Fits(r, t, i) /\ t[i].do \notin {"addZone", "deleteZone"}
             /\ t[i].do = "insertRows" => \A y \in ZonesOf(t[i].rows) : Follows(t, i, y, {"dump"})
<1> HIDE DEF Of
<1>5. ASSUME NEW k \in Nat, k + 3 <= Len(t), Triple(k)
      PROVE  \A i \in {k + 1, k + 2, k + 3} : Fine(i)
  <2>c. PICK c, d : /\ (c = "deleteRow" /\ d = "remove") \/ (c = "insertRows" /\ d = "add")
                    /\ Of(k, c, d)
    <3>1. CASE Of(k, "deleteRow", "remove")
      <4> WITNESS "deleteRow", "remove"
      <4>q. QED  BY <3>1
    <3>2. CASE Of(k, "insertRows", "add")
      BY <3>2
    <3>q. QED  BY <1>5, <3>1, <3>2
  <2>z. PICK z \in About(r) : \E row :
                /\ ZonesOf(<<row>>) = {z}
                /\ t[k + 1] = Call(c, z, <<row>>) /\ t[k + 2] = Call(d, z, <<row>>)
                /\ t[k + 3] = Call("dump", z, <<>>)
    BY <2>c DEF Of
  <2>0. PICK row :
                /\ ZonesOf(<<row>>) = {z}
                /\ t[k + 1] = Call(c, z, <<row>>) /\ t[k + 2] = Call(d, z, <<row>>)
                /\ t[k + 3] = Call("dump", z, <<>>)
    BY <2>z
  <2>1. /\ t[k + 1].do = c /\ t[k + 1].zone = z /\ t[k + 1].rows = <<row>>
        /\ t[k + 2].do = d /\ t[k + 2].zone = z /\ t[k + 2].rows = <<row>>
        /\ t[k + 3].do = "dump" /\ t[k + 3].zone = z /\ ZonesOf(t[k + 3].rows) = {}
    BY <2>0, CallParts, RowZones
  <2>2. /\ (c = "deleteRow" /\ d = "remove") \/ (c = "insertRows" /\ d = "add")
        /\ ZonesOf(<<row>>) = {z}
    BY <2>0, <2>c
  <2>3. k + 1 + 1 = k + 2 /\ k + 2 - 1 = k + 1 /\ k + 2 + 1 = k + 3 /\ k + 3 - 1 = k + 2 /\ k + 1 < Len(t)
        /\ k + 3 \in (k + 1) + 1 .. Len(t) /\ Len(<<row>>) = 1
    BY <1>5
  <2>4. Follows(t, k + 1, z, {"dump"})
    BY <2>1, <2>3 DEF Follows
  <2>5. /\ Fits(r, t, k + 1)
        /\ t[k + 1].do \notin {"addZone", "deleteZone"}
        /\ t[k + 1].do = "insertRows" => \A y \in ZonesOf(t[k + 1].rows) : Follows(t, k + 1, y, {"dump"})
    <3>1. Told(r.kind, t[k + 1], t[k + 1 + 1])
      BY <2>1, <2>2, <2>3 DEF Told
    <3>q. QED  BY <1>5, <2>1, <2>2, <2>3, <2>4, <3>1
               DEF Fits, InScope, DosOf, Covered, RndcKinds, Prepared, Single, Paired, Tells, IsTold
  <2>6. /\ Fits(r, t, k + 2)
        /\ t[k + 2].do \notin {"addZone", "deleteZone", "insertRows"}
    <3>1. t[k + 2].do \in {"remove", "add"} /\ t[k + 1].do \in {"insertRows", "deleteRow"}
      BY <2>1, <2>2
    <3>2. InScope(r, t, k + 2) /\ Covered(r, t, k + 2) /\ Prepared(r, t, k + 2)
      BY <2>1, <2>2, <3>1 DEF InScope, DosOf, Covered, RndcKinds, Prepared
    <3>3. Single(r, t, k + 2) /\ Paired(r, t, k + 2)
      BY <2>1, <2>2, <2>3, <3>1 DEF Single, Paired, Tells
    <3>q. QED  BY <3>1, <3>2, <3>3 DEF Fits
  <2>7. /\ Fits(r, t, k + 3)
        /\ t[k + 3].do \notin {"addZone", "deleteZone", "insertRows"}
    BY <1>5, <2>1, <2>2, <2>3
       DEF Fits, InScope, DosOf, Covered, RndcKinds, Prepared, Single, Paired, Tells, IsTold
  <2>q. QED  BY <2>5, <2>6, <2>7
<1> HIDE DEF Triple, Fine
<1>6. ASSUME NEW i \in 1 .. Len(t)
      PROVE  Fine(i)
  <2>1. ASSUME NEW j \in 1 .. m, i = 3 * j - 2 \/ i = 3 * j - 1 \/ i = 3 * j
        PROVE  Fine(i)
    <3> DEFINE k == 3 * j - 3
    <3>1. k \in Nat /\ k + 3 <= Len(t) /\ k + 1 = 3 * j - 2 /\ k + 2 = 3 * j - 1 /\ k + 3 = 3 * j
      BY <1>0, <1>1
    <3>2. PICK z \in About(r) :
               /\ t[3 * j - 2] = Call("deleteRow", z, <<r.old[j]>>)
               /\ t[3 * j - 1] = Call("remove", z, <<r.old[j]>>)
               /\ t[3 * j] = Call("dump", z, <<>>)
               /\ ZonesOf(<<r.old[j]>>) = {z}
      BY <1>2
    <3> HIDE DEF k
    <3>3. i \in {k + 1, k + 2, k + 3}
      BY <2>1, <3>1
    <3>4. /\ t[k + 1] = Call("deleteRow", z, <<r.old[j]>>) /\ t[k + 2] = Call("remove", z, <<r.old[j]>>)
          /\ t[k + 3] = Call("dump", z, <<>>)
      BY <3>1, <3>2
    <3>5. Of(k, "deleteRow", "remove")
      BY <3>2, <3>4 DEF Of
    <3>6. Triple(k)
      BY <3>5 DEF Triple
    <3>q. QED  BY <1>5, <3>1, <3>3, <3>6
  <2>2. ASSUME NEW j \in 1 .. n, i = 3 * m + 3 * j - 2 \/ i = 3 * m + 3 * j - 1 \/ i = 3 * m + 3 * j
        PROVE  Fine(i)
    <3> DEFINE k == 3 * m + 3 * j - 3
    <3>1. /\ k \in Nat /\ k + 3 <= Len(t) /\ k + 1 = 3 * m + 3 * j - 2
          /\ k + 2 = 3 * m + 3 * j - 1 /\ k + 3 = 3 * m + 3 * j
      BY <1>0, <1>1
    <3>2. PICK z \in About(r) :
               /\ t[3 * m + 3 * j - 2] = Call("insertRows", z, <<r.new[j]>>)
               /\ t[3 * m + 3 * j - 1] = Call("add", z, <<r.new[j]>>)
               /\ t[3 * m + 3 * j] = Call("dump", z, <<>>)
               /\ ZonesOf(<<r.new[j]>>) = {z}
      BY <1>3
    <3> HIDE DEF k
    <3>3. i \in {k + 1, k + 2, k + 3}
      BY <2>2, <3>1
    <3>4. /\ t[k + 1] = Call("insertRows", z, <<r.new[j]>>) /\ t[k + 2] = Call("add", z, <<r.new[j]>>)
          /\ t[k + 3] = Call("dump", z, <<>>)
      BY <3>1, <3>2
    <3>5. Of(k, "insertRows", "add")
      BY <3>2, <3>4 DEF Of
    <3>6. Triple(k)
      BY <3>5 DEF Triple
    <3>q. QED  BY <1>5, <3>1, <3>3, <3>6
  <2>q. QED  BY <1>4, <2>1, <2>2
<1>7. Begins(r, t)
  <2>1. ASSUME t # <<>> PROVE t[1].do \in {"deleteRow", "insertRows"}
    <3>1. Len(t) # 0
      BY <2>1
    <3>2. CASE m > 0
      <4>1. 1 \in 1 .. m /\ 3 * 1 - 2 = 1
        BY <1>0, <3>2
      <4>2. \E z : t[3 * 1 - 2] = Call("deleteRow", z, <<r.old[1]>>)
        BY <1>2, <4>1
      <4>q. QED  BY <4>1, <4>2, CallParts
    <3>3. CASE m = 0
      <4>1. 1 \in 1 .. n /\ 3 * m + 3 * 1 - 2 = 1
        BY <1>0, <1>1, <3>1, <3>3
      <4>2. \E z : t[3 * m + 3 * 1 - 2] = Call("insertRows", z, <<r.new[1]>>)
        BY <1>3, <4>1
      <4>q. QED  BY <4>1, <4>2, CallParts
    <3>q. QED  BY <1>0, <3>2, <3>3
  <2>q. QED  BY <2>1 DEF Begins
<1>8. \A d \in Db, D \in SUBSET Zones : Grounded(d, t, D) /\ Ungrounded(r, d, t)
  BY <1>6 DEF Grounded, Ungrounded, Fine
<1>q. QED  BY <1>6, <1>7, <1>8 DEF Started, Proper, Fine

\* The calls of every request are in order when it begins.
LEMMA CallsStarted ==
    ASSUME NEW r \in Requests
    PROVE  Calls(r) \in Seq(Calling) /\ Started(r, Calls(r))
  BY CallsLike, EmptyStarted, ShortStarted, AxfrStarted, IxfrStarted

-----------------------------------------------------------------------------
(* The calls that are left.                                                *)

\* What is left after the first call.
LEMMA TailFacts ==
    ASSUME NEW t \in Seq(Calling), t # <<>>
    PROVE  /\ Tail(t) \in Seq(Calling)
           /\ Len(t) \in Nat \ {0} /\ Len(Tail(t)) \in Nat /\ Len(t) = Len(Tail(t)) + 1
           /\ Head(t) = t[1] /\ t[1] \in Calling
           /\ \A i \in 1 .. Len(Tail(t)) : Tail(t)[i] = t[i + 1] /\ i + 1 \in 1 .. Len(t)
           /\ Tail(t) # <<>> => 1 \in 1 .. Len(Tail(t)) /\ Tail(t)[1] = t[2] /\ Tail(t)[1] \in Calling
           /\ Tail(t) = <<>> => Len(t) = 1
<1>1. /\ Tail(t) \in Seq(Calling) /\ Len(Tail(t)) = Len(t) - 1
      /\ Head(t) = t[1] /\ Head(t) \in Calling
      /\ \A i \in 1 .. Len(Tail(t)) : Tail(t)[i] = t[i + 1]
      /\ Len(t) \in Nat \ {0}
  OBVIOUS
<1> DEFINE s == Tail(t)
<1>2. s \in Seq(Calling)
  BY <1>1
<1> HIDE DEF s
<1>3. Len(s) \in Nat /\ (s # <<>> => Len(s) # 0 /\ s[1] \in Calling) /\ (s = <<>> => Len(s) = 0)
  BY <1>2
<1>4. Len(s) = Len(t) - 1 /\ \A i \in 1 .. Len(s) : s[i] = t[i + 1]
  BY <1>1 DEF s
<1>5. Len(t) = Len(s) + 1 /\ \A i \in 1 .. Len(s) : i + 1 \in 1 .. Len(t)
  BY <1>1, <1>3, <1>4
<1>6. s # <<>> => 1 \in 1 .. Len(s) /\ s[1] = t[1 + 1] /\ 1 + 1 = 2
  BY <1>3, <1>4
<1>q. QED  BY <1>1, <1>2, <1>3, <1>4, <1>5, <1>6 DEF s

\* A call still follows once the first one is made, and what preceded was
\* that one or still precedes.
LEMMA FollowsTail ==
    ASSUME NEW t \in Seq(Calling), t # <<>>, NEW i \in Nat, NEW z, NEW dos
    PROVE  Follows(t, i + 1, z, dos) <=> Follows(Tail(t), i, z, dos)
<1> DEFINE s == Tail(t)
<1>1. /\ Len(t) \in Nat /\ Len(s) \in Nat /\ Len(t) = Len(s) + 1
      /\ \A k \in 1 .. Len(s) : s[k] = t[k + 1]
  BY TailFacts
<1> HIDE DEF s
<1>2. ASSUME Follows(t, i + 1, z, dos) PROVE Follows(s, i, z, dos)
  <2>1. PICK j \in i + 1 + 1 .. Len(t) : t[j].do \in dos /\ t[j].zone = z
    BY <1>2 DEF Follows
  <2>2. j - 1 \in i + 1 .. Len(s) /\ j - 1 \in 1 .. Len(s) /\ (j - 1) + 1 = j
    BY <1>1, <2>1
  <2>3. s[j - 1] = t[j]
    BY <1>1, <2>2
  <2>q. QED  BY <2>1, <2>2, <2>3 DEF Follows
<1>3. ASSUME Follows(s, i, z, dos) PROVE Follows(t, i + 1, z, dos)
  <2>1. PICK j \in i + 1 .. Len(s) : s[j].do \in dos /\ s[j].zone = z
    BY <1>3 DEF Follows
  <2>2. j + 1 \in i + 1 + 1 .. Len(t) /\ j \in 1 .. Len(s)
    BY <1>1, <2>1
  <2>3. t[j + 1] = s[j]
    BY <1>1, <2>2
  <2>q. QED  BY <2>1, <2>2, <2>3 DEF Follows
<1>q. QED  BY <1>2, <1>3 DEF s

LEMMA FollowsNow ==
    ASSUME NEW t \in Seq(Calling), t # <<>>, NEW z, NEW dos
    PROVE  Follows(t, 0, z, dos) <=> (t[1].do \in dos /\ t[1].zone = z) \/ Follows(Tail(t), 0, z, dos)
<1>1. Follows(t, 0 + 1, z, dos) <=> Follows(Tail(t), 0, z, dos)
  BY FollowsTail
<1>2. Len(t) \in Nat \ {0}
  BY TailFacts
<1>3. Follows(t, 0, z, dos) <=> (t[1].do \in dos /\ t[1].zone = z) \/ Follows(t, 0 + 1, z, dos)
  <2>1. \A j \in 0 + 1 .. Len(t) : j = 1 \/ j \in 0 + 1 + 1 .. Len(t)
    BY <1>2
  <2>2. 1 \in 0 + 1 .. Len(t) /\ \A j \in 0 + 1 + 1 .. Len(t) : j \in 0 + 1 .. Len(t)
    BY <1>2
  <2>q. QED  BY <2>1, <2>2 DEF Follows
<1>q. QED  BY <1>1, <1>3

LEMMA PrecedesTail ==
    ASSUME NEW t \in Seq(Calling), t # <<>>, NEW i \in 1 .. Len(Tail(t)), NEW z, NEW dos,
           Precedes(t, i + 1, z, dos)
    PROVE  (t[1].do \in dos /\ t[1].zone = z) \/ Precedes(Tail(t), i, z, dos)
<1> DEFINE s == Tail(t)
<1>1. /\ Len(s) \in Nat
      /\ \A k \in 1 .. Len(s) : s[k] = t[k + 1]
  BY TailFacts
<1> HIDE DEF s
<1>2. PICK j \in 1 .. (i + 1) - 1 : t[j].do \in dos /\ t[j].zone = z
  BY DEF Precedes
<1>3. CASE j # 1
  <2>1. j - 1 \in 1 .. i - 1 /\ j - 1 \in 1 .. Len(s) /\ (j - 1) + 1 = j
    BY <1>1, <1>2, <1>3 DEF s
  <2>2. s[j - 1] = t[j]
    BY <1>1, <2>1
  <2>q. QED  BY <1>2, <2>1, <2>2 DEF Precedes, s
<1>q. QED  BY <1>2, <1>3

LEMMA NonePrecede ==
    ASSUME NEW t, NEW z, NEW dos
    PROVE  ~Precedes(t, 1, z, dos)
  BY DEF Precedes

\* The calls that are left are in order.
LEMMA TailProper ==
    ASSUME NEW r, NEW t \in Seq(Calling), t # <<>>, Proper(r, t)
    PROVE  Proper(r, Tail(t))
<1> DEFINE s == Tail(t)
<1>1. /\ Len(t) \in Nat /\ Len(s) \in Nat /\ Len(t) = Len(s) + 1
      /\ \A i \in 1 .. Len(s) : s[i] = t[i + 1] /\ i + 1 \in 1 .. Len(t)
  BY TailFacts
<1>2. \A i \in Nat : \A z, dos : Follows(t, i + 1, z, dos) <=> Follows(s, i, z, dos)
  BY FollowsTail
<1> HIDE DEF s
<1>3. ASSUME NEW i \in 1 .. Len(s)
      PROVE  Fits(r, s, i)
  <2>1. /\ i \in Nat /\ i + 1 \in 1 .. Len(t) /\ s[i] = t[i + 1] /\ i + 1 >= 2
        /\ i >= 2 => s[i - 1] = t[(i + 1) - 1]
        /\ i + 1 < Len(t) => i < Len(s) /\ s[i + 1] = t[(i + 1) + 1]
    BY <1>1
  <2>2. Fits(r, t, i + 1)
    BY <2>1 DEF Proper
  <2>3. InScope(r, s, i)
    BY <2>1, <2>2 DEF Fits, InScope
  <2>4. Covered(r, s, i)
    BY <1>2, <2>1, <2>2 DEF Fits, Covered
  <2>5. Prepared(r, s, i)
    BY <2>1, <2>2 DEF Fits, Prepared
  <2>6. Single(r, s, i)
    BY <1>2, <2>1, <2>2 DEF Fits, Single
  <2>7. Paired(r, s, i)
    BY <2>1, <2>2 DEF Fits, Paired
  <2>q. QED  BY <2>3, <2>4, <2>5, <2>6, <2>7 DEF Fits
<1>q. QED  BY <1>3 DEF Proper, s

\* The first two calls that are left.
LEMMA NextCall ==
    ASSUME NEW r, NEW t \in Seq(Calling), t # <<>>, Proper(r, t)
    PROVE  /\ t[1] \in Calling /\ Fits(r, t, 1)
           /\ Tail(t) # <<>> /\ Tail(t)[1].do \in {"addZone", "modifyZone"} =>
                 t[1].do = "file" /\ t[1].zone = Tail(t)[1].zone
           /\ r.kind \in {"rrs", "updateRR"} /\ Tail(t) # <<>> /\ Tail(t)[1].do \in IsTold(r.kind) =>
                 t[1].do \in Tells(r.kind)
           /\ r.kind \in {"rrs", "updateRR"} /\ t[1].do \in Tells(r.kind) =>
                 Tail(t) # <<>> /\ Told(r.kind, t[1], Tail(t)[1])
<1> DEFINE s == Tail(t)
<1>1. /\ Len(t) \in Nat \ {0} /\ Len(s) \in Nat /\ Len(t) = Len(s) + 1 /\ t[1] \in Calling
      /\ s # <<>> => 1 \in 1 .. Len(s) /\ s[1] = t[2]
      /\ s = <<>> => Len(t) = 1
  BY TailFacts
<1> HIDE DEF s
<1>2. Fits(r, t, 1)
  BY <1>1 DEF Proper
<1>3. s # <<>> => Fits(r, t, 2)
  BY <1>1 DEF Proper
<1>4. s # <<>> /\ s[1].do \in {"addZone", "modifyZone"} => t[1].do = "file" /\ t[1].zone = s[1].zone
  BY <1>1, <1>3 DEF Fits, Prepared
<1>5. r.kind \in {"rrs", "updateRR"} /\ s # <<>> /\ s[1].do \in IsTold(r.kind) => t[1].do \in Tells(r.kind)
  BY <1>1, <1>3 DEF Fits, Paired
<1>6. r.kind \in {"rrs", "updateRR"} /\ t[1].do \in Tells(r.kind) => s # <<>> /\ Told(r.kind, t[1], s[1])
  BY <1>1, <1>2 DEF Fits, Paired
<1>q. QED  BY <1>1, <1>2, <1>4, <1>5, <1>6 DEF s

-----------------------------------------------------------------------------
(* The tables.                                                             *)

\* The records of a zone are the rows that name it.
LEMMA RecordMember ==
    ASSUME NEW d \in Db, NEW z
    PROVE  /\ RecordsOf(d, z) \subseteq RRs
           /\ \A x : x \in RecordsOf(d, z) <=> <<z, x>> \in d.rows
<1>1. d.rows \subseteq Zones \X RRs
  BY DEF Db, Rows
<1>2. \A row \in d.rows : row = <<row[1], row[2]>> /\ row[2] \in RRs
  BY <1>1
<1>3. ASSUME NEW x, x \in RecordsOf(d, z) PROVE <<z, x>> \in d.rows /\ x \in RRs
  BY <1>2, <1>3 DEF RecordsOf
<1>4. ASSUME NEW x, <<z, x>> \in d.rows PROVE x \in RecordsOf(d, z)
  <2>1. <<z, x>>[1] = z /\ <<z, x>>[2] = x
    OBVIOUS
  <2>q. QED  BY <1>4, <2>1 DEF RecordsOf
<1>q. QED  BY <1>3, <1>4

LEMMA RowPair ==
    ASSUME NEW row \in Rows
    PROVE  row = <<row[1], row[2]>> /\ row[1] \in Zones /\ row[2] \in RRs
  BY DEF Rows

\* What statement c makes of the tables d.
After(c, d, e) ==
    /\ e.zones = CASE c.do = "insertZone" -> d.zones \cup {c.zone}
                   [] c.do = "deleteRowOfZone" -> d.zones \ {c.zone}
                   [] OTHER -> d.zones
    /\ e.rows = CASE c.do = "clear" -> {row \in d.rows : row[1] # c.zone}
                  [] c.do = "insertRows" -> d.rows \cup Among(c.rows)
                  [] c.do = "deleteRow" -> d.rows \ Among(c.rows)
                  [] c.do = "updateRow" /\ c.rows[1] \in d.rows ->
                        (d.rows \ {c.rows[1]}) \cup {c.rows[2]}
                  [] OTHER -> d.rows

\* Every statement executes as After says.
LEMMA AfterStatement ==
    ASSUME NEW c \in Calling, NEW d \in Db, NEW e, e = Executed(c, d),
           c.do = "updateRow" => Len(c.rows) = 2
    PROVE  e \in Db /\ After(c, d, e)
<1>1. d = [zones |-> d.zones, rows |-> d.rows] /\ d.zones \subseteq Zones /\ d.rows \subseteq Rows
  BY DEF Db, After
<1>2. c.zone \in Zones /\ c.rows \in Seq(Rows) /\ Among(c.rows) \subseteq Rows
  BY DEF Calling, Among
<1>3. c.do = "updateRow" => c.rows[2] \in Rows
  BY <1>2
<1>4. CASE c.do = "insertZone"
  <2>1. e = [d EXCEPT !.zones = @ \cup {c.zone}]
    BY <1>4 DEF Executed
  <2>q. QED  BY <1>1, <1>2, <1>4, <2>1 DEF Db, After
<1>5. CASE c.do = "deleteRowOfZone"
  <2>1. e = [d EXCEPT !.zones = @ \ {c.zone}]
    BY <1>5 DEF Executed
  <2>q. QED  BY <1>1, <1>2, <1>5, <2>1 DEF Db, After
<1>6. CASE c.do = "clear"
  <2>1. e = [d EXCEPT !.rows = {row \in @ : row[1] # c.zone}]
    BY <1>6 DEF Executed
  <2>q. QED  BY <1>1, <1>2, <1>6, <2>1 DEF Db, After
<1>7. CASE c.do = "insertRows"
  <2>1. e = [d EXCEPT !.rows = @ \cup Among(c.rows)]
    BY <1>7 DEF Executed
  <2>q. QED  BY <1>1, <1>2, <1>7, <2>1 DEF Db, After
<1>8. CASE c.do = "deleteRow"
  <2>1. e = [d EXCEPT !.rows = @ \ Among(c.rows)]
    BY <1>8 DEF Executed
  <2>q. QED  BY <1>1, <1>2, <1>8, <2>1 DEF Db, After
<1>9. CASE c.do = "updateRow"
  <2>1. e = IF c.rows[1] \in d.rows
            THEN [d EXCEPT !.rows = (@ \ {c.rows[1]}) \cup {c.rows[2]}] ELSE d
    BY <1>9 DEF Executed
  <2>q. QED  BY <1>1, <1>2, <1>3, <1>9, <2>1 DEF Db, After
<1>10. CASE c.do \notin {"insertZone", "deleteRowOfZone", "clear", "insertRows", "deleteRow", "updateRow"}
  BY <1>10 DEF Executed, After
<1>q. QED  BY <1>4, <1>5, <1>6, <1>7, <1>8, <1>9, <1>10

\* A statement leaves the zones it is not about as they are.
LEMMA Elsewhere ==
    ASSUME NEW c \in Calling, NEW d \in Db, NEW e, e = Executed(c, d),
           c.do = "updateRow" => Len(c.rows) = 2,
           NEW z, z \notin {c.zone} \cup ZonesOf(c.rows)
    PROVE  (z \in e.zones <=> z \in d.zones) /\ RecordsOf(e, z) = RecordsOf(d, z)
<1>a. e \in Db /\ After(c, d, e)
  BY AfterStatement
<1>1. e \in Db /\ (z \in e.zones <=> z \in d.zones)
  BY <1>a DEF After
<1>2. \A row \in Among(c.rows) : row[1] # z
  BY DEF ZonesOf
<1>3. c.do = "updateRow" => c.rows[1] \in Among(c.rows) /\ c.rows[2] \in Among(c.rows)
  BY DEF Among, Calling
<1>4. \A row : row[1] = z => (row \in e.rows <=> row \in d.rows)
  BY <1>2, <1>3, <1>a DEF After
<1>5. \A x : <<z, x>>[1] = z
  OBVIOUS
<1>6. \A x : x \in RecordsOf(e, z) <=> x \in RecordsOf(d, z)
  BY <1>1, <1>4, <1>5, RecordMember
<1>q. QED  BY <1>6

\* A set of records is not the mark of an absent zone.
LEMMA SetsOfRecords ==
    ASSUME NEW d \in Db, NEW z
    PROVE  RecordsOf(d, z) # Absent /\ Absent \notin SUBSET RRs
<1>1. Absent \notin SUBSET RRs
  BY ZonesAssumption DEF Absent
<1>2. RecordsOf(d, z) \in SUBSET RRs
  BY RecordMember
<1>q. QED  BY <1>1, <1>2

\* The kinds of requests whose calls may be c.
LEMMA KindsOf ==
    ASSUME NEW r \in Requests, NEW t, NEW i, InScope(r, t, i)
    PROVE  /\ r.kind \in RndcKinds <=> r.kind \notin {"rrs", "updateRR"}
           /\ t[i].do \in RndcDos \cup {"file"} => r.kind \in RndcKinds
           /\ t[i].do \in {"add", "remove", "dump"} => r.kind \in {"rrs", "updateRR"}
           /\ t[i].do = "updateRow" => r.kind = "updateRR"
           /\ t[i].do = "deleteRow" => r.kind = "rrs"
           /\ t[i].do = "modifyZone" => r.kind \in {"updateZone", "batch"}
           /\ t[i].do = "addZone" => r.kind \in {"createZone", "axfr"}
           /\ t[i].do = "deleteZone" => r.kind \in {"deleteZone", "axfr"}
           /\ t[i].do = "insertZone" => r.kind = "createZone"
           /\ t[i].do = "deleteRowOfZone" => r.kind = "deleteZone"
           /\ r.kind = "deleteZone" => t[i].do \notin {"addZone", "insertRows"}
           /\ r.kind = "rrs" => t[i].do \in {"deleteRow", "remove", "insertRows", "add", "dump"}
           /\ r.kind = "updateRR" => t[i].do \in {"remove", "updateRow", "add", "dump"}
           /\ r.kind \in RndcKinds => t[i].do \notin {"add", "remove", "updateRow", "dump", "deleteRow"}
<1>1. r.kind \in {"createZone", "updateZone", "deleteZone", "axfr", "rrs", "updateRR", "batch"}
  BY Typed
<1>2. t[i].do \in DosOf(r.kind)
  BY DEF InScope
<1>3. CASE r.kind = "createZone"
  BY <1>2, <1>3 DEF DosOf, RndcKinds, RndcDos
<1>4. CASE r.kind = "updateZone"
  BY <1>2, <1>4 DEF DosOf, RndcKinds, RndcDos
<1>5. CASE r.kind = "deleteZone"
  BY <1>2, <1>5 DEF DosOf, RndcKinds, RndcDos
<1>6. CASE r.kind = "axfr"
  BY <1>2, <1>6 DEF DosOf, RndcKinds, RndcDos
<1>7. CASE r.kind = "rrs"
  BY <1>2, <1>7 DEF DosOf, RndcKinds, RndcDos
<1>8. CASE r.kind = "updateRR"
  BY <1>2, <1>8 DEF DosOf, RndcKinds, RndcDos
<1>9. CASE r.kind = "batch"
  BY <1>2, <1>9 DEF DosOf, RndcKinds, RndcDos
<1>q. QED  BY <1>1, <1>3, <1>4, <1>5, <1>6, <1>7, <1>8, <1>9

\* No update is between the tables and named.
LEMMA Quiet ==
    ASSUME NEW r \in Requests, NEW t, t # <<>> => InScope(r, t, 1) /\ t[1].do \notin IsTold(r.kind)
    PROVE  \A z, s, R : Due(r, t, z, s) = s /\ Taken(t, z, R) = R
<1>1. CASE t = <<>>
  BY <1>1 DEF Due, Taken
<1>2. CASE t # <<>> /\ r.kind = "rrs"
  <2>1. t[1].do \notin {"add", "remove", "updateRow"}
    BY <1>2, KindsOf DEF IsTold
  <2>q. QED  BY <2>1 DEF Due, Taken
<1>3. CASE t # <<>> /\ r.kind # "rrs"
  <2>1. t[1].do \notin {"add", "updateRow"}
    BY <1>3 DEF IsTold
  <2>q. QED  BY <1>3, <2>1 DEF Due, Taken
<1>q. QED  BY <1>1, <1>2, <1>3

\* Calls that name another zone do not count.
LEMMA OtherZone ==
    ASSUME NEW r, NEW t, NEW z, t # <<>> => t[1].zone # z
    PROVE  \A s, R : Due(r, t, z, s) = s /\ Taken(t, z, R) = R
  BY DEF Due, Taken

\* What the first call has put right need not be put right after it.
LEMMA GroundedTail ==
    ASSUME NEW r \in Requests, NEW t \in Seq(Calling), t # <<>>, Proper(r, t),
           NEW d, NEW e, NEW D, Grounded(d, t, D),
           r.kind # "deleteZone" => d.zones \subseteq e.zones,
           r.kind # "deleteZone" /\ t[1].do \in {"insertZone", "findZone", "deleteZone"} =>
               t[1].zone \in e.zones \cup D
    PROVE  Grounded(e, Tail(t), D)
<1> DEFINE s == Tail(t)
<1>1. /\ \A i \in 1 .. Len(s) : s[i] = t[i + 1] /\ i + 1 \in 1 .. Len(t)
      /\ Len(s) \in Nat /\ s \in Seq(Calling)
  BY TailFacts
<1>2. ASSUME NEW i \in 1 .. Len(s), NEW y, NEW dos, dos \subseteq {"insertZone", "findZone", "deleteZone"},
             r.kind # "deleteZone",
             y \in d.zones \cup D \/ Precedes(t, i + 1, y, dos)
      PROVE  y \in e.zones \cup D \/ Precedes(s, i, y, dos)
  BY <1>2, PrecedesTail
<1>3. \A i \in Nat : \A y, dos : Follows(t, i + 1, y, dos) <=> Follows(s, i, y, dos)
  BY FollowsTail
<1> HIDE DEF s
<1>4. ASSUME NEW i \in 1 .. Len(s)
      PROVE  /\ s[i].do = "addZone" => s[i].zone \in e.zones \cup D
                                       \/ Precedes(s, i, s[i].zone, {"insertZone", "deleteZone"})
             /\ s[i].do = "insertRows" => \A y \in ZonesOf(s[i].rows) :
                   y \in e.zones \cup D \/ Precedes(s, i, y, {"insertZone", "findZone", "deleteZone"})
                       \/ Follows(s, i, y, {"dump"})
  <2>1. s[i] = t[i + 1] /\ i + 1 \in 1 .. Len(t) /\ i \in Nat
    BY <1>1
  <2>2. InScope(r, t, i + 1)
    BY <2>1 DEF Proper, Fits
  <2>3. r.kind = "deleteZone" => s[i].do \notin {"addZone", "insertRows"}
    BY <2>1, <2>2, KindsOf
  <2>4. CASE r.kind # "deleteZone" /\ s[i].do = "addZone"
    <3>1. t[i + 1].zone \in d.zones \cup D \/ Precedes(t, i + 1, t[i + 1].zone, {"insertZone", "deleteZone"})
      BY <2>1, <2>4 DEF Grounded
    <3>2. s[i].zone \in e.zones \cup D \/ Precedes(s, i, s[i].zone, {"insertZone", "deleteZone"})
      BY <1>2, <2>1, <2>4, <3>1
    <3>q. QED  BY <2>4, <3>2
  <2>5. CASE r.kind # "deleteZone" /\ s[i].do = "insertRows"
    <3>1. ASSUME NEW y \in ZonesOf(s[i].rows)
          PROVE  y \in e.zones \cup D \/ Precedes(s, i, y, {"insertZone", "findZone", "deleteZone"})
                       \/ Follows(s, i, y, {"dump"})
      <4>1. y \in d.zones \cup D \/ Precedes(t, i + 1, y, {"insertZone", "findZone", "deleteZone"})
                       \/ Follows(t, i + 1, y, {"dump"})
        BY <2>1, <2>5 DEF Grounded
      <4>2. CASE Follows(t, i + 1, y, {"dump"})
        BY <1>3, <2>1, <4>2
      <4>3. CASE y \in d.zones \cup D \/ Precedes(t, i + 1, y, {"insertZone", "findZone", "deleteZone"})
        BY <1>2, <2>5, <4>3
      <4>q. QED  BY <4>1, <4>2, <4>3
    <3>q. QED  BY <2>5, <3>1
  <2>q. QED  BY <2>3, <2>4, <2>5
<1>q. QED  BY <1>4 DEF Grounded, s

LEMMA UngroundedTail ==
    ASSUME NEW r, NEW t \in Seq(Calling), t # <<>>,
           NEW d, NEW e, Ungrounded(r, d, t),
           r.kind = "deleteZone" => e.zones \subseteq d.zones,
           t[1].do = "deleteRowOfZone" => t[1].zone \notin e.zones
    PROVE  Ungrounded(r, e, Tail(t))
<1> DEFINE s == Tail(t)
<1>1. \A i \in 1 .. Len(s) : s[i] = t[i + 1] /\ i + 1 \in 1 .. Len(t)
  BY TailFacts
<1>2. \A i \in 1 .. Len(s) : \A y : Precedes(t, i + 1, y, {"deleteRowOfZone"}) =>
          (t[1].do = "deleteRowOfZone" /\ t[1].zone = y) \/ Precedes(s, i, y, {"deleteRowOfZone"})
  BY PrecedesTail
<1> HIDE DEF s
<1>3. ASSUME NEW i \in 1 .. Len(s), r.kind = "deleteZone", s[i].do = "deleteZone"
      PROVE  s[i].zone \notin e.zones \/ Precedes(s, i, s[i].zone, {"deleteRowOfZone"})
  <2>1. t[i + 1].zone \notin d.zones \/ Precedes(t, i + 1, t[i + 1].zone, {"deleteRowOfZone"})
    BY <1>1, <1>3 DEF Ungrounded
  <2>q. QED  BY <1>1, <1>2, <1>3, <2>1
<1>q. QED  BY <1>3 DEF Ungrounded, s

-----------------------------------------------------------------------------
(* What is known of a request under way.                                   *)

\* A handler under way has its type.
LEMMA Under ==
    ASSUME TypeOK, Busy
    PROVE  /\ op \in OpType /\ op.pc \in {"work", "blocked"} /\ op.req \in Requests
           /\ op.todo \in Seq(Calling) /\ op.tx \in Db
           /\ op.did \subseteq Zones /\ op.unsure \subseteq Zones
           /\ op.run \in {"alone", "together"}
<1>1. op \in OpType
  BY DEF TypeOK, Busy, Idle
<1>q. QED  BY <1>1 DEF OpType, Calling

\* A handler that makes a call has its effect on the tables and on what it
\* remembers, and goes on with the calls that are left.
LEMMA Onward ==
    ASSUME IInv, Busy, op.todo # <<>>, op.pc = "work",
           NEW e \in Db, NEW D, NEW U,
           e = op.tx \/ e = Executed(op.todo[1], op.tx),
           op.did \subseteq D, op.unsure \subseteq U,
           D \subseteq op.did \cup {op.todo[1].zone}, U \subseteq op.unsure \cup {op.todo[1].zone},
           op' = [op EXCEPT !.todo = Tail(@), !.tx = e, !.did = D, !.unsure = U],
           UNCHANGED <<db, up, runs, bounds, drift>>,
           file' \in [Zones -> Content], served' \in [Zones -> Content], nzf' \subseteq Zones,
           \A z \in Zones : served'[z] = served[z] \/ z \in D,
           op.run = "alone" =>
             (SameZones /\ Placed /\ Written /\ Agreeing /\ Housed
               /\ Grounded(op.tx, op.todo, drift) /\ Ungrounded(op.req, op.tx, op.todo))'
    PROVE  IInv'
<1>1. /\ op \in OpType /\ op.req \in Requests /\ op.todo \in Seq(Calling) /\ op.tx \in Db
      /\ op.did \subseteq Zones /\ op.unsure \subseteq Zones /\ op.run \in {"alone", "together"}
  BY Under DEF IInv
<1>2. /\ op'.pc = "work" /\ op'.req = op.req /\ op'.todo = Tail(op.todo) /\ op'.tx = e
      /\ op'.did = D /\ op'.unsure = U /\ op'.run = op.run
  BY <1>1 DEF OpType
<1>3. op.todo[1] \in Calling /\ Tail(op.todo) \in Seq(Calling) /\ op.todo[1].zone \in Zones
  BY <1>1, TailFacts DEF Calling
<1>4. Proper(op.req, op.todo) /\ Untouched
  BY DEF IInv, HandlerOK
<1>5. Proper(op.req, Tail(op.todo)) /\ Fits(op.req, op.todo, 1)
  BY <1>1, <1>4, TailProper, NextCall
<1>6. op' \in OpType
  <2>1. D \subseteq Zones /\ U \subseteq Zones
    BY <1>1, <1>3
  <2>2. Tail(op.todo) \in Seq([do : Statements \cup {"file", "addZone", "modifyZone", "deleteZone",
                                                     "add", "remove", "dump"},
                               zone : Zones, rows : Seq(Rows)])
    BY <1>3 DEF Calling
  <2>q. QED  BY <1>1, <2>1, <2>2 DEF OpType
<1>7. Busy'
  BY <1>2 DEF Busy
<1>8. TypeOK'
  BY <1>6 DEF IInv, TypeOK, bounds
<1>9. ServedAsCommitted'
  <2>1. \A z : Expected(db, z)' = Expected(db, z)
    BY DEF Expected, RecordsOf
  <2>q. QED  BY <1>2, <1>7, <2>1 DEF IInv, ServedAsCommitted
<1>10. Untouched'
  <2>1. {op.todo[1].zone} \cup ZonesOf(op.todo[1].rows) \subseteq About(op.req)
    BY <1>5 DEF Fits, InScope
  <2>2. op.todo[1].do = "updateRow" => Len(op.todo[1].rows) = 2
    <3>1. op.todo[1].do = "updateRow" => op.req.kind = "updateRR"
      BY <1>1, <1>5, KindsOf DEF Fits
    <3>q. QED  BY <1>5, <3>1 DEF Fits, Single
  <2>3. D \cup U \subseteq About(op.req)
    BY <1>4, <2>1 DEF Untouched
  <2>4. ASSUME NEW z \in Zones \ About(op.req)
        PROVE  (z \in e.zones <=> z \in op.tx.zones) /\ RecordsOf(e, z) = RecordsOf(op.tx, z)
    <3>1. z \notin {op.todo[1].zone} \cup ZonesOf(op.todo[1].rows)
      BY <2>1
    <3>2. CASE e = op.tx
      BY <3>2
    <3>3. CASE e = Executed(op.todo[1], op.tx)
      BY <1>1, <1>3, <2>2, <3>1, <3>3, Elsewhere
    <3>q. QED  BY <3>2, <3>3
  <2>5. \A z : RecordsOf(op.tx, z)' = RecordsOf(e, z) /\ RecordsOf(db, z)' = RecordsOf(db, z)
    BY <1>2 DEF RecordsOf
  <2>6. About(op.req)' = About(op.req)
    BY <1>2 DEF About
  <2>q. QED  BY <1>2, <1>4, <2>3, <2>4, <2>5, <2>6 DEF Untouched
<1>11. (op.run = "together" => drift = Zones) /\ (op.run = "alone" => \A k \in Runners : runs[k].pc = "sleep")
  BY DEF IInv, HandlerOK
<1>12. Proper(op.req, op.todo)'
  <2>1. Proper(op.req, op.todo)' <=> Proper(op'.req, op'.todo)
    BY DEF Proper, Fits, InScope, Covered, Prepared, Single, Paired, Follows, About
  <2>q. QED  BY <1>2, <1>5, <2>1
<1>13. HandlerOK'
  BY <1>2, <1>10, <1>11, <1>12 DEF HandlerOK
<1>14. RunsOK'
  BY <1>7 DEF IInv, RunsOK, AloneOK
<1>q. QED  BY <1>8, <1>9, <1>13, <1>14 DEF IInv

\* A zone that named serves is in the tables, for requests that neither create
\* nor delete one.
LEMMA Anchor ==
    ASSUME IInv, Busy, op.run = "alone", op.pc = "work", up,
           NEW z \in Zones \ drift, served[z] # Absent,
           op.req.kind \notin {"createZone", "deleteZone"}
    PROVE  z \in op.tx.zones
<1>1. SameZones /\ Placed
  BY DEF IInv, HandlerOK
<1>2. CASE z \in op.did
  BY <1>1, <1>2 DEF Placed
<1>3. CASE z \notin op.did
  <2>1. served[z] = Expected(db, z)
    BY <1>3 DEF IInv, ServedAsCommitted
  <2>q. QED  BY <1>1, <2>1 DEF Expected, SameZones
<1>q. QED  BY <1>2, <1>3

\* One record more or less of a zone.
LEMMA RecordsMore ==
    ASSUME NEW d \in Db, NEW e \in Db, NEW row \in Rows, NEW z, row[1] = z, e.rows = d.rows \cup {row}
    PROVE  RecordsOf(e, z) = RecordsOf(d, z) \cup {row[2]}
<1>1. row = <<z, row[2]>>
  BY RowPair
<1>2. \A x : <<z, x>> = row <=> x = row[2]
  BY <1>1
<1>3. ASSUME NEW x
      PROVE  x \in RecordsOf(e, z) <=> x \in RecordsOf(d, z) \cup {row[2]}
  BY <1>2, RecordMember
<1>q. QED  BY <1>3

LEMMA RecordsLess ==
    ASSUME NEW d \in Db, NEW e \in Db, NEW row \in Rows, NEW z, row[1] = z,
           \A x : x \in e.rows <=> x \in d.rows /\ x # row
    PROVE  RecordsOf(e, z) = RecordsOf(d, z) \ {row[2]}
<1>1. row = <<z, row[2]>>
  BY RowPair
<1>2. \A x : <<z, x>> = row <=> x = row[2]
  BY <1>1
<1>3. ASSUME NEW x
      PROVE  x \in RecordsOf(e, z) <=> x \in RecordsOf(d, z) \ {row[2]}
  BY <1>2, RecordMember
<1>q. QED  BY <1>3

\* The rows of a call that is about one zone.
LEMMA OneRow ==
    ASSUME NEW rows \in Seq(Rows), Len(rows) = 1, NEW z, ZonesOf(rows) \subseteq {z}
    PROVE  rows[1] \in Rows /\ rows[1][1] = z /\ Among(rows) = {rows[1]}
<1>1. rows[1] \in Rows /\ DOMAIN rows = {1}
  OBVIOUS
<1>2. Among(rows) = {rows[1]}
  BY <1>1 DEF Among
<1>3. rows[1][1] \in ZonesOf(rows)
  BY <1>2 DEF ZonesOf
<1>q. QED  BY <1>1, <1>2, <1>3

LEMMA TwoRows ==
    ASSUME NEW rows \in Seq(Rows), Len(rows) = 2, NEW z, ZonesOf(rows) \subseteq {z}
    PROVE  /\ rows[1] \in Rows /\ rows[1][1] = z /\ rows[2] \in Rows /\ rows[2][1] = z
           /\ Among(rows) = {rows[1], rows[2]}
<1>1. rows[1] \in Rows /\ rows[2] \in Rows /\ DOMAIN rows = {1, 2}
  OBVIOUS
<1>2. Among(rows) = {rows[1], rows[2]}
  BY <1>1 DEF Among
<1>3. rows[1][1] \in ZonesOf(rows) /\ rows[2][1] \in ZonesOf(rows)
  BY <1>2 DEF ZonesOf
<1>q. QED  BY <1>1, <1>2, <1>3

\* What the three statements about a record make of the records of its zone.
LEMMA Inserted ==
    ASSUME NEW c \in Calling, NEW d \in Db, NEW e, e = Executed(c, d), c.do = "insertRows",
           Len(c.rows) = 1, NEW z, ZonesOf(c.rows) \subseteq {z}
    PROVE  RecordsOf(e, z) = RecordsOf(d, z) \cup {c.rows[1][2]}
<1>1. e \in Db /\ After(c, d, e)
  BY AfterStatement
<1>2. c.rows \in Seq(Rows)
  BY DEF Calling
<1>3. PICK row \in Rows : row = c.rows[1] /\ row[1] = z /\ Among(c.rows) = {row}
  BY <1>2, OneRow
<1>4. e.rows = d.rows \cup {row}
  BY <1>1, <1>3 DEF After
<1>5. RecordsOf(e, z) = RecordsOf(d, z) \cup {row[2]}
  BY <1>1, <1>3, <1>4, RecordsMore
<1>q. QED  BY <1>3, <1>5

LEMMA Deleted ==
    ASSUME NEW c \in Calling, NEW d \in Db, NEW e, e = Executed(c, d), c.do = "deleteRow",
           Len(c.rows) = 1, NEW z, ZonesOf(c.rows) \subseteq {z}
    PROVE  RecordsOf(e, z) = RecordsOf(d, z) \ {c.rows[1][2]}
<1>1. e \in Db /\ After(c, d, e)
  BY AfterStatement
<1>2. c.rows \in Seq(Rows)
  BY DEF Calling
<1>3. PICK row \in Rows : row = c.rows[1] /\ row[1] = z /\ Among(c.rows) = {row}
  BY <1>2, OneRow
<1>4. \A x : x \in e.rows <=> x \in d.rows /\ x # row
  BY <1>1, <1>3 DEF After
<1>5. RecordsOf(e, z) = RecordsOf(d, z) \ {row[2]}
  BY <1>1, <1>3, <1>4, RecordsLess
<1>q. QED  BY <1>3, <1>5

LEMMA Updated ==
    ASSUME NEW c \in Calling, NEW d \in Db, NEW e, e = Executed(c, d), c.do = "updateRow",
           Len(c.rows) = 2, NEW z, ZonesOf(c.rows) \subseteq {z}, c.rows[1] \in d.rows
    PROVE  RecordsOf(e, z) = (RecordsOf(d, z) \ {c.rows[1][2]}) \cup {c.rows[2][2]}
<1>1. e \in Db /\ After(c, d, e)
  BY AfterStatement
<1>2. c.rows \in Seq(Rows)
  BY DEF Calling
<1>3. PICK old \in Rows : old = c.rows[1] /\ old[1] = z
  BY <1>2, TwoRows
<1>4. PICK new \in Rows : new = c.rows[2] /\ new[1] = z
  <2>1. c.rows[2] \in Rows /\ c.rows[2][1] = z
    BY <1>2, TwoRows
  <2>q. QED  BY <2>1
<1>5. e.rows = (d.rows \ {old}) \cup {new}
  BY <1>1, <1>3, <1>4 DEF After
<1>6. PICK m \in Db : m.rows = d.rows \ {old}
  <2>1. [d EXCEPT !.rows = @ \ {old}] \in Db /\ [d EXCEPT !.rows = @ \ {old}].rows = d.rows \ {old}
    BY DEF Db
  <2>q. QED  BY <2>1
<1>7. \A x : x \in m.rows <=> x \in d.rows /\ x # old
  BY <1>6
<1>8. e.rows = m.rows \cup {new}
  BY <1>5, <1>6
<1>9. RecordsOf(m, z) = RecordsOf(d, z) \ {old[2]}
  BY <1>3, <1>7, RecordsLess
<1>10. RecordsOf(e, z) = RecordsOf(m, z) \cup {new[2]}
  BY <1>1, <1>4, <1>8, RecordsMore
<1>q. QED  BY <1>3, <1>4, <1>9, <1>10

\* No update of zone z is due after a call that names another zone.
LEMMA NotTold ==
    ASSUME NEW r \in Requests, NEW t \in Seq(Calling), t # <<>>, Proper(r, t),
           r.kind \in {"rrs", "updateRR"},
           NEW z, z # t[1].zone \/ t[1].do \notin Tells(r.kind)
    PROVE  \A s, R : Due(r, Tail(t), z, s) = s /\ Taken(Tail(t), z, R) = R
<1>1. CASE Tail(t) # <<>> /\ Tail(t)[1].do \in IsTold(r.kind)
  <2>1. t[1].do \in Tells(r.kind)
    BY <1>1, NextCall
  <2>2. Told(r.kind, t[1], Tail(t)[1])
    BY <2>1, NextCall
  <2>3. Tail(t)[1].zone # z
    BY <2>1, <2>2 DEF Told
  <2>q. QED  BY <2>3, OtherZone
<1>2. CASE Tail(t) = <<>>
  BY <1>2, OtherZone
<1>3. CASE Tail(t) # <<>> /\ Tail(t)[1].do \notin IsTold(r.kind)
  <2>1. Proper(r, Tail(t)) /\ Tail(t) \in Seq(Calling)
    BY TailProper, TailFacts
  <2>2. Fits(r, Tail(t), 1)
    BY <1>3, <2>1, NextCall
  <2>q. QED  BY <1>3, <2>2, Quiet DEF Fits
<1>q. QED  BY <1>1, <1>2, <1>3

\* In a request that rndc carries out no update is ever due.
LEMMA NeverDue ==
    ASSUME NEW r \in Requests, NEW t \in Seq(Calling), Proper(r, t), r.kind \in RndcKinds
    PROVE  \A z, s, R : Due(r, t, z, s) = s /\ Taken(t, z, R) = R
<1>1. CASE t = <<>>
  BY <1>1, OtherZone
<1>2. CASE t # <<>>
  <2>1. InScope(r, t, 1)
    BY <1>2, NextCall DEF Fits
  <2>2. t[1].do \notin {"add", "remove", "updateRow"}
    BY <2>1, KindsOf
  <2>q. QED  BY <2>1, <2>2, Quiet DEF IsTold
<1>q. QED  BY <1>1, <1>2

-----------------------------------------------------------------------------
(* Statements.                                                             *)

\* A zone agrees as before if what is due on both sides moves together.
LEMMA AgreesBy ==
    ASSUME NEW r, NEW t, NEW d, NEW z, NEW s, NEW u, NEW e, Agrees(r, t, d, z, s),
           z \in e.zones <=> z \in d.zones,
           Due(r, t, z, s) = Taken(t, z, RecordsOf(d, z)) =>
               Due(r, u, z, s) = Taken(u, z, RecordsOf(e, z))
    PROVE  Agrees(r, u, e, z, s)
  BY DEF Agrees

\* What a statement makes due is what the next call does.
LEMMA AgreesAfterStatement ==
    ASSUME NEW r \in Requests, NEW t \in Seq(Calling), t # <<>>, Proper(r, t),
           NEW c, c = t[1], c.do \in Statements, NEW d \in Db, NEW e, e = Executed(c, d),
           NEW z \in Zones, NEW s, Agrees(r, t, d, z, s), ~Follows(t, 1, z, RndcDos),
           c.do = "updateRow" /\ c.zone = z => c.rows[1] \in d.rows
    PROVE  Agrees(r, Tail(t), e, z, s)
<1> DEFINE u == Tail(t)
<1>1. c \in Calling /\ Fits(r, t, 1) /\ u \in Seq(Calling) /\ Proper(r, u)
  BY TailFacts, TailProper, NextCall
<1>a. r.kind \in {"rrs", "updateRR"} /\ c.do \in Tells(r.kind) => u # <<>> /\ Told(r.kind, c, u[1])
  BY NextCall
<1>b. r.kind \in {"rrs", "updateRR"} /\ z # c.zone =>
        \A v, R : Due(r, u, z, v) = v /\ Taken(u, z, R) = R
  BY NotTold
<1> HIDE DEF u
<1> SUFFICES Agrees(r, u, e, z, s)
  BY DEF u
<1>2. c.do \notin {"add", "remove"} /\ c.rows \in Seq(Rows)
  BY <1>1 DEF Statements, Calling
<1>3. c.do = "updateRow" => r.kind = "updateRR" /\ Len(c.rows) = 2
  BY <1>1, KindsOf DEF Fits, Single
<1>d. c.do = "updateRow" => Len(c.rows) = 2
  BY <1>3
<1>4. e \in Db /\ After(c, d, e)
  BY <1>1, <1>d, AfterStatement
<1>5. CASE z \notin {c.zone} \cup ZonesOf(c.rows)
  <2>1. (z \in e.zones <=> z \in d.zones) /\ RecordsOf(e, z) = RecordsOf(d, z)
    BY <1>1, <1>3, <1>5, Elsewhere
  <2>2. \A v, R : Due(r, t, z, v) = v /\ Taken(t, z, R) = R
    BY <1>5, OtherZone
  <2>3. Due(r, u, z, s) = s /\ Taken(u, z, RecordsOf(e, z)) = RecordsOf(e, z)
    <3>1. CASE r.kind \in RndcKinds
      BY <1>1, <3>1, NeverDue
    <3>2. CASE r.kind \notin RndcKinds
      <4>1. r.kind \in {"rrs", "updateRR"}
        BY <1>1, <3>2, KindsOf DEF Fits
      <4>q. QED  BY <1>5, <4>1, <1>b
    <3>q. QED  BY <3>1, <3>2
  <2>4. Due(r, t, z, s) = Taken(t, z, RecordsOf(d, z)) =>
          Due(r, u, z, s) = Taken(u, z, RecordsOf(e, z))
    BY <2>1, <2>2, <2>3
  <2>q. QED  BY <2>1, <2>4, AgreesBy
<1>6. CASE z \in {c.zone} \cup ZonesOf(c.rows) /\ r.kind \in RndcKinds
  <2>1. Follows(t, 1, z, RndcDos)
    BY <1>1, <1>6 DEF Fits, Covered
  <2>q. QED  BY <2>1
<1>7. CASE z \in {c.zone} \cup ZonesOf(c.rows) /\ r.kind \notin RndcKinds
  <2>1. r.kind \in {"rrs", "updateRR"} /\ z = c.zone /\ ZonesOf(c.rows) \subseteq {z}
    BY <1>1, <1>7, KindsOf DEF Fits, Single
  <2>2. c.do \in Tells(r.kind) /\ c.do \in {"insertRows", "deleteRow", "updateRow"}
    BY <1>1, <1>2, <2>1, KindsOf DEF Fits, Tells, Statements
  <2>3. u # <<>> /\ Told(r.kind, c, u[1])
    BY <2>1, <2>2, <1>a
  <2>4. u[1].zone = z
    BY <2>1, <2>3 DEF Told
  <2>5. Due(r, t, z, s) = s
    BY <1>2 DEF Due
  <2>6. e.zones = d.zones
    BY <1>4, <2>2 DEF After
  <2>7. CASE c.do = "insertRows"
    <3>1. r.kind = "rrs" /\ u[1].do = "add" /\ u[1].rows = c.rows /\ Len(c.rows) = 1
      BY <1>1, <2>1, <2>3, <2>7 DEF Told, Fits, Single
    <3>5. RecordsOf(e, z) = RecordsOf(d, z) \cup {c.rows[1][2]}
      BY <1>1, <2>1, <2>7, <3>1, Inserted
    <3>6. Taken(t, z, RecordsOf(d, z)) = RecordsOf(d, z)
      BY <2>7 DEF Taken
    <3>7. Taken(u, z, RecordsOf(e, z)) = RecordsOf(e, z) /\ Due(r, u, z, s) = s \cup {c.rows[1][2]}
      BY <2>3, <2>4, <3>1 DEF Taken, Due
    <3>10. Due(r, t, z, s) = Taken(t, z, RecordsOf(d, z)) =>
             Due(r, u, z, s) = Taken(u, z, RecordsOf(e, z))
      BY <2>5, <3>5, <3>6, <3>7
    <3>q. QED  BY <2>6, <3>10, AgreesBy
  <2>8. CASE c.do = "deleteRow"
    <3>1. r.kind = "rrs" /\ u[1].do = "remove" /\ u[1].rows = c.rows /\ Len(c.rows) = 1
      BY <1>1, <2>1, <2>3, <2>8 DEF Told, Fits, Single
    <3>5. RecordsOf(e, z) = RecordsOf(d, z) \ {c.rows[1][2]}
      BY <1>1, <2>1, <2>8, <3>1, Deleted
    <3>6. Taken(t, z, RecordsOf(d, z)) = RecordsOf(d, z)
      BY <2>8 DEF Taken
    <3>7. Taken(u, z, RecordsOf(e, z)) = RecordsOf(e, z) /\ Due(r, u, z, s) = s \ {c.rows[1][2]}
      BY <2>3, <2>4, <3>1 DEF Taken, Due
    <3>10. Due(r, t, z, s) = Taken(t, z, RecordsOf(d, z)) =>
             Due(r, u, z, s) = Taken(u, z, RecordsOf(e, z))
      BY <2>5, <3>5, <3>6, <3>7
    <3>q. QED  BY <2>6, <3>10, AgreesBy
  <2>9. CASE c.do = "updateRow"
    <3>1. u[1].do = "add" /\ u[1].rows[1] = c.rows[2] /\ Len(c.rows) = 2
      BY <1>3, <2>3, <2>9 DEF Told
    <3>7. RecordsOf(e, z) = (RecordsOf(d, z) \ {c.rows[1][2]}) \cup {c.rows[2][2]}
      BY <1>1, <2>1, <2>9, <3>1, Updated
    <3>8. Taken(t, z, RecordsOf(d, z)) = RecordsOf(d, z) \ {c.rows[1][2]}
      BY <2>1, <2>9 DEF Taken
    <3>9. Taken(u, z, RecordsOf(e, z)) = RecordsOf(e, z) /\ Due(r, u, z, s) = s \cup {c.rows[2][2]}
      BY <2>3, <2>4, <3>1 DEF Taken, Due
    <3>10. Due(r, t, z, s) = Taken(t, z, RecordsOf(d, z)) =>
             Due(r, u, z, s) = Taken(u, z, RecordsOf(e, z))
      BY <2>5, <3>7, <3>8, <3>9
    <3>q. QED  BY <2>6, <3>10, AgreesBy
  <2>q. QED  BY <2>2, <2>7, <2>8, <2>9
<1>q. QED  BY <1>5, <1>6, <1>7

\* Rows stay with their zones: what a statement leaves or adds.
LEMMA HousedAfterStatement ==
    ASSUME NEW r \in Requests, NEW t \in Seq(Calling), t # <<>>, Proper(r, t),
           NEW c, c = t[1], c.do \in Statements, NEW d \in Db, NEW e, e = Executed(c, d),
           NEW D, Grounded(d, t, D), NEW row \in e.rows,
           row \in d.rows => row[1] \in d.zones \cup D \/ Follows(t, 0, row[1], {"clear", "dump"})
    PROVE  row[1] \in e.zones \cup D \/ Follows(Tail(t), 0, row[1], {"clear", "dump"})
<1>1. c \in Calling /\ Fits(r, t, 1)
  BY NextCall
<1>2. c.rows \in Seq(Rows) /\ c.do \in Statements
  BY <1>1 DEF Calling
<1>3. c.do = "updateRow" => r.kind = "updateRR" /\ Len(c.rows) = 2 /\ ZonesOf(c.rows) \subseteq {c.zone}
                              /\ Follows(t, 1, c.zone, {"dump"})
  BY <1>1, KindsOf DEF Fits, Single
<1>d. c.do = "updateRow" => Len(c.rows) = 2
  BY <1>3
<1>4. After(c, d, e)
  BY <1>1, <1>d, AfterStatement
<1>5. ASSUME NEW y, Follows(t, 1, y, {"dump"}) \/ Follows(t, 1, y, {"clear"})
      PROVE  Follows(Tail(t), 0, y, {"clear", "dump"})
  <2>1. Follows(t, 0 + 1, y, {"dump"}) \/ Follows(t, 0 + 1, y, {"clear"})
    BY <1>5
  <2>2. Follows(Tail(t), 0, y, {"dump"}) \/ Follows(Tail(t), 0, y, {"clear"})
    BY <2>1, FollowsTail
  <2>q. QED  BY <2>2 DEF Follows
<1>6. CASE row \in d.rows /\ Follows(t, 0, row[1], {"clear", "dump"})
  <2>1. c.do = "clear" => row[1] # c.zone
    BY <1>4 DEF After
  <2>2. c.do # "dump"
    BY <1>2 DEF Statements
  <2>q. QED  BY <1>6, <2>1, <2>2, FollowsNow
<1>7. CASE row \in d.rows /\ row[1] \in d.zones \cup D
  <2>1. CASE c.do = "deleteRowOfZone" /\ row[1] = c.zone
    <3>1. Follows(t, 1, row[1], {"clear"})
      BY <1>1, <2>1 DEF Fits, Covered
    <3>q. QED  BY <1>5, <3>1
  <2>2. CASE ~(c.do = "deleteRowOfZone" /\ row[1] = c.zone)
    BY <1>4, <1>7, <2>2 DEF After
  <2>q. QED  BY <2>1, <2>2
<1>8. CASE row \notin d.rows
  <2>1. \/ c.do = "insertRows" /\ row \in Among(c.rows)
        \/ c.do = "updateRow" /\ row = c.rows[2]
    BY <1>4, <1>8 DEF After
  <2>2. CASE c.do = "insertRows" /\ row \in Among(c.rows)
    <3>1. row[1] \in ZonesOf(c.rows)
      BY <2>2 DEF ZonesOf
    <3>2. 1 \in 1 .. Len(t)
      BY TailFacts
    <3>3. \/ row[1] \in d.zones \cup D
          \/ Precedes(t, 1, row[1], {"insertZone", "findZone", "deleteZone"})
          \/ Follows(t, 1, row[1], {"dump"})
      BY <2>2, <3>1, <3>2 DEF Grounded
    <3>4. row[1] \in d.zones \cup D \/ Follows(t, 1, row[1], {"dump"})
      BY <3>3, NonePrecede
    <3>5. e.zones = d.zones
      BY <1>4, <2>2 DEF After
    <3>q. QED  BY <1>5, <3>4, <3>5
  <2>3. CASE c.do = "updateRow" /\ row = c.rows[2]
    <3>1. row[1] = c.zone
      BY <1>2, <1>3, <2>3, TwoRows
    <3>q. QED  BY <1>3, <1>5, <2>3, <3>1
  <2>q. QED  BY <2>1, <2>2, <2>3
<1>q. QED  BY <1>6, <1>7, <1>8

LEMMA StatementInv == ASSUME IInv, Statement PROVE IInv'
<1> DEFINE t == op.todo
           c == op.todo[1]
           e == Executed(op.todo[1], op.tx)
           U == IF c.do = "updateRow" /\ c.rows[1] \notin op.tx.rows THEN op.unsure \cup {c.zone} ELSE op.unsure
<1>1. /\ op \in OpType /\ op.req \in Requests /\ t \in Seq(Calling) /\ op.tx \in Db
      /\ op.did \subseteq Zones /\ op.unsure \subseteq Zones /\ Busy /\ t # <<>>
  BY Under DEF IInv, Statement
<1>2. /\ Step = c /\ c \in Calling /\ c.do \in Statements /\ Accepted(c, op.tx) /\ Tail(t) \in Seq(Calling)
      /\ UNCHANGED <<db, file, named, runs, bounds, drift>>
  BY <1>1, TailFacts DEF Statement, Step
<1>3. Proper(op.req, t) /\ Fits(op.req, t, 1)
  BY <1>1, NextCall DEF IInv, HandlerOK
<1>4. op.pc = "work"
  <2>1. op.pc \in {"work", "blocked"}
    BY Under, <1>1 DEF IInv
  <2>q. QED  BY <1>1, <1>2, <2>1 DEF IInv, HandlerOK
<1>5. op' = [op EXCEPT !.todo = Tail(@), !.tx = e, !.did = op.did, !.unsure = U]
  <2>1. op' = [op EXCEPT !.todo = Tail(@), !.tx = e, !.unsure = U]
    BY <1>2 DEF Statement
  <2>q. QED  BY <1>1, <2>1 DEF OpType
<1>6. /\ op'.req = op.req /\ op'.todo = Tail(t) /\ op'.tx = e /\ op'.did = op.did /\ op'.unsure = U
      /\ op'.run = op.run
  BY <1>1, <1>5 DEF OpType
<1>d. c.do = "updateRow" => Len(c.rows) = 2
  BY <1>1, <1>3, KindsOf DEF Fits, Single
<1>7. e \in Db /\ After(c, op.tx, e)
  BY <1>1, <1>2, <1>d, AfterStatement
<1>8. c.do \in {"insertZone", "deleteRowOfZone", "findZone", "clear", "insertRows", "deleteRow", "updateRow"}
  BY <1>2 DEF Statements
<1>9. op.unsure \subseteq U /\ U \subseteq op.unsure \cup {c.zone}
  OBVIOUS
<1> HIDE DEF e, U
<1>10. ASSUME op.run = "alone"
       PROVE  (SameZones /\ Placed /\ Written /\ Agreeing /\ Housed
                 /\ Grounded(op.tx, op.todo, drift) /\ Ungrounded(op.req, op.tx, op.todo))'
  <2>1. /\ SameZones /\ Placed /\ Agreeing /\ Housed
        /\ Grounded(op.tx, t, drift) /\ Ungrounded(op.req, op.tx, t)
    BY <1>1, <1>4, <1>10 DEF IInv, HandlerOK
  <2>2. SameZones'
    <3>1. op.req.kind \notin {"createZone", "deleteZone"} => c.do \notin {"insertZone", "deleteRowOfZone"}
      BY <1>1, <1>3, KindsOf DEF Fits
    <3>2. op.req.kind \notin {"createZone", "deleteZone"} => e.zones = op.tx.zones
      BY <1>7, <3>1 DEF After
    <3>q. QED  BY <1>2, <1>6, <2>1, <3>2 DEF SameZones
  <2>3. op.req.kind # "deleteZone" => op.tx.zones \subseteq e.zones
    <3>1. op.req.kind # "deleteZone" => c.do # "deleteRowOfZone"
      BY <1>1, <1>3, KindsOf DEF Fits
    <3>q. QED  BY <1>7, <3>1 DEF After
  <2>4. Placed'
    BY <1>2, <1>6, <2>1, <2>3 DEF Placed
  <2>5. Written'
    <3>1. Tail(t) # <<>> => Tail(t)[1].do \notin {"addZone", "modifyZone"}
      BY <1>1, <1>3, <1>8, NextCall
    <3>q. QED  BY <1>6, <3>1 DEF Written
  <2>6. Grounded(e, Tail(t), drift)
    <3>1. c.do \in {"insertZone", "findZone", "deleteZone"} => c.zone \in e.zones \cup drift
      BY <1>2, <1>7, <1>8 DEF After, Accepted
    <3>q. QED  BY <1>1, <1>3, <2>1, <2>3, <3>1, GroundedTail
  <2>7. Ungrounded(op.req, e, Tail(t))
    <3>1. op.req.kind = "deleteZone" => c.do # "insertZone"
      BY <1>1, <1>3, KindsOf DEF Fits
    <3>2. op.req.kind = "deleteZone" => e.zones \subseteq op.tx.zones
      BY <1>7, <3>1 DEF After
    <3>3. c.do = "deleteRowOfZone" => c.zone \notin e.zones
      BY <1>7 DEF After
    <3>q. QED  BY <1>1, <2>1, <3>2, <3>3, UngroundedTail
  <2>8. Housed'
    <3>1. ASSUME NEW row \in e.rows, ~(row \in db.rows /\ row[1] \notin db.zones)
          PROVE  row[1] \in e.zones \cup drift \/ Follows(Tail(t), 0, row[1], {"clear", "dump"})
      <4>1. row \in op.tx.rows => row[1] \in op.tx.zones \cup drift \/ Follows(t, 0, row[1], {"clear", "dump"})
        BY <2>1, <3>1 DEF Housed
      <4>q. QED  BY <1>1, <1>2, <1>3, <2>1, <4>1, HousedAfterStatement DEF e
    <3>q. QED  BY <1>2, <1>6, <3>1 DEF Housed
  <2>9. Agreeing'
    <3>1. ASSUME up, NEW z \in Zones \ (drift \cup U), ~Touches(Tail(t), z)
          PROVE  Agrees(op.req, Tail(t), e, z, served[z])
      <4>1. Follows(t, 0 + 1, z, RndcDos) <=> Follows(Tail(t), 0, z, RndcDos)
        BY <1>1, FollowsTail
      <4>2. ~Follows(t, 1, z, RndcDos)
        BY <3>1, <4>1 DEF Touches
      <4>3. ~Touches(t, z)
        BY <1>1, <1>8, <3>1, FollowsNow DEF Touches, RndcDos
      <4>4. Agrees(op.req, t, op.tx, z, served[z])
        BY <1>9, <2>1, <3>1, <4>3 DEF Agreeing
      <4>5. c.do = "updateRow" /\ c.zone = z => c.rows[1] \in op.tx.rows
        BY <3>1 DEF U
      <4>q. QED  BY <1>1, <1>2, <1>3, <4>2, <4>4, <4>5, AgreesAfterStatement DEF e
    <3>q. QED  BY <1>2, <1>6, <3>1 DEF Agreeing, named
  <2>q. QED  BY <1>2, <1>6, <2>2, <2>4, <2>5, <2>6, <2>7, <2>8, <2>9
<1>11. /\ file' \in [Zones -> Content] /\ served' \in [Zones -> Content] /\ nzf' \subseteq Zones
       /\ served' = served /\ up' = up
  BY <1>2 DEF IInv, TypeOK, named
<1>q. QED  BY <1>1, <1>2, <1>4, <1>5, <1>7, <1>9, <1>10, <1>11, Onward DEF e

-----------------------------------------------------------------------------
(* Calls that no rollback takes back.                                      *)

\* Such a call leaves the tables of the transaction alone.
LEMMA CallOnward ==
    ASSUME IInv, Busy, op.todo # <<>>, op.pc = "work", op.todo[1].do \notin Statements,
           NEW D, NEW U, op.did \subseteq D, op.unsure \subseteq U,
           D \subseteq op.did \cup {op.todo[1].zone}, U \subseteq op.unsure \cup {op.todo[1].zone},
           op' = [op EXCEPT !.todo = Tail(@), !.did = D, !.unsure = U],
           UNCHANGED <<db, up, runs, bounds, drift>>,
           file' \in [Zones -> Content], served' \in [Zones -> Content], nzf' \subseteq Zones,
           \A z \in Zones : served'[z] = served[z] \/ z \in D,
           op.run = "alone" =>
             /\ op.todo[1].do = "dump" => op.todo[1].zone \in op.tx.zones \cup drift
             /\ op.req.kind # "deleteZone" =>
                  /\ op.todo[1].do = "deleteZone" => op.todo[1].zone \in op.tx.zones \cup drift
                  /\ op.todo[1].zone \in D => op.todo[1].zone \in op.tx.zones \cup drift
             /\ op.todo[1].do = "file" => file'[op.todo[1].zone] = RecordsOf(op.tx, op.todo[1].zone)
             /\ up => \A z \in Zones \ (drift \cup U) : ~Touches(Tail(op.todo), z) =>
                        Agrees(op.req, Tail(op.todo), op.tx, z, served'[z])
    PROVE  IInv'
<1> DEFINE t == op.todo
           c == op.todo[1]
<1>1. /\ op \in OpType /\ op.req \in Requests /\ t \in Seq(Calling) /\ op.tx \in Db
  BY Under DEF IInv
<1>2. c \in Calling /\ Tail(t) \in Seq(Calling)
  BY <1>1, TailFacts
<1>3. Proper(op.req, t) /\ Fits(op.req, t, 1)
  BY <1>1, NextCall DEF IInv, HandlerOK
<1>4. op' = [op EXCEPT !.todo = Tail(@), !.tx = op.tx, !.did = D, !.unsure = U]
  BY <1>1 DEF OpType
<1>5. /\ op'.req = op.req /\ op'.todo = Tail(t) /\ op'.tx = op.tx /\ op'.did = D /\ op'.unsure = U
  BY <1>1, <1>4 DEF OpType
<1>6. c.do \notin {"insertZone", "findZone", "clear", "deleteRowOfZone"}
  BY DEF Statements
<1>7. ASSUME op.run = "alone"
      PROVE  (SameZones /\ Placed /\ Written /\ Agreeing /\ Housed
                /\ Grounded(op.tx, op.todo, drift) /\ Ungrounded(op.req, op.tx, op.todo))'
  <2>1. /\ SameZones /\ Placed /\ Housed /\ Grounded(op.tx, t, drift) /\ Ungrounded(op.req, op.tx, t)
    BY <1>7 DEF IInv, HandlerOK
  <2>2. SameZones' /\ Placed'
    BY <1>5, <1>7, <2>1 DEF SameZones, Placed
  <2>3. Written'
    <3>1. Tail(t) # <<>> /\ Tail(t)[1].do \in {"addZone", "modifyZone"} =>
            c.do = "file" /\ c.zone = Tail(t)[1].zone
      BY <1>1, <1>3, NextCall
    <3>2. \A z : RecordsOf(op.tx, z)' = RecordsOf(op.tx, z)
      BY <1>5 DEF RecordsOf
    <3>q. QED  BY <1>5, <1>7, <3>1, <3>2 DEF Written
  <2>4. Grounded(op.tx, Tail(t), drift)
    BY <1>1, <1>3, <1>6, <1>7, <2>1, GroundedTail
  <2>5. Ungrounded(op.req, op.tx, Tail(t))
    BY <1>1, <1>6, <2>1, UngroundedTail
  <2>6. Housed'
    <3>1. ASSUME NEW row \in op.tx.rows, ~(row \in db.rows /\ row[1] \notin db.zones)
          PROVE  row[1] \in op.tx.zones \cup drift \/ Follows(Tail(t), 0, row[1], {"clear", "dump"})
      <4>1. row[1] \in op.tx.zones \cup drift \/ Follows(t, 0, row[1], {"clear", "dump"})
        BY <2>1, <3>1 DEF Housed
      <4>2. CASE Follows(t, 0, row[1], {"clear", "dump"})
        <5>1. (c.do = "dump" /\ c.zone = row[1]) \/ Follows(Tail(t), 0, row[1], {"clear", "dump"})
          BY <1>1, <1>6, <4>2, FollowsNow
        <5>q. QED  BY <1>7, <5>1
      <4>q. QED  BY <4>1, <4>2
    <3>q. QED  BY <1>5, <3>1 DEF Housed
  <2>7. Agreeing'
    BY <1>5, <1>7 DEF Agreeing
  <2>q. QED  BY <1>5, <2>2, <2>3, <2>4, <2>5, <2>6, <2>7
<1>q. QED  BY <1>1, <1>4, <1>7, Onward

\* What such a call starts from.
LEMMA Calling1 ==
    ASSUME IInv, NEW doing, Proceed(doing), doing \cap Statements = {}
    PROVE  /\ Busy /\ op.pc = "work" /\ op.todo # <<>> /\ Step = op.todo[1] /\ op.todo[1].do \in doing
           /\ op.todo[1].do \notin Statements /\ op.todo[1] \in Calling /\ op.todo[1].zone \in Zones
           /\ op \in OpType /\ op.req \in Requests /\ op.todo \in Seq(Calling) /\ op.tx \in Db
           /\ Fits(op.req, op.todo, 1) /\ Proper(op.req, op.todo)
           /\ UNCHANGED <<db, runs, bounds, drift>>
<1>1. Busy /\ op.pc = "work" /\ op.todo # <<>> /\ Step.do \in doing /\ UNCHANGED <<db, runs, bounds, drift>>
  BY DEF Proceed
<1>2. op \in OpType /\ op.req \in Requests /\ op.todo \in Seq(Calling) /\ op.tx \in Db
  BY <1>1, Under DEF IInv
<1>3. Step = op.todo[1] /\ op.todo[1] \in Calling
  BY <1>1, <1>2, TailFacts DEF Step
<1>4. Proper(op.req, op.todo)
  BY <1>1 DEF IInv, HandlerOK
<1>5. Fits(op.req, op.todo, 1)
  BY <1>1, <1>2, <1>4, NextCall
<1>6. op.todo[1].zone \in Zones
  BY <1>3 DEF Calling
<1>q. QED  BY <1>1, <1>2, <1>3, <1>4, <1>5, <1>6

\* Zones of which no update is due before or after the call agree as before.
LEMMA AgreesStill ==
    ASSUME NEW r \in Requests, NEW t \in Seq(Calling), t # <<>>, Proper(r, t),
           NEW z, NEW d, NEW s, Agrees(r, t, d, z, s),
           r.kind \notin RndcKinds => t[1].zone # z \/ t[1].do \notin Tells(r.kind) \cup IsTold(r.kind)
    PROVE  Agrees(r, Tail(t), d, z, s)
<1> DEFINE u == Tail(t)
<1>1. r.kind \notin RndcKinds => r.kind \in {"rrs", "updateRR"} /\ InScope(r, t, 1)
  BY NextCall, KindsOf DEF Fits
<1>2. \A v, R : Due(r, t, z, v) = v /\ Taken(t, z, R) = R
  <2>1. CASE r.kind \in RndcKinds
    BY <2>1, NeverDue
  <2>2. CASE r.kind \notin RndcKinds /\ t[1].zone # z
    BY <2>2, OtherZone
  <2>3. CASE r.kind \notin RndcKinds /\ t[1].do \notin IsTold(r.kind)
    BY <1>1, <2>3, Quiet
  <2>q. QED  BY <2>1, <2>2, <2>3
<1>3. \A v, R : Due(r, u, z, v) = v /\ Taken(u, z, R) = R
  <2>1. CASE r.kind \in RndcKinds
    <3>1. Proper(r, u) /\ u \in Seq(Calling)
      BY TailProper, TailFacts
    <3>q. QED  BY <2>1, <3>1, NeverDue
  <2>2. CASE r.kind \notin RndcKinds
    BY <1>1, <2>2, NotTold
  <2>q. QED  BY <2>1, <2>2
<1> HIDE DEF u
<1> SUFFICES Agrees(r, u, d, z, s)
  BY DEF u
<1>q. QED  BY <1>2, <1>3, AgreesBy

\* What the tables hold of a zone is what a zone can hold.
LEMMA ContentOf ==
    ASSUME NEW d \in Db, NEW z
    PROVE  RecordsOf(d, z) \in Content /\ RecordsOf(d, z) # Absent /\ Absent \in Content
           /\ Expected(d, z) \in Content
  BY RecordMember, SetsOfRecords DEF Content, Expected

LEMMA WriteZoneFileInv == ASSUME IInv, WriteZoneFile PROVE IInv'
<1> DEFINE c == op.todo[1]
<1>1. /\ Busy /\ op.pc = "work" /\ op.todo # <<>> /\ Step = c /\ c.do = "file"
      /\ c.do \notin Statements /\ c.zone \in Zones
      /\ op \in OpType /\ op.req \in Requests /\ op.todo \in Seq(Calling) /\ op.tx \in Db
      /\ Fits(op.req, op.todo, 1) /\ Proper(op.req, op.todo)
      /\ UNCHANGED <<db, runs, bounds, drift>>
  <2>1. Proceed({"file"}) /\ {"file"} \cap Statements = {}
    BY DEF WriteZoneFile, Statements
  <2>q. QED  BY <2>1, Calling1
<1>2. /\ file' = [file EXCEPT ![c.zone] = RecordsOf(op.tx, c.zone)]
      /\ op' = [op EXCEPT !.todo = Tail(@), !.did = @ \cup {}] /\ UNCHANGED <<nzf, up, served>>
  BY <1>1 DEF WriteZoneFile, Did, named
<1>3. op' = [op EXCEPT !.todo = Tail(@), !.did = op.did, !.unsure = op.unsure]
  BY <1>1, <1>2 DEF OpType
<1>4. /\ file' \in [Zones -> Content] /\ file'[c.zone] = RecordsOf(op.tx, c.zone)
      /\ served' = served /\ nzf' \subseteq Zones /\ served \in [Zones -> Content] /\ up' = up
  BY <1>1, <1>2, ContentOf DEF IInv, TypeOK
<1>5. ASSUME op.run = "alone"
      PROVE  /\ c.do # "dump" /\ c.do # "deleteZone"
             /\ op.req.kind # "deleteZone" /\ c.zone \in op.did => c.zone \in op.tx.zones \cup drift
             /\ up => \A z \in Zones \ (drift \cup op.unsure) : ~Touches(Tail(op.todo), z) =>
                        Agrees(op.req, Tail(op.todo), op.tx, z, served[z])
  <2>1. Placed /\ Agreeing
    BY <1>1, <1>5 DEF IInv, HandlerOK
  <2>2. op.req.kind \in RndcKinds
    BY <1>1, KindsOf DEF Fits
  <2>3. ASSUME up, NEW z \in Zones \ (drift \cup op.unsure), ~Touches(Tail(op.todo), z)
        PROVE  Agrees(op.req, Tail(op.todo), op.tx, z, served[z])
    <3>1. ~Touches(op.todo, z)
      BY <1>1, <2>3, FollowsNow DEF Touches, RndcDos
    <3>2. Agrees(op.req, op.todo, op.tx, z, served[z])
      BY <2>1, <2>3, <3>1 DEF Agreeing
    <3>q. QED  BY <1>1, <2>2, <3>2, AgreesStill
  <2>q. QED  BY <1>1, <2>1, <2>3 DEF Placed
<1>q. QED  BY <1>1, <1>3, <1>4, <1>5, CallOnward

LEMMA RndcInv == ASSUME IInv, Rndc PROVE IInv'
<1> DEFINE c == op.todo[1]
           D == op.did \cup {c.zone}
<1>1. /\ Busy /\ op.pc = "work" /\ op.todo # <<>> /\ Step = c /\ c.do \in {"addZone", "modifyZone", "deleteZone"}
      /\ c.do \notin Statements /\ c.zone \in Zones
      /\ op \in OpType /\ op.req \in Requests /\ op.todo \in Seq(Calling) /\ op.tx \in Db
      /\ Fits(op.req, op.todo, 1) /\ Proper(op.req, op.todo)
      /\ UNCHANGED <<db, runs, bounds, drift>>
  <2>1. Proceed({"addZone", "modifyZone", "deleteZone"}) /\ {"addZone", "modifyZone", "deleteZone"} \cap Statements = {}
    BY DEF Rndc, Statements
  <2>q. QED  BY <2>1, Calling1
<1>2. RndcDone /\ op' = [op EXCEPT !.todo = Tail(@), !.did = @ \cup {c.zone}]
  BY <1>1 DEF Rndc, Did
<1>3. op' = [op EXCEPT !.todo = Tail(@), !.did = D, !.unsure = op.unsure]
  BY <1>1, <1>2 DEF OpType
<1>4. /\ up /\ up' = up /\ file' = file
      /\ \/ /\ c.do = "addZone" /\ file[c.zone] # Absent
            /\ served' = [served EXCEPT ![c.zone] = file[c.zone]] /\ nzf' = nzf \cup {c.zone}
         \/ /\ c.do = "modifyZone" /\ served[c.zone] # Absent /\ file[c.zone] # Absent
            /\ served' = [served EXCEPT ![c.zone] = file[c.zone]] /\ nzf' = nzf
         \/ /\ c.do = "deleteZone" /\ served[c.zone] # Absent
            /\ served' = [served EXCEPT ![c.zone] = Absent] /\ nzf' = nzf \ {c.zone}
  BY <1>1, <1>2 DEF RndcDone
<1>5. /\ file' \in [Zones -> Content] /\ served' \in [Zones -> Content] /\ nzf' \subseteq Zones
      /\ served'[c.zone] = IF c.do = "deleteZone" THEN Absent ELSE file[c.zone]
      /\ \A z \in Zones : z # c.zone => served'[z] = served[z]
  BY <1>1, <1>4, Absent \in Content DEF IInv, TypeOK, Content
<1>6. \A z \in Zones : served'[z] = served[z] \/ z \in D
  BY <1>5
<1>7. ASSUME op.run = "alone"
      PROVE  /\ op.req.kind # "deleteZone" => c.zone \in op.tx.zones \cup drift
             /\ \A z \in Zones \ (drift \cup op.unsure) : ~Touches(Tail(op.todo), z) =>
                   Agrees(op.req, Tail(op.todo), op.tx, z, served'[z])
  <2>1. Written /\ Agreeing /\ Grounded(op.tx, op.todo, drift) /\ Ungrounded(op.req, op.tx, op.todo)
    BY <1>1, <1>7 DEF IInv, HandlerOK
  <2>2. op.req.kind \in RndcKinds /\ 1 \in 1 .. Len(op.todo)
    BY <1>1, KindsOf, TailFacts DEF Fits, RndcDos
  <2>3. op.req.kind # "deleteZone" => c.zone \in op.tx.zones \cup drift
    <3>1. CASE c.do = "addZone"
      <4>1. c.zone \in op.tx.zones \cup drift \/ Precedes(op.todo, 1, c.zone, {"insertZone", "deleteZone"})
        BY <2>1, <2>2, <3>1 DEF Grounded
      <4>q. QED  BY <4>1, NonePrecede
    <3>2. CASE c.do # "addZone" /\ op.req.kind # "deleteZone"
      <4>1. op.req.kind \notin {"createZone", "deleteZone"}
        <5>1. c.do = "modifyZone" \/ c.do = "deleteZone"
          BY <1>1, <3>2
        <5>2. /\ c.do = "modifyZone" => op.req.kind \in {"updateZone", "batch"}
              /\ c.do = "deleteZone" => op.req.kind \in {"deleteZone", "axfr"}
          BY <1>1, KindsOf DEF Fits
        <5>q. QED  BY <3>2, <5>1, <5>2
      <4>2. served[c.zone] # Absent
        BY <1>4, <3>2
      <4>q. QED  BY <1>1, <1>4, <1>7, <4>1, <4>2, Anchor
    <3>q. QED  BY <3>1, <3>2
  <2>4. ASSUME NEW z \in Zones \ (drift \cup op.unsure), ~Touches(Tail(op.todo), z)
        PROVE  Agrees(op.req, Tail(op.todo), op.tx, z, served'[z])
    <3>1. CASE z # c.zone
      <4>1. ~Touches(op.todo, z)
        BY <1>1, <2>4, <3>1, FollowsNow DEF Touches
      <4>2. Agrees(op.req, op.todo, op.tx, z, served[z])
        BY <1>4, <2>1, <2>4, <4>1 DEF Agreeing
      <4>3. Agrees(op.req, Tail(op.todo), op.tx, z, served[z])
        BY <1>1, <2>2, <4>2, AgreesStill
      <4>q. QED  BY <1>5, <3>1, <4>3
    <3>2. CASE z = c.zone
      <4>1. \A s, R : Due(op.req, Tail(op.todo), z, s) = s /\ Taken(Tail(op.todo), z, R) = R
        <5>1. Tail(op.todo) \in Seq(Calling) /\ Proper(op.req, Tail(op.todo))
          BY <1>1, TailFacts, TailProper
        <5>q. QED  BY <1>1, <2>2, <5>1, NeverDue
      <4>2. CASE c.do # "deleteZone"
        <5>1. op.req.kind # "deleteZone"
          BY <1>1, <4>2, KindsOf DEF Fits
        <5>2. z \in op.tx.zones
          BY <2>3, <2>4, <3>2, <5>1
        <5>3. served'[z] = RecordsOf(op.tx, z)
          BY <1>1, <1>5, <2>1, <3>2, <4>2 DEF Written
        <5>q. QED  BY <1>1, <4>1, <5>2, <5>3, SetsOfRecords DEF Agrees
      <4>3. CASE c.do = "deleteZone"
        <5>1. op.req.kind \in {"deleteZone", "axfr"}
          BY <1>1, <4>3, KindsOf DEF Fits
        <5>2. op.req.kind # "axfr"
          <6>1. op.req.kind = "axfr" => Follows(op.todo, 0 + 1, z, {"addZone"})
            BY <1>1, <3>2, <4>3 DEF Fits, Covered
          <6>2. op.req.kind = "axfr" => Follows(Tail(op.todo), 0, z, {"addZone"})
            BY <1>1, <6>1, FollowsTail
          <6>q. QED  BY <2>4, <6>2 DEF Touches, Follows, RndcDos
        <5>3. z \notin op.tx.zones
          <6>1. z \notin op.tx.zones \/ Precedes(op.todo, 1, z, {"deleteRowOfZone"})
            BY <2>1, <2>2, <3>2, <4>3, <5>1, <5>2 DEF Ungrounded
          <6>q. QED  BY <6>1, NonePrecede
        <5>q. QED  BY <1>5, <3>2, <4>3, <5>3 DEF Agrees
      <4>q. QED  BY <4>2, <4>3
    <3>q. QED  BY <3>1, <3>2
  <2>q. QED  BY <2>3, <2>4
<1>q. QED  BY <1>1, <1>3, <1>4, <1>5, <1>6, <1>7, CallOnward, ZenonT(30)

\* What a dynamic update makes of the records a zone is served with.
Updated1(c, s) == IF c.do = "add" THEN s \cup {c.rows[1][2]} ELSE s \ {c.rows[1][2]}

\* A dynamic update does what was due, or makes due the statement after it.
LEMMA AgreesAfterUpdate ==
    ASSUME NEW r \in Requests, NEW t \in Seq(Calling), t # <<>>, Proper(r, t),
           NEW c, c = t[1], c.do \in {"add", "remove"}, NEW d \in Db, NEW s, s # Absent,
           Updated1(c, s) # Absent, Agrees(r, t, d, c.zone, s)
    PROVE  Agrees(r, Tail(t), d, c.zone, Updated1(c, s))
<1> DEFINE u == Tail(t)
           z == c.zone
           new == Updated1(c, s)
<1>1. Fits(r, t, 1) /\ Proper(r, u) /\ u \in Seq(Calling)
  BY NextCall, TailProper, TailFacts
<1>2. r.kind \in {"rrs", "updateRR"}
  BY <1>1, KindsOf DEF Fits
<1>3. c.do \in Tells(r.kind) => u # <<>> /\ Told(r.kind, c, u[1])
  BY <1>2, NextCall
<1>4. c.do \notin Tells(r.kind) => \A v, R : Due(r, u, z, v) = v /\ Taken(u, z, R) = R
  BY <1>2, NotTold
<1>5. z \in d.zones /\ Due(r, t, z, s) = Taken(t, z, RecordsOf(d, z))
  BY DEF Agrees
<1>6. Taken(t, z, RecordsOf(d, z)) = RecordsOf(d, z)
  BY DEF Taken
<1> HIDE DEF u
<1> SUFFICES Agrees(r, u, d, z, new)
  BY DEF u
<1>7. CASE c.do \notin Tells(r.kind)
  <2>1. r.kind = "rrs" \/ c.do = "add"
    BY <1>2, <1>7 DEF Tells
  <2>2. Due(r, t, z, s) = new
    BY <2>1 DEF Due, Updated1
  <2>q. QED  BY <1>4, <1>5, <1>6, <1>7, <2>2 DEF Agrees
<1>8. CASE c.do \in Tells(r.kind)
  <2>1. r.kind = "updateRR" /\ c.do = "remove"
    BY <1>2, <1>8 DEF Tells
  <2>2. u # <<>> /\ u[1].do = "updateRow" /\ u[1].zone = z /\ u[1].rows[1] = c.rows[1]
    BY <1>3, <1>8, <2>1 DEF Told
  <2>3. s = RecordsOf(d, z) /\ new = s \ {c.rows[1][2]}
    BY <1>5, <1>6, <2>1 DEF Due, Updated1
  <2>4. Due(r, u, z, new) = new /\ Taken(u, z, RecordsOf(d, z)) = RecordsOf(d, z) \ {c.rows[1][2]}
    BY <2>2 DEF Due, Taken
  <2>q. QED  BY <1>5, <2>3, <2>4 DEF Agrees
<1>q. QED  BY <1>7, <1>8

\* What such an update does to named.
LEMMA UpdateStep ==
    ASSUME IInv, Proceed({"add", "remove"}), UpdateDone
    PROVE  LET c == op.todo[1] IN
           /\ up /\ up' = up /\ file' = file /\ nzf' = nzf /\ served[c.zone] # Absent
           /\ served' \in [Zones -> Content]
           /\ served'[c.zone] = Updated1(c, served[c.zone]) /\ served'[c.zone] # Absent
           /\ \A z \in Zones : z # c.zone => served'[z] = served[z]
<1> DEFINE c == op.todo[1]
<1>1. /\ Step = c /\ c \in Calling /\ c.zone \in Zones /\ c.do \in {"add", "remove"}
      /\ op.req \in Requests /\ Fits(op.req, op.todo, 1)
  BY Calling1 DEF Statements
<1>2. /\ up /\ served[c.zone] # Absent
      /\ served' = [served EXCEPT ![c.zone] = Updated1(c, @)]
      /\ UNCHANGED <<nzf, up, file>>
  BY <1>1 DEF UpdateDone, Updated1
<1>3. c.rows \in Seq(Rows) /\ Len(c.rows) = 1 /\ c.rows[1] \in Rows
  <2>1. c.rows \in Seq(Rows) /\ op.req.kind \in {"rrs", "updateRR"}
    BY <1>1, KindsOf DEF Fits, Calling
  <2>2. Len(c.rows) = 1
    BY <1>1, <2>1 DEF Fits, Single
  <2>q. QED  BY <2>1, <2>2
<1>4. served \in [Zones -> Content] /\ served[c.zone] \in SUBSET RRs /\ c.rows[1][2] \in RRs
  BY <1>1, <1>2, <1>3, RowPair DEF IInv, TypeOK, Content
<1>5. Updated1(c, served[c.zone]) \in SUBSET RRs
  BY <1>4 DEF Updated1
<1>6. Updated1(c, served[c.zone]) \in Content /\ Updated1(c, served[c.zone]) # Absent
  BY <1>5, ZonesAssumption DEF Content, Absent
<1>q. QED  BY <1>1, <1>2, <1>4, <1>6

LEMMA UpdateRRInv == ASSUME IInv, UpdateRR PROVE IInv'
<1> DEFINE c == op.todo[1]
           D == op.did \cup {c.zone}
<1>0. Proceed({"add", "remove"}) /\ {"add", "remove"} \cap Statements = {}
  BY DEF UpdateRR, Statements
<1>1. /\ Busy /\ op.pc = "work" /\ op.todo # <<>> /\ Step = c /\ c.do \in {"add", "remove"}
      /\ c.do \notin Statements /\ c.zone \in Zones
      /\ op \in OpType /\ op.req \in Requests /\ op.todo \in Seq(Calling) /\ op.tx \in Db
      /\ Fits(op.req, op.todo, 1) /\ Proper(op.req, op.todo)
      /\ UNCHANGED <<db, runs, bounds, drift>>
  BY <1>0, Calling1
<1>2. UpdateDone /\ op' = [op EXCEPT !.todo = Tail(@), !.did = @ \cup {c.zone}]
  BY <1>1 DEF UpdateRR, Did
<1>3. op' = [op EXCEPT !.todo = Tail(@), !.did = D, !.unsure = op.unsure]
  BY <1>1, <1>2 DEF OpType
<1>4. /\ up /\ up' = up /\ file' = file /\ nzf' = nzf /\ served[c.zone] # Absent
      /\ served' \in [Zones -> Content]
      /\ served'[c.zone] = Updated1(c, served[c.zone]) /\ served'[c.zone] # Absent
      /\ \A z \in Zones : z # c.zone => served'[z] = served[z]
  BY <1>0, <1>2, UpdateStep
<1>5. file' \in [Zones -> Content] /\ nzf' \subseteq Zones /\ \A z \in Zones : served'[z] = served[z] \/ z \in D
  BY <1>4 DEF IInv, TypeOK
<1>6. op.req.kind \in {"rrs", "updateRR"} /\ op.req.kind \notin RndcKinds
  BY <1>1, KindsOf DEF Fits
<1>7. ASSUME op.run = "alone"
      PROVE  /\ c.zone \in op.tx.zones \cup drift
             /\ \A z \in Zones \ (drift \cup op.unsure) : ~Touches(Tail(op.todo), z) =>
                   Agrees(op.req, Tail(op.todo), op.tx, z, served'[z])
  <2>1. Agreeing
    BY <1>1, <1>7 DEF IInv, HandlerOK
  <2>2. c.zone \in op.tx.zones \cup drift
    BY <1>1, <1>4, <1>6, <1>7, Anchor
  <2>3. ASSUME NEW z \in Zones \ (drift \cup op.unsure), ~Touches(Tail(op.todo), z)
        PROVE  Agrees(op.req, Tail(op.todo), op.tx, z, served'[z])
    <3>1. ~Touches(op.todo, z)
      BY <1>1, <2>3, FollowsNow DEF Touches, RndcDos
    <3>2. Agrees(op.req, op.todo, op.tx, z, served[z])
      BY <1>4, <2>1, <2>3, <3>1 DEF Agreeing
    <3>3. CASE z # c.zone
      <4>1. Agrees(op.req, Tail(op.todo), op.tx, z, served[z])
        BY <1>1, <3>2, <3>3, AgreesStill
      <4>q. QED  BY <1>4, <3>3, <4>1
    <3>4. CASE z = c.zone
      <4>1. Agrees(op.req, Tail(op.todo), op.tx, c.zone, Updated1(c, served[c.zone]))
        BY <1>1, <1>4, <3>2, <3>4, AgreesAfterUpdate
      <4>q. QED  BY <1>4, <3>4, <4>1
    <3>q. QED  BY <3>3, <3>4
  <2>q. QED  BY <2>2, <2>3
<1>q. QED  BY <1>1, <1>3, <1>4, <1>5, <1>7, CallOnward

LEMMA UpdateRRRefusedInv == ASSUME IInv, UpdateRRRefused PROVE IInv'
<1> DEFINE c == op.todo[1]
           U == op.unsure \cup {c.zone}
<1>1. /\ Busy /\ op.pc = "work" /\ op.todo # <<>> /\ Step = c /\ c.do \in {"add", "remove"}
      /\ c.do \notin Statements /\ c.zone \in Zones
      /\ op \in OpType /\ op.req \in Requests /\ op.todo \in Seq(Calling) /\ op.tx \in Db
      /\ Fits(op.req, op.todo, 1) /\ Proper(op.req, op.todo)
      /\ UNCHANGED <<db, runs, bounds, drift>>
  <2>1. Proceed({"add", "remove"}) /\ {"add", "remove"} \cap Statements = {}
    BY DEF UpdateRRRefused, Statements
  <2>q. QED  BY <2>1, Calling1
<1>2. op' = [op EXCEPT !.todo = Tail(@), !.unsure = @ \cup {c.zone}] /\ UNCHANGED <<file, nzf, up, served>>
  BY <1>1 DEF UpdateRRRefused, named
<1>3. op' = [op EXCEPT !.todo = Tail(@), !.did = op.did, !.unsure = U]
  BY <1>1, <1>2 DEF OpType
<1>4. /\ file' \in [Zones -> Content] /\ served' \in [Zones -> Content] /\ nzf' \subseteq Zones
      /\ served' = served /\ up' = up
  BY <1>2 DEF IInv, TypeOK
<1>5. ASSUME op.run = "alone"
      PROVE  /\ op.req.kind # "deleteZone" /\ c.zone \in op.did => c.zone \in op.tx.zones \cup drift
             /\ up => \A z \in Zones \ (drift \cup U) : ~Touches(Tail(op.todo), z) =>
                        Agrees(op.req, Tail(op.todo), op.tx, z, served[z])
  <2>1. Placed /\ Agreeing
    BY <1>1, <1>5 DEF IInv, HandlerOK
  <2>2. ASSUME up, NEW z \in Zones \ (drift \cup U), ~Touches(Tail(op.todo), z)
        PROVE  Agrees(op.req, Tail(op.todo), op.tx, z, served[z])
    <3>1. ~Touches(op.todo, z)
      BY <1>1, <2>2, FollowsNow DEF Touches, RndcDos
    <3>2. Agrees(op.req, op.todo, op.tx, z, served[z])
      BY <2>1, <2>2, <3>1 DEF Agreeing
    <3>q. QED  BY <1>1, <2>2, <3>2, AgreesStill
  <2>q. QED  BY <1>1, <2>1, <2>2 DEF Placed
<1>6. op.unsure \subseteq U /\ U \subseteq op.unsure \cup {c.zone}
  OBVIOUS
<1>7. c.do # "dump" /\ c.do # "deleteZone" /\ c.do # "file"
  BY <1>1
<1> HIDE DEF U
<1>q. QED  BY <1>1, <1>3, <1>4, <1>5, <1>6, <1>7, CallOnward

LEMMA DumpInv == ASSUME IInv, Dump PROVE IInv'
<1> DEFINE c == op.todo[1]
<1>1. /\ Busy /\ op.pc = "work" /\ op.todo # <<>> /\ Step = c /\ c.do = "dump"
      /\ c.do \notin Statements /\ c.zone \in Zones
      /\ op \in OpType /\ op.req \in Requests /\ op.todo \in Seq(Calling) /\ op.tx \in Db
      /\ Fits(op.req, op.todo, 1) /\ Proper(op.req, op.todo)
      /\ UNCHANGED <<db, runs, bounds, drift>>
  <2>1. Proceed({"dump"}) /\ {"dump"} \cap Statements = {}
    BY DEF Dump, Statements
  <2>q. QED  BY <2>1, Calling1
<1>2. /\ up /\ served[c.zone] # Absent /\ file' = [file EXCEPT ![c.zone] = served[c.zone]]
      /\ op' = [op EXCEPT !.todo = Tail(@), !.did = @ \cup {}] /\ UNCHANGED <<nzf, up, served>>
  BY <1>1 DEF Dump, Did, named
<1>3. op' = [op EXCEPT !.todo = Tail(@), !.did = op.did, !.unsure = op.unsure]
  BY <1>1, <1>2 DEF OpType
<1>4. /\ file' \in [Zones -> Content] /\ served' \in [Zones -> Content] /\ nzf' \subseteq Zones
      /\ served' = served /\ up' = up
  BY <1>1, <1>2 DEF IInv, TypeOK
<1>5. op.req.kind \in {"rrs", "updateRR"} /\ op.req.kind \notin RndcKinds
  BY <1>1, KindsOf DEF Fits
<1>6. ASSUME op.run = "alone"
      PROVE  /\ c.zone \in op.tx.zones \cup drift
             /\ \A z \in Zones \ (drift \cup op.unsure) : ~Touches(Tail(op.todo), z) =>
                        Agrees(op.req, Tail(op.todo), op.tx, z, served[z])
  <2>1. Agreeing
    BY <1>1, <1>6 DEF IInv, HandlerOK
  <2>2. c.zone \in op.tx.zones \cup drift
    BY <1>1, <1>2, <1>5, <1>6, Anchor
  <2>3. ASSUME NEW z \in Zones \ (drift \cup op.unsure), ~Touches(Tail(op.todo), z)
        PROVE  Agrees(op.req, Tail(op.todo), op.tx, z, served[z])
    <3>1. ~Touches(op.todo, z)
      BY <1>1, <2>3, FollowsNow DEF Touches, RndcDos
    <3>2. Agrees(op.req, op.todo, op.tx, z, served[z])
      BY <1>2, <2>1, <2>3, <3>1 DEF Agreeing
    <3>3. c.do \notin Tells(op.req.kind) \cup IsTold(op.req.kind)
      BY <1>1 DEF Tells, IsTold
    <3>q. QED  BY <1>1, <3>2, <3>3, AgreesStill
  <2>q. QED  BY <2>2, <2>3
<1>q. QED  BY <1>1, <1>3, <1>4, <1>6, CallOnward

LEMMA NeverReturnsInv == ASSUME IInv, NeverReturns PROVE IInv'
<1> DEFINE c == op.todo[1]
           calls == {"addZone", "modifyZone", "deleteZone", "add", "remove", "dump"}
<1>0. Proceed(calls) /\ calls \cap Statements = {}
  BY DEF NeverReturns, Statements
<1>1. /\ Busy /\ op.pc = "work" /\ op.todo # <<>> /\ Step = c /\ c.do \in calls
      /\ c.do \notin Statements /\ c.zone \in Zones
      /\ op \in OpType /\ op.req \in Requests /\ op.todo \in Seq(Calling) /\ op.tx \in Db
      /\ Fits(op.req, op.todo, 1) /\ Proper(op.req, op.todo)
      /\ UNCHANGED <<db, runs, bounds, drift>>
  BY <1>0, Calling1
<1>2. /\ op' = [op EXCEPT !.pc = "blocked", !.did = @ \cup {c.zone}]
      /\ \/ c.do \in {"add", "remove"} /\ UpdateDone
         \/ RndcDone
         \/ UNCHANGED <<file, named>>
  BY <1>1 DEF NeverReturns
<1>3. /\ op'.pc = "blocked" /\ op'.req = op.req /\ op'.todo = op.todo /\ op'.tx = op.tx
      /\ op'.did = op.did \cup {c.zone} /\ op'.unsure = op.unsure /\ op'.run = op.run /\ op' \in OpType
  BY <1>1, <1>2 DEF OpType
<1>4. /\ up' = up /\ file' = file /\ nzf' \subseteq Zones /\ served' \in [Zones -> Content]
      /\ \A z \in Zones : z # c.zone => served'[z] = served[z]
  <2>1. CASE c.do \in {"add", "remove"} /\ UpdateDone
    <3>1. Proceed({"add", "remove"})
      BY <1>0, <1>1, <2>1 DEF Proceed
    <3>2. nzf \subseteq Zones
      BY DEF IInv, TypeOK
    <3>q. QED  BY <2>1, <3>1, <3>2, UpdateStep
  <2>2. CASE RndcDone
    <3>1. /\ file \in [Zones -> Content] /\ served \in [Zones -> Content] /\ nzf \subseteq Zones
          /\ Absent \in Content
      BY DEF IInv, TypeOK, Content
    <3>q. QED  BY <1>1, <2>2, <3>1 DEF RndcDone
  <2>3. CASE UNCHANGED <<file, named>>
    BY <2>3 DEF named, IInv, TypeOK
  <2>q. QED  BY <1>2, <2>1, <2>2, <2>3
<1>5. Busy'
  BY <1>3 DEF Busy
<1>6. TypeOK'
  BY <1>1, <1>3, <1>4 DEF IInv, TypeOK, bounds
<1>7. ServedAsCommitted'
  <2>1. \A z : Expected(db, z)' = Expected(db, z)
    BY <1>1 DEF Expected, RecordsOf
  <2>q. QED  BY <1>1, <1>3, <1>4, <1>5, <2>1 DEF IInv, ServedAsCommitted
<1>8. HandlerOK'
  <2>1. Untouched /\ (op.run = "together" => drift = Zones)
          /\ (op.run = "alone" => \A k \in Runners : runs[k].pc = "sleep")
    BY <1>1 DEF IInv, HandlerOK
  <2>2. c.zone \in About(op.req)
    BY <1>1 DEF Fits, InScope
  <2>3. \A z : RecordsOf(op.tx, z)' = RecordsOf(op.tx, z) /\ RecordsOf(db, z)' = RecordsOf(db, z)
    BY <1>1, <1>3 DEF RecordsOf
  <2>4. Untouched'
    BY <1>1, <1>3, <2>1, <2>2, <2>3 DEF Untouched
  <2>q. QED  BY <1>1, <1>3, <2>1, <2>4 DEF HandlerOK
<1>9. RunsOK'
  BY <1>1, <1>5 DEF IInv, RunsOK, AloneOK
<1>q. QED  BY <1>6, <1>7, <1>8, <1>9 DEF IInv

-----------------------------------------------------------------------------
(* The beginning and the end of a request.                                 *)

\* The runs go on beside what begins.
LEMMA JoinedRuns ==
    ASSUME IInv
    PROVE  /\ Joined \in [Runners -> RunType]
           /\ \A k \in Runners : /\ Joined[k].pc = runs[k].pc /\ Joined[k].by = runs[k].by
                                 /\ Joined[k].pc = "sleep" => Joined[k] = runs[k]
                                 /\ Joined[k].pc # "sleep" => Joined[k].run = "together"
<1>1. runs \in [Runners -> RunType]
  BY DEF IInv, TypeOK
<1>2. ASSUME NEW k \in Runners
      PROVE  /\ Joined[k] \in RunType /\ Joined[k].pc = runs[k].pc /\ Joined[k].by = runs[k].by
             /\ Joined[k].pc = "sleep" => Joined[k] = runs[k]
             /\ Joined[k].pc # "sleep" => Joined[k].run = "together"
  <2>1. runs[k] \in RunType
    BY <1>1
  <2>2. CASE runs[k].pc = "sleep"
    BY <2>1, <2>2 DEF Joined, Working
  <2>3. CASE runs[k].pc # "sleep"
    <3>1. Joined[k] = [runs[k] EXCEPT !.run = "together"]
      BY <2>3 DEF Joined, Working
    <3>q. QED  BY <2>1, <2>3, <3>1 DEF RunType
  <2>q. QED  BY <2>2, <2>3
<1>3. Joined = [k \in Runners |-> Joined[k]]
  BY DEF Joined
<1> HIDE DEF Joined
<1>q. QED  BY <1>2, <1>3

LEMMA ReceiveInv == ASSUME IInv, NEW r \in Requests, Receive(r) PROVE IInv'
<1>1. /\ ~Busy /\ Booted /\ ~Commanded /\ requests < MaxRequests /\ requests' = requests + 1
      /\ op' = [pc |-> "work", req |-> r, todo |-> Calls(r), tx |-> db,
                did |-> {}, unsure |-> {}, run |-> Together(Working # {})]
      /\ runs' = Joined
      /\ drift' = IF Working # {} THEN Zones ELSE drift
      /\ UNCHANGED <<db, file, nzf, up, served, crashes>>
  BY DEF Receive, Overlap, named
<1>2. /\ op'.pc = "work" /\ op'.req = r /\ op'.todo = Calls(r) /\ op'.tx = db /\ op'.did = {}
      /\ op'.unsure = {} /\ op'.run = Together(Working # {})
  BY <1>1
<1>3. Calls(r) \in Seq(Calling) /\ Started(r, Calls(r))
  BY CallsStarted
<1>4. db \in Db /\ runs \in [Runners -> RunType] /\ drift \subseteq Zones
  BY DEF IInv, TypeOK
<1>5. /\ Working = {} => drift' = drift /\ op'.run = "alone" /\ \A k \in Runners : runs'[k].pc = "sleep"
      /\ Working # {} => drift' = Zones /\ op'.run = "together"
      /\ runs' \in [Runners -> RunType] /\ \A k \in Runners : runs'[k].by = "keeper"
  <2>1. \A k \in Runners : runs[k].by = "keeper"
    BY <1>1, <1>4 DEF Booted, Commanded, RunType
  <2>2. Working = {} => \A k \in Runners : runs[k].pc = "sleep"
    BY DEF Working
  <2>q. QED  BY <1>1, <1>2, <2>1, <2>2, JoinedRuns DEF Together
<1>6. op' \in OpType
  <2>1. Calls(r) \in Seq([do : Statements \cup {"file", "addZone", "modifyZone", "deleteZone",
                                                "add", "remove", "dump"},
                          zone : Zones, rows : Seq(Rows)])
    BY <1>3 DEF Calling
  <2>2. Together(Working # {}) \in {"alone", "together"}
    BY DEF Together
  <2>q. QED  BY <1>1, <1>4, <2>1, <2>2 DEF OpType
<1>7. Busy'
  BY <1>2 DEF Busy
<1>8. TypeOK'
  <2>1. requests' \in 0 .. MaxRequests
    BY <1>1, ZonesAssumption DEF IInv, TypeOK
  <2>q. QED  BY <1>1, <1>4, <1>5, <1>6, <2>1 DEF IInv, TypeOK
<1>9. ServedAsCommitted'
  <2>1. \A z : Expected(db, z)' = Expected(db, z)
    BY <1>1 DEF Expected, RecordsOf
  <2>q. QED  BY <1>1, <1>2, <1>5, <2>1 DEF IInv, ServedAsCommitted
<1>10. Proper(r, Calls(r)) /\ Begins(r, Calls(r))
  BY <1>3 DEF Started
<1>11. Untouched'
  <2>1. \A z : RecordsOf(op.tx, z)' = RecordsOf(db, z) /\ RecordsOf(db, z)' = RecordsOf(db, z)
    BY <1>1, <1>2 DEF RecordsOf
  <2>q. QED  BY <1>1, <1>2, <2>1 DEF Untouched
<1>12. ASSUME Working = {}
       PROVE  (SameZones /\ Placed /\ Written /\ Agreeing /\ Housed
                 /\ Grounded(op.tx, op.todo, drift) /\ Ungrounded(op.req, op.tx, op.todo))'
  <2>1. SameZones' /\ Placed' /\ Housed'
    BY <1>1, <1>2 DEF SameZones, Placed, Housed
  <2>2. Written'
    BY <1>2, <1>10 DEF Written, Begins
  <2>3. Grounded(db, Calls(r), drift) /\ Ungrounded(r, db, Calls(r))
    BY <1>3, <1>4 DEF Started
  <2>4. \A z, s, R : Due(r, Calls(r), z, s) = s /\ Taken(Calls(r), z, R) = R
    <3>1. Calls(r) # <<>> => InScope(r, Calls(r), 1) /\ Calls(r)[1].do \notin IsTold(r.kind)
      <4>1. Calls(r) # <<>> => InScope(r, Calls(r), 1)
        BY <1>3, <1>10, NextCall DEF Fits
      <4>2. Calls(r) # <<>> => Calls(r)[1].do \notin IsTold(r.kind)
        BY <1>10 DEF Begins, IsTold
      <4>q. QED  BY <4>1, <4>2
    <3>q. QED  BY <3>1, Quiet
  <2>5. Agreeing'
    <3>1. ASSUME up, NEW z \in Zones \ drift PROVE Agrees(r, Calls(r), db, z, served[z])
      <4>1. served[z] = Expected(db, z)
        BY <1>1, <3>1 DEF IInv, ServedAsCommitted
      <4>q. QED  BY <1>4, <2>4, <4>1, SetsOfRecords DEF Agrees, Expected
    <3>q. QED  BY <1>1, <1>2, <1>5, <1>12, <3>1 DEF Agreeing
  <2>q. QED  BY <1>1, <1>2, <1>5, <1>12, <2>1, <2>2, <2>3, <2>5
<1>13. HandlerOK'
  BY <1>2, <1>5, <1>10, <1>11, <1>12 DEF HandlerOK
<1>14. RunsOK'
  <2>1. \A k \in Runners : runs'[k].pc # "sleep" => drift' = Zones
    BY <1>1, <1>5, JoinedRuns DEF Working
  <2>2. \A k \in Runners : runs'[k].pc # "sleep" => runs'[k].run # "alone"
    BY <1>1, JoinedRuns
  <2>q. QED  BY <1>5, <2>1, <2>2 DEF RunsOK
<1>q. QED  BY <1>8, <1>9, <1>13, <1>14 DEF IInv

\* Without a handler nothing is asked of one.
LEMMA AtRest == ASSUME ~Busy' PROVE HandlerOK'
  BY DEF HandlerOK

LEMMA IdleNow == ASSUME op' = Idle PROVE ~Busy'
  BY DEF Busy, Idle

\* When a request ends no run is under way, or drift is everything.
LEMMA RunsAfter ==
    ASSUME IInv, Busy, runs' = runs, drift \subseteq drift', drift' \subseteq Zones, op' = Idle
    PROVE  RunsOK'
<1>1. \A k \in Runners : runs[k].pc # "sleep" /\ runs[k].run = "together" => drift' = Zones
  BY DEF IInv, RunsOK
<1>2. \A k \in Runners : /\ runs[k].pc # "sleep" => runs[k].run # "alone"
                         /\ runs[k].by = "keeper"
  BY DEF IInv, RunsOK, AloneOK
<1>q. QED  BY <1>1, <1>2 DEF RunsOK

\* What a request that has made all its calls leaves served.
LEMMA AgreeAtEnd ==
    ASSUME IInv, Busy, op.todo = <<>>, op.run = "alone", up, NEW z \in Zones \ (drift \cup op.unsure)
    PROVE  served[z] = Expected(op.tx, z)
<1>1. op.pc = "work"
  BY Under DEF IInv, HandlerOK
<1>2. Agreeing
  BY <1>1 DEF IInv, HandlerOK
<1>3. ~Touches(<<>>, z)
  BY DEF Touches, Follows
<1>4. Agrees(op.req, <<>>, op.tx, z, served[z])
  BY <1>2, <1>3 DEF Agreeing
<1>5. Due(op.req, <<>>, z, served[z]) = served[z] /\ Taken(<<>>, z, RecordsOf(op.tx, z)) = RecordsOf(op.tx, z)
  BY DEF Due, Taken
<1>q. QED  BY <1>4, <1>5 DEF Agrees, Expected

LEMMA CommitInv == ASSUME IInv, Commit PROVE IInv'
<1>1. /\ Busy /\ op.todo = <<>> /\ db' = op.tx /\ drift' = drift \cup op.unsure /\ op' = Idle
      /\ UNCHANGED <<file, nzf, up, served, runs, bounds>>
  BY DEF Commit, named
<1>2. op.tx \in Db /\ op.unsure \subseteq Zones /\ op.run \in {"alone", "together"}
  BY <1>1, Under DEF IInv
<1>3. drift \subseteq drift' /\ drift' \subseteq Zones
  BY <1>1, <1>2 DEF IInv, TypeOK
<1>4. TypeOK'
  BY <1>1, <1>2, <1>3 DEF IInv, TypeOK, bounds
<1>5. ~Busy'
  BY <1>1, IdleNow
<1>6. ServedAsCommitted'
  <2>1. ASSUME up, NEW z \in Zones \ drift' PROVE served[z] = Expected(op.tx, z)
    <3>1. op.run = "alone"
      BY <1>1, <1>2, <1>3, <2>1 DEF IInv, HandlerOK
    <3>q. QED  BY <1>1, <2>1, <3>1, AgreeAtEnd
  <2>2. \A z : Expected(db, z)' = Expected(op.tx, z)
    BY <1>1 DEF Expected, RecordsOf
  <2>q. QED  BY <1>1, <1>5, <2>1, <2>2 DEF ServedAsCommitted
<1>q. QED  BY <1>1, <1>3, <1>4, <1>5, <1>6, AtRest, RunsAfter DEF IInv

\* A request that ends without a commit changes no table.
LEMMA EndsInv ==
    ASSUME IInv, Busy, op' = Idle, db' = db, up' = up, UNCHANGED bounds, runs' = runs,
           drift \subseteq drift', op.did \subseteq drift', drift' \subseteq Zones,
           file' \in [Zones -> Content], served' \in [Zones -> Content], nzf' \subseteq Zones,
           up => \A z \in Zones \ drift' : served'[z] = served[z]
    PROVE  IInv'
<1>1. TypeOK'
  BY DEF IInv, TypeOK, bounds
<1>2. ~Busy'
  BY IdleNow
<1>3. ServedAsCommitted'
  <2>1. \A z : Expected(db, z)' = Expected(db, z)
    BY DEF Expected, RecordsOf
  <2>q. QED  BY <1>2, <2>1 DEF IInv, ServedAsCommitted
<1>q. QED  BY <1>1, <1>2, <1>3, AtRest, RunsAfter DEF IInv

LEMMA FailsInv == ASSUME IInv, Fails PROVE IInv'
<1>1. Busy /\ op' = Idle /\ UNCHANGED <<db, runs, bounds>>
  BY DEF Fails
<1>2. op.did \subseteq Zones /\ op.todo \in Seq(Calling) /\ drift \subseteq Zones
      /\ file \in [Zones -> Content] /\ served \in [Zones -> Content] /\ nzf \subseteq Zones
  BY <1>1, Under DEF IInv, TypeOK
<1>3. op.todo # <<>> => Step.zone \in Zones
  <2>1. op.todo # <<>> => Step \in Calling
    BY <1>2, TailFacts DEF Step
  <2>q. QED  BY <2>1 DEF Calling
<1>4. Absent \in Content
  BY DEF Content
<1>5. CASE UNCHANGED <<file, named>> /\ drift' = drift \cup op.did
  BY <1>1, <1>2, <1>5, EndsInv DEF named
<1>6. CASE /\ op.todo # <<>> /\ file' = [file EXCEPT ![Step.zone] = Absent]
           /\ drift' = drift \cup op.did /\ UNCHANGED named
  BY <1>1, <1>2, <1>3, <1>4, <1>6, EndsInv DEF named
<1>7. CASE op.todo # <<>> /\ RndcDone /\ drift' = drift \cup op.did \cup {Step.zone}
  <2>1. /\ up' = up /\ file' = file /\ served' \in [Zones -> Content] /\ nzf' \subseteq Zones
        /\ \A z \in Zones : z # Step.zone => served'[z] = served[z]
    BY <1>2, <1>3, <1>4, <1>7 DEF RndcDone
  <2>q. QED  BY <1>1, <1>2, <1>3, <1>7, <2>1, EndsInv
<1>q. QED  BY <1>5, <1>6, <1>7 DEF Fails

\* The boot begins with every other run asleep.
LEMMA BootingRuns ==
    ASSUME NEW k \in Runners
    PROVE  /\ Booting(k) \in [Runners -> RunType]
           /\ Booting(k)[k].pc = "list" /\ Booting(k)[k].by = "boot" /\ Booting(k)[k].run = "alone"
           /\ \A j \in Runners \ {k} : Booting(k)[j].pc = "sleep" /\ Booting(k)[j].by = "keeper"
<1>1. Asleep \in RunType /\ Asleep.pc = "sleep" /\ Asleep.by = "keeper"
  BY DEF Asleep, RunType
<1> DEFINE new == [Asleep EXCEPT !.pc = "list", !.by = "boot"]
<1>2. new \in RunType /\ new.pc = "list" /\ new.by = "boot" /\ new.run = "alone"
  BY DEF Asleep, RunType
<1>3. Booting(k) = [j \in Runners |-> IF j = k THEN new ELSE Asleep]
  BY DEF Booting
<1> HIDE DEF new
<1>q. QED  BY <1>1, <1>2, <1>3

LEMMA AgentRestartsInv == ASSUME IInv, AgentRestarts PROVE IInv'
<1>1. /\ crashes < MaxCrashes /\ crashes' = crashes + 1 /\ op' = Idle
      /\ \E k \in Runners : runs' = Booting(k)
      /\ drift' = IF Busy THEN drift \cup op.did ELSE drift
      /\ UNCHANGED <<db, file, nzf, up, served, requests>>
  BY DEF AgentRestarts, named
<1>2. PICK k \in Runners : runs' = Booting(k)
  BY <1>1
<1>3. drift' \subseteq Zones
  BY <1>1, Under DEF IInv, TypeOK
<1>4. TypeOK'
  BY <1>1, <1>2, <1>3, BootingRuns, ZonesAssumption DEF IInv, TypeOK
<1>5. ~Busy'
  BY <1>1, IdleNow
<1>6. ServedAsCommitted'
  <2>1. \A z : Expected(db, z)' = Expected(db, z)
    BY <1>1 DEF Expected, RecordsOf
  <2>q. QED  BY <1>1, <1>5, <2>1 DEF IInv, ServedAsCommitted
<1>7. RunsOK'
  BY <1>2, <1>5, BootingRuns DEF RunsOK, AloneOK
<1>q. QED  BY <1>4, <1>5, <1>6, <1>7, AtRest DEF IInv

-----------------------------------------------------------------------------
(* reconfigOrStartDNS and named.                                           *)

\* Steps of a run and of named leave the request as it is: it works together
\* with the run, or named is down.
LEMMA HandlerLeftAlone ==
    ASSUME IInv, db' = db, op' = op, drift' = drift,
           (\E k \in Runners : runs[k].pc # "sleep") \/ (runs' = runs /\ file' = file /\ ~up')
    PROVE  HandlerOK'
<1> SUFFICES ASSUME Busy PROVE HandlerOK'
  BY DEF HandlerOK, Busy
<1>1. /\ Proper(op.req, op.todo) /\ Untouched
      /\ op.pc = "blocked" => op.todo # <<>> /\ op.todo[1].do \notin Statements
      /\ op.run = "together" => drift = Zones
      /\ op.run = "alone" => \A k \in Runners : runs[k].pc = "sleep"
  BY DEF IInv, HandlerOK
<1>2. \A z : RecordsOf(op.tx, z)' = RecordsOf(op.tx, z) /\ RecordsOf(db, z)' = RecordsOf(db, z)
  BY DEF RecordsOf
<1>3. Untouched'
  BY <1>1, <1>2 DEF Untouched
<1>4. op.run = "alone" => runs' = runs /\ file' = file /\ ~up'
  BY <1>1
<1>5. CASE op.run = "alone" /\ op.pc = "work"
  <2>1. /\ SameZones /\ Placed /\ Written /\ Housed
        /\ Grounded(op.tx, op.todo, drift) /\ Ungrounded(op.req, op.tx, op.todo)
    BY <1>5 DEF IInv, HandlerOK
  <2>2. SameZones' /\ Placed' /\ Written' /\ Housed'
    BY <1>2, <1>4, <1>5, <2>1 DEF SameZones, Placed, Written, Housed
  <2>3. Agreeing'
    BY <1>4, <1>5 DEF Agreeing
  <2>q. QED  BY <1>1, <1>3, <1>4, <1>5, <2>1, <2>2, <2>3 DEF HandlerOK
<1>6. CASE ~(op.run = "alone" /\ op.pc = "work")
  BY <1>1, <1>3, <1>4, <1>6 DEF HandlerOK
<1>q. QED  BY <1>5, <1>6

\* Beside a run that is not asleep, none is alone.
LEMMA NoneAlone ==
    ASSUME IInv, NEW k \in Runners, runs[k].pc # "sleep"
    PROVE  \A j \in Runners \ {k} : runs[j].pc = "sleep" \/ runs[j].run # "alone"
  BY DEF IInv, RunsOK, AloneOK

\* A run begins, alone or together with all that is under way.
LEMMA BeginInv ==
    ASSUME IInv, NEW k \in Runners, NEW by \in {"keeper", "command"}, Begin(k, by),
           by = "keeper" => ~up, by = "command" => ~Busy,
           requests' \in 0 .. MaxRequests, crashes' = crashes
    PROVE  IInv'
<1> DEFINE beside == Busy \/ Working # {}
           new == [Asleep EXCEPT !.pc = "list", !.by = by, !.run = Together(beside)]
<1>1. /\ Booted /\ runs[k].pc = "sleep"
      /\ runs' = [Joined EXCEPT ![k] = new]
      /\ op' = IF Busy THEN [op EXCEPT !.run = "together"] ELSE op
      /\ drift' = IF beside THEN Zones ELSE drift
      /\ UNCHANGED <<db, file, nzf, up, served>>
  BY DEF Begin, Overlap, named
<1>2. /\ new \in RunType /\ new.pc = "list" /\ new.by = by
      /\ new.run = IF beside THEN "together" ELSE "alone"
  BY DEF Asleep, Together, RunType
<1> HIDE DEF new, beside
<1>3. /\ runs' \in [Runners -> RunType] /\ runs'[k] = new
      /\ \A j \in Runners \ {k} : /\ runs'[j].pc = runs[j].pc /\ runs'[j].by = runs[j].by
                                  /\ runs'[j].pc # "sleep" => runs'[j].run = "together"
                                  /\ runs[j].by # "boot"
  <2>1. Joined \in [Runners -> RunType]
    BY JoinedRuns
  <2>2. /\ runs' \in [Runners -> RunType] /\ runs'[k] = new
        /\ \A j \in Runners \ {k} : runs'[j] = Joined[j]
    BY <1>1, <1>2, <2>1
  <2>q. QED  BY <1>1, <2>2, JoinedRuns DEF Booted
<1>4. CASE beside
  <2>1. drift' = Zones
    BY <1>1, <1>4
  <2>2. TypeOK' /\ HandlerOK'
    <3>1. CASE Busy
      <4>1. op \in OpType
        BY <3>1, Under DEF IInv
      <4>2. /\ op'.pc = op.pc /\ op'.req = op.req /\ op'.todo = op.todo /\ op'.tx = op.tx
            /\ op'.did = op.did /\ op'.unsure = op.unsure /\ op'.run = "together" /\ op' \in OpType
        BY <1>1, <3>1, <4>1 DEF OpType
      <4>3. \A z : RecordsOf(op.tx, z)' = RecordsOf(op.tx, z) /\ RecordsOf(db, z)' = RecordsOf(db, z)
        BY <1>1, <4>2 DEF RecordsOf
      <4>4. /\ Proper(op.req, op.todo) /\ Untouched
            /\ op.pc = "blocked" => op.todo # <<>> /\ op.todo[1].do \notin Statements
        BY <3>1 DEF IInv, HandlerOK
      <4>5. Untouched'
        BY <1>1, <4>2, <4>3, <4>4 DEF Untouched
      <4>6. HandlerOK'
        BY <2>1, <4>2, <4>4, <4>5 DEF HandlerOK
      <4>q. QED  BY <1>1, <1>3, <2>1, <4>2, <4>6 DEF IInv, TypeOK
    <3>2. CASE ~Busy
      <4>1. op' = op /\ ~Busy'
        BY <1>1, <3>2 DEF Busy
      <4>q. QED  BY <1>1, <1>3, <2>1, <4>1, AtRest DEF IInv, TypeOK
    <3>q. QED  BY <3>1, <3>2
  <2>3. ServedAsCommitted'
    BY <2>1 DEF ServedAsCommitted
  <2>4. Busy' = Busy
    <3>1. Busy => op'.pc = op.pc
      BY <1>1, Under DEF IInv, OpType
    <3>q. QED  BY <1>1, <3>1 DEF Busy
  <2>5. RunsOK'
    <3>1. runs'[k].pc = "list" /\ runs'[k].by = by /\ runs'[k].run = "together"
      BY <1>2, <1>3, <1>4
    <3>2. \A j \in Runners \ {k} : runs'[j].by # "keeper" => ~Busy
      BY <1>3 DEF IInv, RunsOK
    <3>q. QED  BY <1>3, <2>1, <2>4, <3>1, <3>2 DEF RunsOK
  <2>q. QED  BY <2>2, <2>3, <2>5 DEF IInv
<1>5. CASE ~beside
  <2>1. op' = op /\ drift' = drift /\ ~Busy /\ ~Busy'
    BY <1>1, <1>5 DEF Busy, beside
  <2>2. \A j \in Runners \ {k} : runs'[j].pc = "sleep"
    BY <1>3, <1>5 DEF beside, Working
  <2>3. TypeOK'
    BY <1>1, <1>3, <2>1 DEF IInv, TypeOK
  <2>4. ServedAsCommitted'
    BY <1>1, <2>1 DEF IInv, ServedAsCommitted, Expected, RecordsOf
  <2>5. AloneOK(k)'
    BY <1>1, <1>2, <1>3, <2>1, <2>2 DEF AloneOK
  <2>6. RunsOK'
    BY <1>2, <1>3, <1>5, <2>1, <2>2, <2>5 DEF RunsOK
  <2>q. QED  BY <2>1, <2>3, <2>4, <2>6, AtRest DEF IInv
<1>q. QED  BY <1>4, <1>5

LEMMA KeeperWakesInv == ASSUME IInv, NEW k \in Runners, KeeperWakes(k) PROVE IInv'
<1>1. ~up /\ Begin(k, "keeper") /\ requests' = requests /\ crashes' = crashes
  BY DEF KeeperWakes, bounds
<1>2. requests' \in 0 .. MaxRequests
  BY <1>1 DEF IInv, TypeOK
<1>q. QED  BY <1>1, <1>2, BeginInv

LEMMA StartCommandedInv == ASSUME IInv, NEW k \in Runners, StartCommanded(k) PROVE IInv'
<1>1. ~Busy /\ Begin(k, "command") /\ requests < MaxRequests /\ requests' = requests + 1 /\ crashes' = crashes
  BY DEF StartCommanded
<1>2. requests' \in 0 .. MaxRequests
  BY <1>1, ZonesAssumption DEF IInv, TypeOK
<1>q. QED  BY <1>1, <1>2, BeginInv

\* What the steps of a run leave alone.
LEMMA RunStep ==
    ASSUME IInv, NEW k \in Runners, runs[k].pc # "sleep",
           UNCHANGED <<db, op, up, served, bounds, drift>>,
           NEW r \in RunType, runs' = [runs EXCEPT ![k] = r],
           r.pc # "sleep", r.by = runs[k].by, r.run = runs[k].run,
           file' \in [Zones -> Content], nzf' \subseteq Zones,
           r.run = "alone" => AloneOK(k)'
    PROVE  IInv'
<1>1. /\ runs' \in [Runners -> RunType] /\ runs'[k] = r
      /\ \A j \in Runners \ {k} : runs'[j] = runs[j]
  BY DEF IInv, TypeOK
<1>2. TypeOK'
  BY <1>1 DEF IInv, TypeOK, bounds
<1>3. ServedAsCommitted'
  <2>1. \A z : Expected(db, z)' = Expected(db, z)
    BY DEF Expected, RecordsOf
  <2>q. QED  BY <2>1 DEF IInv, ServedAsCommitted, Busy
<1>4. RunsOK'
  <2>1. Busy' = Busy
    BY DEF Busy
  <2>q. QED  BY <1>1, <2>1, NoneAlone DEF IInv, RunsOK
<1>q. QED  BY <1>2, <1>3, <1>4, HandlerLeftAlone DEF IInv

LEMMA ListZonesInv == ASSUME IInv, NEW k \in Runners, ListZones(k) PROVE IInv'
<1> DEFINE r == [runs[k] EXCEPT !.pc = "rows", !.zones = db.zones]
<1>1. /\ runs[k].pc = "list" /\ UNCHANGED <<db, op, bounds, nzf, up, served, drift>>
      /\ file' = [z \in Zones |-> Absent] /\ runs' = [runs EXCEPT ![k] = r]
  BY DEF ListZones, RunAt, named
<1>2. runs \in [Runners -> RunType] /\ db.zones \subseteq Zones /\ nzf \subseteq Zones
  BY DEF IInv, TypeOK, Db
<1>3. r \in RunType /\ r.pc = "rows" /\ r.zones = db.zones /\ r.by = runs[k].by /\ r.run = runs[k].run
  BY <1>2 DEF RunType
<1> HIDE DEF r
<1>4. file' \in [Zones -> Content]
  BY <1>1 DEF Content
<1>5. r.run = "alone" => AloneOK(k)'
  BY <1>1, <1>2, <1>3 DEF IInv, RunsOK, AloneOK, Busy
<1>q. QED  BY <1>1, <1>2, <1>3, <1>4, <1>5, RunStep

LEMMA ListRowsInv == ASSUME IInv, NEW k \in Runners, ListRows(k) PROVE IInv'
<1> DEFINE r == [runs[k] EXCEPT !.pc = "files", !.rows = db.rows]
<1>1. /\ runs[k].pc = "rows" /\ UNCHANGED <<db, op, bounds, file, nzf, up, served, drift>>
      /\ runs' = [runs EXCEPT ![k] = r]
  BY DEF ListRows, RunAt, named
<1>2. /\ runs \in [Runners -> RunType] /\ db.rows \subseteq Rows /\ nzf \subseteq Zones
      /\ file \in [Zones -> Content]
  BY DEF IInv, TypeOK, Db
<1>3. /\ r \in RunType /\ r.pc = "files" /\ r.zones = runs[k].zones /\ r.rows = db.rows
      /\ r.by = runs[k].by /\ r.run = runs[k].run
  BY <1>2 DEF RunType
<1> HIDE DEF r
<1>4. r.run = "alone" => AloneOK(k)'
  BY <1>1, <1>2, <1>3 DEF IInv, RunsOK, AloneOK, Busy
<1>q. QED  BY <1>1, <1>2, <1>3, <1>4, RunStep

LEMMA WriteFilesInv == ASSUME IInv, NEW k \in Runners, WriteFiles(k) PROVE IInv'
<1> DEFINE r == [runs[k] EXCEPT !.pc = "nzf", !.zones = {}, !.rows = {}]
           read == [zones |-> runs[k].zones, rows |-> runs[k].rows]
<1>1. /\ runs[k].pc = "files" /\ UNCHANGED <<db, op, bounds, nzf, up, served, drift>>
      /\ file' = [z \in Zones |-> IF z \in runs[k].zones THEN RecordsOf(read, z) ELSE file[z]]
      /\ runs' = [runs EXCEPT ![k] = r]
  BY DEF WriteFiles, RunAt, named
<1>2. runs \in [Runners -> RunType] /\ runs[k] \in RunType /\ nzf \subseteq Zones /\ file \in [Zones -> Content]
  BY DEF IInv, TypeOK
<1>3. r \in RunType /\ r.pc = "nzf" /\ r.by = runs[k].by /\ r.run = runs[k].run
  BY <1>2 DEF RunType
<1>4. read \in Db
  BY <1>2 DEF RunType, Db
<1>5. \A z \in Zones : RecordsOf(read, z) \in Content
  BY <1>4, ContentOf
<1> HIDE DEF r, read
<1>6. file' \in [Zones -> Content]
  BY <1>1, <1>2, <1>5
<1>7. r.run = "alone" => AloneOK(k)'
  <2>1. ASSUME runs[k].run = "alone" PROVE file' = [z \in Zones |-> Expected(db, z)]
    <3>1. runs[k].zones = db.zones /\ runs[k].rows = db.rows /\ file = [z \in Zones |-> Absent]
      BY <1>1, <2>1 DEF IInv, RunsOK, AloneOK
    <3>2. \A z : RecordsOf(read, z) = RecordsOf(db, z)
      BY <3>1 DEF RecordsOf, read
    <3>q. QED  BY <1>1, <3>1, <3>2 DEF Expected
  <2>2. \A z : Expected(db, z)' = Expected(db, z)
    BY <1>1 DEF Expected, RecordsOf
  <2>q. QED  BY <1>1, <1>2, <1>3, <2>1, <2>2 DEF IInv, RunsOK, AloneOK, Busy
<1>q. QED  BY <1>1, <1>2, <1>3, <1>6, <1>7, RunStep

LEMMA WriteNzfsInv == ASSUME IInv, NEW k \in Runners, WriteNzfs(k) PROVE IInv'
<1> DEFINE r == [runs[k] EXCEPT !.pc = IF runs[k].by = "keeper" THEN "start" ELSE "state"]
<1>1. /\ runs[k].pc = "nzf" /\ UNCHANGED <<db, op, bounds, file, up, served, drift>>
      /\ nzf' = db.zones /\ runs' = [runs EXCEPT ![k] = r]
  BY DEF WriteNzfs, RunAt
<1>2. runs \in [Runners -> RunType] /\ db.zones \subseteq Zones /\ file \in [Zones -> Content]
  BY DEF IInv, TypeOK, Db
<1>3. /\ r \in RunType /\ r.pc \in {"state", "start"} /\ (r.pc = "start" => r.by = "keeper")
      /\ r.by = runs[k].by /\ r.run = runs[k].run
  BY <1>2 DEF RunType
<1> HIDE DEF r
<1>4. \A z : Expected(db, z)' = Expected(db, z)
  BY <1>1 DEF Expected, RecordsOf
<1>5. r.run = "alone" => AloneOK(k)'
  BY <1>1, <1>2, <1>3, <1>4 DEF IInv, RunsOK, AloneOK, Busy
<1>q. QED  BY <1>1, <1>2, <1>3, <1>5, RunStep

LEMMA GetDNSStateInv == ASSUME IInv, NEW k \in Runners, GetDNSState(k) PROVE IInv'
<1> DEFINE r == [runs[k] EXCEPT !.pc = IF up THEN "reload" ELSE "start"]
<1>1. /\ runs[k].pc = "state" /\ UNCHANGED <<db, op, bounds, file, nzf, up, served, drift>>
      /\ runs' = [runs EXCEPT ![k] = r]
  BY DEF GetDNSState, RunAt, named
<1>2. runs \in [Runners -> RunType] /\ file \in [Zones -> Content] /\ nzf \subseteq Zones
  BY DEF IInv, TypeOK
<1>3. /\ r \in RunType /\ r.pc \in {"reload", "start"} /\ (r.pc = "start" => ~up)
      /\ r.by = runs[k].by /\ r.run = runs[k].run
  BY <1>2 DEF RunType
<1> HIDE DEF r
<1>4. \A z : Expected(db, z)' = Expected(db, z)
  BY <1>1 DEF Expected, RecordsOf
<1>5. r.run = "alone" => AloneOK(k)'
  BY <1>1, <1>2, <1>3, <1>4 DEF IInv, RunsOK, AloneOK, Busy
<1>q. QED  BY <1>1, <1>2, <1>3, <1>5, RunStep

\* A run that was alone leaves named with what the tables hold.
LEMMA FinishInv ==
    ASSUME IInv, NEW k \in Runners, runs[k].pc \in {"start", "reload"}, Finish(k),
           UNCHANGED <<db, op, bounds, file, nzf>>, up', served' \in [Zones -> Content],
           up' \in BOOLEAN, runs[k].run = "alone" => served' = Loaded
    PROVE  IInv'
<1>1. /\ runs' = [runs EXCEPT ![k] = Asleep]
      /\ drift' = IF runs[k].run = "alone" THEN {} ELSE drift
  BY DEF Finish
<1>2. /\ runs' \in [Runners -> RunType] /\ runs'[k].pc = "sleep" /\ runs'[k].by = "keeper"
      /\ \A j \in Runners \ {k} : runs'[j] = runs[j]
  <2>1. Asleep \in RunType /\ Asleep.pc = "sleep" /\ Asleep.by = "keeper"
    BY DEF Asleep, RunType
  <2>2. runs \in [Runners -> RunType]
    BY DEF IInv, TypeOK
  <2>q. QED  BY <1>1, <2>1, <2>2
<1>3. runs[k].run \in {"alone", "together"}
  BY DEF IInv, TypeOK, RunType
<1>4. TypeOK'
  BY <1>1, <1>2 DEF IInv, TypeOK, bounds
<1>5. Busy' = Busy
  BY DEF Busy
<1>6. CASE runs[k].run = "alone"
  <2>1. /\ ~Busy /\ file = [z \in Zones |-> Expected(db, z)] /\ nzf = db.zones
        /\ \A j \in Runners \ {k} : runs[j].pc = "sleep"
    BY <1>6 DEF IInv, RunsOK, AloneOK
  <2>2. \A z \in Zones : served'[z] = Expected(db, z)
    BY <1>6, <2>1 DEF Loaded, Expected
  <2>3. \A z : Expected(db, z)' = Expected(db, z)
    BY DEF Expected, RecordsOf
  <2>4. ServedAsCommitted'
    BY <2>2, <2>3 DEF ServedAsCommitted
  <2>5. RunsOK'
    BY <1>2, <1>5, <2>1 DEF IInv, RunsOK
  <2>q. QED  BY <1>4, <1>5, <2>1, <2>4, <2>5, AtRest DEF IInv
<1>7. CASE runs[k].run = "together"
  <2>1. drift = Zones /\ drift' = drift
    BY <1>1, <1>7 DEF IInv, RunsOK
  <2>2. ServedAsCommitted'
    BY <2>1 DEF ServedAsCommitted
  <2>3. HandlerOK'
    BY <2>1, HandlerLeftAlone
  <2>4. RunsOK'
    BY <1>2, <1>5, <2>1, NoneAlone DEF IInv, RunsOK
  <2>q. QED  BY <1>4, <2>2, <2>3, <2>4 DEF IInv
<1>q. QED  BY <1>3, <1>6, <1>7

LEMMA StartInv == ASSUME IInv, NEW k \in Runners, Start(k) PROVE IInv'
<1>1. /\ runs[k].pc = "start" /\ UNCHANGED <<db, op, bounds, file, nzf>>
      /\ up' = TRUE /\ (served' = Loaded \/ (up /\ served' = served)) /\ Finish(k)
  BY DEF Start, RunAt
<1>2. /\ file \in [Zones -> Content] /\ served \in [Zones -> Content] /\ Absent \in Content
  BY DEF IInv, TypeOK, Content
<1>3. served' \in [Zones -> Content]
  BY <1>1, <1>2 DEF Loaded
<1>4. runs[k].run = "alone" => served' = Loaded
  BY <1>1 DEF IInv, RunsOK, AloneOK
<1>q. QED  BY <1>1, <1>3, <1>4, FinishInv

LEMMA ReloadInv == ASSUME IInv, NEW k \in Runners, Reload(k) PROVE IInv'
<1>1. /\ runs[k].pc = "reload" /\ UNCHANGED <<db, op, bounds, file, nzf>>
      /\ up /\ up' = up /\ served' = Loaded /\ Finish(k)
  BY DEF Reload, RunAt
<1>2. file \in [Zones -> Content] /\ up \in BOOLEAN /\ Absent \in Content
  BY DEF IInv, TypeOK, Content
<1>3. served' \in [Zones -> Content]
  BY <1>1, <1>2 DEF Loaded
<1>q. QED  BY <1>1, <1>2, <1>3, FinishInv

LEMMA RunFailsInv == ASSUME IInv, NEW k \in Runners, RunFails(k) PROVE IInv'
<1> DEFINE r == IF runs[k].by = "boot" /\ runs[k].pc \notin {"start", "reload"} THEN Exited ELSE Asleep
<1>1. /\ runs[k].pc \notin {"sleep", "exited"} /\ UNCHANGED <<db, file, nzf, up, served, op, bounds, drift>>
      /\ runs' = [runs EXCEPT ![k] = r]
  BY DEF RunFails, named
<1>2. /\ r \in RunType /\ r.run = "alone"
      /\ \/ r.pc = "sleep" /\ r.by = "keeper"
         \/ r.pc = "exited" /\ r.by = "boot" /\ runs[k].by = "boot"
  BY DEF Exited, Asleep, RunType
<1> HIDE DEF r
<1>3. /\ runs' \in [Runners -> RunType] /\ runs'[k] = r
      /\ \A j \in Runners \ {k} : runs'[j] = runs[j]
  BY <1>1, <1>2 DEF IInv, TypeOK
<1>4. TypeOK'
  BY <1>1, <1>3 DEF IInv, TypeOK, bounds
<1>5. ServedAsCommitted'
  BY <1>1 DEF IInv, ServedAsCommitted, Busy, Expected, RecordsOf
<1>6. HandlerOK'
  BY <1>1, HandlerLeftAlone
<1>7. RunsOK'
  <2>1. Busy' = Busy
    BY <1>1 DEF Busy
  <2>2. CASE r.pc = "sleep" /\ r.by = "keeper"
    BY <1>1, <1>3, <2>1, <2>2, NoneAlone DEF IInv, RunsOK
  <2>3. CASE r.pc = "exited" /\ r.by = "boot" /\ runs[k].by = "boot"
    <3>1. ~Busy /\ \A j \in Runners \ {k} : runs[j].pc = "sleep"
      BY <1>1, <2>3 DEF IInv, RunsOK, AloneOK
    <3>2. AloneOK(k)'
      BY <1>3, <2>1, <2>3, <3>1 DEF AloneOK
    <3>q. QED  BY <1>1, <1>2, <1>3, <2>1, <2>3, <3>1, <3>2 DEF IInv, RunsOK
  <2>q. QED  BY <1>2, <2>2, <2>3
<1>q. QED  BY <1>4, <1>5, <1>6, <1>7 DEF IInv

LEMMA NamedDiesInv == ASSUME IInv, NamedDies PROVE IInv'
<1>1. /\ up' = FALSE /\ served' = [z \in Zones |-> Absent]
      /\ UNCHANGED <<db, file, nzf, op, runs, bounds, drift>>
  BY DEF NamedDies
<1>2. TypeOK'
  BY <1>1 DEF IInv, TypeOK, bounds, Content
<1>3. ServedAsCommitted'
  BY <1>1 DEF ServedAsCommitted
<1>4. HandlerOK'
  BY <1>1, HandlerLeftAlone
<1>5. \A z : Expected(db, z)' = Expected(db, z)
  BY <1>1 DEF Expected, RecordsOf
<1>6. RunsOK'
  BY <1>1, <1>5 DEF IInv, RunsOK, AloneOK, Busy
<1>q. QED  BY <1>2, <1>3, <1>4, <1>6 DEF IInv

-----------------------------------------------------------------------------
(* The invariant, and what follows from it.                                *)

LEMMA InitInv == Init => IInv
<1> SUFFICES ASSUME Init PROVE IInv
  OBVIOUS
<1>1. /\ db = InitialDb /\ up \in BOOLEAN /\ file = [z \in Zones |-> Expected(InitialDb, z)]
      /\ nzf = InitialDb.zones /\ served = (IF up THEN file ELSE [z \in Zones |-> Absent])
      /\ op = Idle /\ requests = 0 /\ crashes = 0 /\ drift = {}
      /\ \E k \in Runners : runs = Booting(k)
  BY DEF Init
<1>2. db \in Db /\ nzf \subseteq Zones /\ requests \in 0 .. MaxRequests /\ crashes \in 0 .. MaxCrashes
  BY <1>1, ZonesAssumption DEF Db
<1>3. file \in [Zones -> Content] /\ served \in [Zones -> Content]
  BY <1>1, <1>2, ContentOf
<1>4. PICK k \in Runners : runs = Booting(k)
  BY <1>1
<1>5. ~Busy
  BY <1>1 DEF Busy, Idle
<1>6. TypeOK
  BY <1>1, <1>2, <1>3, <1>4, BootingRuns DEF TypeOK
<1>7. ServedAsCommitted
  BY <1>1, <1>5 DEF ServedAsCommitted
<1>8. RunsOK /\ HandlerOK
  BY <1>4, <1>5, BootingRuns DEF RunsOK, AloneOK, HandlerOK
<1>q. QED  BY <1>6, <1>7, <1>8 DEF IInv

LEMMA StutterInv == ASSUME IInv, UNCHANGED vars PROVE IInv'
<1>1. /\ db' = db /\ file' = file /\ nzf' = nzf /\ up' = up /\ served' = served /\ op' = op
      /\ runs' = runs /\ requests' = requests /\ crashes' = crashes /\ drift' = drift
  BY DEF vars, named, bounds
<1>2. TypeOK'
  BY <1>1 DEF IInv, TypeOK
<1>3. \A d, z : RecordsOf(d, z)' = RecordsOf(d, z) /\ Expected(d, z)' = Expected(d, z)
  OBVIOUS
<1>4. ServedAsCommitted' /\ RunsOK'
  BY <1>1 DEF IInv, ServedAsCommitted, RunsOK, AloneOK, Busy
<1>5. /\ Untouched' <=> Untouched
      /\ (SameZones' <=> SameZones) /\ (Placed' <=> Placed) /\ (Written' <=> Written)
      /\ (Agreeing' <=> Agreeing) /\ (Housed' <=> Housed) /\ (Busy' <=> Busy)
  BY <1>1 DEF Untouched, SameZones, Placed, Written, Agreeing, Housed, Busy
<1>6. HandlerOK'
  BY <1>1, <1>5 DEF IInv, HandlerOK
<1>q. QED  BY <1>2, <1>4, <1>6 DEF IInv

LEMMA NextInv == IInv /\ [Next]_vars => IInv'
<1> SUFFICES ASSUME IInv, [Next]_vars PROVE IInv'
  OBVIOUS
<1>1. ASSUME NEW r \in Requests, Receive(r) PROVE IInv'
  BY <1>1, ReceiveInv
<1>2. CASE HandlerNext
  BY <1>2, StatementInv, WriteZoneFileInv, RndcInv, UpdateRRInv, UpdateRRRefusedInv, DumpInv,
     CommitInv, FailsInv DEF HandlerNext
<1>3. CASE NeverReturns
  BY <1>3, NeverReturnsInv
<1>4. ASSUME NEW k \in Runners, RunNext(k) PROVE IInv'
  BY <1>4, KeeperWakesInv, StartCommandedInv, ListZonesInv, ListRowsInv, WriteFilesInv, WriteNzfsInv,
     GetDNSStateInv, StartInv, ReloadInv, RunFailsInv DEF RunNext
<1>5. CASE NamedDies
  BY <1>5, NamedDiesInv
<1>6. CASE AgentRestarts
  BY <1>6, AgentRestartsInv
<1>7. CASE UNCHANGED vars
  BY <1>7, StutterInv
<1>q. QED  BY <1>1, <1>2, <1>3, <1>4, <1>5, <1>6, <1>7 DEF Next

LEMMA Invariant == Spec => []IInv
  BY InitInv, NextInv, PTL DEF Spec

\* Every variable has its type, for any zones, records and requests.
THEOREM TypeCorrect == Spec => []TypeOK
  BY Invariant, PTL DEF IInv

\* A zone that is not adrift and that no handler is working on is served as
\* the committed tables have it, whatever calls, failures, crashes and restarts
\* went before, and however many runs of reconfigOrStartDNS may overlap: while
\* they do, and until one is undisturbed, all zones are adrift
\* (dnshandler.go:100-157, 376-965).
THEOREM ServedCorrect == Spec => []ServedAsCommitted
  BY Invariant, PTL DEF IInv

\* Every step but a commit leaves the tables alone.
LEMMA TablesKept ==
    ASSUME [Next]_vars, ~Commit
    PROVE  db' = db
<1>1. CASE HandlerNext
  BY <1>1 DEF HandlerNext, Statement, WriteZoneFile, Rndc, UpdateRR, UpdateRRRefused, Dump, Fails, Proceed
<1>2. ASSUME NEW k \in Runners, RunNext(k) PROVE db' = db
  BY <1>2 DEF RunNext, KeeperWakes, StartCommanded, Begin, ListZones, ListRows, WriteFiles, WriteNzfs,
     GetDNSState, Start, Reload, RunFails, RunAt
<1>3. CASE \E r \in Requests : Receive(r)
  BY <1>3 DEF Receive
<1>4. CASE NeverReturns \/ NamedDies \/ AgentRestarts \/ UNCHANGED vars
  BY <1>4 DEF NeverReturns, NamedDies, AgentRestarts, vars, Proceed
<1>q. QED  BY <1>1, <1>2, <1>3, <1>4 DEF Next

LEMMA OrphanStep == ASSUME IInv, [Next]_vars PROVE \A row \in Orphans' \ Orphans : row[1] \in drift
<1>1. CASE ~Commit
  <2>1. Orphans' = Orphans
    BY <1>1, TablesKept DEF Orphans
  <2>q. QED  BY <2>1
<1>2. CASE Commit
  <2>1. Busy /\ op.todo = <<>> /\ db' = op.tx
    BY <1>2 DEF Commit
  <2>2. op.pc = "work" /\ op.run \in {"alone", "together"} /\ op.tx \in Db
    BY <2>1, Under DEF IInv, HandlerOK
  <2>3. ASSUME NEW row \in Orphans', row \notin Orphans PROVE row[1] \in drift
    <3>1. row \in op.tx.rows /\ row[1] \notin op.tx.zones /\ ~(row \in db.rows /\ row[1] \notin db.zones)
      BY <2>1, <2>3 DEF Orphans
    <3>2. CASE op.run = "together"
      <4>1. row[1] \in Zones
        BY <2>2, <3>1 DEF Db, Rows
      <4>q. QED  BY <2>1, <3>2, <4>1 DEF IInv, HandlerOK
    <3>3. CASE op.run = "alone"
      <4>1. Housed
        BY <2>1, <2>2, <3>3 DEF IInv, HandlerOK
      <4>2. ~Follows(<<>>, 0, row[1], {"clear", "dump"})
        BY DEF Follows
      <4>q. QED  BY <2>1, <3>1, <4>1, <4>2 DEF Housed
    <3>q. QED  BY <2>2, <3>2, <3>3
  <2>q. QED  BY <2>3
<1>q. QED  BY <1>1, <1>2

\* No request leaves a record without its zone, but of a zone of which named
\* had another idea than the tables (dnshandler.go:459-465, 753-772).
THEOREM OrphansOnlyFromDrift == Spec => OrphansFromDrift
<1>1. IInv /\ [Next]_vars => [\A row \in Orphans' \ Orphans : row[1] \in drift]_vars
  BY OrphanStep
<1>q. QED  BY <1>1, Invariant, PTL DEF Spec, OrphansFromDrift

-----------------------------------------------------------------------------
(* The handlers and the runs beside them implement Rollout.                *)

LEMMA Agreed ==
    ASSUME IInv
    PROVE  /\ InForce \in [Zones -> Content]
           /\ [z \in Zones |-> Expected(db, z)] \in [Zones -> Content]
           /\ \A z \in Zones \ drift : InForce[z] = Expected(db, z)
<1>1. db \in Db /\ served \in [Zones -> Content]
  BY DEF IInv, TypeOK
<1>2. \A z \in Zones : Expected(db, z) \in Content
  BY <1>1, ContentOf
<1>3. \A z \in Zones \ drift : InForce[z] = Expected(db, z)
  BY DEF IInv, ServedAsCommitted, InForce
<1>q. QED  BY <1>1, <1>2, <1>3 DEF InForce

LEMMA InitRefines == Init => Promise!Init
<1> SUFFICES ASSUME Init PROVE Promise!Init
  OBVIOUS
<1>1. IInv /\ drift = {}
  BY InitInv DEF Init
<1>q. QED  BY <1>1, Agreed DEF Promise!Init, Promise!Agree, Content

LEMMA StepRefines == ASSUME IInv, IInv', [Next]_vars PROVE [Promise!Next]_(Promise!vars)
<1> DEFINE committed == [z \in Zones |-> Expected(db, z)]
<1> USE DEF Promise!Agree
<1>1. /\ \A z \in Zones \ drift : InForce[z] = committed[z]
      /\ \A z \in Zones \ drift' : InForce'[z] = committed'[z]
  <2>1. \A z \in Zones \ drift : InForce[z] = Expected(db, z)
    BY Agreed
  <2>2. (IInv => \A z \in Zones \ drift : InForce[z] = Expected(db, z))'
    BY Agreed, PTL
  <2>3. \A z \in Zones : committed[z] = Expected(db, z) /\ committed'[z] = Expected(db, z)'
    OBVIOUS
  <2> HIDE DEF committed
  <2>q. QED  BY <2>1, <2>2, <2>3
<1>2. db' = db => committed' = committed
  BY DEF Expected, RecordsOf
<1> HIDE DEF committed
<1>3. ASSUME UNCHANGED <<db, drift>> PROVE Promise!Next
  <2>1. Promise!Wander
    BY <1>1, <1>2, <1>3 DEF Promise!Wander, committed
  <2>q. QED  BY <2>1 DEF Promise!Next
<1>4. ASSUME NEW S \in SUBSET Zones, db' = db, drift' = drift \cup S PROVE Promise!Next
  <2>1. Promise!Abandon(S)
    BY <1>1, <1>2, <1>4 DEF Promise!Abandon, committed
  <2>q. QED  BY <2>1 DEF Promise!Next
<1>5. ASSUME db' = db, drift' \subseteq drift PROVE Promise!Next
  <2>1. Promise!Repair
    BY <1>1, <1>2, <1>5 DEF Promise!Repair, committed
  <2>q. QED  BY <2>1 DEF Promise!Next
<1>6. drift \subseteq Zones /\ drift \cup Zones = Zones /\ (Busy => op.did \subseteq Zones /\ op.todo \in Seq(Calling))
  BY Under DEF IInv, TypeOK
<1>7. CASE Commit
  <2>1. Busy /\ db' = op.tx /\ drift' = drift \cup op.unsure
    BY <1>7 DEF Commit
  <2>2. Untouched /\ op.req \in Requests
    BY <2>1, Under DEF IInv, HandlerOK
  <2>3. \A z \in Zones \ About(op.req) : committed'[z] = committed[z]
    <3>1. \A z \in Zones \ About(op.req) : Expected(op.tx, z) = Expected(db, z)
      BY <2>2 DEF Untouched, Expected
    <3>2. \A z \in Zones : committed[z] = Expected(db, z) /\ committed'[z] = Expected(op.tx, z)
      BY <2>1 DEF committed, Expected, RecordsOf
    <3>q. QED  BY <3>1, <3>2
  <2>4. drift' \subseteq drift \cup About(op.req)
    BY <2>1, <2>2 DEF Untouched
  <2>5. \A S \in {About(r) : r \in Requests} : S = About(op.req) => Promise!Next
    <3> SUFFICES ASSUME NEW S \in {About(r) : r \in Requests}, S = About(op.req)
                 PROVE  Promise!Next
      OBVIOUS
    <3>1. Promise!Apply(S)
      BY <1>1, <2>3, <2>4 DEF Promise!Apply, committed
    <3>q. QED  BY <3>1 DEF Promise!Next
  <2>6. About(op.req) \in {About(r) : r \in Requests}
    BY <2>2
  <2>q. QED  BY <2>5, <2>6
<1>8. CASE \/ \E r \in Requests : Receive(r)
           \/ \E k \in Runners : KeeperWakes(k) \/ StartCommanded(k)
  <2>1. db' = db /\ (drift' = drift \/ drift' = Zones)
    BY <1>8 DEF Receive, KeeperWakes, StartCommanded, Begin, Overlap
  <2>q. QED  BY <1>3, <1>4, <1>6, <2>1
<1>9. CASE Fails
  <2>1. Busy /\ db' = db
    BY <1>9 DEF Fails
  <2>2. \/ drift' = drift \cup op.did
        \/ op.todo # <<>> /\ drift' = drift \cup (op.did \cup {Step.zone})
    BY <1>9 DEF Fails
  <2>3. op.todo # <<>> => Step.zone \in Zones
    <3>1. op.todo # <<>> => Step \in Calling
      BY <1>6, <2>1, TailFacts DEF Step
    <3>q. QED  BY <3>1 DEF Calling
  <2>4. op.did \in SUBSET Zones /\ (op.todo # <<>> => op.did \cup {Step.zone} \in SUBSET Zones)
    BY <1>6, <2>1, <2>3
  <2>q. QED  BY <1>4, <2>1, <2>2, <2>4
<1>10. CASE AgentRestarts
  <2>1. db' = db /\ (drift' = drift \/ (Busy /\ drift' = drift \cup op.did))
    BY <1>10 DEF AgentRestarts
  <2>q. QED  BY <1>3, <1>4, <1>6, <2>1
<1>11. CASE \E k \in Runners : Start(k) \/ Reload(k)
  <2>1. db' = db /\ drift' \subseteq drift
    BY <1>11 DEF Start, Reload, Finish, RunAt
  <2>q. QED  BY <1>5, <2>1
<1>12. CASE Statement \/ WriteZoneFile \/ Rndc \/ UpdateRR \/ UpdateRRRefused \/ Dump \/ NeverReturns
  <2>1. UNCHANGED <<db, drift>>
    BY <1>12 DEF Statement, WriteZoneFile, Rndc, UpdateRR, UpdateRRRefused, Dump, NeverReturns, Proceed
  <2>q. QED  BY <1>3, <2>1
<1>13. CASE \/ \E k \in Runners : \/ ListZones(k) \/ ListRows(k) \/ WriteFiles(k) \/ WriteNzfs(k)
                                   \/ GetDNSState(k) \/ RunFails(k)
            \/ NamedDies \/ UNCHANGED vars
  <2>1. UNCHANGED <<db, drift>>
    BY <1>13 DEF ListZones, ListRows, WriteFiles, WriteNzfs, GetDNSState, RunFails, NamedDies, RunAt, vars
  <2>q. QED  BY <1>3, <2>1
<1>q. QED  BY <1>7, <1>8, <1>9, <1>10, <1>11, <1>12, <1>13 DEF Next, HandlerNext, RunNext

\* Requests on any number of zones, keepers, commands, crashes and deaths of
\* named keep what Rollout promises: a request takes effect as a whole and on the
\* zones it is about alone, and one that fails changes no table and leaves in
\* force what was, but for the zones it leaves adrift (dnshandler.go:376-965).
THEOREM RolloutImplemented == Spec => ImplementsRollout
<1>1. Init => Promise!Init
  BY InitRefines
<1>2. IInv /\ IInv' /\ [Next]_vars => [Promise!Next]_(Promise!vars)
  BY StepRefines
<1>q. QED  BY <1>1, <1>2, Invariant, PTL DEF Spec, ImplementsRollout, Promise!Spec
=============================================================================
