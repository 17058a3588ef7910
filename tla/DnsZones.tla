------------------------------ MODULE DnsZones ------------------------------
(***************************************************************************)
(* Authoritative zones: the tables, the zone files and what named serves.  *)
(*                                                                         *)
(* pkg/dns/grpcservice/dnshandler.go, lines 376-587 and 727-965, with the  *)
(* files of nameddata_handler.go.  A handler runs inside a transaction; it *)
(* changes the tables, writes zone files, and tells named through          *)
(* ddi-monitor (rndc) or by a dynamic update over UDP, one call after the  *)
(* other.  Any of them may fail, and then the transaction is rolled back,  *)
(* but neither the files nor named are; none has a deadline.               *)
(*                                                                         *)
(* reconfigOrStartDNS writes every file from the tables and starts named:  *)
(* at boot, when a keepDNSAlive finds named down, and for a StartDNS       *)
(* command.  No lock keeps two runs of it from overlapping each other or a *)
(* handler.  Who starts and ends how many keepers is left to DnsLifecycle; *)
(* StopDNS is here a death of named.                                       *)
(*                                                                         *)
(* ddi-monitor, named and the database are external.  A zone stands for a  *)
(* name in a view, a resource record for its name, type and data; the      *)
(* other attributes of a zone and the SOA record, which named keeps by     *)
(* itself, are left out.  Requests come one at a time, StartDNS commands   *)
(* among them, from the loop that reads them from Kafka.                   *)
(***************************************************************************)
EXTENDS Integers, Sequences

CONSTANTS
    Zones, RRs,
    Requests,      \* the requests that may arrive
    InitialDb,     \* what the tables hold at first
    Runners,       \* as many as can be in reconfigOrStartDNS at a time
    MaxRequests,   \* bound on the number of requests
    MaxCrashes     \* bound on how often the agent process dies and is run again

Rows == Zones \X RRs

\* The tables of zones and records.
Db == [zones : SUBSET Zones, rows : SUBSET Rows]

Request ==
    [kind : {"createZone", "updateZone", "deleteZone", "axfr", "rrs", "updateRR", "batch"},
     zones : Seq(Zones), old : Seq(Rows), new : Seq(Rows)]

\* The elements of a sequence.
Among(s) == {s[i] : i \in DOMAIN s}

ZonesOf(rows) == {row[1] : row \in Among(rows)}

\* What the handlers rely on without looking: they rewrite and reload the file
\* of the zone a request names and of no other, so that the records that come
\* with it have to be records of that zone.
RequestOK(r) ==
    /\ r.kind \in {"createZone", "updateZone", "deleteZone", "updateRR"} => r.zones # <<>>
    /\ r.kind \in {"createZone", "updateRR"} => ZonesOf(r.old) \cup ZonesOf(r.new) \subseteq {Head(r.zones)}
    /\ r.kind = "axfr" => ZonesOf(r.new) \subseteq Among(r.zones)
    /\ r.kind = "batch" => \A y, z \in ZonesOf(r.new) : y = z
    /\ r.kind = "updateRR" => Len(r.old) = 1 /\ Len(r.new) = 1

ASSUME ZonesAssumption ==
    /\ Requests \subseteq Request /\ \A r \in Requests : RequestOK(r)
    /\ InitialDb \in Db
    /\ {"absent"} \notin SUBSET RRs
    /\ MaxRequests \in Nat /\ MaxCrashes \in Nat

VARIABLES
    db,        \* the committed tables
    file,      \* the zone files
    nzf,       \* the zones in named's files of added zones
    up,        \* named runs
    served,    \* what named serves
    op,        \* the request under way
    runs,      \* the runs of reconfigOrStartDNS: each is of the boot, of a
               \* keeper or of a command
    requests,  \* how many requests have arrived
    crashes,   \* how often the agent process has died
    drift      \* history: zones that named may have been left serving differently

named  == <<nzf, up, served>>
bounds == <<requests, crashes>>
vars   == <<db, file, named, op, runs, bounds, drift>>

-----------------------------------------------------------------------------

\* No zone file, or a zone named does not serve.
Absent == {"absent"}

\* The records of a zone in the tables d.
RecordsOf(d, z) == {row[2] : row \in {x \in d.rows : x[1] = z}}

Expected(d, z) == IF z \in d.zones THEN RecordsOf(d, z) ELSE Absent

\* What named serves once it has read its files.
Loaded == [z \in Zones |-> IF z \in nzf THEN file[z] ELSE Absent]

Idle == [pc |-> "idle"]

Busy == op.pc # "idle"

Asleep == [pc |-> "sleep", by |-> "keeper", zones |-> {}, rows |-> {}, run |-> "alone"]

Exited == [Asleep EXCEPT !.pc = "exited", !.by = "boot"]

\* The boot, before there is any keeper.
Booting(k) ==
    [j \in Runners |-> IF j = k THEN [Asleep EXCEPT !.pc = "list", !.by = "boot"] ELSE Asleep]

Working == {k \in Runners : runs[k].pc # "sleep"}

Booted == \A k \in Runners : runs[k].by # "boot"

\* The loop that reads requests waits for reconfigOrStartDNS.
Commanded == \E k \in Runners : runs[k].by = "command"

\* Two runs, or a handler and a run, at the same time promise nothing.
Together(both) == IF both THEN "together" ELSE "alone"

Overlap(both) == drift' = IF both THEN Zones ELSE drift

\* The runs, when something begins beside them.
Joined == [k \in Runners |-> IF k \in Working THEN [runs[k] EXCEPT !.run = "together"] ELSE runs[k]]

Init ==
    /\ db = InitialDb
    /\ up \in BOOLEAN            \* named outlives the agent
    /\ file = [z \in Zones |-> Expected(InitialDb, z)]
    /\ nzf = InitialDb.zones
    /\ served = IF up THEN file ELSE [z \in Zones |-> Absent]
    /\ op = Idle
    /\ \E k \in Runners : runs = Booting(k)
    /\ requests = 0 /\ crashes = 0
    /\ drift = {}

-----------------------------------------------------------------------------
(* The calls a handler makes, in their order.                              *)

Call(do, z, rows) == [do |-> do, zone |-> z, rows |-> rows]

\* The n calls that F makes of each element of s, one element after the other.
ForEach(F(_), n, s) == [i \in 1 .. n * Len(s) |-> F(s[(i + n - 1) \div n])[((i + n - 1) % n) + 1]]

\* deleteZoneAuthRR.
DropRecords(z) == <<Call("clear", z, <<>>), Call("deleteZone", z, <<>>)>>

AddAgain(z) == <<Call("file", z, <<>>), Call("addZone", z, <<>>)>>

\* deleteAuthRRFromDB and addAuthRRToDB.
TakeOut(row) ==
    <<Call("deleteRow", row[1], <<row>>), Call("remove", row[1], <<row>>), Call("dump", row[1], <<>>)>>

PutIn(row) ==
    <<Call("insertRows", row[1], <<row>>), Call("add", row[1], <<row>>), Call("dump", row[1], <<>>)>>

\* And CreateAuthZoneAuthRRs.
CreateAuthZone(z, rows) ==
    <<Call("insertZone", z, <<>>), Call("insertRows", z, rows)>> \o AddAgain(z)

UpdateAuthZone(z) == <<Call("file", z, <<>>), Call("modifyZone", z, <<>>)>>

DeleteAuthZone(z) == <<Call("deleteRowOfZone", z, <<>>)>> \o DropRecords(z)

UpdateAuthZoneAXFR(zones, rows) ==
    IF rows = <<>> THEN <<>>
    ELSE ForEach(DropRecords, 2, zones)
            \o <<Call("insertRows", Head(zones), rows)>> \o ForEach(AddAgain, 2, zones)

\* And CreateAuthRR and DeleteAuthRR.
UpdateAuthZoneIXFR(old, new) == ForEach(TakeOut, 3, old) \o ForEach(PutIn, 3, new)

UpdateAuthRR(z, old, new) ==
    <<Call("remove", z, old), Call("updateRow", z, old \o new),
      Call("add", z, new), Call("dump", z, <<>>)>>

BatchCreateAuthRRs(rows) ==
    LET z == Head(rows)[1] IN
    IF rows = <<>> THEN <<>>
    ELSE <<Call("findZone", z, <<>>), Call("insertRows", z, rows),
           Call("file", z, <<>>), Call("modifyZone", z, <<>>)>>

Calls(r) ==
    CASE r.kind = "createZone" -> CreateAuthZone(Head(r.zones), r.new)
      [] r.kind = "updateZone" -> UpdateAuthZone(Head(r.zones))
      [] r.kind = "deleteZone" -> DeleteAuthZone(Head(r.zones))
      [] r.kind = "axfr" -> UpdateAuthZoneAXFR(r.zones, r.new)
      [] r.kind = "rrs" -> UpdateAuthZoneIXFR(r.old, r.new)
      [] r.kind = "updateRR" -> UpdateAuthRR(Head(r.zones), r.old, r.new)
      [] r.kind = "batch" -> BatchCreateAuthRRs(r.new)

Step == Head(op.todo)

\* A request begins, unless the loop is still waiting for the one before.
Receive(r) ==
    /\ ~Busy /\ Booted /\ ~Commanded
    /\ requests < MaxRequests
    /\ requests' = requests + 1
    /\ op' = [pc |-> "work", req |-> r, todo |-> Calls(r), tx |-> db,
              did |-> {}, unsure |-> {}, run |-> Together(Working # {})]
    /\ runs' = Joined
    /\ Overlap(Working # {})
    /\ UNCHANGED <<db, file, named, crashes>>

-----------------------------------------------------------------------------
(* Statements of the transaction.                                          *)

Statements == {"insertZone", "deleteRowOfZone", "findZone", "clear", "insertRows", "deleteRow", "updateRow"}

\* The unique keys of the tables, and "no found zone".
Accepted(c, d) ==
    CASE c.do = "insertZone" -> c.zone \notin d.zones
      [] c.do = "findZone"   -> c.zone \in d.zones
      [] c.do = "insertRows" -> Among(c.rows) \cap d.rows = {}
      [] c.do = "updateRow"  -> c.rows[1] \in d.rows /\ c.rows[2] # c.rows[1] => c.rows[2] \notin d.rows
      [] OTHER -> TRUE

\* Mutant of Executed: the records of every zone go.
ExecutedOnAll(c, d) ==
    CASE c.do = "insertZone" -> [d EXCEPT !.zones = @ \cup {c.zone}]
      [] c.do = "deleteRowOfZone" -> [d EXCEPT !.zones = @ \ {c.zone}]
      [] c.do = "clear"      -> [d EXCEPT !.rows = {}]
      [] c.do = "insertRows" -> [d EXCEPT !.rows = @ \cup Among(c.rows)]
      [] c.do = "deleteRow"  -> [d EXCEPT !.rows = @ \ Among(c.rows)]
      [] OTHER -> d

\* An update or a delete that finds no row is not an error.
Executed(c, d) ==
    CASE c.do = "insertZone" -> [d EXCEPT !.zones = @ \cup {c.zone}]
      [] c.do = "deleteRowOfZone" -> [d EXCEPT !.zones = @ \ {c.zone}]
      [] c.do = "clear"      -> [d EXCEPT !.rows = {row \in @ : row[1] # c.zone}]
      [] c.do = "insertRows" -> [d EXCEPT !.rows = @ \cup Among(c.rows)]
      [] c.do = "deleteRow"  -> [d EXCEPT !.rows = @ \ Among(c.rows)]
      [] c.do = "updateRow"  ->
            IF c.rows[1] \in d.rows
            THEN [d EXCEPT !.rows = (@ \ {c.rows[1]}) \cup {c.rows[2]}] ELSE d
      [] OTHER -> d

\* An UpdateAuthRR of a record that is not in the table adds it to named alone.
Statement ==
    /\ Busy /\ op.todo # <<>> /\ Step.do \in Statements
    /\ Accepted(Step, op.tx)
    /\ op' = [op EXCEPT !.todo = Tail(@), !.tx = Executed(Step, @),
                        !.unsure = IF Step.do = "updateRow" /\ Step.rows[1] \notin op.tx.rows
                                   THEN @ \cup {Step.zone} ELSE @]
    /\ UNCHANGED <<db, file, named, runs, bounds, drift>>

-----------------------------------------------------------------------------
(* Calls that no rollback takes back.                                      *)

Proceed(doing) ==
    /\ Busy /\ op.pc = "work" /\ op.todo # <<>> /\ Step.do \in doing
    /\ UNCHANGED <<db, runs, bounds, drift>>

\* The call is done; what it did to named is remembered.
Did(zs) == op' = [op EXCEPT !.todo = Tail(@), !.did = @ \cup zs]

\* Mutant of WriteZoneFile: the records are read outside the transaction.
WriteZoneFileCommitted ==
    /\ Proceed({"file"})
    /\ file' = [file EXCEPT ![Step.zone] = RecordsOf(db, Step.zone)]
    /\ Did({})
    /\ UNCHANGED named

\* rewriteAuthZoneFile: the records are those of the transaction.
WriteZoneFile ==
    /\ Proceed({"file"})
    /\ file' = [file EXCEPT ![Step.zone] = RecordsOf(op.tx, Step.zone)]
    /\ Did({})
    /\ UNCHANGED named

\* What rndc makes of the zone, if it can.
RndcDone ==
    /\ up
    /\ UNCHANGED <<up, file>>
    /\ LET z == Step.zone IN
       \/ /\ Step.do = "addZone" /\ served[z] = Absent /\ file[z] # Absent
          /\ served' = [served EXCEPT ![z] = file[z]]
          /\ nzf' = nzf \cup {z}
       \/ /\ Step.do = "modifyZone" /\ served[z] # Absent /\ file[z] # Absent
          /\ served' = [served EXCEPT ![z] = file[z]]
          /\ UNCHANGED nzf
       \/ /\ Step.do = "deleteZone" /\ served[z] # Absent
          /\ served' = [served EXCEPT ![z] = Absent]
          /\ nzf' = nzf \ {z}

\* rndcAddZone, rndcModifyZone, rndcDeleteZone.
Rndc ==
    /\ Proceed({"addZone", "modifyZone", "deleteZone"})
    /\ RndcDone
    /\ Did({Step.zone})

\* Mutant of UpdateDone: an update makes a zone of what is not one.
UpdateDoneAnyway ==
    /\ up
    /\ served' = [served EXCEPT ![Step.zone] =
                    IF Step.do = "add" THEN @ \cup {Step.rows[1][2]} ELSE @ \ {Step.rows[1][2]}]
    /\ UNCHANGED <<nzf, up, file>>

\* The dynamic update, as named carries it out.
UpdateDone ==
    /\ up /\ served[Step.zone] # Absent
    /\ served' = [served EXCEPT ![Step.zone] =
                    IF Step.do = "add" THEN @ \cup {Step.rows[1][2]} ELSE @ \ {Step.rows[1][2]}]
    /\ UNCHANGED <<nzf, up, file>>

UpdateRR ==
    /\ Proceed({"add", "remove"})
    /\ UpdateDone
    /\ Did({Step.zone})

\* An answer is an answer: its code is not looked at.
UpdateRRRefused ==
    /\ Proceed({"add", "remove"})
    /\ up
    /\ op' = [op EXCEPT !.todo = Tail(@), !.unsure = @ \cup {Step.zone}]
    /\ UNCHANGED <<file, named>>

\* Mutant of Dump: the error of rndcZoneDumpJNLFile is dropped.
DumpUnseen ==
    /\ Proceed({"dump"})
    /\ up
    /\ file' = [file EXCEPT ![Step.zone] = served[Step.zone]]
    /\ Did({})
    /\ UNCHANGED named

\* rndcZoneDumpJNLFile: named writes the zone's file.
Dump ==
    /\ Proceed({"dump"})
    /\ up /\ served[Step.zone] # Absent
    /\ file' = [file EXCEPT ![Step.zone] = served[Step.zone]]
    /\ Did({})
    /\ UNCHANGED named

\* No call has a deadline: the datagram or its answer is lost, or ddi-monitor
\* never answers, with the effect of the call or without.  A statement that
\* never returns is a handler that takes no further step.
NeverReturns ==
    /\ Proceed({"addZone", "modifyZone", "deleteZone", "add", "remove", "dump"})
    /\ \/ Step.do \in {"add", "remove"} /\ UpdateDone
       \/ RndcDone
       \/ UNCHANGED <<file, named>>
    /\ op' = [op EXCEPT !.pc = "blocked", !.did = @ \cup {Step.zone}]

\* The transaction is committed and the request answered with success.
Commit ==
    /\ Busy /\ op.todo = <<>>
    /\ db' = op.tx
    /\ drift' = drift \cup op.unsure
    /\ op' = Idle
    /\ UNCHANGED <<file, named, runs, bounds>>

\* A call fails, without effect or although it took effect, or the commit
\* does.  The transaction is rolled back.
Fails ==
    /\ Busy /\ op.pc = "work"
    /\ \/ UNCHANGED <<file, named>> /\ drift' = drift \cup op.did
       \/ /\ op.todo # <<>> /\ Step.do = "file"
          /\ file' = [file EXCEPT ![Step.zone] = Absent]
          /\ drift' = drift \cup op.did
          /\ UNCHANGED named
       \/ op.todo # <<>> /\ RndcDone /\ drift' = drift \cup op.did \cup {Step.zone}
    /\ op' = Idle
    /\ UNCHANGED <<db, runs, bounds>>

-----------------------------------------------------------------------------
(* reconfigOrStartDNS.                                                     *)

\* A run begins, beside whatever is under way.
Begin(k, by) ==
    /\ Booted /\ runs[k].pc = "sleep"
    /\ LET beside == Busy \/ Working # {} IN
       /\ runs' = [Joined EXCEPT ![k] = [Asleep EXCEPT !.pc = "list", !.by = by, !.run = Together(beside)]]
       /\ op' = IF Busy THEN [op EXCEPT !.run = "together"] ELSE op
       /\ Overlap(beside)
    /\ UNCHANGED <<db, file, named>>

\* GetDNSState answered a keeper that named is down.
KeeperWakes(k) ==
    /\ ~up
    /\ Begin(k, "keeper")
    /\ UNCHANGED bounds

\* A StartDNS command, whether named runs or not.
StartCommanded(k) ==
    /\ ~Busy /\ ~Commanded
    /\ requests < MaxRequests /\ requests' = requests + 1
    /\ Begin(k, "command")
    /\ UNCHANGED crashes

RunAt(k, pc) == runs[k].pc = pc /\ UNCHANGED <<db, op, bounds>>

\* initZoneFiles removes every zone file, then lists the zones, ...
ListZones(k) ==
    /\ RunAt(k, "list")
    /\ file' = [z \in Zones |-> Absent]
    /\ runs' = [runs EXCEPT ![k].pc = "rows", ![k].zones = db.zones]
    /\ UNCHANGED <<named, drift>>

\* ... then their records, in a statement of its own, ...
ListRows(k) ==
    /\ RunAt(k, "rows")
    /\ runs' = [runs EXCEPT ![k].pc = "files", ![k].rows = db.rows]
    /\ UNCHANGED <<file, named, drift>>

\* ... and writes the files.
WriteFiles(k) ==
    /\ RunAt(k, "files")
    /\ file' = [z \in Zones |-> IF z \in runs[k].zones
                                THEN RecordsOf([zones |-> runs[k].zones, rows |-> runs[k].rows], z)
                                ELSE file[z]]
    /\ runs' = [runs EXCEPT ![k].pc = "nzf", ![k].zones = {}, ![k].rows = {}]
    /\ UNCHANGED <<named, drift>>

\* rewriteNzfsFile lists the zones again.  A keeper then starts named, the
\* boot and a command look first whether it runs.
WriteNzfs(k) ==
    /\ RunAt(k, "nzf")
    /\ nzf' = db.zones
    /\ runs' = [runs EXCEPT ![k].pc = IF runs[k].by = "keeper" THEN "start" ELSE "state"]
    /\ UNCHANGED <<file, up, served, drift>>

GetDNSState(k) ==
    /\ RunAt(k, "state")
    /\ runs' = [runs EXCEPT ![k].pc = IF up THEN "reload" ELSE "start"]
    /\ UNCHANGED <<file, named, drift>>

\* The run ends, and if it was alone everything is as it wrote it.
Finish(k) ==
    /\ runs' = [runs EXCEPT ![k] = Asleep]
    /\ drift' = IF runs[k].run = "alone" THEN {} ELSE drift

\* StartDNS: named reads its files, unless another run has started it already.
Start(k) ==
    /\ RunAt(k, "start")
    /\ up' = TRUE
    /\ served' = Loaded \/ (up /\ UNCHANGED served)
    /\ Finish(k)
    /\ UNCHANGED <<file, nzf>>

\* rndcReload of a named that runs.
Reload(k) ==
    /\ RunAt(k, "reload")
    /\ up
    /\ served' = Loaded
    /\ Finish(k)
    /\ UNCHANGED <<file, nzf, up>>

\* A query, a file, the template or ddi-monitor fails.  At boot the process
\* ends, unless it is the start or the reload that failed: its error is lost
\* in the err that the if declares.
RunFails(k) ==
    /\ runs[k].pc \notin {"sleep", "exited"}
    /\ runs' = [runs EXCEPT ![k] =
                   IF @.by = "boot" /\ @.pc \notin {"start", "reload"} THEN Exited ELSE Asleep]
    /\ UNCHANGED <<db, file, named, op, bounds, drift>>

-----------------------------------------------------------------------------
(* The environment.                                                        *)

NamedDies ==
    /\ up
    /\ up' = FALSE
    /\ served' = [z \in Zones |-> Absent]
    /\ UNCHANGED <<db, file, nzf, op, runs, bounds, drift>>

\* The agent process dies and is run again; its transaction is rolled back.
AgentRestarts ==
    /\ crashes < MaxCrashes
    /\ crashes' = crashes + 1
    /\ drift' = IF Busy THEN drift \cup op.did ELSE drift
    /\ op' = Idle
    /\ \E k \in Runners : runs' = Booting(k)
    /\ UNCHANGED <<db, file, named, requests>>

HandlerNext ==
    \/ Statement \/ WriteZoneFile \/ Rndc \/ UpdateRR \/ UpdateRRRefused \/ Dump
    \/ Commit \/ Fails

RunNext(k) ==
    \/ KeeperWakes(k) \/ StartCommanded(k)
    \/ ListZones(k) \/ ListRows(k) \/ WriteFiles(k) \/ WriteNzfs(k)
    \/ GetDNSState(k) \/ Start(k) \/ Reload(k) \/ RunFails(k)

Next ==
    \/ \E r \in Requests : Receive(r)
    \/ HandlerNext \/ NeverReturns
    \/ \E k \in Runners : RunNext(k)
    \/ NamedDies \/ AgentRestarts

Spec == Init /\ [][Next]_vars

-----------------------------------------------------------------------------
(* Properties.                                                             *)

Content == {Absent} \cup SUBSET RRs

OpType ==
    [pc : {"work", "blocked"}, req : Requests,
     todo : Seq([do : Statements \cup {"file", "addZone", "modifyZone", "deleteZone",
                                       "add", "remove", "dump"},
                 zone : Zones, rows : Seq(Rows)]),
     tx : Db, did : SUBSET Zones, unsure : SUBSET Zones, run : {"alone", "together"}]

RunType ==
    [pc : {"sleep", "list", "rows", "files", "nzf", "state", "start", "reload", "exited"},
     by : {"keeper", "boot", "command"},
     zones : SUBSET Zones, rows : SUBSET Rows, run : {"alone", "together"}]

\* Every variable has its type.
TypeOK ==
    /\ db \in Db
    /\ file \in [Zones -> Content] /\ served \in [Zones -> Content]
    /\ nzf \subseteq Zones /\ up \in BOOLEAN
    /\ op = Idle \/ op \in OpType
    /\ runs \in [Runners -> RunType]
    /\ requests \in 0 .. MaxRequests /\ crashes \in 0 .. MaxCrashes
    /\ drift \subseteq Zones

\* A zone on which no request has begun to work is served by a running named
\* exactly as the committed tables have it, whatever failed, hangs, died or was
\* started again before; except for zones on which a request failed after it
\* had told named something, or whose update named refused, and for all zones
\* once reconfigOrStartDNS overlapped a request or another run of its own,
\* until it next starts or reloads named undisturbed
\* (dnshandler.go:100-157, 376-965, nameddata_handler.go:527-621).
ServedAsCommitted ==
    up => \A z \in Zones \ (drift \cup (IF Busy THEN op.did ELSE {})) :
            served[z] = Expected(db, z)

\* The zones a request is about.
About(r) == Among(r.zones) \cup {row[1] : row \in Among(r.old) \cup Among(r.new)}

\* What is in force of a zone: what a handler has not finished does not count,
\* nor that named is down.
InForce ==
    [z \in Zones |-> IF ~up \/ (Busy /\ z \in op.did \ drift) THEN Expected(db, z) ELSE served[z]]

Promise ==
    INSTANCE Rollout WITH Items <- Zones, Values <- {Absent} \cup SUBSET RRs,
                          Scopes <- {About(r) : r \in Requests},
                          committed <- [z \in Zones |-> Expected(db, z)],
                          inForce <- InForce, drift <- drift

\* Requests, keepers, commands, crashes and deaths of named keep what Rollout promises: a
\* request on several zones, call by call, takes effect as a whole and on no
\* other zone, and one that fails changes no table and leaves in force what was,
\* but for the zones it leaves adrift (dnshandler.go:376-965).
ImplementsRollout == Promise!Spec

Orphans == {row \in db.rows : row[1] \notin db.zones}

\* No row of a record is without its zone, although no foreign key says so:
\* a record of a zone that named does not serve is not committed, because the
\* dump fails, and deleting a zone deletes its records.  The exception is a
\* zone of which named has another idea than the tables (dnshandler.go:459-465,
\* 753-772).
OrphansFromDrift == [][\A row \in Orphans' \ Orphans : row[1] \in drift]_vars
=============================================================================
