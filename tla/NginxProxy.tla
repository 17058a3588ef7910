----------------------------- MODULE NginxProxy -----------------------------
(***************************************************************************)
(* The nginx proxy: its table, its files and what nginx serves.            *)
(*                                                                         *)
(* pkg/dns/grpcservice/dnshandler.go, lines 1115-1179, with lines 205-281  *)
(* of nameddata_handler.go.  All http sites stand in one file, which is    *)
(* written anew from the table.  An https site has a file of its own, with *)
(* its key and its certificate beside it.  A handler changes a row in a    *)
(* transaction, writes or removes files and has nginx reload; if a step    *)
(* fails the transaction is rolled back and the files stay as they are.    *)
(* Meanwhile reconfigOrStartDNS, for the boot or keepDNSAlive, may write   *)
(* the http file and have nginx reload.                                    *)
(*                                                                         *)
(* nginx is external.  A reload is for all files: it is refused, and       *)
(* nginx goes on as before, when any https site lacks a key or certificate *)
(* or they do not belong together.                                         *)
(***************************************************************************)
EXTENDS Naturals, Sequences

CONSTANTS
    Domains, Urls,
    Pairs,         \* pairs of key and certificate
    None,          \* no row, no file
    Requests,      \* the requests that may arrive
    InitialDb,     \* what the table holds at first
    MaxRequests,   \* bound on the number of requests
    MaxCrashes     \* bound on how often the agent process dies and is run again

Schemes   == {"http", "https"}
Sites     == Schemes \X Domains
HttpSites == {"http"} \X Domains

\* The table; "domain" and "is_https" are its unique key.
Db == [Sites -> Urls \cup {None}]

Request == [kind : {"create", "update", "delete"}, site : Sites, url : Urls, key : Pairs, crt : Pairs]

ASSUME NginxAssumption ==
    /\ None \notin Urls \cup Pairs
    /\ Requests \subseteq Request
    /\ InitialDb \in Db
    /\ MaxRequests \in Nat /\ MaxCrashes \in Nat

VARIABLES
    db,        \* the committed table
    disk,      \* the files
    served,    \* what nginx serves
    op,        \* the request under way
    keeper,    \* keepDNSAlive, and the boot sequence it shares its steps with
    requests,  \* how many requests have arrived
    crashes,   \* how often the agent process has died
    drift      \* history: sites for which files or nginx may differ from the table

bounds == <<requests, crashes>>
vars   == <<db, disk, served, op, keeper, bounds, drift>>

-----------------------------------------------------------------------------
(* Files.                                                                  *)

IsHttps(site) == site[1] = "https"
DomainOf(site) == site[2]

\* The rows that rewriteNginxHttpFile puts into the http file.
HttpRows(d) == [x \in Domains |-> d[<<"http", x>>]]

\* An https site that nginx cannot load.
Broken(files, x) == files.conf[x] # None /\ (files.key[x] = None \/ files.key[x] # files.crt[x])

\* What nginx serves once it has read the files.
Loaded(files) ==
    [s \in Sites |-> IF IsHttps(s) THEN files.conf[DomainOf(s)] ELSE files.http[DomainOf(s)]]

\* The files after one step of a handler, for the request r and the table d.
FilesAfter(do, r, d, files) ==
    LET x == DomainOf(r.site) IN
    CASE do = "http"     -> [files EXCEPT !.http = HttpRows(d)]
      [] do = "key"      -> [files EXCEPT !.key[x] = r.key]
      [] do = "crt"      -> [files EXCEPT !.crt[x] = r.crt]
      [] do = "conf"     -> [files EXCEPT !.conf[x] = r.url]
      [] do = "dropConf" -> [files EXCEPT !.conf[x] = None]
      [] do = "dropKey"  -> [files EXCEPT !.key[x] = None]
      [] do = "dropCrt"  -> [files EXCEPT !.crt[x] = None]

\* A write that failed may leave an empty file.
Truncated(do, x, files) ==
    CASE do = "http" -> [files EXCEPT !.http = [y \in Domains |-> None]]
      [] do = "key"  -> [files EXCEPT !.key[x] = None]
      [] do = "crt"  -> [files EXCEPT !.crt[x] = None]
      [] do = "conf" -> [files EXCEPT !.conf[x] = None]

Writes == {"http", "key", "crt", "conf"}
FileSteps == Writes \cup {"dropConf", "dropKey", "dropCrt"}

-----------------------------------------------------------------------------

Idle == [pc |-> "idle"]

Busy == op.pc # "idle"

Asleep  == [pc |-> "sleep", by |-> "keeper", read |-> HttpRows(InitialDb), run |-> "alone"]
Booting == [Asleep EXCEPT !.pc = "list", !.by = "boot"]
Exited  == [Asleep EXCEPT !.pc = "exited", !.by = "boot"]

Init ==
    /\ db = InitialDb
    /\ \E pair \in Pairs :
        LET material == [x \in Domains |-> IF InitialDb[<<"https", x>>] = None THEN None ELSE pair]
        IN disk = [http |-> HttpRows(InitialDb), conf |-> [x \in Domains |-> InitialDb[<<"https", x>>]],
                   key |-> material, crt |-> material]
    /\ served = InitialDb
    /\ op = Idle
    /\ keeper = Booting
    /\ requests = 0 /\ crashes = 0
    /\ drift = {}

-----------------------------------------------------------------------------
(* A handler.                                                              *)

\* Mutant of AddHttps: the site is written before its certificate.
AddHttpsFirst == <<"key", "conf", "crt">>

\* addNginxHttpsFile, updateNginxHttpsFile, removeNginxHttpsFile.
AddHttps    == <<"key", "crt", "conf">>
UpdateHttps == <<"dropConf", "conf">>
RemoveHttps == <<"dropConf", "dropKey", "dropCrt">>

Files(r) ==
    CASE ~IsHttps(r.site) -> <<"http">>
      [] IsHttps(r.site) /\ r.kind = "create" -> AddHttps
      [] IsHttps(r.site) /\ r.kind = "update" -> UpdateHttps
      [] IsHttps(r.site) /\ r.kind = "delete" -> RemoveHttps

Todo(r) == <<"sql">> \o Files(r) \o <<"reload">>

Step == Head(op.todo)

\* A request begins, unless the loop is still waiting for the one before.
Receive(r) ==
    /\ ~Busy /\ keeper.by = "keeper"
    /\ requests < MaxRequests
    /\ requests' = requests + 1
    /\ op' = [pc |-> "work", req |-> r, todo |-> Todo(r), tx |-> db, wrote |-> {},
              run |-> IF keeper.pc = "sleep" THEN "alone" ELSE "together"]
    /\ keeper' = IF keeper.pc = "sleep" THEN keeper ELSE [keeper EXCEPT !.run = "together"]
    /\ UNCHANGED <<db, disk, served, crashes, drift>>

\* A statement of the transaction: an update or a delete that finds no row is
\* not an error.
Executed(r, d) ==
    CASE r.kind = "create" -> [d EXCEPT ![r.site] = r.url]
      [] r.kind = "update" -> [d EXCEPT ![r.site] = IF @ = None THEN None ELSE r.url]
      [] r.kind = "delete" -> [d EXCEPT ![r.site] = None]

At(doing) == Busy /\ op.todo # <<>> /\ Step \in doing

\* Mutant of Statement: the statement is not part of the transaction.
StatementAtOnce ==
    /\ At({"sql"})
    /\ op.req.kind = "create" => op.tx[op.req.site] = None
    /\ op' = [op EXCEPT !.todo = Tail(@), !.tx = Executed(op.req, @)]
    /\ db' = Executed(op.req, db)
    /\ UNCHANGED <<disk, served, keeper, bounds, drift>>

\* An insert fails when the row is there.
Statement ==
    /\ At({"sql"})
    /\ op.req.kind = "create" => op.tx[op.req.site] = None
    /\ op' = [op EXCEPT !.todo = Tail(@), !.tx = Executed(op.req, @)]
    /\ UNCHANGED <<db, disk, served, keeper, bounds, drift>>

\* Mutant of ChangeFile: the rows are read outside the transaction.
ChangeFileCommitted ==
    /\ At(FileSteps)
    /\ disk' = FilesAfter(Step, op.req, db, disk)
    /\ op' = [op EXCEPT !.todo = Tail(@), !.wrote = {op.req.site}]
    /\ UNCHANGED <<db, served, keeper, bounds, drift>>

\* One file is written or removed.
ChangeFile ==
    /\ At(FileSteps)
    /\ disk' = FilesAfter(Step, op.req, op.tx, disk)
    /\ op' = [op EXCEPT !.todo = Tail(@), !.wrote = {op.req.site}]
    /\ UNCHANGED <<db, served, keeper, bounds, drift>>

\* nginx reads its files.
ReloadDone ==
    /\ \A x \in Domains : ~Broken(disk, x)
    /\ served' = Loaded(disk)

\* nginxReload.
Reload ==
    /\ At({"reload"})
    /\ ReloadDone
    /\ op' = [op EXCEPT !.todo = Tail(@)]
    /\ UNCHANGED <<db, disk, keeper, bounds, drift>>

\* An update of an https site that has no row, and yet nginx has loaded it.
Stray == IsHttps(op.req.site) /\ op.req.kind = "update" /\ op.tx[op.req.site] = None

\* What is right again once a handler is through: an http file that the keeper
\* may have written over is not.
Settled ==
    IF IsHttps(op.req.site) THEN (IF Stray THEN {} ELSE {op.req.site})
    ELSE IF op.run = "alone" THEN HttpSites ELSE {}

Unsure == IF ~IsHttps(op.req.site) /\ op.run = "together" THEN {op.req.site} ELSE {}

\* The transaction is committed and the request answered with success.
Commit ==
    /\ Busy /\ op.todo = <<>>
    /\ db' = op.tx
    /\ drift' = (drift \ Settled) \cup Unsure
    /\ op' = Idle
    /\ UNCHANGED <<disk, served, keeper, bounds>>

\* A step fails, without effect or although it took effect, or the commit
\* does; the transaction is rolled back.
Fails ==
    /\ Busy
    /\ \/ UNCHANGED <<disk, served>> /\ drift' = drift \cup op.wrote
       \/ /\ At(Writes)
          /\ disk' = Truncated(Step, DomainOf(op.req.site), disk)
          /\ drift' = drift \cup (IF Step = "http" THEN HttpSites ELSE {op.req.site})
          /\ UNCHANGED served
       \/ At({"reload"}) /\ ReloadDone /\ UNCHANGED disk /\ drift' = drift \cup op.wrote
    /\ op' = Idle
    /\ UNCHANGED <<db, keeper, bounds>>

-----------------------------------------------------------------------------
(* The end of initFiles, for keepDNSAlive and for the boot.                *)

\* named is down, and the other files have been written.
KeeperWakes ==
    /\ keeper.pc = "sleep"
    /\ keeper' = [Asleep EXCEPT !.pc = "list", !.run = IF Busy THEN "together" ELSE "alone"]
    /\ op' = IF Busy THEN [op EXCEPT !.run = "together"] ELSE op
    /\ UNCHANGED <<db, disk, served, bounds, drift>>

KeeperAt(pc) == keeper.pc = pc /\ UNCHANGED <<db, op, bounds>>

\* rewriteNginxHttpFile lists the rows, ...
KeeperLists ==
    /\ KeeperAt("list")
    /\ keeper' = [keeper EXCEPT !.pc = "write", !.read = HttpRows(db)]
    /\ UNCHANGED <<disk, served, drift>>

\* ... writes the file, ...
KeeperWrites ==
    /\ KeeperAt("write")
    /\ disk' = [disk EXCEPT !.http = keeper.read]
    /\ keeper' = [keeper EXCEPT !.pc = "reload"]
    /\ UNCHANGED <<served, drift>>

\* ... and has nginx reload.
KeeperReloads ==
    /\ KeeperAt("reload")
    /\ ReloadDone
    /\ keeper' = Asleep
    /\ drift' = IF keeper.run = "alone" THEN drift \ HttpSites ELSE drift
    /\ UNCHANGED disk

\* Mutant of KeeperFails: keepDNSAlive ends the process as the boot does.
KeeperFailsFatally ==
    /\ keeper.pc \notin {"sleep", "exited"}
    /\ keeper' = [Exited EXCEPT !.by = keeper.by]
    /\ UNCHANGED <<db, disk, served, op, bounds, drift>>

\* The query, the file or the reload fails, or an earlier file of initFiles:
\* then named is not started, and at boot the process ends.
KeeperFails ==
    /\ keeper.pc \notin {"sleep", "exited"}
    /\ keeper' = IF keeper.by = "boot" THEN Exited ELSE Asleep
    /\ \/ UNCHANGED <<disk, drift>>
       \/ /\ keeper.pc = "write"
          /\ disk' = Truncated("http", None, disk)
          /\ drift' = drift \cup HttpSites
    /\ UNCHANGED <<db, served, op, bounds>>

\* The agent process dies and is run again; its transaction is rolled back.
AgentRestarts ==
    /\ crashes < MaxCrashes
    /\ crashes' = crashes + 1
    /\ drift' = IF Busy THEN drift \cup op.wrote ELSE drift
    /\ op' = Idle
    /\ keeper' = Booting
    /\ UNCHANGED <<db, disk, served, requests>>

-----------------------------------------------------------------------------

Next ==
    \/ \E r \in Requests : Receive(r)
    \/ Statement \/ ChangeFile \/ Reload \/ Commit \/ Fails
    \/ KeeperWakes \/ KeeperLists \/ KeeperWrites \/ KeeperReloads \/ KeeperFails
    \/ AgentRestarts

Spec == Init /\ [][Next]_vars

-----------------------------------------------------------------------------
(* Properties.                                                             *)

HttpFile == [Domains -> Urls \cup {None}]

DiskType ==
    [http : HttpFile, conf : HttpFile,
     key : [Domains -> Pairs \cup {None}], crt : [Domains -> Pairs \cup {None}]]

OpType ==
    [pc : {"work"}, req : Requests, todo : Seq({"sql", "reload"} \cup FileSteps), tx : Db,
     wrote : SUBSET Sites, run : {"alone", "together"}]

KeeperType ==
    [pc : {"sleep", "list", "write", "reload"}, by : {"keeper", "boot"},
     read : HttpFile, run : {"alone", "together"}]

\* Every variable has its type; only a boot that fails ends the process.
TypeOK ==
    /\ db \in Db /\ served \in Db
    /\ disk \in DiskType
    /\ op = Idle \/ op \in OpType
    /\ keeper = Exited \/ keeper \in KeeperType
    /\ requests \in 0 .. MaxRequests /\ crashes \in 0 .. MaxCrashes
    /\ drift \subseteq Sites

\* A site on whose files no request is at work is served as the committed
\* table has it, unless a request about it failed half-way, the http file was
\* left empty, or the keeper wrote the http file during a request
\* (dnshandler.go:1115-1179, nameddata_handler.go:205-281).
ServesCommitted ==
    \A s \in Sites \ (drift \cup (IF Busy THEN op.wrote ELSE {})) : served[s] = db[s]

\* A request that brings a key and a certificate that do not belong together,
\* or updates an https site that is not there.
Doomed ==
    /\ Busy /\ op.wrote # {} /\ IsHttps(op.req.site)
    /\ \/ op.req.kind = "create" /\ op.req.key # op.req.crt
       \/ op.req.kind = "update" /\ op.tx[op.req.site] = None

\* nginx can always load the files, in the middle of handlers as well, and so
\* neither a request about another site nor the boot or the keeper, which
\* starts named only after the reload, fails for them; unless a request about
\* an https site left that site broken or is just doing so
\* (nameddata_handler.go:139-141, 227-275).
RefusedFromDrift ==
    \A x \in Domains :
        Broken(disk, x) => <<"https", x>> \in drift \/ (Doomed /\ op.req.site = <<"https", x>>)

\* What is in force of a site: what a handler has not finished does not count.
InForce == [s \in Sites |-> IF Busy /\ s \in op.wrote \ drift THEN db[s] ELSE served[s]]

Promise ==
    INSTANCE Rollout WITH Items <- Sites, Values <- Urls \cup {None},
                          Scopes <- {{s} : s \in Sites}, committed <- db, inForce <- InForce, drift <- drift

\* Requests, the keeper and crashes keep what Rollout promises: a request takes
\* effect as a whole, and one that fails changes no table and touches no site
\* but those it leaves adrift (dnshandler.go:1115-1179).
ImplementsRollout == Promise!Spec
=============================================================================
