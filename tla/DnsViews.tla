------------------------------ MODULE DnsViews ------------------------------
(***************************************************************************)
(* Access lists, views, forward zones, redirections and options: the       *)
(* tables, the configuration files and what named runs with.               *)
(*                                                                         *)
(* pkg/dns/grpcservice/dnshandler.go, lines 164-374, 589-725, 1004-1113    *)
(* and 1181-1283, with the files of nameddata_handler.go.  Inside one      *)
(* transaction a handler changes the tables, writes the files they are     *)
(* shown in, and has named read its configuration again.  If a step fails  *)
(* the transaction is rolled back; the files stay as written, and the next *)
(* reconfiguration, whatever it is for, reads them.  keepDNSAlive may      *)
(* write all files from the tables meanwhile and start named.              *)
(*                                                                         *)
(* named is external.  It refuses a configuration in which a view uses an  *)
(* access list that is not defined.  On a reconfiguration it loads zones   *)
(* it does not have and drops those it no longer has, but keeps what it    *)
(* has loaded: that is why rewriteOneRPZFile first takes the rpz zones out *)
(* of the views.  A zone whose file is not there is not loaded.            *)
(*                                                                         *)
(* A file of rules stands for the rpz or the redirect zone of a view.  The *)
(* code writes it under the name of the view and removes it under its ID,  *)
(* so that a removal may find nothing.                                     *)
(***************************************************************************)
EXTENDS Naturals, Sequences

CONSTANTS
    Views, Acls, Forwards, Names,   \* what the tables are about
    Values,                         \* options, and times to live
    DefaultAcls, AnyAcl,            \* the access lists none and any; any alone
    DefaultView,                    \* the view default, for any
    Requests,      \* the requests that may arrive
    InitialDb,     \* what the tables hold at first
    MaxRequests,   \* bound on the number of requests
    MaxCrashes     \* bound on how often the agent process dies and is run again

Types == {"rpz", "redirect"}

Rule    == [view : Views, type : Types, name : Names, ttl : Values]
Forward == [view : Views, zone : Forwards]

ViewsOf(d) == {row[1] : row \in d.views}

\* The tables; forward zones and redirections belong to a view.
Tables ==
    {d \in [acls : SUBSET Acls, options : Values, views : SUBSET (Views \X Acls),
            forwards : SUBSET Forward, rules : SUBSET Rule] :
        \A row \in d.forwards \cup d.rules : row.view \in ViewsOf(d)}

Kinds == {"createAcl", "updateAcl", "deleteAcl", "createView", "updateView", "deleteView",
          "createForward", "updateForward", "deleteForward", "flush",
          "createRule", "updateRule", "deleteRule", "options", "ttl"}

\* The redirections of a view, one by one.
RuleOf(v) == {{row} : row \in {x \in Rule : x.view = v}}

\* "gone" are the rows a request is about, "rows" those it puts in: one
\* redirection, as it was and as it is to be, or forward zones.
RequestOK(r) ==
    /\ r.kind \in Kinds
    /\ r.view \in Views /\ r.acl \in Acls /\ r.value \in Values
    /\ CASE r.kind = "createRule" -> r.gone = {} /\ r.rows \in RuleOf(r.view)
         [] r.kind = "updateRule" -> r.gone \in RuleOf(r.view) /\ r.rows \in RuleOf(r.view)
         [] r.kind = "deleteRule" -> r.gone \in RuleOf(r.view) /\ r.rows = {}
         [] OTHER -> r.gone \subseteq Forward /\ r.rows \subseteq Forward

ASSUME ViewsAssumption ==
    /\ DefaultAcls \subseteq Acls /\ AnyAcl \in DefaultAcls /\ DefaultView \in Views
    /\ \A r \in Requests : RequestOK(r)
    /\ InitialDb \in Tables
    /\ MaxRequests \in Nat /\ MaxCrashes \in Nat

VARIABLES
    db,        \* the committed tables
    disk,      \* the files
    up,        \* named runs
    run,       \* what named runs with
    op,        \* the request under way
    keeper,    \* keepDNSAlive, and the boot sequence it shares its steps with
    requests,  \* how many requests have arrived
    crashes,   \* how often the agent process has died
    drift      \* history: files that may show something else than the tables

bounds == <<requests, crashes>>
vars   == <<db, disk, up, run, op, keeper, bounds, drift>>

-----------------------------------------------------------------------------
(* Files.                                                                  *)

\* A file of rules that is not there.
Absent == {}

RuleFiles == Types \X Views

\* The files, by name.
AclFile     == <<"acl">>
OptionsFile == <<"options">>
ViewFile    == <<"view">>

Parts == {AclFile, OptionsFile, ViewFile} \cup RuleFiles

FileOf(row) == <<row.type, row.view>>

\* The records of one file of rules; without any it is not written.
RuleFile(d, f) == {<<row.name, row.ttl>> : row \in {x \in d.rules : FileOf(x) = f}}

\* The files of rules the view file names.
Refs(d) == {f \in RuleFiles : RuleFile(d, f) # Absent}

\* The files, written from the tables d.
WrittenAcl(d, files)     == [files EXCEPT !.acls = d.acls]
WrittenOptions(d, files) == [files EXCEPT !.options = d.options]
WrittenView(d, refs, files) ==
    [files EXCEPT !.views = d.views, !.forwards = d.forwards, !.refs = refs]
WrittenRules(d, F, files) ==
    [files EXCEPT !.rules = [f \in RuleFiles |-> IF f \in F \cap Refs(d) THEN RuleFile(d, f) ELSE @[f]]]

RemovedRules(F, files) ==
    [files EXCEPT !.rules = [f \in RuleFiles |-> IF f \in F THEN Absent ELSE @[f]]]

FilesOf(d) ==
    [acls |-> d.acls, options |-> d.options, views |-> d.views, forwards |-> d.forwards,
     refs |-> Refs(d), rules |-> [f \in RuleFiles |-> RuleFile(d, f)]]

\* Every access list that is used is defined.
Defined(d) == \A row \in d.views : row[2] \in d.acls

\* What named runs with once it has read the files, having loaded "had" before.
Read(files, had) ==
    [files EXCEPT !.rules =
        [f \in RuleFiles |->
            IF f \notin files.refs THEN Absent ELSE IF had[f] # Absent THEN had[f] ELSE @[f]]]

Nothing == [f \in RuleFiles |-> Absent]

-----------------------------------------------------------------------------

Idle == [pc |-> "idle"]

Busy == op.pc # "idle"

Asleep == [pc |-> "sleep", by |-> "keeper", run |-> "alone"]

Booting == [pc |-> "defaults", by |-> "boot", run |-> "alone"]

Exited == [pc |-> "exited", by |-> "boot", run |-> "alone"]

\* A handler and the keeper at work at the same time promise nothing.
Together(both) == IF both THEN "together" ELSE "alone"

Overlap(both) == drift' = IF both THEN Parts ELSE drift

Init ==
    /\ db = InitialDb
    /\ disk = FilesOf(InitialDb)
    /\ up \in BOOLEAN            \* named outlives the agent
    /\ run = FilesOf(InitialDb)
    /\ op = Idle
    /\ keeper = Booting
    /\ requests = 0 /\ crashes = 0
    /\ drift = {}

-----------------------------------------------------------------------------
(* The calls of the handlers, in their order.  Each has the files it is    *)
(* about.                                                                  *)

Call(do, files) == [do |-> do, files |-> files]

Sql == <<Call("sql", {})>>
Reconfig == <<Call("reconfig", {})>>

\* Mutant of RewriteView: named is not told.
RewriteViewUntold == <<Call("view", {ViewFile})>>

\* rewriteNamedAclFile, rewriteNamedOptionsFile, rewriteNamedViewFile.
RewriteAcl == <<Call("acl", {AclFile})>> \o Reconfig
RewriteOptions == <<Call("options", {OptionsFile})>> \o Reconfig
RewriteView == <<Call("view", {ViewFile})>> \o Reconfig
RewriteViewNoRPZ == <<Call("noRPZ", {ViewFile})>> \o Reconfig

\* rewriteOneRPZFile, rewriteOneRedirectFile.
RewriteOne(type, v) ==
    LET f == {<<type, v>>} IN
    IF type = "rpz"
    THEN <<Call("remove", f)>> \o RewriteViewNoRPZ \o <<Call("rules", f)>> \o RewriteView
    ELSE <<Call("remove", f), Call("rules", f)>> \o RewriteView

\* rewriteRpzOrRedirectFile.
RewriteRules(v, type, changed) ==
    LET other == CHOOSE t \in Types : t # type IN
    RewriteOne(type, v) \o IF changed THEN RewriteOne(other, v) ELSE <<>>

TypeIn(rows) == (CHOOSE row \in rows : TRUE).type

\* initRPZFile and initRedirectFile.
InitRules(type) ==
    LET F == {type} \X Views IN <<Call("removeAll", F), Call("rules", F)>>

DeleteView(v) ==
    Sql \o <<Call("remove", {<<"rpz", v>>}), Call("remove", {<<"redirect", v>>})>> \o RewriteView

FlushForwardZone(gone, rows) == IF gone \cup rows = {} THEN <<>> ELSE Sql \o RewriteView

CreateRedirection(v, new) == Sql \o RewriteRules(v, TypeIn(new), FALSE)

UpdateRedirection(v, old, new) == Sql \o RewriteRules(v, TypeIn(new), TypeIn(old) # TypeIn(new))

DeleteRedirection(v, old) == Sql \o RewriteRules(v, TypeIn(old), FALSE)

\* The zone files and what named makes of them belong to DnsZones.
UpdateAllRRTtl == <<Call("zones", {})>>

\* UpdateGlobalConfig, with a new TTL.
UpdateTtl == Sql \o UpdateAllRRTtl \o InitRules("rpz") \o InitRules("redirect") \o Reconfig \o RewriteOptions

Calls(r) ==
    CASE r.kind \in {"createAcl", "updateAcl", "deleteAcl"} -> Sql \o RewriteAcl
      [] r.kind \in {"createView", "updateView", "createForward", "updateForward", "deleteForward"} ->
            Sql \o RewriteView
      [] r.kind = "deleteView" -> DeleteView(r.view)
      [] r.kind = "flush"      -> FlushForwardZone(r.gone, r.rows)
      [] r.kind = "createRule" -> CreateRedirection(r.view, r.rows)
      [] r.kind = "updateRule" -> UpdateRedirection(r.view, r.gone, r.rows)
      [] r.kind = "deleteRule" -> DeleteRedirection(r.view, r.gone)
      [] r.kind = "options"    -> Sql \o RewriteOptions
      [] r.kind = "ttl"        -> UpdateTtl

Step == Head(op.todo)

\* The keys that the tables and the statements tell rows of rules by.
Key(row) == <<row.view, row.name>>

KeysOf(rows) == {Key(row) : row \in rows}

\* The files of redirections that a request finds under another type than it
\* says: the statement picks them by their key alone, but the files to be
\* written by the types in the request.
Mistaken(r, d) ==
    IF r.kind \in {"updateRule", "deleteRule"}
    THEN {FileOf(row) : row \in {x \in d.rules : Key(x) \in KeysOf(r.gone)}}
         \ {FileOf(row) : row \in r.gone \cup r.rows}
    ELSE {}

\* The columns of the table of forward zones, and those by which a statement
\* of the query builder picks the rows of a request.
ForwardColumns == {"id", "create_time", "name", "forward_style", "addresses", "agent_view"}

PickedBy(kind) == IF kind \in {"updateForward", "deleteForward"} THEN {"agent_view", "zone"} ELSE {}

\* getDeleteForwardZonesSql: every listed view with every listed zone.
Flushed(r, d) ==
    {row \in d.forwards : \E x, y \in r.gone : row.view = x.view /\ row.zone = y.zone}

\* Unique and foreign keys; and a statement may only name columns there are.
Accepted(r, d) ==
    CASE r.kind = "createAcl"  -> r.acl \notin d.acls
      [] r.kind = "createView" -> r.view \notin ViewsOf(d)
      [] r.kind \in {"createForward", "flush"} ->
            /\ \A row \in r.rows : row.view \in ViewsOf(d)
            /\ r.rows \cap (d.forwards \ Flushed(r, d)) = {}
      [] r.kind \in {"updateForward", "deleteForward"} -> PickedBy(r.kind) \subseteq ForwardColumns
      [] r.kind = "createRule" ->
            r.view \in ViewsOf(d) /\ KeysOf(r.rows) \cap KeysOf(d.rules) = {}
      [] r.kind = "updateRule" ->
            KeysOf(r.gone) \subseteq KeysOf(d.rules) =>
                KeysOf(r.rows) \cap (KeysOf(d.rules) \ KeysOf(r.gone)) = {}
      [] OTHER -> TRUE

\* Mutant of Executed: deleting a view leaves its redirections.
ExecutedNoCascade(r, d) ==
    IF r.kind = "deleteView" THEN [d EXCEPT !.views = {row \in @ : row[1] # r.view}] ELSE d

\* What a request makes of the tables.  Deleting a view deletes what belongs to it.
Executed(r, d) ==
    CASE r.kind = "createAcl" -> [d EXCEPT !.acls = @ \cup {r.acl}]
      [] r.kind = "deleteAcl" -> [d EXCEPT !.acls = @ \ {r.acl}]
      [] r.kind = "createView" -> [d EXCEPT !.views = @ \cup {<<r.view, r.acl>>}]
      [] r.kind = "updateView" ->
            [d EXCEPT !.views = {<<row[1], IF row[1] = r.view THEN r.acl ELSE row[2]>> : row \in @}]
      [] r.kind = "deleteView" ->
            [d EXCEPT !.views = {row \in @ : row[1] # r.view},
                      !.forwards = {row \in @ : row.view # r.view},
                      !.rules = {row \in @ : row.view # r.view}]
      [] r.kind = "deleteForward" -> [d EXCEPT !.forwards = @ \ r.gone]
      [] r.kind \in {"createForward", "flush"} ->
            [d EXCEPT !.forwards = (@ \ Flushed(r, d)) \cup r.rows]
      [] r.kind = "createRule" -> [d EXCEPT !.rules = @ \cup r.rows]
      [] r.kind = "updateRule" ->
            IF KeysOf(r.gone) \subseteq KeysOf(d.rules)
            THEN [d EXCEPT !.rules = {row \in @ : Key(row) \notin KeysOf(r.gone)} \cup r.rows]
            ELSE d
      [] r.kind = "deleteRule" ->
            [d EXCEPT !.rules = {row \in @ : Key(row) \notin KeysOf(r.gone)}]
      [] r.kind = "options" -> [d EXCEPT !.options = r.value]
      [] r.kind = "ttl" ->
            [d EXCEPT !.options = r.value, !.rules = {[row EXCEPT !.ttl = r.value] : row \in @}]
      [] OTHER -> d

-----------------------------------------------------------------------------
(* A handler.                                                              *)

\* A request begins; "wrote" gathers the files it has written or removed.
Receive(r) ==
    /\ ~Busy /\ keeper.by = "keeper"
    /\ requests < MaxRequests
    /\ requests' = requests + 1
    /\ op' = [pc |-> "work", req |-> r, todo |-> Calls(r), tx |-> db,
              wrote |-> {}, stale |-> {}, run |-> Together(keeper.pc # "sleep")]
    /\ keeper' = IF keeper.pc = "sleep" THEN keeper ELSE [keeper EXCEPT !.run = "together"]
    /\ Overlap(keeper.pc # "sleep")
    /\ UNCHANGED <<db, disk, up, run, crashes>>

Proceed(doing) ==
    /\ Busy /\ op.todo # <<>> /\ Step.do \in doing
    /\ UNCHANGED <<db, up, keeper, bounds, drift>>

\* "zones" is UpdateAllRRTtl, whose files belong to DnsZones.
Statement ==
    /\ Proceed({"sql", "zones"})
    /\ Step.do = "sql" => Accepted(op.req, op.tx)
    /\ op' = [op EXCEPT !.todo = Tail(@),
                        !.tx = IF Step.do = "sql" THEN Executed(op.req, @) ELSE @]
    /\ UNCHANGED <<disk, run>>

\* Mutant of Shown: existRPZ does not take the rpz zones out of the views.
ShownAlways(do, d, F, files) ==
    CASE do = "acl"     -> WrittenAcl(d, files)
      [] do = "options" -> WrittenOptions(d, files)
      [] do \in {"view", "noRPZ"} -> WrittenView(d, Refs(d), files)
      [] do = "rules"   -> WrittenRules(d, F, files)
      [] OTHER -> files

\* The files, after one of them has been written for the tables d.  The view
\* file without rpz is without it for every view.
Shown(do, d, F, files) ==
    CASE do = "acl"     -> WrittenAcl(d, files)
      [] do = "options" -> WrittenOptions(d, files)
      [] do = "view"    -> WrittenView(d, Refs(d), files)
      [] do = "noRPZ"   -> WrittenView(d, {f \in Refs(d) : f[1] # "rpz"}, files)
      [] do = "rules"   -> WrittenRules(d, F, files)
      [] OTHER -> files

\* Rules that named goes on with although their file is new: redirect zones
\* are not taken out of the views first, and neither is any zone for a new ttl.
Kept(F) ==
    {f \in F : run.rules[f] # Absent /\ (f[1] = "redirect" \/ op.req.kind = "ttl")}

Write ==
    /\ Proceed({"acl", "options", "view", "noRPZ", "rules"})
    /\ (Step.do = "rules" /\ op.req.kind # "ttl") => op.req.view \in ViewsOf(op.tx)
    /\ disk' = Shown(Step.do, op.tx, Step.files, disk)
    /\ op' = [op EXCEPT !.todo = Tail(@), !.wrote = @ \cup Step.files,
                        !.stale = @ \cup (IF Step.do = "rules" THEN Kept(Step.files) ELSE {})]
    /\ UNCHANGED run

Removed(F) == disk' = RemovedRules(F, disk)

\* removeFile under the ID of the view, removeFiles by prefix.
RemoveFiles ==
    /\ Proceed({"remove", "removeAll"})
    /\ \/ Removed(Step.files)
       \/ Step.do = "remove" /\ UNCHANGED disk
    /\ op' = [op EXCEPT !.todo = Tail(@), !.wrote = @ \cup Step.files]
    /\ UNCHANGED run

\* named reads the files.
ReconfigDone == up /\ Defined(disk) /\ run' = Read(disk, run.rules)

\* rndcReconfig.
ReconfigDNS ==
    /\ Proceed({"reconfig"})
    /\ ReconfigDone
    /\ op' = [op EXCEPT !.todo = Tail(@)]
    /\ UNCHANGED disk

\* The transaction is committed and the request answered with success: the
\* files it wrote show the tables, but those of redirections it was mistaken
\* about do not.
Commit ==
    /\ Busy /\ op.todo = <<>>
    /\ db' = op.tx
    /\ drift' = (IF op.run = "alone" THEN drift \ op.wrote ELSE drift)
                    \cup op.stale \cup Mistaken(op.req, db)
    /\ op' = Idle
    /\ UNCHANGED <<disk, up, run, keeper, bounds>>

\* A step fails, without effect or although it took effect, or the commit
\* does; the transaction is rolled back.
Fails ==
    /\ Busy
    /\ \/ UNCHANGED <<disk, run>>
       \/ /\ op.todo # <<>> /\ Step.do \in {"remove", "removeAll", "rules"}
          /\ Removed(Step.files)
          /\ UNCHANGED run
       \/ op.todo # <<>> /\ Step.do = "reconfig" /\ ReconfigDone /\ UNCHANGED disk
    /\ drift' = drift \cup op.wrote \cup op.stale \cup (IF op.todo = <<>> THEN {} ELSE Step.files)
    /\ op' = Idle
    /\ UNCHANGED <<db, up, keeper, bounds>>

-----------------------------------------------------------------------------
(* reconfigOrStartDNS: initFiles writes one file after the other, each     *)
(* from the tables as they are by then.                                    *)

\* GetDNSState answered, and named is down.
KeeperWakes ==
    /\ keeper.pc = "sleep"
    /\ ~up
    /\ keeper' = [pc |-> "defaults", by |-> "keeper", run |-> Together(Busy)]
    /\ op' = IF Busy THEN [op EXCEPT !.run = "together"] ELSE op
    /\ Overlap(Busy)
    /\ UNCHANGED <<db, disk, up, run, bounds>>

\* The rows that are always there.
WithDefaults(d) ==
    [d EXCEPT !.acls = @ \cup DefaultAcls,
              !.views = IF DefaultView \in ViewsOf(d) THEN @ ELSE @ \cup {<<DefaultView, AnyAcl>>}]

\* initDefaultDbData, a transaction of its own: it waits for a handler's that
\* has put in the same row, and no file shows what it puts in.
Defaults ==
    /\ keeper.pc = "defaults"
    /\ Busy => /\ (op.tx.acls \ db.acls) \cap DefaultAcls = {}
               /\ DefaultView \notin ViewsOf(op.tx) \ ViewsOf(db)
    /\ LET missing(f) == WithDefaults(db)[f] \ db[f]
           With(d) == [d EXCEPT !.acls = @ \cup missing("acls"), !.views = @ \cup missing("views")]
       IN  /\ db' = With(db)
           /\ op' = IF Busy THEN [op EXCEPT !.tx = With(@)] ELSE op
           /\ drift' = drift \cup (IF missing("acls") # {} THEN {AclFile} ELSE {})
                            \cup (IF missing("views") # {} THEN {ViewFile} ELSE {})
    /\ keeper' = [keeper EXCEPT !.pc = "options"]
    /\ UNCHANGED <<disk, up, run, bounds>>

NextFile(pc) ==
    CASE pc = "options" -> "view" [] pc = "view" -> "acl" [] pc = "acl" -> "rpz"
      [] pc = "rpz" -> "redirect" [] pc = "redirect" -> "start"

\* Mutant of InitFile: the rpz files are not written again.
InitFileWithoutRPZ ==
    /\ keeper.pc \in {"options", "view", "acl", "rpz", "redirect"}
    /\ disk' = IF keeper.pc = "redirect" THEN WrittenRules(db, {keeper.pc} \X Views, disk)
               ELSE IF keeper.pc = "rpz" THEN [disk EXCEPT !.rules = Nothing]
               ELSE Shown(keeper.pc, db, {}, disk)
    /\ keeper' = [keeper EXCEPT !.pc = NextFile(@)]
    /\ UNCHANGED <<db, up, run, op, bounds, drift>>

InitFile ==
    /\ keeper.pc \in {"options", "view", "acl", "rpz", "redirect"}
    /\ disk' = IF keeper.pc \in Types
               THEN LET F == {keeper.pc} \X Views IN WrittenRules(db, F, RemovedRules(F, disk))
               ELSE Shown(keeper.pc, db, {}, disk)
    /\ keeper' = [keeper EXCEPT !.pc = NextFile(@)]
    /\ UNCHANGED <<db, up, run, op, bounds, drift>>

\* StartDNS, or at boot rndcReload of a named that runs: it reads every file.
Start ==
    /\ keeper.pc = "start"
    /\ Defined(disk)
    /\ up' = TRUE
    /\ run' = Read(disk, Nothing)
    /\ keeper' = Asleep
    /\ drift' = IF keeper.run = "alone" THEN {} ELSE drift
    /\ UNCHANGED <<db, disk, op, bounds>>

\* A query, a file or ddi-monitor fails.  At boot the process ends, unless it
\* is the start or the reload that failed: its error is lost in the err that
\* the if declares.
KeeperFails ==
    /\ keeper.pc \notin {"sleep", "exited"}
    /\ keeper' = IF keeper.by = "boot" /\ keeper.pc # "start" THEN Exited ELSE Asleep
    /\ \/ UNCHANGED <<disk, drift>>
       \/ /\ keeper.pc \in Types
          /\ Removed({keeper.pc} \X Views)
          /\ drift' = drift \cup ({keeper.pc} \X Views)
    /\ UNCHANGED <<db, up, run, op, bounds>>

-----------------------------------------------------------------------------
(* The environment.                                                        *)

NamedDies ==
    /\ up
    /\ up' = FALSE
    /\ UNCHANGED <<db, disk, run, op, keeper, bounds, drift>>

\* The agent process dies and is run again; its transaction is rolled back.
AgentRestarts ==
    /\ crashes < MaxCrashes
    /\ crashes' = crashes + 1
    /\ drift' = IF Busy THEN drift \cup op.wrote \cup op.stale ELSE drift
    /\ op' = Idle
    /\ keeper' = Booting
    /\ UNCHANGED <<db, disk, up, run, requests>>

Next ==
    \/ \E r \in Requests : Receive(r)
    \/ Statement \/ Write \/ RemoveFiles \/ ReconfigDNS \/ Commit \/ Fails
    \/ KeeperWakes \/ Defaults \/ InitFile \/ Start \/ KeeperFails
    \/ NamedDies \/ AgentRestarts

Spec == Init /\ [][Next]_vars

-----------------------------------------------------------------------------
(* Properties.                                                             *)

Content == SUBSET (Names \X Values)

\* The files, and what named makes of them.
Files ==
    [acls : SUBSET Acls, options : Values, views : SUBSET (Views \X Acls),
     forwards : SUBSET Forward, refs : SUBSET RuleFiles, rules : [RuleFiles -> Content]]

Dos == {"sql", "zones", "acl", "options", "view", "noRPZ", "rules", "remove", "removeAll", "reconfig"}

\* A request under way.
Operation ==
    [pc : {"work"}, req : Requests, todo : Seq([do : Dos, files : SUBSET Parts]), tx : Tables,
     wrote : SUBSET Parts, stale : SUBSET Parts, run : {"alone", "together"}]

KeeperSteps == {"sleep", "defaults", "options", "view", "acl", "rpz", "redirect", "start", "exited"}

\* Every variable has its type, and the tables keep their foreign keys.
TypeOK ==
    /\ db \in Tables
    /\ disk \in Files /\ run \in Files
    /\ up \in BOOLEAN
    /\ op = Idle \/ op \in Operation
    /\ keeper \in [pc : KeeperSteps, by : {"keeper", "boot"}, run : {"alone", "together"}]
    /\ requests \in 0 .. MaxRequests /\ crashes \in 0 .. MaxCrashes
    /\ drift \subseteq Parts

\* What may be different: drifted before, or being changed.
Unsettled == drift \cup (IF Busy THEN op.wrote ELSE {})

\* A running named goes by the committed tables, in all that no failed request
\* has left different on disk: the half-done work of a request that failed or
\* was cut off does not spread to other files, the rpz zones of one view come
\* back from a change in another, and a start puts everything right
\* (nameddata_handler.go:356-430, 506-525, 660-679).
RunsAsCommitted ==
    up =>
        /\ AclFile \notin Unsettled => run.acls = db.acls
        /\ OptionsFile \notin Unsettled => run.options = db.options
        /\ ViewFile \notin Unsettled =>
            /\ run.views = db.views /\ run.forwards = db.forwards
            /\ \A f \in RuleFiles \ Unsettled : run.rules[f] = RuleFile(db, f)

\* When a handler has named read its configuration, the files of rules that
\* the view file names are there, unless one was lost by a request that failed,
\* or the view file itself was left by one and has not been written since
\* (nameddata_handler.go:633-648, 660-679, dnshandler.go:352-371).
ReferencedExist ==
    Busy /\ op.todo # <<>> /\ Step.do = "reconfig" /\ ViewFile \notin drift \ op.wrote =>
        \A f \in disk.refs \ drift : disk.rules[f] # Absent

\* Views whose access list is not in the tables: with these named does not start.
Dangling == {row \in db.views : row[2] \notin db.acls}

\* No view is committed with an access list the tables do not have, although
\* no foreign key says so: named refuses it.  But named looks at the files, so
\* that an access list left there by a request that failed, or a view that does
\* without one there, lets it through
\* (nameddata_handler.go:506-525, dnshandler.go:213-273).
DanglingFromDrift == [][Dangling' \ Dangling # {} => {AclFile, ViewFile} \cap drift # {}]_vars
=============================================================================
