# Verification of ddi-agent in TLA+

ddi-agent runs on a node that serves DNS and DHCP. A controller sends it
commands through Kafka; the agent keeps the DNS data in PostgreSQL, writes the
configuration of named (BIND), tells named and Kea about changes, and restarts
them when they die. This directory holds TLA+ models of it, TLC configurations
that check them, and proofs that TLAPS checks. The reference is the code; it
has no design document, and its tests are older than its API and do not
compile, but they say what a call is expected to do. Paths are relative to the
repository, and `dnshandler.go`, `nameddata_handler.go` and `dhcphandler.go`
are those under `src/pkg/dns/grpcservice` and `src/pkg/dhcp/grpcservice`.

## 1. Inventory

| Part | State | Operations | Hard behaviour | What makes it correct |
|---|---|---|---|---|
| Boot (`cmd/agent`) | global variables: database, client of ddi-monitor, producer | connects, boots the DNS and DHCP services, starts the consumers | goroutines use the globals while `main` still sets them; an error anywhere ends the process, named and Kea go on | what is used is set; state outside the process is picked up again |
| Command consumers (`kafkaconsumer`) | offset of a consumer group | read, dispatch by key, call over gRPC in the same process, send the event | offset committed first, failed reads, rebalances, calls without deadline, crashes | at most once, in order, answers tell the truth |
| Event producer | none | `SendAgentEventMessage`, `SendUploadMessage` | failures are only logged | as above |
| DNS lifecycle | ticker, quit channel, keeper goroutines; named itself | `StartDNS`, `StopDNS`, `keepDNSAlive` | goroutines that share one ticker and one channel, restarts racing stops | a stopped named stays down, a dead one is revived, calls return |
| DNS zones and records | tables of zones and records, zone files, nzf files, named's zones | create, update, delete of zones and records, AXFR, IXFR, batches | files and named are not transactional; keeper; UDP | named serves what is committed |
| DNS views and friends | tables of access lists, views, forward zones, redirections, options; their files; named's configuration | create, update, delete, flush, global options | as above; files refer to one another | named runs what is committed; no dangling reference |
| Nginx proxy | table, one file of http sites, a file, a key and a certificate for each https site; nginx itself | create, update, delete | files and nginx are not transactional; one broken site refuses every reload; keeper | nginx serves what is committed; one request's mistake stops nobody else |
| Log upload | an FTP connection, a goroutine | `UploadLog` | the goroutine outlives the request; server hangs; names by the second; status messages get lost | reports keep their order and their word; each upload is told to have ended |
| DHCP configuration | `h.conf`, two files, Kea's running configuration | 25 handlers, `monitor`, boot | copy and rollback, reload without the lock, crash between set and write | the three copies agree; what was acknowledged stays |
| Lease queries | none | nine `Get...` functions that read Kea's tables | rows cut short, two statements of two moments, address families and bounds of pools | answers list and count the right leases |
| Metrics | last counter, time and rate of DNS and of DHCP | two samplers, `Collect` | counter wrap and restarts, servers that fail, statistics in the order of a map | rates, ratios and counts are true of something |

The parts interact as follows. `main` starts the gRPC services, which boot
their handlers, and then the two consumers. A consumer is the only client that
changes anything, and it waits for each call; hence the handlers of one service
run one after the other, with two exceptions that make most of the trouble: the
keeper goroutines of the DNS handler and the monitor goroutine of the DHCP
handler, which do the same work as the boot (`reconfigOrStartDNS`,
`reconfigOrStartDHCP`) at any time, without a lock, from data they read
themselves. ddi-monitor is a program of its own, called over gRPC, that starts
and stops named and Kea and runs rndc; Kea is reconfigured over HTTP.

The hazards that follow from this are listed, with their lines and the
properties that would catch them, in `PROJECT.json`.

## 2. Modules

| Module | Models | Extends / uses |
|---|---|---|
| `DnsLifecycle` | `dnshandler.go:78-162` | |
| `DnsLifecycle_proofs` | its theorems | `DnsLifecycle` |
| `DhcpConf` | a configuration and what each kind of request makes of it, with the arrays that copies share (`dhcphandler.go:255-1065`) | |
| `DhcpConfig` | the handlers, rollback, monitor and boot of DHCP | `DhcpConf` |
| `DhcpConfig_proofs` | its theorems | `DhcpConfig` |
| `DnsZones` | zones and records; implements `Rollout` | instance of `Rollout` |
| `DnsZones_proofs` | its theorems, the refinement among them | `DnsZones` |
| `DnsViews` | access lists, views, forward zones, redirections, options | |
| `DnsViews_proofs` | its theorems | `DnsViews` |
| `CommandLog` | the promise: at-most-once, in-order execution with truthful answers | |
| `AgentPipeline` | consumers, Kafka offsets, calls, events, crashes; implements `CommandLog` | instance of `CommandLog` |
| `AgentPipeline_proofs` | its theorems, the refinement among them | `AgentPipeline` |
| `Rollout` | the promise of a component that keeps a table and rolls it out to a server: a request takes effect as a whole or not at all, and what a failure leaves is confined to the items it was about | |
| `NginxProxy` | sites, their files and what nginx serves; implements `Rollout` | instance of `Rollout` |
| `NginxProxy_proofs` | its theorems, the refinement among them | `NginxProxy` |
| `UploadReport` | the promise: reports keep their order, and "done" is said of what the server confirmed | |
| `LogUpload` | the uploads and their goroutines; implements `UploadReport` | instance of `UploadReport` |
| `AgentBoot` | `main` and what it starts and sets | |
| `AgentProcess` | the uploads in the process that runs them | `LogUpload`, `AgentBoot` |
| `AgentProcess_proofs` | its theorems, the refinement of `UploadReport` among them | `AgentProcess` |
| `DnsCollector` | the rate of queries and the cache ratios | |
| `DhcpCollector` | the rate of leases and their number | |
| `LeaseQueries` | the queries for leases, with the order of addresses | |
| `Observers` | these three, one at a time | `DnsCollector`, `DhcpCollector`, `LeaseQueries` |
| `Observers_proofs` | its theorems | `Observers` |

`MCDhcpConfig`, `MCDnsZones`, `MCDnsViews`, `MCAgentPipeline`, `MCNginxProxy`,
`MCAgentProcess` and `MCObservers` give the constants their values for TLC.
Operators named "Mutant of ..." are plausible slips of the definition that
follows them; nothing uses them. They keep the properties honest: with the slip
in place, the property must fail.

### DnsLifecycle

`named`, `ticker`, `tick` (the one-place channel of the ticker) and `keeper`
(where each `keepDNSAlive` goroutine is) are the state; `caller` is the process
that gives lifecycle commands, first the boot and then the Kafka loop. A
`StartDNS` goes through `Prepare` (`initDefaultDbData`, `initFiles`),
`GetDNSState` and `RndcReload` or `MonitorStartDNS`, and leaves a new keeper. A
`StopDNS` is `MonitorStopDNS` followed by `Quit`, the rendezvous with one
keeper, whose deferred call stops the shared ticker. The errors of the reload
and of the start are lost in a shadowed `err` (`dnshandler.go:120-132`), so
those steps always end in `StartReturns`. `balance` and `wanted` are history.

### DhcpConf and DhcpConfig

A configuration is the interfaces to listen on, the global settings and a list
of entries (subnets, client classes) with items
(pools, pd-pools, reservations). `Settings` is all of it but the interfaces,
which are the host's and no request's. `Apply` is what a handler builds;
`Original` is what is left of the configuration it copied, because
`genDhcp4ConfFromDeepCopy` copies entries and not their nested slices: an
update of an item shows in both, and a delete moves items down in the shared
array and leaves the original's length alone. The handlers of the seven kinds
of objects are alike, so that one action stands for all of them; the lines in
`PROJECT.json` name one kind each.

In `DhcpConfig`, `conf`, `file` and `kea` are the three copies of each
service's configuration and `up` the servers that run. `host` is what
ddi-monitor says the interfaces are; `HostMoves` changes them. Before
`genDhcp4ConfFromDeepCopy` and its v6 counterpart copy, they assign the host's
interfaces to `h.conf` itself (`dhcphandler.go:286`, `454`), and nothing takes
that back: `Build` and `BuildFails` do the same (`OnHost`, `Source`, `Assign`),
the latter for the services that were copied by then (`Copied`). A reload that
finds other interfaces in a file writes it again (`LoadFile`, `RewriteFile`).
A handler goes
`Receive`, `Build`, `Set`, `WriteFirst`/`WriteLast`, or, after an error, to
`RollbackSet`, `RollbackWrite`; the failing variants say which effects remain.
`mon` is the monitor goroutine and the boot: `LoadFile`, `RewriteFile`,
`StoreConf`, then `StopDHCP` and `StartDHCP`, or at boot `BootSet`,
`BootWrite`. As with named, errors of these last four are lost at boot, and the
agent goes on. `op.of` says whether `h.conf` is still what the handler copied.

`acked`, `drift` and `lost` are history: what was last acknowledged, where the
three copies may differ, and where an acknowledged change may be gone. They are
never read by the code's steps. `ahead` is history too: the services of which
`h.conf` or the file may have newer interfaces than Kea, as after a request that
was refused before Kea was asked. Only the failures that the code leaves behind
enter into `drift` and `lost`: a failed rollback, a crash, a handler and a
reload at the same time, a change of a shared array, the first half of
`UpdateGlobalConfig`. Everything else, including every failure that is rolled
back, must leave the copies equal in their settings, and outside `ahead` in
their interfaces too.

### DnsZones

`db` is the committed tables, `op.tx` those of the open transaction, `file` and
`nzf` the files, `served` what a running named answers with. `Calls` gives the
calls of each handler in their order, by an operator named for the handler, and
one action carries out each kind of call: `Statement`, `WriteZoneFile`, `Rndc`,
`UpdateRR`, `Dump`, `Commit`. `Fails` is any call (or the commit) failing,
before or after it took effect. `UpdateRRRefused` is an update whose refusal the
code does not look at. No call has a deadline, so that each may be one that does
not return (`NeverReturns`): a datagram is lost, or ddi-monitor does not answer,
with the effect of the call or without. The handler is then `"blocked"` until
the agent is run again.

`runs` are the runs of `reconfigOrStartDNS` under way, one for each of
`Runners`: that of the boot (`Booting`), those of keepers that found named down
(`KeeperWakes`) and that of a `StartDNS` command (`StartCommanded`). No lock keeps
them apart, so that any number begin beside each other and beside a handler.
Each does `ListZones`, `ListRows`, `WriteFiles`, `WriteNzfs`, from the tables
committed at that moment, and then `Start` if it is a keeper's, or else
`GetDNSState` and `Start` or `Reload`. What `ListZones` of one run removes,
another may have just written and be about to start named with.

`drift` is history: the zones on which a request failed after it had told named
something or whose update named refused; and all zones once a run overlapped a
request or another run (`Overlap`), since there nothing can be said. A run that
nothing has overlapped (`run` is `"alone"`) empties it at its end.

`ImplementsRollout` maps the module to `Rollout`: the items are the zones with
their records, what is committed is `Expected(db, z)`, and in force is what
named serves; while named is down, nothing but what is committed is said to be.
Steps that a handler has taken and not yet committed do not count.

`RequestOK` is what the handlers take for granted of a request and do not look
at: they write and load the files of the zones the request names, so that the
records that come with it have to be of these zones (`dnshandler.go:376-403`,
`517-563`, `841-888`), and the zone of a batch is that of its first record
(`932-933`). A record of another zone would reach its table and never named.
An empty batch does nothing.

### DnsViews

`disk` holds the files and `run` what named has loaded. `Calls`, `Statement`,
`Write`, `RemoveFiles`, `ReconfigDNS`, `Commit` and `Fails` work as above.
named refuses a configuration that uses an access list that is not defined, and
a reconfiguration does not read again the file of a zone that is loaded: this is
inferred from `rewriteOneRPZFile`, which takes the rpz zones out of the view
file and reconfigures before it puts them back (`nameddata_handler.go:660-679`).
A file of rules is written under the view's name and removed under its ID
(`661`, `362`), so a removal may find nothing. `Defaults` is
`initDefaultDbData`, with which boot and keeper begin: it puts back the
standard access lists and the standard view when they are missing, in a
transaction of its own, and tells neither files nor named.

`drift` is history, as in `DnsZones`, of what failed requests left different
between tables, files and named. A request may also commit and leave something
behind (`Mistaken`): the statements of an update or a deletion of a redirection
go by its name and view alone, whatever type the request says, and the file
that is written is that of the type said (`dnshandler.go:1065-1113`), so that
the file of the type the row had stays as it was. An update that would take the
key of another row is refused by the table (`Accepted`). A request is about one
redirection of one view (`RequestOK`).

### NginxProxy

`db` is the table, `disk` the files, `served` what nginx goes by. A handler goes
through `Statement`, one `ChangeFile` for each file it writes or removes,
`Reload` and `Commit`; `Fails` may come at any of them, with the file left as
it was, written, or empty, and with the reload done or not. The boot and the
keeper come to `rewriteNginxHttpFile` with the http file only (`KeeperLists`,
`KeeperWrites`, `KeeperReloads`); they start named only after nginx has taken
the reload. A reload is refused when an https site has no key or certificate or
when they do not belong together, which the agent does not look at. `drift` is
history: sites whose request failed after it had written, all http sites after
their file was left empty or was written by handler and keeper together. A
handler or keeper that has the http file to itself empties it of http sites.

### LogUpload, UploadReport, AgentBoot, AgentProcess

`pc[u]` follows upload `u` through `UploadLog`, which the loop of commands waits
for, and `doUploadLog`, which it does not. `Tell` is `sendUploadKafkaMsg`: it
succeeds, or fails with the message sent or not. A file is named after the
second its transfer begins in (`name`), so that two uploads may write one file
(`store`). `StorHangs` and `CallHangs` are a server that stops answering: the
five seconds of `DialWithTimeout` are for the connection alone. `UploadReport`
knows of reports and confirmations only.

`AgentBoot` takes the steps of `main` with either service on or off; each says
which global variables it sets and which goroutines it starts, and `Uses` says
what these dereference. `Ends` is a `log.Fatalf` of `main`, one of the metrics
server's goroutine at any later time, or a kill. `AgentProcess` puts both
together: `Takes` wants the consumer and the handlers of DNS, `Dies` ends both.

### DnsCollector, DhcpCollector, LeaseQueries, Observers

The three observe and change nothing of the agent's, and they share no state,
so `Observers` follows one of them in each behaviour, chosen at first.

`DnsCollector`: `counter` is named's, which grows, wraps and starts again with
named; `Sample` is the ticker's branch of `Run`, `SampleUnlisted` the one in
which named does not list the counter, `Collect` a scrape. `sampled` is history:
what happened in the time the kept rate is about. A ratio is the pair of its terms.

`DhcpCollector`: a job asks the v4 server, then the v6 server (`Answers`,
`Fails`), and adds up the statistics in any order (`Counts`, over
`SetToSeqs`), while kea grants and ends leases and its pools come and go. `Run`
keeps a rate (`Store`), `Collect` exports a count (`Export`). `events`, `mark`
and `period` are history: what each server granted between two of its answers.

`LeaseQueries`: a call is a statement (`Query`, `QueryRow`), whose rows are read
one by one (`ReadRow`) until they end (`RowsEnd`) or the connection breaks
(`ConnectionBreaks`), which the code takes for the same, as it does not ask
`rows.Err`. `GetSubnetsLeasesCount` does this twice. `always` and `ever` are
history: the leases there were all through the call, and at some time of it.
The hardware address of a lease is bytes and that of a request text: the
database compares the bytes with what it takes the text for (`AsBytes`: its
characters), the caller means the bytes it stands for (`Named`).

### AgentPipeline and CommandLog

A topic is a sequence of commands with the consumer group's offset. `Read` is
kafka-go's `ReadMessage`, which commits before it returns; `ReadFails` a fetch
whose commit failed, whose message is skipped; `Rejoin` a rebalance. A loop goes
`Dispatch`, `Call`, one of the handler's ends, `Send`. `HandlerBlocks` is a
handler that never returns, as `DnsLifecycle` and `DnsZones` show there are.
`CommandLog` knows nothing of offsets: commands are executed at most once and in
order, and answered at most once and truthfully.

## 3. What the runs check

| Run | Bounds | Distinct states |
|---|---|---|
| `dns_lifecycle` | 2 keepers, 1 crash | 1,742 |
| `dns_stop`, `dns_stop_blocks` | 1 keeper, no crash | to the violation |
| `dhcp_config` | 2 requests of 4, 1 crash, 1 change of the interfaces | 5.57 million |
| `dhcp_revival` | 1 request of 7, no crash, 1 change of the interfaces | 93,000 |
| `dhcp_rollback` | 1 request of 7, no crash, 1 change of the interfaces | to the violation |
| `dns_zones` | 3 requests of 9 and commands, 1 crash, 2 runs at a time, 2 zones, 2 records | 1.86 million |
| `dns_views` | 2 requests of 17, 1 crash, 2 views, 3 access lists, 3 names | 2.8 million |
| `nginx` | 2 requests, 1 crash, 2 domains, 2 urls, 2 pairs of key and certificate | 182,000 |
| `upload` | 2 uploads of this node and one of another, 2 seconds, 2 runs of the process | 318,000 |
| `observers` | a counter up to 3, 5 queries and 2 units of time between samples, 2 views; a subnet of each version with 1 lease of a kind, 2 events; 6 leases, 2 changes during a call | 866,000 |
| `pipeline` | 2 consumers, 2 commands each, 1 crash | 56,000 |

The bounds are enough for the cases the properties are about. Two requests: the
second meets whatever the first left, as what may be left is a matter of each
zone, view, file or service; the zones get a third, since a zone can be made,
given a record and deleted only in three, and the requests of the run do just
that with the zone that is not there at first. The pairs of `dhcp_config` leave
out creates, which look for nothing, and the update of an item, which shares
what its delete shares; `dhcp_revival` has all kinds, and the theorems are
about any requests. One change of the interfaces: a request or a reload before
it and one after it. Two runs of `reconfigOrStartDNS`: a third could only overlap as the second does, and the
runs of the model are alike (`MCSymmetry`), so that it is sound not to tell one
from the other. One crash: a crash forgets everything but the files, tables and
servers, and the state after it is one the model also starts from. Two keepers:
one takes the quit signal while the other is restarting named. Two commands and
two consumers: an order, and a second loop that must not be held up. Two
uploads: one file of a second for two, and a loop that goes on while a goroutine
works. Two runs of the process: the second must not meet anything of the first.
A counter up to 3 with five queries wraps, wraps to the reading it had, and
wraps further than that. One lease of a kind in a subnet, with two kinds in the
v6 subnet: sums of two statistics, in each order. Six leases: one version's
subnet that is also the other's, two leases of a client, the bounds of a pool
and one between. Deaths of named and Kea, failures, ticks and reloads have no
bound.

What they show:

- **KeepersBalance, StopsStay** (`dns_lifecycle`): each stop ends exactly one of
  the keepers that starts left behind; with as many stops as starts nothing
  starts named any more. **DeadNamedRevived**: as long as there have been more
  starts than stops and no stop has stopped the shared ticker, a dead named is
  revived. **MatchedStopReturns**: a stop with a keeper alive returns.
- **StoppedIsDown**, **StopReturns** fail; see section 6.
- **Synced**, **AckedSurvives**, **RollbackTargetKept** (`dhcp_config`): outside
  `drift`, agent, file and running Kea agree in their settings whenever no
  handler is at work, and outside `ahead` in the interfaces too; outside `lost`,
  the settings last acknowledged are `h.conf`'s; and a rollback sends what
  `h.conf` was before the request, with the interfaces the copy took from the
  host (so not quite what was in force), unless the request changed a nested
  slice or a reload interfered. **KeaRevived** (`dhcp_revival`): the monitor
  brings dead servers up.
- **ServedAsCommitted** (`dns_zones`): outside `drift`, a running named serves
  the committed zones and records, whatever ran at the same time before and
  however many keepers there are. **OrphansFromDrift**: records come to be
  without their zone only where named and the tables had fallen out before.
  **ImplementsRollout**: no step does anything to zones it is not about, a
  request that fails changes no table, and the effect on tables and named is one.
- **RunsAsCommitted**, **ReferencedExist**, **DanglingFromDrift** (`dns_views`):
  the same for the configuration, its files of rules, and the access lists that
  views use.
- **ImplementsCommandLog** (`pipeline`): refinement. **NoneForgotten**: a command
  that has an event and was passed has had it, unless reading or sending failed
  or the agent died on it. **EachPassed**: a loop passes each command unless its
  own handler blocks or the agent is down.
- **ServesCommitted** (`nginx`): outside `drift`, nginx serves the table.
  **RefusedFromDrift**: files that nginx would refuse are there only for an https
  site whose request failed half-way, or while such a request is at work; all
  other orders of keys, certificates and site files are safe at every step.
  **ImplementsRollout**: as for the zones.
- **ImplementsReport**, **DoneMeansStored** (`upload`): a report is never taken
  back, "done" is only said of what the server confirmed, and the file is whole
  under its name unless an upload of the same second wrote over it.
  **UploadsEnd**: an upload reported to be under way is reported to have ended
  unless a report is lost, the server hangs or the process ends. **UsedAreSet**:
  nothing runs before what it uses is set.
- **RateTrue** (`observers`): between two samples without a restart of named (after
  one the rate may be anything) the rate is never too large, and too small only by
  what is divided away, one query for a wrap, and all queries after a reading of
  zero. **RatiosWeighed**: the overall cache ratio lies among the views'.
  **CountedRight**: the exported number of leases does not depend on the order
  of the statistics. **LpsTrue**: a kept rate of leases is true of what each
  server granted between its two answers, while pools stay. **AnswersTruthful**,
  **SubnetCountsTruthful**: lists and counts lie between the leases there always
  were and those there ever were. Missing may be leases when the connection broke, the
  leases at the two bounds of a v6 pool, and those of a reservation whose
  hardware address the database does not read as bytes.

Deadlock is not checked where the system may stop: the process ends when a boot
fails, and the bounds on requests and crashes are reached. In `observers` it is:
somebody can always ask again.

## 4. Fairness

- `DnsLifecycle`: goroutines and ticker run (weak); a keeper that keeps meeting a
  waiting sender takes its signal in the end, since `select` draws among its
  ready cases (strong `Quit`); ddi-monitor and the database do not fail a
  keeper's calls for ever (strong). Commands, deaths and crashes are not fair.
- `DhcpConfig`: the monitor loop never returns and goes on; what it asks for does
  not fail for ever.
- `AgentProcess`: a goroutine goes on with its upload (weak, one condition for each
  upload). The server is not fair: it may hang. Nor are boots and restarts.
- `AgentPipeline`: each loop goes on (weak) and Kafka does not fail its reader for
  ever (strong `Read`). A handler ends or blocks.

`DnsZones`, `DnsViews`, `NginxProxy` and `Observers` state no fairness: none of
their calls has a deadline, and nothing is said to happen in the end.

The violation `dns_stop_blocks` uses the fair specification: the call hangs
although everything that can run does.

## 5. What is proved

TLAPS proves the following for every value of the constants that satisfies the
named assumptions, of which more below.

- `DnsLifecycle_proofs`: `TypeCorrect`, `KeepersCounted`, `StopsStayHolds`. The
  first two are inductive once the balance is tied to the set of live keepers, by
  the cardinality of a set with one element more or less. `StopsStay` is a
  property of steps: with balance 0 the set of live keepers is empty, and only a
  keeper or the caller in its start sequence can make named run.
- `DhcpConfig_proofs`: `TypeCorrect`, `SyncedHolds`, `AckedSurvivesHolds`,
  `RollbackTargetHolds`, from one inductive invariant. `Synced` alone is not
  inductive, because a monitor that reloads stores what it read some steps ago.
  The strengthening says what a reload that nothing overlaps holds: what it has
  read is what the files still say, `h.conf` equals the files once stored, a
  server that was set at boot runs with `h.conf` (`MonOK`); a handler and a reload
  that meet both know it (`LocksOK`); a handler's list of services is never empty
  and fits its request (`TodoOK`); what it copied is `h.conf` or was changed by
  itself (`OpOK`); and the copies agree except for the service being written
  (`InSync`). That they agree has two levels (`InStep`): in all settings always, and
  in the interfaces outside `ahead`, where `h.conf` has those of the host before
  Kea does. `ApplyType` and `OriginalType` say that `Apply` and `Original` map
  configurations to configurations, whatever the lengths of the lists.
- `AgentPipeline_proofs`: `TypeCorrect`, `NoneForgottenHolds` and `Refinement`,
  that the pipeline implements `CommandLog`. Each step is shown to be a step of
  the log or a stutter. The invariant it needs relates the offsets: the reader is
  never before the committed offset, nothing at or after it has been touched, only the
  command at hand runs, and each passed command was answered or is recorded.
- `AgentProcess_proofs`: `ProcessTypeCorrect`, `GlobalsAreSet`,
  `ReportedAreStored`, and `ReportsKeepTheirWord`, that the
  uploads implement `UploadReport` whatever becomes of their process. The
  invariant says by where main is which globals are set (`SetSoFar`), and by where
  an upload is what was last reported of it and whether the server confirmed it
  (`ReportSoFar`). `DoneMeansStored` also needs that a file on the server is only
  ever of an upload that has begun to store it (`OwnersBegan`): one that begins
  now takes its name from the clock, and must not have written over another
  under the name it had before. `UploadAssumption` has no upload called `"nobody"`,
  the owner of a file that is not there.

- `NginxProxy_proofs`: `TypeCorrect`, `ServedCorrect`, `LoadableCorrect`, and
  `RolloutImplemented`. `ServesCommitted` is not inductive: a reload makes nginx
  go by all the files there are, also those a request before this one has
  left. The invariant says of every site that is neither adrift nor being worked
  on that its files are those of the committed table, and of the one a handler
  works on what it has made of each file, by what it has left to do (`Left`
  lists the few sequences of steps there are). That a reload is refused only
  on account of a site adrift, or of the one at work, follows from the order in
  which `update` and `delete` remove a site's file before its key and certificate.
- `DnsViews_proofs`: `TypeCorrect` (with the foreign keys of the tables),
  `CommittedRun`, `ReferencesThere`, `NoneDangling`. The invariant says that what
  is neither adrift nor written by the handler at work is on disk as in the
  committed tables (`DiskOK`), and that named goes by it (`RunOK`). Of a handler
  that works alone it says which of its calls are left and what they are about
  (`Ahead`), that what it has written shows its transaction (`Shows`), and what
  named has made of that (`Loads`): a reconfiguration does not read a loaded file
  of rules again, so it matters that the rpz zones are out of the view file when
  theirs is written. Of a keeper that works alone it says which files are written
  by now (`Progress`). The attempt showed the model and two properties wrong:
  `Mistaken` and the colliding keys (section 2) were not in it, `DanglingFromDrift`
  has to allow for drift of the view file too, and `ReferencedExist` for a view
  file adrift that the handler has not written.
- `DnsZones_proofs`: `TypeCorrect`, `ServedCorrect`, `OrphansOnlyFromDrift`, and
  `RolloutImplemented`. What makes them true is the order of a request's calls,
  so the larger part is about lists. `Fits` says of one call in its list that a
  statement is followed by the call that tells named (`Covered`), that named
  reads a zone's file when it has just been written (`Prepared`), that a dynamic
  update and the statement about the same record go in pairs (`Single`,
  `Paired`); `Grounded` and `Ungrounded`, that a zone is in the table before
  named is given it, and out of it before named gives it up. `CallsStarted`
  proves this of every request's whole list, the concatenations over all its
  zones or records included, and `TailProper`, `GroundedTail` and
  `UngroundedTail` of what each step leaves. The inductive invariant then says
  that named and the tables of the transaction agree on each zone that is not
  adrift and that no rndc call is to follow, but for the update at hand
  (`Agreeing`, with `Due` on one side and `Taken` on the other); that records
  without their zone are old, or a call that stops the request is to come
  (`Housed`); that a request leaves alone what it is not about (`Untouched`);
  and that a run alone has in its files what the tables hold (`AloneOK`).
  `RunsOK` says that a run that is alone is the only one and is beside no
  handler, and that whoever is not alone leaves every zone adrift: that is all
  there is to say of runs that overlap, of which there may be any number. The
  assumption on requests is `RequestOK` (section 2).
- `Observers_proofs`: `ObserversTypeCorrect`, `RateIsTrue`, `RatiosAreWeighed`,
  `CountsAreRight`, `LeaseRateIsTrue`, `AnswersAreTruthful`,
  `SubnetCountsAreTruthful`, `AddressesOrdered`.
  - Queries: unless named has restarted, the counter tells of the queries since
    it was read, with a wrap or without (`Tracks`). That the overall ratio of hits
    lies between those of the views is the mediant argument (`Upper` and its like)
    carried over a sum (`SumsBetween`).
  - Sums: the code adds up what a map or a list holds, the model what a set
    holds, element by element. `SumStep`, `SumAny`, `SumUnion`, `SumMapped` and
    `SumBound` are what is needed of that. The library's induction theorems take
    an operator, so `SubsetInduction` states induction over a finite set's subsets
    with a *set* of subsets in its place, and every sum goes by it. `OrderIsAlike`
    says that the statistics of a server read in any order give the same count: a
    v4 subnet has at most one of a name, and v6 ones are added up.
  - Leases: `Now` is what a server leases, `Count` what it has answered.
    `LpsTrue` is about the time between two answers, and the servers go on
    meanwhile, so the invariant ties to what each leases now, to its events and to
    the mark of its last answer *some* number it had when the kept rate was last
    formed (`Tied`, `Tie`); each step of a server moves them together (`Moves`).
  - Calls: what has been read of a call lies between the leases always there and
    those ever there, but for what rows are still to come (`LeasesInv`).

Beside types of requests and natural bounds, the theorems rest on these
assumptions: the set of keepers is finite (`DnsLifecycle`), and so are views,
subnets and leases (`Observers`); the marks for "not there" are no set of records,
no owner and the like; requests keep `RequestOK` (`DnsZones`, `DnsViews`); a call
on leases is of a form the service has (`CallOK`), and a lease has an address
of its version (`Address`).

So each invariant and each action property that a passing run checks is also
proved, and so are the refinements. Checked by TLC only: liveness under fairness
(`DeadNamedRevived`, `MatchedStopReturns`, `KeaRevived`, `EachPassed`,
`UploadsEnd`), which is out of the prover's reach.

## 6. Where the code does something else than it says

1. `StoppedIsDown`: `StopDNS` stops named first and a keeper afterwards
   (`dnshandler.go:136-141`), so named may be up again when it has returned success.
2. `StopReturns`: a `StopDNS` without a keeper waits for ever on the unbuffered
   channel and holds up all DNS commands.
3. `RollbackSendsOld`: deleting or updating an item changes the configuration in
   force before Kea has accepted it, so the rollback (`dhcphandler.go:325`) sends
   something that never was in force.

Each of these has a run. Noticed while modelling, and in the models as the code
has it, without a run of its own:

- The error of starting or reloading named is assigned to a shadowed `err`
  (`dnshandler.go:120-126`) and success is returned; DHCP has the same at boot
  (`dhcphandler.go:96-103`). Hence `MonitorStartDNS` ends in `StartReturns` whatever
  happened.
- Updates and deletes of forward zones name a column `zone` (`dnshandler.go:616`,
  `633`) that the table does not have; they always fail, as `Accepted` of
  `DnsViews` says.
- Once an https site's key and certificate do not belong together, every reload
  of nginx is refused, also the keeper's, which therefore never starts named
  (`nameddata_handler.go:139-141`); only deleting the site helps.
- An upload that cannot connect answers success if its status message could be
  sent, since `err` is overwritten (`uploadlog_handler.go:25-29`); all ends but
  one leave the connection open.
- The query rate after a restart of named is anything up to 2^32 over the time
  (`dnscollector.go:104-106`), and one query is missing at a true wrap.
- The exported number of leases lacks a server that failed
  (`dhcpcollector.go:161-173`); the rate of leases stays as it was while there
  are fewer leases than before (`98`).
- A request for DHCP that is refused has changed `h.conf` all the same, by the
  interfaces its copy took from the host (`dhcphandler.go:286`, `454`); Kea gets
  them with the next request that succeeds, and a rollback sends them too.
- A reservation's hardware address is compared as text with a column of raw bytes
  (`dhcphandler.go:1195`, `1289`; the agent itself reads the column as bytes,
  `1069`, `1212`), so that its lease is not counted unless the text is written as
  the database writes bytes.
- Two runs of `reconfigOrStartDNS` at a time, or one beside a handler, may start
  named without zones that the tables have (`dnshandler.go:100-157`), until the
  next run that is alone.
- A list of leases cut short by a broken connection is answered with success
  (`dhcphandler.go:1094`, `1148`, `1233`), and a v6 pool leaves its bounds out
  (`1282`) where a v4 pool takes them in (`1177`).

## 7. Abstractions, and what is left out

- A call to PostgreSQL, ddi-monitor, Kea or named is one atomic step of theirs; a
  file is written as a whole or, in the DNS models, may be gone after a failure.
- DHCP: the interfaces of a service are one value; `UpdateGlobalConfig` reads
  both configurations in one step; ddi-monitor's "is running" means both
  servers; Kea accepts or refuses any configuration.
- In `DnsZones`, which keepers there are and what ends them is left to
  `DnsLifecycle`: a run begins whenever named is down or a command says so. Removing
  the nzf files and writing them again is one step; a statement of a transaction
  that never returns is a handler that takes no further step.
- `DnsViews` and `NginxProxy` have one keeper, and no `StartDNS` command beside it;
  a call of theirs that never returns is one after which nothing happens. What
  several runs at a time do to zones, as `DnsZones` shows, they do to views and to
  sites.
- `DnsZones` leaves out a zone's TTL, role, masters and slaves, the SOA record,
  keys, and journals that do not fit their file. An `UpdateAuthRR` of a record the
  table does not have changes named only.
- `DnsViews` leaves out view priorities, DNS64 and keys, the host's check
  whether a transfer port is free (`dnshandler.go:1201`), and the difference
  between the two templates' blackhole settings (`nameddata_handler.go:440`,
  `471`). The zone files of a TTL change are one step that may fail.
- `AgentPipeline`: a rebalance inside `ReadMessage`, a broken loopback connection,
  the order of events across partitions and duplicates of an event are not told
  apart. `StartDNS`, `StopDNS` and `UploadLog` have no event; a key without a case
  (`update_globalconfig` of DHCP is one) is passed over.
- `NginxProxy`: nginx itself does not restart, so that it never reads its files
  but on a reload; a write that fails leaves a file empty or whole; files of the
  tables' first content are right. The other files of `initFiles` are those of
  `DnsZones` and `DnsViews`.
- `LogUpload`: the log file is a file that opens or does not; a message that
  Kafka holds twice is one. The FTP server keeps what it has.
- `AgentBoot` leaves out the values in the configuration file, and the listener
  that `grpcserver.New` opens before its handlers.
- `DnsCollector`: a rate is a natural number (the code's float is cut to one when
  it is kept); the ratios by answer code and by type are one division each of the
  numbers of one answer, and left out, as are names and help texts of metrics.
  `DhcpCollector` leaves out the packet counters, which are passed on as they are.
- `LeaseQueries`: a lease is its version, address, subnet and hardware address; a
  column that is null is a `QueryFails`.
- Not worth modelling: message declarations and generated protocol code.

## 8. Plan

Done: `DnsLifecycle`, `DhcpConf`, `DhcpConfig`, `DnsZones`, `CommandLog`,
`AgentPipeline`, `DnsViews`, then `Rollout`, `NginxProxy`, `LogUpload` with
`UploadReport`, `AgentBoot`, `AgentProcess`, and the observers; proofs about all of
them.

Next: several runs at a time in `DnsViews` and `NginxProxy`, as `DnsZones` has
them, and the lemmas that several proofs
have in common put in one place.
