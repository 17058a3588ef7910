------------------------------ MODULE AgentBoot ------------------------------
(***************************************************************************)
(* The agent's process: main, step by step, and what it leaves running.    *)
(*                                                                         *)
(* cmd/agent/agent.go, with grpcserver.New and the Init and New functions  *)
(* it calls.  main fills global variables (the database, the client of     *)
(* ddi-monitor, the Kafka producer) and starts goroutines that use them    *)
(* without asking whether they are there.  What is configured off is left  *)
(* out.  An error is log.Fatalf, also in the metrics server's goroutine,   *)
(* and takes everything with it.                                           *)
(***************************************************************************)
EXTENDS Naturals

CONSTANT MaxStarts   \* bound on how often the agent is run

ASSUME StartsAssumption == MaxStarts \in Nat \ {0}

Services == {"dns", "dhcp"}
Globals  == {"db", "monitor", "producer", "conn"}

VARIABLES
    at,        \* where main is
    enabled,   \* the services that are configured on
    set,       \* the global variables that are set
    running,   \* goroutines that have been started, and the server
    starts     \* how often the agent has been run

bootVars == <<at, enabled, set, running, starts>>

\* What a goroutine uses; the handlers of a service are run by the server.
Uses(g) ==
    CASE g = "metrics"      -> {}
      [] g = "dnsSampler"   -> {}
      [] g = "dhcpSampler"  -> {}
      [] g = "dnsKeeper"    -> {"db", "monitor"}
      [] g = "dhcpMonitor"  -> {"monitor"}
      [] g = "dnsConsumer"  -> {"conn", "producer"}
      [] g = "dhcpConsumer" -> {"conn", "producer"}
      [] g = "dnsHandlers"  -> {"db", "monitor", "producer"}
      [] g = "dhcpHandlers" -> {"monitor"}

Goroutines ==
    {"metrics", "dnsSampler", "dhcpSampler", "dnsKeeper", "dhcpMonitor",
     "dnsConsumer", "dhcpConsumer", "dnsHandlers", "dhcpHandlers"}

On(service, G) == IF service \in enabled THEN G ELSE {}

-----------------------------------------------------------------------------

BootInit ==
    /\ at = "config"
    /\ enabled \in SUBSET Services
    /\ set = {} /\ running = {}
    /\ starts = 1

Main(from, to, globals, goroutines) ==
    /\ at = from /\ at' = to
    /\ set' = set \cup globals
    /\ running' = running \cup goroutines
    /\ UNCHANGED <<enabled, starts>>

LoadConfig == Main("config", "db", {}, {})

\* db.Init: without DNS there is no database.
InitDb == Main("db", "metric", On("dns", {"db"}), {})

\* metric.New starts the collectors' goroutines, and main the metrics server.
NewMetric ==
    Main("metric", "monitor", {},
         {"metrics"} \cup On("dns", {"dnsSampler"}) \cup On("dhcp", {"dhcpSampler"}))

\* Mutant of DialMonitor: the client is kept for later.
DialMonitorOnly == Main("monitor", "dns", {}, {})

DialMonitor == Main("monitor", "dns", {"monitor"}, {})

\* grpcserver.New: newDNSHandler, which ends with StartDNS, ...
NewDNS == Main("dns", "dhcp", {}, On("dns", {"dnsKeeper"}))

\* ... and newDHCPHandler.
NewDHCP == Main("dhcp", "dial", {}, On("dhcp", {"dhcpMonitor"}))

DialServer == Main("dial", "producer", {"conn"}, {})

InitProducer == Main("producer", "consumers", {"producer"}, {})

StartConsumers ==
    Main("consumers", "serve", {}, On("dns", {"dnsConsumer"}) \cup On("dhcp", {"dhcpConsumer"}))

Serve ==
    Main("serve", "serving", {}, On("dns", {"dnsHandlers"}) \cup On("dhcp", {"dhcpHandlers"}))

\* Steps that may return an error.
Failing == {"config", "db", "metric", "monitor", "dns", "dhcp", "dial"}

Ended == at' = "down" /\ set' = {} /\ running' = {} /\ UNCHANGED <<enabled, starts>>

\* log.Fatalf in main, or at any time in MetricHandler.Run; or the server's Run
\* returns, and main with it.  Being killed is no different.
Ends ==
    /\ \/ at \in Failing
       \/ "metrics" \in running
       \/ at = "serving"
    /\ Ended

\* The agent is run again, perhaps configured otherwise.
Restarts ==
    /\ at = "down"
    /\ starts < MaxStarts
    /\ starts' = starts + 1
    /\ at' = "config"
    /\ enabled' \in SUBSET Services
    /\ UNCHANGED <<set, running>>

BootSteps ==
    \/ LoadConfig \/ InitDb \/ NewMetric \/ DialMonitor \/ NewDNS \/ NewDHCP
    \/ DialServer \/ InitProducer \/ StartConsumers \/ Serve

BootNext == BootSteps \/ Ends \/ Restarts

BootSpec == BootInit /\ [][BootNext]_bootVars

-----------------------------------------------------------------------------
(* Properties.                                                             *)

\* Every variable has its type, and nothing outlives the process.
BootTypeOK ==
    /\ at \in Failing \cup {"producer", "consumers", "serve", "serving", "down"}
    /\ enabled \subseteq Services
    /\ set \subseteq Globals /\ running \subseteq Goroutines
    /\ starts \in 1 .. MaxStarts
    /\ at \in {"config", "down"} => set = {} /\ running = {}

\* Nothing runs that uses a global variable not set by then, with DNS and
\* DHCP on or off: a keeper or a handler that finds the database, ddi-monitor's
\* client or the producer missing dereferences nil (agent.go:24-66,
\* grpcserver.go:33-50, db.go:25-37, grpcclient.go:13-19, kafkaproducer.go:32-53).
UsedAreSet == \A g \in running : Uses(g) \subseteq set
=============================================================================
