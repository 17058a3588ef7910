----------------------------- MODULE DhcpConfig -----------------------------
(***************************************************************************)
(* How the agent keeps three copies of the DHCP configuration together:    *)
(* its own (h.conf), the one the Kea servers run with, and the files.      *)
(*                                                                         *)
(* pkg/dhcp/grpcservice/dhcphandler.go, lines 59-1065.  A handler holds    *)
(* the lock from its first line to its last, so that at most one request   *)
(* is under way; it builds a copy of h.conf, sends it to Kea (config-set), *)
(* has Kea write it to the file (config-write), and only then makes it     *)
(* h.conf.  If Kea does not confirm both commands it sends h.conf again.   *)
(* Before it copies h.conf it writes the interfaces of the host into it.   *)
(* The monitor goroutine takes no lock: it restarts Kea servers that are   *)
(* down, after loading h.conf from the files again.                        *)
(*                                                                         *)
(* Kea and ddi-monitor are external.  A command to Kea fails if the server *)
(* is down, may fail otherwise, and may have been carried out although the *)
(* agent sees an error (the HTTP client gives up after ten seconds).  The  *)
(* interfaces of the host are what ddi-monitor says whenever it is asked.  *)
(***************************************************************************)
EXTENDS DhcpConf

CONSTANTS
    Requests,      \* the requests that may arrive
    InitialConf,   \* what the files hold, or are given by default, at first
    MaxRequests,   \* bound on the number of requests
    MaxCrashes,    \* bound on how often the agent process dies and is run again
    MaxMoves       \* bound on how often the interfaces of the host change

ASSUME DhcpAssumption ==
    /\ Requests \subseteq Request
    /\ InitialConf \in [Services -> Config]
    /\ MaxRequests \in Nat
    /\ MaxCrashes \in Nat
    /\ MaxMoves \in Nat

VARIABLES
    conf,      \* h.conf.dhcp4Conf and h.conf.dhcp6Conf
    kea,       \* the configuration each Kea server runs with; InitialConf if it is down
    up,        \* the Kea servers that run
    file,      \* the configuration files
    host,      \* the host's interfaces for each service, which ddi-monitor tells
    op,        \* the request under way
    mon,       \* the monitor goroutine, and the boot sequence it shares its steps with
    requests,  \* how many requests have arrived
    crashes,   \* how often the agent process has died
    moves,     \* how often the host's interfaces have changed
    acked,     \* history: the settings after the last request answered with success
    drift,     \* history: services whose conf, kea and file may have been left different
    ahead,     \* history: services of which conf or file may have newer interfaces than kea
    lost       \* history: services whose conf may have been left different from acked

confVars == <<conf, kea, up, file>>
history  == <<acked, drift, ahead, lost>>
env      == <<host, moves>>
bounds   == <<env, requests, crashes>>
vars     == <<confVars, op, mon, bounds, history>>

-----------------------------------------------------------------------------

\* The services a request is about, in the order they are reconfigured.
Todo(r) == IF r.level = "global" THEN <<"dhcp4", "dhcp6">> ELSE <<r.service>>

Touched(r) == IF r.level = "global" THEN Services ELSE {r.service}

Idle == [pc |-> "idle"]

Asleep == [pc |-> "sleep", by |-> "monitor", todo |-> <<>>, loaded |-> InitialConf,
           run |-> "alone"]

Booting == [Asleep EXCEPT !.pc = "load", !.by = "boot", !.todo = <<"dhcp4", "dhcp6">>]

Exited == [Asleep EXCEPT !.pc = "exited", !.by = "boot"]

\* The steps of a handler that hold the lock.
Busy == op.pc # "idle"

\* The monitor is loading the configuration or restarting Kea.
Reloading == mon.pc # "sleep"

\* A handler and the monitor's reload, each "alone" until the other starts
\* while it is at it.  Then neither history promises anything.
Together(both) == IF both THEN "together" ELSE "alone"

Overlap(both) ==
    /\ drift' = IF both THEN Services ELSE drift
    /\ lost'  = IF both THEN Services ELSE lost

Init ==
    /\ conf = InitialConf
    /\ file = InitialConf
    /\ kea = InitialConf
    /\ up \in SUBSET Services    \* Kea outlives the agent
    /\ host = [s \in Services |-> InitialConf[s].ifaces]
    /\ op = Idle
    /\ mon = Booting
    /\ requests = 0
    /\ crashes = 0
    /\ moves = 0
    /\ acked = [s \in Services |-> Settings(InitialConf[s])]
    /\ drift = {}
    /\ ahead = {}
    /\ lost = {}

-----------------------------------------------------------------------------
(* A handler.                                                              *)

\* The lock is taken and the pointers to the current configurations are
\* read: "src" is what they point to.  No request is served during boot.
Receive(r) ==
    /\ ~Busy /\ mon.by = "monitor"
    /\ requests < MaxRequests
    /\ requests' = requests + 1
    /\ op' = [pc |-> "build", req |-> r, todo |-> Todo(r), src |-> conf, cand |-> conf,
              of |-> "current", run |-> Together(Reloading)]
    /\ mon' = IF Reloading THEN [mon EXCEPT !.run = "together"] ELSE mon
    /\ Overlap(Reloading)
    /\ UNCHANGED <<confVars, acked, ahead, crashes, env>>

\* The handler answers with an error and releases the lock.
Reject ==
    /\ op' = Idle
    /\ UNCHANGED <<mon, bounds>>

\* What op.src points to once the interfaces were assigned for the services S.
Source(S) ==
    [s \in Services |-> IF s \in S THEN OnHost(op.src[s], host[s]) ELSE op.src[s]]

\* What is sent to Kea in the end: the copies, changed.
Candidate(src) ==
    [s \in Services |-> IF s \in Touched(op.req) THEN Apply(op.req, src[s]) ELSE src[s]]

\* What is left of the originals.
Originals(src) ==
    [s \in Services |-> IF s \in Touched(op.req) THEN Original(op.req, src[s]) ELSE src[s]]

\* h.conf after an assignment to what op.src points to, for the services S.
Assign(S, new) ==
    /\ conf' = [s \in Services |-> IF op.of = "current" /\ s \in S THEN new[s] ELSE conf[s]]
    /\ ahead' = ahead \cup {s \in S : op.of = "current" /\ new[s].ifaces # op.src[s].ifaces}

\* Mutant of Build: h.conf is assigned before Kea has confirmed.
BuildInPlace ==
    /\ op.pc = "build"
    /\ \A s \in Touched(op.req) : Exists(op.req, op.src[s])
    /\ op' = [op EXCEPT !.pc = "set", !.cand = Candidate(Source(Touched(op.req)))]
    /\ Assign(Touched(op.req), Candidate(Source(Touched(op.req))))
    /\ UNCHANGED <<kea, up, file, mon, bounds, acked, drift, lost>>

\* The handler got its copy: GetInterfaces answered, and what the request is
\* about was found.  The copy is changed, and with it h.conf itself where
\* both use the same array, if h.conf is still what was copied.
Build ==
    /\ op.pc = "build"
    /\ \A s \in Touched(op.req) : Exists(op.req, op.src[s])
    /\ op' = [op EXCEPT !.pc = "set", !.cand = Candidate(Source(Touched(op.req)))]
    /\ Assign(Touched(op.req), Originals(Source(Touched(op.req))))
    /\ lost' = IF WritesShared(op.req) THEN lost \cup Touched(op.req) ELSE lost
    /\ UNCHANGED <<kea, up, file, mon, bounds, acked, drift>>

\* The services whose configuration was already copied when a request is
\* refused: GetInterfaces failed before the first or the second copy, or there
\* is no such entry or item.
Copied ==
    {{}} \cup (IF op.req.level = "global" THEN {{"dhcp4"}} ELSE {})
         \cup (IF \A s \in Touched(op.req) : Exists(op.req, op.src[s]) THEN {}
               ELSE {Touched(op.req)})

\* The request is refused; h.conf has the host's interfaces all the same.
BuildFails ==
    /\ op.pc = "build"
    /\ \E S \in Copied : Assign(S, Source(S))
    /\ Reject
    /\ UNCHANGED <<kea, up, file, acked, drift, lost>>

Service == Head(op.todo)

\* config-set of the candidate.
Set ==
    /\ op.pc = "set"
    /\ Service \in up
    /\ kea' = [kea EXCEPT ![Service] = op.cand[Service]]
    /\ op' = [op EXCEPT !.pc = "write"]
    /\ UNCHANGED <<conf, up, file, mon, bounds, history>>

\* Mutant of SetFails: no rollback when config-set fails.
SetFailsForGood ==
    /\ op.pc = "set"
    /\ \/ UNCHANGED kea
       \/ Service \in up /\ kea' = [kea EXCEPT ![Service] = op.cand[Service]]
    /\ Reject
    /\ UNCHANGED <<conf, up, file, history>>

\* An error, whether or not Kea has carried the command out.
SetFails ==
    /\ op.pc = "set"
    /\ \/ UNCHANGED kea
       \/ Service \in up /\ kea' = [kea EXCEPT ![Service] = op.cand[Service]]
    /\ op' = [op EXCEPT !.pc = "reset"]
    /\ UNCHANGED <<conf, up, file, mon, bounds, history>>

\* config-write: Kea writes what it runs with, and the candidate becomes h.conf.
Commit ==
    /\ op.pc = "write"
    /\ Service \in up
    /\ file' = [file EXCEPT ![Service] = kea[Service]]
    /\ conf' = [conf EXCEPT ![Service] = op.cand[Service]]
    /\ drift' = IF op.run = "alone" THEN drift \ {Service} ELSE drift
    /\ ahead' = ahead \ {Service}
    /\ UNCHANGED <<kea, up, mon, bounds>>

\* Mutant of WriteFirst: an off-by-one in what is left to do.
WriteFirstAgain ==
    /\ Commit
    /\ Len(op.todo) >= 1
    /\ op' = [op EXCEPT !.pc = "set", !.todo = Tail(@)]
    /\ lost' = lost \cup {Service}
    /\ UNCHANGED acked

\* UpdateGlobalConfig goes on to the second service.  What the first one has
\* committed is in force and has not been answered for.
WriteFirst ==
    /\ Commit
    /\ Len(op.todo) > 1
    /\ op' = [op EXCEPT !.pc = "set", !.todo = Tail(@)]
    /\ lost' = lost \cup {Service}
    /\ UNCHANGED acked

\* The request is answered with success and the lock is released.
WriteLast ==
    /\ Commit
    /\ Len(op.todo) = 1
    /\ op' = Idle
    /\ acked' = [s \in Services |-> IF s \in Touched(op.req) THEN Settings(op.cand[s])
                                   ELSE acked[s]]
    /\ lost' = IF op.run = "alone" THEN lost \ Touched(op.req) ELSE lost

WriteFails ==
    /\ op.pc = "write"
    /\ \/ UNCHANGED file
       \/ Service \in up /\ file' = [file EXCEPT ![Service] = kea[Service]]
    /\ op' = [op EXCEPT !.pc = "reset"]
    /\ UNCHANGED <<conf, kea, up, mon, bounds, history>>

-----------------------------------------------------------------------------
(* The rollback of reconfig4 and reconfig6: reconfig with h.conf, whatever *)
(* that is by now; its failure is only logged.                             *)

RollbackSet ==
    /\ op.pc = "reset"
    /\ Service \in up
    /\ kea' = [kea EXCEPT ![Service] = conf[Service]]
    /\ op' = [op EXCEPT !.pc = "rewrite"]
    /\ UNCHANGED <<conf, up, file, mon, bounds, history>>

RollbackWrite ==
    /\ op.pc = "rewrite"
    /\ Service \in up
    /\ file' = [file EXCEPT ![Service] = kea[Service]]
    /\ ahead' = ahead \ {Service}
    /\ Reject
    /\ UNCHANGED <<conf, kea, up, acked, drift, lost>>

RollbackFails ==
    /\ \/ op.pc = "reset" /\ UNCHANGED <<kea, file>>
       \/ /\ op.pc = "reset" /\ Service \in up
          /\ kea' = [kea EXCEPT ![Service] = conf[Service]]
          /\ UNCHANGED file
       \/ op.pc = "rewrite" /\ UNCHANGED <<kea, file>>
       \/ /\ op.pc = "rewrite" /\ Service \in up
          /\ file' = [file EXCEPT ![Service] = kea[Service]]
          /\ UNCHANGED kea
    /\ Reject
    /\ drift' = drift \cup {Service}
    /\ lost' = lost \cup {Service}
    /\ UNCHANGED <<conf, up, acked, ahead>>

-----------------------------------------------------------------------------
(* reconfigOrStartDHCP, run by monitor every ten seconds while a server is *)
(* down and by newDHCPHandler at boot; there, an error that is returned    *)
(* ends the process.                                                       *)

\* Mutant of MonitorWakes: only when no server is running.
MonitorWakesLate ==
    /\ mon.pc = "sleep"
    /\ up = {}
    /\ mon' = [Asleep EXCEPT !.pc = "load", !.todo = <<"dhcp4", "dhcp6">>, !.run = Together(Busy)]
    /\ op' = IF Busy THEN [op EXCEPT !.run = "together"] ELSE op
    /\ Overlap(Busy)
    /\ UNCHANGED <<confVars, bounds, acked, ahead>>

\* GetDHCPState answered, and not every server is running.
MonitorWakes ==
    /\ mon.pc = "sleep"
    /\ up # Services
    /\ mon' = [Asleep EXCEPT !.pc = "load", !.todo = <<"dhcp4", "dhcp6">>, !.run = Together(Busy)]
    /\ op' = IF Busy THEN [op EXCEPT !.run = "together"] ELSE op
    /\ Overlap(Busy)
    /\ UNCHANGED <<confVars, bounds, acked, ahead>>

\* A step fails whose error is returned.
MonitorFails ==
    /\ mon' = IF mon.by = "boot" THEN Exited ELSE Asleep
    /\ UNCHANGED <<op, bounds>>

Reading(s) == mon.todo # <<>> /\ s = Head(mon.todo)

\* A file is read, and if its interfaces are not the host's it is written
\* again in the next step.
LoadFile(s) ==
    /\ mon.pc = "load" /\ Reading(s)
    /\ mon' = [mon EXCEPT !.loaded[s] = OnHost(file[s], host[s]),
                          !.pc = IF host[s] # file[s].ifaces THEN "rewrite" ELSE "load",
                          !.todo = IF host[s] # file[s].ifaces THEN @ ELSE Tail(@)]
    /\ UNCHANGED <<confVars, op, bounds, history>>

RewriteFile(s) ==
    /\ mon.pc = "rewrite" /\ Reading(s)
    /\ file' = [file EXCEPT ![s] = mon.loaded[s]]
    /\ mon' = [mon EXCEPT !.pc = "load", !.todo = Tail(@)]
    /\ ahead' = ahead \cup {s}
    /\ UNCHANGED <<conf, kea, up, op, bounds, acked, drift, lost>>

LoadFails ==
    /\ mon.pc \in {"load", "rewrite"} /\ mon.todo # <<>>
    /\ MonitorFails
    /\ UNCHANGED <<confVars, history>>

\* h.conf is replaced, without the lock: a request under way no longer works
\* on the current configuration.
StoreConf ==
    /\ mon.pc = "load"
    /\ mon.todo = <<>>
    /\ conf' = mon.loaded
    /\ mon' = [mon EXCEPT !.pc = IF mon.by = "boot" THEN "state" ELSE "stop"]
    /\ op' = IF Busy THEN [op EXCEPT !.of = "replaced"] ELSE op
    /\ UNCHANGED <<kea, up, file, bounds, history>>

\* At boot only: servers that run are given the configuration, not restarted.
GetDHCPState ==
    /\ mon.pc = "state"
    /\ UNCHANGED <<confVars, op, bounds, history>>
    /\ mon' = IF up = Services
              THEN [mon EXCEPT !.pc = "set", !.todo = <<"dhcp4", "dhcp6">>]
              ELSE [mon EXCEPT !.pc = "stop"]

BootSet ==
    /\ mon.pc = "set"
    /\ Head(mon.todo) \in up
    /\ kea' = [kea EXCEPT ![Head(mon.todo)] = conf[Head(mon.todo)]]
    /\ mon' = [mon EXCEPT !.pc = "write"]
    /\ UNCHANGED <<conf, up, file, op, bounds, history>>

BootWrite ==
    /\ mon.pc = "write"
    /\ Head(mon.todo) \in up
    /\ file' = [file EXCEPT ![Head(mon.todo)] = kea[Head(mon.todo)]]
    /\ mon' = IF Len(mon.todo) > 1 THEN [mon EXCEPT !.pc = "set", !.todo = Tail(@)] ELSE Asleep
    /\ drift' = drift \ {Head(mon.todo)}
    /\ ahead' = ahead \ {Head(mon.todo)}
    /\ UNCHANGED <<conf, kea, up, op, bounds, acked, lost>>

\* GetDHCPState fails, and with it the boot.
BootFails ==
    /\ mon.pc = "state"
    /\ MonitorFails
    /\ UNCHANGED <<confVars, history>>

\* reconfigDHCP fails, whether or not Kea has carried the command out.  The
\* error is assigned to the err of the if statement, not to the one that is
\* returned: the agent goes on.
BootReconfigFails ==
    /\ mon.pc \in {"set", "write"}
    /\ LET s == Head(mon.todo) IN
       \/ UNCHANGED <<kea, file>>
       \/ /\ mon.pc = "set" /\ s \in up
          /\ kea' = [kea EXCEPT ![s] = conf[s]]
          /\ UNCHANGED file
       \/ /\ mon.pc = "write" /\ s \in up
          /\ file' = [file EXCEPT ![s] = kea[s]]
          /\ UNCHANGED kea
    /\ mon' = Asleep
    /\ UNCHANGED <<conf, up, op, bounds, history>>

\* Servers end, and with them what they ran with.
GoDown(S) ==
    /\ up' = up \ S
    /\ kea' = [s \in Services |-> IF s \in S THEN InitialConf[s] ELSE kea[s]]
    /\ UNCHANGED <<conf, file, op, bounds, history>>

\* ddi-monitor may stop some servers and fail; the error is dropped.
StopDHCP ==
    /\ mon.pc = "stop"
    /\ \E S \in SUBSET up : GoDown(S)
    /\ mon' = [mon EXCEPT !.pc = "start"]

\* A server that comes up reads its file.
ComeUp(S) ==
    /\ mon.pc = "start"
    /\ up' = up \cup S
    /\ kea' = [s \in Services |-> IF s \in S THEN file[s] ELSE kea[s]]
    /\ drift' = IF mon.run = "alone" THEN drift \ S ELSE drift
    /\ ahead' = IF mon.run = "alone" THEN ahead \ S ELSE ahead
    /\ UNCHANGED <<conf, file, op, bounds, acked, lost>>

StartDHCP ==
    /\ ComeUp(Services \ up)
    /\ mon' = Asleep

\* The monitor logs the error; at boot it is lost like that of reconfigDHCP.
StartDHCPFails ==
    /\ \E S \in SUBSET (Services \ up) : ComeUp(S)
    /\ mon' = Asleep

-----------------------------------------------------------------------------
(* The environment.                                                        *)

KeaDies(s) ==
    /\ s \in up
    /\ GoDown({s})
    /\ UNCHANGED mon

\* The interfaces of the host are set up anew.
HostMoves(s, i) ==
    /\ moves < MaxMoves /\ i # host[s]
    /\ moves' = moves + 1
    /\ host' = [host EXCEPT ![s] = i]
    /\ UNCHANGED <<confVars, op, mon, requests, crashes, history>>

\* The services a request has begun to change.
Unanswered == IF Busy THEN IF op.pc # "build" THEN Touched(op.req) ELSE {} ELSE {}

\* The agent process dies and is run again.  Kea and the files stay as they
\* are; a request that had changed anything was not answered.
AgentRestarts ==
    /\ crashes < MaxCrashes
    /\ crashes' = crashes + 1
    /\ op' = Idle
    /\ mon' = Booting
    /\ drift' = drift \cup Unanswered
    /\ lost' = lost \cup Unanswered
    /\ UNCHANGED <<confVars, requests, acked, ahead, env>>

-----------------------------------------------------------------------------

HandlerNext ==
    \/ Build \/ BuildFails \/ Set \/ SetFails \/ WriteFirst \/ WriteLast \/ WriteFails
    \/ RollbackSet \/ RollbackWrite \/ RollbackFails

MonitorNext ==
    \/ MonitorWakes \/ LoadFails \/ StoreConf
    \/ \E s \in Services : LoadFile(s) \/ RewriteFile(s)
    \/ GetDHCPState \/ BootSet \/ BootWrite \/ BootFails \/ BootReconfigFails
    \/ StopDHCP \/ StartDHCP \/ StartDHCPFails

Next ==
    \/ \E r \in Requests : Receive(r)
    \/ HandlerNext
    \/ MonitorNext
    \/ \E s \in Services : KeaDies(s)
    \/ \E s \in Services, i \in Interfaces : HostMoves(s, i)
    \/ AgentRestarts

Spec == Init /\ [][Next]_vars

(***************************************************************************)
(* Fairness.  The monitor loop goes on (it sleeps ten seconds and never    *)
(* returns), the agent goes on booting, and what the monitor asks for does *)
(* not fail for ever: reading a file, writing it, starting the servers.    *)
(* Nothing is assumed of requests, crashes or the death of servers.        *)
(***************************************************************************)
Fairness ==
    /\ WF_vars(MonitorNext)
    /\ \A s \in Services : SF_vars(LoadFile(s)) /\ SF_vars(RewriteFile(s))
    /\ SF_vars(StartDHCP)

FairSpec == Spec /\ Fairness

-----------------------------------------------------------------------------
(* Properties.                                                             *)

OpType ==
    [pc : {"build", "set", "write", "reset", "rewrite"}, req : Requests,
     todo : {<<"dhcp4", "dhcp6">>, <<"dhcp4">>, <<"dhcp6">>},
     src : [Services -> Config], cand : [Services -> Config],
     of : {"current", "replaced"}, run : {"alone", "together"}]

MonType ==
    [pc : {"sleep", "load", "rewrite", "state", "set", "write", "stop", "start", "exited"},
     by : {"monitor", "boot"}, todo : {<<>>, <<"dhcp4", "dhcp6">>, <<"dhcp6">>},
     loaded : [Services -> Config], run : {"alone", "together"}]

\* Every variable has its type; in particular a handler that holds the lock
\* has a service left to reconfigure.
TypeOK ==
    /\ conf \in [Services -> Config] /\ kea \in [Services -> Config]
    /\ file \in [Services -> Config]
    /\ acked \in [Services -> [global : Values, entries : Seq(Entry)]]
    /\ up \subseteq Services
    /\ drift \subseteq Services /\ ahead \subseteq Services /\ lost \subseteq Services
    /\ host \in [Services -> Interfaces]
    /\ op \in {Idle} \cup OpType
    /\ mon \in MonType
    /\ requests \in 0 .. MaxRequests /\ crashes \in 0 .. MaxCrashes /\ moves \in 0 .. MaxMoves

\* All copies of a service's configuration are the same, but for interfaces
\* that not all of them were given yet.
InStep(s) ==
    /\ Same(file[s], conf[s]) /\ (s \in up => Same(kea[s], conf[s]))
    /\ s \notin ahead => file[s] = conf[s] /\ (s \in up => kea[s] = conf[s])

\* When no request is under way and the monitor sleeps, the agent, the file
\* and a running Kea server hold the same configuration, whatever failed and
\* whoever died before, except from a rollback that failed, a request that
\* overlapped a reload of the monitor or one cut off by a crash until the
\* next success or restart of the server (dhcphandler.go:323-341, 241-253).
\* Of the interfaces this is not true after a request that was refused before
\* Kea was asked, nor after a reload that found others and then failed: h.conf
\* or the file have the new ones, Kea the old (dhcphandler.go:286, 454, 136).
Synced == ~Busy /\ ~Reloading => \A s \in Services \ drift : InStep(s)

\* h.conf is the configuration after the last request answered with success,
\* but for the interfaces of the host, through reloads of the monitor, deaths
\* of servers and restarts of the agent.  The exceptions are those of Synced, a
\* request that changed items in the slices it shares with h.conf, and the first
\* half of an UpdateGlobalConfig whose second half failed (dhcphandler.go:331,
\* 184-187).
AckedSurvives == \A s \in Services \ lost : Settings(conf[s]) = acked[s]

\* As long as a request that changes no nested slice is not confirmed, and no
\* reload interferes, h.conf is what it was when the handler took the lock,
\* with the interfaces the copy took from the host: that, and not quite what
\* was in force, is what a rollback sends (dhcphandler.go:286-293, 325).
RollbackTargetKept ==
    Busy => (op.run = "alone" /\ ~WritesShared(op.req) =>
                \A s \in ToSet(op.todo) :
                    conf[s] = IF op.pc = "build" THEN op.src[s]
                              ELSE OnHost(op.src[s], op.cand[s].ifaces))

\* A Kea server that is down is started again, as long as the agent boots
\* (dhcphandler.go:241-253).
KeaRevived == \A s \in Services : s \notin up ~> (s \in up \/ mon.pc = "exited")

\* What the log message of dhcphandler.go:326 says a rollback goes back to
\* ("rollback dhcp4 to old config"): the entries it sends are those from
\* before the request.
RollbackSendsOld ==
    Busy => (op.pc = "reset" /\ op.run = "alone" =>
                conf[Service].entries = op.src[Service].entries)
=============================================================================
