---------------------------- MODULE DnsLifecycle ----------------------------
(***************************************************************************)
(* How the agent starts named, stops it and keeps it alive.                *)
(*                                                                         *)
(* pkg/dns/grpcservice/dnshandler.go, lines 78-162.  One process gives     *)
(* lifecycle commands: newDNSHandler gives the first StartDNS when the     *)
(* agent boots, and from then on the Kafka consumer, which waits for the   *)
(* answer to one command before it reads the next, gives StartDNS and      *)
(* StopDNS.  Every StartDNS that succeeds leaves a keepDNSAlive goroutine  *)
(* behind, and all of them share the handler's one ticker and its one      *)
(* unbuffered quit channel.                                                *)
(*                                                                         *)
(* ddi-monitor, which runs named, is external: each call to it may fail,   *)
(* and a call that changes named may fail after it has changed it.         *)
(***************************************************************************)
EXTENDS Integers, FiniteSets

CONSTANTS
    Keepers,      \* slots for keepDNSAlive goroutines: a bound on how many are alive at once
    MaxCrashes    \* bound on how often the agent process dies and is run again

ASSUME LifecycleAssumption == IsFiniteSet(Keepers) /\ MaxCrashes \in Nat

VARIABLES
    named,      \* is named running
    ticker,     \* has handler.ticker not been stopped
    tick,       \* is a tick buffered in handler.ticker.C, whose capacity is 1
    keeper,     \* where each keepDNSAlive goroutine is; "none" when there is no such goroutine
    caller,     \* where the process that gives lifecycle commands is
    boot,       \* is the command being executed the StartDNS of newDNSHandler
    balance,    \* history: StartDNS calls that succeeded minus StopDNS calls that succeeded
    wanted,     \* history: what the last command given asked for, once it has succeeded
    crashes     \* how often the agent process has died

vars == <<named, ticker, tick, keeper, caller, boot, balance, wanted, crashes>>

handlerVars == <<ticker, tick, keeper>>
history     == <<balance, wanted, crashes>>

-----------------------------------------------------------------------------

\* The goroutines that exist.
Live == {k \in Keepers : keeper[k] # "none"}

Init ==
    /\ named \in BOOLEAN          \* named outlives the agent
    /\ ticker = TRUE
    /\ tick = FALSE
    /\ keeper = [k \in Keepers |-> "none"]
    /\ caller = "prepare"
    /\ boot = TRUE
    /\ balance = 0
    /\ wanted = "none"
    /\ crashes = 0

-----------------------------------------------------------------------------
(* The caller: StartDNS.  "prepare" is initDefaultDbData and initFiles.    *)
(* Their errors and that of GetDNSState are returned.                      *)

\* A command that fails answers its error, except that when the agent boots
\* the error ends the process: main gives it to log.Fatalf.
Fail ==
    /\ caller' = IF boot THEN "exited" ELSE "idle"
    /\ UNCHANGED <<handlerVars, boot, history>>

\* Mutant of StartReturns: a handler that goes on taking errors for those of its boot.
StartReturnsBooting ==
    /\ \E k \in Keepers \ Live : keeper' = [keeper EXCEPT ![k] = "select"]
    /\ caller' = "idle"
    /\ balance' = balance + 1
    /\ wanted' = "up"
    /\ UNCHANGED <<ticker, tick, boot, crashes>>

\* StartDNS returns nil, having started another keeper.
StartReturns ==
    /\ \E k \in Keepers \ Live : keeper' = [keeper EXCEPT ![k] = "select"]
    /\ caller' = "idle"
    /\ boot' = FALSE
    /\ balance' = balance + 1
    /\ wanted' = "up"
    /\ UNCHANGED <<ticker, tick, crashes>>

Give(command) ==
    /\ caller = "idle"
    /\ caller' = command
    /\ wanted' = "none"
    /\ UNCHANGED <<named, handlerVars, boot, balance, crashes>>

StartDNS == Keepers # Live /\ Give("prepare")    \* guard: the bound on goroutines

Prepare ==
    /\ caller = "prepare"
    /\ UNCHANGED named
    /\ \/ caller' = "state" /\ UNCHANGED <<handlerVars, boot, history>>
       \/ Fail

GetDNSState ==
    /\ caller = "state"
    /\ UNCHANGED named
    /\ \/ /\ caller' = IF named THEN "reload" ELSE "start"
          /\ UNCHANGED <<handlerVars, boot, history>>
       \/ Fail

\* The reload succeeds, if named runs, or fails: the error is assigned to the
\* err of the if statement, and the err that is returned is another one.
RndcReload ==
    /\ caller = "reload"
    /\ StartReturns
    /\ UNCHANGED named

\* So is the error of ddi-monitor.
MonitorStartDNS ==
    /\ caller = "start"
    /\ named' \in {named, TRUE}
    /\ StartReturns

-----------------------------------------------------------------------------
(* The caller: StopDNS.                                                    *)

StopDNS == Give("stop")

MonitorStopDNS ==
    /\ caller = "stop"
    /\ \/ /\ named' = FALSE
          /\ caller' = "quit"
          /\ UNCHANGED <<handlerVars, boot, history>>
       \/ named' \in {named, FALSE} /\ Fail

\* Mutant of Quit: a buffered quit channel, whose send does not wait for a keeper.
QuitUnheard(k) ==
    /\ caller = "quit"
    /\ keeper[k] # "none"
    /\ ticker' = FALSE
    /\ caller' = "idle"
    /\ balance' = balance - 1
    /\ wanted' = "down"
    /\ UNCHANGED <<named, tick, keeper, boot, crashes>>

\* handler.quit <- 1 meets <-handler.quit of one keeper, which returns and by
\* its deferred call stops the ticker all keepers share; a tick that is
\* already in the channel stays there.
Quit(k) ==
    /\ caller = "quit"
    /\ keeper[k] = "select"
    /\ keeper' = [keeper EXCEPT ![k] = "none"]
    /\ ticker' = FALSE
    /\ caller' = "idle"
    /\ balance' = balance - 1
    /\ wanted' = "down"
    /\ UNCHANGED <<named, tick, boot, crashes>>

-----------------------------------------------------------------------------
(* keepDNSAlive.                                                           *)

KeeperGoes(k, from, to) ==
    /\ keeper[k] = from
    /\ keeper' = [keeper EXCEPT ![k] = to]
    /\ UNCHANGED <<ticker, caller, boot, history>>

KeeperTick(k) ==
    /\ tick
    /\ tick' = FALSE
    /\ KeeperGoes(k, "select", "query")
    /\ UNCHANGED named

\* Mutant of KeeperContinues: "return" where the code has "continue".
KeeperReturns(k) ==
    /\ KeeperGoes(k, "query", "none")
    /\ UNCHANGED <<named, tick>>

\* GetDNSState fails, or says that named runs.
KeeperContinues(k) ==
    /\ KeeperGoes(k, "query", "select")
    /\ UNCHANGED <<named, tick>>

KeeperSeesDown(k) ==
    /\ ~named
    /\ KeeperGoes(k, "query", "prepare")
    /\ UNCHANGED <<named, tick>>

\* reconfigOrStartDNS(false): its error is dropped.
KeeperPrepares(k) ==
    /\ KeeperGoes(k, "prepare", "start")
    /\ UNCHANGED <<named, tick>>

\* Mutant of KeeperGivesUp: a keeper that returns the error of its restart.
KeeperFails(k) ==
    /\ KeeperGoes(k, "prepare", "none")
    /\ UNCHANGED <<named, tick>>

KeeperGivesUp(k) ==
    /\ KeeperGoes(k, "prepare", "select")
    /\ UNCHANGED <<named, tick>>

KeeperStarts(k) ==
    /\ KeeperGoes(k, "start", "select")
    /\ named' = TRUE
    /\ UNCHANGED tick

KeeperStartFails(k) ==
    /\ KeeperGoes(k, "start", "select")
    /\ UNCHANGED <<named, tick>>

-----------------------------------------------------------------------------
(* The environment.                                                        *)

\* The runtime drops a tick that finds the channel full.
TickerFires ==
    /\ ticker
    /\ caller # "exited"
    /\ ~tick
    /\ tick' = TRUE
    /\ UNCHANGED <<named, ticker, keeper, caller, boot, history>>

NamedDies ==
    /\ named
    /\ named' = FALSE
    /\ UNCHANGED <<handlerVars, caller, boot, history>>

\* The agent process dies and is run again: a new handler, no goroutines.
AgentRestarts ==
    /\ crashes < MaxCrashes
    /\ crashes' = crashes + 1
    /\ ticker' = TRUE
    /\ tick' = FALSE
    /\ keeper' = [k \in Keepers |-> "none"]
    /\ caller' = "prepare"
    /\ boot' = TRUE
    /\ balance' = 0
    /\ wanted' = "none"
    /\ UNCHANGED named

-----------------------------------------------------------------------------

CallerNext ==
    \/ StartDNS \/ Prepare \/ GetDNSState \/ RndcReload \/ MonitorStartDNS
    \/ StopDNS \/ MonitorStopDNS

KeeperNext(k) ==
    \/ Quit(k) \/ KeeperTick(k) \/ KeeperContinues(k) \/ KeeperSeesDown(k)
    \/ KeeperPrepares(k) \/ KeeperGivesUp(k) \/ KeeperStarts(k) \/ KeeperStartFails(k)

Next ==
    \/ CallerNext
    \/ \E k \in Keepers : KeeperNext(k)
    \/ TickerFires
    \/ NamedDies
    \/ AgentRestarts

Spec == Init /\ [][Next]_vars

(***************************************************************************)
(* Fairness.  The Go runtime goes on running every goroutine and the       *)
(* ticker (weak fairness); select draws among its ready cases, so a keeper *)
(* that keeps meeting a waiting sender takes its signal in the end (strong *)
(* fairness of Quit); and ddi-monitor and the database do not fail a       *)
(* keeper's calls for ever (strong fairness of the steps that succeed).    *)
(* Nothing obliges the controller to give another command, named to die or *)
(* the agent to crash.                                                     *)
(***************************************************************************)
Fairness ==
    /\ WF_vars(Prepare \/ GetDNSState \/ RndcReload \/ MonitorStartDNS \/ MonitorStopDNS)
    /\ WF_vars(TickerFires)
    /\ \A k \in Keepers :
        /\ WF_vars(KeeperNext(k))
        /\ SF_vars(Quit(k))
        /\ SF_vars(KeeperSeesDown(k))
        /\ SF_vars(KeeperPrepares(k))
        /\ SF_vars(KeeperStarts(k))

FairSpec == Spec /\ Fairness

-----------------------------------------------------------------------------
(* Properties.                                                             *)

\* The variables that are switches have two values.
SwitchesOK == named \in BOOLEAN /\ ticker \in BOOLEAN /\ tick \in BOOLEAN /\ boot \in BOOLEAN

\* Every variable has its type; only the StartDNS of a boot is a command whose
\* error ends the process.
TypeOK ==
    /\ SwitchesOK
    /\ keeper \in [Keepers -> {"none", "select", "query", "prepare", "start"}]
    /\ caller \in {"idle", "prepare", "state", "reload", "start", "stop", "quit", "exited"}
    /\ boot => caller \in {"prepare", "state", "reload", "start", "exited"}
    /\ balance \in Int
    /\ wanted \in {"none", "up", "down"}
    /\ crashes \in 0 .. MaxCrashes

\* Each StopDNS that succeeds has ended exactly one of the keepers that
\* successful StartDNS calls left behind, and nothing else ends one: as many
\* keepers are alive as the controller has unmatched successful starts
\* (dnshandler.go:105, 141, 158).
KeepersBalance == Cardinality(Live) = balance

\* Once every successful StartDNS has been matched by a successful StopDNS,
\* a named that is down is not started behind the controller's back: no
\* keeper is left over, not even one that was half way through a restart
\* when StopDNS returned (dnshandler.go:141, 147-162).
StopsStay ==
    [][balance = 0 /\ ~named /\ caller \in {"idle", "stop", "quit"} => ~named']_vars

\* As long as the controller has started DNS more often than it stopped it,
\* and no StopDNS has stopped the shared ticker yet, a named that dies is
\* started again (dnshandler.go:147-157).
DeadNamedRevived ==
    (~named /\ balance > 0) ~> (named \/ ~ticker \/ balance = 0)

\* A StopDNS for which a keeper is alive returns, though that keeper may be
\* querying ddi-monitor or restarting named when the signal is offered
\* (dnshandler.go:141).
MatchedStopReturns ==
    (caller = "quit" /\ balance > 0) ~> (caller # "quit")

\* What dnshandler_test.go:246-248 expects of StopDNS ("stop successfully!"),
\* as far as named is concerned: named is down after a StopDNS that succeeded.
StoppedIsDown == wanted = "down" /\ caller = "idle" => ~named

\* What the test of StopDNS expects of it as a call: it returns.
StopReturns == (caller = "quit") ~> (caller # "quit")
=============================================================================
