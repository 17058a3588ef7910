------------------------ MODULE DnsLifecycle_proofs ------------------------
(***************************************************************************)
(* What holds of StartDNS, StopDNS and the keepers for every number of     *)
(* keepers and every number of crashes.                                    *)
(***************************************************************************)
EXTENDS DnsLifecycle, FiniteSetTheorems, TLAPS

\* The invariant is inductive as it stands: the number of keepers is tied to
\* the answers given, and the type says which goroutines there can be.
IInv == TypeOK /\ KeepersBalance

-----------------------------------------------------------------------------
(* How a step changes the set of goroutines.                               *)

\* There are finitely many goroutines.
LEMMA LiveFinite == IsFiniteSet(Live)
  BY LifecycleAssumption, FS_Subset DEF Live

\* A goroutine that only moves on is still there, and no other is touched.
LEMMA LiveMoves ==
  ASSUME keeper \in [Keepers -> {"none", "select", "query", "prepare", "start"}],
         NEW k \in Keepers, keeper[k] # "none",
         NEW to, to # "none", keeper' = [keeper EXCEPT ![k] = to]
  PROVE  Live' = Live
  BY DEF Live

\* go keepDNSAlive() adds one goroutine.
LEMMA LiveGrows ==
  ASSUME keeper \in [Keepers -> {"none", "select", "query", "prepare", "start"}],
         NEW k \in Keepers \ Live, keeper' = [keeper EXCEPT ![k] = "select"]
  PROVE  Cardinality(Live') = Cardinality(Live) + 1
  <1>1. Live' = Live \cup {k}
    BY DEF Live
  <1>2. QED
    BY <1>1, LiveFinite, FS_AddElement

\* A keeper that leaves its loop takes one away.
LEMMA LiveShrinks ==
  ASSUME keeper \in [Keepers -> {"none", "select", "query", "prepare", "start"}],
         NEW k \in Keepers, keeper[k] # "none", keeper' = [keeper EXCEPT ![k] = "none"]
  PROVE  Cardinality(Live') = Cardinality(Live) - 1
  <1>1. Live' = Live \ {k} /\ k \in Live
    BY DEF Live
  <1>2. QED
    BY <1>1, LiveFinite, FS_RemoveElement

-----------------------------------------------------------------------------
(* Every step preserves the invariant.                                     *)

\* The initial states satisfy the invariant.
LEMMA InitIInv == Init => IInv
  <1> SUFFICES ASSUME Init PROVE IInv
    OBVIOUS
  <1>1. TypeOK
    <2>1. SwitchesOK
      BY Zenon DEF Init, SwitchesOK
    <2>2. QED
      BY <2>1, LifecycleAssumption DEF Init, TypeOK
  <1>2. Live = {}
    BY DEF Init, Live
  <1>3. KeepersBalance
    BY <1>2, FS_EmptySet DEF Init, KeepersBalance
  <1>4. QED
    BY <1>1, <1>3 DEF IInv

\* A command that fails changes neither the keepers nor the balance.
LEMMA FailIInv ==
  ASSUME IInv, Fail, named' \in BOOLEAN
  PROVE  IInv'
  <1>1. TypeOK'
    BY DEF IInv, Fail, TypeOK, SwitchesOK, handlerVars, history
  <1>2. KeepersBalance'
    BY DEF IInv, Fail, KeepersBalance, Live, handlerVars, history
  <1>3. QED
    BY <1>1, <1>2 DEF IInv

\* A StartDNS that succeeds adds a keeper and counts itself.
LEMMA StartReturnsIInv ==
  ASSUME IInv, StartReturns, named' \in BOOLEAN
  PROVE  IInv'
  <1>1. PICK k \in Keepers \ Live : keeper' = [keeper EXCEPT ![k] = "select"]
    BY DEF StartReturns
  <1>2. TypeOK'
    <2>1. SwitchesOK'
      BY Zenon DEF IInv, StartReturns, TypeOK, SwitchesOK
    <2>2. QED
      BY <1>1, <2>1 DEF IInv, StartReturns, TypeOK
  <1>3. Cardinality(Live') = Cardinality(Live) + 1
    BY <1>1, LiveGrows DEF IInv, TypeOK, SwitchesOK
  <1>4. KeepersBalance'
    BY <1>3 DEF IInv, StartReturns, KeepersBalance
  <1>5. QED
    BY <1>2, <1>4 DEF IInv

\* The caller's steps.
LEMMA CallerIInv ==
  ASSUME IInv, CallerNext
  PROVE  IInv'
  <1> USE DEF handlerVars, history
  <1>1. CASE \E command \in {"prepare", "stop"} : Give(command)
    BY <1>1 DEF Give, IInv, TypeOK, SwitchesOK, KeepersBalance, Live
  <1>2. CASE Prepare
    <2>1. CASE Fail
      BY <2>1, <1>2, FailIInv DEF IInv, TypeOK, SwitchesOK, Prepare
    <2>2. CASE ~Fail
      BY <2>2, <1>2 DEF Prepare, IInv, TypeOK, SwitchesOK, KeepersBalance, Live
    <2>3. QED
      BY <2>1, <2>2
  <1>3. CASE GetDNSState
    <2>1. CASE Fail
      BY <2>1, <1>3, FailIInv DEF IInv, TypeOK, SwitchesOK, GetDNSState
    <2>2. CASE ~Fail
      BY <2>2, <1>3 DEF GetDNSState, IInv, TypeOK, SwitchesOK, KeepersBalance, Live
    <2>3. QED
      BY <2>1, <2>2
  <1>4. CASE RndcReload
    BY <1>4, StartReturnsIInv DEF RndcReload, IInv, TypeOK, SwitchesOK
  <1>5. CASE MonitorStartDNS
    BY <1>5, StartReturnsIInv DEF MonitorStartDNS, IInv, TypeOK, SwitchesOK
  <1>6. CASE MonitorStopDNS
    <2>0. ~boot
      BY <1>6 DEF MonitorStopDNS, IInv, TypeOK
    <2>1. CASE Fail /\ named' \in {named, FALSE}
      BY <2>1, FailIInv DEF IInv, TypeOK, SwitchesOK
    <2>2. CASE ~(Fail /\ named' \in {named, FALSE})
      <3>1. /\ named' = FALSE /\ caller' = "quit"
            /\ UNCHANGED <<handlerVars, boot, history>>
        BY <2>2, <1>6 DEF MonitorStopDNS
      <3>2. SwitchesOK' /\ ~boot'
        BY <2>0, <3>1 DEF IInv, TypeOK, SwitchesOK
      <3>3. TypeOK'
        BY <3>1, <3>2 DEF IInv, TypeOK
      <3>4. QED
        BY <3>1, <3>3 DEF IInv, KeepersBalance, Live
    <2>3. QED
      BY <2>1, <2>2
  <1>7. QED
    BY <1>1, <1>2, <1>3, <1>4, <1>5, <1>6 DEF CallerNext, StartDNS, StopDNS

\* The steps in which a keeper stays in its loop.
LEMMA KeeperGoesIInv ==
  ASSUME IInv, NEW k \in Keepers,
         NEW from \in {"select", "query", "prepare", "start"},
         NEW to \in {"select", "query", "prepare", "start"},
         KeeperGoes(k, from, to), named' \in BOOLEAN, tick' \in BOOLEAN
  PROVE  IInv'
  <1>1. TypeOK'
    BY DEF IInv, KeeperGoes, TypeOK, SwitchesOK, history
  <1>2. Live' = Live
    BY LiveMoves DEF IInv, KeeperGoes, TypeOK, SwitchesOK
  <1>3. KeepersBalance'
    BY <1>2 DEF IInv, KeepersBalance, KeeperGoes, history
  <1>4. QED
    BY <1>1, <1>3 DEF IInv

\* The rendezvous on quit takes one keeper and counts one StopDNS.
LEMMA QuitIInv ==
  ASSUME IInv, NEW k \in Keepers, Quit(k)
  PROVE  IInv'
  <1>1. TypeOK'
    <2>1. SwitchesOK'
      BY Zenon DEF IInv, Quit, TypeOK, SwitchesOK
    <2>2. QED
      BY <2>1 DEF IInv, Quit, TypeOK
  <1>2. Cardinality(Live') = Cardinality(Live) - 1
    BY LiveShrinks DEF IInv, Quit, TypeOK, SwitchesOK
  <1>3. KeepersBalance'
    BY <1>2 DEF IInv, KeepersBalance, Quit
  <1>4. QED
    BY <1>1, <1>3 DEF IInv

\* The keepers' steps.
LEMMA KeeperIInv ==
  ASSUME IInv, NEW k \in Keepers, KeeperNext(k)
  PROVE  IInv'
  <1>0. named \in BOOLEAN /\ tick \in BOOLEAN
    BY DEF IInv, TypeOK, SwitchesOK
  <1>1. CASE Quit(k)
    BY <1>1, QuitIInv
  <1>2. CASE KeeperTick(k)
    BY <1>0, <1>2, KeeperGoesIInv DEF KeeperTick
  <1>3. CASE KeeperContinues(k)
    BY <1>0, <1>3, KeeperGoesIInv DEF KeeperContinues
  <1>4. CASE KeeperSeesDown(k)
    BY <1>0, <1>4, KeeperGoesIInv DEF KeeperSeesDown
  <1>5. CASE KeeperPrepares(k)
    BY <1>0, <1>5, KeeperGoesIInv DEF KeeperPrepares
  <1>6. CASE KeeperGivesUp(k)
    BY <1>0, <1>6, KeeperGoesIInv DEF KeeperGivesUp
  <1>7. CASE KeeperStarts(k)
    BY <1>0, <1>7, KeeperGoesIInv DEF KeeperStarts
  <1>8. CASE KeeperStartFails(k)
    BY <1>0, <1>8, KeeperGoesIInv DEF KeeperStartFails
  <1>9. QED
    BY <1>1, <1>2, <1>3, <1>4, <1>5, <1>6, <1>7, <1>8 DEF KeeperNext

\* A new process has neither keepers nor answered commands.
LEMMA AgentRestartsIInv ==
  ASSUME IInv, AgentRestarts
  PROVE  IInv'
  <1>1. TypeOK'
    <2>1. SwitchesOK'
      BY Zenon DEF IInv, TypeOK, SwitchesOK, AgentRestarts
    <2>2. QED
      BY <2>1, LifecycleAssumption DEF IInv, TypeOK, AgentRestarts
  <1>2. Live' = {}
    BY DEF AgentRestarts, Live
  <1>3. KeepersBalance'
    BY <1>2, FS_EmptySet DEF AgentRestarts, KeepersBalance
  <1>4. QED
    BY <1>1, <1>3 DEF IInv

\* Every step preserves the invariant.
LEMMA NextIInv == IInv /\ [Next]_vars => IInv'
  <1> SUFFICES ASSUME IInv, [Next]_vars PROVE IInv'
    OBVIOUS
  <1>1. CASE CallerNext
    BY <1>1, CallerIInv
  <1>2. CASE \E k \in Keepers : KeeperNext(k)
    BY <1>2, KeeperIInv
  <1>3. CASE TickerFires
    BY <1>3 DEF TickerFires, IInv, TypeOK, SwitchesOK, KeepersBalance, Live, history
  <1>4. CASE NamedDies
    BY <1>4 DEF NamedDies, IInv, TypeOK, SwitchesOK, KeepersBalance, Live, handlerVars, history
  <1>5. CASE AgentRestarts
    BY <1>5, AgentRestartsIInv
  <1>6. CASE UNCHANGED vars
    BY <1>6 DEF vars, IInv, TypeOK, SwitchesOK, KeepersBalance, Live
  <1>7. QED
    BY <1>1, <1>2, <1>3, <1>4, <1>5, <1>6 DEF Next

-----------------------------------------------------------------------------
(* The theorems.                                                           *)

\* The invariant holds in every reachable state.
LEMMA AlwaysIInv == Spec => []IInv
  <1>1. QED
    BY InitIInv, NextIInv, PTL DEF Spec

\* Every variable keeps its type.
THEOREM TypeCorrect == Spec => []TypeOK
  BY AlwaysIInv, PTL DEF IInv

\* Each successful StopDNS ends exactly one keeper, and nothing else ends one.
THEOREM KeepersCounted == Spec => []KeepersBalance
  BY AlwaysIInv, PTL DEF IInv

\* When every successful start has been matched by a successful stop, no
\* keeper is left that could start named.
LEMMA NobodyRevives ==
  ASSUME IInv, [Next]_vars,
         balance = 0, ~named, caller \in {"idle", "stop", "quit"}
  PROVE  ~named' \/ AgentRestarts
  <1>1. Live = {}
    BY LiveFinite, FS_EmptySet DEF IInv, KeepersBalance
  <1>2. \A k \in Keepers : keeper[k] = "none"
    BY <1>1 DEF Live
  <1>3. CASE CallerNext
    BY <1>3 DEF CallerNext, StartDNS, StopDNS, Give, Prepare, GetDNSState, RndcReload,
                MonitorStartDNS, MonitorStopDNS
  <1>4. CASE \E k \in Keepers : KeeperNext(k)
    BY <1>4, <1>2 DEF KeeperNext, Quit, KeeperTick, KeeperContinues, KeeperSeesDown,
                      KeeperPrepares, KeeperGivesUp, KeeperStarts, KeeperStartFails, KeeperGoes
  <1>5. CASE TickerFires \/ NamedDies \/ AgentRestarts
    BY <1>5 DEF TickerFires, NamedDies
  <1>6. CASE UNCHANGED vars
    BY <1>6 DEF vars
  <1>7. QED
    BY <1>3, <1>4, <1>5, <1>6 DEF Next

\* After matched stops named is not started behind the controller's back.
THEOREM StopsStayHolds == Spec => StopsStay
  <1>1. ASSUME IInv, [Next]_vars
        PROVE  [balance = 0 /\ ~named /\ caller \in {"idle", "stop", "quit"} => ~named']_vars
    BY <1>1, NobodyRevives DEF AgentRestarts, IInv, TypeOK, SwitchesOK
  <1>2. QED
    BY <1>1, AlwaysIInv, PTL DEF Spec, StopsStay
=============================================================================
