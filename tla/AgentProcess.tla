---------------------------- MODULE AgentProcess ----------------------------
(***************************************************************************)
(* The agent's process with the log uploads it runs: uploads are taken on  *)
(* only while the consumer and the handlers of DNS run, and end with the   *)
(* process, whatever ends it.                                              *)
(***************************************************************************)
EXTENDS LogUpload, AgentBoot

processVars == <<vars, bootVars>>

ProcessInit == Init /\ BootInit

\* Commands are read by the consumer, and carried out by the handlers.
Takes(u) ==
    /\ {"dnsConsumer", "dnsHandlers"} \subseteq running
    /\ Receive(u)
    /\ UNCHANGED bootVars

Goes(u) == Work(u) /\ UNCHANGED bootVars

Boots == BootSteps /\ UNCHANGED vars

Dies == Ends /\ Die

RunsAgain == Restarts /\ UNCHANGED vars

Ticks == Tick /\ UNCHANGED bootVars

ProcessNext ==
    \/ \E u \in Uploads : Takes(u) \/ Goes(u)
    \/ Boots \/ Dies \/ RunsAgain \/ Ticks

(***************************************************************************)
(* Fairness: a goroutine goes on with its upload.                          *)
(***************************************************************************)
ProcessSpec ==
    /\ ProcessInit /\ [][ProcessNext]_processVars
    /\ \A u \in Uploads : WF_processVars(Goes(u))

\* Every variable has its type.
ProcessTypeOK == TypeOK /\ BootTypeOK
=============================================================================
