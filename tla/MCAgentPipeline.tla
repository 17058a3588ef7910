--------------------------- MODULE MCAgentPipeline ---------------------------
(***************************************************************************)
(* Topics for AgentPipeline.                                               *)
(***************************************************************************)
EXTENDS AgentPipeline

MCConsumers == {"dns", "dhcp"}

\* Each topic has a command with an event; DNS goes on with one that has none,
\* DHCP with one that no case of the switch has.
MCTopic ==
    [x \in Commands |->
        IF x[2] = 1 THEN "answered" ELSE IF x[1] = "dns" THEN "quiet" ELSE "ignored"]
=============================================================================
