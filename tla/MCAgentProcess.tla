--------------------------- MODULE MCAgentProcess ---------------------------
(***************************************************************************)
(* Model values for AgentProcess.                                          *)
(***************************************************************************)
EXTENDS AgentProcess

CONSTANTS a, b, c

MCUploads == {a, b, c}

\* The third is for another node.
MCMine == {a, b}

=============================================================================
