--------------------------- MODULE MCAgentSocket ---------------------------
(* Instances of AgentSocket for model checking.                            *)
EXTENDS AgentSocket
============================================================================
