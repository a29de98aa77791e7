----------------------------- MODULE MCAgentCore -----------------------------
(* Model-checking instances of AgentCore; the constants are in the .cfg files *)
EXTENDS AgentCore
=============================================================================
