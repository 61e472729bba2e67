----------------------------- MODULE MCAgentLoop -----------------------------
(* AgentLoop on small instances: see the MCAgentLoop_*.cfg files.           *)
EXTENDS AgentLoop
=============================================================================
