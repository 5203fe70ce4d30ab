--------------------------- MODULE MCAgentUpdate ---------------------------
(* A small instance of AgentUpdate. *)
EXTENDS AgentUpdate
================================================================================
