---------------------------- MODULE MCAgentChat ----------------------------
(* A chat saved by an earlier visit, two agents and two turns. *)
EXTENDS AgentChat, TLC
=============================================================================
