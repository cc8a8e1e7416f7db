----------------------------- MODULE MCGhostHub -----------------------------
(* Two Playgrounds that have both just been opened: their counters of      *)
(* streams are the same.                                                   *)
EXTENDS GhostHub, TLC

CONSTANTS a, b

Fresh == [p \in Peers |-> 1]
=============================================================================
