--------------------------- MODULE MCSessionSync ---------------------------
(* Files of the run of SessionSync. *)
EXTENDS SessionSync, TLC

CONSTANTS f, g
=============================================================================
