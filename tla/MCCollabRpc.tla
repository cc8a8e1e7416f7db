---------------------------- MODULE MCCollabRpc ----------------------------
(* Client ids for the run of CollabRpc. *)
EXTENDS CollabRpc, TLC

CONSTANTS a, b, c

\* A client whose low byte has its top bit set.
HighByteIDs == a :> 200 @@ b :> 2 @@ c :> 7
=============================================================================
