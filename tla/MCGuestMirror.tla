---------------------------- MODULE MCGuestMirror ----------------------------
(* Paths of the runs of GuestMirror: two texts and an asset. *)
EXTENDS GuestMirror

CONSTANTS main, lib, png
=============================================================================
