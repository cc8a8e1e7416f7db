----------------------------- MODULE MCAssetSync -----------------------------
(* The files of the runs of AssetSync. *)
EXTENDS AssetSync

CONSTANTS tex, snd, fade
=============================================================================
