---------------------------- MODULE MCEditorFiles ----------------------------
(* Paths of the runs of EditorFiles. *)
EXTENDS EditorFiles, TLC

CONSTANTS main, alt, fade

\* One path is opened twice, the others once.
TabsOf == [f \in Files |-> IF f = main THEN 2 ELSE 1]
=============================================================================
