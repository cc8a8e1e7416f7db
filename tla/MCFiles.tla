------------------------------- MODULE MCFiles -------------------------------
(* Who writes the page's files and who tells what was written: the mirror  *)
(* of a guest (a text and an asset), the editor (a file opened twice, one  *)
(* it can be renamed or moved to, and the manifest), and the source        *)
(* control panel over one file.  A behaviour is one of the three; the      *)
(* others stay as they start.                                              *)
EXTENDS GuestMirror, EditorFiles, SharingPanel, TLC

CONSTANTS main, alt, fade, png

\* One path is opened twice, the others once.
TabsOf == [f \in {main, alt, fade} |-> IF f = main THEN 2 ELSE 1]

\* The file is open in a tab or not, while local saves are made; and the remote is
\* polled, which fails or does not.
PanelWorlds ==
    {w \in [open : BOOLEAN, saving : BOOLEAN, polling : BOOLEAN, failing : BOOLEAN, contents : {2, 3}] :
        /\ w.saving = ~w.polling /\ w.contents = (IF w.polling /\ ~w.failing THEN 3 ELSE 2)
        /\ w.polling => w.open
        /\ w.failing => w.polling}

ASSUME EditorAssumption /\ PanelAssumption

VARIABLE part

\* Only the part called x moves.
InMirror == part = "mirror" /\ UNCHANGED <<part, editorVars, panelVars>>
InEditor == part = "editor" /\ UNCHANGED <<part, vars, panelVars>>
InPanel == part = "panel" /\ UNCHANGED <<part, vars, editorVars>>

\* The panel differs from world to world only where it is at work.
FilesInit ==
    /\ part \in {"mirror", "editor", "panel"} /\ Init /\ EditorInit /\ PanelInit
    /\ part # "panel" => world = CHOOSE w \in PanelWorlds : w.open /\ w.saving

FilesNext ==
    \/ \E p \in Paths :
        \/ InMirror /\ Edit(p)
        \/ InMirror /\ TimerFires(p)
    \/ \E dels, adds \in SUBSET Paths : InMirror /\ MapEvent(dels, adds)
    \/ \E r \in runs, fails \in BOOLEAN : InMirror /\ Resume(r, fails)
    \/ \E o \in writes, fails \in BOOLEAN : InMirror /\ WriteDone(o, fails)
    \/ InMirror /\ Leave
    \/ InMirror /\ SwitchBack
    \/ InMirror /\ RemoveTransient
    \/ \E f \in {main, alt, fade} :
        \/ InEditor /\ OpenFile(f)
        \/ InEditor /\ Type(f)
        \/ InEditor /\ CloseTab(f)
        \/ InEditor /\ AgentWrite(f)
        \/ InEditor /\ DeleteFile(f)
        \/ \E t \in Tabs : InEditor /\ AutoSave(f, t)
        \/ \E fails \in BOOLEAN : InEditor /\ OpDone(f, fails)
        \/ InEditor /\ Removed(f)
        \/ \E g \in {main, alt, fade} \ {f} : InEditor /\ Rename(f, g)
        \/ \E g \in {main, alt, fade} \ {f} : InEditor /\ Move(f, g)
    \/ InEditor /\ MutateManifest
    \/ InEditor /\ FlushPendingSaves
    \/ InEditor /\ Snapshot
    \/ InPanel /\ PanelNext

FilesSpec ==
    /\ FilesInit /\ [][FilesNext]_<<part, vars, editorVars, panelVars>>
    /\ Fairness /\ EditorFairness /\ PanelFairness

\* The type invariants of the three.
TypesOK == TypeOK /\ EditorTypeOK /\ PanelTypeOK
=============================================================================
