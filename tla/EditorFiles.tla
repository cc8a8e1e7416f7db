---------------------------- MODULE EditorFiles ----------------------------
(***************************************************************************)
(* The editor's files: the Monaco models, the tabs over them, the          *)
(* debounced autosave, and the operations that flush, close, rename, move  *)
(* and delete (openFile, closeTab, flushPendingSaves, commitRename,        *)
(* commitRenamePath, deleteFile, mutateManifest and the write of the       *)
(* agent's workspace adapter, all in Playground/src/main.ts).              *)
(*                                                                         *)
(* A model outlives its tab, and every file has one from the start.  Only  *)
(* a tab saves: openFile attaches the listener that arms the save timer,   *)
(* and a file opened again gets a second tab object and a second listener  *)
(* on the same model.  Disk operations are asynchronous; those of one path *)
(* take effect in the order they were started.                             *)
(***************************************************************************)
EXTENDS Integers, Sequences, FiniteSets

CONSTANTS
    Files,        \* paths of the active project
    Existing,     \* those that exist at the start
    Manifest,     \* {fade.json}; it lists every other file as a source
    MaxEdits,     \* bound on what the user and the agent do to texts
    MaxTabs,      \* bound on the tab objects made for each path
    SavesFail     \* may a save fail?

\* What the constants must be; MCFiles assumes it.
EditorAssumption ==
    /\ Existing \subseteq Files
    /\ Manifest \subseteq Existing
    /\ MaxEdits \in Nat
    /\ MaxTabs \in [Files -> Nat]
    /\ SavesFail \in BOOLEAN

NoFile == -1      \* no file, no model
Tabs == UNION {1 .. MaxTabs[f] : f \in Files}
EditStamps == 0 .. 2 * MaxEdits

VARIABLES
    edits,        \* changes so far: the text a change leaves is its number
    onDisk,       \* what the file holds
    model,        \* what the model of the path holds
    shown,        \* the tab in the tabs map, 0 when the file is not open
    made,         \* tab objects made for the path so far
    attached,     \* the tabs whose listener is on the living model
    dirty,        \* Tab.dirty
    saveTimer,    \* Tab.saveTimer is armed
    queue,        \* disk operations under way, per path
    flush,        \* the flush of a commit: the tabs it writes, what it must leave on disk
    loose         \* ghost: paths with a change that nothing will save

editorVars == <<edits, onDisk, model, shown, made, attached, dirty, saveTimer, queue,
          flush, loose>>

NoFlush == <<>>

-----------------------------------------------------------------------------
\* A disk operation: the tab it was started for (0: none), by whom, and what
\* it leaves in the file.
Op(t, by, says) == [tab |-> t, by |-> by, says |-> says]

Start(f, op) == queue' = [queue EXCEPT ![f] = Append(@, op)]

\* onDidChangeContent of every listener on the model of f.
Changed(f) ==
    /\ dirty' = [dirty EXCEPT ![f] = [t \in Tabs |-> @[t] \/ t \in attached[f]]]
    /\ saveTimer' = [saveTimer EXCEPT ![f] = [t \in Tabs |-> @[t] \/ t \in attached[f]]]

\* mutateManifest: the edit is made in the model of fade.json, open or not;
\* m is what the models hold before, old the paths whose model was disposed.
EditManifest(m, old) ==
    /\ model' = [f \in Files |-> IF f \in Manifest /\ m[f] # NoFile
                               THEN edits + 1 ELSE m[f]]
    /\ dirty' = [f \in Files |-> [t \in Tabs |-> f \notin old /\
          (dirty[f][t] \/ (f \in Manifest /\ t \in attached[f]))]]
    /\ saveTimer' = [f \in Files |-> [t \in Tabs |-> f \notin old /\
          (saveTimer[f][t] \/ (f \in Manifest /\ t \in attached[f]))]]

\* The model of f is disposed.  The save timers of its tabs read a dead model
\* from now on: they fail and change nothing.
Dead == [t \in Tabs |-> FALSE]

\* The manifests whose edit no listener sees.
Unheard == {f \in Manifest : attached[f] = {}}

\* A removal of f is under way.
Deleting(f) == \E i \in 1 .. Len(queue[f]) : queue[f][i].by = "delete"

\* A fresh tab object on the model of f.
NewTab(f) == made[f] + 1

\* The model says something else than the disk operations under way will leave,
\* the agent's aside, which replaces what the model says.
Unsaved(f) ==
    /\ model[f] # NoFile
    /\ IF queue[f] = <<>> THEN model[f] # onDisk[f]
       ELSE LET last == queue[f][Len(queue[f])]
            IN  last.by # "agent" /\ last.says # model[f]

EditorInit ==
    /\ edits = 0
    /\ onDisk = [f \in Files |-> IF f \in Existing THEN 0 ELSE NoFile]
    /\ model = onDisk
    /\ shown = [f \in Files |-> 0]
    /\ made = [f \in Files |-> 0]
    /\ attached = [f \in Files |-> {}]
    /\ dirty = [f \in Files |-> [t \in Tabs |-> FALSE]]
    /\ saveTimer = [f \in Files |-> [t \in Tabs |-> FALSE]]
    /\ queue = [f \in Files |-> <<>>]
    /\ flush = NoFlush
    /\ loose = {}

-----------------------------------------------------------------------------
\* openFile: a tab over the model the registry has, or over a new one.  The file
\* may be on its way out.
OpenFile(f) ==
    /\ shown[f] = 0 /\ onDisk[f] # NoFile /\ NewTab(f) <= MaxTabs[f]
    /\ model' = [model EXCEPT ![f] = IF @ = NoFile THEN onDisk[f] ELSE @]
    /\ shown' = [shown EXCEPT ![f] = NewTab(f)]
    /\ made' = [made EXCEPT ![f] = NewTab(f)]
    /\ attached' = [attached EXCEPT ![f] = @ \cup {NewTab(f)}]
    /\ loose' = loose \cup {g \in {f} : Deleting(f)}
    /\ UNCHANGED <<edits, onDisk, dirty, saveTimer, queue, flush>>

\* Mutant of Type: the timer is armed on the first change only.
TypeArmsOnce(f) ==
    /\ shown[f] # 0 /\ edits < MaxEdits
    /\ edits' = edits + 1
    /\ model' = [model EXCEPT ![f] = edits + 1]
    /\ dirty' = [dirty EXCEPT ![f] = [t \in Tabs |-> @[t] \/ t \in attached[f]]]
    /\ saveTimer' = [saveTimer EXCEPT ![f] = [t \in Tabs |->
          @[t] \/ (t \in attached[f] /\ ~dirty[f][t])]]
    /\ UNCHANGED <<onDisk, shown, made, attached, queue, flush, loose>>

\* The user types into an open file.
Type(f) ==
    /\ shown[f] # 0 /\ edits < MaxEdits
    /\ edits' = edits + 1
    /\ model' = [model EXCEPT ![f] = edits + 1]
    /\ Changed(f)
    /\ UNCHANGED <<onDisk, shown, made, attached, queue, flush, loose>>

\* The source badges of the file list edit the manifest.
MutateManifest ==
    /\ Manifest # {} /\ edits < MaxEdits
    /\ edits' = edits + 1
    /\ EditManifest(model, {})
    /\ loose' = loose \cup Unheard
    /\ UNCHANGED <<onDisk, shown, made, attached, queue, flush>>

\* The save timer of a tab fires.
AutoSave(f, t) ==
    /\ saveTimer[f][t]
    /\ saveTimer' = [saveTimer EXCEPT ![f][t] = FALSE]
    /\ Start(f, Op(t, "auto", model[f]))
    /\ UNCHANGED <<edits, onDisk, model, shown, made, attached, dirty, flush, loose>>

\* A disk operation completes.  A tab's save clears its dirty flag; the agent's
\* write is then put into the model if the file is open, and leaves it clean.
OpDone(f, fails) ==
    LET op == Head(queue[f])
        intoModel == op.by = "agent" /\ ~fails /\ shown[f] # 0 /\ model[f] # op.says
    IN  /\ queue[f] # <<>> /\ op.by # "delete"
        /\ fails => SavesFail /\ op.by \in {"auto", "agent"}
        /\ queue' = [queue EXCEPT ![f] = Tail(@)]
        /\ onDisk' = IF fails THEN onDisk ELSE [onDisk EXCEPT ![f] = op.says]
        /\ model' = IF intoModel THEN [model EXCEPT ![f] = op.says] ELSE model
        /\ dirty' = [dirty EXCEPT ![f] = [t \in Tabs |->
              CASE fails -> @[t]
                [] op.by \in {"auto", "flush"} -> @[t] /\ t # op.tab
                [] intoModel -> (@[t] \/ t \in attached[f]) /\ t # shown[f]
                [] OTHER -> @[t]]]
        /\ saveTimer' = [saveTimer EXCEPT ![f] = [t \in Tabs |->
              @[t] \/ (intoModel /\ t \in attached[f])]]
        /\ loose' = loose \cup {g \in {f} :
              \/ fails
              \/ op.by = "agent" /\ shown[f] = 0 /\ model[f] # NoFile
              \/ intoModel /\ model[f] > op.says}
        /\ UNCHANGED <<edits, shown, made, attached, flush>>

\* A removal completes and the file's entry leaves the manifest.
Removed(f) ==
    /\ queue[f] # <<>> /\ Head(queue[f]).by = "delete"
    /\ edits' = edits + 1
    /\ queue' = [queue EXCEPT ![f] = Tail(@)]
    /\ onDisk' = [onDisk EXCEPT ![f] = NoFile]
    /\ EditManifest(model, {})
    /\ loose' = loose \cup Unheard
    /\ UNCHANGED <<shown, made, attached, flush>>

\* closeTab: the tab leaves the map; its model, listener and timer live on.
CloseTab(f) ==
    /\ shown[f] # 0
    /\ shown' = [shown EXCEPT ![f] = 0]
    /\ UNCHANGED <<edits, onDisk, model, made, attached, dirty, saveTimer, queue,
                   flush, loose>>

\* The agent writes a file through its workspace adapter.
AgentWrite(f) ==
    /\ onDisk[f] # NoFile /\ edits < MaxEdits
    /\ edits' = edits + 1
    /\ Start(f, Op(0, "agent", edits + 1))
    /\ UNCHANGED <<onDisk, model, shown, made, attached, dirty, saveTimer, flush, loose>>

-----------------------------------------------------------------------------
\* The tabs flushPendingSaves writes.
DirtyTabs == {f \in Files : shown[f] # 0 /\ dirty[f][shown[f]]}

\* Mutant of FlushPendingSaves: the tabs with an armed timer are written, not
\* those that are dirty.
FlushArmedTabs ==
    LET armed == {f \in Files : shown[f] # 0 /\ saveTimer[f][shown[f]]}
    IN  /\ flush = NoFlush
        /\ queue' = [f \in Files |-> IF f \in armed
              THEN Append(queue[f], Op(shown[f], "flush", model[f])) ELSE queue[f]]
        /\ saveTimer' = [f \in Files |-> [t \in Tabs |->
              saveTimer[f][t] /\ ~(f \in armed /\ t = shown[f])]]
        /\ flush' = [tabs |-> DirtyTabs, want |-> model]
        /\ UNCHANGED <<edits, onDisk, model, shown, made, attached, dirty, loose>>

\* A commit or a local save begins with flushPendingSaves: timers of the dirty
\* tabs are cleared and their values written.
FlushPendingSaves ==
    /\ flush = NoFlush
    /\ queue' = [f \in Files |-> IF f \in DirtyTabs
          THEN Append(queue[f], Op(shown[f], "flush", model[f])) ELSE queue[f]]
    /\ saveTimer' = [f \in Files |-> [t \in Tabs |->
          saveTimer[f][t] /\ ~(f \in DirtyTabs /\ t = shown[f])]]
    /\ flush' = [tabs |-> DirtyTabs, want |-> model]
    /\ UNCHANGED <<edits, onDisk, model, shown, made, attached, dirty, loose>>

\* Promise.all: every write of the flush is through.
Flushed == flush # NoFlush /\
    \A f \in Files : \A i \in 1 .. Len(queue[f]) : queue[f][i].by # "flush"

\* The commit goes on to snapshot the working tree.
Snapshot ==
    /\ Flushed
    /\ flush' = NoFlush
    /\ UNCHANGED <<edits, onDisk, model, shown, made, attached, dirty, saveTimer,
                   queue, loose>>

-----------------------------------------------------------------------------
\* A rename or a move leaves something behind: text not saved yet, or an
\* operation under way that goes to the old name.
Astray(f) == Unsaved(f) \/ queue[f] # <<>> \/ f \in loose

\* A flush owes nothing to a file that goes.
Forgotten(f) == flush' = IF flush = NoFlush THEN flush ELSE [flush EXCEPT !.tabs = @ \ {f}]

\* commitRename: the file is copied and removed, the model disposed and made
\* anew under the new name, and the open tab replaced by a clean one.
Rename(f, g) ==
    /\ onDisk[f] # NoFile /\ onDisk[g] = NoFile /\ model[g] = NoFile /\ edits < MaxEdits
    /\ edits' = edits + 1
    /\ f \notin Manifest
    /\ shown[f] # 0 => NewTab(g) <= MaxTabs[g]
    /\ onDisk' = [onDisk EXCEPT ![g] = onDisk[f], ![f] = NoFile]
    /\ EditManifest([model EXCEPT ![g] = IF model[f] = NoFile THEN onDisk[f] ELSE model[f],
                                  ![f] = NoFile], {f})
    /\ attached' = [attached EXCEPT ![f] = {},
                                    ![g] = IF shown[f] = 0 THEN {} ELSE {NewTab(g)}]
    /\ made' = [made EXCEPT ![g] = IF shown[f] = 0 THEN @ ELSE NewTab(g)]
    /\ shown' = [shown EXCEPT ![f] = 0, ![g] = IF shown[f] = 0 THEN 0 ELSE NewTab(g)]
    /\ loose' = loose \cup {x \in {f, g} : Astray(f) \/ Astray(g)} \cup Unheard
    /\ Forgotten(f) /\ UNCHANGED queue

\* commitRenamePath, a move: the tab is closed and the file moved; the model
\* stays under the old path.
Move(f, g) ==
    /\ onDisk[f] # NoFile /\ onDisk[g] = NoFile /\ model[g] = NoFile /\ edits < MaxEdits
    /\ edits' = edits + 1
    /\ f \notin Manifest
    /\ onDisk' = [onDisk EXCEPT ![g] = onDisk[f], ![f] = NoFile]
    /\ shown' = [shown EXCEPT ![f] = 0]
    /\ EditManifest(model, {})
    /\ loose' = loose \cup {x \in {f, g} : Astray(f) \/ Astray(g)} \cup {f} \cup Unheard
    /\ Forgotten(f) /\ UNCHANGED <<made, attached, queue>>

\* Mutant of DeleteFile: the model of the deleted file is not disposed.
DeleteKeepsModel(f) ==
    /\ onDisk[f] # NoFile /\ ~Deleting(f) /\ f \notin Manifest /\ edits < MaxEdits
    /\ edits' = edits + 1
    /\ shown' = [shown EXCEPT ![f] = 0]
    /\ Start(f, Op(0, "delete", NoFile))
    /\ Forgotten(f)
    /\ UNCHANGED <<onDisk, model, made, attached, dirty, saveTimer, loose>>

\* Mutant of DeleteFile: the tab of the deleted file stays open.
DeleteKeepsTab(f) ==
    /\ onDisk[f] # NoFile /\ ~Deleting(f) /\ f \notin Manifest /\ edits < MaxEdits
    /\ edits' = edits + 1
    /\ model' = [model EXCEPT ![f] = NoFile]
    /\ attached' = [attached EXCEPT ![f] = {}]
    /\ dirty' = [dirty EXCEPT ![f] = Dead] /\ saveTimer' = [saveTimer EXCEPT ![f] = Dead]
    /\ Start(f, Op(0, "delete", NoFile)) /\ Forgotten(f)
    /\ UNCHANGED <<onDisk, shown, made, loose>>

\* deleteFile: the tab is closed, the model disposed, the file removed.
DeleteFile(f) ==
    /\ onDisk[f] # NoFile /\ ~Deleting(f) /\ f \notin Manifest /\ edits < MaxEdits
    /\ edits' = edits + 1
    /\ shown' = [shown EXCEPT ![f] = 0]
    /\ model' = [model EXCEPT ![f] = NoFile]
    /\ attached' = [attached EXCEPT ![f] = {}]
    /\ dirty' = [dirty EXCEPT ![f] = Dead] /\ saveTimer' = [saveTimer EXCEPT ![f] = Dead]
    /\ Start(f, Op(0, "delete", NoFile)) /\ Forgotten(f)
    /\ UNCHANGED <<onDisk, made, loose>>

EditorNext ==
    \/ \E f \in Files :
        \/ OpenFile(f) \/ Type(f) \/ CloseTab(f)
        \/ AgentWrite(f) \/ DeleteFile(f)
        \/ \E t \in Tabs : AutoSave(f, t)
        \/ \E fails \in BOOLEAN : OpDone(f, fails)
        \/ Removed(f)
        \/ \E g \in Files \ {f} : Rename(f, g) \/ Move(f, g)
    \/ MutateManifest \/ FlushPendingSaves \/ Snapshot

EditorSpec == EditorInit /\ [][EditorNext]_editorVars

\* Timers fire and disk operations complete: one after the other, in any order.
EditorDue ==
    \E f \in Files :
        \/ \E t \in Tabs : AutoSave(f, t)
        \/ Removed(f)
        \/ \E fails \in BOOLEAN : OpDone(f, fails)

EditorFairness == WF_editorVars(EditorDue)

EditorFairSpec == EditorSpec /\ EditorFairness

-----------------------------------------------------------------------------
Contents == {NoFile} \cup EditStamps
DiskOps == [tab : {0} \cup Tabs, by : {"auto", "flush", "agent", "delete"}, says : Contents]

\* The type invariant.
EditorTypeOK ==
    /\ edits \in EditStamps
    /\ onDisk \in [Files -> Contents]
    /\ model \in [Files -> Contents]
    /\ shown \in [Files -> {0} \cup Tabs]
    /\ made \in [Files -> {0} \cup Tabs]
    /\ attached \in [Files -> SUBSET Tabs]
    /\ dirty \in [Files -> [Tabs -> BOOLEAN]]
    /\ saveTimer \in [Files -> [Tabs -> BOOLEAN]]
    /\ queue \in [Files -> Seq(DiskOps)]
    /\ flush = NoFlush \/ (flush.tabs \subseteq Files /\ flush.want \in [Files -> Contents])
    /\ loose \subseteq Files
    /\ \A f \in Files : shown[f] # 0 => shown[f] \in attached[f] /\ model[f] # NoFile

\* Text that is not on disk is on its way there: a timer is armed on a tab
\* that can still read the model, or the last operation under way writes it.
\* Closing and reopening tabs, several listeners on one model, flushes and the
\* agent's writes into an open file do not lose it.
UnsavedIsScheduled ==
    \A f \in Files \ loose :
        Unsaved(f) => \E t \in attached[f] : saveTimer[f][t]

\* What was dirty in a tab when a commit began is on disk, in that or a later
\* version, when the commit takes its snapshot, unless the file is deleted or gets
\* another name meanwhile.
FlushCoversDirtyTabs ==
    Flushed => \A f \in flush.tabs \ loose : onDisk[f] >= flush.want[f]

\* A file the user deleted does not come back from a save of the editor: only a
\* rename or a write of the agent makes a file of that name again.
DeletedStaysDeleted ==
    [][\A f \in Files \ loose :
         onDisk[f] = NoFile /\ onDisk'[f] # NoFile
         => \/ queue[f] # <<>> /\ Head(queue[f]).by = "agent"
            \/ \E g \in Files \ {f} : onDisk'[f] = onDisk[g] /\ onDisk'[g] = NoFile]_editorVars

\* With timers that fire and disk operations that complete, what is in the
\* editor is on disk in the end.
EventuallySaved ==
    <>[](\A f \in Files \ loose : model[f] \in {NoFile, onDisk[f]})

\* What flushPendingSaves is there for: the working tree a commit snapshots
\* reflects the editor.
CommitReflectsEditor ==
    Flushed => \A f \in Files : model[f] # NoFile => onDisk[f] >= flush.want[f]
=============================================================================
