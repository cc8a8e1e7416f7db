---------------------------- MODULE FilesProofs ----------------------------
(***************************************************************************)
(* Proofs about EditorFiles, for any files, changes, tabs and disk         *)
(* failures, and about SharingPanel, for any bounds and worlds.            *)
(***************************************************************************)
EXTENDS EditorFiles, SharingPanel, FiniteSetTheorems, TLAPS

-----------------------------------------------------------------------------
(* The editor's files: the types. *)

Orders == [tab : {0} \cup Tabs, by : {"auto", "flush", "agent", "delete"}, says : Int]

\* EditorTypeOK without the bounds on the stamps.
Types ==
    /\ edits \in Nat
    /\ onDisk \in [Files -> Int] /\ model \in [Files -> Int]
    /\ shown \in [Files -> {0} \cup Tabs] /\ made \in [Files -> {0} \cup Tabs]
    /\ attached \in [Files -> SUBSET Tabs]
    /\ dirty \in [Files -> [Tabs -> BOOLEAN]] /\ saveTimer \in [Files -> [Tabs -> BOOLEAN]]
    /\ queue \in [Files -> Seq(Orders)]
    /\ flush = NoFlush \/ flush \in [tabs : SUBSET Files, want : [Files -> Int]]
    /\ loose \subseteq Files

LEMMA TabNumbers ==
    ASSUME EditorAssumption
    PROVE  /\ Tabs \subseteq Nat \ {0}
           /\ \A f \in Files, n \in {0} \cup Tabs : n + 1 <= MaxTabs[f] => n + 1 \in Tabs
<1>1. MaxTabs \in [Files -> Nat]
  BY DEF EditorAssumption
<1>2. Tabs \subseteq Nat \ {0}
  BY <1>1 DEF Tabs
<1>3. ASSUME NEW f \in Files, NEW n \in {0} \cup Tabs, n + 1 <= MaxTabs[f] PROVE n + 1 \in Tabs
  <2>1. n + 1 \in 1 .. MaxTabs[f]
    BY <1>1, <1>2, <1>3
  <2> QED
    BY <2>1 DEF Tabs
<1> QED
  BY <1>2, <1>3

\* A queue with an order at its end.
LEMMA Appended ==
    ASSUME NEW S, NEW s \in Seq(S), NEW m \in S
    PROVE  /\ Append(s, m) \in Seq(S) /\ Len(s) \in Nat /\ Append(s, m) # <<>>
           /\ Len(Append(s, m)) = Len(s) + 1 /\ Append(s, m)[Len(s) + 1] = m
           /\ \A i \in 1 .. Len(s) : Append(s, m)[i] = s[i] /\ s[i] \in S
OBVIOUS

\* A queue whose first order is done.
LEMMA TakenOff ==
    ASSUME NEW S, NEW s \in Seq(S), s # <<>>
    PROVE  /\ Head(s) = s[1] /\ Head(s) \in S /\ Tail(s) \in Seq(S) /\ Len(s) \in Nat \ {0}
           /\ Len(Tail(s)) = Len(s) - 1 /\ (Tail(s) = <<>> <=> Len(s) = 1)
           /\ \A i \in 1 .. Len(s) - 1 : Tail(s)[i] = s[i + 1]
<1>1. /\ Head(s) = s[1] /\ Head(s) \in S /\ Tail(s) \in Seq(S) /\ Len(s) \in Nat \ {0}
      /\ Len(Tail(s)) = Len(s) - 1
      /\ \A i \in 1 .. Len(s) - 1 : Tail(s)[i] = s[i + 1]
  OBVIOUS
<1>2. \A q \in Seq(S) : q = <<>> <=> Len(q) = 0
  OBVIOUS
<1>3. Tail(s) = <<>> <=> Len(Tail(s)) = 0
  BY <1>1, <1>2
<1> QED
  BY <1>1, <1>3

LEMMA TypesInit == EditorAssumption /\ EditorInit => Types
BY DEF EditorAssumption, EditorInit, Types, NoFile, NoFlush

\* The models and the timers once the manifest is edited.
LEMMA TypesManifest ==
    ASSUME Types, NEW m \in [Files -> Int], NEW old, EditManifest(m, old)
    PROVE  /\ model' \in [Files -> Int]
           /\ dirty' \in [Files -> [Tabs -> BOOLEAN]] /\ saveTimer' \in [Files -> [Tabs -> BOOLEAN]]
<1>1. model' \in [Files -> Int]
  BY DEF EditManifest, Types
<1>2. dirty' \in [Files -> [Tabs -> BOOLEAN]]
  BY DEF EditManifest
<1>3. saveTimer' \in [Files -> [Tabs -> BOOLEAN]]
  BY DEF EditManifest
<1> QED
  BY <1>1, <1>2, <1>3

LEMMA TypesFlush ==
    ASSUME Types, NEW f \in Files, Forgotten(f)
    PROVE  flush' = NoFlush \/ flush' \in [tabs : SUBSET Files, want : [Files -> Int]]
<1>1. CASE flush = NoFlush
  BY <1>1 DEF Forgotten
<1>2. CASE flush \in [tabs : SUBSET Files, want : [Files -> Int]]
  BY <1>2 DEF Forgotten
<1> QED
  BY <1>1, <1>2 DEF Types

LEMMA TypesQueue ==
    ASSUME Types, NEW f \in Files,
           NEW t \in {0} \cup Tabs, NEW by \in {"auto", "flush", "agent", "delete"}, NEW n \in Int,
           Start(f, Op(t, by, n))
    PROVE  queue' \in [Files -> Seq(Orders)]
<1>1. PICK o \in Orders : o = Op(t, by, n)
  BY DEF Op, Orders
<1>2. queue' = [queue EXCEPT ![f] = Append(queue[f], o)] /\ queue[f] \in Seq(Orders)
  BY <1>1 DEF Start, Types
<1>3. Append(queue[f], o) \in Seq(Orders)
  BY <1>2
<1> QED
  BY <1>2, <1>3 DEF Types

LEMMA TypesStep == EditorAssumption /\ Types /\ [EditorNext]_editorVars => Types'
<1> SUFFICES ASSUME EditorAssumption, Types, [EditorNext]_editorVars PROVE Types'
  OBVIOUS
<1> USE DEF NewTab
<1>1. ASSUME NEW f \in Files, OpenFile(f) PROVE Types'
  <2>1. NewTab(f) \in Tabs
    BY <1>1, TabNumbers DEF OpenFile, Types
  <2>2. loose' \subseteq Files
    BY <1>1 DEF OpenFile, Types
  <2>3. model' \in [Files -> Int] /\ shown' \in [Files -> {0} \cup Tabs] /\ made' \in [Files -> {0} \cup Tabs]
    BY <1>1, <2>1 DEF OpenFile, Types
  <2>4. attached' \in [Files -> SUBSET Tabs]
    BY <1>1, <2>1 DEF OpenFile, Types
  <2> QED
    BY <1>1, <2>2, <2>3, <2>4 DEF OpenFile, Types
<1>2. ASSUME NEW f \in Files, Type(f) PROVE Types'
  <2>1. dirty' \in [Files -> [Tabs -> BOOLEAN]] /\ saveTimer' \in [Files -> [Tabs -> BOOLEAN]]
    BY <1>2 DEF Type, Changed, Types
  <2>2. edits' \in Nat /\ model' \in [Files -> Int]
    BY <1>2 DEF Type, Types
  <2> QED
    BY <1>2, <2>1, <2>2 DEF Type, Types
<1>3. ASSUME NEW f \in Files, CloseTab(f) PROVE Types'
  BY <1>3 DEF CloseTab, Types
<1>4. ASSUME NEW f \in Files, AgentWrite(f) PROVE Types'
  <2>1. edits' \in Nat /\ edits + 1 \in Int /\ 0 \in {0} \cup Tabs
    BY <1>4 DEF AgentWrite, Types
  <2>2. queue' \in [Files -> Seq(Orders)]
    BY <1>4, <2>1, TypesQueue DEF AgentWrite
  <2> QED
    BY <1>4, <2>1, <2>2 DEF AgentWrite, Types
<1>5. ASSUME NEW f \in Files, DeleteFile(f) PROVE Types'
  <2>1. edits' \in Nat /\ NoFile \in Int /\ 0 \in {0} \cup Tabs
    BY <1>5 DEF DeleteFile, Types, NoFile
  <2>2. queue' \in [Files -> Seq(Orders)]
    BY <1>5, <2>1, TypesQueue DEF DeleteFile
  <2>3. flush' = NoFlush \/ flush' \in [tabs : SUBSET Files, want : [Files -> Int]]
    BY <1>5, TypesFlush DEF DeleteFile
  <2>4. /\ shown' \in [Files -> {0} \cup Tabs] /\ model' \in [Files -> Int]
        /\ attached' \in [Files -> SUBSET Tabs]
    BY <1>5, <2>1 DEF DeleteFile, Types
  <2>5. dirty' \in [Files -> [Tabs -> BOOLEAN]] /\ saveTimer' \in [Files -> [Tabs -> BOOLEAN]]
    BY <1>5 DEF DeleteFile, Types, Dead
  <2> QED
    BY <1>5, <2>1, <2>2, <2>3, <2>4, <2>5 DEF DeleteFile, Types
<1>6. ASSUME NEW f \in Files, NEW t \in Tabs, AutoSave(f, t) PROVE Types'
  <2>1. queue' \in [Files -> Seq(Orders)]
    <3>1. model[f] \in Int
      BY DEF Types
    <3> QED
      BY <1>6, <3>1, TypesQueue DEF AutoSave
  <2>2. saveTimer' \in [Files -> [Tabs -> BOOLEAN]]
    BY <1>6 DEF AutoSave, Types
  <2> QED
    BY <1>6, <2>1, <2>2 DEF AutoSave, Types
<1>7. ASSUME NEW f \in Files, NEW fails \in BOOLEAN, OpDone(f, fails) PROVE Types'
  <2>1. PICK order : order = Head(queue[f])
    OBVIOUS
  <2>2. queue[f] # <<>> /\ queue[f] \in Seq(Orders)
    BY <1>7 DEF OpDone, Types
  <2>3. order \in Orders /\ Tail(queue[f]) \in Seq(Orders)
    BY <2>1, <2>2, TakenOff
  <2>4. order.says \in Int
    BY <2>3 DEF Orders
  <2>5. queue' \in [Files -> Seq(Orders)]
    BY <1>7, <2>3 DEF OpDone, Types
  <2>6. onDisk' \in [Files -> Int]
    BY <1>7, <2>1, <2>4 DEF OpDone, Types
  <2>7. model' \in [Files -> Int]
    BY <1>7, <2>1, <2>4 DEF OpDone, Types
  <2>8. saveTimer' \in [Files -> [Tabs -> BOOLEAN]]
    BY <1>7 DEF OpDone, Types
  <2>9. dirty' \in [Files -> [Tabs -> BOOLEAN]]
    <3>1. \A t \in Tabs : dirty[f][t] \in BOOLEAN
      BY DEF Types
    <3>2. PICK e : e = [t \in Tabs |->
              CASE fails -> dirty[f][t]
                [] order.by \in {"auto", "flush"} -> dirty[f][t] /\ t # order.tab
                [] order.by = "agent" /\ ~fails /\ shown[f] # 0 /\ model[f] # order.says
                     -> (dirty[f][t] \/ t \in attached[f]) /\ t # shown[f]
                [] OTHER -> dirty[f][t]]
      OBVIOUS
    <3>3. e \in [Tabs -> BOOLEAN]
      BY <3>1, <3>2
    <3>4. dirty' = [dirty EXCEPT ![f] = e]
      BY <1>7, <2>1, <3>2 DEF OpDone
    <3> QED
      BY <3>3, <3>4 DEF Types
  <2>10. loose' \subseteq Files
    BY <1>7 DEF OpDone, Types
  <2> QED
    BY <1>7, <2>5, <2>6, <2>7, <2>8, <2>9, <2>10 DEF OpDone, Types
<1>8. ASSUME NEW f \in Files, Removed(f) PROVE Types'
  <2>1. queue[f] # <<>> /\ queue[f] \in Seq(Orders)
    BY <1>8 DEF Removed, Types
  <2>2. Tail(queue[f]) \in Seq(Orders)
    BY <2>1, TakenOff
  <2>3. queue' \in [Files -> Seq(Orders)] /\ onDisk' \in [Files -> Int]
    BY <1>8, <2>2 DEF Removed, Types, NoFile
  <2>4. model \in [Files -> Int]
    BY DEF Types
  <2>5. /\ model' \in [Files -> Int]
        /\ dirty' \in [Files -> [Tabs -> BOOLEAN]] /\ saveTimer' \in [Files -> [Tabs -> BOOLEAN]]
    BY <1>8, <2>4, TypesManifest DEF Removed
  <2>6. edits' \in Nat /\ loose' \subseteq Files
    BY <1>8 DEF Removed, Types, Unheard, EditorAssumption
  <2> QED
    BY <1>8, <2>3, <2>5, <2>6 DEF Removed, Types
<1>9. ASSUME NEW f \in Files, NEW g \in Files \ {f}, Rename(f, g) PROVE Types'
  <2>1. PICK m : m = [model EXCEPT ![g] = IF model[f] = NoFile THEN onDisk[f] ELSE model[f], ![f] = NoFile]
    OBVIOUS
  <2>2. m \in [Files -> Int]
    BY <2>1 DEF Types, NoFile
  <2>3. EditManifest(m, {f})
    BY <1>9, <2>1 DEF Rename
  <2>4. /\ model' \in [Files -> Int]
        /\ dirty' \in [Files -> [Tabs -> BOOLEAN]] /\ saveTimer' \in [Files -> [Tabs -> BOOLEAN]]
    BY <2>2, <2>3, TypesManifest
  <2>5. shown[f] # 0 => NewTab(g) \in Tabs
    BY <1>9, TabNumbers DEF Rename, Types
  <2>6. /\ attached' \in [Files -> SUBSET Tabs] /\ made' \in [Files -> {0} \cup Tabs]
        /\ shown' \in [Files -> {0} \cup Tabs]
    BY <1>9, <2>5 DEF Rename, Types
  <2>7. edits' \in Nat /\ onDisk' \in [Files -> Int] /\ loose' \subseteq Files
    BY <1>9 DEF Rename, Types, NoFile, Unheard, EditorAssumption
  <2>8. flush' = NoFlush \/ flush' \in [tabs : SUBSET Files, want : [Files -> Int]]
    BY <1>9, TypesFlush DEF Rename
  <2> QED
    BY <1>9, <2>4, <2>6, <2>7, <2>8 DEF Rename, Types
<1>10. ASSUME NEW f \in Files, NEW g \in Files \ {f}, Move(f, g) PROVE Types'
  <2>1. model \in [Files -> Int] /\ EditManifest(model, {})
    BY <1>10 DEF Types, Move
  <2>2. /\ model' \in [Files -> Int]
        /\ dirty' \in [Files -> [Tabs -> BOOLEAN]] /\ saveTimer' \in [Files -> [Tabs -> BOOLEAN]]
    BY <2>1, TypesManifest
  <2>3. edits' \in Nat /\ onDisk' \in [Files -> Int] /\ shown' \in [Files -> {0} \cup Tabs]
    BY <1>10 DEF Move, Types, NoFile
  <2>4. loose' \subseteq Files
    BY <1>10 DEF Move, Types, Unheard, EditorAssumption
  <2>5. flush' = NoFlush \/ flush' \in [tabs : SUBSET Files, want : [Files -> Int]]
    BY <1>10, TypesFlush DEF Move
  <2> QED
    BY <1>10, <2>2, <2>3, <2>4, <2>5 DEF Move, Types
<1>11. CASE MutateManifest
  <2>1. model \in [Files -> Int] /\ EditManifest(model, {})
    BY <1>11 DEF Types, MutateManifest
  <2>2. /\ model' \in [Files -> Int]
        /\ dirty' \in [Files -> [Tabs -> BOOLEAN]] /\ saveTimer' \in [Files -> [Tabs -> BOOLEAN]]
    BY <2>1, TypesManifest
  <2>3. edits' \in Nat /\ loose' \subseteq Files
    BY <1>11 DEF MutateManifest, Types, Unheard, EditorAssumption
  <2> QED
    BY <1>11, <2>2, <2>3 DEF MutateManifest, Types
<1>12. CASE FlushPendingSaves
  <2>1. queue' \in [Files -> Seq(Orders)]
    <3>1. \A f \in Files : Op(shown[f], "flush", model[f]) \in Orders /\ queue[f] \in Seq(Orders)
      BY DEF Op, Orders, Types
    <3>2. \A f \in Files : Append(queue[f], Op(shown[f], "flush", model[f])) \in Seq(Orders)
      BY <3>1, Appended
    <3> QED
      BY <1>12, <3>1, <3>2 DEF FlushPendingSaves
  <2>2. saveTimer' \in [Files -> [Tabs -> BOOLEAN]]
    BY <1>12 DEF FlushPendingSaves
  <2>3. flush' \in [tabs : SUBSET Files, want : [Files -> Int]]
    BY <1>12 DEF FlushPendingSaves, DirtyTabs, Types
  <2> QED
    BY <1>12, <2>1, <2>2, <2>3 DEF FlushPendingSaves, Types
<1>13. CASE Snapshot \/ UNCHANGED editorVars
  BY <1>13 DEF Snapshot, Types, editorVars
<1> QED
  BY <1>1, <1>2, <1>3, <1>4, <1>5, <1>6, <1>7, <1>8, <1>9, <1>10, <1>11, <1>12, <1>13 DEF EditorNext

-----------------------------------------------------------------------------
(* The invariant: what holds of a file, its model, its tabs and its queue. *)

Entries(f) == 1 .. Len(queue[f])
Last(f) == queue[f][Len(queue[f])]

\* A tab that is open listens to the model; a model that is disposed has no
\* listener; a timer is of a tab that listens.
Listens(f) ==
    /\ shown[f] # 0 => shown[f] \in attached[f]
    /\ attached[f] # {} => model[f] # NoFile
    /\ \A t \in Tabs : saveTimer[f][t] => t \in attached[f]

\* A text is a change that was made; only a removal leaves no file.
Valued(f) ==
    /\ onDisk[f] \in -1 .. edits /\ model[f] \in -1 .. edits
    /\ \A i \in Entries(f) : /\ queue[f][i].says \in -1 .. edits
                             /\ queue[f][i].says = NoFile <=> queue[f][i].by = "delete"

\* A file that is being removed, or is not there, has no model, and only the agent
\* writes to it after the removal.
Ordered(f) ==
    /\ Deleting(f) => model[f] = NoFile
    /\ onDisk[f] = NoFile => model[f] = NoFile /\ \A i \in Entries(f) : queue[f][i].by = "agent"
    /\ \A i, j \in Entries(f) : i < j /\ queue[f][i].by = "delete" => queue[f][j].by = "agent"
    /\ model[f] = NoFile /\ queue[f] # <<>> => Last(f).by \in {"delete", "agent"}

Scheduled(f) == Unsaved(f) => \E t \in attached[f] : saveTimer[f][t]

FileInv(f) == Listens(f) /\ Valued(f) /\ (f \notin loose => Ordered(f) /\ Scheduled(f))

\* What a step leaves of a file.
Same(f) ==
    /\ onDisk'[f] = onDisk[f] /\ model'[f] = model[f] /\ shown'[f] = shown[f]
    /\ attached'[f] = attached[f] /\ saveTimer'[f] = saveTimer[f] /\ queue'[f] = queue[f]

\* The text of the model is changed, and every listener arms its timer.
Edited(f) ==
    /\ onDisk'[f] = onDisk[f] /\ shown'[f] = shown[f]
    /\ attached'[f] = attached[f] /\ queue'[f] = queue[f]
    /\ model[f] # NoFile /\ edits' = edits + 1 /\ model'[f] = edits + 1
    /\ \A t \in Tabs : saveTimer'[f][t] <=> saveTimer[f][t] \/ t \in attached[f]
    /\ attached[f] = {} => f \in loose'

Onward == edits \in Nat /\ edits' \in Nat /\ edits <= edits' /\ loose \subseteq loose'

LEMMA SameFile ==
    ASSUME NEW f \in Files, FileInv(f), Same(f), Onward
    PROVE  FileInv(f)'
<1>1. Listens(f)'
  BY DEF FileInv, Listens, Same
<1>2. Valued(f)'
  BY DEF FileInv, Valued, Same, Onward, Entries
<1>3. f \notin loose' => Ordered(f)'
  BY DEF FileInv, Ordered, Same, Onward, Entries, Deleting, Last
<1>4. f \notin loose' => Scheduled(f)'
  BY DEF FileInv, Scheduled, Same, Onward, Unsaved
<1> QED
  BY <1>1, <1>2, <1>3, <1>4 DEF FileInv

LEMMA EditedFile ==
    ASSUME Types, NEW f \in Files, FileInv(f), Edited(f), Onward
    PROVE  FileInv(f)'
<1>1. model[f] # NoFile /\ model'[f] # NoFile /\ edits' = edits + 1
  BY DEF Edited, Onward, NoFile
<1>2. Listens(f)'
  BY <1>1 DEF FileInv, Listens, Edited
<1>3. Valued(f)'
  BY <1>1 DEF FileInv, Valued, Edited, Onward, Entries
<1>4. f \notin loose' => Ordered(f)'
  BY <1>1 DEF FileInv, Ordered, Edited, Onward, Entries, Deleting, Last
<1>5. f \notin loose' => Scheduled(f)'
  <2> SUFFICES ASSUME f \notin loose' PROVE \E t \in attached'[f] : saveTimer'[f][t]
    BY DEF Scheduled
  <2>1. PICK t : t \in attached[f]
    BY DEF Edited
  <2>2. t \in Tabs
    BY <2>1 DEF Types
  <2> QED
    BY <2>1, <2>2 DEF Edited
<1> QED
  BY <1>2, <1>3, <1>4, <1>5 DEF FileInv

\* An edit of the manifest, for a file that nothing else happens to.
LEMMA ManifestFile ==
    ASSUME Types, NEW f \in Files, NEW m, NEW old, m[f] = model[f], f \notin old,
           EditManifest(m, old),
           edits' = edits + 1, Unheard \subseteq loose', onDisk'[f] = onDisk[f], shown'[f] = shown[f],
           attached'[f] = attached[f], queue'[f] = queue[f], Listens(f)
    PROVE  Same(f) \/ Edited(f)
<1>1. /\ model'[f] = IF f \in Manifest /\ model[f] # NoFile THEN edits + 1 ELSE model[f]
      /\ saveTimer'[f] = [t \in Tabs |-> saveTimer[f][t] \/ (f \in Manifest /\ t \in attached[f])]
  BY DEF EditManifest
<1>2. /\ saveTimer[f] \in [Tabs -> BOOLEAN] /\ attached[f] \subseteq Tabs
      /\ (attached[f] # {} => model[f] # NoFile)
  BY DEF Types, Listens
<1>3. CASE f \in Manifest /\ model[f] # NoFile
  <2>1. \A t \in Tabs : saveTimer'[f][t] <=> saveTimer[f][t] \/ t \in attached[f]
    BY <1>1, <1>3
  <2>2. attached[f] = {} => f \in loose'
    BY <1>3 DEF Unheard
  <2> QED
    BY <1>1, <1>3, <2>1, <2>2 DEF Edited
<1>4. CASE ~(f \in Manifest /\ model[f] # NoFile)
  <2>1. saveTimer'[f] = [t \in Tabs |-> saveTimer[f][t]]
    BY <1>1, <1>2, <1>4
  <2>2. saveTimer'[f] = saveTimer[f]
    BY <1>2, <2>1
  <2> QED
    BY <1>1, <1>4, <2>2 DEF Same
<1> QED
  BY <1>3, <1>4

LEMMA OpenedFile ==
    ASSUME EditorAssumption, Types, NEW f \in Files, FileInv(f), OpenFile(f), Onward
    PROVE  FileInv(f)'
<1>1. NewTab(f) \in Tabs /\ NewTab(f) # 0
  BY TabNumbers DEF OpenFile, Types, NewTab
<1>2. /\ onDisk'[f] = onDisk[f] /\ onDisk[f] # NoFile
      /\ model'[f] = IF model[f] = NoFile THEN onDisk[f] ELSE model[f]
      /\ shown'[f] = NewTab(f) /\ attached'[f] = attached[f] \cup {NewTab(f)}
      /\ saveTimer'[f] = saveTimer[f] /\ queue'[f] = queue[f] /\ edits' = edits
      /\ Deleting(f) => f \in loose'
  BY DEF OpenFile, Types
<1>3. Listens(f)'
  BY <1>1, <1>2 DEF FileInv, Listens
<1>4. Valued(f)'
  BY <1>2 DEF FileInv, Valued, Entries
<1>5. f \notin loose' => Ordered(f)'
  BY <1>2 DEF FileInv, Ordered, Onward, Entries, Deleting, Last
<1>6. f \notin loose' => Scheduled(f)'
  <2> SUFFICES ASSUME f \notin loose', Unsaved(f)' PROVE \E t \in attached'[f] : saveTimer'[f][t]
    BY DEF Scheduled
  <2>1. f \notin loose /\ ~Deleting(f) /\ Ordered(f) /\ Scheduled(f)
    BY <1>2 DEF Onward, FileInv
  <2>2. CASE model[f] = NoFile
    <3>1. queue[f] # <<>>
      BY <1>2, <2>2 DEF Unsaved
    <3>2. Last(f).by = "delete"
      BY <1>2, <2>1, <2>2, <3>1 DEF Unsaved, Ordered, Last
    <3>3. Len(queue[f]) \in Entries(f)
      <4>1. queue[f] \in Seq(Orders)
        BY DEF Types
      <4> QED
        BY <3>1, <4>1, TakenOff DEF Entries
    <3> QED
      BY <2>1, <3>2, <3>3 DEF Deleting, Last, Entries
  <2>3. CASE model[f] # NoFile
    BY <1>2, <2>1, <2>3 DEF Unsaved, Scheduled
  <2> QED
    BY <2>2, <2>3
<1> QED
  BY <1>3, <1>4, <1>5, <1>6 DEF FileInv

LEMMA TypedFile ==
    ASSUME Types, NEW f \in Files, Listens(f), Type(f)
    PROVE  Edited(f)
<1>1. attached[f] # {} /\ model[f] # NoFile
  BY DEF Type, Listens
<1>2. model'[f] = edits + 1 /\ edits' = edits + 1
  BY DEF Type, Types
<1>3. \A t \in Tabs : saveTimer'[f][t] <=> saveTimer[f][t] \/ t \in attached[f]
  BY DEF Type, Changed, Types
<1> QED
  BY <1>1, <1>2, <1>3 DEF Edited, Type

\* A save, a write of the flush or of the agent is put into the queue.
LEMMA QueuedFile ==
    ASSUME Types, NEW f \in Files, FileInv(f), Onward, NEW o \in Orders,
           queue'[f] = Append(queue[f], o), onDisk'[f] = onDisk[f], model'[f] = model[f],
           shown'[f] = shown[f], attached'[f] = attached[f],
           \A t \in Tabs : saveTimer'[f][t] => saveTimer[f][t],
           o.by # "delete", o.says \in 0 .. edits', o.by # "agent" => o.says = model[f]
    PROVE  FileInv(f)'
<1>1. /\ Len(queue[f]) \in Nat /\ Len(queue'[f]) = Len(queue[f]) + 1 /\ queue'[f] # <<>>
      /\ queue'[f][Len(queue[f]) + 1] = o
      /\ \A i \in 1 .. Len(queue[f]) : queue'[f][i] = queue[f][i]
  <2>1. queue[f] \in Seq(Orders)
    BY DEF Types
  <2> QED
    BY <2>1, Appended
<1>2. Listens(f)'
  BY DEF FileInv, Listens
<1>3. Valued(f)'
  <2>1. onDisk'[f] \in -1 .. edits' /\ model'[f] \in -1 .. edits'
    BY DEF FileInv, Valued, Onward
  <2> SUFFICES ASSUME NEW i \in Entries(f)'
               PROVE  /\ queue'[f][i].says \in -1 .. edits'
                      /\ queue'[f][i].says = NoFile <=> queue'[f][i].by = "delete"
    BY <2>1 DEF Valued
  <2>2. CASE i \in Entries(f)
    <3>1. queue'[f][i] = queue[f][i]
      BY <1>1, <2>2 DEF Entries
    <3>2. /\ queue[f][i].says \in -1 .. edits
          /\ queue[f][i].says = NoFile <=> queue[f][i].by = "delete"
      BY <2>2 DEF FileInv, Valued
    <3>3. \A n \in -1 .. edits : n \in -1 .. edits'
      BY DEF Onward
    <3> QED
      BY <3>1, <3>2, <3>3
  <2>3. CASE i \notin Entries(f)
    <3>1. queue'[f][i] = o
      BY <1>1, <2>3 DEF Entries
    <3> QED
      BY <3>1 DEF Onward, NoFile
  <2> QED
    BY <2>2, <2>3
<1>4. Last(f)' = o
  BY <1>1 DEF Last
<1>5. Deleting(f)' <=> Deleting(f)
  BY <1>1 DEF Deleting
<1>6. model[f] = NoFile => o.by = "agent"
  BY DEF NoFile
<1>7. f \notin loose' => Ordered(f)'
  <2> SUFFICES ASSUME f \notin loose' PROVE Ordered(f)'
    OBVIOUS
  <2>1. Ordered(f)
    BY DEF FileInv, Onward
  <2>2. Deleting(f)' => model'[f] = NoFile
    BY <1>5, <2>1 DEF Ordered
  <2>3. onDisk'[f] = NoFile => model'[f] = NoFile /\ \A i \in Entries(f)' : queue'[f][i].by = "agent"
    BY <1>1, <1>6, <2>1 DEF Ordered, Entries
  <2>4. \A i, j \in Entries(f)' : i < j /\ queue'[f][i].by = "delete" => queue'[f][j].by = "agent"
    <3> SUFFICES ASSUME NEW i \in Entries(f)', NEW j \in Entries(f)', i < j, queue'[f][i].by = "delete"
                 PROVE  queue'[f][j].by = "agent"
      OBVIOUS
    <3>1. i \in Entries(f) /\ queue[f][i].by = "delete"
      BY <1>1 DEF Entries
    <3>2. CASE j \in Entries(f)
      BY <1>1, <2>1, <3>1, <3>2 DEF Ordered, Entries
    <3>3. CASE j \notin Entries(f)
      <4>1. queue'[f][j] = o /\ Deleting(f)
        BY <1>1, <3>1, <3>3 DEF Entries, Deleting
      <4> QED
        BY <1>6, <2>1, <4>1 DEF Ordered
    <3> QED
      BY <3>2, <3>3
  <2>5. model'[f] = NoFile => Last(f)'.by \in {"delete", "agent"}
    BY <1>4, <1>6
  <2> QED
    BY <2>2, <2>3, <2>4, <2>5 DEF Ordered
<1>8. ~Unsaved(f)'
  BY <1>1, <1>4 DEF Unsaved, Last
<1> QED
  BY <1>2, <1>3, <1>7, <1>8 DEF FileInv, Scheduled

\* The file is deleted: the removal is put into the queue, the model disposed.
LEMMA DeletedFile ==
    ASSUME EditorAssumption, Types, NEW f \in Files, FileInv(f), DeleteFile(f), Onward
    PROVE  FileInv(f)'
<1>1. PICK o : o = Op(0, "delete", NoFile)
  OBVIOUS
<1>2. o \in Orders /\ o.by = "delete" /\ o.says = NoFile
  BY <1>1 DEF Op, Orders, NoFile
<1>3. /\ onDisk'[f] = onDisk[f] /\ onDisk[f] # NoFile /\ shown'[f] = 0 /\ model'[f] = NoFile
      /\ attached'[f] = {} /\ saveTimer'[f] = Dead /\ ~Deleting(f) /\ loose' = loose
      /\ queue'[f] = Append(queue[f], o) /\ queue[f] \in Seq(Orders)
  BY <1>1 DEF DeleteFile, Start, Types
<1>4. /\ Len(queue[f]) \in Nat /\ Len(queue'[f]) = Len(queue[f]) + 1
      /\ queue'[f][Len(queue[f]) + 1] = o
      /\ \A i \in 1 .. Len(queue[f]) : queue'[f][i] = queue[f][i]
  BY <1>2, <1>3, Appended
<1>5. Listens(f)'
  BY <1>3 DEF Listens, Dead
<1>6. Valued(f)'
  <2>1. onDisk'[f] \in -1 .. edits' /\ model'[f] \in -1 .. edits'
    BY <1>3 DEF FileInv, Valued, Onward, NoFile
  <2> SUFFICES ASSUME NEW i \in Entries(f)'
               PROVE  /\ queue'[f][i].says \in -1 .. edits'
                      /\ queue'[f][i].says = NoFile <=> queue'[f][i].by = "delete"
    BY <2>1 DEF Valued
  <2>2. CASE i \in Entries(f)
    <3>1. queue'[f][i] = queue[f][i]
      BY <1>4, <2>2 DEF Entries
    <3>2. /\ queue[f][i].says \in -1 .. edits
          /\ queue[f][i].says = NoFile <=> queue[f][i].by = "delete"
      BY <2>2 DEF FileInv, Valued
    <3>3. \A n \in -1 .. edits : n \in -1 .. edits'
      BY DEF Onward
    <3> QED
      BY <3>1, <3>2, <3>3
  <2>3. CASE i \notin Entries(f)
    <3>1. queue'[f][i] = o
      BY <1>4, <2>3 DEF Entries
    <3> QED
      BY <1>2, <3>1 DEF Onward, NoFile
  <2> QED
    BY <2>2, <2>3
<1>7. f \notin loose' => Ordered(f)'
  <2>1. Last(f)' = o
    BY <1>4 DEF Last
  <2>2. \A i \in Entries(f)' : queue'[f][i].by = "delete" => i = Len(queue[f]) + 1
    BY <1>3, <1>4 DEF Entries, Deleting
  <2>3. \A i, j \in Entries(f)' : ~(i < j /\ queue'[f][i].by = "delete")
    BY <1>4, <2>2 DEF Entries
  <2> QED
    BY <1>2, <1>3, <2>1, <2>3 DEF Ordered
<1>8. ~Unsaved(f)'
  BY <1>3 DEF Unsaved
<1> QED
  BY <1>5, <1>6, <1>7, <1>8 DEF FileInv, Scheduled

\* What an operation that completes leaves of the queue.
LEMMA Dequeued ==
    ASSUME Types, NEW f \in Files, FileInv(f), Onward, queue[f] # <<>>, queue'[f] = Tail(queue[f])
    PROVE  /\ Len(queue[f]) \in Nat \ {0} /\ 1 \in Entries(f) /\ Head(queue[f]) = queue[f][1]
           /\ Len(queue'[f]) = Len(queue[f]) - 1
           /\ queue'[f] = <<>> <=> Len(queue[f]) = 1
           /\ queue'[f] # <<>> => Last(f)' = Last(f)
           /\ queue'[f] = <<>> => Last(f) = Head(queue[f])
           /\ \A i \in Entries(f)' : i + 1 \in Entries(f) /\ queue'[f][i] = queue[f][i + 1]
           /\ \A i \in Entries(f)' : /\ queue'[f][i].says \in -1 .. edits'
                                     /\ queue'[f][i].says = NoFile <=> queue'[f][i].by = "delete"
<1>1. queue[f] \in Seq(Orders)
  BY DEF Types
<1>2. /\ Len(queue[f]) \in Nat \ {0} /\ Head(queue[f]) = queue[f][1]
      /\ Len(queue'[f]) = Len(queue[f]) - 1
      /\ (queue'[f] = <<>> <=> Len(queue[f]) = 1)
      /\ \A i \in 1 .. Len(queue[f]) - 1 : queue'[f][i] = queue[f][i + 1]
  BY <1>1, TakenOff
<1>3. \A i \in Entries(f)' : i + 1 \in Entries(f) /\ queue'[f][i] = queue[f][i + 1]
  BY <1>2 DEF Entries
<1>4. queue'[f] # <<>> => Last(f)' = Last(f)
  BY <1>2 DEF Last
<1>5. queue'[f] = <<>> => Last(f) = Head(queue[f])
  BY <1>2 DEF Last
<1>6. \A i \in Entries(f)' : /\ queue'[f][i].says \in -1 .. edits'
                             /\ queue'[f][i].says = NoFile <=> queue'[f][i].by = "delete"
  <2> SUFFICES ASSUME NEW i \in Entries(f)'
               PROVE  /\ queue'[f][i].says \in -1 .. edits'
                      /\ queue'[f][i].says = NoFile <=> queue'[f][i].by = "delete"
    OBVIOUS
  <2>1. i + 1 \in Entries(f) /\ queue'[f][i] = queue[f][i + 1]
    BY <1>3
  <2>2. /\ queue[f][i + 1].says \in -1 .. edits
        /\ queue[f][i + 1].says = NoFile <=> queue[f][i + 1].by = "delete"
    BY <2>1 DEF FileInv, Valued
  <2>3. queue'[f][i].says \in -1 .. edits'
    <3>1. PICK n : n = queue[f][i + 1].says
      OBVIOUS
    <3>2. n \in -1 .. edits
      BY <2>2, <3>1
    <3>3. n \in -1 .. edits'
      BY <3>2 DEF Onward
    <3> QED
      BY <2>1, <3>1, <3>3
  <2>4. queue'[f][i].says = NoFile <=> queue'[f][i].by = "delete"
    BY <2>1, <2>2
  <2> QED
    BY <2>3, <2>4
<1> QED
  BY <1>2, <1>3, <1>4, <1>5, <1>6 DEF Entries

LEMMA OrderedNext ==
    ASSUME Types, NEW f \in Files, FileInv(f), Onward, queue[f] # <<>>, queue'[f] = Tail(queue[f]),
           Ordered(f), model[f] = NoFile <=> model'[f] = NoFile,
           onDisk'[f] = NoFile => onDisk[f] = NoFile \/ Head(queue[f]).by = "delete"
    PROVE  Ordered(f)'
<1>1. /\ Len(queue[f]) \in Nat \ {0} /\ 1 \in Entries(f) /\ Head(queue[f]) = queue[f][1]
      /\ Len(queue'[f]) = Len(queue[f]) - 1
      /\ (queue'[f] # <<>> => Last(f)' = Last(f))
      /\ \A i \in Entries(f)' : i + 1 \in Entries(f) /\ queue'[f][i] = queue[f][i + 1]
  BY Dequeued
<1>2. Deleting(f)' => model'[f] = NoFile
  BY <1>1 DEF Deleting, Ordered, Entries
<1>3. onDisk'[f] = NoFile => model'[f] = NoFile /\ \A i \in Entries(f)' : queue'[f][i].by = "agent"
  <2>1. CASE onDisk[f] = NoFile
    BY <1>1, <2>1 DEF Ordered
  <2>2. CASE Head(queue[f]).by = "delete"
    <3>1. Deleting(f)
      BY <1>1, <2>2 DEF Deleting, Entries
    <3>2. \A i \in Entries(f)' : i + 1 \in Entries(f) /\ 1 < i + 1
      BY <1>1 DEF Entries
    <3> QED
      BY <1>1, <2>2, <3>1, <3>2 DEF Ordered
  <2> QED
    BY <2>1, <2>2
<1>4. \A i, j \in Entries(f)' : i < j /\ queue'[f][i].by = "delete" => queue'[f][j].by = "agent"
  <2> SUFFICES ASSUME NEW i \in Entries(f)', NEW j \in Entries(f)', i < j, queue'[f][i].by = "delete"
               PROVE  queue'[f][j].by = "agent"
    OBVIOUS
  <2>1. i + 1 \in Entries(f) /\ j + 1 \in Entries(f) /\ i + 1 < j + 1
    BY <1>1 DEF Entries
  <2> QED
    BY <1>1, <2>1 DEF Ordered
<1>5. model'[f] = NoFile /\ queue'[f] # <<>> => Last(f)'.by \in {"delete", "agent"}
  BY <1>1 DEF Ordered
<1> QED
  BY <1>2, <1>3, <1>4, <1>5 DEF Ordered

\* A disk operation completes: what it leaves is in the file, or the file is loose;
\* the agent's is put into the model, whose listeners arm their timers.
LEMMA DoneFile ==
    ASSUME Types, NEW f \in Files, NEW fails \in BOOLEAN, FileInv(f), OpDone(f, fails), Onward
    PROVE  FileInv(f)'
<1>1. PICK order : order = Head(queue[f])
  OBVIOUS
<1>2. PICK into \in BOOLEAN :
         into <=> (order.by = "agent" /\ ~fails /\ shown[f] # 0 /\ model[f] # order.says)
  OBVIOUS
<1>3. /\ queue[f] # <<>> /\ order.by # "delete" /\ queue'[f] = Tail(queue[f])
      /\ onDisk'[f] = IF fails THEN onDisk[f] ELSE order.says
      /\ model'[f] = IF into THEN order.says ELSE model[f]
      /\ shown'[f] = shown[f] /\ attached'[f] = attached[f] /\ edits' = edits
      /\ \A t \in Tabs : saveTimer'[f][t] <=> saveTimer[f][t] \/ (into /\ t \in attached[f])
      /\ fails => f \in loose'
      /\ order.by = "agent" /\ shown[f] = 0 /\ model[f] # NoFile => f \in loose'
  <2>1. \A t \in Tabs : saveTimer'[f][t] <=> saveTimer[f][t] \/ (into /\ t \in attached[f])
    BY <1>1, <1>2 DEF OpDone, Types
  <2> QED
    BY <1>1, <1>2, <2>1 DEF OpDone, Types
<1>4. /\ Len(queue[f]) \in Nat \ {0} /\ 1 \in Entries(f) /\ order = queue[f][1]
      /\ (queue'[f] = <<>> <=> Len(queue[f]) = 1)
      /\ (queue'[f] # <<>> => Last(f)' = Last(f)) /\ (queue'[f] = <<>> => Last(f) = order)
      /\ \A i \in Entries(f)' : /\ queue'[f][i].says \in -1 .. edits'
                                /\ queue'[f][i].says = NoFile <=> queue'[f][i].by = "delete"
  BY <1>1, <1>3, Dequeued
<1>5. order.says \in -1 .. edits /\ order.says # NoFile
  BY <1>3, <1>4 DEF FileInv, Valued
<1>6. into => shown[f] \in attached[f] /\ model[f] # NoFile /\ attached[f] \subseteq Tabs
  BY <1>2 DEF FileInv, Listens, Types
<1>7. Listens(f)'
  BY <1>3, <1>5, <1>6 DEF FileInv, Listens
<1>8. Valued(f)'
  <2>1. onDisk'[f] \in -1 .. edits' /\ model'[f] \in -1 .. edits'
    BY <1>3, <1>5 DEF FileInv, Valued
  <2> QED
    BY <1>4, <2>1 DEF Valued
<1>9. f \notin loose' => Ordered(f)'
  <2> SUFFICES ASSUME f \notin loose' PROVE Ordered(f)'
    OBVIOUS
  <2>1. Ordered(f)
    BY DEF FileInv, Onward
  <2>2. model[f] = NoFile <=> model'[f] = NoFile
    BY <1>3, <1>5, <1>6
  <2>3. onDisk'[f] = NoFile => onDisk[f] = NoFile
    BY <1>3, <1>5
  <2> QED
    BY <1>3, <2>1, <2>2, <2>3, OrderedNext
<1>10. f \notin loose' => Scheduled(f)'
  <2> SUFFICES ASSUME f \notin loose', Unsaved(f)' PROVE \E t \in attached'[f] : saveTimer'[f][t]
    BY DEF Scheduled
  <2>1. Scheduled(f) /\ ~fails
    BY <1>3 DEF FileInv, Onward
  <2>2. CASE into
    BY <1>3, <1>6, <2>2
  <2>3. CASE ~into
    <3>1. model'[f] = model[f] /\ onDisk'[f] = order.says /\ model[f] # NoFile
      BY <1>3, <2>1, <2>3 DEF Unsaved
    <3>2. Unsaved(f)
      <4>1. CASE queue'[f] = <<>>
        <5>1. model[f] # order.says /\ Last(f) = order
          BY <1>4, <3>1, <4>1 DEF Unsaved
        <5>2. order.by # "agent"
          BY <1>2, <1>3, <2>1, <2>3, <3>1, <5>1
        <5> QED
          BY <1>3, <3>1, <5>1, <5>2 DEF Unsaved, Last
      <4>2. CASE queue'[f] # <<>>
        BY <1>3, <1>4, <3>1, <4>2 DEF Unsaved, Last
      <4> QED
        BY <4>1, <4>2
    <3>3. PICK t \in attached[f] : saveTimer[f][t]
      BY <2>1, <3>2 DEF Scheduled
    <3>4. t \in Tabs
      BY <3>3 DEF Types
    <3> QED
      BY <1>3, <3>3, <3>4
  <2> QED
    BY <2>2, <2>3
<1> QED
  BY <1>7, <1>8, <1>9, <1>10 DEF FileInv

\* A removal completes: the file is gone, as its model is unless the file is loose.
LEMMA RemovedFile ==
    ASSUME Types, NEW f \in Files, FileInv(f), Removed(f), Onward
    PROVE  FileInv(f)'
<1>1. /\ queue[f] # <<>> /\ Head(queue[f]).by = "delete" /\ queue'[f] = Tail(queue[f])
      /\ onDisk'[f] = NoFile /\ shown'[f] = shown[f] /\ attached'[f] = attached[f]
      /\ edits' = edits + 1
      /\ model'[f] = IF f \in Manifest /\ model[f] # NoFile THEN edits + 1 ELSE model[f]
      /\ \A t \in Tabs : saveTimer'[f][t] <=> saveTimer[f][t] \/ (f \in Manifest /\ t \in attached[f])
  BY DEF Removed, EditManifest, Types
<1>2. /\ 1 \in Entries(f) /\ Head(queue[f]) = queue[f][1]
      /\ \A i \in Entries(f)' : /\ queue'[f][i].says \in -1 .. edits'
                                /\ queue'[f][i].says = NoFile <=> queue'[f][i].by = "delete"
  BY <1>1, Dequeued
<1>3. model[f] = NoFile <=> model'[f] = NoFile
  BY <1>1 DEF NoFile, Types
<1>4. Listens(f)'
  BY <1>1, <1>3 DEF FileInv, Listens
<1>5. Valued(f)'
  <2>1. onDisk'[f] \in -1 .. edits' /\ model'[f] \in -1 .. edits'
    BY <1>1 DEF FileInv, Valued, Onward, NoFile
  <2> QED
    BY <1>2, <2>1 DEF Valued
<1>6. f \notin loose' => Ordered(f)' /\ ~Unsaved(f)'
  <2> SUFFICES ASSUME f \notin loose' PROVE Ordered(f)' /\ ~Unsaved(f)'
    OBVIOUS
  <2>1. Ordered(f)
    BY DEF FileInv, Onward
  <2>2. Ordered(f)'
    BY <1>1, <1>3, <2>1, OrderedNext
  <2>3. Deleting(f)
    BY <1>1, <1>2 DEF Deleting, Entries
  <2> QED
    BY <1>3, <2>1, <2>2, <2>3 DEF Ordered, Unsaved
<1> QED
  BY <1>4, <1>5, <1>6 DEF FileInv, Scheduled

\* A rename, of the file that goes and of the file that comes.
LEMMA RenamedFile ==
    ASSUME EditorAssumption, Types, NEW f \in Files, NEW g \in Files \ {f}, FileInv(f), FileInv(g),
           Rename(f, g), Onward
    PROVE  FileInv(f)' /\ FileInv(g)'
<1>1. /\ onDisk[f] # NoFile /\ onDisk[g] = NoFile /\ model[g] = NoFile /\ f \notin Manifest
      /\ edits' = edits + 1
      /\ onDisk'[f] = NoFile /\ onDisk'[g] = onDisk[f]
      /\ attached'[f] = {} /\ attached'[g] = IF shown[f] = 0 THEN {} ELSE {NewTab(g)}
      /\ shown'[f] = 0 /\ shown'[g] = IF shown[f] = 0 THEN 0 ELSE NewTab(g)
      /\ queue' = queue
      /\ Astray(f) \/ Astray(g) => f \in loose' /\ g \in loose'
      /\ Unheard \subseteq loose'
  BY DEF Rename, Types
<1>2. PICK m : m = [model EXCEPT ![g] = IF model[f] = NoFile THEN onDisk[f] ELSE model[f], ![f] = NoFile]
  OBVIOUS
<1>3. m \in [Files -> Int] /\ m[f] = NoFile /\ m[g] = IF model[f] = NoFile THEN onDisk[f] ELSE model[f]
  BY <1>2 DEF Types, NoFile
<1>4. /\ EditManifest(m, {f})
  BY <1>2 DEF Rename
<1>5. /\ model'[f] = NoFile
      /\ model'[g] = IF g \in Manifest THEN edits + 1 ELSE m[g]
      /\ model'[g] # NoFile
  BY <1>1, <1>3, <1>4 DEF EditManifest, Types, NoFile
<1>6. /\ \A t \in Tabs : ~saveTimer'[f][t]
      /\ \A t \in Tabs : saveTimer'[g][t] => saveTimer[g][t] \/ t \in attached[g]
  BY <1>4 DEF EditManifest
<1>7. attached[g] = {} /\ \A t \in Tabs : ~saveTimer'[g][t]
  BY <1>1, <1>6 DEF FileInv, Listens
<1>8. Listens(f)' /\ Listens(g)'
  BY <1>1, <1>5, <1>6, <1>7 DEF Listens
<1>9. Valued(f)' /\ Valued(g)'
  <2>1. onDisk'[f] \in -1 .. edits' /\ model'[f] \in -1 .. edits'
    BY <1>1, <1>5 DEF Onward, NoFile
  <2>2. m[g] \in -1 .. edits
    BY <1>3 DEF FileInv, Valued
  <2>3. onDisk'[g] \in -1 .. edits' /\ model'[g] \in -1 .. edits'
    BY <1>1, <1>5, <2>2 DEF FileInv, Valued, Onward
  <2>4. \A h \in Files : Valued(h) => \A i \in Entries(h) :
           /\ queue[h][i].says \in -1 .. edits'
           /\ queue[h][i].says = NoFile <=> queue[h][i].by = "delete"
    BY DEF Valued, Onward
  <2> QED
    BY <1>1, <2>1, <2>3, <2>4 DEF FileInv, Valued, Entries
<1>10. f \notin loose' => queue[f] = <<>> /\ queue[g] = <<>> /\ ~Unsaved(f)
  BY <1>1 DEF Astray
<1>11. g \notin loose' => queue[f] = <<>> /\ queue[g] = <<>> /\ ~Unsaved(f)
  BY <1>1 DEF Astray
<1>12. \A h \in Files : queue[h] = <<>> => Entries(h) = {} /\ ~Deleting(h)
  BY DEF Entries, Deleting
<1>13. f \notin loose' => Ordered(f)' /\ Scheduled(f)'
  <2> SUFFICES ASSUME f \notin loose' PROVE Ordered(f)' /\ Scheduled(f)'
    OBVIOUS
  <2>1. Ordered(f)'
    BY <1>1, <1>5, <1>10, <1>12 DEF Ordered, Deleting, Entries
  <2> QED
    BY <1>5, <2>1 DEF Scheduled, Unsaved
<1>14. g \notin loose' => Ordered(g)' /\ Scheduled(g)'
  <2> SUFFICES ASSUME g \notin loose' PROVE Ordered(g)' /\ Scheduled(g)'
    OBVIOUS
  <2>1. Ordered(g)'
    BY <1>1, <1>5, <1>11, <1>12 DEF Ordered, Deleting, Entries
  <2>2. g \notin Manifest
    BY <1>1, <1>7 DEF Unheard
  <2>3. model'[g] = onDisk'[g]
    BY <1>1, <1>3, <1>5, <1>11, <2>2 DEF Unsaved
  <2> QED
    BY <1>1, <1>11, <2>1, <2>3 DEF Scheduled, Unsaved
<1> QED
  BY <1>8, <1>9, <1>13, <1>14 DEF FileInv

\* A move: the file that goes is loose, the one that comes has no model.
LEMMA MovedFile ==
    ASSUME EditorAssumption, Types, NEW f \in Files, NEW g \in Files \ {f}, FileInv(f), FileInv(g),
           Move(f, g), Onward
    PROVE  FileInv(f)' /\ FileInv(g)'
<1>1. /\ onDisk[f] # NoFile /\ onDisk[g] = NoFile /\ model[g] = NoFile /\ f \notin Manifest
      /\ edits' = edits + 1 /\ onDisk'[f] = NoFile /\ onDisk'[g] = onDisk[f]
      /\ shown'[f] = 0 /\ shown'[g] = shown[g] /\ attached' = attached /\ queue' = queue
      /\ f \in loose' /\ (Astray(g) => g \in loose')
  BY DEF Move, Types
<1>2. /\ model'[f] = model[f] /\ model'[g] = NoFile
      /\ \A t \in Tabs : saveTimer'[f][t] => saveTimer[f][t]
      /\ \A t \in Tabs : saveTimer'[g][t] => saveTimer[g][t] \/ t \in attached[g]
  BY <1>1 DEF Move, EditManifest
<1>3. Listens(f)' /\ Listens(g)'
  BY <1>1, <1>2 DEF FileInv, Listens
<1>4. Valued(f)' /\ Valued(g)'
  <2>1. \A h \in Files : Valued(h) => \A i \in Entries(h) :
           /\ queue[h][i].says \in -1 .. edits'
           /\ queue[h][i].says = NoFile <=> queue[h][i].by = "delete"
    BY DEF Valued, Onward
  <2>2. onDisk'[f] \in -1 .. edits' /\ model'[f] \in -1 .. edits'
    BY <1>1, <1>2 DEF FileInv, Valued, Onward, NoFile
  <2>3. onDisk'[g] \in -1 .. edits' /\ model'[g] \in -1 .. edits'
    BY <1>1, <1>2 DEF FileInv, Valued, Onward, NoFile
  <2> QED
    BY <1>1, <2>1, <2>2, <2>3 DEF FileInv, Valued, Entries
<1>5. g \notin loose' => Ordered(g)'
  <2> SUFFICES ASSUME g \notin loose' PROVE Ordered(g)'
    OBVIOUS
  <2>1. queue[g] = <<>>
    BY <1>1 DEF Astray
  <2> QED
    BY <1>1, <1>2, <2>1 DEF Ordered, Deleting, Entries, FileInv, Valued
<1>6. Scheduled(g)'
  BY <1>2 DEF Scheduled, Unsaved
<1> QED
  BY <1>1, <1>3, <1>4, <1>5, <1>6 DEF FileInv

LEMMA GoesOn ==
    ASSUME Types, EditorNext
    PROVE  Onward
<1>1. edits \in Nat
  BY DEF Types
<1>2. ASSUME NEW f \in Files, OpenFile(f) \/ Type(f) \/ CloseTab(f) \/ AgentWrite(f) \/ DeleteFile(f)
      PROVE  Onward
  BY <1>1, <1>2 DEF Onward, OpenFile, Type, CloseTab, AgentWrite, DeleteFile
<1>3. ASSUME NEW f \in Files, Removed(f) \/ \E t \in Tabs : AutoSave(f, t) PROVE Onward
  BY <1>1, <1>3 DEF Onward, Removed, AutoSave
<1>4. ASSUME NEW f \in Files, NEW fails \in BOOLEAN, OpDone(f, fails) PROVE Onward
  BY <1>1, <1>4 DEF Onward, OpDone
<1>5. ASSUME NEW f \in Files, NEW g \in Files \ {f}, Rename(f, g) \/ Move(f, g) PROVE Onward
  BY <1>1, <1>5 DEF Onward, Rename, Move
<1>6. CASE MutateManifest \/ FlushPendingSaves \/ Snapshot
  BY <1>1, <1>6 DEF Onward, MutateManifest, FlushPendingSaves, Snapshot
<1> QED
  BY <1>2, <1>3, <1>4, <1>5, <1>6 DEF EditorNext

\* What an edit of the manifest makes of the files nothing else happens to.
LEMMA OtherFiles ==
    ASSUME Types, NEW h \in Files, FileInv(h), EditorNext
    PROVE  /\ \A f \in Files : Removed(f) /\ h # f => Same(h) \/ Edited(h)
           /\ \A f \in Files, g \in Files : Rename(f, g) /\ h \notin {f, g} => Same(h) \/ Edited(h)
           /\ \A f \in Files, g \in Files : Move(f, g) /\ h \notin {f, g} => Same(h) \/ Edited(h)
           /\ MutateManifest => Same(h) \/ Edited(h)
<1> USE DEF FileInv
<1>1. ASSUME NEW f \in Files, Removed(f), h # f PROVE Same(h) \/ Edited(h)
  <2>1. /\ EditManifest(model, {}) /\ edits' = edits + 1 /\ Unheard \subseteq loose'
        /\ onDisk'[h] = onDisk[h] /\ shown'[h] = shown[h] /\ attached'[h] = attached[h]
        /\ queue'[h] = queue[h]
    BY <1>1 DEF Removed, Types
  <2> QED
    BY <2>1, ManifestFile
<1>2. ASSUME NEW f \in Files, NEW g \in Files, Rename(f, g), h \notin {f, g} PROVE Same(h) \/ Edited(h)
  <2>1. PICK m : m = [model EXCEPT ![g] = IF model[f] = NoFile THEN onDisk[f] ELSE model[f], ![f] = NoFile]
    OBVIOUS
  <2>2. m[h] = model[h] /\ EditManifest(m, {f})
    BY <1>2, <2>1 DEF Rename, Types
  <2>3. /\ edits' = edits + 1 /\ Unheard \subseteq loose'
        /\ onDisk'[h] = onDisk[h] /\ shown'[h] = shown[h] /\ attached'[h] = attached[h]
        /\ queue'[h] = queue[h]
    BY <1>2 DEF Rename, Types
  <2> QED
    BY <1>2, <2>2, <2>3, ManifestFile
<1>3. ASSUME NEW f \in Files, NEW g \in Files, Move(f, g), h \notin {f, g} PROVE Same(h) \/ Edited(h)
  <2>1. /\ EditManifest(model, {}) /\ edits' = edits + 1 /\ Unheard \subseteq loose'
        /\ onDisk'[h] = onDisk[h] /\ shown'[h] = shown[h] /\ attached'[h] = attached[h]
        /\ queue'[h] = queue[h]
    BY <1>3 DEF Move, Types
  <2> QED
    BY <2>1, ManifestFile
<1>4. ASSUME MutateManifest PROVE Same(h) \/ Edited(h)
  <2>1. /\ EditManifest(model, {}) /\ edits' = edits + 1 /\ Unheard \subseteq loose'
        /\ onDisk'[h] = onDisk[h] /\ shown'[h] = shown[h] /\ attached'[h] = attached[h]
        /\ queue'[h] = queue[h]
    BY <1>4 DEF MutateManifest
  <2> QED
    BY <2>1, ManifestFile
<1> QED
  BY <1>1, <1>2, <1>3, <1>4

\* What the flush puts into the queue of a dirty tab.
FlushOp(f) == Op(shown[f], "flush", model[f])

LEMMA FlushedFile ==
    ASSUME Types, NEW f \in Files, FileInv(f), FlushPendingSaves, Onward
    PROVE  FileInv(f)'
<1>1. /\ onDisk'[f] = onDisk[f] /\ model'[f] = model[f] /\ shown'[f] = shown[f]
      /\ attached'[f] = attached[f] /\ edits' = edits
      /\ \A t \in Tabs : saveTimer'[f][t] => saveTimer[f][t]
      /\ queue'[f] = IF f \in DirtyTabs THEN Append(queue[f], FlushOp(f)) ELSE queue[f]
  BY DEF FlushPendingSaves, FlushOp
<1>2. CASE f \in DirtyTabs
  <2>1. FlushOp(f) \in Orders /\ FlushOp(f).by = "flush" /\ FlushOp(f).says = model[f]
    BY DEF FlushOp, Op, Orders, Types
  <2>2. model[f] \in 0 .. edits
    BY <1>2 DEF DirtyTabs, FileInv, Listens, Valued, NoFile, Types
  <2> QED
    BY <1>1, <1>2, <2>1, <2>2, QueuedFile
<1>3. CASE f \notin DirtyTabs
  <2>1. saveTimer'[f] = saveTimer[f]
    <3>1. saveTimer'[f] = [t \in Tabs |-> saveTimer[f][t]]
      BY <1>3 DEF FlushPendingSaves, Types
    <3> QED
      BY <3>1 DEF Types
  <2> QED
    BY <1>1, <1>3, <2>1, SameFile DEF Same
<1> QED
  BY <1>2, <1>3

LEMMA FileStep ==
    ASSUME EditorAssumption, Types, \A f \in Files : FileInv(f), EditorNext, NEW h \in Files
    PROVE  FileInv(h)'
<1>1. Onward /\ FileInv(h)
  BY GoesOn
<1>2. ASSUME Same(h) \/ Edited(h) PROVE FileInv(h)'
  BY <1>1, <1>2, SameFile, EditedFile
<1>3. ASSUME NEW f \in Files, OpenFile(f) PROVE FileInv(h)'
  <2>1. h # f => Same(h)
    BY <1>3 DEF OpenFile, Same, Types
  <2> QED
    BY <1>1, <1>2, <1>3, <2>1, OpenedFile
<1>4. ASSUME NEW f \in Files, Type(f) PROVE FileInv(h)'
  <2>1. h # f => Same(h)
    BY <1>4 DEF Type, Changed, Same, Types
  <2>2. h = f => Edited(h)
    BY <1>1, <1>4, TypedFile DEF FileInv
  <2> QED
    BY <1>2, <2>1, <2>2
<1>5. ASSUME NEW f \in Files, CloseTab(f) PROVE FileInv(h)'
  <2>1. h # f => Same(h)
    BY <1>5 DEF CloseTab, Same, Types
  <2>2. ASSUME h = f PROVE FileInv(h)'
    <3>1. /\ onDisk' = onDisk /\ model' = model /\ attached' = attached /\ saveTimer' = saveTimer
          /\ queue' = queue /\ edits' = edits /\ loose' = loose /\ shown'[f] = 0
      BY <1>5 DEF CloseTab, Types
    <3>2. Listens(h)'
      BY <1>1, <2>2, <3>1 DEF FileInv, Listens
    <3>3. Valued(h)' /\ (h \notin loose' => Ordered(h)' /\ Scheduled(h)')
      BY <1>1, <3>1 DEF FileInv, Valued, Ordered, Scheduled, Entries, Deleting, Last, Unsaved
    <3> QED
      BY <3>2, <3>3 DEF FileInv
  <2> QED
    BY <1>2, <2>1, <2>2
<1>6. ASSUME NEW f \in Files, AgentWrite(f) PROVE FileInv(h)'
  <2>1. h # f => Same(h)
    BY <1>6 DEF AgentWrite, Start, Same, Types
  <2>2. ASSUME h = f PROVE FileInv(h)'
    <3>1. PICK o : o = Op(0, "agent", edits + 1)
      OBVIOUS
    <3>2. o \in Orders /\ o.by = "agent" /\ o.says = edits + 1
      BY <3>1 DEF Op, Orders, Types
    <3>3. /\ queue'[h] = Append(queue[h], o) /\ onDisk'[h] = onDisk[h] /\ model'[h] = model[h]
          /\ shown'[h] = shown[h] /\ attached'[h] = attached[h] /\ edits' = edits + 1
          /\ \A t \in Tabs : saveTimer'[h][t] => saveTimer[h][t]
      BY <1>6, <2>2, <3>1 DEF AgentWrite, Start, Types
    <3>4. o.says \in 0 .. edits' /\ o.by # "delete" /\ (o.by # "agent" => o.says = model[h])
      BY <3>2, <3>3 DEF Types
    <3> QED
      BY <1>1, <3>2, <3>3, <3>4, QueuedFile
  <2> QED
    BY <1>2, <2>1, <2>2
<1>7. ASSUME NEW f \in Files, DeleteFile(f) PROVE FileInv(h)'
  <2>1. h # f => Same(h)
    BY <1>7 DEF DeleteFile, Start, Same, Types
  <2> QED
    BY <1>1, <1>2, <1>7, <2>1, DeletedFile
<1>8. ASSUME NEW f \in Files, NEW t \in Tabs, AutoSave(f, t) PROVE FileInv(h)'
  <2>1. h # f => Same(h)
    BY <1>8 DEF AutoSave, Start, Same, Types
  <2>2. ASSUME h = f PROVE FileInv(h)'
    <3>1. PICK o : o = Op(t, "auto", model[f])
      OBVIOUS
    <3>2. o \in Orders /\ o.by = "auto" /\ o.says = model[h]
      BY <2>2, <3>1 DEF Op, Orders, Types
    <3>3. /\ queue'[h] = Append(queue[h], o) /\ onDisk'[h] = onDisk[h] /\ model'[h] = model[h]
          /\ shown'[h] = shown[h] /\ attached'[h] = attached[h] /\ edits' = edits
          /\ \A u \in Tabs : saveTimer'[h][u] => saveTimer[h][u]
      BY <1>8, <2>2, <3>1 DEF AutoSave, Start, Types
    <3>4. model[h] \in 0 .. edits
      <4>1. t \in attached[h]
        BY <1>1, <1>8, <2>2 DEF AutoSave, FileInv, Listens
      <4> QED
        BY <1>1, <4>1 DEF FileInv, Listens, Valued, NoFile, Types
    <3> QED
      BY <1>1, <3>2, <3>3, <3>4, QueuedFile
  <2> QED
    BY <1>2, <2>1, <2>2
<1>9. ASSUME NEW f \in Files, NEW fails \in BOOLEAN, OpDone(f, fails) PROVE FileInv(h)'
  <2>1. h # f => Same(h)
    BY <1>9 DEF OpDone, Same, Types
  <2> QED
    BY <1>1, <1>2, <1>9, <2>1, DoneFile
<1>10. ASSUME NEW f \in Files, Removed(f) PROVE FileInv(h)'
  BY <1>1, <1>2, <1>10, RemovedFile, OtherFiles
<1>11. ASSUME NEW f \in Files, NEW g \in Files \ {f}, Rename(f, g) PROVE FileInv(h)'
  BY <1>1, <1>2, <1>11, RenamedFile, OtherFiles
<1>12. ASSUME NEW f \in Files, NEW g \in Files \ {f}, Move(f, g) PROVE FileInv(h)'
  BY <1>1, <1>2, <1>12, MovedFile, OtherFiles
<1>13. CASE MutateManifest
  BY <1>1, <1>2, <1>13, OtherFiles
<1>14. CASE FlushPendingSaves
  BY <1>1, <1>14, FlushedFile
<1>15. CASE Snapshot
  BY <1>2, <1>15 DEF Snapshot, Same
<1> QED
  BY <1>3, <1>4, <1>5, <1>6, <1>7, <1>8, <1>9, <1>10, <1>11, <1>12, <1>13, <1>14, <1>15 DEF EditorNext

-----------------------------------------------------------------------------
(* What a flush owes a file that was dirty in its tab. *)

\* The model says w or something later, and so will the file: it does already, or a
\* write of the flush will see to it, and nothing after it goes back.
Owes(f, w) ==
    /\ model[f] >= w
    /\ \/ onDisk[f] >= w /\ \A j \in Entries(f) : queue[f][j].says >= w
       \/ \E i \in Entries(f) : /\ queue[f][i].by = "flush"
                                /\ \A j \in Entries(f) : j >= i => queue[f][j].says >= w

OwedInv ==
    flush # NoFlush => \A f \in flush.tabs : f \notin loose => flush.want[f] \in Nat /\ Owes(f, flush.want[f])

LEMMA OwesSame ==
    ASSUME NEW f \in Files, NEW w \in Nat, Owes(f, w), Same(f)
    PROVE  Owes(f, w)'
BY DEF Owes, Same, Entries

LEMMA OwesEdited ==
    ASSUME Types, NEW f \in Files, FileInv(f), NEW w \in Nat, Owes(f, w), Edited(f)
    PROVE  Owes(f, w)'
<1>1. model'[f] >= w
  BY DEF Edited, Owes, FileInv, Valued, Types
<1> QED
  BY <1>1 DEF Owes, Edited, Entries

LEMMA OwesQueued ==
    ASSUME Types, NEW f \in Files, NEW w \in Nat, Owes(f, w), NEW o \in Orders, o.says >= w,
           queue'[f] = Append(queue[f], o), onDisk'[f] = onDisk[f], model'[f] = model[f]
    PROVE  Owes(f, w)'
<1>1. /\ Len(queue[f]) \in Nat /\ Len(queue'[f]) = Len(queue[f]) + 1
      /\ queue'[f][Len(queue[f]) + 1] = o
      /\ \A i \in 1 .. Len(queue[f]) : queue'[f][i] = queue[f][i]
  <2>1. queue[f] \in Seq(Orders)
    BY DEF Types
  <2> QED
    BY <2>1, Appended
<1>2. \A j \in Entries(f)' : (j \in Entries(f) /\ queue'[f][j] = queue[f][j]) \/ queue'[f][j] = o
  BY <1>1 DEF Entries
<1>3. \A j \in Entries(f) : j \in Entries(f)' /\ queue'[f][j] = queue[f][j]
  BY <1>1 DEF Entries
<1> QED
  BY <1>2, <1>3 DEF Owes

\* The flush puts its write at the end of the queue.
LEMMA OwesFlushed ==
    ASSUME Types, NEW f \in Files, f \in DirtyTabs, FileInv(f), FlushPendingSaves
    PROVE  flush'.want[f] \in Nat /\ Owes(f, model[f])' /\ flush'.want[f] = model'[f]
<1>1. /\ queue'[f] = Append(queue[f], FlushOp(f)) /\ model'[f] = model[f] /\ model' = model
      /\ flush'.want[f] = model[f]
  BY DEF FlushPendingSaves, FlushOp, Types
<1>2. FlushOp(f) \in Orders /\ FlushOp(f).by = "flush" /\ FlushOp(f).says = model[f]
  BY DEF FlushOp, Op, Orders, Types
<1>3. model[f] \in Nat
  BY DEF DirtyTabs, FileInv, Listens, Valued, NoFile, Types
<1>4. queue[f] \in Seq(Orders)
  BY DEF Types
<1>5. PICK o \in Orders : o = FlushOp(f)
  BY <1>2
<1>6. /\ Len(queue[f]) \in Nat /\ Len(queue'[f]) = Len(queue[f]) + 1
      /\ queue'[f][Len(queue[f]) + 1] = o
  BY <1>1, <1>4, <1>5, Appended
<1>7. PICK i : i = Len(queue[f]) + 1
  OBVIOUS
<1>8. i \in Entries(f)' /\ \A j \in Entries(f)' : j >= i => j = i
  BY <1>6, <1>7 DEF Entries
<1>9. queue'[f][i].by = "flush" /\ queue'[f][i].says = model'[f]
  BY <1>1, <1>2, <1>5, <1>6, <1>7
<1>10. Owes(f, model[f])'
  <2>1. model'[f] \in Nat
    BY <1>1, <1>3
  <2>2. \A j \in Entries(f)' : j >= i => queue'[f][j].says >= model'[f]
    BY <1>8, <1>9, <2>1
  <2>3. \E k \in Entries(f)' : /\ queue'[f][k].by = "flush"
                               /\ \A j \in Entries(f)' : j >= k => queue'[f][j].says >= model'[f]
    BY <1>8, <1>9, <2>2
  <2> QED
    BY <2>1, <2>3 DEF Owes
<1> QED
  BY <1>1, <1>3, <1>10

LEMMA OwesDone ==
    ASSUME Types, NEW f \in Files, NEW fails \in BOOLEAN, FileInv(f), Onward, OpDone(f, fails),
           NEW w \in Nat, Owes(f, w), f \notin loose'
    PROVE  Owes(f, w)'
<1>1. PICK order : order = Head(queue[f])
  OBVIOUS
<1>2. /\ queue[f] # <<>> /\ queue'[f] = Tail(queue[f]) /\ onDisk'[f] = order.says
      /\ model'[f] = model[f] \/ (model'[f] = order.says /\ ~(model[f] > order.says))
  BY <1>1 DEF OpDone, Types
<1>3. /\ Len(queue[f]) \in Nat \ {0} /\ 1 \in Entries(f) /\ order = queue[f][1]
      /\ Len(queue'[f]) = Len(queue[f]) - 1
      /\ \A i \in Entries(f)' : i + 1 \in Entries(f) /\ queue'[f][i] = queue[f][i + 1]
  BY <1>1, <1>2, Dequeued
<1>4. order.says \in Int /\ model[f] \in Int
  BY <1>3 DEF FileInv, Valued, Types
<1>5. model'[f] >= w
  BY <1>2, <1>4 DEF Owes
<1>6. CASE \A j \in Entries(f) : queue[f][j].says >= w
  BY <1>2, <1>3, <1>5, <1>6 DEF Owes
<1>7. ASSUME NEW i \in Entries(f), queue[f][i].by = "flush",
             \A j \in Entries(f) : j >= i => queue[f][j].says >= w
      PROVE  Owes(f, w)'
  <2>1. CASE i = 1
    <3>1. \A j \in Entries(f) : j >= i
      BY <2>1 DEF Entries
    <3> QED
      BY <1>6, <1>7, <3>1
  <2>2. CASE i # 1
    <3>1. PICK k : k = i - 1
      OBVIOUS
    <3>2. k \in Entries(f)' /\ k + 1 = i
      BY <1>3, <2>2, <3>1 DEF Entries
    <3>3. queue'[f][k].by = "flush"
      BY <1>3, <1>7, <3>2
    <3>4. \A j \in Entries(f)' : j >= k => queue'[f][j].says >= w
      <4> SUFFICES ASSUME NEW j \in Entries(f)', j >= k PROVE queue'[f][j].says >= w
        OBVIOUS
      <4>1. j + 1 \in Entries(f) /\ queue'[f][j] = queue[f][j + 1] /\ j + 1 >= i
        BY <1>3, <3>2 DEF Entries
      <4> QED
        BY <1>7, <4>1
    <3> QED
      BY <1>5, <3>2, <3>3, <3>4 DEF Owes
  <2> QED
    BY <2>1, <2>2
<1> QED
  BY <1>6, <1>7 DEF Owes

\* What the flush still owes is that of a step in which it goes on.
LEMMA OwedKeeps ==
    ASSUME Types, OwedInv, Onward, flush' = flush \/ \E h \in Files : Forgotten(h),
           \A f \in Files, w \in Nat :
              flush # NoFlush /\ f \in flush'.tabs /\ f \notin loose' /\ Owes(f, w) => Owes(f, w)'
    PROVE  OwedInv'
<1>1. flush' # NoFlush => flush # NoFlush
  BY DEF Forgotten
<1>2. flush # NoFlush => flush'.want = flush.want /\ flush'.tabs \subseteq flush.tabs /\ flush.tabs \subseteq Files
  <2>1. flush # NoFlush => flush \in [tabs : SUBSET Files, want : [Files -> Int]]
    BY DEF Types
  <2>2. flush # NoFlush => flush' = flush \/ \E h \in Files : flush' = [flush EXCEPT !.tabs = @ \ {h}]
    BY DEF Forgotten
  <2> QED
    BY <2>1, <2>2
<1> SUFFICES ASSUME flush' # NoFlush, NEW f \in flush'.tabs, f \notin loose'
             PROVE  flush'.want[f] \in Nat /\ Owes(f, flush.want[f])' /\ flush' # NoFlush
  <2>1. flush'.want = flush.want
    BY <1>1, <1>2
  <2> QED
    BY <1>1, <1>2, <2>1 DEF OwedInv, Owes, Entries
<1>3. f \in Files /\ flush.want[f] \in Nat /\ Owes(f, flush.want[f])
  BY <1>1, <1>2 DEF OwedInv, Onward
<1>4. PICK w \in Nat : w = flush.want[f]
  BY <1>3
<1> QED
  BY <1>1, <1>2, <1>3, <1>4

LEMMA OwedStep ==
    ASSUME EditorAssumption, Types, \A f \in Files : FileInv(f), OwedInv, EditorNext
    PROVE  OwedInv'
<1> DEFINE Keeps == \A f \in Files, w \in Nat :
              flush # NoFlush /\ f \in flush'.tabs /\ f \notin loose' /\ Owes(f, w) => Owes(f, w)'
<1>1. Onward
  BY GoesOn
<1>2. \A f \in Files, w \in Nat : Owes(f, w) /\ (Same(f) \/ Edited(f)) => Owes(f, w)'
  BY OwesSame, OwesEdited
<1>3. ASSUME NEW g \in Files, OpenFile(g) PROVE Keeps
  <2> SUFFICES ASSUME NEW f \in Files, NEW w \in Nat, Owes(f, w) PROVE Owes(f, w)'
    OBVIOUS
  <2>1. f # g => Same(f)
    BY <1>3 DEF OpenFile, Same, Types
  <2>2. ASSUME f = g PROVE Owes(f, w)'
    <3>1. model[f] # NoFile
      BY DEF Owes, NoFile, Types
    <3>2. model'[f] = model[f] /\ onDisk' = onDisk /\ queue' = queue
      BY <1>3, <2>2, <3>1 DEF OpenFile, Types
    <3> QED
      BY <3>2 DEF Owes, Entries
  <2> QED
    BY <1>2, <2>1, <2>2
<1>4. ASSUME NEW g \in Files, Type(g) PROVE Keeps
  <2> SUFFICES ASSUME NEW f \in Files, NEW w \in Nat, Owes(f, w) PROVE Owes(f, w)'
    OBVIOUS
  <2>1. f # g => Same(f)
    BY <1>4 DEF Type, Changed, Same, Types
  <2>2. f = g => Edited(f)
    BY <1>4, TypedFile DEF FileInv
  <2> QED
    BY <1>2, <2>1, <2>2
<1>5. ASSUME NEW g \in Files, CloseTab(g) PROVE Keeps
  BY <1>5 DEF CloseTab, Owes, Entries
<1>6. ASSUME NEW g \in Files, AgentWrite(g) PROVE Keeps
  <2> SUFFICES ASSUME NEW f \in Files, NEW w \in Nat, Owes(f, w) PROVE Owes(f, w)'
    OBVIOUS
  <2>1. f # g => Same(f)
    BY <1>6 DEF AgentWrite, Start, Same, Types
  <2>2. ASSUME f = g PROVE Owes(f, w)'
    <3>1. PICK o : o = Op(0, "agent", edits + 1)
      OBVIOUS
    <3>2. o \in Orders /\ o.says = edits + 1
      BY <3>1 DEF Op, Orders, Types
    <3>3. queue'[f] = Append(queue[f], o) /\ onDisk'[f] = onDisk[f] /\ model'[f] = model[f]
      BY <1>6, <2>2, <3>1 DEF AgentWrite, Start, Types
    <3>4. o.says >= w
      BY <3>2 DEF FileInv, Valued, Owes, Types
    <3> QED
      BY <3>2, <3>3, <3>4, OwesQueued
  <2> QED
    BY <1>2, <2>1, <2>2
<1>7. ASSUME NEW g \in Files, NEW t \in Tabs, AutoSave(g, t) PROVE Keeps
  <2> SUFFICES ASSUME NEW f \in Files, NEW w \in Nat, Owes(f, w) PROVE Owes(f, w)'
    OBVIOUS
  <2>1. f # g => Same(f)
    BY <1>7 DEF AutoSave, Start, Same, Types
  <2>2. ASSUME f = g PROVE Owes(f, w)'
    <3>1. PICK o : o = Op(t, "auto", model[f])
      OBVIOUS
    <3>2. o \in Orders /\ o.says = model[f]
      BY <3>1 DEF Op, Orders, Types
    <3>3. queue'[f] = Append(queue[f], o) /\ onDisk'[f] = onDisk[f] /\ model'[f] = model[f]
      BY <1>7, <2>2, <3>1 DEF AutoSave, Start, Types
    <3>4. o.says >= w
      BY <3>2 DEF Owes
    <3> QED
      BY <3>2, <3>3, <3>4, OwesQueued
  <2> QED
    BY <1>2, <2>1, <2>2
<1>8. ASSUME NEW g \in Files, NEW fails \in BOOLEAN, OpDone(g, fails) PROVE Keeps
  <2> SUFFICES ASSUME NEW f \in Files, NEW w \in Nat, Owes(f, w), f \notin loose' PROVE Owes(f, w)'
    OBVIOUS
  <2>1. f # g => Same(f)
    BY <1>8 DEF OpDone, Same, Types
  <2> QED
    BY <1>1, <1>2, <1>8, <2>1, OwesDone
<1>9. ASSUME NEW g \in Files, Removed(g) PROVE Keeps
  <2> SUFFICES ASSUME NEW f \in Files, NEW w \in Nat, Owes(f, w), f \notin loose' PROVE Owes(f, w)'
    OBVIOUS
  <2>1. f # g
    <3> SUFFICES ASSUME f = g PROVE FALSE
      OBVIOUS
    <3>1. queue[f] \in Seq(Orders) /\ queue[f] # <<>> /\ Head(queue[f]).by = "delete"
      BY <1>9 DEF Removed, Types
    <3>2. Deleting(f)
      <4>1. Head(queue[f]) = queue[f][1] /\ Len(queue[f]) \in Nat \ {0}
        BY <3>1, TakenOff
      <4> QED
        BY <3>1, <4>1 DEF Deleting
    <3>3. model[f] = NoFile
      BY <1>1, <3>2 DEF FileInv, Ordered, Onward
    <3> QED
      BY <3>3 DEF Owes, NoFile
  <2> QED
    BY <1>2, <1>9, <2>1, OtherFiles
<1>10. ASSUME NEW g \in Files, NEW h \in Files \ {g}, Rename(g, h) PROVE OwedInv'
  <2>1. Forgotten(g) /\ model[h] = NoFile
    BY <1>10 DEF Rename
  <2>2. Keeps
    <3> SUFFICES ASSUME NEW f \in Files, NEW w \in Nat, Owes(f, w), flush # NoFlush, f \in flush'.tabs
                 PROVE  Owes(f, w)'
      OBVIOUS
    <3>1. f # g /\ f # h
      <4>1. flush \in [tabs : SUBSET Files, want : [Files -> Int]]
        BY DEF Types
      <4> QED
        BY <2>1, <4>1 DEF Forgotten, Owes, NoFile
    <3> QED
      BY <1>2, <1>10, <3>1, OtherFiles
  <2> QED
    BY <1>1, <2>1, <2>2, OwedKeeps
<1>11. ASSUME NEW g \in Files, NEW h \in Files \ {g}, Move(g, h) PROVE OwedInv'
  <2>1. Forgotten(g) /\ model[h] = NoFile
    BY <1>11 DEF Move
  <2>2. Keeps
    <3> SUFFICES ASSUME NEW f \in Files, NEW w \in Nat, Owes(f, w), flush # NoFlush, f \in flush'.tabs
                 PROVE  Owes(f, w)'
      OBVIOUS
    <3>1. f # g /\ f # h
      <4>1. flush \in [tabs : SUBSET Files, want : [Files -> Int]]
        BY DEF Types
      <4> QED
        BY <2>1, <4>1 DEF Forgotten, Owes, NoFile
    <3> QED
      BY <1>2, <1>11, <3>1, OtherFiles
  <2> QED
    BY <1>1, <2>1, <2>2, OwedKeeps
<1>12. ASSUME NEW g \in Files, DeleteFile(g) PROVE OwedInv'
  <2>1. Forgotten(g)
    BY <1>12 DEF DeleteFile
  <2>2. Keeps
    <3> SUFFICES ASSUME NEW f \in Files, NEW w \in Nat, Owes(f, w), flush # NoFlush, f \in flush'.tabs
                 PROVE  Owes(f, w)'
      OBVIOUS
    <3>1. f # g
      <4>1. flush \in [tabs : SUBSET Files, want : [Files -> Int]]
        BY DEF Types
      <4> QED
        BY <2>1, <4>1 DEF Forgotten
    <3>2. Same(f)
      BY <1>12, <3>1 DEF DeleteFile, Start, Same, Types
    <3> QED
      BY <1>2, <3>2
  <2> QED
    BY <1>1, <2>1, <2>2, OwedKeeps
<1>13. CASE MutateManifest
  <2>1. Keeps /\ flush' = flush
    BY <1>2, <1>13, OtherFiles DEF MutateManifest
  <2> QED
    BY <1>1, <2>1, OwedKeeps
<1>14. CASE FlushPendingSaves
  <2>1. flush'.tabs = DirtyTabs /\ DirtyTabs \subseteq Files
    BY <1>14 DEF FlushPendingSaves, DirtyTabs
  <2>2. \A f \in DirtyTabs : flush'.want[f] \in Nat /\ Owes(f, model[f])' /\ flush'.want[f] = model'[f]
    BY <1>14, <2>1, OwesFlushed
  <2> QED
    BY <2>1, <2>2 DEF OwedInv, Owes, Entries
<1>15. CASE Snapshot
  BY <1>15 DEF Snapshot, OwedInv
<1>16. ASSUME Keeps, flush' = flush PROVE OwedInv'
  BY <1>1, <1>16, OwedKeeps
<1>17. ASSUME NEW g \in Files, OpenFile(g) \/ Type(g) \/ CloseTab(g) \/ AgentWrite(g) PROVE OwedInv'
  <2>1. flush' = flush
    BY <1>17 DEF OpenFile, Type, CloseTab, AgentWrite
  <2>2. Keeps
    BY <1>3, <1>4, <1>5, <1>6, <1>17
  <2> QED
    BY <1>16, <2>1, <2>2
<1>18. ASSUME NEW g \in Files, Removed(g) \/ \E t \in Tabs : AutoSave(g, t) PROVE OwedInv'
  <2>1. flush' = flush
    BY <1>18 DEF Removed, AutoSave
  <2>2. Keeps
    BY <1>7, <1>9, <1>18
  <2> QED
    BY <1>16, <2>1, <2>2
<1>19. ASSUME NEW g \in Files, NEW fails \in BOOLEAN, OpDone(g, fails) PROVE OwedInv'
  <2>1. flush' = flush
    BY <1>19 DEF OpDone
  <2>2. Keeps
    BY <1>8, <1>19
  <2> QED
    BY <1>16, <2>1, <2>2
<1> QED
  BY <1>10, <1>11, <1>12, <1>13, <1>14, <1>15, <1>17, <1>18, <1>19 DEF EditorNext

-----------------------------------------------------------------------------
(* The theorems. *)

EditorInv == Types /\ (\A f \in Files : FileInv(f)) /\ OwedInv

LEMMA EditorInvHolds == ASSUME EditorAssumption PROVE EditorSpec => []EditorInv
<1>1. EditorInit => EditorInv
  <2> SUFFICES ASSUME EditorInit PROVE EditorInv
    OBVIOUS
  <2>1. Types
    BY TypesInit
  <2>2. OwedInv
    BY DEF EditorInit, OwedInv
  <2>3. ASSUME NEW f \in Files PROVE FileInv(f)
    <3>1. /\ queue[f] = <<>> /\ attached[f] = {} /\ shown[f] = 0 /\ edits = 0 /\ model[f] = onDisk[f]
          /\ onDisk[f] \in {0, NoFile} /\ \A t \in Tabs : ~saveTimer[f][t]
      BY DEF EditorInit
    <3>2. Entries(f) = {}
      BY <3>1 DEF Entries
    <3>3. Listens(f) /\ Valued(f)
      BY <3>1, <3>2 DEF Listens, Valued, NoFile
    <3>4. Ordered(f) /\ Scheduled(f)
      BY <3>1, <3>2 DEF Ordered, Scheduled, Unsaved, Deleting, Entries
    <3> QED
      BY <3>3, <3>4 DEF FileInv
  <2> QED
    BY <2>1, <2>2, <2>3 DEF EditorInv
<1>2. EditorInv /\ [EditorNext]_editorVars => EditorInv'
  <2> SUFFICES ASSUME EditorInv, [EditorNext]_editorVars PROVE EditorInv'
    OBVIOUS
  <2>1. Types'
    BY TypesStep DEF EditorInv
  <2>2. CASE EditorNext
    <3>1. \A f \in Files : FileInv(f)'
      BY <2>2, FileStep DEF EditorInv
    <3>2. OwedInv'
      BY <2>2, OwedStep DEF EditorInv
    <3> QED
      BY <2>1, <3>1, <3>2 DEF EditorInv
  <2>3. CASE UNCHANGED editorVars
    <3>1. \A f \in Files : FileInv(f)'
      BY <2>3 DEF editorVars, EditorInv, FileInv, Listens, Valued, Ordered, Scheduled, Entries, Last,
                  Deleting, Unsaved
    <3>2. OwedInv'
      BY <2>3 DEF editorVars, EditorInv, OwedInv, Owes, Entries
    <3> QED
      BY <2>1, <3>1, <3>2 DEF EditorInv
  <2> QED
    BY <2>2, <2>3
<1> QED
  BY <1>1, <1>2, PTL DEF EditorSpec

\* Text that is not on disk is on its way there: a save timer is armed on a tab that
\* can still read the model, or the last operation under way writes it.  Closing and
\* opening tabs again, several listeners on one model, flushes, removals, renames and
\* the agent's writes into an open file lose nothing, but for the loose files, whose
\* change the code saves nowhere.
THEOREM UnsavedIsScheduledHolds == ASSUME EditorAssumption PROVE EditorSpec => []UnsavedIsScheduled
<1>1. EditorInv => UnsavedIsScheduled
  BY DEF EditorInv, FileInv, Scheduled, UnsavedIsScheduled
<1> QED
  BY <1>1, EditorInvHolds, PTL

\* What was dirty in a tab when a commit began is on disk, in that or a later version,
\* when flushPendingSaves has returned and the commit takes its snapshot.
THEOREM FlushCoversDirtyTabsHolds == ASSUME EditorAssumption PROVE EditorSpec => []FlushCoversDirtyTabs
<1>1. EditorInv => FlushCoversDirtyTabs
  <2> SUFFICES ASSUME EditorInv, Flushed, NEW f \in flush.tabs \ loose PROVE onDisk[f] >= flush.want[f]
    BY DEF FlushCoversDirtyTabs
  <2>1. flush # NoFlush /\ f \in Files
    BY DEF Flushed, EditorInv, Types
  <2>2. \A i \in Entries(f) : queue[f][i].by # "flush"
    BY <2>1 DEF Flushed, Entries
  <2> QED
    BY <2>1, <2>2 DEF EditorInv, OwedInv, Owes
<1> QED
  BY <1>1, EditorInvHolds, PTL

\* A file the user deleted does not come back from a save of the editor that was armed
\* or under way: only a write of the agent, or a rename or a move of another file,
\* makes a file of that name again.
THEOREM DeletedStaysDeletedHolds == ASSUME EditorAssumption PROVE EditorSpec => DeletedStaysDeleted
<1> DEFINE Comes(f) ==
      onDisk[f] = NoFile /\ onDisk'[f] # NoFile
         => \/ queue[f] # <<>> /\ Head(queue[f]).by = "agent"
            \/ \E g \in Files \ {f} : onDisk'[f] = onDisk[g] /\ onDisk'[g] = NoFile
<1>1. EditorInv /\ [EditorNext]_editorVars => [\A f \in Files \ loose : Comes(f)]_editorVars
  <2> SUFFICES ASSUME EditorInv, EditorNext, NEW f \in Files \ loose PROVE Comes(f)
    BY DEF editorVars
  <2>1. Types /\ Ordered(f)
    BY DEF EditorInv, FileInv
  <2>2. ASSUME onDisk' = onDisk PROVE Comes(f)
    BY <2>2
  <2>3. ASSUME NEW h \in Files, OpenFile(h) \/ Type(h) \/ CloseTab(h) \/ AgentWrite(h) \/ DeleteFile(h)
        PROVE  Comes(f)
    BY <2>2, <2>3 DEF OpenFile, Type, CloseTab, AgentWrite, DeleteFile
  <2>4. ASSUME NEW h \in Files, \E t \in Tabs : AutoSave(h, t) PROVE Comes(f)
    BY <2>2, <2>4 DEF AutoSave
  <2>5. ASSUME NEW h \in Files, NEW fails \in BOOLEAN, OpDone(h, fails) PROVE Comes(f)
    <3>1. CASE h # f
      BY <2>1, <2>5, <3>1 DEF OpDone, Types
    <3>2. CASE h = f
      <4>1. queue[f] # <<>> /\ queue[f] \in Seq(Orders)
        BY <2>1, <2>5, <3>2 DEF OpDone, Types
      <4>2. Head(queue[f]) = queue[f][1] /\ 1 \in Entries(f)
        BY <4>1, TakenOff DEF Entries
      <4> QED
        BY <2>1, <4>1, <4>2 DEF Ordered
    <3> QED
      BY <3>1, <3>2
  <2>6. ASSUME NEW h \in Files, Removed(h) PROVE Comes(f)
    BY <2>1, <2>6 DEF Removed, Types
  <2>7. ASSUME NEW h \in Files, NEW g \in Files \ {h}, Rename(h, g) \/ Move(h, g) PROVE Comes(f)
    <3>1. /\ onDisk' = [onDisk EXCEPT ![g] = onDisk[h], ![h] = NoFile]
      BY <2>7 DEF Rename, Move
    <3>2. onDisk'[h] = NoFile /\ onDisk'[g] = onDisk[h] /\ (f \notin {g, h} => onDisk'[f] = onDisk[f])
      BY <2>1, <3>1 DEF Types
    <3> QED
      BY <3>2
  <2>8. CASE MutateManifest \/ FlushPendingSaves \/ Snapshot
    BY <2>2, <2>8 DEF MutateManifest, FlushPendingSaves, Snapshot
  <2> QED
    BY <2>3, <2>4, <2>5, <2>6, <2>7, <2>8 DEF EditorNext
<1>2. EditorSpec => []EditorInv
  BY EditorInvHolds
<1> QED
  BY <1>1, <1>2, PTL DEF EditorSpec, DeletedStaysDeleted

-----------------------------------------------------------------------------
(* The source control panel: the types. *)

Pulling == {"applies", "applied", "merges", "merged"}
Texts == FileContents \cup {Nil}
Refreshes == [pc : {"waits", "lists", "hashes", "done"}, on : 0 .. MaxLoads, ref : Texts, got : Texts,
              op : BOOLEAN, old : BOOLEAN]
Ops == {Idle, [pc |-> "diverged"], [pc |-> "clears"]}
       \cup [pc : {"lists"}, snap : FileContents] \cup [pc : {"stores"}, list : Seq(FileContents)]
       \cup [pc : {"status"}, tell : BOOLEAN]
       \cup [pc : {"pushes"}, tree : FileContents, on : 1 .. MaxCommits]
       \cup [pc : Pulling \cup {"pushed"}, at : 1 .. MaxCommits]
Polls == {Idle} \cup [pc : {"head", "tree"}, sha : 1 .. MaxCommits, crossed : BOOLEAN]
Drops == [under : {TRUE}, list : Seq(FileContents)]

\* The file, its editor and its cached hash; a merge has made at most one content per
\* commit of the base.
DiskInv ==
    /\ world \in Worlds
    /\ newest \in Nat \ {0} /\ newest <= world.contents + base - 1 + (IF op.pc = "merged" THEN 1 ELSE 0)
    /\ file \in FileContents /\ editor \in Texts /\ due \in BOOLEAN /\ (due => editor # Nil)
    /\ cache \in Texts

\* The branch only grows, and what an operation or a poll has read of it is in it.
BranchInv ==
    /\ commits \in Seq(FileContents) /\ Tip <= MaxCommits
    /\ base \in 1 .. Tip /\ seen \in 0 .. Tip
    /\ op \in Ops /\ poll \in Polls
    /\ op.pc \in Pulling \cup {"pushed"} => op.at \in base + 1 .. Tip
    /\ op.pc = "pushes" => op.on = base /\ base < MaxCommits
    /\ poll # Idle => poll.sha <= Tip

\* The lists of saves, and who holds one.
SavesInv ==
    /\ saves \in Seq(FileContents) /\ Len(saves) <= MaxSaves /\ pendingSaves \in Seq(FileContents)
    /\ drop = NoDrop \/ drop \in Drops
    /\ drop.under => Len(drop.list) <= MaxSaves
    /\ loads \in [1 .. MaxLoads -> Seq(Seq(FileContents))]
    /\ latest \in Loading \cup {Nil}

\* An operation awaits the refresh it started, and no other.
RefreshInv ==
    /\ refreshes \in Seq(Refreshes)
    /\ \A i \in DOMAIN refreshes : refreshes[i].on \in Loading \cup {Nil}
    /\ op.pc = "status" => \E i \in DOMAIN refreshes : refreshes[i].op
    /\ \A i \in DOMAIN refreshes : refreshes[i].op => op.pc = "status"
    /\ \A i, j \in DOMAIN refreshes : refreshes[i].op /\ refreshes[j].op => i = j

FlagInv ==
    /\ modified \in BOOLEAN /\ chip \in BOOLEAN /\ unsure \in BOOLEAN
    /\ overtaken \in BOOLEAN /\ strayed \in BOOLEAN /\ crossed \in BOOLEAN

USE DEF fileVars, saveVars, pullVars

PanelTypes == DiskInv /\ BranchInv /\ SavesInv /\ RefreshInv /\ FlagInv

\* The world stays, and a record of an operation has the fields of its stage.
LEMMA WorldStays ==
    ASSUME [PanelNext]_panelVars
    PROVE  /\ world' = world /\ FileContents' = FileContents
           /\ Texts' = Texts /\ Refreshes' = Refreshes /\ Ops' = Ops /\ Polls' = Polls /\ Drops' = Drops
<1>1. world' = world
  BY DEF PanelNext, panelVars, TypeText, SaveTab, Import, RemotePush, Refreshing, RefreshBegin, RefreshLook,
         RefreshHash, RefreshDone, Save, Publish, Pull, Working, SaveList, Push, Pushed, FastForward,
         FastForwarded, MergeStart, MergeWrite, Merged, SaveStore, Cleared, Drop, RevertToSave, Landed,
         DropStore, Reload, Polling, PollHead, PollTree, PollStart
<1> QED
  BY <1>1 DEF FileContents, Texts, Refreshes, Ops, Polls, Drops

LEMMA Fields ==
    /\ \A o \in Ops :
        /\ o.pc = "lists" => o.snap \in FileContents
        /\ o.pc = "stores" => o.list \in Seq(FileContents)
        /\ o.pc = "status" => o.tell \in BOOLEAN
        /\ o.pc = "pushes" => o.tree \in FileContents /\ o.on \in 1 .. MaxCommits
        /\ o.pc \in Pulling \cup {"pushed"} => o.at \in 1 .. MaxCommits
        /\ o.pc = "idle" => o = Idle
    /\ \A p \in Polls : p # Idle => p.sha \in 1 .. MaxCommits /\ p.crossed \in BOOLEAN /\ p.pc \in {"head", "tree"}
    /\ Idle.pc = "idle"
<1>1. ASSUME NEW o \in Ops
      PROVE  /\ o.pc = "lists" => o.snap \in FileContents
             /\ o.pc = "stores" => o.list \in Seq(FileContents)
             /\ o.pc = "status" => o.tell \in BOOLEAN
             /\ o.pc = "pushes" => o.tree \in FileContents /\ o.on \in 1 .. MaxCommits
             /\ o.pc \in Pulling \cup {"pushed"} => o.at \in 1 .. MaxCommits
             /\ o.pc = "idle" => o = Idle
  BY <1>1 DEF Ops, Pulling, Idle
<1>2. ASSUME NEW p \in Polls, p # Idle
      PROVE  p.sha \in 1 .. MaxCommits /\ p.crossed \in BOOLEAN /\ p.pc \in {"head", "tree"}
  BY <1>2 DEF Polls, Idle
<1>3. Idle.pc = "idle"
  BY DEF Idle
<1> QED
  BY <1>1, <1>2, <1>3

LEMMA Made ==
    /\ Idle \in Ops /\ [pc |-> "diverged"] \in Ops /\ [pc |-> "clears"] \in Ops
    /\ Waiting(TRUE) \in Ops /\ Waiting(FALSE) \in Ops
    /\ Waiting(TRUE).pc = "status" /\ Waiting(FALSE).pc = "status"
    /\ \A c \in FileContents : [pc |-> "lists", snap |-> c] \in Ops
    /\ \A s \in Seq(FileContents) : [pc |-> "stores", list |-> s] \in Ops
    /\ \A c \in FileContents, n \in 1 .. MaxCommits : [pc |-> "pushes", tree |-> c, on |-> n] \in Ops
    /\ \A n \in 1 .. MaxCommits :
          /\ [pc |-> "applies", at |-> n] \in Ops /\ [pc |-> "applied", at |-> n] \in Ops
          /\ [pc |-> "merges", at |-> n] \in Ops /\ [pc |-> "merged", at |-> n] \in Ops
          /\ [pc |-> "pushed", at |-> n] \in Ops
    /\ Idle \in Polls
    /\ \A n \in 1 .. MaxCommits : [pc |-> "head", sha |-> n, crossed |-> FALSE] \in Polls
  BY DEF Ops, Polls, Pulling, Waiting, Idle

LEMMA Bounds ==
    ASSUME PanelAssumption, world \in Worlds
    PROVE  /\ MaxCommits \in Nat \ {0} /\ MaxSaves \in Nat \ {0} /\ MaxLoads \in Nat \ {0}
           /\ MaxRefreshes \in Nat \ {0} /\ world.contents \in Nat \ {0}
           /\ world.open \in BOOLEAN
           /\ FileContents \subseteq Nat \ {0}
           /\ \A n \in Nat \ {0} : n <= world.contents + MaxCommits => n \in FileContents
  BY DEF PanelAssumption, FileContents

LEMMA BranchStep ==
    ASSUME PanelAssumption, DiskInv, BranchInv, SavesInv, PanelNext
    PROVE  BranchInv'
<1>1. FileContents' = FileContents /\ Ops' = Ops /\ Polls' = Polls
  BY WorldStays
<1>2. MaxCommits \in Nat \ {0} /\ FileContents \subseteq Nat \ {0}
      /\ \A n \in Nat \ {0} : n <= world.contents + MaxCommits => n \in FileContents
  BY Bounds DEF DiskInv
<1>3. /\ commits \in Seq(FileContents) /\ Tip \in Nat /\ Tip <= MaxCommits
      /\ base \in 1 .. Tip /\ seen \in 0 .. Tip /\ op \in Ops /\ poll \in Polls
      /\ FlushedText \in FileContents /\ Tip \in 1 .. MaxCommits
  BY <1>2 DEF BranchInv, DiskInv, Tip, FlushedText, Texts
<1>4. CASE UNCHANGED <<commits, base, seen, op, poll>>
  BY <1>1, <1>4 DEF BranchInv, Tip
<1>5. CASE RemotePush
  <2>1. newest + 1 \in FileContents
    BY <1>2, <1>5, Bounds DEF RemotePush, DiskInv
  <2>2. commits' \in Seq(FileContents) /\ Tip' = Tip + 1 /\ Tip' <= MaxCommits
    BY <1>2, <1>3, <1>5, <2>1 DEF RemotePush, Tip
  <2> QED
    BY <1>1, <1>2, <1>3, <1>5, <2>2, Fields DEF RemotePush, BranchInv, Pulling
<1>6. ASSUME NEW i \in DOMAIN refreshes, RefreshDone(i) PROVE BranchInv'
  <2>1. UNCHANGED <<commits, base, seen, poll>> /\ op' \in {op, Idle}
    BY <1>6 DEF RefreshDone
  <2> QED
    BY <1>1, <1>3, <2>1, Made, Fields DEF BranchInv, Tip, Pulling
<1>7. CASE Save \/ SaveList \/ (\E l \in 1 .. MaxLoads : SaveStore(l) \/ Cleared(l))
              \/ \E i \in 1 .. MaxSaves : RevertToSave(i)
  <2>1. UNCHANGED <<commits, base, seen, poll>>
    BY <1>7 DEF Save, SaveList, SaveStore, Cleared, RevertToSave
  <2>2. op' \in Ops /\ op'.pc \in {"lists", "stores", "status"}
    <3>1. CASE Save
      BY <1>3, <3>1, Made DEF Save
    <3>2. CASE SaveList
      <4>1. <<op.snap>> \o saves \in Seq(FileContents)
        BY <1>3, <3>2, Fields DEF SaveList, SavesInv
      <4> QED
        BY <3>2, <4>1, Made DEF SaveList
    <3>3. CASE ~Save /\ ~SaveList
      BY <1>7, <3>3, Made DEF SaveStore, Cleared, RevertToSave
    <3> QED
      BY <3>1, <3>2, <3>3
  <2> QED
    BY <1>1, <1>3, <2>1, <2>2 DEF BranchInv, Tip, Pulling
<1>8. CASE Publish \/ Pull \/ MergeStart \/ FastForward \/ MergeWrite
  <2>1. UNCHANGED <<commits, base, seen, poll>>
    BY <1>8 DEF Publish, Pull, MergeStart, FastForward, MergeWrite
  <2>2. /\ op' \in Ops
        /\ op'.pc \in Pulling \cup {"pushed"} => op'.at \in base + 1 .. Tip
        /\ op'.pc = "pushes" => op'.on = base /\ base < MaxCommits
    <3>1. CASE Publish
      <4>1. Tip < MaxCommits /\ op' \in {Idle, [pc |-> "pushes", tree |-> FlushedText, on |-> base]}
        BY <3>1 DEF Publish
      <4>2. [pc |-> "pushes", tree |-> FlushedText, on |-> base] \in Ops /\ Idle \in Ops
        BY <1>2, <1>3, Made
      <4> QED
        BY <1>2, <1>3, <4>1, <4>2 DEF Pulling, Idle
    <3>2. CASE Pull \/ MergeStart
      <4>1. \/ op' = Idle
            \/ base # Tip /\ op' \in {[pc |-> "applies", at |-> Tip], [pc |-> "diverged"], [pc |-> "merges", at |-> Tip]}
        BY <3>2 DEF Pull, MergeStart
      <4>2. /\ [pc |-> "applies", at |-> Tip] \in Ops /\ [pc |-> "merges", at |-> Tip] \in Ops
            /\ [pc |-> "diverged"] \in Ops /\ Idle \in Ops
        BY <1>3, Made
      <4> QED
        BY <1>2, <1>3, <4>1, <4>2 DEF Pulling, Idle
    <3>3. CASE FastForward \/ MergeWrite
      <4>1. op.at \in base + 1 .. Tip /\ op' \in {[pc |-> "applied", at |-> op.at], [pc |-> "merged", at |-> op.at]}
        BY <3>3 DEF FastForward, MergeWrite, BranchInv, Pulling
      <4>2. [pc |-> "applied", at |-> op.at] \in Ops /\ [pc |-> "merged", at |-> op.at] \in Ops
        <5>1. op.at \in 1 .. MaxCommits
          BY <1>2, <1>3, <4>1
        <5> QED
          BY <5>1, Made
      <4> QED
        BY <4>1, <4>2
    <3> QED
      BY <1>8, <3>1, <3>2, <3>3
  <2> QED
    BY <1>1, <1>3, <2>1, <2>2 DEF BranchInv, Tip
<1>9. CASE Push
  <2>1. UNCHANGED <<base, seen, poll>> /\ op.tree \in FileContents /\ op.on = base /\ base < MaxCommits
    BY <1>3, <1>9, Fields DEF Push, BranchInv
  <2>2. CASE op.on = Tip
    <3>1. commits' \in Seq(FileContents) /\ Tip' = Tip + 1
      BY <1>3, <1>9, <2>1, <2>2 DEF Push, Tip
    <3>2. op' = [pc |-> "pushed", at |-> Tip + 1]
      BY <1>9, <2>2 DEF Push
    <3>3. op' \in Ops
      <4>1. Tip + 1 \in 1 .. MaxCommits
        BY <1>2, <1>3, <2>1, <2>2
      <4> QED
        BY <3>2, <4>1, Made
    <3> QED
      BY <1>1, <1>2, <1>3, <2>1, <2>2, <3>1, <3>2, <3>3, Fields DEF BranchInv, Pulling
  <2>3. CASE op.on # Tip
    BY <1>1, <1>3, <1>9, <2>1, <2>3, Made DEF Push, BranchInv, Pulling, Tip
  <2> QED
    BY <2>2, <2>3
<1>10. CASE Pushed \/ FastForwarded \/ Merged
  <2>1. op.at \in base + 1 .. Tip /\ Persist(op.at) /\ UNCHANGED commits
    BY <1>10 DEF Pushed, FastForwarded, Merged, BranchInv, Pulling
  <2>2. poll' \in Polls /\ (poll' # Idle => poll # Idle /\ poll'.sha = poll.sha)
    BY <1>3, <2>1 DEF Persist, Polls, Idle
  <2>3. op' \in Ops /\ op'.pc \in {"clears", "status"}
    <3>1. CASE Pushed
      BY <3>1, Made DEF Pushed
    <3>2. CASE FastForwarded
      BY <3>2, Made DEF FastForwarded
    <3>3. CASE Merged
      BY <3>3, Made DEF Merged
    <3> QED
      BY <1>10, <3>1, <3>2, <3>3
  <2> QED
    BY <1>1, <1>3, <2>1, <2>2, <2>3 DEF Persist, BranchInv, Pulling, Tip
<1>11. ASSUME NEW force \in BOOLEAN, PollStart(force) PROVE BranchInv'
  <2>1. UNCHANGED <<commits, base, seen, op>> /\ poll' = [pc |-> "head", sha |-> Tip, crossed |-> FALSE]
    BY <1>11 DEF PollStart
  <2>2. poll' \in Polls /\ poll'.sha = Tip
    BY <1>2, <1>3, <2>1, Made
  <2> QED
    BY <1>1, <1>3, <2>1, <2>2 DEF BranchInv, Tip
<1>12. CASE PollHead
  <2>1. UNCHANGED <<commits, base, op>> /\ poll # Idle /\ poll.sha \in 1 .. Tip /\ seen' \in {seen, poll.sha}
    BY <1>3, <1>12, Fields DEF PollHead, BranchInv
  <2>2. poll' \in Polls /\ (poll' # Idle => poll'.sha = poll.sha)
    BY <1>3, <1>12, <2>1 DEF PollHead, Polls, Idle
  <2> QED
    BY <1>1, <1>3, <2>1, <2>2 DEF BranchInv, Tip
<1>13. ASSUME NEW fails \in BOOLEAN, PollTree(fails) PROVE BranchInv'
  BY <1>1, <1>3, <1>13, Made DEF PollTree, BranchInv, Tip
<1>14. ASSUME NEW l \in 1 .. MaxLoads, Reload(l) PROVE BranchInv'
  BY <1>1, <1>3, <1>14 DEF Reload, BranchInv, Tip, Nil
<1>15. ASSUME NEW i \in DOMAIN refreshes, RefreshBegin(i) \/ RefreshLook(i) \/ RefreshHash(i)
       PROVE  UNCHANGED <<commits, base, seen, op, poll>>
  BY <1>15 DEF RefreshBegin, RefreshLook, RefreshHash, pullVars
<1>16. CASE TypeText \/ SaveTab \/ Import \/ (\E i \in 1 .. MaxSaves : Drop(i))
            \/ \E l \in 1 .. MaxLoads : Landed(l) \/ DropStore(l)
  BY <1>4, <1>16 DEF TypeText, SaveTab, Import, Drop, Landed, DropStore, pullVars
<1> QED
  BY <1>4, <1>5, <1>6, <1>7, <1>8, <1>9, <1>10, <1>11, <1>12, <1>13, <1>14, <1>15, <1>16
     DEF PanelNext, Refreshing, Working, Polling

LEMMA DiskStep ==
    ASSUME PanelAssumption, DiskInv, BranchInv, SavesInv, RefreshInv, PanelNext
    PROVE  DiskInv'
<1>1. world' = world /\ FileContents' = FileContents /\ Texts' = Texts
  BY WorldStays
<1>2. /\ MaxCommits \in Nat \ {0} /\ FileContents \subseteq Nat \ {0} /\ world.contents \in Nat \ {0}
      /\ world.open \in BOOLEAN
      /\ \A n \in Nat \ {0} : n <= world.contents + MaxCommits => n \in FileContents
  BY Bounds DEF DiskInv
<1>3. /\ newest \in Nat \ {0} /\ newest <= world.contents + base - 1 + (IF op.pc = "merged" THEN 1 ELSE 0)
      /\ file \in FileContents /\ editor \in Texts /\ due \in BOOLEAN /\ (due => editor # Nil)
      /\ cache \in Texts /\ FlushedText \in FileContents /\ world \in Worlds
      /\ (due => editor \in FileContents)
  BY DEF DiskInv, FlushedText, Texts
<1>4. base \in 1 .. Tip /\ Tip \in Nat /\ Tip <= MaxCommits /\ commits \in Seq(FileContents)
  BY DEF BranchInv, Tip
<1> DEFINE Count == newest \in Nat \ {0} /\ newest <= world.contents + base - 1 + (IF op.pc = "merged" THEN 1 ELSE 0)
           Held == /\ file \in FileContents /\ editor \in Texts /\ due \in BOOLEAN /\ (due => editor # Nil)
                   /\ cache \in Texts
<1>5. Count /\ Held /\ newest \in FileContents /\ newest + (IF op.pc = "merges" THEN 1 ELSE 0) \in FileContents
  <2>1. op.pc \in {"merges", "merged"} => base < MaxCommits
    BY <1>2, <1>4 DEF BranchInv, Pulling
  <2> QED
    BY <1>2, <1>3, <1>4, <2>1
<1>6. ASSUME UNCHANGED <<newest, base>>, op.pc # "merged" \/ op' = op PROVE Count'
  BY <1>1, <1>2, <1>4, <1>5, <1>6
<1>7. UNCHANGED <<file, editor, due, cache>> => Held'
  BY <1>1, <1>5
<1>8. ASSUME NEW last \in BOOLEAN, Flush(last), UNCHANGED editor PROVE Held'
  BY <1>1, <1>3, <1>8 DEF Flush, Texts
<1>9. AfterPull(file) /\ UNCHANGED <<file, cache>> => Held'
  BY <1>1, <1>2, <1>3 DEF AfterPull, Texts, Nil
<1>10. op = Idle => op.pc # "merged"
  BY DEF Idle
<1>11. CASE TypeText \/ Import \/ RemotePush
  <2>1. UNCHANGED <<base, op>> /\ newest < world.contents /\ newest' = newest + 1
    BY <1>11 DEF TypeText, Import, RemotePush
  <2>2. newest' \in FileContents /\ newest' # Nil /\ Count'
    BY <1>1, <1>2, <1>4, <1>5, <2>1 DEF Nil
  <2>3. Held'
    <3>1. CASE TypeText
      BY <1>1, <1>3, <2>1, <2>2, <3>1 DEF TypeText, Texts
    <3>2. CASE Import
      BY <1>1, <1>3, <2>1, <2>2, <3>2 DEF Import, Texts
    <3>3. CASE RemotePush
      BY <1>7, <3>3 DEF RemotePush
    <3> QED
      BY <1>11, <3>1, <3>2, <3>3
  <2> QED
    BY <1>1, <1>3, <2>2, <2>3 DEF DiskInv
<1>12. CASE SaveTab
  BY <1>1, <1>3, <1>6, <1>12 DEF SaveTab, Write, DiskInv, Texts
<1>13. ASSUME NEW i \in DOMAIN refreshes, Refreshing(i) PROVE DiskInv'
  <2>1. UNCHANGED <<newest, base>> /\ (op.pc # "merged" \/ op' = op)
    BY <1>13 DEF Refreshing, RefreshBegin, RefreshLook, RefreshHash, RefreshDone, RefreshInv
  <2>2. Held'
    <3>1. CASE RefreshHash(i)
      <4>1. refreshes[i].got \in Texts
        <5>1. refreshes[i] \in Refreshes
          BY DEF RefreshInv
        <5> QED
          BY <5>1 DEF Refreshes
      <4> QED
        BY <1>1, <1>3, <3>1, <4>1 DEF RefreshHash
    <3>2. CASE RefreshDone(i)
      BY <1>7, <1>9, <3>2 DEF RefreshDone
    <3> QED
      BY <1>7, <1>13, <3>1, <3>2 DEF Refreshing, RefreshBegin, RefreshLook
  <2> QED
    BY <1>1, <1>3, <1>6, <2>1, <2>2 DEF DiskInv
<1>14. CASE Save \/ Publish \/ Pull \/ MergeStart
  <2>1. UNCHANGED <<newest, base, editor>> /\ op.pc # "merged"
    BY <1>10, <1>14 DEF Save, Publish, Pull, MergeStart, Enabled
  <2>2. Held'
    BY <1>7, <1>8, <1>14 DEF Save, Publish, Pull, MergeStart
  <2> QED
    BY <1>1, <1>3, <1>6, <2>1, <2>2 DEF DiskInv
<1>15. ASSUME NEW i \in 1 .. MaxSaves, RevertToSave(i) PROVE DiskInv'
  <2>1. UNCHANGED <<newest, base>> /\ op.pc # "merged"
    BY <1>10, <1>15 DEF RevertToSave, Enabled
  <2>2. pendingSaves[i] \in FileContents
    BY <1>15 DEF RevertToSave, SavesInv
  <2>3. Held'
    BY <1>1, <1>2, <1>3, <1>15, <2>2 DEF RevertToSave, Write, Texts, Nil
  <2> QED
    BY <1>1, <1>3, <1>6, <2>1, <2>3 DEF DiskInv
<1>16. CASE FastForward
  <2>1. op.at \in 1 .. Tip
    BY <1>4, <1>16 DEF FastForward, BranchInv, Pulling
  <2>2. commits[op.at] \in FileContents
    BY <1>4, <2>1 DEF Tip
  <2> QED
    BY <1>1, <1>3, <1>6, <1>16, <2>2 DEF FastForward, DiskInv
<1>17. CASE MergeWrite
  <2>1. op.at \in 1 .. Tip /\ commits[op.at] \in FileContents
    BY <1>4, <1>17 DEF MergeWrite, BranchInv, Pulling, Tip
  <2>2. /\ newest' \in {newest, newest + 1} /\ op'.pc = "merged" /\ UNCHANGED <<base, editor, due>>
        /\ file' \in {file, commits[op.at], newest + 1} /\ cache' \in {cache, Nil} /\ op.pc = "merges"
    BY <1>17 DEF MergeWrite, Write
  <2>3. newest + 1 \in FileContents /\ newest' \in Nat \ {0} /\ newest' <= world.contents + base - 1 + 1
    <3>1. newest + 1 \in FileContents
      BY <1>5, <2>2
    <3>2. newest <= world.contents + base - 1
      BY <1>2, <1>3, <1>4, <2>2
    <3> QED
      BY <1>2, <1>3, <1>4, <2>2, <3>1, <3>2
  <2>4. Count'
    BY <1>1, <2>2, <2>3
  <2>5. Held'
    BY <1>1, <1>3, <2>1, <2>2, <2>3 DEF Texts
  <2> QED
    BY <1>1, <1>3, <2>4, <2>5 DEF DiskInv
<1>18. CASE Pushed \/ FastForwarded \/ Merged
  <2>1. /\ UNCHANGED newest /\ base' = op.at /\ op.at \in base + 1 .. Tip /\ op'.pc # "merged"
    <3>1. CASE Pushed
      BY <3>1 DEF Pushed, Persist, BranchInv
    <3>2. CASE FastForwarded
      BY <3>2, Made DEF FastForwarded, Persist, BranchInv, Pulling
    <3>3. CASE Merged
      BY <3>3, Made DEF Merged, Persist, BranchInv, Pulling
    <3> QED
      BY <1>18, <3>1, <3>2, <3>3
  <2>2. Held'
    BY <1>7, <1>9, <1>18 DEF Pushed, FastForwarded, Merged
  <2> QED
    BY <1>1, <1>2, <1>3, <1>4, <1>5, <2>1, <2>2 DEF DiskInv
<1>19. ASSUME NEW l \in 1 .. MaxLoads, SaveStore(l) \/ Cleared(l) \/ Landed(l) \/ DropStore(l) \/ Reload(l)
       PROVE  DiskInv'
  BY <1>1, <1>3, <1>6, <1>7, <1>19 DEF SaveStore, Cleared, Landed, DropStore, Reload, DiskInv
<1>20. CASE SaveList \/ Push \/ Polling \/ (\E force \in BOOLEAN : PollStart(force))
            \/ \E i \in 1 .. MaxSaves : Drop(i)
  BY <1>1, <1>3, <1>6, <1>7, <1>20 DEF SaveList, Push, Polling, PollHead, PollTree, PollStart, Drop, DiskInv
<1> QED
  BY <1>11, <1>12, <1>13, <1>14, <1>15, <1>16, <1>17, <1>18, <1>19, <1>20 DEF PanelNext, Working

LEMMA SavesStep ==
    ASSUME PanelAssumption, DiskInv, BranchInv, SavesInv, PanelNext
    PROVE  SavesInv'
<1>1. FileContents' = FileContents /\ Drops' = Drops
  BY WorldStays
<1>2. MaxSaves \in Nat \ {0} /\ MaxLoads \in Nat \ {0}
  BY Bounds DEF DiskInv
<1>3. CASE UNCHANGED saveVars
  BY <1>1, <1>3 DEF SavesInv, Loading
<1>4. ASSUME NEW l \in 1 .. MaxLoads, NEW s \in Seq(FileContents), Len(s) <= MaxSaves, saves' = s,
             StartLoad(l, s), UNCHANGED pendingSaves, drop' \in {drop, NoDrop}
      PROVE  SavesInv'
  <2>1. /\ loads' = [loads EXCEPT ![l] = <<s>>] /\ latest' = l /\ <<s>> \in Seq(Seq(FileContents))
        /\ <<s>> # <<>>
    BY <1>4 DEF StartLoad
  <2>2. loads' \in [1 .. MaxLoads -> Seq(Seq(FileContents))] /\ l \in Loading'
    BY <2>1 DEF SavesInv, Loading
  <2> QED
    BY <1>1, <1>4, <2>1, <2>2 DEF SavesInv, NoDrop
<1>5. ASSUME NEW l \in 1 .. MaxLoads, Landed(l) PROVE SavesInv'
  <2>1. loads[l] \in Seq(Seq(FileContents)) /\ loads[l] # <<>>
    BY <1>5 DEF Landed, SavesInv
  <2>2. pendingSaves' \in Seq(FileContents)
    BY <1>5, <2>1 DEF Landed, SavesInv
  <2>3. loads' \in [1 .. MaxLoads -> Seq(Seq(FileContents))]
    BY <1>5 DEF Landed, SavesInv
  <2>4. latest' \in Loading' \cup {Nil}
    BY <1>5 DEF Landed, SavesInv, Loading
  <2> QED
    BY <1>1, <1>5, <2>2, <2>3, <2>4 DEF Landed, SavesInv
<1>6. ASSUME NEW l \in 1 .. MaxLoads, SaveStore(l) PROVE SavesInv'
  <2>1. op.list \in Seq(FileContents)
    BY <1>6, Fields DEF SaveStore, BranchInv
  <2>2. saves' \in Seq(FileContents) /\ Len(saves') <= MaxSaves
    BY <1>2, <1>6, <2>1 DEF SaveStore
  <2> QED
    BY <1>4, <1>6, <2>2 DEF SaveStore
<1>7. ASSUME NEW l \in 1 .. MaxLoads, Cleared(l) PROVE SavesInv'
  <2>1. <<>> \in Seq(FileContents) /\ Len(<<>>) <= MaxSaves
    BY <1>2
  <2> QED
    BY <1>4, <1>7, <2>1 DEF Cleared
<1>8. ASSUME NEW l \in 1 .. MaxLoads, DropStore(l) PROVE SavesInv'
  <2>1. drop.list \in Seq(FileContents) /\ Len(drop.list) <= MaxSaves
    <3>1. drop.under
      BY <1>8 DEF DropStore
    <3>2. drop \in Drops
      BY <3>1 DEF SavesInv, NoDrop
    <3> QED
      BY <3>1, <3>2 DEF SavesInv, Drops
  <2> QED
    BY <1>4, <1>8, <2>1 DEF DropStore
<1>9. ASSUME NEW l \in 1 .. MaxLoads, Reload(l) PROVE SavesInv'
  <2>1. /\ loads' = [loads EXCEPT ![l] = <<saves>>] /\ latest' = l /\ <<saves>> \in Seq(Seq(FileContents))
        /\ <<saves>> # <<>> /\ UNCHANGED <<saves, pendingSaves, drop>>
    BY <1>9 DEF Reload, StartLoad, SavesInv
  <2>2. loads' \in [1 .. MaxLoads -> Seq(Seq(FileContents))] /\ l \in Loading'
    BY <2>1 DEF SavesInv, Loading
  <2> QED
    BY <1>1, <2>1, <2>2 DEF SavesInv
<1>10. ASSUME NEW i \in 1 .. MaxSaves, Drop(i) PROVE SavesInv'
  <2>1. saves \in Seq(FileContents) /\ Len(saves) <= MaxSaves
    BY DEF SavesInv
  <2>2. \A s \in Without(pendingSaves[i]) : s \in Seq(FileContents) /\ Len(s) <= MaxSaves
    <3>1. ASSUME NEW k \in DOMAIN saves
          PROVE  LET s == SubSeq(saves, 1, k - 1) \o SubSeq(saves, k + 1, Len(saves))
                 IN  s \in Seq(FileContents) /\ Len(s) <= MaxSaves
      <4>1. k \in 1 .. Len(saves) /\ Len(saves) \in Nat
        BY <2>1
      <4>2. /\ SubSeq(saves, 1, k - 1) \in Seq(FileContents) /\ Len(SubSeq(saves, 1, k - 1)) = k - 1
            /\ SubSeq(saves, k + 1, Len(saves)) \in Seq(FileContents)
            /\ Len(SubSeq(saves, k + 1, Len(saves))) = Len(saves) - k
        BY <2>1, <4>1
      <4> QED
        BY <1>2, <2>1, <4>1, <4>2
    <3> QED
      BY <2>1, <3>1 DEF Without
  <2>3. drop' \in Drops /\ Len(drop'.list) <= MaxSaves
    BY <1>10, <2>2 DEF Drop, Drops
  <2> QED
    BY <1>1, <1>10, <2>3 DEF Drop, SavesInv, Loading
<1> QED
  BY <1>3, <1>5, <1>6, <1>7, <1>8, <1>9, <1>10 DEF PanelNext, Refreshing, Working, Polling, TypeText, SaveTab, Import,
       RemotePush, RefreshBegin, RefreshLook, RefreshHash, RefreshDone, Save, Publish, Pull, SaveList, Push, Pushed,
       FastForward, FastForwarded, MergeStart, MergeWrite, Merged, RevertToSave, PollHead, PollTree, PollStart

\* What a step does to the calls of refreshStatus under way.
Moved(i) ==
    /\ DOMAIN refreshes' = DOMAIN refreshes /\ Len(refreshes') = Len(refreshes)
    /\ \A j \in DOMAIN refreshes :
          /\ refreshes'[j].op = refreshes[j].op /\ refreshes'[j].old = refreshes[j].old
          /\ refreshes'[j].on = refreshes[j].on
          /\ j # i => refreshes'[j] = refreshes[j]

LEMMA Exchanged ==
    ASSUME refreshes \in Seq(Refreshes), NEW i \in DOMAIN refreshes, NEW r \in Refreshes,
           r.op = refreshes[i].op, r.old = refreshes[i].old, r.on = refreshes[i].on,
           refreshes' = [refreshes EXCEPT ![i] = r]
    PROVE  Moved(i) /\ refreshes' \in Seq(Refreshes) /\ refreshes'[i] = r
<1>1. DOMAIN refreshes = 1 .. Len(refreshes) /\ Len(refreshes) \in Nat
  OBVIOUS
<1>2. refreshes' \in [1 .. Len(refreshes) -> Refreshes]
  BY <1>1
<1>3. refreshes' \in Seq(Refreshes) /\ Len(refreshes') = Len(refreshes)
  BY <1>1, <1>2
<1> QED
  BY <1>1, <1>3 DEF Moved

LEMMA MovedBy ==
    ASSUME DiskInv, BranchInv, SavesInv, RefreshInv, NEW i \in DOMAIN refreshes,
           RefreshBegin(i) \/ RefreshLook(i) \/ RefreshHash(i)
    PROVE  /\ Moved(i) /\ refreshes' \in Seq(Refreshes)
           /\ RefreshBegin(i) => /\ refreshes'[i].pc = "lists"
                                 /\ refreshes'[i].ref = IF pendingSaves # <<>> THEN Head(pendingSaves) ELSE Synced
           /\ RefreshLook(i) => /\ refreshes'[i].ref = refreshes[i].ref
                                /\ cache # Nil => refreshes'[i].pc = "done" /\ refreshes'[i].got = cache
                                /\ cache = Nil => refreshes'[i].pc = "hashes" /\ refreshes'[i].got = file
           /\ RefreshHash(i) => /\ refreshes'[i].ref = refreshes[i].ref /\ refreshes'[i].got = refreshes[i].got
                                /\ refreshes'[i].pc = "done"
<1>1. /\ refreshes \in Seq(Refreshes) /\ refreshes[i] \in Refreshes
      /\ file \in Texts /\ cache \in Texts
  BY DEF RefreshInv, DiskInv, Texts
<1>2. Synced \in Texts /\ (pendingSaves # <<>> => Head(pendingSaves) \in Texts)
  <2>1. base \in 1 .. Len(commits) /\ commits \in Seq(FileContents) /\ pendingSaves \in Seq(FileContents)
    BY DEF SavesInv, BranchInv, Tip
  <2> QED
    BY <2>1 DEF Texts, Synced
<1>3. CASE RefreshBegin(i)
  <2> DEFINE r == [refreshes[i] EXCEPT !.pc = "lists",
                     !.ref = IF pendingSaves # <<>> THEN Head(pendingSaves) ELSE Synced]
  <2>1. r \in Refreshes /\ r.op = refreshes[i].op /\ r.old = refreshes[i].old /\ r.on = refreshes[i].on
    BY <1>1, <1>2 DEF Refreshes
  <2>2. refreshes' = [refreshes EXCEPT ![i] = r]
    BY <1>1, <1>3 DEF RefreshBegin
  <2>3. Moved(i) /\ refreshes' \in Seq(Refreshes) /\ refreshes'[i] = r
    BY <1>1, <2>1, <2>2, Exchanged
  <2>4. /\ r.pc = "lists" /\ r.ref = (IF pendingSaves # <<>> THEN Head(pendingSaves) ELSE Synced)
        /\ refreshes[i].pc = "waits"
    BY <1>1, <1>3 DEF Refreshes, RefreshBegin
  <2> QED
    BY <2>3, <2>4 DEF RefreshLook, RefreshHash
<1>4. CASE RefreshLook(i)
  <2> DEFINE r == [refreshes[i] EXCEPT !.pc = IF cache # Nil THEN "done" ELSE "hashes",
                                       !.got = IF cache # Nil THEN cache ELSE file]
  <2>1. r \in Refreshes /\ r.op = refreshes[i].op /\ r.old = refreshes[i].old /\ r.on = refreshes[i].on
    BY <1>1 DEF Refreshes
  <2>2. refreshes' = [refreshes EXCEPT ![i] = r]
    BY <1>1, <1>4 DEF RefreshLook
  <2>3. Moved(i) /\ refreshes' \in Seq(Refreshes) /\ refreshes'[i] = r
    BY <1>1, <2>1, <2>2, Exchanged
  <2>4. /\ r.ref = refreshes[i].ref /\ r.pc = (IF cache # Nil THEN "done" ELSE "hashes")
        /\ r.got = (IF cache # Nil THEN cache ELSE file) /\ refreshes[i].pc = "lists"
    BY <1>1, <1>4 DEF Refreshes, RefreshLook
  <2> QED
    BY <2>3, <2>4 DEF RefreshBegin, RefreshHash
<1>5. CASE RefreshHash(i)
  <2> DEFINE r == [refreshes[i] EXCEPT !.pc = "done"]
  <2>1. r \in Refreshes /\ r.op = refreshes[i].op /\ r.old = refreshes[i].old /\ r.on = refreshes[i].on
    BY <1>1 DEF Refreshes
  <2>2. refreshes' = [refreshes EXCEPT ![i] = r]
    BY <1>1, <1>5 DEF RefreshHash
  <2>3. Moved(i) /\ refreshes' \in Seq(Refreshes) /\ refreshes'[i] = r
    BY <1>1, <2>1, <2>2, Exchanged
  <2>4. r.ref = refreshes[i].ref /\ r.got = refreshes[i].got /\ r.pc = "done" /\ refreshes[i].pc = "hashes"
    BY <1>1, <1>5 DEF Refreshes, RefreshHash
  <2> QED
    BY <2>3, <2>4 DEF RefreshBegin, RefreshLook
<1> QED
  BY <1>3, <1>4, <1>5

\* A call that is done is taken out, and those before it are now older than one that
\* is done.
LEMMA DoneBy ==
    ASSUME RefreshInv, NEW i \in DOMAIN refreshes, RefreshDone(i)
    PROVE  /\ refreshes' \in Seq(Refreshes) /\ Len(refreshes') = Len(refreshes) - 1
           /\ \A j \in 1 .. Len(refreshes) - 1 :
                /\ j < i => refreshes'[j] = [refreshes[j] EXCEPT !.old = TRUE]
                /\ j >= i => refreshes'[j] = refreshes[j + 1]
<1>1. refreshes \in Seq(Refreshes) /\ Len(refreshes) \in Nat \ {0} /\ i \in 1 .. Len(refreshes)
  BY DEF RefreshInv
<1>2. refreshes' = [j \in 1 .. Len(refreshes) - 1 |->
                      IF j < i THEN [refreshes[j] EXCEPT !.old = TRUE] ELSE refreshes[j + 1]]
  BY DEF RefreshDone
<1>3. \A j \in 1 .. Len(refreshes) - 1 :
         (IF j < i THEN [refreshes[j] EXCEPT !.old = TRUE] ELSE refreshes[j + 1]) \in Refreshes
  <2> TAKE j \in 1 .. Len(refreshes) - 1
  <2>1. refreshes[j] \in Refreshes /\ refreshes[j + 1] \in Refreshes
    BY <1>1
  <2> QED
    BY <2>1 DEF Refreshes
<1>4. refreshes' \in [1 .. Len(refreshes) - 1 -> Refreshes]
  BY <1>2, <1>3
<1>5. refreshes' \in Seq(Refreshes) /\ Len(refreshes') = Len(refreshes) - 1
  BY <1>1, <1>4
<1> QED
  BY <1>1, <1>2, <1>5

LEMMA LandedBy ==
    ASSUME PanelAssumption, RefreshInv, NEW l \in 1 .. MaxLoads, Landed(l)
    PROVE  /\ refreshes' \in Seq(Refreshes) /\ Len(refreshes') = Len(refreshes)
           /\ \A j \in DOMAIN refreshes :
                /\ refreshes'[j].on = IF refreshes[j].on = l THEN Nil ELSE refreshes[j].on
                /\ refreshes'[j].pc = refreshes[j].pc /\ refreshes'[j].ref = refreshes[j].ref
                /\ refreshes'[j].got = refreshes[j].got /\ refreshes'[j].op = refreshes[j].op
                /\ refreshes'[j].old = refreshes[j].old
<1>1. refreshes \in Seq(Refreshes) /\ Len(refreshes) \in Nat /\ DOMAIN refreshes = 1 .. Len(refreshes)
  BY DEF RefreshInv
<1> DEFINE s(j) == IF refreshes[j].on = l THEN [refreshes[j] EXCEPT !.on = Nil] ELSE refreshes[j]
<1>2. refreshes' = [j \in 1 .. Len(refreshes) |-> s(j)]
  BY <1>1 DEF Landed
<1>3. ASSUME NEW j \in 1 .. Len(refreshes)
      PROVE  /\ s(j) \in Refreshes
             /\ s(j).on = IF refreshes[j].on = l THEN Nil ELSE refreshes[j].on
             /\ s(j).pc = refreshes[j].pc /\ s(j).ref = refreshes[j].ref
             /\ s(j).got = refreshes[j].got /\ s(j).op = refreshes[j].op
             /\ s(j).old = refreshes[j].old
  <2>1. refreshes[j] \in Refreshes
    BY <1>1, <1>3
  <2>2. Nil \in 0 .. MaxLoads
    BY DEF PanelAssumption, Nil
  <2> QED
    BY <2>1, <2>2 DEF Refreshes
<1> HIDE DEF s
<1>4. refreshes' \in [1 .. Len(refreshes) -> Refreshes]
  BY <1>2, <1>3
<1>5. refreshes' \in Seq(Refreshes) /\ Len(refreshes') = Len(refreshes)
  BY <1>1, <1>4
<1> QED
  BY <1>1, <1>2, <1>3, <1>5

LEMMA StartedBy ==
    ASSUME refreshes \in Seq(Refreshes), NEW awaited \in BOOLEAN, NEW l \in 0 .. MaxLoads,
           StartRefresh(awaited, l)
    PROVE  /\ refreshes' \in Seq(Refreshes) /\ Len(refreshes') = Len(refreshes) + 1
           /\ \A j \in DOMAIN refreshes : refreshes'[j] = refreshes[j]
           /\ refreshes'[Len(refreshes) + 1].pc = "waits" /\ refreshes'[Len(refreshes) + 1].on = l
           /\ (refreshes'[Len(refreshes) + 1].op <=> awaited) /\ ~refreshes'[Len(refreshes) + 1].old
<1> DEFINE r == [pc |-> "waits", on |-> l, ref |-> Nil, got |-> Nil, op |-> awaited, old |-> FALSE]
<1>1. /\ r \in Refreshes /\ r.pc = "waits" /\ r.on = l /\ (r.op <=> awaited) /\ ~r.old
  BY DEF Refreshes, Texts
<1>2. refreshes' = Append(refreshes, r)
  BY DEF StartRefresh
<1> HIDE DEF r
<1> QED
  BY <1>1, <1>2

LEMMA RefreshStep ==
    ASSUME PanelAssumption, DiskInv, BranchInv, SavesInv, RefreshInv, PanelNext
    PROVE  RefreshInv'
<1>1. Refreshes' = Refreshes
  BY WorldStays
<1>2. refreshes \in Seq(Refreshes) /\ Len(refreshes) \in Nat /\ DOMAIN refreshes = 1 .. Len(refreshes)
  BY DEF RefreshInv
<1>0. /\ Loading \subseteq 1 .. MaxLoads /\ latest \in 0 .. MaxLoads /\ MaxLoads \in Nat \ {0}
      /\ latest \in Loading \cup {Nil} /\ DOMAIN loads = 1 .. MaxLoads
  BY Bounds DEF SavesInv, DiskInv, Loading, Nil
<1> DEFINE On == \A i \in DOMAIN refreshes : refreshes[i].on \in Loading \cup {Nil}
           Awaited == /\ op.pc = "status" => \E i \in DOMAIN refreshes : refreshes[i].op
                      /\ \A i \in DOMAIN refreshes : refreshes[i].op => op.pc = "status"
                      /\ \A i, j \in DOMAIN refreshes : refreshes[i].op /\ refreshes[j].op => i = j
<1>3. On
  BY DEF RefreshInv
<1>20. Awaited
  BY DEF RefreshInv
<1>4. ASSUME UNCHANGED refreshes, UNCHANGED loads, op' = op \/ (op.pc # "status" /\ op'.pc # "status")
      PROVE  RefreshInv'
  BY <1>1, <1>2, <1>3, <1>20, <1>4 DEF RefreshInv, Loading
\* A refresh begins.
<1>5. ASSUME NEW awaited \in BOOLEAN, NEW l \in 0 .. MaxLoads, StartRefresh(awaited, l),
             Loading \subseteq Loading', l \in Loading' \cup {Nil},
             IF awaited THEN op.pc # "status" /\ op'.pc = "status" ELSE op' = op
      PROVE  RefreshInv'
  <2>1. /\ refreshes' \in Seq(Refreshes) /\ DOMAIN refreshes' = 1 .. Len(refreshes) + 1
        /\ \A j \in 1 .. Len(refreshes) : refreshes'[j] = refreshes[j]
        /\ refreshes'[Len(refreshes) + 1].on = l /\ (refreshes'[Len(refreshes) + 1].op <=> awaited)
    <3>1. /\ refreshes' \in Seq(Refreshes) /\ Len(refreshes') = Len(refreshes) + 1
          /\ \A j \in DOMAIN refreshes : refreshes'[j] = refreshes[j]
          /\ refreshes'[Len(refreshes) + 1].on = l /\ (refreshes'[Len(refreshes) + 1].op <=> awaited)
      BY <1>2, <1>5, StartedBy
    <3> QED
      BY <1>2, <3>1
  <2>2. On'
    <3> SUFFICES ASSUME NEW j \in 1 .. Len(refreshes) + 1 PROVE refreshes'[j].on \in (Loading \cup {Nil})'
      BY <2>1
    <3>1. CASE j = Len(refreshes) + 1
      BY <1>5, <2>1, <3>1
    <3>2. CASE j # Len(refreshes) + 1
      <4>1. j \in 1 .. Len(refreshes)
        BY <1>2, <3>2
      <4>2. refreshes[j].on \in Loading \cup {Nil} /\ refreshes'[j] = refreshes[j]
        BY <1>2, <1>3, <2>1, <4>1
      <4> QED
        BY <1>5, <4>2
    <3> QED
      BY <3>1, <3>2
  <2>3. Awaited'
    BY <1>2, <1>20, <1>5, <2>1
  <2> QED
    BY <1>1, <2>1, <2>2, <2>3 DEF RefreshInv
<1>6. ASSUME NEW l \in 1 .. MaxLoads, NEW s, StartLoad(l, s)
      PROVE  Loading \subseteq Loading' /\ l \in Loading'
  BY <1>0, <1>2, <1>6 DEF StartLoad, Loading
\* A refresh goes on.
<1>7. ASSUME NEW i \in DOMAIN refreshes, RefreshBegin(i) \/ RefreshLook(i) \/ RefreshHash(i) PROVE RefreshInv'
  <2>1. Moved(i) /\ refreshes' \in Seq(Refreshes)
    BY <1>7, MovedBy
  <2>2. UNCHANGED <<loads, op>>
    BY <1>7 DEF RefreshBegin, RefreshLook, RefreshHash
  <2> QED
    BY <1>1, <1>2, <1>3, <1>20, <2>1, <2>2 DEF RefreshInv, Moved, Loading
\* A refresh ends.
<1>8. ASSUME NEW i \in DOMAIN refreshes, RefreshDone(i) PROVE RefreshInv'
  <2>1. /\ refreshes' \in Seq(Refreshes) /\ DOMAIN refreshes' = 1 .. Len(refreshes) - 1
        /\ \A j \in 1 .. Len(refreshes) - 1 :
              /\ j < i => (refreshes'[j].op <=> refreshes[j].op) /\ refreshes'[j].on = refreshes[j].on
              /\ j >= i => refreshes'[j] = refreshes[j + 1]
    <3>1. /\ refreshes' \in Seq(Refreshes) /\ Len(refreshes') = Len(refreshes) - 1
          /\ \A j \in 1 .. Len(refreshes) - 1 :
                /\ j < i => refreshes'[j] = [refreshes[j] EXCEPT !.old = TRUE]
                /\ j >= i => refreshes'[j] = refreshes[j + 1]
      BY <1>8, DoneBy
    <3>2. ASSUME NEW j \in 1 .. Len(refreshes)
          PROVE  LET r == [refreshes[j] EXCEPT !.old = TRUE]
                 IN  (r.op <=> refreshes[j].op) /\ r.on = refreshes[j].on
      <4>1. refreshes[j] \in Refreshes
        BY <1>2, <3>2
      <4> QED
        BY <4>1 DEF Refreshes
    <3>3. DOMAIN refreshes' = 1 .. Len(refreshes) - 1
      BY <3>1
    <3>4. ASSUME NEW j \in 1 .. Len(refreshes) - 1, j < i
          PROVE  (refreshes'[j].op <=> refreshes[j].op) /\ refreshes'[j].on = refreshes[j].on
      <4>1. j \in 1 .. Len(refreshes) /\ refreshes'[j] = [refreshes[j] EXCEPT !.old = TRUE]
        BY <1>2, <3>1, <3>4
      <4> QED
        BY <3>2, <4>1
    <3> QED
      BY <3>1, <3>3, <3>4
  <2>2. UNCHANGED loads /\ op' = (IF refreshes[i].op THEN Idle ELSE op)
    BY <1>8 DEF RefreshDone
  <2>3. On'
    <3> SUFFICES ASSUME NEW j \in 1 .. Len(refreshes) - 1 PROVE refreshes'[j].on \in (Loading \cup {Nil})'
      BY <2>1
    <3>1. Loading' = Loading
      BY <2>2 DEF Loading
    <3>2. j \in 1 .. Len(refreshes) /\ j + 1 \in 1 .. Len(refreshes)
      BY <1>2
    <3>3. refreshes[j].on \in Loading \cup {Nil} /\ refreshes[j + 1].on \in Loading \cup {Nil}
      BY <1>2, <1>3, <3>2
    <3>4. CASE j < i
      BY <2>1, <3>1, <3>3, <3>4
    <3>5. CASE j >= i
      BY <2>1, <3>1, <3>3, <3>5
    <3> QED
      BY <1>2, <3>4, <3>5
  <2>4. CASE refreshes[i].op
    <3>1. \A j \in 1 .. Len(refreshes) - 1 : ~refreshes'[j].op
      BY <1>2, <1>20, <2>1, <2>4
    <3> QED
      BY <1>1, <2>1, <2>2, <2>3, <2>4, <3>1, Fields DEF RefreshInv
  <2>5. CASE ~refreshes[i].op
    <3>1. ASSUME op.pc = "status" PROVE \E k \in 1 .. Len(refreshes) - 1 : refreshes'[k].op
      <4>1. PICK k \in 1 .. Len(refreshes) : refreshes[k].op
        BY <1>2, <1>20, <3>1
      <4>2. CASE k < i
        BY <1>2, <2>1, <4>1, <4>2
      <4>3. CASE k > i
        <5>1. k - 1 \in 1 .. Len(refreshes) - 1 /\ k - 1 >= i /\ (k - 1) + 1 = k
          BY <1>2, <4>3
        <5> QED
          BY <2>1, <4>1, <5>1
      <4> QED
        BY <1>2, <2>5, <4>1, <4>2, <4>3
    <3>2. ASSUME NEW j \in 1 .. Len(refreshes) - 1, refreshes'[j].op
          PROVE  LET n == IF j < i THEN j ELSE j + 1 IN n \in 1 .. Len(refreshes) /\ refreshes[n].op
      BY <1>2, <2>1, <3>2
    <3>3. \A j, k \in 1 .. Len(refreshes) - 1 : refreshes'[j].op /\ refreshes'[k].op => j = k
      <4> SUFFICES ASSUME NEW j \in 1 .. Len(refreshes) - 1, NEW k \in 1 .. Len(refreshes) - 1,
                          refreshes'[j].op, refreshes'[k].op
                   PROVE  j = k
        OBVIOUS
      <4>1. (IF j < i THEN j ELSE j + 1) = (IF k < i THEN k ELSE k + 1)
        BY <1>2, <1>20, <3>2
      <4> QED
        BY <1>2, <4>1
    <3>4. \A j \in 1 .. Len(refreshes) - 1 : refreshes'[j].op => op.pc = "status"
      BY <1>2, <1>20, <3>2
    <3> QED
      BY <1>1, <2>1, <2>2, <2>3, <2>5, <3>1, <3>3, <3>4 DEF RefreshInv
  <2> QED
    BY <2>4, <2>5
\* A load lands.
<1>9. ASSUME NEW l \in 1 .. MaxLoads, Landed(l) PROVE RefreshInv'
  <2>1. /\ refreshes' \in Seq(Refreshes) /\ DOMAIN refreshes' = DOMAIN refreshes
        /\ \A j \in DOMAIN refreshes :
              /\ refreshes'[j].on = IF refreshes[j].on = l THEN Nil ELSE refreshes[j].on
              /\ refreshes'[j].op = refreshes[j].op
    BY <1>2, <1>9, LandedBy
  <2>2. op' = op /\ Loading \ {l} \subseteq Loading'
    BY <1>0, <1>9 DEF Landed, Loading
  <2> QED
    BY <1>1, <1>3, <1>20, <2>1, <2>2 DEF RefreshInv
<1>10. CASE SaveTab
  BY <1>0, <1>5, <1>10 DEF SaveTab, Loading
<1>11. ASSUME NEW i \in 1 .. MaxSaves, RevertToSave(i) PROVE RefreshInv'
  BY <1>0, <1>5, <1>11, Made, Fields DEF RevertToSave, Enabled, Loading
<1>12. CASE FastForwarded
  BY <1>0, <1>5, <1>12, Made DEF FastForwarded, Loading
<1>13. CASE Merged
  BY <1>0, <1>5, <1>13, Made DEF Merged, Loading
<1>14. ASSUME NEW l \in 1 .. MaxLoads, SaveStore(l) \/ Cleared(l) PROVE RefreshInv'
  <2>1. StartRefresh(TRUE, l) /\ op.pc # "status" /\ op' = Waiting(FALSE)
    BY <1>14 DEF SaveStore, Cleared
  <2>2. Loading \subseteq Loading' /\ l \in Loading'
    BY <1>6, <1>14 DEF SaveStore, Cleared
  <2>3. l \in 0 .. MaxLoads
    BY <1>0
  <2>4. op'.pc = "status"
    BY <2>1, Made
  <2> QED
    BY <1>5, <2>1, <2>2, <2>3, <2>4
<1>15. ASSUME NEW l \in 1 .. MaxLoads, DropStore(l) \/ Reload(l) PROVE RefreshInv'
  <2>1. StartRefresh(FALSE, l) /\ op' = op
    BY <1>15 DEF DropStore, Reload
  <2>2. Loading \subseteq Loading' /\ l \in Loading'
    BY <1>6, <1>15 DEF DropStore, Reload
  <2>3. l \in 0 .. MaxLoads
    BY <1>0
  <2> QED
    BY <1>5, <2>1, <2>2, <2>3
<1>16. CASE TypeText \/ Import \/ RemotePush \/ Save \/ Publish \/ Pull \/ SaveList \/ Push \/ Pushed
            \/ FastForward \/ MergeStart \/ MergeWrite \/ Polling
            \/ (\E i \in 1 .. MaxSaves : Drop(i)) \/ \E force \in BOOLEAN : PollStart(force)
  <2>1. UNCHANGED <<refreshes, loads>>
    BY <1>16 DEF TypeText, Import, RemotePush, Save, Publish, Pull, SaveList, Push, Pushed,
                 FastForward, MergeStart, MergeWrite, Polling, PollHead, PollTree, Drop, PollStart
  <2>2. op' = op \/ (op.pc # "status" /\ op'.pc # "status")
    <3>1. CASE Save \/ Publish \/ Pull
      <4>1. op = Idle
        BY <3>1 DEF Save, Publish, Pull, Enabled
      <4>2. \/ op' = Idle \/ op' = [pc |-> "lists", snap |-> FlushedText] \/ op' = [pc |-> "applies", at |-> Tip]
            \/ op' = [pc |-> "diverged"] \/ op' = [pc |-> "pushes", tree |-> FlushedText, on |-> base]
        BY <3>1 DEF Save, Publish, Pull
      <4> QED
        BY <4>1, <4>2 DEF Idle
    <3>2. CASE SaveList \/ Push \/ Pushed \/ FastForward \/ MergeStart \/ MergeWrite
      <4>1. op.pc # "status"
        BY <3>2 DEF SaveList, Push, Pushed, FastForward, MergeStart, MergeWrite
      <4>2. \/ op' = [pc |-> "stores", list |-> <<op.snap>> \o saves] \/ op' = [pc |-> "pushed", at |-> Tip + 1]
            \/ op' = [pc |-> "diverged"] \/ op' = [pc |-> "clears"] \/ op' = [pc |-> "applied", at |-> op.at]
            \/ op' = Idle \/ op' = [pc |-> "merges", at |-> Tip] \/ op' = [pc |-> "merged", at |-> op.at]
        BY <3>2 DEF SaveList, Push, Pushed, FastForward, MergeStart, MergeWrite
      <4> QED
        BY <4>1, <4>2 DEF Idle
    <3>3. CASE ~(Save \/ Publish \/ Pull \/ SaveList \/ Push \/ Pushed \/ FastForward \/ MergeStart \/ MergeWrite)
      BY <1>16, <3>3 DEF TypeText, Import, RemotePush, Polling, PollHead, PollTree, Drop, PollStart
    <3> QED
      BY <3>1, <3>2, <3>3
  <2> QED
    BY <1>4, <2>1, <2>2
<1> QED
  BY <1>7, <1>8, <1>9, <1>10, <1>11, <1>12, <1>13, <1>14, <1>15, <1>16 DEF PanelNext, Refreshing, Working

LEMMA FlagStep ==
    ASSUME DiskInv, RefreshInv, FlagInv, BranchInv, PanelNext
    PROVE  FlagInv'
<1>1. Reading \in BOOLEAN
  BY DEF Reading
<1>2. CASE Save \/ Publish \/ Pull \/ MergeStart
  BY <1>1, <1>2 DEF Save, Publish, Pull, MergeStart, Flush, FlagInv
<1>3. CASE SaveTab \/ Import \/ (\E i \in 1 .. MaxSaves : RevertToSave(i)) \/ MergeWrite \/ FastForward
  BY <1>1, <1>3 DEF SaveTab, Import, RevertToSave, MergeWrite, FastForward, Write, FlagInv
<1>4. ASSUME NEW i \in DOMAIN refreshes, RefreshDone(i) PROVE FlagInv'
  <2>1. refreshes[i] \in Refreshes
    BY DEF RefreshInv
  <2>2. refreshes[i].old \in BOOLEAN
    BY <2>1 DEF Refreshes
  <2> QED
    BY <1>4, <2>2 DEF RefreshDone, FlagInv
<1>5. ASSUME NEW l \in 1 .. MaxLoads, Landed(l) PROVE FlagInv'
  BY <1>5 DEF Landed, FlagInv
<1>6. CASE Pushed \/ FastForwarded \/ Merged \/ \E l \in 1 .. MaxLoads : Reload(l)
  BY <1>6 DEF Pushed, FastForwarded, Merged, Reload, Persist, FlagInv
<1>7. CASE PollHead
  <2>1. poll.crossed \in BOOLEAN
    BY <1>7, Fields DEF PollHead, BranchInv
  <2> QED
    BY <1>7, <2>1 DEF PollHead, FlagInv
<1>8. ASSUME NEW fails \in BOOLEAN, PollTree(fails) PROVE FlagInv'
  <2>1. poll.crossed \in BOOLEAN
    BY <1>8, Fields DEF PollTree, BranchInv
  <2> QED
    BY <1>8, <2>1 DEF PollTree, FlagInv
<1>9. ASSUME NEW i \in DOMAIN refreshes, RefreshBegin(i) \/ RefreshLook(i) \/ RefreshHash(i) PROVE FlagInv'
  BY <1>9 DEF RefreshBegin, RefreshLook, RefreshHash, FlagInv
<1>10. CASE \/ TypeText \/ RemotePush \/ SaveList \/ Push
            \/ (\E i \in 1 .. MaxSaves : Drop(i)) \/ (\E force \in BOOLEAN : PollStart(force))
            \/ \E l \in 1 .. MaxLoads : SaveStore(l) \/ Cleared(l) \/ DropStore(l)
  BY <1>10 DEF TypeText, RemotePush, SaveList, Push, Drop, PollStart, SaveStore, Cleared, DropStore, FlagInv
<1> QED
  BY <1>2, <1>3, <1>4, <1>5, <1>6, <1>7, <1>8, <1>9, <1>10 DEF PanelNext, Refreshing, Working, Polling

LEMMA PanelTypesInit == ASSUME PanelAssumption, PanelInit PROVE PanelTypes
<1>1. world \in Worlds
  BY DEF PanelInit
<1>2. 1 \in FileContents /\ MaxCommits \in Nat \ {0} /\ MaxSaves \in Nat \ {0} /\ world.contents \in Nat \ {0}
      /\ world.open \in BOOLEAN
  BY <1>1, Bounds
<1>3. DiskInv
  <2>1. newest = 1 /\ base = 1 /\ op.pc # "merged" /\ file = 1 /\ editor \in {1, Nil} /\ due = FALSE /\ cache = Nil
    BY DEF PanelInit, Idle
  <2> QED
    <3>1. newest <= world.contents + base - 1 + (IF op.pc = "merged" THEN 1 ELSE 0)
      BY <1>2, <2>1
    <3>2. newest \in Nat \ {0} /\ file \in FileContents /\ editor \in Texts /\ cache \in Texts
      BY <1>2, <2>1 DEF Texts
    <3> QED
      BY <1>1, <2>1, <3>1, <3>2 DEF DiskInv
<1>4. BranchInv
  <2>1. commits \in Seq(FileContents) /\ Tip = 1
    BY <1>2 DEF PanelInit, Tip
  <2> QED
    BY <1>2, <2>1, Made DEF PanelInit, BranchInv, Nil, Pulling, Idle
<1>5. SavesInv
  BY <1>2 DEF PanelInit, SavesInv, NoDrop, Nil
<1>6. RefreshInv
  <2>1. op.pc # "status" /\ refreshes \in Seq(Refreshes) /\ DOMAIN refreshes = {}
    BY DEF PanelInit, Idle
  <2> QED
    BY <2>1 DEF RefreshInv
<1>7. FlagInv
  BY DEF PanelInit, FlagInv
<1> QED
  BY <1>3, <1>4, <1>5, <1>6, <1>7 DEF PanelTypes

LEMMA PanelTypesStep == ASSUME PanelAssumption, PanelTypes, [PanelNext]_panelVars PROVE PanelTypes'
<1>1. CASE PanelNext
  BY <1>1, DiskStep, BranchStep, SavesStep, RefreshStep, FlagStep DEF PanelTypes
<1>2. CASE UNCHANGED panelVars
  <2>1. FileContents' = FileContents /\ Texts' = Texts /\ Refreshes' = Refreshes /\ Ops' = Ops /\ Polls' = Polls
        /\ Drops' = Drops
    BY WorldStays
  <2>2. UNCHANGED <<world, newest, file, editor, due, cache, unsure, saves, pendingSaves, loads, latest, drop, strayed,
                    poll, seen, chip, crossed, commits, base, refreshes, modified, op, overtaken>>
    BY <1>2 DEF panelVars
  <2>3. DiskInv' /\ BranchInv'
    BY <2>1, <2>2 DEF PanelTypes, DiskInv, BranchInv, Tip
  <2>4. SavesInv' /\ RefreshInv' /\ FlagInv'
    BY <2>1, <2>2 DEF PanelTypes, SavesInv, RefreshInv, FlagInv, Loading
  <2> QED
    BY <2>3, <2>4 DEF PanelTypes
<1> QED
  BY <1>1, <1>2

\* The type invariant, with what it says of the panel's bookkeeping: whatever waits
\* for a load of the saves waits for one under way, an operation awaits exactly the
\* one refresh it called (runBusy, refreshStatus), the commits a base or a poll has
\* seen are in the branch, and no list of saves is longer than the code's limit.
THEOREM PanelTypesHold == ASSUME PanelAssumption PROVE PanelSpec => []PanelTypeOK
<1>1. ASSUME PanelTypes PROVE PanelTypeOK
  <2>1. world \in Worlds /\ newest \in FileContents
    <3>1. /\ MaxCommits \in Nat \ {0} /\ world.contents \in Nat \ {0}
          /\ \A n \in Nat \ {0} : n <= world.contents + MaxCommits => n \in FileContents
      BY <1>1, Bounds DEF PanelTypes, DiskInv
    <3>2. op.pc = "merged" => base < MaxCommits
      BY <1>1, <3>1 DEF PanelTypes, BranchInv, Pulling, Tip
    <3>3. base \in Nat \ {0} /\ base <= MaxCommits
      BY <1>1, <3>1 DEF PanelTypes, BranchInv, Tip
    <3> QED
      BY <1>1, <3>1, <3>2, <3>3 DEF PanelTypes, DiskInv
  <2>2. {base} \cup ({seen} \ {Nil}) \subseteq 1 .. Tip
    BY <1>1 DEF PanelTypes, BranchInv, Tip, Nil
  <2>3. Cardinality({i \in DOMAIN refreshes : refreshes[i].op}) = (IF op.pc = "status" THEN 1 ELSE 0)
    <3>1. CASE op.pc = "status"
      <4>1. PICK i \in DOMAIN refreshes : refreshes[i].op
        BY <1>1, <3>1 DEF PanelTypes, RefreshInv
      <4>2. {j \in DOMAIN refreshes : refreshes[j].op} = {i}
        BY <1>1, <4>1 DEF PanelTypes, RefreshInv
      <4> QED
        BY <3>1, <4>2, FS_Singleton
    <3>2. CASE op.pc # "status"
      <4>1. {j \in DOMAIN refreshes : refreshes[j].op} = {}
        BY <1>1, <3>2 DEF PanelTypes, RefreshInv
      <4> QED
        BY <3>2, <4>1, FS_EmptySet
    <3> QED
      BY <3>1, <3>2
  <2>4. {modified, chip, unsure, overtaken, strayed, crossed} \subseteq BOOLEAN
    BY <1>1 DEF PanelTypes, FlagInv
  <2> QED
    BY <1>1, <2>1, <2>2, <2>3, <2>4 DEF PanelTypeOK, PanelTypes, DiskInv, BranchInv, SavesInv, RefreshInv, Texts
<1>2. PanelTypes /\ [PanelNext]_panelVars => PanelTypes'
  BY PanelTypesStep
<1>3. PanelInit => PanelTypes
  BY PanelTypesInit
<1> QED
  BY <1>1, <1>2, <1>3, PTL DEF PanelSpec

-----------------------------------------------------------------------------
(* The source control panel: what it offers to pull. *)

\* A poll that has read the head, and has not been crossed since, has told the panel
\* what it saw; when it is over the chip is right.
ChipInv ==
    /\ poll.pc # "tree" /\ seen # Nil /\ ~crossed => chip = (commits[seen] # Synced)
    /\ poll.pc = "tree" /\ ~poll.crossed /\ seen # Nil => seen = poll.sha

\* The commits there are stay as they are.
LEMMA CommitsStay ==
    ASSUME BranchInv, PanelNext
    PROVE  \A n \in 1 .. Tip : commits'[n] = commits[n]
<1>1. commits \in Seq(FileContents) /\ Tip = Len(commits) /\ Tip \in Nat
  BY DEF BranchInv, Tip
<1>2. \/ commits' = commits \/ commits' = Append(commits, newest + 1) \/ commits' = Append(commits, op.tree)
  BY DEF PanelNext, TypeText, SaveTab, Import, RemotePush, Refreshing, RefreshBegin, RefreshLook,
         RefreshHash, RefreshDone, Save, Publish, Pull, Working, SaveList, Push, Pushed, FastForward,
         FastForwarded, MergeStart, MergeWrite, Merged, SaveStore, Cleared, Drop, RevertToSave, Landed,
         DropStore, Reload, Polling, PollHead, PollTree, PollStart
<1> QED
  BY <1>1, <1>2

LEMMA ChipStep ==
    ASSUME PanelTypes, ChipInv, PanelNext
    PROVE  ChipInv'
<1>1. /\ base \in 1 .. Tip /\ seen \in 0 .. Tip /\ Tip \in Nat /\ poll \in Polls
      /\ (poll # Idle => poll.sha \in 1 .. Tip /\ poll.crossed \in BOOLEAN)
  BY Fields DEF PanelTypes, BranchInv, Tip
<1>2. \A n \in 1 .. Tip : commits'[n] = commits[n]
  BY CommitsStay DEF PanelTypes
<1>3. chip \in BOOLEAN /\ crossed \in BOOLEAN
  BY DEF PanelTypes, FlagInv
<1>4. ASSUME UNCHANGED <<poll, seen, chip, crossed, base>> PROVE ChipInv'
  BY <1>1, <1>2, <1>4 DEF ChipInv, Synced, Nil
<1>5. CASE Pushed \/ FastForwarded \/ Merged
  <2>1. Persist(op.at)
    BY <1>5 DEF Pushed, FastForwarded, Merged
  <2>2. seen' = base' /\ chip' = FALSE
    BY <2>1 DEF Persist
  <2>3. poll'.pc = "tree" => poll'.crossed
    BY <1>1, <2>1 DEF Persist, Idle, Polls
  <2> QED
    BY <2>2, <2>3 DEF ChipInv, Synced
<1>6. ASSUME NEW force \in BOOLEAN, PollStart(force) PROVE ChipInv'
  <2>1. poll.pc # "tree" /\ poll'.pc = "head" /\ UNCHANGED <<seen, chip, crossed, base>>
    BY <1>6 DEF PollStart, Idle
  <2> QED
    BY <1>1, <1>2, <2>1 DEF ChipInv, Synced, Nil
<1>7. CASE PollHead
  <2>1. poll # Idle /\ poll.pc = "head" /\ UNCHANGED <<base, commits>>
    BY <1>7 DEF PollHead, Idle
  <2>2. CASE poll.sha = seen
    BY <1>7, <2>1, <2>2 DEF PollHead, ChipInv, Idle, Synced
  <2>3. CASE poll.sha # seen /\ poll.sha # base
    <3>1. poll'.pc = "tree" /\ poll'.sha = poll.sha /\ seen' = poll.sha
      BY <1>1, <1>7, <2>1, <2>3 DEF PollHead, Polls, Idle
    <3> QED
      BY <3>1 DEF ChipInv
  <2>4. CASE poll.sha # seen /\ poll.sha = base
    <3>1. poll' = Idle /\ seen' = base /\ chip' = FALSE
      BY <1>7, <2>4 DEF PollHead
    <3> QED
      BY <2>1, <3>1 DEF ChipInv, Idle, Synced
  <2> QED
    BY <2>2, <2>3, <2>4
<1>8. ASSUME NEW fails \in BOOLEAN, PollTree(fails) PROVE ChipInv'
  <2>1. poll.pc = "tree" /\ poll' = Idle /\ UNCHANGED <<seen, base, commits>>
    BY <1>8 DEF PollTree
  <2>2. seen' # Nil /\ ~crossed' => chip' = (commits[seen] # Synced)
    BY <1>8, <2>1 DEF PollTree, ChipInv
  <2> QED
    BY <2>1, <2>2 DEF ChipInv, Idle, Synced
<1>9. ASSUME NEW l \in 1 .. MaxLoads, Reload(l) PROVE ChipInv'
  BY <1>9 DEF Reload, ChipInv
<1> QED
  BY <1>4, <1>5, <1>6, <1>7, <1>8, <1>9 DEF PanelNext, TypeText, SaveTab, Import, RemotePush, Refreshing, RefreshBegin,
     RefreshLook, RefreshHash, RefreshDone, Save, Publish, Pull, Working, SaveList, Push, FastForward,
     MergeStart, MergeWrite, SaveStore, Cleared, Drop, RevertToSave, Landed, DropStore, Polling

\* Between polls the panel offers a pull if, and only if, the head it has seen differs
\* from the base, whatever publishes, pulls, merges, reloads and pushes of others
\* (persistSyncedFrom, checkRemote, setActiveProject) went on meanwhile - unless the
\* last poll was crossed by a change of the base, or its tree could not be fetched.
THEOREM ChipIsRightHolds == ASSUME PanelAssumption PROVE PanelSpec => []ChipIsRight
<1>1. PanelTypes /\ ChipInv => ChipIsRight
  BY DEF ChipInv, ChipIsRight, Idle
<1>2. PanelInit => PanelTypes /\ ChipInv
  BY PanelTypesInit DEF PanelInit, ChipInv, Idle
<1>3. PanelTypes /\ ChipInv /\ [PanelNext]_panelVars => (PanelTypes /\ ChipInv)'
  <2> SUFFICES ASSUME PanelTypes, ChipInv, [PanelNext]_panelVars PROVE ChipInv'
    BY PanelTypesStep
  <2>1. CASE UNCHANGED panelVars
    BY <2>1 DEF panelVars, ChipInv, Synced
  <2> QED
    BY <2>1, ChipStep
<1> QED
  BY <1>1, <1>2, <1>3, PTL DEF PanelSpec

-----------------------------------------------------------------------------
(* The source control panel: what it says of the file. *)

\* The refresh called last, what the file is to be compared with, and an operation
\* that has yet to call a refresh.
Youngest == refreshes[Len(refreshes)]
Reference == IF saves = <<>> THEN Synced ELSE Head(saves)
Unrefreshed == op.pc \notin {"idle", "status"}

\* The latest load has read the saves as they are, and until it lands the refresh
\* called last waits for it.
LatestInv ==
    /\ latest # Nil => loads[latest] = <<saves>>
    /\ latest = Nil /\ ~strayed => pendingSaves = saves
    /\ Len(refreshes) # 0 /\ ~Youngest.old /\ Youngest.pc = "waits" => Youngest.on = latest
    /\ latest # Nil => Len(refreshes) # 0 /\ Youngest.pc = "waits" /\ ~Youngest.old

\* But for unannounced writes, the cached hash is the file's, and so is what any
\* refresh is hashing.
CacheInv ==
    ~unsure =>
        /\ cache \in {Nil, file}
        /\ \A i \in DOMAIN refreshes : refreshes[i].pc = "hashes" => refreshes[i].got = file

\* A merge has something to merge.
DivergedInv == op.pc = "diverged" => base # Tip

\* The refresh called last knows what is so, unless another one is still to be called;
\* when it is done the list says so.
BadgeInv ==
    ~unsure /\ ~strayed /\ ~Unrefreshed =>
        /\ Len(refreshes) = 0 /\ ~overtaken => modified = (file # Reference)
        /\ Len(refreshes) # 0 /\ ~Youngest.old =>
            /\ Youngest.pc \in {"lists", "hashes", "done"} => Youngest.ref = Reference
            /\ Youngest.pc \in {"hashes", "done"} => Youngest.got = file

\* The refresh called last, after each kind of step.
LEMMA YoungestStarts ==
    ASSUME RefreshInv, NEW awaited \in BOOLEAN, NEW l \in 0 .. MaxLoads, StartRefresh(awaited, l)
    PROVE  Len(refreshes') # 0 /\ Youngest'.pc = "waits" /\ Youngest'.on = l /\ ~Youngest'.old
<1>1. refreshes \in Seq(Refreshes) /\ Len(refreshes) \in Nat
  BY DEF RefreshInv
<1>2. /\ Len(refreshes') = Len(refreshes) + 1
      /\ refreshes'[Len(refreshes) + 1].pc = "waits" /\ refreshes'[Len(refreshes) + 1].on = l
      /\ ~refreshes'[Len(refreshes) + 1].old
  BY <1>1, StartedBy
<1> QED
  BY <1>1, <1>2 DEF Youngest

LEMMA YoungestMoves ==
    ASSUME PanelTypes, NEW i \in DOMAIN refreshes, Moved(i)
    PROVE  /\ Len(refreshes') = Len(refreshes) /\ Len(refreshes) # 0
           /\ (Youngest'.old <=> Youngest.old) /\ Youngest'.on = Youngest.on
           /\ Youngest' = Youngest \/ i = Len(refreshes)
<1>1. DOMAIN refreshes = 1 .. Len(refreshes) /\ Len(refreshes) \in Nat
  BY DEF PanelTypes, RefreshInv
<1>2. Len(refreshes) \in DOMAIN refreshes
  BY <1>1
<1> QED
  BY <1>1, <1>2 DEF Moved, Youngest

LEMMA YoungestDone ==
    ASSUME PanelTypes, NEW i \in DOMAIN refreshes, RefreshDone(i)
    PROVE  \/ i = Len(refreshes) /\ (Len(refreshes') = 0 \/ Youngest'.old)
           \/ i # Len(refreshes) /\ Len(refreshes') # 0 /\ Youngest' = Youngest
<1>1. /\ DOMAIN refreshes = 1 .. Len(refreshes) /\ Len(refreshes) \in Nat /\ i \in 1 .. Len(refreshes)
      /\ refreshes \in Seq(Refreshes)
  BY DEF PanelTypes, RefreshInv
<1>2. /\ Len(refreshes') = Len(refreshes) - 1
      /\ \A j \in 1 .. Len(refreshes) - 1 :
             /\ j < i => refreshes'[j] = [refreshes[j] EXCEPT !.old = TRUE]
             /\ j >= i => refreshes'[j] = refreshes[j + 1]
  BY DoneBy DEF PanelTypes
<1>3. CASE i = Len(refreshes) /\ Len(refreshes) # 1
  <2> DEFINE n == Len(refreshes) - 1
  <2>1. n \in 1 .. Len(refreshes) - 1 /\ n < i /\ n \in 1 .. Len(refreshes)
    BY <1>1, <1>3
  <2>2. refreshes[n] \in Refreshes /\ refreshes'[n] = [refreshes[n] EXCEPT !.old = TRUE]
    BY <1>1, <1>2, <2>1
  <2>3. refreshes'[n].old
    BY <2>2 DEF Refreshes
  <2> QED
    BY <1>2, <1>3, <2>3 DEF Youngest
<1>4. CASE i = Len(refreshes) /\ Len(refreshes) = 1
  BY <1>2, <1>4
<1>5. CASE i # Len(refreshes)
  <2>1. Len(refreshes) - 1 \in 1 .. Len(refreshes) - 1 /\ Len(refreshes) - 1 >= i
    BY <1>1, <1>5
  <2>2. refreshes'[Len(refreshes) - 1] = refreshes[(Len(refreshes) - 1) + 1]
    BY <1>2, <2>1
  <2> QED
    BY <1>1, <1>2, <1>5, <2>1, <2>2 DEF Youngest
<1> QED
  BY <1>3, <1>4, <1>5

LEMMA YoungestLands ==
    ASSUME PanelAssumption, PanelTypes, NEW l \in 1 .. MaxLoads, Landed(l)
    PROVE  /\ Len(refreshes') = Len(refreshes)
           /\ Len(refreshes) # 0 =>
                 /\ Youngest'.on = IF Youngest.on = l THEN Nil ELSE Youngest.on
                 /\ Youngest'.pc = Youngest.pc /\ Youngest'.ref = Youngest.ref
                 /\ Youngest'.got = Youngest.got /\ (Youngest'.old <=> Youngest.old)
<1>1. DOMAIN refreshes = 1 .. Len(refreshes) /\ Len(refreshes) \in Nat
  BY DEF PanelTypes, RefreshInv
<1>2. Len(refreshes) # 0 => Len(refreshes) \in DOMAIN refreshes
  BY <1>1
<1>3. /\ Len(refreshes') = Len(refreshes)
      /\ \A j \in DOMAIN refreshes :
           /\ refreshes'[j].on = IF refreshes[j].on = l THEN Nil ELSE refreshes[j].on
           /\ refreshes'[j].pc = refreshes[j].pc /\ refreshes'[j].ref = refreshes[j].ref
           /\ refreshes'[j].got = refreshes[j].got /\ refreshes'[j].old = refreshes[j].old
  BY LandedBy DEF PanelTypes
<1> QED
  BY <1>2, <1>3 DEF Youngest

LEMMA DivergedStep ==
    ASSUME PanelTypes, DivergedInv, PanelNext
    PROVE  DivergedInv'
<1>1. base \in 1 .. Tip /\ Tip \in Nat /\ commits \in Seq(FileContents)
  BY DEF PanelTypes, BranchInv, Tip
<1>2. CASE RemotePush
  <2>1. Tip' = Tip + 1 /\ base' = base
    BY <1>1, <1>2 DEF RemotePush, Tip
  <2> QED
    BY <1>1, <2>1 DEF DivergedInv
<1>3. CASE Push
  <2>1. op.on = base /\ base' = base
    BY <1>3 DEF Push, PanelTypes, BranchInv
  <2> QED
    BY <1>3, <2>1 DEF Push, DivergedInv, Tip
<1>4. CASE Pull
  <2>1. UNCHANGED <<commits, base>> /\ (base = Tip => op' = Idle)
    BY <1>4 DEF Pull
  <2> QED
    BY <2>1 DEF DivergedInv, Idle, Tip
<1>5. CASE Save \/ Publish \/ SaveList \/ MergeStart \/ FastForward \/ MergeWrite
  <2>1. \/ op' = [pc |-> "lists", snap |-> FlushedText] \/ op' = [pc |-> "pushes", tree |-> FlushedText, on |-> base]
        \/ op' = [pc |-> "stores", list |-> <<op.snap>> \o saves] \/ op' = Idle
        \/ op' = [pc |-> "merges", at |-> Tip] \/ op' = [pc |-> "merged", at |-> op.at]
        \/ op' = [pc |-> "applied", at |-> op.at]
    BY <1>5 DEF Save, Publish, SaveList, MergeStart, FastForward, MergeWrite
  <2>2. op'.pc # "diverged"
    BY <2>1 DEF Idle
  <2> QED
    BY <2>2 DEF DivergedInv
<1>6. CASE Pushed \/ FastForwarded \/ Merged \/ (\E l \in 1 .. MaxLoads : SaveStore(l) \/ Cleared(l))
           \/ \E i \in 1 .. MaxSaves : RevertToSave(i)
  <2>1. op' = [pc |-> "clears"] \/ op' = Waiting(FALSE) \/ op' = Waiting(TRUE)
    BY <1>6 DEF Pushed, FastForwarded, Merged, SaveStore, Cleared, RevertToSave
  <2>2. op'.pc # "diverged"
    <3>1. CASE op' = [pc |-> "clears"]
      BY <3>1
    <3>2. CASE op' # [pc |-> "clears"]
      BY <2>1, <3>2, Made
    <3> QED
      BY <3>1, <3>2
  <2> QED
    BY <2>2 DEF DivergedInv
<1>7. ASSUME NEW i \in DOMAIN refreshes, RefreshDone(i) PROVE DivergedInv'
  <2>1. UNCHANGED <<commits, base>> /\ op' \in {op, Idle}
    BY <1>7 DEF RefreshDone
  <2> QED
    BY <2>1 DEF DivergedInv, Idle, Tip
<1>8. UNCHANGED <<op, commits, base>> => DivergedInv'
  BY DEF DivergedInv, Tip
<1> QED
  BY <1>2, <1>3, <1>4, <1>5, <1>6, <1>7, <1>8 DEF PanelNext, TypeText, SaveTab, Import, Refreshing,
     RefreshBegin, RefreshLook, RefreshHash, Working, Drop, Landed, DropStore, Reload, Polling, PollHead,
     PollTree, PollStart

LEMMA CacheStep ==
    ASSUME PanelAssumption, PanelTypes, CacheInv, PanelNext
    PROVE  CacheInv'
<1>1. /\ refreshes \in Seq(Refreshes) /\ Len(refreshes) \in Nat /\ DOMAIN refreshes = 1 .. Len(refreshes)
      /\ latest \in 0 .. MaxLoads /\ MaxLoads \in Nat \ {0}
  BY Bounds DEF PanelTypes, RefreshInv, SavesInv, DiskInv, Loading, Nil
\* The file, the cache and the reads under way stay.
<1> DEFINE SameReads == \A i \in DOMAIN refreshes' :
                           refreshes'[i].pc = "hashes" => \E j \in DOMAIN refreshes : /\ refreshes[j].pc = "hashes"
                                                                                   /\ refreshes[j].got = refreshes'[i].got
<1>2. ASSUME UNCHANGED <<file, cache, unsure>>, SameReads PROVE CacheInv'
  BY <1>2 DEF CacheInv
<1>3. ASSUME cache' = Nil, unsure' = Reading, SameReads PROVE CacheInv'
  BY <1>3 DEF CacheInv, Reading
<1>4. UNCHANGED refreshes => SameReads
  OBVIOUS
<1>5. ASSUME NEW awaited \in BOOLEAN, NEW l \in 0 .. MaxLoads, StartRefresh(awaited, l) PROVE SameReads
  <2>1. /\ DOMAIN refreshes' = 1 .. Len(refreshes) + 1
        /\ \A j \in DOMAIN refreshes : refreshes'[j] = refreshes[j]
        /\ refreshes'[Len(refreshes) + 1].pc = "waits"
    <3>1. refreshes' \in Seq(Refreshes) /\ Len(refreshes') = Len(refreshes) + 1
      BY <1>1, <1>5, StartedBy
    <3> QED
      BY <1>1, <1>5, <3>1, StartedBy
  <2> QED
    BY <1>1, <2>1
<1>6. CASE Save \/ Publish \/ Pull \/ MergeStart
  <2>1. SameReads
    BY <1>4, <1>6 DEF Save, Publish, Pull, MergeStart
  <2>2. \/ UNCHANGED <<file, cache, unsure>>
        \/ cache' = Nil /\ \E last \in BOOLEAN : unsure' = (Reading \/ last)
    BY <1>6 DEF Save, Publish, Pull, MergeStart, Flush
  <2>3. ASSUME cache' = Nil, NEW last \in BOOLEAN, unsure' = (Reading \/ last) PROVE CacheInv'
    BY <2>1, <2>3 DEF CacheInv, Reading
  <2> QED
    BY <1>2, <2>1, <2>2, <2>3
<1>7. CASE MergeWrite
  <2>1. SameReads
    BY <1>4, <1>7 DEF MergeWrite
  <2>2. UNCHANGED <<file, cache, unsure>> \/ (cache' = Nil /\ unsure' = Reading)
    BY <1>7 DEF MergeWrite, Write
  <2> QED
    BY <1>2, <1>3, <2>1, <2>2
<1>8. CASE SaveTab
  BY <1>1, <1>3, <1>5, <1>8 DEF SaveTab, Write
<1>9. ASSUME NEW i \in 1 .. MaxSaves, RevertToSave(i) PROVE CacheInv'
  BY <1>1, <1>3, <1>5, <1>9 DEF RevertToSave, Write
<1>10. CASE Import
  BY <1>10 DEF Import, CacheInv
<1>11. CASE FastForward
  BY <1>11 DEF FastForward, CacheInv, Reading
<1>12. ASSUME NEW i \in DOMAIN refreshes, RefreshBegin(i) PROVE CacheInv'
  <2>1. Moved(i) /\ refreshes'[i].pc = "lists"
    BY <1>12, MovedBy DEF PanelTypes
  <2> QED
    BY <1>2, <1>12, <2>1 DEF Moved, RefreshBegin
<1>13. ASSUME NEW i \in DOMAIN refreshes, RefreshLook(i) PROVE CacheInv'
  <2>1. Moved(i) /\ (refreshes'[i].pc = "hashes" => refreshes'[i].got = file)
    BY <1>13, MovedBy DEF PanelTypes
  <2>2. UNCHANGED <<file, cache, unsure>>
    BY <1>13 DEF RefreshLook
  <2> QED
    BY <2>1, <2>2 DEF Moved, CacheInv
<1>14. ASSUME NEW i \in DOMAIN refreshes, RefreshHash(i) PROVE CacheInv'
  <2>1. Moved(i) /\ refreshes'[i].pc = "done"
    BY <1>14, MovedBy DEF PanelTypes
  <2>2. UNCHANGED <<file, unsure>> /\ cache' = refreshes[i].got /\ refreshes[i].pc = "hashes"
    BY <1>14 DEF RefreshHash
  <2> QED
    BY <2>1, <2>2 DEF Moved, CacheInv
<1>15. ASSUME NEW i \in DOMAIN refreshes, RefreshDone(i) PROVE CacheInv'
  <2>1. UNCHANGED <<file, cache, unsure>>
    BY <1>15 DEF RefreshDone
  <2>2. SameReads
    <3>1. /\ DOMAIN refreshes' = 1 .. Len(refreshes) - 1
          /\ \A j \in 1 .. Len(refreshes) - 1 :
                /\ j < i => refreshes'[j] = [refreshes[j] EXCEPT !.old = TRUE]
                /\ j >= i => refreshes'[j] = refreshes[j + 1]
      <4>1. /\ refreshes' \in Seq(Refreshes) /\ Len(refreshes') = Len(refreshes) - 1
            /\ \A j \in 1 .. Len(refreshes) - 1 :
                  /\ j < i => refreshes'[j] = [refreshes[j] EXCEPT !.old = TRUE]
                  /\ j >= i => refreshes'[j] = refreshes[j + 1]
        BY <1>15, DoneBy DEF PanelTypes
      <4>2. DOMAIN refreshes' = 1 .. Len(refreshes) - 1
        BY <4>1
      <4> QED
        BY <4>1, <4>2
    <3> SUFFICES ASSUME NEW j \in 1 .. Len(refreshes) - 1, refreshes'[j].pc = "hashes"
                 PROVE  \E k \in DOMAIN refreshes : refreshes[k].pc = "hashes" /\ refreshes[k].got = refreshes'[j].got
      BY <3>1
    <3>2. j \in DOMAIN refreshes /\ j + 1 \in DOMAIN refreshes /\ refreshes[j] \in Refreshes
      BY <1>1
    <3>3. CASE j < i
      <4>1. refreshes'[j] = [refreshes[j] EXCEPT !.old = TRUE]
        BY <3>1, <3>3
      <4>2. refreshes[j].pc = "hashes" /\ refreshes[j].got = refreshes'[j].got
        BY <3>2, <4>1 DEF Refreshes
      <4> QED
        BY <3>2, <4>2
    <3>4. CASE j >= i
      BY <3>1, <3>2, <3>4
    <3> QED
      BY <1>1, <3>3, <3>4
  <2> QED
    BY <1>2, <2>1, <2>2
<1>16. ASSUME NEW l \in 1 .. MaxLoads, Landed(l) PROVE CacheInv'
  <2>1. /\ DOMAIN refreshes' = DOMAIN refreshes
        /\ \A j \in DOMAIN refreshes : refreshes'[j].pc = refreshes[j].pc /\ refreshes'[j].got = refreshes[j].got
    BY <1>1, <1>16, LandedBy DEF PanelTypes
  <2>2. UNCHANGED <<file, cache, unsure>>
    BY <1>16 DEF Landed
  <2> QED
    BY <1>2, <2>1, <2>2
<1>17. CASE FastForwarded \/ Merged \/ \E l \in 1 .. MaxLoads : SaveStore(l) \/ Cleared(l) \/ DropStore(l) \/ Reload(l)
  <2>1. \E awaited \in BOOLEAN, l \in 0 .. MaxLoads : StartRefresh(awaited, l)
    <3>1. CASE FastForwarded \/ Merged
      BY <1>1, <3>1 DEF FastForwarded, Merged
    <3>2. ASSUME NEW l \in 1 .. MaxLoads, SaveStore(l) \/ Cleared(l) \/ DropStore(l) \/ Reload(l)
          PROVE  StartRefresh(TRUE, l) \/ StartRefresh(FALSE, l)
      BY <3>2 DEF SaveStore, Cleared, DropStore, Reload
    <3>3. \A l \in 1 .. MaxLoads : l \in 0 .. MaxLoads
      BY <1>1
    <3> QED
      BY <1>17, <3>1, <3>2, <3>3
  <2>2. UNCHANGED <<file, cache, unsure>>
    BY <1>17 DEF FastForwarded, Merged, SaveStore, Cleared, DropStore, Reload
  <2> QED
    BY <1>2, <1>5, <2>1, <2>2
<1> QED
  BY <1>2, <1>4, <1>6, <1>7, <1>8, <1>9, <1>10, <1>11, <1>12, <1>13, <1>14, <1>15, <1>16, <1>17
     DEF PanelNext, Refreshing, Working, Polling, TypeText, RemotePush, SaveList, Push, Pushed, Drop, PollHead,
         PollTree, PollStart

LEMMA LatestStep ==
    ASSUME PanelAssumption, PanelTypes, LatestInv, PanelNext
    PROVE  LatestInv'
<1>1. /\ refreshes \in Seq(Refreshes) /\ Len(refreshes) \in Nat /\ DOMAIN refreshes = 1 .. Len(refreshes)
      /\ latest \in 0 .. MaxLoads /\ MaxLoads \in Nat \ {0} /\ DOMAIN loads = 1 .. MaxLoads
      /\ RefreshInv /\ strayed \in BOOLEAN
  BY Bounds DEF PanelTypes, RefreshInv, SavesInv, DiskInv, FlagInv, Loading, Nil
\* A refresh begins while the load it was called after is the latest.
<1>2. ASSUME NEW awaited \in BOOLEAN, StartRefresh(awaited, latest),
             UNCHANGED <<saves, pendingSaves, loads, latest, strayed>>
      PROVE  LatestInv'
  <2>1. Len(refreshes') # 0 /\ Youngest'.pc = "waits" /\ Youngest'.on = latest /\ ~Youngest'.old
    BY <1>1, <1>2, YoungestStarts
  <2> QED
    BY <1>2, <2>1 DEF LatestInv
\* A load begins, and a refresh after it.
<1>3. ASSUME NEW awaited \in BOOLEAN, NEW l \in 1 .. MaxLoads, StartLoad(l, saves'), StartRefresh(awaited, l)
      PROVE  LatestInv'
  <2>1. l \in 0 .. MaxLoads /\ l # Nil
    BY <1>1 DEF Nil
  <2>2. Len(refreshes') # 0 /\ Youngest'.pc = "waits" /\ Youngest'.on = l /\ ~Youngest'.old
    BY <1>1, <1>3, <2>1, YoungestStarts
  <2>3. latest' = l /\ loads'[l] = <<saves'>>
    BY <1>1, <1>3 DEF StartLoad
  <2> QED
    BY <2>1, <2>2, <2>3 DEF LatestInv
<1>4. UNCHANGED <<refreshes, saves, pendingSaves, loads, latest, strayed>> => LatestInv'
  BY DEF LatestInv, Youngest
<1>5. ASSUME NEW i \in DOMAIN refreshes, RefreshBegin(i) \/ RefreshLook(i) \/ RefreshHash(i) PROVE LatestInv'
  <2>1. Moved(i) /\ (i = Len(refreshes) => Youngest'.pc # "waits")
    <3>1. /\ Moved(i)
          /\ RefreshBegin(i) => refreshes'[i].pc = "lists"
          /\ RefreshLook(i) => refreshes'[i].pc \in {"done", "hashes"}
          /\ RefreshHash(i) => refreshes'[i].pc = "done"
      BY <1>5, MovedBy DEF PanelTypes
    <3> QED
      BY <1>5, <3>1 DEF Youngest, Moved
  <2>2. UNCHANGED <<saves, pendingSaves, loads, latest, strayed>>
    BY <1>5 DEF RefreshBegin, RefreshLook, RefreshHash
  <2>3. /\ Len(refreshes') = Len(refreshes) /\ Len(refreshes) # 0
        /\ (Youngest'.old <=> Youngest.old) /\ Youngest'.on = Youngest.on
        /\ Youngest' = Youngest \/ i = Len(refreshes)
    BY <2>1, YoungestMoves
  <2>4. i = Len(refreshes) /\ ~Youngest.old => latest = Nil
    <3>1. Youngest.pc = "waits" /\ i = Len(refreshes) => Youngest.on = Nil
      BY <1>5 DEF RefreshBegin, RefreshLook, RefreshHash, Youngest
    <3> QED
      BY <2>3, <3>1 DEF LatestInv
  <2> QED
    BY <2>1, <2>2, <2>3, <2>4 DEF LatestInv
<1>6. ASSUME NEW i \in DOMAIN refreshes, RefreshDone(i) PROVE LatestInv'
  <2>1. \/ i = Len(refreshes) /\ (Len(refreshes') = 0 \/ Youngest'.old)
        \/ i # Len(refreshes) /\ Len(refreshes') # 0 /\ Youngest' = Youngest
    BY <1>6, YoungestDone
  <2>2. UNCHANGED <<saves, pendingSaves, loads, latest, strayed>> /\ refreshes[i].pc = "done"
    BY <1>6 DEF RefreshDone
  <2>3. i = Len(refreshes) => latest = Nil
    BY <2>2 DEF LatestInv, Youngest
  <2>4. Len(refreshes) # 0
    BY <1>1
  <2> QED
    BY <2>1, <2>2, <2>3, <2>4 DEF LatestInv
<1>7. ASSUME NEW l \in 1 .. MaxLoads, Landed(l) PROVE LatestInv'
  <2>1. /\ Len(refreshes') = Len(refreshes)
        /\ Len(refreshes) # 0 =>
              /\ Youngest'.on = IF Youngest.on = l THEN Nil ELSE Youngest.on
              /\ Youngest'.pc = Youngest.pc /\ (Youngest'.old <=> Youngest.old)
    BY <1>7, YoungestLands
  <2>2. CASE latest = l
    <3>1. loads[l] = <<saves>>
      BY <1>1, <2>2 DEF LatestInv, Nil
    <3>2. pendingSaves' = saves' /\ latest' = Nil
      BY <1>7, <2>2, <3>1 DEF Landed
    <3> QED
      BY <2>1, <2>2, <3>2 DEF LatestInv
  <2>3. CASE latest # l
    <3>1. /\ latest' = latest /\ saves' = saves /\ (latest # Nil => loads'[latest] = loads[latest])
          /\ (latest = Nil => strayed')
      BY <1>1, <1>7, <2>3 DEF Landed
    <3> QED
      BY <2>1, <2>3, <3>1 DEF LatestInv
  <2> QED
    BY <2>2, <2>3
<1>8. CASE SaveTab \/ FastForwarded \/ Merged \/ \E i \in 1 .. MaxSaves : RevertToSave(i)
  BY <1>2, <1>8 DEF SaveTab, FastForwarded, Merged, RevertToSave
<1>9. ASSUME NEW l \in 1 .. MaxLoads, SaveStore(l) PROVE LatestInv'
  BY <1>3, <1>9 DEF SaveStore
<1>10. ASSUME NEW l \in 1 .. MaxLoads, Cleared(l) PROVE LatestInv'
  BY <1>3, <1>10 DEF Cleared
<1>11. ASSUME NEW l \in 1 .. MaxLoads, DropStore(l) PROVE LatestInv'
  BY <1>3, <1>11 DEF DropStore
<1>12. ASSUME NEW l \in 1 .. MaxLoads, Reload(l) PROVE LatestInv'
  BY <1>3, <1>12 DEF Reload
<1> QED
  BY <1>4, <1>5, <1>6, <1>7, <1>8, <1>9, <1>10, <1>11, <1>12
     DEF PanelNext, Refreshing, Working, Polling, TypeText, Import, RemotePush, Save, Publish, Pull, SaveList, Push,
         Pushed, FastForward, MergeStart, MergeWrite, Drop, PollHead, PollTree, PollStart

LEMMA BadgeStep ==
    ASSUME PanelAssumption, PanelTypes, LatestInv, CacheInv, DivergedInv, BadgeInv, PanelNext
    PROVE  BadgeInv'
<1>1. /\ refreshes \in Seq(Refreshes) /\ Len(refreshes) \in Nat /\ DOMAIN refreshes = 1 .. Len(refreshes)
      /\ latest \in 0 .. MaxLoads /\ MaxLoads \in Nat \ {0} /\ RefreshInv
      /\ base \in 1 .. Tip /\ unsure \in BOOLEAN /\ overtaken \in BOOLEAN
  BY Bounds DEF PanelTypes, RefreshInv, SavesInv, DiskInv, BranchInv, FlagInv, Loading, Nil
\* A refresh has just been called, or is still to be; or the file changed unannounced.
<1>2. ASSUME NEW awaited \in BOOLEAN, NEW l \in 0 .. MaxLoads, StartRefresh(awaited, l) PROVE BadgeInv'
  <2>1. Len(refreshes') # 0 /\ Youngest'.pc = "waits"
    BY <1>1, <1>2, YoungestStarts
  <2> QED
    BY <2>1 DEF BadgeInv
<1>3. Unrefreshed' \/ unsure' => BadgeInv'
  BY DEF BadgeInv
\* Nothing that matters changes.
<1>4. ASSUME UNCHANGED <<refreshes, modified, file, saves, base, unsure, strayed, overtaken>>, op' = op PROVE BadgeInv'
  <2>1. Synced' = Synced
    BY <1>1, <1>4, CommitsStay DEF PanelTypes, Synced
  <2>2. Reference' = Reference /\ Youngest' = Youngest /\ Unrefreshed' = Unrefreshed
    BY <1>4, <2>1 DEF Reference, Youngest, Unrefreshed
  <2> QED
    BY <1>4, <2>2 DEF BadgeInv
<1>5. CASE SaveTab \/ FastForwarded \/ Merged \/ \E i \in 1 .. MaxSaves : RevertToSave(i)
  <2>1. \E awaited \in BOOLEAN : StartRefresh(awaited, latest)
    BY <1>5 DEF SaveTab, FastForwarded, Merged, RevertToSave
  <2> QED
    BY <1>1, <1>2, <2>1
<1>6. ASSUME NEW l \in 1 .. MaxLoads, SaveStore(l) \/ Cleared(l) \/ DropStore(l) \/ Reload(l) PROVE BadgeInv'
  <2>1. StartRefresh(TRUE, l) \/ StartRefresh(FALSE, l)
    BY <1>6 DEF SaveStore, Cleared, DropStore, Reload
  <2>2. l \in 0 .. MaxLoads
    BY <1>1
  <2> QED
    BY <1>2, <2>1, <2>2
<1>7. CASE Save \/ SaveList \/ Push \/ Pushed \/ FastForward \/ MergeStart \/ MergeWrite
  <2>1. \/ op' = [pc |-> "lists", snap |-> FlushedText] \/ op' = [pc |-> "stores", list |-> <<op.snap>> \o saves]
        \/ op' = [pc |-> "pushed", at |-> Tip + 1] \/ op' = [pc |-> "diverged"] \/ op' = [pc |-> "clears"]
        \/ op' = [pc |-> "applied", at |-> op.at] \/ op' = [pc |-> "merges", at |-> Tip]
        \/ op' = [pc |-> "merged", at |-> op.at]
    BY <1>7 DEF Save, SaveList, Push, Pushed, FastForward, MergeStart, MergeWrite, DivergedInv
  <2>2. op'.pc \notin {"idle", "status"}
    BY <2>1
  <2> QED
    BY <1>3, <2>2 DEF Unrefreshed
<1>8. CASE Publish \/ Pull
  <2>1. /\ op = Idle /\ UNCHANGED <<refreshes, modified, saves, base, strayed, overtaken>>
        /\ \/ Flush(TRUE) /\ op' = Idle
           \/ op' = [pc |-> "pushes", tree |-> FlushedText, on |-> base]
           \/ op' = [pc |-> "applies", at |-> Tip] \/ op' = [pc |-> "diverged"]
    BY <1>8 DEF Publish, Pull, Enabled
  <2>2. CASE Flush(TRUE) /\ op' = Idle
    <3>1. UNCHANGED <<file, unsure>> \/ unsure'
      BY <2>2 DEF Flush
    <3> QED
      BY <1>3, <1>4, <2>1, <2>2, <3>1
  <2>3. CASE ~(Flush(TRUE) /\ op' = Idle)
    <3>1. \/ op' = [pc |-> "pushes", tree |-> FlushedText, on |-> base]
          \/ op' = [pc |-> "applies", at |-> Tip] \/ op' = [pc |-> "diverged"]
      BY <2>1, <2>3
    <3>2. op'.pc \notin {"idle", "status"}
      BY <3>1
    <3> QED
      BY <1>3, <3>2 DEF Unrefreshed
  <2> QED
    BY <2>2, <2>3
<1>9. CASE Import
  BY <1>3, <1>9 DEF Import
\* A refresh goes on.
<1>10. ASSUME NEW i \in DOMAIN refreshes, RefreshBegin(i) \/ RefreshLook(i) \/ RefreshHash(i) PROVE BadgeInv'
  <2>1. /\ Moved(i)
        /\ RefreshBegin(i) => /\ refreshes'[i].pc = "lists"
                              /\ refreshes'[i].ref = IF pendingSaves # <<>> THEN Head(pendingSaves) ELSE Synced
        /\ RefreshLook(i) => /\ refreshes'[i].ref = refreshes[i].ref
                             /\ cache # Nil => refreshes'[i].pc = "done" /\ refreshes'[i].got = cache
                             /\ cache = Nil => refreshes'[i].pc = "hashes" /\ refreshes'[i].got = file
        /\ RefreshHash(i) => /\ refreshes'[i].ref = refreshes[i].ref /\ refreshes'[i].got = refreshes[i].got
                             /\ refreshes'[i].pc = "done"
    BY <1>10, MovedBy DEF PanelTypes
  <2>2. UNCHANGED <<modified, file, saves, base, unsure, strayed, overtaken, op, commits>>
    BY <1>10 DEF RefreshBegin, RefreshLook, RefreshHash
  <2>3. /\ Len(refreshes') = Len(refreshes) /\ Len(refreshes) # 0 /\ (Youngest'.old <=> Youngest.old)
        /\ Youngest' = Youngest \/ i = Len(refreshes)
    BY <2>1, YoungestMoves
  <2>4. Reference' = Reference /\ Unrefreshed' = Unrefreshed
    BY <2>2 DEF Reference, Unrefreshed, Synced
  <2> SUFFICES ASSUME ~unsure, ~strayed, ~Unrefreshed, ~Youngest.old
               PROVE  /\ Youngest'.pc \in {"lists", "hashes", "done"} => Youngest'.ref = Reference
                      /\ Youngest'.pc \in {"hashes", "done"} => Youngest'.got = file
    BY <2>2, <2>3, <2>4 DEF BadgeInv
  <2>5. CASE Youngest' = Youngest
    BY <2>3, <2>5 DEF BadgeInv
  <2>6. CASE i = Len(refreshes)
    <3>1. Youngest = refreshes[i] /\ Youngest' = refreshes'[i]
      BY <2>3, <2>6 DEF Youngest
    <3>2. CASE RefreshBegin(i)
      <4>1. Youngest.pc = "waits" /\ Youngest.on = Nil
        BY <3>1, <3>2 DEF RefreshBegin
      <4>2. pendingSaves = saves
        BY <2>3, <4>1 DEF LatestInv
      <4> QED
        BY <2>1, <3>1, <3>2, <4>2 DEF Reference
    <3>3. CASE RefreshLook(i)
      <4>1. Youngest.pc = "lists"
        BY <3>1, <3>3 DEF RefreshLook
      <4>2. Youngest.ref = Reference /\ cache \in {Nil, file}
        BY <2>3, <4>1 DEF BadgeInv, CacheInv
      <4> QED
        BY <2>1, <3>1, <3>3, <4>2
    <3>4. CASE RefreshHash(i)
      <4>1. Youngest.pc = "hashes"
        BY <3>1, <3>4 DEF RefreshHash
      <4>2. Youngest.ref = Reference /\ Youngest.got = file
        BY <2>3, <4>1 DEF BadgeInv
      <4> QED
        BY <2>1, <3>1, <3>4, <4>2
    <3> QED
      BY <1>10, <3>2, <3>3, <3>4
  <2> QED
    BY <2>3, <2>5, <2>6
\* A refresh ends: the one called last, or an older one.
<1>11. ASSUME NEW i \in DOMAIN refreshes, RefreshDone(i) PROVE BadgeInv'
  <2>1. \/ i = Len(refreshes) /\ (Len(refreshes') = 0 \/ Youngest'.old)
        \/ i # Len(refreshes) /\ Len(refreshes') # 0 /\ Youngest' = Youngest
    BY <1>11, YoungestDone
  <2>2. /\ UNCHANGED <<file, saves, base, unsure, strayed, commits>> /\ refreshes[i].pc = "done"
        /\ modified' = (refreshes[i].got # refreshes[i].ref) /\ overtaken' = refreshes[i].old
        /\ op' = (IF refreshes[i].op THEN Idle ELSE op)
    BY <1>11 DEF RefreshDone
  <2>3. Reference' = Reference /\ (Unrefreshed => Unrefreshed')
    <3>1. refreshes[i].op => ~Unrefreshed
      BY <1>1 DEF RefreshInv, Unrefreshed
    <3> QED
      BY <2>2, <3>1 DEF Reference, Unrefreshed, Synced
  <2>4. Len(refreshes) # 0
    BY <1>1
  <2>5. CASE i = Len(refreshes)
    <3>1. Youngest = refreshes[i]
      BY <2>5 DEF Youngest
    <3> QED
      BY <2>1, <2>2, <2>3, <2>4, <2>5, <3>1 DEF BadgeInv
  <2>6. CASE i # Len(refreshes)
    BY <2>1, <2>2, <2>3, <2>4, <2>6 DEF BadgeInv
  <2> QED
    BY <2>5, <2>6
\* A load lands: the latest, for which the refresh called last still waits, or another.
<1>12. ASSUME NEW l \in 1 .. MaxLoads, Landed(l) PROVE BadgeInv'
  <2>1. /\ Len(refreshes') = Len(refreshes)
        /\ Len(refreshes) # 0 =>
              /\ Youngest'.pc = Youngest.pc /\ Youngest'.ref = Youngest.ref
              /\ Youngest'.got = Youngest.got /\ (Youngest'.old <=> Youngest.old)
    BY <1>12, YoungestLands
  <2>2. UNCHANGED <<modified, file, saves, base, unsure, overtaken, op, commits>>
    BY <1>12 DEF Landed
  <2>3. Reference' = Reference /\ Unrefreshed' = Unrefreshed
    BY <2>2 DEF Reference, Unrefreshed, Synced
  <2>4. CASE latest = l
    <3>1. Len(refreshes) # 0 /\ Youngest.pc = "waits"
      BY <2>4, <1>1 DEF LatestInv, Nil
    <3> QED
      BY <2>1, <3>1 DEF BadgeInv
  <2>5. CASE latest # l
    <3>1. strayed' \/ strayed' = strayed
      BY <1>12, <2>5 DEF Landed
    <3> QED
      BY <2>1, <2>2, <2>3, <3>1 DEF BadgeInv
  <2> QED
    BY <2>4, <2>5
<1> QED
  BY <1>4, <1>5, <1>6, <1>7, <1>8, <1>9, <1>10, <1>11, <1>12
     DEF PanelNext, Refreshing, Working, Polling, TypeText, RemotePush, Drop, PollHead, PollTree, PollStart

\* The inductive invariant.
PanelInv == PanelTypes /\ LatestInv /\ CacheInv /\ DivergedInv /\ BadgeInv

\* When everything has settled the file is listed as modified if, and only if, it
\* differs from the latest save, or from the base: every write, save, publish, pull and
\* merge calls a refresh after it, that refresh waits for the load of the saves, and
\* reads a cache that the write has emptied (refreshStatus, refreshSaves, HashCache).
THEOREM BadgeIsRightHolds == ASSUME PanelAssumption PROVE PanelSpec => []BadgeIsRight
<1>1. PanelInv => BadgeIsRight
  <2> SUFFICES ASSUME PanelInv, AllQuiet, ~unsure, ~overtaken, ~strayed
               PROVE  modified = (file # Reference)
    BY DEF BadgeIsRight, Reference
  <2>1. Len(refreshes) = 0 /\ ~Unrefreshed
    BY DEF AllQuiet, Unrefreshed, Idle
  <2> QED
    BY <2>1 DEF PanelInv, BadgeInv
<1>2. PanelInit => PanelInv
  <2> SUFFICES ASSUME PanelInit PROVE PanelInv
    OBVIOUS
  <2>1. /\ Len(refreshes) = 0 /\ DOMAIN refreshes = {} /\ latest = Nil /\ saves = <<>> /\ pendingSaves = <<>>
        /\ cache = Nil /\ op.pc = "idle" /\ modified = FALSE /\ file = 1 /\ Synced = 1
    BY DEF PanelInit, Idle, Synced
  <2> QED
    BY <2>1, PanelTypesInit DEF PanelInv, LatestInv, CacheInv, DivergedInv, BadgeInv, Reference
<1>3. PanelInv /\ [PanelNext]_panelVars => PanelInv'
  <2> SUFFICES ASSUME PanelInv, [PanelNext]_panelVars PROVE PanelInv'
    OBVIOUS
  <2>1. PanelTypes'
    BY PanelTypesStep DEF PanelInv
  <2>2. CASE PanelNext
    BY <2>1, <2>2, LatestStep, CacheStep, DivergedStep, BadgeStep DEF PanelInv
  <2>3. CASE UNCHANGED panelVars
    <3>1. UNCHANGED <<file, cache, unsure, saves, pendingSaves, loads, latest, strayed, commits, base, refreshes,
                      modified, op, overtaken>>
      BY <2>3 DEF panelVars
    <3>2. LatestInv' /\ CacheInv' /\ DivergedInv'
      BY <3>1 DEF PanelInv, LatestInv, CacheInv, DivergedInv, Youngest, Tip
    <3>3. Reference' = Reference /\ Youngest' = Youngest /\ Unrefreshed' = Unrefreshed
      BY <3>1 DEF Reference, Youngest, Unrefreshed, Synced
    <3>4. BadgeInv'
      BY <3>1, <3>3 DEF PanelInv, BadgeInv
    <3> QED
      BY <2>1, <3>2, <3>4 DEF PanelInv
  <2> QED
    BY <2>2, <2>3
<1> QED
  BY <1>1, <1>2, <1>3, PTL DEF PanelSpec
=============================================================================
