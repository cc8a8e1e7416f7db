---------------------------- MODULE SharingProofs ----------------------------
(***************************************************************************)
(* Proofs about Sharing, for any users, paths, edits and commits, and any  *)
(* circumstances: types are respected, no edit is lost that nobody         *)
(* discarded, and the branch is the one SharedBranch promises.  The        *)
(* argument is per user and path: an edit that is not discarded only ever  *)
(* moves to a place that has all the edits of the place it left.           *)
(***************************************************************************)
EXTENDS Sharing, TLAPS

-----------------------------------------------------------------------------
(* The inductive invariant. *)

\* The edits of a content that nobody discarded.
Live(content) == (content \cap Edits) \ dropped

OpRecs ==
    [pc : {"idle", "diverged"}]
    \cup [pc : {"upload"}, live : Trees, on : Nat, back : Nat]
    \cup [pc : {"push"}, tree : Trees, on : Nat, back : Nat]
    \cup [pc : {"pushed"}, at : Nat, back : Nat]
    \cup [pc : {"ff", "restore"}, at : Nat, back : Nat, todo : SUBSET Paths, here : SUBSET Paths]
    \cup [pc : {"merge"}, at : Nat, todo : SUBSET Paths, here : SUBSET Paths,
          cur : [path : SUBSET Paths, was : Contents], touched : SUBSET Paths]
    \cup [pc : {"after"}, touched : SUBSET Paths]

\* What an operation refers to exists.
OpRefers(u) ==
    /\ op[u].pc \in {"upload", "push"} => op[u].on \in 1 .. Tip
    /\ op[u].pc \in {"upload", "push", "pushed"} => op[u].back \in 0 .. Tip
    /\ op[u].pc \in {"ff", "restore"} => op[u].back \in 1 .. Tip
    /\ op[u].pc = "ff" => op[u].back = op[u].at
    /\ op[u].pc \in {"pushed", "ff", "restore", "merge"} => op[u].at \in base[u] .. Tip
    /\ op[u].pc \in {"upload", "push"} /\ op[u].back = 0 => op[u].on = base[u]
    /\ op[u].pc = "merge" => \/ op[u].cur = NoPath
                             \/ \E p \in world.paths \ op[u].todo : op[u].cur.path = {p}

OpTypes == op \in [Users -> OpRecs] /\ \A u \in Users : OpRefers(u)

Types ==
    /\ TypeOK
    /\ world \in [paths : SUBSET Paths, deletable : SUBSET Paths, restless : BOOLEAN,
                  restoring : BOOLEAN, failing : Nat]
    /\ Tip > 0
    /\ Len(made) <= MaxEdits
    /\ OpTypes

\* A path that is not in use: user u does not have it.
Outside(u, p) ==
    /\ disk[u][p] = Absent /\ p \notin unsaved[u]
    /\ op[u].pc = "upload" => op[u].live[p] = Absent
    /\ op[u].pc = "push" => op[u].tree[p] = Absent

\* Paths that are not in use stay so.
Fenced ==
    \A p \in Paths \ world.paths :
        (\A i \in 1 .. Tip : commits[i][p] = Absent) /\ \A u \in Users : Outside(u, p)

\* A binary is never open in an editor.
NoEditor == \A u \in Users, p \in Paths \ Texts : buf[u][p] = Absent

\* A later commit has what an earlier one had.
CommitsGrow(p) ==
    \A i, j \in 1 .. Tip : i <= j => Live(commits[i][p]) \subseteq commits[j][p]

\* Paths whose file a pull or a restore may have changed under an open tab.
Rewritten(u) ==
    CASE op[u].pc \in {"ff", "restore"} -> Paths \ op[u].todo
      [] op[u].pc \in {"merge", "after"} -> op[u].touched
      [] op[u].pc \in {"upload", "push", "pushed"} ->
            IF op[u].back = 0 THEN {} ELSE Here(commits[op[u].back])
      [] OTHER -> {}

\* User and path at rest: base, working tree and open tab agree on what is live.
Agree(u, p) ==
    /\ Live(Base(u)[p]) \subseteq disk[u][p] \cup copies[u][p]
    /\ buf[u][p] # Absent /\ p \notin Rewritten(u) => Live(disk[u][p]) \subseteq buf[u][p]
    /\ p \notin unsaved[u] => Live(buf[u][p]) \subseteq disk[u][p]
    /\ Pulling(u) => p \notin unsaved[u]
    /\ Live(copies[u][p]) \subseteq commits[Tip][p]

\* A commit on its way: it has what its parent had, and is still in the tree.
Carries(u, p, tree) ==
    /\ Live(tree[p]) \subseteq disk[u][p]
    /\ op[u].back = 0 => Live(Base(u)[p]) \subseteq tree[p] \cup copies[u][p]
    /\ op[u].back # 0 => commits[op[u].back][p] \cap Edits \subseteq tree[p] \cap disk[u][p]

\* A tree on its way to the disk.
Writing(u, p) ==
    LET want == commits[op[u].back][p] IN
    /\ p \notin op[u].here /\ p \in op[u].todo => disk[u][p] \cap Edits = {}
    /\ IF p \in op[u].todo THEN Live(disk[u][p]) \subseteq want
                           ELSE disk[u][p] \cap Edits = want \cap Edits

\* A merge on its way.
Merging(u, p) ==
    /\ p \in op[u].todo /\ p \notin op[u].here => disk[u][p] \cap Edits = {}
    /\ p \in op[u].cur.path =>
        /\ op[u].cur.was \cap Edits = disk[u][p] \cap Edits
        /\ p \notin op[u].here => disk[u][p] \cap Edits = {}
    /\ p \notin op[u].todo \cup op[u].cur.path =>
        Live(commits[op[u].at][p]) \subseteq disk[u][p] \cup copies[u][p]

Underway(u, p) ==
    /\ op[u].pc = "upload" => Carries(u, p, op[u].live)
    /\ op[u].pc = "push" => Carries(u, p, op[u].tree)
    /\ op[u].pc = "pushed" => Live(commits[op[u].at][p]) \subseteq disk[u][p] \cup copies[u][p]
    /\ op[u].pc \in {"ff", "restore"} => Writing(u, p)
    /\ op[u].pc = "merge" => Merging(u, p)

\* All that holds of a path that is not torn.
Held(p) == CommitsGrow(p) /\ \A u \in Users : Agree(u, p) /\ Underway(u, p)

IInv ==
    /\ Types
    /\ Fenced
    /\ NoEditor
    /\ \A p \in Paths \ torn : Held(p)
    /\ EditsSurvive

-----------------------------------------------------------------------------
(* Lemmas about contents and records of operations. *)

\* A missing file has no edits.
LEMMA AbsentIsBare == Absent \in Contents /\ Absent \cap Edits = {} /\ Marker \notin Absent
BY SharingAssumption DEF Absent, Contents, Edits, Marker

\* What is made of contents is a content.
LEMMA ContentsMade ==
    ASSUME NEW c \in Contents, NEW d \in Contents, NEW b \in Contents,
           b # Absent, c # Absent, d # Absent, NEW id \in Edits
    PROVE  /\ Merge3(b, c, d) \in Contents /\ Marked(c, d) \in Contents
           /\ c \ {Marker} \in Contents /\ c \cup {id} \in Contents
<1>1. c \subseteq Edits \cup {Marker} /\ d \subseteq Edits \cup {Marker}
  BY DEF Contents
<1> QED
  BY <1>1 DEF Contents, Merge3, Marked

LEMMA ContentsWritten ==
    ASSUME NEW c \in Contents, NEW id \in Edits
    PROVE  (c \ Absent) \cup {id} \in Contents /\ {id} \in Contents
BY SharingAssumption DEF Contents, Absent, Edits, Marker

\* The records an operation may be.
LEMMA OpMade ==
    ASSUME NEW tree \in Trees, NEW on \in Nat, NEW at \in Nat, NEW back \in Nat,
           NEW todo \in SUBSET Paths, NEW here \in SUBSET Paths, NEW touched \in SUBSET Paths,
           NEW cur \in [path : SUBSET Paths, was : Contents]
    PROVE  /\ Idle \in OpRecs /\ [pc |-> "diverged"] \in OpRecs
           /\ Commit(tree, on, back) \in OpRecs
           /\ [pc |-> "push", tree |-> tree, on |-> on, back |-> back] \in OpRecs
           /\ [pc |-> "pushed", at |-> at, back |-> back] \in OpRecs
           /\ \A why \in {"ff", "restore"} :
                [pc |-> why, at |-> at, back |-> back, todo |-> todo, here |-> here] \in OpRecs
           /\ [pc |-> "merge", at |-> at, todo |-> todo, here |-> here, cur |-> cur,
               touched |-> touched] \in OpRecs
           /\ [pc |-> "after", touched |-> touched] \in OpRecs
BY DEF OpRecs, Idle, Commit

\* What an operation's record holds, by its kind.
LEMMA OpKinds ==
    ASSUME NEW o \in OpRecs
    PROVE  /\ o.pc = "upload" => o \in [pc : {"upload"}, live : Trees, on : Nat, back : Nat]
           /\ o.pc = "push" => o \in [pc : {"push"}, tree : Trees, on : Nat, back : Nat]
           /\ o.pc = "pushed" => o \in [pc : {"pushed"}, at : Nat, back : Nat]
           /\ o.pc \in {"ff", "restore"} =>
                o \in [pc : {"ff", "restore"}, at : Nat, back : Nat, todo : SUBSET Paths,
                      here : SUBSET Paths]
           /\ o.pc = "merge" =>
                o \in [pc : {"merge"}, at : Nat, todo : SUBSET Paths, here : SUBSET Paths,
                      cur : [path : SUBSET Paths, was : Contents], touched : SUBSET Paths]
           /\ o.pc = "after" => o \in [pc : {"after"}, touched : SUBSET Paths]
BY DEF OpRecs

-----------------------------------------------------------------------------
(* Types are respected. *)

\* One file of one user is written.
LEMMA FileWritten ==
    ASSUME NEW trees \in [Users -> Trees], NEW u \in Users, NEW p \in Paths, NEW c \in Contents,
           NEW now, now = [trees EXCEPT ![u][p] = c]
    PROVE  /\ now \in [Users -> Trees]
           /\ now[u][p] = c
           /\ \A v \in Users, q \in Paths : v # u \/ q # p => now[v][q] = trees[v][q]
BY DEF Trees

LEMMA FlushedIsTree ==
    ASSUME Types, NEW u \in Users
    PROVE  Flushed(u) \in Trees
BY DEF Types, TypeOK, Flushed, Trees

\* A user's operation becomes another one; the others' operations refer to what
\* they referred to.
LEMMA OpBecomes ==
    ASSUME Types, NEW u \in Users, NEW o \in OpRecs, Become(u, o),
           Tip' \in Nat, Tip <= Tip', world'.paths = world.paths,
           \A v \in Users \ {u} : base'[v] = base[v],
           OpRefers(u)'
    PROVE  OpTypes'
<1>1. op' \in [Users -> OpRecs] /\ \A v \in Users \ {u} : op'[v] = op[v]
  BY DEF Become, Types, OpTypes
<1>2. ASSUME NEW v \in Users \ {u}
      PROVE  OpRefers(v)'
  <2>1. OpRefers(v) /\ op'[v] = op[v] /\ base'[v] = base[v] /\ Tip \in Nat
    BY <1>1 DEF Types, OpTypes, TypeOK, Tip
  <2>2. base[v] \in Nat
    BY DEF Types, TypeOK, Tip
  <2>3. op[v] \in OpRecs
    BY DEF Types, OpTypes
  <2> QED
    BY <2>1, <2>2, <2>3, OpKinds DEF OpRefers
<1> QED
  BY <1>1, <1>2 DEF OpTypes

LEMMA OpStays ==
    ASSUME Types, op' = op, base' = base, commits' = commits, world'.paths = world.paths
    PROVE  OpTypes'
BY DEF Types, OpTypes, OpRefers, Tip

\* The clause of TypeOK about operations.
LEMMA AtRefers ==
    ASSUME NEW o \in OpRecs, NEW b, NEW t,
           o.pc \in {"pushed", "ff", "restore", "merge"} => o.at \in b .. t,
           "at" \in DOMAIN o
    PROVE  o.at \in b .. t
BY DEF OpRecs

\* Types, but for what an operation's record holds.
PlainTypes ==
    /\ commits \in Seq(Trees) /\ Tip > 0
    /\ base \in [Users -> 1 .. Tip]
    /\ disk \in [Users -> Trees] /\ buf \in [Users -> Trees]
    /\ copies \in [Users -> Trees]
    /\ unsaved \in [Users -> SUBSET Texts]
    /\ \A u \in Users : \A p \in unsaved[u] : buf[u][p] # Absent
    /\ made \in Seq(Paths) /\ Len(made) <= MaxEdits
    /\ dropped \subseteq Edits /\ torn \subseteq Paths
    /\ world \in [paths : SUBSET Paths, deletable : SUBSET Paths, restless : BOOLEAN,
                  restoring : BOOLEAN, failing : Nat]

LEMMA TypesSplit == Types <=> PlainTypes /\ OpTypes
<1>1. ASSUME PlainTypes, OpTypes, NEW u \in Users,
             "at" \in DOMAIN op[u]
      PROVE  op[u].at \in base[u] .. Tip
  <2>1. op[u] \in OpRecs /\ (op[u].pc \in {"pushed", "ff", "restore", "merge"} =>
                                op[u].at \in base[u] .. Tip)
    BY <1>1 DEF OpTypes, OpRefers
  <2> QED
    BY <1>1, <2>1, AtRefers
<1> QED
  BY <1>1 DEF Types, PlainTypes, TypeOK

LEMMA TypesInit == Init => Types
<1> SUFFICES ASSUME Init PROVE Types
  OBVIOUS
<1>1. commits[1] \in Trees /\ commits = <<commits[1]>> /\ Tip = 1
  BY AbsentIsBare DEF Init, Trees, Contents, Tip
<1>2. PlainTypes
  <2>1. world \in Worlds /\ Worlds \subseteq [paths : SUBSET Paths, deletable : SUBSET Paths,
            restless : BOOLEAN, restoring : BOOLEAN, failing : Nat]
    BY SharingAssumption DEF Init
  <2>2. commits \in Seq(Trees) /\ Tip \in Nat
    BY <1>1 DEF Tip
  <2>5. base \in [Users -> 1 .. Tip] /\ disk \in [Users -> Trees]
    <3>1. /\ base = [u \in Users |-> 1] /\ disk = [u \in Users |-> commits[1]]
          /\ commits[1] \in Trees /\ Tip = 1
      BY <1>1, Zenon DEF Init
    <3> QED
      BY <3>1
  <2>6. /\ unsaved \in [Users -> SUBSET Texts] /\ \A u \in Users : unsaved[u] = {}
        /\ dropped = {} /\ torn = {}
    BY DEF Init
  <2>3. buf \in [Users -> Trees] /\ copies \in [Users -> Trees]
    BY AbsentIsBare DEF Init, Trees, Contents
  <2>4. made \in Seq(Paths) /\ Len(made) <= MaxEdits
    BY SharingAssumption DEF Init
  <2> QED
    BY <1>1, <2>1, <2>2, <2>3, <2>4, <2>5, <2>6 DEF PlainTypes
<1>3. OpTypes
  <2>1. Idle \in OpRecs
    BY DEF OpRecs, Idle
  <2> QED
    BY <2>1 DEF Init, OpTypes, OpRefers, Idle
<1> QED
  BY <1>2, <1>3, TypesSplit

\* What the user does in the editor, and to files.
LEMMA TypesEditing ==
    ASSUME Types, NEW u \in Users, NEW p \in Paths, Edit(u, p)
    PROVE  Types'
<1> USE DEF PlainTypes, Trees
<1>0. PlainTypes
  BY TypesSplit
<1>1. op' = op /\ base' = base /\ commits' = commits /\ world' = world
  BY Zenon DEF Edit, Open, Type, Replace, AutoSave, Delete, Revert, ResolveText, ResolveCopy
<1>2. OpTypes'
  BY <1>1, OpStays, Zenon
<1>3. CASE Open(u, p)
  <2>1. PlainTypes'
    BY <1>0, <1>3 DEF Open, Tip
  <2> QED
    BY <1>2, <2>1, TypesSplit, PTL
<1>4. CASE Type(u, p)
  <2>1. /\ Len(made) + 1 \in Edits /\ made' = Append(made, p) /\ made' \in Seq(Paths)
        /\ Len(made') <= MaxEdits
    BY <1>0, <1>4, SharingAssumption DEF Type, Edits
  <2>2. buf[u][p] \in Contents
    BY <1>0
  <2>3. (IF buf[u][p] = Absent THEN {Len(made) + 1} ELSE buf[u][p] \cup {Len(made) + 1})
            \in Contents \ {Absent}
    BY <2>1, <2>2, SharingAssumption DEF Contents, Absent, Edits, Marker
  <2>4. PlainTypes'
    BY <1>0, <1>4, <2>1, <2>3 DEF Type, Tip
  <2> QED
    BY <1>2, <2>4, TypesSplit, PTL
<1>5. CASE Replace(u, p)
  <2>1. /\ Len(made) + 1 \in Edits /\ made' = Append(made, p) /\ made' \in Seq(Paths)
        /\ Len(made') <= MaxEdits
    BY <1>0, <1>5, SharingAssumption DEF Replace, Edits
  <2>2. disk[u][p] \in Contents
    BY <1>0
  <2>3. (disk[u][p] \ Absent) \cup {Len(made) + 1} \in Contents
    BY <2>1, <2>2, ContentsWritten
  <2>4. PlainTypes'
    BY <1>0, <1>5, <2>1, <2>3 DEF Replace, Tip
  <2> QED
    BY <1>2, <2>4, TypesSplit, PTL
<1>6. CASE AutoSave(u, p)
  <2>1. PlainTypes'
    BY <1>0, <1>6 DEF AutoSave, Tip
  <2> QED
    BY <1>2, <2>1, TypesSplit, PTL
<1>7. CASE Delete(u, p)
  <2>1. PlainTypes'
    BY <1>0, <1>7, AbsentIsBare DEF Delete, Tip
  <2> QED
    BY <1>2, <2>1, TypesSplit, PTL
<1>8. CASE Revert(u, p)
  <2>1. Base(u) \in Trees /\ Flushed(u) \in Trees
    BY <1>0, FlushedIsTree DEF Base, Tip
  <2>2. PlainTypes'
    BY <1>0, <1>8, <2>1 DEF Revert, Tip
  <2> QED
    BY <1>2, <2>2, TypesSplit, PTL
<1>9. CASE ResolveText(u, p)
  <2>1. disk[u][p] \in Contents /\ Marker \in disk[u][p]
    BY <1>0, <1>9 DEF ResolveText
  <2>2. disk[u][p] \ {Marker} \in Contents \ {Absent}
    BY <2>1, SharingAssumption DEF Contents, Absent, Edits, Marker
  <2>4. disk'[u][p] = disk[u][p] \ {Marker}
    BY <1>0, <1>9 DEF ResolveText
  <2>5. disk' \in [Users -> Trees]
    BY <1>0, <1>9, <2>2, FileWritten DEF ResolveText
  <2>6. buf' \in [Users -> Trees] /\ \A v \in Users, q \in Paths : buf'[v][q] = Absent => buf[v][q] = Absent
    <3>1. CASE buf' = buf
      BY <1>0, <3>1
    <3>2. CASE buf' = [buf EXCEPT ![u][p] = disk'[u][p]]
      BY <1>0, <2>2, <2>4, <3>2, FileWritten
    <3> QED
      BY <1>9, <3>1, <3>2 DEF ResolveText
  <2>7. UNCHANGED <<copies, unsaved, made, dropped, torn>>
    BY <1>9 DEF ResolveText
  <2>3. PlainTypes'
    BY <1>0, <1>1, <2>5, <2>6, <2>7, SharingAssumption DEF Tip
  <2> QED
    BY <1>2, <2>3, TypesSplit, PTL
<1>10. CASE \E mine \in BOOLEAN : ResolveCopy(u, p, mine)
  <2>2. copies' = [copies EXCEPT ![u][p] = Absent] /\ made' = made /\ torn' = torn
    BY <1>10 DEF ResolveCopy
  <2>3. \/ UNCHANGED <<disk, buf, unsaved>>
        \/ /\ disk' = [disk EXCEPT ![u][p] = copies[u][p]] /\ copies[u][p] # Absent
           /\ buf' = IF buf[u][p] = Absent THEN buf ELSE [buf EXCEPT ![u][p] = copies[u][p]]
           /\ unsaved' = [unsaved EXCEPT ![u] = @ \ {p}]
    BY <1>10 DEF ResolveCopy
  <2>4. dropped' \subseteq Edits
    BY <1>0, <1>10 DEF ResolveCopy
  <2>5. copies' \in [Users -> Trees]
    BY <1>0, <2>2, AbsentIsBare, FileWritten
  <2>6. /\ buf' \in [Users -> Trees] /\ disk' \in [Users -> Trees] /\ unsaved' \in [Users -> SUBSET Texts]
        /\ \A v \in Users, q \in Paths : buf'[v][q] = Absent => buf[v][q] = Absent
        /\ \A v \in Users : unsaved'[v] \subseteq unsaved[v]
    <3>1. CASE UNCHANGED <<disk, buf, unsaved>>
      BY <1>0, <3>1
    <3>2. CASE disk' = [disk EXCEPT ![u][p] = copies[u][p]] /\ copies[u][p] # Absent
      <4>1. copies[u][p] \in Contents
        BY <1>0
      <4>2. disk' \in [Users -> Trees]
        BY <1>0, <3>2, <4>1, FileWritten
      <4>5. unsaved' \in [Users -> SUBSET Texts] /\ \A v \in Users : unsaved'[v] \subseteq unsaved[v]
        <5>1. unsaved' = unsaved \/ unsaved' = [unsaved EXCEPT ![u] = @ \ {p}]
          BY <2>3, Zenon
        <5>2. unsaved \in [Users -> SUBSET Texts]
          BY <1>0
        <5> QED
          BY <5>1, <5>2
      <4>3. CASE buf' = buf
        BY <1>0, <4>2, <4>3, <4>5, Zenon
      <4>4. CASE buf' = [buf EXCEPT ![u][p] = copies[u][p]]
        <5>1. /\ buf' \in [Users -> Trees]
              /\ \A v \in Users, q \in Paths : buf'[v][q] = Absent => buf[v][q] = Absent
          BY <1>0, <3>2, <4>1, <4>4, FileWritten
        <5> QED
          BY <4>2, <4>5, <5>1, Zenon
      <4> QED
        BY <2>3, <4>2, <4>3, <4>4
    <3> QED
      BY <2>3, <3>1, <3>2
  <2>1. PlainTypes'
    BY <1>0, <1>1, <2>2, <2>4, <2>5, <2>6, SharingAssumption DEF Tip
  <2> QED
    BY <1>2, <2>1, TypesSplit, PTL
<1> QED
  BY <1>3, <1>4, <1>5, <1>6, <1>7, <1>8, <1>9, <1>10 DEF Edit

\* An operation that ends before its time.
LEMMA TypesAborted ==
    ASSUME Types, NEW u \in Users, Abort(u),
           UNCHANGED <<commits, base>>, world'.paths = world.paths
    PROVE  OpTypes' /\ torn' \subseteq Paths
<1>1. Idle \in OpRecs /\ op \in [Users -> OpRecs] /\ Tip \in Nat /\ Tip' = Tip
  BY DEF OpRecs, Idle, Types, OpTypes, TypeOK, Tip, Abort
<1>2. op'[u] = Idle
  BY <1>1 DEF Abort, Become
<1>3. OpRefers(u)'
  BY <1>2 DEF OpRefers, Idle
<1>4. torn' \subseteq Paths
  BY DEF Abort, Types, TypeOK
<1>5. OpTypes'
  BY <1>1, <1>3, OpBecomes DEF Abort
<1> QED
  BY <1>4, <1>5

\* The editor is flushed.
LEMMA TypesFlushed ==
    ASSUME Types, NEW u \in Users, Flush(u)
    PROVE  /\ disk' \in [Users -> Trees] /\ disk'[u] = Flushed(u)
           /\ unsaved' \in [Users -> SUBSET Texts] /\ unsaved'[u] = {}
           /\ \A v \in Users \ {u} : disk'[v] = disk[v] /\ unsaved'[v] = unsaved[v]
BY FlushedIsTree DEF Types, TypeOK, Flush

\* Publish and what follows it.
LEMMA TypesPublishing ==
    ASSUME Types, NEW u \in Users,
           Publish(u) \/ Upload(u) \/ Push(u) \/ Pushed(u)
    PROVE  Types'
<1> USE DEF PlainTypes
<1>0. PlainTypes /\ op \in [Users -> OpRecs] /\ OpRefers(u) /\ Tip \in Nat
  BY TypesSplit DEF OpTypes, Tip
<1>1. world' = world /\ made' = made /\ buf' = buf /\ copies' = copies
  BY Zenon DEF Publish, Upload, Push, Pushed
<1>2. CASE Publish(u)
  <2>1. Commit(Flushed(u), base[u], 0) \in OpRecs /\ op'[u] = Commit(Flushed(u), base[u], 0)
    BY <1>0, <1>2, FlushedIsTree DEF Publish, Become, OpRecs, Commit
  <2>2. OpRefers(u)'
    BY <1>0, <1>2, <2>1 DEF OpRefers, Commit, Publish, Tip
  <2>3. OpTypes'
    BY <1>0, <1>1, <1>2, <2>1, <2>2, OpBecomes DEF Publish, Tip
  <2>4. PlainTypes'
    BY <1>0, <1>1, <1>2, TypesFlushed DEF Publish, Tip
  <2> QED
    BY <2>3, <2>4, TypesSplit, PTL
<1>3. CASE Upload(u)
  <2> DEFINE live == op[u].live
             changed == {p \in Here(live) : live[p] # commits[op[u].on][p]}
             again == [p \in Paths |-> IF p \in changed THEN disk[u][p] ELSE live[p]]
             push == [pc |-> "push", tree |-> again, on |-> op[u].on, back |-> op[u].back]
  <2>1. op[u] \in [pc : {"upload"}, live : Trees, on : Nat, back : Nat]
    BY <1>0, <1>3, OpKinds DEF Upload
  <2>2. again \in Trees
    BY <1>0, <2>1 DEF Trees
  <2>3. push \in OpRecs
    BY <2>1, <2>2, Zenon DEF OpRecs
  <2>4. OpTypes' /\ torn' \subseteq Paths
    <3>1. CASE Abort(u)
      BY <1>1, <1>3, <3>1, TypesAborted DEF Upload
    <3>2. CASE Become(u, push) /\ torn' = torn
      <4>1. op'[u] = push
        BY <1>0, <3>2 DEF Become
      <4>2. OpRefers(u)'
        BY <1>0, <1>3, <2>1, <4>1 DEF OpRefers, Upload, Tip
      <4> QED
        BY <1>0, <1>1, <1>3, <2>3, <3>2, <4>2, OpBecomes DEF Upload, Tip
    <3> QED
      BY <1>3, <3>1, <3>2 DEF Upload
  <2>5. PlainTypes'
    BY <1>0, <1>1, <1>3, <2>4 DEF Upload, Tip
  <2> QED
    BY <2>4, <2>5, TypesSplit, PTL
<1>4. CASE Push(u)
  <2>1. op[u] \in [pc : {"push"}, tree : Trees, on : Nat, back : Nat]
    BY <1>0, <1>4, OpKinds DEF Push
  <2>2. CASE op[u].on = Tip
    <3> DEFINE pushed == [pc |-> "pushed", at |-> Tip + 1, back |-> op[u].back]
    <3>1. /\ commits' = Append(commits, op[u].tree) /\ Become(u, pushed)
          /\ dropped' = dropped \cup PassedOver(u)
          /\ UNCHANGED <<base, disk, unsaved, torn>>
      BY <1>4, <2>2 DEF Push
    <3>2. commits' \in Seq(Trees) /\ Tip' = Tip + 1
      BY <1>0, <2>1, <3>1 DEF Tip
    <3>3. pushed \in OpRecs
      BY <1>0, <2>1 DEF OpRecs
    <3>4. op'[u] = pushed
      BY <1>0, <3>1 DEF Become
    <3>5. OpRefers(u)'
      BY <1>0, <1>4, <2>1, <3>1, <3>2, <3>4 DEF OpRefers, Push
    <3>9. Tip' \in Nat /\ Tip <= Tip' /\ base' = base
      BY <1>0, <3>1, <3>2
    <3>6. OpTypes'
      BY <1>1, <3>1, <3>3, <3>5, <3>9, OpBecomes, Zenon
    <3>7. dropped' \subseteq Edits
      BY <1>0, <3>1 DEF PassedOver
    <3>8. PlainTypes'
      BY <1>0, <1>1, <3>1, <3>2, <3>7
    <3> QED
      BY <3>6, <3>8, TypesSplit, PTL
  <2>3. CASE op[u].on # Tip
    <3>1. OpTypes' /\ torn' \subseteq Paths
      <4>1. CASE Abort(u)
        BY <1>1, <1>4, <2>3, <4>1, TypesAborted DEF Push
      <4>2. CASE Become(u, [pc |-> "diverged"]) /\ torn' = torn
        <5>1. op'[u] = [pc |-> "diverged"] /\ [pc |-> "diverged"] \in OpRecs
          BY <1>0, <4>2 DEF Become, OpRecs
        <5>2. OpRefers(u)'
          BY <5>1 DEF OpRefers
        <5> QED
          BY <1>0, <1>1, <1>4, <2>3, <4>2, <5>1, <5>2, OpBecomes DEF Push, Tip
      <4> QED
        BY <1>4, <2>3, <4>1, <4>2 DEF Push
    <3>2. PlainTypes'
      BY <1>0, <1>1, <1>4, <2>3, <3>1 DEF Push, Tip
    <3> QED
      BY <3>1, <3>2, TypesSplit, PTL
  <2> QED
    BY <2>2, <2>3
<1>5. CASE Pushed(u)
  <2>1. op[u] \in [pc : {"pushed"}, at : Nat, back : Nat]
    BY <1>0, <1>5, OpKinds DEF Pushed
  <2>2. op[u].at \in base[u] .. Tip
    BY <1>5 , <1>0 DEF Pushed, OpRefers
  <2>3. base' \in [Users -> 1 .. Tip] /\ \A v \in Users \ {u} : base'[v] = base[v]
    BY <1>0, <1>5, <2>1, <2>2 DEF Pushed, Tip
  <2>4. PICK o \in {Idle, [pc |-> "after", touched |-> Here(commits[op[u].back])]} : Become(u, o)
    BY <1>5 DEF Pushed
  <2>5. o \in OpRecs /\ op'[u] = o
    BY <1>0, <2>4 DEF OpRecs, Idle, Here, Become
  <2>6. OpRefers(u)'
    BY <2>4, <2>5 DEF OpRefers, Idle
  <2>7. OpTypes'
    BY <1>0, <1>1, <1>5, <2>3, <2>4, <2>5, <2>6, OpBecomes DEF Pushed, Tip
  <2>8. PlainTypes'
    BY <1>0, <1>1, <1>5, <2>3 DEF Pushed, Tip
  <2> QED
    BY <2>7, <2>8, TypesSplit, PTL
<1> QED
  BY <1>2, <1>3, <1>4, <1>5

\* Pull, merge and restore.
LEMMA TypesPulling ==
    ASSUME Types, NEW u \in Users,
           \/ Pull(u) \/ MergeStart(u) \/ Persist(u) \/ AfterPull(u) \/ CommitRestored(u)
           \/ \E t \in 1 .. Tip - 1 : Restore(u, t)
    PROVE  Types'
<1> USE DEF PlainTypes
<1>0. PlainTypes /\ op \in [Users -> OpRecs] /\ OpRefers(u) /\ Tip \in Nat
  BY TypesSplit DEF OpTypes, Tip
<1>1. world' = world /\ commits' = commits /\ made' = made /\ copies' = copies
  BY Zenon DEF Pull, MergeStart, Persist, AfterPull, CommitRestored, Restore
<1>2. Tip' = Tip /\ Tip \in 1 .. Tip /\ base[u] \in 1 .. Tip
  BY <1>0, <1>1 DEF Tip
<1>3. Here(Flushed(u)) \subseteq Paths /\ world.paths \subseteq Paths
  BY <1>0 DEF Here
<1>4. ASSUME NEW o \in OpRecs, Become(u, o), base' = base,
             o.pc = "diverged" \/ o = Idle \/ (o.at = Tip /\ o.back \in 1 .. Tip /\ o.pc = "restore")
                \/ (o.at = Tip /\ o.back = Tip /\ o.pc = "ff")
                \/ (o.at = Tip /\ o.cur = NoPath /\ o.pc = "merge")
                \/ (o.on \in 1 .. Tip /\ o.back \in 1 .. Tip /\ o.pc = "upload")
      PROVE  OpTypes'
  <2>1. op'[u] = o
    BY <1>0, <1>4 DEF Become
  <2>2. OpRefers(u)'
    BY <1>0, <1>1, <1>2, <1>4, <2>1 DEF OpRefers, Idle
  <2> QED
    BY <1>1, <1>2, <1>4, <2>2, OpBecomes, <1>0
<1>5. ASSUME NEW why \in {"ff", "restore"}, NEW t \in 1 .. Tip
      PROVE  Materialize(u, why, Tip, t) \in OpRecs
  BY <1>0, <1>3 DEF Materialize, OpRecs
<1>6. [pc |-> "diverged"] \in OpRecs /\ Idle \in OpRecs
  BY DEF OpRecs, Idle
<1>7. CASE Pull(u)
  <2>1. PICK o \in {Materialize(u, "ff", Tip, Tip), [pc |-> "diverged"]} : Become(u, o)
    BY <1>7 DEF Pull
  <2>2. o \in OpRecs /\ base' = base
    BY <1>2, <1>5, <1>6, <1>7, <2>1 DEF Pull
  <2>3. o.pc = "diverged" \/ (o.at = Tip /\ o.back = Tip /\ o.pc = "ff")
    BY <2>1 DEF Materialize
  <2>4. OpTypes'
    BY <1>4, <2>1, <2>2, <2>3
  <2>5. PlainTypes'
    BY <1>0, <1>1, <1>7, TypesFlushed DEF Pull, Tip
  <2> QED
    BY <2>4, <2>5, TypesSplit, PTL
<1>8. CASE MergeStart(u)
  <2> DEFINE merge == [pc |-> "merge", at |-> Tip, todo |-> world.paths,
                       here |-> Here(Flushed(u)), cur |-> NoPath, touched |-> {}]
  <2>1. PICK o \in {merge, Idle} : Become(u, o)
    BY <1>8 DEF MergeStart
  <2>2. NoPath \in [path : SUBSET Paths, was : Contents]
    BY AbsentIsBare DEF NoPath
  <2>3. o \in OpRecs /\ base' = base
    BY <1>0, <1>3, <1>6, <1>8, <2>1, <2>2 DEF MergeStart, OpRecs
  <2>4. OpTypes'
    BY <1>4, <2>1, <2>3
  <2>5. /\ disk' \in [Users -> Trees] /\ unsaved' \in [Users -> SUBSET Texts]
        /\ \A v \in Users : unsaved'[v] \subseteq unsaved[v]
    <3>1. CASE Flush(u)
      BY <1>0, <3>1, TypesFlushed
    <3>2. CASE UNCHANGED <<disk, unsaved>>
      BY <1>0, <3>2
    <3> QED
      BY <1>8, <3>1, <3>2 DEF MergeStart
  <2>6. PlainTypes'
    BY <1>0, <1>1, <1>8, <2>5 DEF MergeStart, Tip
  <2> QED
    BY <2>4, <2>6, TypesSplit, PTL
<1>9. CASE Persist(u)
  <2>1. op[u].at \in base[u] .. Tip
    BY <1>0, <1>9 DEF Persist, OpRefers
  <2>2. base' \in [Users -> 1 .. Tip] /\ \A v \in Users \ {u} : base'[v] = base[v]
    BY <1>0, <1>2, <1>9, <2>1 DEF Persist
  <2>3. (IF op[u].pc = "ff" THEN Here(commits[op[u].at]) ELSE op[u].touched) \subseteq Paths
    BY <1>0, <1>9, OpKinds DEF Persist, Here
  <2>4. PICK touched \in SUBSET Paths : Become(u, [pc |-> "after", touched |-> touched])
    BY <1>9, <2>3 DEF Persist
  <2>5. [pc |-> "after", touched |-> touched] \in OpRecs
    BY <2>4 DEF OpRecs
  <2>6. op'[u] = [pc |-> "after", touched |-> touched]
    BY <1>0, <2>4 DEF Become
  <2>7. OpRefers(u)'
    BY <2>6 DEF OpRefers
  <2>8. OpTypes'
    BY <1>0, <1>1, <1>2, <2>2, <2>4, <2>5, <2>7, OpBecomes
  <2>9. PlainTypes'
    BY <1>0, <1>1, <1>2, <1>9, <2>2 DEF Persist, Tip
  <2> QED
    BY <2>8, <2>9, TypesSplit, PTL
<1>10. CASE AfterPull(u)
  <2> DEFINE fresh == {p \in op[u].touched : buf[u][p] # Absent /\ disk[u][p] # Absent}
  <2>1. Become(u, Idle) /\ UNCHANGED <<base, disk, dropped, torn>>
    BY <1>10 DEF AfterPull
  <2>2. OpTypes'
    BY <1>4, <1>6, <2>1
  <2>3. /\ buf' = [buf EXCEPT ![u] = [p \in Paths |-> IF p \in fresh THEN disk[u][p] ELSE @[p]]]
        /\ unsaved' = [unsaved EXCEPT ![u] = @ \ fresh]
    BY <1>10 DEF AfterPull
  <2>4. /\ buf' \in [Users -> Trees] /\ unsaved' \in [Users -> SUBSET Texts]
        /\ \A v \in Users : \A p \in unsaved'[v] : buf'[v][p] # Absent
    <3>1. [p \in Paths |-> IF p \in fresh THEN disk[u][p] ELSE buf[u][p]] \in Trees
      BY <1>0 DEF Trees
    <3> QED
      BY <1>0, <2>3, <3>1, SharingAssumption
  <2>5. PlainTypes'
    BY <1>0, <1>1, <1>2, <2>1, <2>4
  <2> QED
    BY <2>2, <2>5, TypesSplit, PTL
<1>11. CASE CommitRestored(u)
  <2> DEFINE o == Commit(disk[u], op[u].at, op[u].back)
  <2>1. op[u].at \in base[u] .. Tip /\ op[u].back \in 1 .. Tip
    BY <1>0, <1>11 DEF CommitRestored, OpRefers
  <2>2. o \in OpRecs /\ o.on \in 1 .. Tip /\ o.back \in 1 .. Tip /\ o.pc = "upload"
    BY <1>0, <1>2, <2>1 DEF Commit, OpRecs
  <2>3. OpTypes' /\ torn' \subseteq Paths
    <3>1. CASE Abort(u)
      BY <1>1, <1>11, <3>1, TypesAborted DEF CommitRestored
    <3>2. CASE Become(u, o) /\ torn' = torn
      BY <1>0, <1>4, <1>11, <2>2, <3>2 DEF CommitRestored
    <3> QED
      BY <1>11, <3>1, <3>2 DEF CommitRestored
  <2>4. PlainTypes'
    BY <1>0, <1>1, <1>2, <1>11, <2>3 DEF CommitRestored
  <2> QED
    BY <2>3, <2>4, TypesSplit, PTL
<1>12. CASE \E t \in 1 .. Tip - 1 : Restore(u, t)
  <2>1. PICK t \in 1 .. Tip - 1 : Restore(u, t)
    BY <1>12
  <2>2. t \in 1 .. Tip
    BY <1>0
  <2> DEFINE o == Materialize(u, "restore", Tip, t)
  <2>3. o \in OpRecs /\ o.at = Tip /\ o.back \in 1 .. Tip /\ o.pc = "restore"
    BY <1>5, <2>2 DEF Materialize
  <2>4. OpTypes'
    BY <1>4, <2>1, <2>3 DEF Restore
  <2>5. PlainTypes'
    BY <1>0, <1>1, <2>1, TypesFlushed DEF Restore, Tip
  <2> QED
    BY <2>4, <2>5, TypesSplit, PTL
<1> QED
  BY <1>7, <1>8, <1>9, <1>10, <1>11, <1>12

\* A failure leaves the circumstances what they are, with one failure less.
LEMMA FailureTypes ==
    ASSUME Failing, NEW P, NEW D, world \in [paths : P, deletable : D, restless : BOOLEAN,
                  restoring : BOOLEAN, failing : Nat]
    PROVE  /\ world' \in [paths : P, deletable : D, restless : BOOLEAN,
                  restoring : BOOLEAN, failing : Nat]
           /\ world'.paths = world.paths
<1>1. world.failing \in Nat /\ world.failing > 0
  BY DEF Failing
<1>2. world.failing - 1 \in Nat
  BY <1>1
<1>3. world' = [world EXCEPT !.failing = world.failing - 1]
  BY DEF Failing
<1> QED
  BY <1>2, <1>3, Zenon

\* A path of a pull or a merge is done, or the operation fails.
LEMMA TypesOnePath ==
    ASSUME Types, NEW u \in Users, NEW p \in world.paths, Bring(u, p)
    PROVE  Types'
<1> USE DEF PlainTypes
<1>0. PlainTypes /\ op \in [Users -> OpRecs] /\ OpRefers(u) /\ Tip \in Nat /\ p \in Paths
  BY TypesSplit DEF OpTypes, Tip
<1>1. /\ commits' = commits /\ made' = made /\ base' = base /\ buf' = buf /\ unsaved' = unsaved
      /\ dropped' = dropped
  BY Zenon DEF Bring, FastForward, MergeRead, MergeText, MergeBinary, MergeRemote, PassedBy, MergeKeep
<1>2. Tip' = Tip /\ Tip \in 1 .. Tip /\ base[u] \in 1 .. Tip
  BY <1>0, <1>1 DEF Tip
<1>3. disk[u][p] \in Contents /\ \A i \in 1 .. Tip : commits[i][p] \in Contents
  BY <1>0, <1>2 DEF Trees, Tip
<1>4. world' = world \/ Failing
  BY Zenon DEF Bring, FastForward, MergeRead, MergeText, MergeBinary, MergeRemote, PassedBy, MergeKeep
<1>5. /\ world' \in [paths : SUBSET Paths, deletable : SUBSET Paths, restless : BOOLEAN,
                     restoring : BOOLEAN, failing : Nat]
      /\ world'.paths = world.paths
  BY <1>0, <1>4, FailureTypes, Zenon
<1>6. torn' \subseteq Paths
  <2>1. torn' = torn \/ torn' = torn \cup {q \in {p} : commits[op[u].at][q] # Absent}
    BY Zenon DEF Bring, FastForward, MergeRead, MergeText, MergeBinary, MergeRemote, PassedBy,
       MergeKeep
  <2> QED
    BY <1>0, <2>1
<1>7. copies' \in [Users -> Trees]
  <2>1. CASE copies' = copies
    BY <1>0, <2>1
  <2>2. CASE copies' = [copies EXCEPT ![u][p] = commits[op[u].at][p]] /\ op[u].pc = "merge"
    <3>1. commits[op[u].at][p] \in Contents
      BY <1>0, <1>3, <2>2 DEF OpRefers
    <3> QED
      BY <1>0, <2>2, <3>1, FileWritten
  <2> QED
    BY <2>1, <2>2 DEF Bring, FastForward, MergeRead, MergeText, MergeBinary, MergeRemote, PassedBy, MergeKeep
<1>8. CASE FastForward(u, p)
  <2> DEFINE o == [op[u] EXCEPT !.todo = @ \ {p}]
  <2>1. op[u] \in [pc : {"ff", "restore"}, at : Nat, back : Nat, todo : SUBSET Paths, here : SUBSET Paths]
    BY <1>0, <1>8, OpKinds DEF FastForward
  <2>2. /\ o \in [pc : {"ff", "restore"}, at : Nat, back : Nat, todo : SUBSET Paths, here : SUBSET Paths]
        /\ o.pc = op[u].pc /\ o.at = op[u].at /\ o.back = op[u].back
    BY <2>1
  <2>3. o \in OpRecs
    BY <2>2 DEF OpRecs
  <2>4. op'[u] = o /\ Become(u, o)
    BY <1>0, <1>8 DEF FastForward, Become
  <2>5. OpRefers(u)'
    BY <1>0, <1>1, <1>2, <1>8, <2>2, <2>4 DEF OpRefers, FastForward
  <2>6. OpTypes'
    BY <1>0, <1>1, <1>2, <1>5, <2>3, <2>4, <2>5, OpBecomes
  <2>7. op[u].back \in 1 .. Tip
    BY <1>0, <1>8 DEF FastForward, OpRefers
  <2>8. disk' \in [Users -> Trees]
    <3>1. disk' = disk \/ disk' = [disk EXCEPT ![u][p] = commits[op[u].back][p]]
      BY <1>8 DEF FastForward
    <3>2. commits[op[u].back][p] \in Contents
      BY <1>3, <2>7
    <3>3. CASE disk' = disk
      BY <1>0, <3>3
    <3>4. CASE disk' = [disk EXCEPT ![u][p] = commits[op[u].back][p]]
      BY <1>0, <3>2, <3>4, FileWritten
    <3> QED
      BY <3>1, <3>3, <3>4
  <2>9. PlainTypes'
    BY <1>0, <1>1, <1>2, <1>5, <1>6, <1>7, <2>8
  <2> QED
    BY <2>6, <2>9, TypesSplit, PTL
<1>9. CASE ~FastForward(u, p)
  <2> DEFINE Rec == [pc : {"merge"}, at : Nat, todo : SUBSET Paths, here : SUBSET Paths,
                     cur : [path : SUBSET Paths, was : Contents], touched : SUBSET Paths]
  <2>0. op[u].pc = "merge"
    BY <1>9 DEF Bring, MergeRead, MergeText, MergeBinary, MergeRemote, PassedBy, MergeKeep
  <2>1. op[u] \in Rec
    BY <1>0, <2>0, OpKinds
  <2>2. PICK cur \in [path : SUBSET Paths, was : Contents],
             todo \in SUBSET op[u].todo, touched \in SUBSET Paths :
           /\ op' = [op EXCEPT ![u] = [op[u] EXCEPT !.todo = todo, !.cur = cur, !.touched = touched]]
           /\ cur = NoPath \/ (cur.path = {p} /\ p \notin todo)
    <3>1. CASE MergeRead(u, p)
      <4> DEFINE cur == [path |-> {p}, was |-> IF p \in op[u].here THEN disk[u][p] ELSE Absent]
      <4>1. cur \in [path : SUBSET Paths, was : Contents]
        BY <1>0, <1>3, AbsentIsBare
      <4>2. [op[u] EXCEPT !.todo = @ \ {p}, !.cur = cur]
              = [op[u] EXCEPT !.todo = op[u].todo \ {p}, !.cur = cur, !.touched = op[u].touched]
        BY <2>1
      <4>3. /\ op' = [op EXCEPT ![u] = [op[u] EXCEPT !.todo = op[u].todo \ {p}, !.cur = cur,
                                                      !.touched = op[u].touched]]
            /\ cur.path = {p} /\ p \notin op[u].todo \ {p}
        BY <3>1, <4>2 DEF MergeRead, Become
      <4> QED
        BY <2>1, <4>1, <4>3
    <3>2. CASE ~MergeRead(u, p)
      <4>1. PICK more \in {{}, {p}} :
              op' = [op EXCEPT ![u] = [op[u] EXCEPT !.cur = NoPath, !.touched = @ \cup more]]
        BY <1>9, <3>2 DEF Bring, MergeText, MergeBinary, MergeRemote, PassedBy, MergeKeep, Merged, Become
      <4>2. [op[u] EXCEPT !.cur = NoPath, !.touched = @ \cup more]
              = [op[u] EXCEPT !.todo = op[u].todo, !.cur = NoPath, !.touched = op[u].touched \cup more]
        BY <2>1
      <4>3. NoPath \in [path : SUBSET Paths, was : Contents]
        BY AbsentIsBare DEF NoPath
      <4>4. /\ op' = [op EXCEPT ![u] = [op[u] EXCEPT !.todo = op[u].todo, !.cur = NoPath,
                                                      !.touched = op[u].touched \cup more]]
            /\ op[u].todo \in SUBSET op[u].todo /\ op[u].touched \cup more \in SUBSET Paths
        BY <1>0, <2>1, <4>1, <4>2
      <4> QED
        BY <4>3, <4>4, Zenon
    <3> QED
      BY <3>1, <3>2
  <2> DEFINE o == [op[u] EXCEPT !.todo = todo, !.cur = cur, !.touched = touched]
  <2>3. o \in Rec /\ o.at = op[u].at /\ o.cur = cur /\ o.todo = todo /\ o.pc = "merge"
    BY <2>1, <2>2
  <2>4. o \in OpRecs
    BY <2>3 DEF OpRecs
  <2>5. op'[u] = o /\ Become(u, o)
    BY <1>0, <2>2 DEF Become
  <2>6. OpRefers(u)'
    BY <1>0, <1>1, <1>2, <1>5, <2>0, <2>2, <2>3, <2>5 DEF OpRefers
  <2>7. OpTypes'
    BY <1>0, <1>1, <1>2, <1>5, <2>4, <2>5, <2>6, OpBecomes
  <2>8. disk' \in [Users -> Trees]
    <3>1. disk' = disk \/ \E now \in Contents : disk' = [disk EXCEPT ![u][p] = now]
      <4> DEFINE ours == op[u].cur.was  theirs == commits[op[u].at][p]  b == Base(u)[p]
      <4>1. ours \in Contents /\ theirs \in Contents /\ b \in Contents
        BY <1>0, <1>2, <1>3, <2>0, <2>1 DEF OpRefers, Base
      <4>2. CASE MergeText(u, p)
        <5>1. ours # Absent /\ theirs # Absent /\ b # Absent
          BY <4>2 DEF MergeText
        <5>2. Merge3(b, ours, theirs) \in Contents /\ Marked(ours, theirs) \in Contents
          BY <4>1, <5>1 DEF Contents, Merge3, Marked
        <5> QED
          BY <1>3, <4>2, <5>2 DEF MergeText, PassedBy, Merged
      <4>3. CASE ~MergeText(u, p)
        BY <1>3, <1>9, <4>1, <4>3 DEF Bring, MergeRead, MergeBinary, MergeRemote, PassedBy, MergeKeep, Merged
      <4> QED
        BY <4>2, <4>3
    <3>2. CASE disk' = disk
      BY <1>0, <3>2
    <3>3. ASSUME NEW now \in Contents, disk' = [disk EXCEPT ![u][p] = now]
          PROVE  disk' \in [Users -> Trees]
      BY <1>0, <3>3, FileWritten
    <3> QED
      BY <3>1, <3>2, <3>3
  <2>9. PlainTypes'
    BY <1>0, <1>1, <1>2, <1>5, <1>6, <1>7, <2>8
  <2> QED
    BY <2>7, <2>9, TypesSplit, PTL
<1> QED
  BY <1>8, <1>9

LEMMA TypesFailing ==
    ASSUME Types, NEW u \in Users, Fail(u)
    PROVE  Types'
<1>1. /\ world' \in [paths : SUBSET Paths, deletable : SUBSET Paths, restless : BOOLEAN,
                     restoring : BOOLEAN, failing : Nat]
      /\ world'.paths = world.paths
  BY TypesSplit, FailureTypes DEF PlainTypes, Fail
<1>2. OpTypes' /\ torn' \subseteq Paths
  BY <1>1, TypesAborted DEF Fail
<1>3. PlainTypes'
  BY <1>1, <1>2, TypesSplit DEF PlainTypes, Fail, Tip
<1> QED
  BY <1>2, <1>3, TypesSplit, PTL

LEMMA TypesNext == Types /\ [Next]_vars => Types'
<1> SUFFICES ASSUME Types, [Next]_vars PROVE Types'
  OBVIOUS
<1>1. world.paths \subseteq Paths
  BY TypesSplit DEF PlainTypes
<1>2. CASE UNCHANGED vars
  <2>1. OpTypes'
    BY <1>2, OpStays DEF vars
  <2>2. PlainTypes'
    BY <1>2, TypesSplit DEF PlainTypes, vars, Tip
  <2> QED
    BY <2>1, <2>2, TypesSplit, PTL
<1>3. ASSUME NEW u \in Users, NEW p \in world.paths, Edit(u, p) \/ Bring(u, p)
      PROVE  Types'
  BY <1>1, <1>3, TypesEditing, TypesOnePath
<1>4. ASSUME NEW u \in Users, Operate(u)
      PROVE  Types'
  BY <1>4, TypesFailing, TypesPublishing, TypesPulling DEF Operate
<1> QED
  BY <1>2, <1>3, <1>4 DEF Next

\* Trees, bases and operations stay what the types say, and a base is a commit of
\* the branch: the sync index never names a commit that is not there.
THEOREM TypesHold == Spec => []Types
<1>1. Init => Types
  BY TypesInit
<1>2. Types /\ [Next]_vars => Types'
  BY TypesNext
<1> QED
  BY <1>1, <1>2, PTL DEF Spec

-----------------------------------------------------------------------------
(* What a step leaves alone. *)

\* A step of u leaves what the others have alone, takes back nothing that was
\* discarded or torn, and at most adds a commit.
Frame(u) ==
    /\ world'.paths = world.paths
    /\ \A v \in Users \ {u} :
        /\ base'[v] = base[v] /\ disk'[v] = disk[v] /\ buf'[v] = buf[v]
        /\ unsaved'[v] = unsaved[v] /\ copies'[v] = copies[v] /\ op'[v] = op[v]
    /\ dropped \subseteq dropped' /\ torn \subseteq torn'
    /\ commits' = commits \/ \E tree \in Trees : commits' = Append(commits, tree)

LEMMA EditFrame ==
    ASSUME Types, NEW u \in Users, NEW p \in Paths, Edit(u, p)
    PROVE  Frame(u) /\ UNCHANGED <<world, commits, base, op>>
<1>1. UNCHANGED <<world, commits, base, op>> /\ torn \subseteq torn' /\ dropped \subseteq dropped'
  BY DEF Edit, Open, Type, Replace, AutoSave, Delete, Revert, ResolveText, ResolveCopy
<1>2. /\ disk \in [Users -> Trees] /\ buf \in [Users -> Trees] /\ copies \in [Users -> Trees]
      /\ unsaved \in [Users -> SUBSET Texts]
  BY TypesSplit DEF PlainTypes
<1>3. \A v \in Users \ {u} : disk'[v] = disk[v] /\ buf'[v] = buf[v]
  BY <1>2 DEF Edit, Open, Type, Replace, AutoSave, Delete, Revert, ResolveText, ResolveCopy
<1>4. \A v \in Users \ {u} : unsaved'[v] = unsaved[v] /\ copies'[v] = copies[v]
  BY <1>2 DEF Edit, Open, Type, Replace, AutoSave, Delete, Revert, ResolveText, ResolveCopy
<1> QED
  BY <1>1, <1>3, <1>4 DEF Frame

LEMMA BringFrame ==
    ASSUME Types, NEW u \in Users, NEW p \in world.paths, Bring(u, p)
    PROVE  Frame(u) /\ UNCHANGED <<commits, base, buf, unsaved, dropped>>
<1>1. UNCHANGED <<commits, base, buf, unsaved, dropped>> /\ torn \subseteq torn'
  BY DEF Bring, FastForward, MergeRead, MergeText, MergeBinary, MergeRemote, PassedBy, MergeKeep
<1>2. world'.paths = world.paths
  <2>1. world' = world \/ Failing
    BY Zenon DEF Bring, FastForward, MergeRead, MergeText, MergeBinary, MergeRemote, PassedBy, MergeKeep
  <2> QED
    BY <2>1, TypesSplit, FailureTypes DEF PlainTypes
<1>3. disk \in [Users -> Trees] /\ copies \in [Users -> Trees] /\ op \in [Users -> OpRecs]
  BY TypesSplit DEF PlainTypes, OpTypes
<1>4. \A v \in Users \ {u} : disk'[v] = disk[v] /\ copies'[v] = copies[v]
  BY <1>3 DEF Bring, FastForward, MergeRead, MergeText, MergeBinary, MergeRemote, PassedBy,
       MergeKeep, Merged
<1>5. \E o : Become(u, o)
  BY DEF Bring, FastForward, MergeRead, MergeText, MergeBinary, MergeRemote, PassedBy,
       MergeKeep, Merged
<1>6. \A v \in Users \ {u} : op'[v] = op[v]
  BY <1>3, <1>5 DEF Become
<1> QED
  BY <1>1, <1>2, <1>4, <1>6 DEF Frame

LEMMA OperateFrame ==
    ASSUME Types, NEW u \in Users, Operate(u)
    PROVE  Frame(u) /\ copies' = copies /\ made' = made
<1>1. copies' = copies /\ made' = made /\ torn \subseteq torn' /\ dropped \subseteq dropped'
  BY DEF Operate, Publish, Upload, Push, Pushed, Pull, MergeStart, Persist, AfterPull, Fail,
         CommitRestored, Restore, Abort
<1>2. world'.paths = world.paths
  <2>1. world' = world \/ Failing
    BY Zenon DEF Operate, Publish, Upload, Push, Pushed, Pull, MergeStart, Persist, AfterPull, Fail,
         CommitRestored, Restore
  <2> QED
    BY <2>1, TypesSplit, FailureTypes DEF PlainTypes
<1>3. /\ disk \in [Users -> Trees] /\ buf \in [Users -> Trees] /\ op \in [Users -> OpRecs]
      /\ unsaved \in [Users -> SUBSET Texts] /\ base \in [Users -> 1 .. Tip]
  BY TypesSplit DEF PlainTypes, OpTypes
<1>4. \A v \in Users \ {u} : base'[v] = base[v] /\ buf'[v] = buf[v]
  BY <1>3 DEF Operate, Publish, Upload, Push, Pushed, Pull, MergeStart, Persist, AfterPull, Fail,
         CommitRestored, Restore
<1>5. \A v \in Users \ {u} : disk'[v] = disk[v] /\ unsaved'[v] = unsaved[v]
  <2>1. \/ Flush(u) \/ UNCHANGED <<disk, unsaved>>
        \/ disk' = disk /\ \E fresh : unsaved' = [unsaved EXCEPT ![u] = @ \ fresh]
    BY DEF Operate, Publish, Upload, Push, Pushed, Pull, MergeStart, Persist, AfterPull, Fail,
         CommitRestored, Restore
  <2> QED
    BY <1>3, <2>1 DEF Flush
<1>6. \E o : Become(u, o)
  BY DEF Operate, Publish, Upload, Push, Pushed, Pull, MergeStart, Persist, AfterPull, Fail,
         CommitRestored, Restore, Abort
<1>7. \A v \in Users \ {u} : op'[v] = op[v]
  BY <1>3, <1>6 DEF Become
<1>8. commits' = commits \/ \E tree \in Trees : commits' = Append(commits, tree)
  <2>1. CASE Push(u)
    <3>1. op[u].tree \in Trees
      BY <1>3, <2>1, OpKinds DEF Push
    <3> QED
      BY <2>1, <3>1 DEF Push
  <2>2. CASE ~Push(u)
    BY <2>2 DEF Operate, Publish, Upload, Pushed, Pull, MergeStart, Persist, AfterPull, Fail,
         CommitRestored, Restore
  <2> QED
    BY <2>1, <2>2
<1> QED
  BY <1>1, <1>2, <1>4, <1>5, <1>7, <1>8 DEF Frame

\* A commit stays where it is.
LEMMA CommitsStay ==
    ASSUME Types, NEW u \in Users, Frame(u)
    PROVE  /\ Tip \in Nat /\ Tip' \in Nat /\ Tip <= Tip' /\ Tip' <= Tip + 1
           /\ \A i \in 1 .. Tip : commits'[i] = commits[i]
BY TypesSplit DEF PlainTypes, Frame, Tip

\* A path of a pull or a merge is done: the operation is the one it was.
LEMMA BringGoesOn ==
    ASSUME Types, NEW u \in Users, NEW p \in world.paths, Bring(u, p)
    PROVE  op[u].pc \in {"ff", "restore", "merge"} /\ op'[u].pc = op[u].pc
<1>1. op \in [Users -> OpRecs] /\ op[u] \in OpRecs
  BY TypesSplit DEF OpTypes
<1>2. CASE FastForward(u, p)
  <2>1. op[u] \in [pc : {"ff", "restore"}, at : Nat, back : Nat, todo : SUBSET Paths, here : SUBSET Paths]
    BY <1>1, <1>2, OpKinds DEF FastForward
  <2>2. [op[u] EXCEPT !.todo = @ \ {p}].pc = op[u].pc
    BY <2>1
  <2> QED
    BY <1>1, <1>2, <2>2 DEF FastForward, Become
<1>3. CASE MergeRead(u, p)
  <2> DEFINE cur == [path |-> {p}, was |-> IF p \in op[u].here THEN disk[u][p] ELSE Absent]
  <2>1. op[u] \in [pc : {"merge"}, at : Nat, todo : SUBSET Paths, here : SUBSET Paths,
                   cur : [path : SUBSET Paths, was : Contents], touched : SUBSET Paths]
    BY <1>1, <1>3, OpKinds DEF MergeRead
  <2>2. [op[u] EXCEPT !.todo = @ \ {p}, !.cur = cur].pc = op[u].pc
    BY <2>1
  <2> QED
    BY <1>1, <1>3, <2>2 DEF MergeRead, Become
<1>4. CASE ~FastForward(u, p) /\ ~MergeRead(u, p)
  <2>0. op[u].pc = "merge"
    BY <1>4 DEF Bring, MergeText, MergeBinary, MergeRemote, PassedBy, MergeKeep
  <2>1. op[u] \in [pc : {"merge"}, at : Nat, todo : SUBSET Paths, here : SUBSET Paths,
                   cur : [path : SUBSET Paths, was : Contents], touched : SUBSET Paths]
    BY <1>1, <2>0, OpKinds
  <2>2. \E more : Become(u, [op[u] EXCEPT !.cur = NoPath, !.touched = @ \cup more])
    BY <1>4 DEF Bring, MergeText, MergeBinary, MergeRemote, PassedBy,
       MergeKeep, Merged
  <2>3. \A more : [op[u] EXCEPT !.cur = NoPath, !.touched = @ \cup more].pc = op[u].pc
    BY <2>1
  <2> QED
    BY <1>1, <2>0, <2>2, <2>3 DEF Become
<1> QED
  BY <1>2, <1>3, <1>4

\* At most path q of user u differs.
Touches(now, trees, u, q) == now = trees \/ \E c : now = [trees EXCEPT ![u][q] = c]

\* What is written of one path leaves the others alone.
LEMMA Elsewhere ==
    ASSUME NEW trees \in [Users -> Trees], NEW u \in Users, NEW p \in Paths, NEW q \in Paths, q # p,
           NEW now, Touches(now, trees, u, q)
    PROVE  now[u][p] = trees[u][p]
BY DEF Trees, Touches

LEMMA EditElsewhere ==
    ASSUME Types, NEW u \in Users, NEW p \in Paths, NEW q \in Paths, q # p, Edit(u, q)
    PROVE  /\ buf'[u][p] = buf[u][p] /\ copies'[u][p] = copies[u][p]
           /\ \/ disk'[u][p] = disk[u][p] /\ (p \in unsaved'[u] <=> p \in unsaved[u])
              \/ op[u] = Idle /\ disk'[u][p] = Flushed(u)[p] /\ p \notin unsaved'[u]
<1>1. /\ disk \in [Users -> Trees] /\ buf \in [Users -> Trees] /\ copies \in [Users -> Trees]
      /\ unsaved \in [Users -> SUBSET Texts]
  BY TypesSplit DEF PlainTypes
<1>2. buf'[u][p] = buf[u][p]
  <2>1. Touches(buf', buf, u, q)
    BY DEF Touches, Edit, Open, Type, Replace, AutoSave, Delete, Revert, ResolveText, ResolveCopy
  <2> QED
    BY <1>1, <2>1, Elsewhere
<1>3. copies'[u][p] = copies[u][p]
  <2>1. Touches(copies', copies, u, q)
    BY DEF Touches, Edit, Open, Type, Replace, AutoSave, Delete, Revert, ResolveText, ResolveCopy
  <2> QED
    BY <1>1, <2>1, Elsewhere
<1>4. CASE Revert(u, q)
  <2>1. disk' = [disk EXCEPT ![u] = [Flushed(u) EXCEPT ![q] = Base(u)[q]]]
    BY <1>4 DEF Revert
  <2>2. Flushed(u) \in Trees
    BY FlushedIsTree
  <2>3. disk'[u][p] = Flushed(u)[p]
    BY <1>1, <2>1, <2>2 DEF Trees
  <2> QED
    BY <1>1, <1>2, <1>3, <1>4, <2>3 DEF Revert
<1>5. CASE ~Revert(u, q)
  <2>1. Touches(disk', disk, u, q)
    BY <1>5 DEF Touches, Edit, Open, Type, Replace, AutoSave, Delete, ResolveText, ResolveCopy
  <2>2. disk'[u][p] = disk[u][p]
    BY <1>1, <2>1, Elsewhere
  <2>3. p \in unsaved'[u] <=> p \in unsaved[u]
    BY <1>1, <1>5 DEF Touches, Edit, Open, Type, Replace, AutoSave, Delete, ResolveText, ResolveCopy
  <2> QED
    BY <1>2, <1>3, <2>2, <2>3
<1> QED
  BY <1>4, <1>5

LEMMA BringElsewhere ==
    ASSUME Types, NEW u \in Users, NEW p \in Paths, NEW q \in world.paths, q # p, Bring(u, q)
    PROVE  disk'[u][p] = disk[u][p] /\ copies'[u][p] = copies[u][p]
<1>1. disk \in [Users -> Trees] /\ copies \in [Users -> Trees] /\ q \in Paths
  BY TypesSplit DEF PlainTypes
<1>2. Touches(disk', disk, u, q)
  BY DEF Touches, Bring, FastForward, MergeRead, MergeText, MergeBinary, MergeRemote, PassedBy,
       MergeKeep, Merged
<1>3. Touches(copies', copies, u, q)
  BY DEF Touches, Bring, FastForward, MergeRead, MergeText, MergeBinary, MergeRemote, PassedBy,
       MergeKeep, Merged
<1> QED
  BY <1>1, <1>2, <1>3, Elsewhere

-----------------------------------------------------------------------------
(* Paths that are not in use stay so. *)

LEMMA FencedInit == Init => Fenced
<1> SUFFICES ASSUME Init PROVE Fenced
  OBVIOUS
<1>1. commits = <<[p \in Paths |-> IF p \in world.paths THEN {} ELSE Absent]>>
  BY DEF Init
<1>2. Tip = 1 /\ \A p \in Paths \ world.paths : commits[1][p] = Absent
  BY <1>1 DEF Tip
<1>3. \A u \in Users : disk[u] = commits[1] /\ unsaved[u] = {} /\ op[u].pc = "idle"
  BY DEF Init, Idle
<1> QED
  BY <1>2, <1>3 DEF Fenced, Outside

\* What the acting user has of a path that is not in use.
LEMMA OutsideNext ==
    ASSUME Types, Fenced, NEW u \in Users, NEW p \in Paths \ world.paths,
           Operate(u) \/ \E q \in world.paths : Edit(u, q) \/ Bring(u, q)
    PROVE  Outside(u, p)' /\ \A i \in 1 .. Tip' : commits'[i][p] = Absent
<1>0. /\ Outside(u, p) /\ \A i \in 1 .. Tip : commits[i][p] = Absent
      /\ PlainTypes /\ op \in [Users -> OpRecs]
  BY TypesSplit DEF Fenced, OpTypes
<1>1. Flushed(u)[p] = Absent /\ Base(u)[p] = Absent
  BY <1>0 DEF Flushed, Outside, Base, PlainTypes
<1>2. ASSUME NEW q \in world.paths, Edit(u, q)
      PROVE  Outside(u, p)' /\ \A i \in 1 .. Tip' : commits'[i][p] = Absent
  <2>1. UNCHANGED <<op, commits>> /\ q # p /\ q \in Paths
    BY <1>0, <1>2, EditFrame DEF PlainTypes
  <2>2. disk'[u][p] = Absent /\ p \notin unsaved'[u]
    BY <1>0, <1>1, <1>2, <2>1, EditElsewhere DEF Outside
  <2> QED
    BY <1>0, <2>1, <2>2 DEF Outside, Tip
<1>3. ASSUME NEW q \in world.paths, Bring(u, q)
      PROVE  Outside(u, p)' /\ \A i \in 1 .. Tip' : commits'[i][p] = Absent
  <2>1. UNCHANGED <<unsaved, commits>> /\ q # p /\ q \in Paths
    BY <1>0, <1>3, BringFrame DEF PlainTypes
  <2>2. disk'[u][p] = Absent
    BY <1>0, <1>3, <2>1, BringElsewhere DEF Outside
  <2> QED
    BY <1>0, <1>3, <2>1, <2>2, BringGoesOn DEF Outside, Tip
<1>4. ASSUME Operate(u)
      PROVE  Outside(u, p)' /\ \A i \in 1 .. Tip' : commits'[i][p] = Absent
  <2>1. disk'[u][p] = Absent /\ p \notin unsaved'[u]
    <3>1. \/ Flush(u) \/ UNCHANGED <<disk, unsaved>>
          \/ disk' = disk /\ \E fresh : unsaved' = [unsaved EXCEPT ![u] = @ \ fresh]
      BY <1>4 DEF Operate, Publish, Upload, Push, Pushed, Pull, MergeStart, Persist, AfterPull, Fail,
           CommitRestored, Restore
    <3> QED
      BY <1>0, <1>1, <3>1 DEF Flush, Outside, PlainTypes
  <2>2. CASE Publish(u)
    <3>1. op'[u] = Commit(Flushed(u), base[u], 0) /\ commits' = commits
      BY <1>0, <2>2 DEF Publish, Become
    <3> QED
      BY <1>0, <1>1, <2>1, <3>1 DEF Outside, Commit, Tip
  <2>3. CASE Upload(u)
    <3> DEFINE live == op[u].live
               changed == {q \in Here(live) : live[q] # commits[op[u].on][q]}
               again == [q \in Paths |-> IF q \in changed THEN disk[u][q] ELSE live[q]]
    <3>1. again[p] = Absent /\ commits' = commits
      BY <1>0, <2>3 DEF Upload, Outside, Here
    <3>2. \/ op'[u] = [pc |-> "push", tree |-> again, on |-> op[u].on, back |-> op[u].back]
          \/ op'[u] = Idle
      BY <1>0, <2>3 DEF Upload, Become, Abort
    <3> QED
      BY <1>0, <2>1, <3>1, <3>2 DEF Outside, Idle, Tip
  <2>4. CASE Push(u)
    <3>1. op'[u].pc \in {"pushed", "diverged", "idle"}
      BY <1>0, <2>4 DEF Push, Become, Abort, Idle
    <3>2. op[u].tree[p] = Absent /\ (commits' = commits \/ commits' = Append(commits, op[u].tree))
      BY <1>0, <2>4 DEF Push, Outside
    <3>3. \A i \in 1 .. Tip' : commits'[i][p] = Absent
      <4>1. op[u].tree \in Trees
        BY <1>0, <2>4, OpKinds DEF Push
      <4> QED
        BY <1>0, <3>2, <4>1 DEF Tip, PlainTypes
    <3> QED
      BY <2>1, <3>1, <3>3 DEF Outside
  <2>5. CASE CommitRestored(u)
    <3>1. op'[u] = Commit(disk[u], op[u].at, op[u].back) \/ op'[u] = Idle
      BY <1>0, <2>5 DEF CommitRestored, Become, Abort
    <3> QED
      BY <1>0, <2>1, <2>5, <3>1 DEF Outside, Commit, Idle, Tip, CommitRestored
  <2>6. CASE Pushed(u) \/ Pull(u) \/ MergeStart(u) \/ Persist(u) \/ AfterPull(u) \/ Fail(u)
             \/ \E t \in 1 .. Tip - 1 : Restore(u, t)
    <3>1. op'[u].pc \notin {"upload", "push"} /\ commits' = commits
      BY <1>0, <2>6 DEF Pushed, Pull, MergeStart, Persist, AfterPull, Fail, Restore, Become, Abort,
           Idle, Materialize
    <3> QED
      BY <1>0, <2>1, <3>1 DEF Outside, Tip
  <2> QED
    BY <1>4, <2>2, <2>3, <2>4, <2>5, <2>6 DEF Operate
<1> QED
  BY <1>2, <1>3, <1>4

LEMMA FencedNext == Types /\ Fenced /\ [Next]_vars => Fenced'
<1> SUFFICES ASSUME Types, Fenced, [Next]_vars PROVE Fenced'
  OBVIOUS
<1>1. CASE UNCHANGED vars
  BY <1>1 DEF vars, Fenced, Outside, Tip
<1>2. ASSUME NEW u \in Users, Operate(u) \/ \E q \in world.paths : Edit(u, q) \/ Bring(u, q)
      PROVE  Fenced'
  <2>1. Frame(u)
    BY <1>2, EditFrame, BringFrame, OperateFrame, TypesSplit DEF PlainTypes
  <2>2. ASSUME NEW p \in Paths \ world.paths
        PROVE  (\A i \in 1 .. Tip' : commits'[i][p] = Absent) /\ \A v \in Users : Outside(v, p)'
    <3>1. Outside(u, p)' /\ \A i \in 1 .. Tip' : commits'[i][p] = Absent
      BY <1>2, <2>2, OutsideNext
    <3>2. \A v \in Users \ {u} : Outside(v, p)'
      BY <2>1, <2>2 DEF Fenced, Outside, Frame
    <3> QED
      BY <3>1, <3>2
  <2> QED
    BY <2>1, <2>2 DEF Fenced, Frame
<1> QED
  BY <1>1, <1>2 DEF Next

LEMMA NoEditorNext == Types /\ NoEditor /\ [Next]_vars => NoEditor'
<1> SUFFICES ASSUME Types, NoEditor, [Next]_vars, NEW u \in Users, NEW p \in Paths \ Texts
             PROVE  buf'[u][p] = Absent
  BY DEF NoEditor
<1>1. /\ buf \in [Users -> Trees] /\ disk \in [Users -> Trees] /\ world.paths \subseteq Paths
      /\ buf[u][p] = Absent
  BY TypesSplit DEF PlainTypes, NoEditor
<1>2. CASE UNCHANGED vars
  BY <1>1, <1>2 DEF vars
<1>3. ASSUME NEW v \in Users, Operate(v)
      PROVE  buf'[u][p] = Absent
  <2>1. \/ buf' = buf
        \/ \E fresh : /\ \A r \in fresh : buf[v][r] # Absent
                      /\ buf' = [buf EXCEPT ![v] = [r \in Paths |-> IF r \in fresh THEN disk[v][r] ELSE @[r]]]
    BY <1>3 DEF Operate, Publish, Upload, Push, Pushed, Pull, MergeStart, Persist, AfterPull, Fail,
         CommitRestored, Restore
  <2> QED
    BY <1>1, <2>1
<1>4. ASSUME NEW v \in Users, NEW q \in world.paths, Bring(v, q)
      PROVE  buf'[u][p] = Absent
  BY <1>1, <1>4, BringFrame
<1>5. ASSUME NEW v \in Users, NEW q \in Paths, Edit(v, q)
      PROVE  buf'[u][p] = Absent
  <2>1. CASE v # u \/ q # p
    <3>1. buf'[u][p] = buf[u][p]
      BY <1>5, <2>1, EditElsewhere, EditFrame DEF Frame
    <3> QED
      BY <1>1, <3>1
  <2>2. CASE v = u /\ q = p
    <3>1. buf' = buf \/ buf' = [buf EXCEPT ![u][p] = Absent]
      BY <1>1, <1>5, <2>2 DEF Edit, Open, Type, Replace, AutoSave, Delete, Revert, ResolveText, ResolveCopy
    <3> QED
      BY <1>1, <3>1 DEF Trees
  <2> QED
    BY <2>1, <2>2
<1> QED
  BY <1>1, <1>2, <1>3, <1>4, <1>5 DEF Next

-----------------------------------------------------------------------------
(* What holds of a user and a path that is not torn, step by step. *)

\* What a step leaves of path p to user u: an edit they had, they have, or the
\* branch has it.
Keeps(u, p) ==
    \A id \in Edits \ dropped' :
        id \in buf[u][p] \cup disk[u][p] \cup copies[u][p] =>
            id \in buf'[u][p] \cup disk'[u][p] \cup copies'[u][p] \cup commits'[Tip'][p]

\* A user who does not act: their part holds on.
LEMMA OthersHold ==
    ASSUME Types, NEW u \in Users, Frame(u), NEW v \in Users \ {u}, NEW p \in Paths,
           CommitsGrow(p)', Agree(v, p), Underway(v, p)
    PROVE  Agree(v, p)' /\ Underway(v, p)' /\ Keeps(v, p)
<1>1. /\ Tip \in Nat /\ Tip' \in Nat /\ Tip <= Tip'
      /\ \A i \in 1 .. Tip : commits'[i] = commits[i]
      /\ Tip > 0 /\ base[v] \in 1 .. Tip /\ OpRefers(v)
  BY CommitsStay, TypesSplit DEF PlainTypes, OpTypes
<1>2. /\ base'[v] = base[v] /\ disk'[v] = disk[v] /\ buf'[v] = buf[v]
      /\ unsaved'[v] = unsaved[v] /\ copies'[v] = copies[v] /\ op'[v] = op[v]
      /\ dropped \subseteq dropped'
  BY DEF Frame
<1>3. Base(v)' = Base(v)
  BY <1>1, <1>2 DEF Base
<1>4. Rewritten(v)' = Rewritten(v) /\ (Pulling(v)' <=> Pulling(v))
  BY <1>1, <1>2 DEF Rewritten, Pulling, OpRefers, Here
<1>5. Live(copies[v][p])' \subseteq commits'[Tip'][p]
  <2>1. \A id \in commits[Tip][p] \cap Edits : id \in dropped' \/ id \in commits'[Tip'][p]
    BY <1>1 DEF CommitsGrow, Live
  <2> QED
    BY <1>2, <2>1 DEF Agree, Live
<1>6. Agree(v, p)'
  BY <1>2, <1>3, <1>4, <1>5 DEF Agree, Live
<1>7. Underway(v, p)'
  BY <1>1, <1>2, <1>3 DEF Underway, Carries, Writing, Merging, Live, OpRefers
<1> QED
  BY <1>2, <1>6, <1>7 DEF Keeps

\* The user edits: for the path they edit, and the others.
LEMMA EditHolds ==
    ASSUME Types, Types', NoEditor, NEW u \in Users, NEW q \in Paths, Edit(u, q),
           NEW p \in Paths \ torn', Agree(u, p), Underway(u, p)
    PROVE  Agree(u, p)' /\ Underway(u, p)' /\ Keeps(u, p)
<1>1. UNCHANGED <<world, commits, base, op>> /\ dropped \subseteq dropped' /\ torn \subseteq torn'
  BY EditFrame DEF Frame
<1>2. /\ Base(u)' = Base(u) /\ Rewritten(u)' = Rewritten(u) /\ (Pulling(u)' <=> Pulling(u))
      /\ Tip' = Tip /\ (op[u] = Idle => Rewritten(u) = {} /\ ~Pulling(u))
  BY <1>1 DEF Base, Rewritten, Pulling, Here, Tip, Idle
<1>3. /\ disk \in [Users -> Trees] /\ buf \in [Users -> Trees] /\ copies \in [Users -> Trees]
      /\ unsaved \in [Users -> SUBSET Texts]
      /\ \A r \in unsaved[u] : buf[u][r] # Absent
  BY TypesSplit DEF PlainTypes
<1> USE DEF Agree, Underway, Keeps, Live
<1>4. CASE p # q
  <2>1. /\ buf'[u][p] = buf[u][p] /\ copies'[u][p] = copies[u][p]
        /\ \/ disk'[u][p] = disk[u][p] /\ (p \in unsaved'[u] <=> p \in unsaved[u])
           \/ op[u] = Idle /\ disk'[u][p] = Flushed(u)[p] /\ p \notin unsaved'[u]
    BY <1>4, EditElsewhere
  <2>2. CASE disk'[u][p] = disk[u][p] /\ (p \in unsaved'[u] <=> p \in unsaved[u])
    BY <1>1, <1>2, <2>1, <2>2 DEF Carries, Writing, Merging
  <2>3. CASE op[u] = Idle /\ disk'[u][p] = Flushed(u)[p] /\ p \notin unsaved'[u]
    <3>1. disk'[u][p] = IF p \in unsaved[u] THEN buf[u][p] ELSE disk[u][p]
      BY <2>3 DEF Flushed
    <3>2. op'[u].pc = "idle"
      BY <1>1, <2>3 DEF Idle
    <3> QED
      BY <1>1, <1>2, <1>3, <2>1, <2>3, <3>1, <3>2
  <2> QED
    BY <2>1, <2>2, <2>3
<1>5. CASE p = q
  <2>1. CASE Open(u, p)
    <3>1. buf'[u][p] = disk[u][p] /\ UNCHANGED <<disk, copies, unsaved>> /\ buf[u][p] = Absent
      BY <1>3, <2>1 DEF Open, Trees
    <3> QED
      BY <1>1, <1>2, <1>3, <3>1, AbsentIsBare DEF Carries, Writing, Merging
  <2>2. CASE Type(u, p)
    <3>1. /\ ~Pulling(u) /\ UNCHANGED <<disk, copies>>
          /\ buf'[u][p] = IF buf[u][p] = Absent THEN {Len(made) + 1} ELSE buf[u][p] \cup {Len(made) + 1}
          /\ p \in unsaved'[u] /\ (buf[u][p] = Absent => disk[u][p] = Absent)
      BY <1>3, <2>2 DEF Type, Trees
    <3>2. op[u].pc \notin {"ff", "restore", "merge"}
      BY <3>1 DEF Pulling
    <3>3. disk[u][p] \cap Edits \subseteq disk'[u][p] \cap Edits
      BY <3>1
    <3> QED
      BY <1>1, <1>2, <1>3, <3>1, <3>2, <3>3, AbsentIsBare DEF Carries, Pulling
  <2>3. CASE Replace(u, p)
    <3>1. /\ ~Pulling(u) /\ UNCHANGED <<buf, unsaved, copies>>
          /\ disk'[u][p] = (disk[u][p] \ Absent) \cup {Len(made) + 1}
      BY <1>3, <2>3 DEF Replace, Trees
    <3>2. op[u].pc \notin {"ff", "restore", "merge"}
      BY <3>1 DEF Pulling
    <3>3. disk[u][p] \cap Edits \subseteq disk'[u][p]
      BY <3>1, AbsentIsBare
    <3>4. buf[u][p] = Absent /\ p \notin unsaved[u]
      BY <1>3, <2>3 DEF Replace, NoEditor
    <3>5. Agree(u, p)'
      BY <1>1, <1>2, <3>1, <3>3, <3>4, AbsentIsBare
    <3>6. Underway(u, p)'
      BY <1>1, <1>2, <3>1, <3>2, <3>3 DEF Carries, Pulling
    <3>7. Keeps(u, p)
      BY <1>1, <3>1, <3>3
    <3> QED
      BY <3>5, <3>6, <3>7
  <2>4. CASE AutoSave(u, p)
    <3>1. /\ p \in unsaved[u] /\ UNCHANGED <<buf, copies>> /\ buf[u][p] # Absent
          /\ disk'[u][p] = buf[u][p]
      BY <1>3, <2>4 DEF AutoSave, Trees
    <3>2. ~Pulling(u) /\ op[u].pc \notin {"ff", "restore", "merge"} /\ p \notin Rewritten(u)
      BY <3>1 DEF Pulling, Rewritten
    <3>3. Live(disk[u][p]) \subseteq buf[u][p]
      BY <3>1, <3>2
    <3> QED
      BY <1>1, <1>2, <1>3, <3>1, <3>2, <3>3, AbsentIsBare DEF Carries, Pulling
  <2>5. CASE Delete(u, p)
    <3>1. /\ UNCHANGED copies /\ disk'[u][p] = Absent /\ buf'[u][p] = Absent
          /\ Edits \cap (disk[u][p] \cup buf[u][p]) \subseteq dropped'
          /\ op[u] = Idle
      BY <1>3, <2>5 DEF Delete, Trees
    <3> QED
      BY <1>1, <1>2, <1>3, <3>1, AbsentIsBare DEF Idle
  <2>6. CASE Revert(u, p)
    <3> DEFINE want == Base(u)[p]
    <3>1. /\ UNCHANGED copies /\ op[u] = Idle /\ p \notin unsaved'[u]
          /\ disk'[u][p] = want /\ Edits \cap (Flushed(u)[p] \ want) \subseteq dropped'
          /\ Flushed(u)[p] = IF p \in unsaved[u] THEN buf[u][p] ELSE disk[u][p]
      BY <1>3, <2>6, FlushedIsTree DEF Revert, Trees, Flushed
    <3>2. buf'[u][p] = IF Absent \in {want, buf[u][p]} THEN buf[u][p] ELSE want
      BY <1>3, <2>6 DEF Revert, Trees
    <3> QED
      BY <1>1, <1>2, <1>3, <3>1, <3>2, AbsentIsBare DEF Idle
  <2>7. CASE ResolveText(u, p)
    <3>1. /\ UNCHANGED <<copies, unsaved>> /\ op[u] = Idle /\ p \notin unsaved[u]
          /\ disk'[u][p] = disk[u][p] \ {Marker}
      BY <1>3, <2>7 DEF ResolveText, Trees
    <3>2. buf'[u][p] = IF buf[u][p] = Absent THEN Absent ELSE disk'[u][p]
      BY <1>3, <2>7 DEF ResolveText, Trees
    <3>3. Marker \notin Edits
      BY DEF Marker, Edits
    <3> QED
      BY <1>1, <1>2, <1>3, <3>1, <3>2, <3>3, AbsentIsBare DEF Idle
  <2>8. ASSUME NEW mine \in BOOLEAN, ResolveCopy(u, p, mine)
        PROVE  Agree(u, p)' /\ Underway(u, p)' /\ Keeps(u, p)
    <3>1. op[u] = Idle /\ copies'[u][p] = Absent
      BY <1>3, <2>8 DEF ResolveCopy, Trees
    <3>2. CASE mine
      <4>1. UNCHANGED <<disk, buf, unsaved>> /\ Edits \cap copies[u][p] \subseteq dropped'
        BY <2>8, <3>2 DEF ResolveCopy
      <4> QED
        BY <1>1, <1>2, <1>3, <3>1, <4>1, AbsentIsBare DEF Idle
    <3>3. CASE ~mine
      <4>1. /\ Edits \cap ((disk[u][p] \cup buf[u][p]) \ copies[u][p]) \subseteq dropped'
            /\ disk'[u][p] = copies[u][p] /\ p \notin unsaved'[u]
        BY <1>3, <2>8, <3>3 DEF ResolveCopy, Trees
      <4>2. buf'[u][p] = IF buf[u][p] = Absent THEN Absent ELSE copies[u][p]
        BY <1>3, <2>8, <3>3 DEF ResolveCopy, Trees
      <4> QED
        BY <1>1, <1>2, <1>3, <3>1, <4>1, <4>2, AbsentIsBare DEF Idle
    <3> QED
      BY <3>2, <3>3
  <2> QED
    BY <1>5, <2>1, <2>2, <2>3, <2>4, <2>5, <2>6, <2>7, <2>8 DEF Edit
<1> QED
  BY <1>4, <1>5

\* No path is rewritten but by a pull or a restore.
LEMMA RewrittenWhilePulling ==
    ASSUME NEW u \in Users, ~Pulling(u)
    PROVE  Rewritten(u) = {} /\ op[u].pc \notin {"ff", "restore", "merge", "after"}
BY DEF Pulling, Rewritten

\* An operation ends before its time: what an open tab shows of an untorn path is
\* what is on disk.
LEMMA AbortHolds ==
    ASSUME Types, NEW u \in Users, Abort(u),
           UNCHANGED <<commits, base, disk, buf, unsaved, copies, dropped>>,
           NEW p \in Paths \ torn', Agree(u, p)
    PROVE  Agree(u, p)' /\ Underway(u, p)' /\ Keeps(u, p)
<1>1. op'[u] = Idle
  BY TypesSplit DEF Abort, Become, OpTypes
<1>2. Base(u)' = Base(u) /\ Rewritten(u)' = {} /\ ~Pulling(u)' /\ Tip' = Tip
  BY <1>1 DEF Base, Rewritten, Pulling, Tip, Idle
<1>3. Pulling(u) => buf[u][p] \in {Absent, disk[u][p]}
  BY DEF Abort
<1>4. buf[u][p] # Absent => Live(disk[u][p]) \subseteq buf[u][p]
  BY <1>3, RewrittenWhilePulling DEF Agree, Live
<1> QED
  BY <1>1, <1>2, <1>4 DEF Agree, Underway, Keeps, Live, Idle

\* An operation begins with a flush: user and path at rest.
LEMMA FlushHolds ==
    ASSUME Types, NEW u \in Users, Flush(u), op[u].pc \in {"idle", "diverged"},
           UNCHANGED <<commits, base, buf, copies>>, dropped \subseteq dropped',
           NEW p \in Paths, Agree(u, p)
    PROVE  /\ disk'[u][p] = Flushed(u)[p] /\ p \notin unsaved'[u]
           /\ Live(Base(u)[p])' \subseteq disk'[u][p] \cup copies'[u][p]
           /\ buf[u][p] # Absent => Live(disk[u][p])' \subseteq buf'[u][p]
           /\ buf[u][p] # Absent => Live(disk'[u][p]) \subseteq buf'[u][p]
           /\ Live(buf[u][p]) \subseteq disk'[u][p]
           /\ Live(copies[u][p]) \subseteq commits'[Tip'][p]
           /\ Keeps(u, p)
           /\ Live(disk[u][p]) \subseteq disk'[u][p]
<1>1. /\ disk'[u] = Flushed(u) /\ unsaved'[u] = {}
      /\ Flushed(u)[p] = IF p \in unsaved[u] THEN buf[u][p] ELSE disk[u][p]
      /\ (p \in unsaved[u] => buf[u][p] # Absent)
  BY TypesFlushed, TypesSplit DEF Flushed, PlainTypes
<1>2. Base(u)' = Base(u) /\ Rewritten(u) = {} /\ Tip' = Tip
  BY DEF Base, Rewritten, Tip
<1>3. buf[u][p] # Absent => Live(disk[u][p]) \subseteq buf[u][p]
  BY <1>2 DEF Agree
<1> QED
  BY <1>1, <1>2, <1>3 DEF Agree, Live, Keeps

\* Publish and what follows it.
LEMMA PublishingHolds ==
    ASSUME Types, Types', NEW u \in Users,
           Publish(u) \/ Upload(u) \/ Push(u) \/ Pushed(u),
           NEW p \in Paths \ torn', CommitsGrow(p)', Agree(u, p), Underway(u, p)
    PROVE  Agree(u, p)' /\ Underway(u, p)' /\ Keeps(u, p)
<1>1. /\ op \in [Users -> OpRecs] /\ base \in [Users -> 1 .. Tip] /\ OpRefers(u) /\ PlainTypes
      /\ Tip \in Nat /\ Tip > 0
  BY TypesSplit DEF PlainTypes, OpTypes, Tip
<1>2. CASE Publish(u)
  <2>1. op'[u] = Commit(Flushed(u), base[u], 0) /\ UNCHANGED <<commits, base, buf, copies, dropped>>
    BY <1>1, <1>2 DEF Publish, Become
  <2>2. /\ disk'[u][p] = Flushed(u)[p] /\ p \notin unsaved'[u]
        /\ Live(Base(u)[p])' \subseteq disk'[u][p] \cup copies'[u][p]
        /\ buf[u][p] # Absent => Live(disk'[u][p]) \subseteq buf'[u][p]
        /\ Live(buf[u][p]) \subseteq disk'[u][p]
        /\ Live(copies[u][p]) \subseteq commits'[Tip'][p]
        /\ Keeps(u, p)
    <3>1. Flush(u) /\ op[u].pc \in {"idle", "diverged"}
      BY <1>2 DEF Publish, Idle
    <3> QED
      BY <2>1, <3>1, FlushHolds
  <2>3. Rewritten(u)' = {} /\ ~Pulling(u)' /\ op'[u].pc = "upload" /\ op'[u].back = 0
        /\ op'[u].live = Flushed(u)
    BY <2>1 DEF Rewritten, Pulling, Commit
  <2>4. Agree(u, p)'
    BY <2>1, <2>2, <2>3 DEF Agree, Live
  <2>5. Underway(u, p)'
    BY <2>1, <2>2, <2>3 DEF Underway, Carries, Live
  <2> QED
    BY <2>2, <2>4, <2>5
<1>3. CASE Upload(u)
  <2> DEFINE live == op[u].live
             changed == {r \in Here(live) : live[r] # commits[op[u].on][r]}
             again == [r \in Paths |-> IF r \in changed THEN disk[u][r] ELSE live[r]]
  <2>1. UNCHANGED <<commits, base, disk, buf, unsaved, copies, dropped>>
    BY <1>3 DEF Upload
  <2>2. CASE Abort(u)
    BY <2>1, <2>2, AbortHolds
  <2>3. CASE Become(u, [pc |-> "push", tree |-> again, on |-> op[u].on, back |-> op[u].back])
    <3>1. op'[u].pc = "push" /\ op'[u].back = op[u].back /\ op'[u].tree = again
      BY <1>1, <2>3 DEF Become
    <3>2. again[p] = live[p] \/ again[p] = disk[u][p]
      OBVIOUS
    <3>3. Rewritten(u)' = Rewritten(u) /\ (Pulling(u)' <=> Pulling(u)) /\ Base(u)' = Base(u)
      BY <1>3, <2>1, <3>1 DEF Rewritten, Pulling, Base, Upload, Here
    <3>4. Agree(u, p)' /\ Keeps(u, p)
      BY <2>1, <3>3 DEF Agree, Live, Tip, Keeps
    <3>5. Carries(u, p, live) /\ op[u].pc = "upload"
      BY <1>3 DEF Upload, Underway
    <3>6. Underway(u, p)'
      BY <2>1, <3>1, <3>2, <3>3, <3>5 DEF Underway, Carries, Live, Agree
    <3> QED
      BY <3>4, <3>6
  <2> QED
    BY <1>3, <2>2, <2>3 DEF Upload
<1>4. CASE Push(u)
  <2>1. UNCHANGED <<base, disk, buf, unsaved, copies>>
    BY <1>4 DEF Push
  <2>2. CASE op[u].on = Tip
    <3>1. /\ commits' = Append(commits, op[u].tree)
          /\ op'[u] = [pc |-> "pushed", at |-> Tip + 1, back |-> op[u].back]
          /\ dropped \subseteq dropped'
      BY <1>1, <1>4, <2>2 DEF Push, Become
    <3>2. op[u].tree \in Trees
      BY <1>1, <1>4, OpKinds DEF Push
    <3>3. /\ Tip' = Tip + 1 /\ commits'[Tip'] = op[u].tree
          /\ \A i \in 1 .. Tip : commits'[i] = commits[i]
      BY <1>1, <3>1, <3>2 DEF PlainTypes, Tip
    <3>4. base[u] \in 1 .. Tip /\ op[u].back \in 0 .. Tip
      BY <1>1, <1>4 DEF OpRefers, Push
    <3>10. /\ op[u].pc = "push" /\ op'[u].pc = "pushed" /\ op'[u].back = op[u].back
           /\ commits'[op'[u].at] = op[u].tree
           /\ op[u].back # 0 => commits'[op[u].back] = commits[op[u].back]
           /\ commits'[base[u]] = commits[base[u]]
      <4>1. op[u].pc = "push" /\ op'[u].pc = "pushed" /\ op'[u].back = op[u].back /\ op'[u].at = Tip + 1
        BY <1>4, <3>1 DEF Push
      <4>2. op[u].back # 0 => op[u].back \in 1 .. Tip
        BY <1>1, <3>4
      <4> QED
        BY <3>3, <3>4, <4>1, <4>2
    <3>5. Rewritten(u)' = Rewritten(u) /\ (Pulling(u)' <=> Pulling(u)) /\ Base(u)' = Base(u)
      BY <2>1, <3>10 DEF Rewritten, Pulling, Base, Here
    <3>6. \A id \in commits[Tip][p] \cap Edits : id \in dropped' \/ id \in commits'[Tip'][p]
      BY <1>1, <3>3 DEF CommitsGrow, Live
    <3>7. Agree(u, p)'
      BY <2>1, <3>1, <3>5, <3>6 DEF Agree, Live
    <3>8. Carries(u, p, op[u].tree)
      BY <1>4 DEF Push, Underway
    <3>9. Underway(u, p)'
      BY <2>1, <3>1, <3>8, <3>10 DEF Underway, Carries, Live
    <3> QED
      BY <2>1, <3>7, <3>9 DEF Keeps
  <2>3. CASE op[u].on # Tip
    <3>1. UNCHANGED <<commits, dropped>>
      BY <1>4, <2>3 DEF Push
    <3>2. CASE Abort(u)
      BY <2>1, <3>1, <3>2, AbortHolds
    <3>3. CASE op[u].back = 0 /\ Become(u, [pc |-> "diverged"])
      <4>1. op'[u].pc = "diverged"
        BY <1>1, <3>3 DEF Become
      <4>2. ~Pulling(u) /\ ~Pulling(u)' /\ Rewritten(u)' = {} /\ Base(u)' = Base(u)
        BY <1>4, <2>1, <3>1, <3>3, <4>1 DEF Pulling, Rewritten, Base, Push
      <4>3. Agree(u, p)'
        BY <2>1, <3>1, <4>2, RewrittenWhilePulling DEF Agree, Live, Tip
      <4> QED
        BY <2>1, <4>1, <4>3 DEF Underway, Keeps
    <3> QED
      BY <1>4, <2>3, <3>2, <3>3 DEF Push
  <2> QED
    BY <2>2, <2>3
<1>5. CASE Pushed(u)
  <2>1. /\ UNCHANGED <<commits, disk, buf, unsaved, copies, dropped>>
        /\ base'[u] = op[u].at /\ op[u].pc = "pushed"
    BY <1>1, <1>5 DEF Pushed
  <2>2. op'[u] = IF op[u].back = 0 THEN Idle
                 ELSE [pc |-> "after", touched |-> Here(commits[op[u].back])]
    BY <1>1, <1>5 DEF Pushed, Become
  <2>3. Rewritten(u)' = Rewritten(u) /\ (Pulling(u)' => Pulling(u))
    BY <2>1, <2>2 DEF Rewritten, Pulling, Idle
  <2>4. Base(u)' = commits[op[u].at]
    BY <2>1 DEF Base
  <2>5. Live(commits[op[u].at][p]) \subseteq disk[u][p] \cup copies[u][p]
    BY <2>1 DEF Underway
  <2>6. Agree(u, p)'
    BY <2>1, <2>3, <2>4, <2>5 DEF Agree, Live, Tip
  <2> QED
    BY <2>1, <2>2, <2>6 DEF Underway, Keeps, Idle
<1> QED
  BY <1>2, <1>3, <1>4, <1>5

\* A publish or a restore adds a commit that has what the head had.
LEMMA PushGrows ==
    ASSUME Types, NEW u \in Users, Push(u), op[u].on = Tip,
           NEW p \in Paths \ torn', CommitsGrow(p), Agree(u, p), Underway(u, p)
    PROVE  CommitsGrow(p)'
<1>1. /\ op \in [Users -> OpRecs] /\ base \in [Users -> 1 .. Tip] /\ OpRefers(u) /\ PlainTypes
      /\ Tip \in Nat /\ Tip > 0
  BY TypesSplit DEF PlainTypes, OpTypes, Tip
<1>2. commits' = Append(commits, op[u].tree) /\ dropped' = dropped \cup PassedOver(u) /\ op[u].pc = "push"
  BY DEF Push
<1>3. op[u].tree \in Trees
  BY <1>1, <1>2, OpKinds
<1>4. /\ Tip' = Tip + 1 /\ commits'[Tip'] = op[u].tree
      /\ \A i \in 1 .. Tip : commits'[i] = commits[i]
  BY <1>1, <1>2, <1>3 DEF PlainTypes, Tip
<1>5. Carries(u, p, op[u].tree)
  BY <1>2 DEF Underway
<1>6. \A id \in Edits \cap commits[Tip][p] : id \in dropped' \/ id \in op[u].tree[p]
  <2>1. CASE op[u].back # 0
    BY <1>2, <2>1 DEF PassedOver
  <2>2. CASE op[u].back = 0
    <3>1. Base(u) = commits[Tip]
      BY <1>1, <1>2, <2>2 DEF OpRefers, Base
    <3>2. \A id \in copies[u][p] \cap commits[Tip][p] \cap Edits : id \in dropped' \/ id \in op[u].tree[p]
      BY <1>2, <2>2 DEF PassedOver
    <3> QED
      BY <1>2, <1>5, <2>2, <3>1, <3>2 DEF Carries, Live
  <2> QED
    BY <2>1, <2>2
<1>7. ASSUME NEW i \in 1 .. Tip', NEW j \in 1 .. Tip', i <= j, NEW id \in Edits \cap commits'[i][p],
             id \notin dropped'
      PROVE  id \in commits'[j][p]
  <2>1. CASE j \in 1 .. Tip
    <3>1. i \in 1 .. Tip
      BY <1>1, <1>7, <2>1
    <3> QED
      BY <1>2, <1>4, <1>7, <2>1, <3>1 DEF CommitsGrow, Live
  <2>2. CASE j = Tip' /\ i \in 1 .. Tip
    <3>2. Tip \in 1 .. Tip /\ i <= Tip /\ i \in 1 .. Tip
      BY <1>1, <2>2
    <3>3. id \in Live(commits[i][p])
      BY <1>2, <1>4, <1>7, <3>2 DEF Live
    <3>1. id \in commits[Tip][p]
      BY <3>2, <3>3 DEF CommitsGrow
    <3> QED
      BY <1>4, <1>6, <1>7, <2>2, <3>1
  <2>3. CASE i = Tip' /\ j = Tip'
    BY <1>7, <2>3
  <2> QED
    BY <1>1, <1>4, <1>7, <2>1, <2>2, <2>3
<1> QED
  BY <1>7 DEF CommitsGrow, Live

\* Pull, merge and restore.
LEMMA PullingHolds ==
    ASSUME Types, Types', Fenced, NEW u \in Users,
           \/ Pull(u) \/ MergeStart(u) \/ Persist(u) \/ AfterPull(u) \/ CommitRestored(u)
           \/ \E t \in 1 .. Tip - 1 : Restore(u, t),
           NEW p \in Paths \ torn', CommitsGrow(p), Agree(u, p), Underway(u, p)
    PROVE  Agree(u, p)' /\ Underway(u, p)' /\ Keeps(u, p)
<1>1. /\ op \in [Users -> OpRecs] /\ base \in [Users -> 1 .. Tip] /\ OpRefers(u) /\ PlainTypes
      /\ Tip \in Nat /\ Tip > 0 /\ op[u] \in OpRecs
  BY TypesSplit DEF PlainTypes, OpTypes, Tip
<1>2. commits' = commits /\ copies' = copies /\ Tip' = Tip /\ dropped \subseteq dropped'
  BY DEF Pull, MergeStart, Persist, AfterPull, CommitRestored, Restore, Tip
<1>3. \A i \in 1 .. Tip : p \notin world.paths => commits[i][p] \cap Edits = {} /\ disk[u][p] \cap Edits = {}
  BY AbsentIsBare DEF Fenced, Outside
<1>4. p \in Here(Flushed(u)) <=> Flushed(u)[p] # Absent
  BY DEF Here
<1>5. CASE Pull(u)
  <2>1. Flush(u) /\ op[u].pc = "idle" /\ UNCHANGED <<base, buf, dropped>>
    BY <1>5 DEF Pull, Idle
  <2>2. /\ disk'[u][p] = Flushed(u)[p] /\ p \notin unsaved'[u]
        /\ Live(Base(u)[p])' \subseteq disk'[u][p] \cup copies'[u][p]
        /\ buf[u][p] # Absent => Live(disk'[u][p]) \subseteq buf'[u][p]
        /\ Live(buf[u][p]) \subseteq disk'[u][p]
        /\ Live(copies[u][p]) \subseteq commits'[Tip'][p]
        /\ Keeps(u, p)
    BY <1>2, <2>1, FlushHolds
  <2>3. CASE Flushed(u) = Base(u) /\ Become(u, Materialize(u, "ff", Tip, Tip))
    <3>1. op'[u] = Materialize(u, "ff", Tip, Tip)
      BY <1>1, <2>3 DEF Become
    <3>2. /\ op'[u].pc = "ff" /\ op'[u].todo = world.paths /\ op'[u].here = Here(Flushed(u))
          /\ op'[u].back = Tip
      BY <3>1 DEF Materialize
    <3>3. Live(Base(u)[p]) \subseteq commits[Tip][p]
      BY <1>1 DEF Base, CommitsGrow
    <3>4. Agree(u, p)'
      BY <1>2, <2>1, <2>2 DEF Agree, Live
    <3>5. Flushed(u)[p] # Absent \/ Flushed(u)[p] \cap Edits = {}
      BY AbsentIsBare
    <3>6. p \notin world.paths => disk'[u][p] \cap Edits = {} /\ commits[Tip][p] \cap Edits = {}
      BY <1>1, <1>3, <2>2, <2>3 DEF Base
    <3>7. Writing(u, p)'
      BY <1>2, <1>4, <2>1, <2>2, <2>3, <3>2, <3>3, <3>5, <3>6 DEF Writing, Live
    <3>8. Underway(u, p)'
      BY <3>2, <3>7 DEF Underway
    <3> QED
      BY <2>2, <3>4, <3>8
  <2>4. CASE Become(u, [pc |-> "diverged"])
    <3>1. op'[u].pc = "diverged"
      BY <1>1, <2>4 DEF Become
    <3>2. Rewritten(u)' = {} /\ ~Pulling(u)'
      BY <3>1 DEF Rewritten, Pulling
    <3> QED
      BY <1>2, <2>1, <2>2, <3>1, <3>2 DEF Agree, Underway, Live
  <2> QED
    BY <1>5, <2>3, <2>4 DEF Pull
<1>6. CASE MergeStart(u)
  <2>1. op[u].pc = "diverged" /\ UNCHANGED <<base, buf, dropped>>
    BY <1>6 DEF MergeStart
  <2>2. CASE Become(u, Idle) /\ UNCHANGED <<disk, unsaved>>
    <3>1. op'[u] = Idle /\ Rewritten(u) = {}
      BY <1>1, <2>1, <2>2 DEF Become, Rewritten
    <3>2. Rewritten(u)' = {} /\ ~Pulling(u)' /\ op'[u].pc = "idle" /\ Base(u)' = Base(u)
      BY <1>2, <2>1, <3>1 DEF Rewritten, Pulling, Idle, Base
    <3> QED
      BY <1>2, <2>1, <2>2, <3>1, <3>2 DEF Agree, Underway, Live, Keeps
  <2>3. CASE Flush(u) /\ Become(u, [pc |-> "merge", at |-> Tip, todo |-> world.paths,
                             here |-> Here(Flushed(u)), cur |-> NoPath, touched |-> {}])
    <3>1. /\ disk'[u][p] = Flushed(u)[p] /\ p \notin unsaved'[u]
          /\ Live(Base(u)[p])' \subseteq disk'[u][p] \cup copies'[u][p]
          /\ buf[u][p] # Absent => Live(disk'[u][p]) \subseteq buf'[u][p]
          /\ Live(buf[u][p]) \subseteq disk'[u][p]
          /\ Live(copies[u][p]) \subseteq commits'[Tip'][p]
          /\ Keeps(u, p)
      BY <1>2, <2>1, <2>3, FlushHolds
    <3>2. /\ op'[u].pc = "merge" /\ op'[u].todo = world.paths /\ op'[u].here = Here(Flushed(u))
          /\ op'[u].cur.path = {} /\ op'[u].touched = {} /\ op'[u].at = Tip
      BY <1>1, <2>3 DEF Become, NoPath
    <3>3. Agree(u, p)'
      BY <1>2, <2>1, <3>1, <3>2 DEF Agree, Live
    <3>4. Merging(u, p)'
      BY <1>1, <1>2, <1>3, <1>4, <3>1, <3>2, AbsentIsBare DEF Merging, Live
    <3> QED
      BY <3>1, <3>2, <3>3, <3>4 DEF Underway
  <2> QED
    BY <1>6, <2>2, <2>3 DEF MergeStart
<1>7. CASE Persist(u)
  <2>1. /\ UNCHANGED <<disk, buf, unsaved, dropped>> /\ op[u].pc \in {"ff", "merge"} /\ op[u].todo = {}
        /\ base'[u] = op[u].at /\ op[u].at \in 1 .. Tip
        /\ op[u].pc = "merge" => op[u].cur = NoPath
    BY <1>1, <1>7 DEF Persist, OpRefers
  <2>2. op'[u] = [pc |-> "after", touched |->
                    IF op[u].pc = "ff" THEN Here(commits[op[u].at]) ELSE op[u].touched]
    BY <1>1, <1>7 DEF Persist, Become
  <2>3. Base(u)' = commits[op[u].at]
    BY <1>2, <2>1 DEF Base
  <2>4. Pulling(u) /\ Pulling(u)'
    BY <2>1, <2>2 DEF Pulling
  <2>5. Live(commits[op[u].at][p]) \subseteq disk[u][p] \cup copies[u][p]
    BY <1>1, <2>1 DEF Underway, Writing, Merging, Live, NoPath, OpRefers
  <2>6. p \notin Rewritten(u)' /\ buf[u][p] # Absent => Live(disk[u][p]) \subseteq buf[u][p]
    <3>1. CASE op[u].pc = "ff"
      <4>1. disk[u][p] \cap Edits = commits[op[u].at][p] \cap Edits
        BY <1>1, <2>1, <3>1 DEF Underway, Writing, OpRefers
      <4>2. p \in Rewritten(u)' <=> commits[op[u].at][p] # Absent
        BY <2>2, <3>1 DEF Rewritten, Here
      <4> QED
        BY <4>1, <4>2, AbsentIsBare DEF Live
    <3>2. CASE op[u].pc = "merge"
      BY <2>2, <3>2 DEF Rewritten, Agree
    <3> QED
      BY <2>1, <3>1, <3>2
  <2>7. Agree(u, p)'
    BY <1>2, <2>1, <2>3, <2>4, <2>5, <2>6 DEF Agree, Live
  <2> QED
    BY <1>2, <2>1, <2>2, <2>7 DEF Underway, Keeps
<1>8. CASE AfterPull(u)
  <2> DEFINE fresh == {r \in op[u].touched : buf[u][r] # Absent /\ disk[u][r] # Absent}
  <2>1. UNCHANGED <<base, disk, dropped>> /\ op[u].pc = "after" /\ op'[u] = Idle
    BY <1>1, <1>8 DEF AfterPull, Become
  <2>2. /\ buf'[u][p] = (IF p \in fresh THEN disk[u][p] ELSE buf[u][p])
        /\ p \in unsaved'[u] <=> p \in unsaved[u] \ fresh
    BY <1>1, <1>8 DEF AfterPull, PlainTypes
  <2>3. /\ Base(u)' = Base(u) /\ Rewritten(u)' = {} /\ Rewritten(u) = op[u].touched
        /\ Pulling(u) /\ ~Pulling(u)'
    BY <1>2, <2>1 DEF Base, Rewritten, Pulling, Idle
  <2>4. buf'[u][p] # Absent => Live(disk[u][p]) \subseteq buf'[u][p]
    BY <2>2, <2>3, AbsentIsBare DEF Agree, Live
  <2>5. Live(buf'[u][p]) \subseteq disk[u][p]
    BY <2>2, <2>3, AbsentIsBare DEF Agree, Live
  <2>6. Agree(u, p)'
    BY <1>2, <2>1, <2>3, <2>4, <2>5 DEF Agree, Live
  <2>7. Keeps(u, p)
    BY <1>2, <2>1, <2>2, <2>3 DEF Keeps, Agree, Live
  <2> QED
    BY <2>1, <2>6, <2>7 DEF Underway, Idle
<1>9. CASE CommitRestored(u)
  <2>1. /\ UNCHANGED <<base, disk, buf, unsaved, dropped>> /\ op[u].pc = "restore" /\ op[u].todo = {}
    BY <1>9 DEF CommitRestored
  <2>2. CASE Abort(u)
    BY <1>2, <2>1, <2>2, AbortHolds
  <2>3. CASE Become(u, Commit(disk[u], op[u].at, op[u].back))
    <3>1. op'[u].pc = "upload" /\ op'[u].back = op[u].back /\ op'[u].live = disk[u]
      BY <1>1, <2>3 DEF Become, Commit
    <3>2. op[u].back \in 1 .. Tip /\ op[u].back # 0
      BY <1>1, <2>1 DEF OpRefers
    <3>3. Pulling(u) /\ Pulling(u)' /\ Rewritten(u)' = Here(commits[op[u].back]) /\ Base(u)' = Base(u)
      BY <1>2, <2>1, <3>1, <3>2 DEF Pulling, Rewritten, Base, Here
    <3>4. disk[u][p] \cap Edits = commits[op[u].back][p] \cap Edits
      BY <2>1 DEF Underway, Writing
    <3>5. p \notin Rewritten(u)' => Live(disk[u][p]) \subseteq buf[u][p]
      BY <3>3, <3>4, AbsentIsBare DEF Here, Live
    <3>6. Agree(u, p)'
      BY <1>2, <2>1, <3>3, <3>5 DEF Agree, Live
    <3>7. Underway(u, p)'
      BY <1>2, <2>1, <3>1, <3>2, <3>4 DEF Underway, Carries, Live
    <3> QED
      BY <1>2, <2>1, <3>6, <3>7 DEF Keeps
  <2> QED
    BY <1>9, <2>2, <2>3 DEF CommitRestored
<1>10. ASSUME NEW t \in 1 .. Tip - 1, Restore(u, t)
       PROVE  Agree(u, p)' /\ Underway(u, p)' /\ Keeps(u, p)
  <2>1. /\ Flush(u) /\ op[u].pc = "idle" /\ UNCHANGED <<base, buf>>
        /\ Edits \cap (Flushed(u)[p] \ commits[t][p]) \subseteq dropped'
    BY <1>10 DEF Restore, Idle
  <2>2. /\ disk'[u][p] = Flushed(u)[p] /\ p \notin unsaved'[u]
        /\ Live(Base(u)[p])' \subseteq disk'[u][p] \cup copies'[u][p]
        /\ buf[u][p] # Absent => Live(disk'[u][p]) \subseteq buf'[u][p]
        /\ Live(buf[u][p]) \subseteq disk'[u][p]
        /\ Live(copies[u][p]) \subseteq commits'[Tip'][p]
        /\ Keeps(u, p)
    BY <1>2, <2>1, FlushHolds
  <2>3. /\ op'[u].pc = "restore" /\ op'[u].todo = world.paths /\ op'[u].here = Here(Flushed(u))
        /\ op'[u].back = t
    BY <1>1, <1>10 DEF Restore, Become, Materialize
  <2>4. Rewritten(u)' = Paths \ world.paths
    BY <2>3 DEF Rewritten
  <2>5. Agree(u, p)'
    BY <1>2, <2>1, <2>2 DEF Agree, Live
  <2>6. p \notin world.paths => disk'[u][p] \cap Edits = {} /\ commits[t][p] \cap Edits = {}
    <3>1. p \notin world.paths => p \notin unsaved[u]
      BY DEF Fenced, Outside
    <3>2. t \in 1 .. Tip
      BY <1>1
    <3> QED
      BY <1>1, <1>3, <2>2, <3>1, <3>2 DEF Flushed
  <2>7. Writing(u, p)'
    BY <1>2, <1>4, <2>1, <2>2, <2>3, <2>6, AbsentIsBare DEF Writing, Live
  <2> QED
    BY <2>2, <2>3, <2>5, <2>7 DEF Underway
<1> QED
  BY <1>5, <1>6, <1>7, <1>8, <1>9, <1>10

\* One path of a pull or a restore is written.
LEMMA FastForwardHolds ==
    ASSUME Types, NEW u \in Users, NEW q \in world.paths, FastForward(u, q),
           NEW p \in Paths \ torn', Agree(u, p), Underway(u, p)
    PROVE  Agree(u, p)' /\ Underway(u, p)' /\ Keeps(u, p)
<1>1. /\ op \in [Users -> OpRecs] /\ OpRefers(u) /\ q \in Paths /\ disk \in [Users -> Trees]
      /\ Tip \in Nat /\ Tip > 0 /\ op[u] \in OpRecs
  BY TypesSplit DEF PlainTypes, OpTypes, Tip
<1>2. UNCHANGED <<commits, base, buf, unsaved, copies, dropped>> /\ op[u].pc \in {"ff", "restore"}
  BY DEF FastForward
<1>3. /\ op'[u].pc = op[u].pc /\ op'[u].todo = op[u].todo \ {q} /\ op'[u].here = op[u].here
      /\ op'[u].back = op[u].back
  <2>1. op[u] \in [pc : {"ff", "restore"}, at : Nat, back : Nat, todo : SUBSET Paths, here : SUBSET Paths]
    BY <1>1, <1>2, OpKinds
  <2>2. op'[u] = [op[u] EXCEPT !.todo = @ \ {q}]
    BY <1>1 DEF FastForward, Become
  <2> QED
    BY <2>1, <2>2
<1>4. /\ Base(u)' = Base(u) /\ Tip' = Tip /\ Pulling(u) /\ Pulling(u)'
      /\ Rewritten(u) = Paths \ op[u].todo /\ Rewritten(u)' = Paths \ op'[u].todo
  BY <1>2, <1>3 DEF Base, Tip, Pulling, Rewritten
<1>5. Writing(u, p)
  BY <1>2 DEF Underway
<1>6. CASE p # q
  <2>1. disk'[u][p] = disk[u][p]
    BY <1>6, BringElsewhere DEF Bring
  <2>2. Agree(u, p)'
    BY <1>2, <1>3, <1>4, <1>6, <2>1 DEF Agree, Live
  <2>3. Writing(u, p)'
    BY <1>2, <1>3, <1>5, <1>6, <2>1 DEF Writing, Live
  <2> QED
    BY <1>2, <1>3, <2>1, <2>2, <2>3 DEF Underway, Keeps
<1>7. CASE p = q
  <2> DEFINE want == commits[op[u].back][p]
  <2>1. p \in op[u].todo /\ disk'[u][p] = IF want = Absent /\ p \notin op[u].here THEN disk[u][p] ELSE want
    BY <1>1, <1>7 DEF FastForward, Trees
  <2>2. Live(disk[u][p]) \subseteq want /\ (p \notin op[u].here => disk[u][p] \cap Edits = {})
    BY <1>5, <2>1 DEF Writing
  <2>3. disk'[u][p] \cap Edits = want \cap Edits
    BY <2>1, <2>2, AbsentIsBare
  <2>4. Live(disk[u][p]) \subseteq disk'[u][p]
    BY <2>2, <2>3 DEF Live
  <2>5. Agree(u, p)'
    BY <1>2, <1>3, <1>4, <1>7, <2>4 DEF Agree, Live
  <2>6. Writing(u, p)'
    BY <1>2, <1>3, <1>7, <2>3 DEF Writing
  <2> QED
    BY <1>2, <1>3, <2>4, <2>5, <2>6 DEF Underway, Keeps, Live
<1> QED
  BY <1>6, <1>7

\* One path of a merge: its file is read.
LEMMA MergeReadHolds ==
    ASSUME Types, NEW u \in Users, NEW q \in world.paths, MergeRead(u, q),
           NEW p \in Paths \ torn', Agree(u, p), Underway(u, p)
    PROVE  Agree(u, p)' /\ Underway(u, p)' /\ Keeps(u, p)
<1>1. op \in [Users -> OpRecs] /\ op[u] \in OpRecs
  BY TypesSplit DEF OpTypes
<1>2. /\ UNCHANGED <<commits, base, disk, buf, unsaved, copies, dropped>> /\ op[u].pc = "merge"
      /\ q \in op[u].todo /\ op[u].cur = NoPath
  BY DEF MergeRead
<1>3. /\ op'[u].pc = op[u].pc /\ op'[u].todo = op[u].todo \ {q} /\ op'[u].here = op[u].here
      /\ op'[u].at = op[u].at /\ op'[u].touched = op[u].touched
      /\ op'[u].cur.path = {q}
      /\ op'[u].cur.was = IF q \in op[u].here THEN disk[u][q] ELSE Absent
  <2> DEFINE cur == [path |-> {q}, was |-> IF q \in op[u].here THEN disk[u][q] ELSE Absent]
  <2>1. op[u] \in [pc : {"merge"}, at : Nat, todo : SUBSET Paths, here : SUBSET Paths,
                   cur : [path : SUBSET Paths, was : Contents], touched : SUBSET Paths]
    BY <1>1, <1>2, OpKinds
  <2>2. op'[u] = [op[u] EXCEPT !.todo = @ \ {q}, !.cur = cur]
    BY <1>1 DEF MergeRead, Become
  <2>3. op'[u].cur = cur
    BY <2>1, <2>2
  <2> QED
    BY <2>1, <2>2, <2>3
<1>4. /\ Base(u)' = Base(u) /\ Tip' = Tip /\ Rewritten(u)' = Rewritten(u) /\ (Pulling(u)' <=> Pulling(u))
  BY <1>2, <1>3 DEF Base, Tip, Pulling, Rewritten
<1>5. Agree(u, p)'
  BY <1>2, <1>4 DEF Agree, Live
<1>6. Merging(u, p) /\ op[u].cur.path = {}
  BY <1>2 DEF Underway, NoPath
<1>7. Merging(u, p)'
  BY <1>2, <1>3, <1>6, AbsentIsBare DEF Merging, Live
<1> QED
  BY <1>2, <1>3, <1>5, <1>7 DEF Underway, Keeps

\* One path of a merge is decided.  It is enough that the file keeps its live edits,
\* that file and copy have those of the base and of the merged head, and that the
\* editor is told of a file that changed.
LEMMA MergedHolds ==
    ASSUME Types, NEW u \in Users, NEW q \in world.paths, NEW now, NEW more \in SUBSET {q},
           op[u].pc = "merge", op[u].cur.path = {q}, Merged(u, q, now, more),
           UNCHANGED <<commits, base, buf, unsaved, dropped>>,
           NEW p \in Paths, Agree(u, p), Underway(u, p),
           p # q => disk'[u][p] = disk[u][p] /\ copies'[u][p] = copies[u][p],
           p = q => /\ Live(disk[u][q]) \subseteq now
                    /\ Live(commits[op[u].at][q]) \subseteq now \cup copies'[u][q]
                    /\ Live(Base(u)[q]) \subseteq now \cup copies'[u][q]
                    /\ Live(copies'[u][q]) \subseteq commits[Tip][q]
                    /\ now = disk[u][q] \/ q \in more
    PROVE  Agree(u, p)' /\ Underway(u, p)' /\ Keeps(u, p)
<1>1. /\ op \in [Users -> OpRecs] /\ op[u] \in OpRecs /\ disk \in [Users -> Trees] /\ q \in Paths
  BY TypesSplit DEF PlainTypes, OpTypes
<1>2. /\ op'[u].pc = "merge" /\ op'[u].todo = op[u].todo /\ op'[u].here = op[u].here
      /\ op'[u].at = op[u].at /\ op'[u].touched = op[u].touched \cup more
      /\ op'[u].cur.path = {}
  <2>1. op[u] \in [pc : {"merge"}, at : Nat, todo : SUBSET Paths, here : SUBSET Paths,
                   cur : [path : SUBSET Paths, was : Contents], touched : SUBSET Paths]
    BY <1>1, OpKinds
  <2>2. op'[u] = [op[u] EXCEPT !.cur = NoPath, !.touched = @ \cup more]
    BY <1>1 DEF Merged, Become
  <2>3. op'[u].cur = NoPath
    BY <2>1, <2>2
  <2> QED
    BY <2>1, <2>2, <2>3 DEF NoPath
<1>3. /\ Base(u)' = Base(u) /\ Tip' = Tip /\ Pulling(u) /\ Pulling(u)'
      /\ Rewritten(u) = op[u].touched /\ Rewritten(u)' = op[u].touched \cup more
  BY <1>2 DEF Base, Tip, Pulling, Rewritten
<1>4. Merging(u, p)
  BY DEF Underway
<1>5. CASE p # q
  <2>1. Agree(u, p)'
    BY <1>3, <1>5 DEF Agree, Live
  <2>2. Merging(u, p)'
    BY <1>2, <1>4, <1>5 DEF Merging, Live
  <2> QED
    BY <1>2, <1>5, <2>1, <2>2 DEF Underway, Keeps
<1>6. CASE p = q
  <2>1. disk'[u][p] = now
    BY <1>1, <1>6 DEF Merged, Trees
  <2>2. Agree(u, p)'
    BY <1>3, <1>6, <2>1 DEF Agree, Live
  <2>3. p \notin op[u].todo
    BY <1>6, TypesSplit DEF OpTypes, OpRefers, NoPath
  <2>4. Merging(u, p)'
    BY <1>2, <1>6, <2>1, <2>3 DEF Merging, Live
  <2>5. Keeps(u, p)
    BY <1>3, <1>6, <2>1 DEF Keeps, Agree, Live
  <2> QED
    BY <1>2, <2>2, <2>4, <2>5 DEF Underway
<1> QED
  BY <1>5, <1>6

\* However a path of a merge is decided, nothing live is lost of an untorn one.
LEMMA MergeHolds ==
    ASSUME Types, NEW u \in Users, NEW q \in world.paths,
           MergeText(u, q) \/ MergeBinary(u, q) \/ MergeRemote(u, q) \/ MergeKeep(u, q),
           NEW p \in Paths \ torn', CommitsGrow(p), Agree(u, p), Underway(u, p)
    PROVE  Agree(u, p)' /\ Underway(u, p)' /\ Keeps(u, p)
<1> DEFINE ours == op[u].cur.was
           theirs == commits[op[u].at][q]
           b == Base(u)[q]
<1>1. /\ op \in [Users -> OpRecs] /\ OpRefers(u) /\ q \in Paths
      /\ Tip \in Nat /\ Tip > 0 /\ op[u] \in OpRecs /\ base[u] \in 1 .. Tip
      /\ disk \in [Users -> Trees] /\ copies \in [Users -> Trees]
  BY TypesSplit DEF PlainTypes, OpTypes, Tip
<1>2. /\ UNCHANGED <<commits, base, buf, unsaved, dropped>> /\ op[u].pc = "merge" /\ op[u].cur.path = {q}
  BY DEF MergeText, MergeBinary, MergeRemote, PassedBy, MergeKeep
<1>3. p # q => disk'[u][p] = disk[u][p] /\ copies'[u][p] = copies[u][p]
  BY BringElsewhere DEF Bring
<1>4. p = q => /\ ours \cap Edits = disk[u][q] \cap Edits
               /\ q \notin op[u].here => disk[u][q] \cap Edits = {}
  BY <1>2 DEF Underway, Merging
<1>5. p = q => Live(b) \subseteq theirs /\ Live(theirs) \subseteq commits[Tip][q]
  <2>1. op[u].at \in base[u] .. Tip
    BY <1>1, <1>2 DEF OpRefers
  <2>2. op[u].at \in 1 .. Tip /\ base[u] <= op[u].at /\ op[u].at <= Tip /\ Tip \in 1 .. Tip
    BY <1>1, <2>1
  <2> QED
    BY <1>1, <2>2 DEF CommitsGrow, Base
<1>6. /\ p = q => Live(b) \subseteq disk[u][q] \cup copies[u][q]
      /\ p = q => Live(copies[u][q]) \subseteq commits[Tip][q]
  BY DEF Agree
<1> HIDE DEF ours, theirs, b
<1>7. ASSUME NEW more \in SUBSET {q}, PassedBy(u, q, more), copies' = copies
      PROVE  Agree(u, p)' /\ Underway(u, p)' /\ Keeps(u, p)
  <2>1. Merged(u, q, disk[u][q], more)
    BY <1>7 DEF PassedBy
  <2>2. p = q => theirs = Absent
    BY <1>7 DEF PassedBy, theirs
  <2>3. p = q => Live(theirs) = {} /\ Live(b) = {}
    BY <1>5, <2>2, AbsentIsBare DEF Live
  <2>4. Live(disk[u][q]) \subseteq disk[u][q]
    BY DEF Live
  <2> QED
    BY <1>1, <1>2, <1>3, <1>6, <1>7, <2>1, <2>3, <2>4, MergedHolds DEF theirs, b
<1>8. CASE MergeText(u, q)
  <2>1. copies' = copies
    BY <1>8 DEF MergeText
  <2>2. ASSUME NEW now \in {Merge3(b, ours, theirs), Marked(ours, theirs)}, Merged(u, q, now, {q})
        PROVE  Agree(u, p)' /\ Underway(u, p)' /\ Keeps(u, p)
    <3>1. p = q => /\ Live(disk[u][q]) \subseteq now
                   /\ Live(theirs) \subseteq now \cup copies'[u][q]
                   /\ Live(b) \subseteq now \cup copies'[u][q]
      <4>1. CASE now = Marked(ours, theirs)
        BY <1>4, <1>5, <1>6, <2>1, <4>1 DEF Marked, Live
      <4>2. CASE now = Merge3(b, ours, theirs)
        BY <1>4, <1>5, <1>6, <2>1, <4>2 DEF Merge3, Live
      <4> QED
        BY <2>2, <4>1, <4>2
    <3> QED
      BY <1>1, <1>2, <1>3, <1>6, <2>1, <2>2, <3>1, MergedHolds DEF theirs, b
  <2>3. \/ \E now \in {Merge3(b, ours, theirs), Marked(ours, theirs)} : Merged(u, q, now, {q})
        \/ PassedBy(u, q, {})
    BY <1>8 DEF MergeText, ours, theirs, b
  <2> QED
    BY <1>7, <2>1, <2>2, <2>3
<1>9. CASE MergeBinary(u, q)
  <2>1. ASSUME copies' = IF theirs = Absent THEN copies ELSE [copies EXCEPT ![u][q] = theirs],
               Merged(u, q, disk[u][q], {q})
        PROVE  Agree(u, p)' /\ Underway(u, p)' /\ Keeps(u, p)
    <3>1. copies'[u][q] = IF theirs = Absent THEN copies[u][q] ELSE theirs
      BY <1>1, <2>1 DEF Trees
    <3>2. p = q => /\ Live(theirs) \subseteq disk[u][q] \cup copies'[u][q]
                   /\ Live(b) \subseteq disk[u][q] \cup copies'[u][q]
                   /\ Live(copies'[u][q]) \subseteq commits[Tip][q]
      BY <1>5, <1>6, <3>1, AbsentIsBare DEF Live
    <3>3. Live(disk[u][q]) \subseteq disk[u][q]
      BY DEF Live
    <3> QED
      BY <1>1, <1>2, <1>3, <2>1, <3>2, <3>3, MergedHolds DEF theirs, b
  <2>2. \/ /\ copies' = IF theirs = Absent THEN copies ELSE [copies EXCEPT ![u][q] = theirs]
           /\ Merged(u, q, disk[u][q], {q})
        \/ PassedBy(u, q, {q}) /\ copies' = copies
    BY <1>9 DEF MergeBinary, theirs
  <2> QED
    BY <1>7, <2>1, <2>2
<1>10. CASE MergeRemote(u, q)
  <2>1. ours = b /\ copies' = copies
    BY <1>10 DEF MergeRemote, ours, b
  <2>2. ASSUME NEW now, now = IF theirs = Absent /\ q \notin op[u].here THEN disk[u][q] ELSE theirs,
               Merged(u, q, now, {q})
        PROVE  Agree(u, p)' /\ Underway(u, p)' /\ Keeps(u, p)
    <3>1. p = q => /\ Live(disk[u][q]) \subseteq now
                   /\ Live(theirs) \subseteq now \cup copies'[u][q]
                   /\ Live(b) \subseteq now \cup copies'[u][q]
      BY <1>4, <1>5, <2>1, <2>2, AbsentIsBare DEF Live
    <3> QED
      BY <1>1, <1>2, <1>3, <1>6, <2>1, <2>2, <3>1, MergedHolds DEF theirs, b
  <2>3. \/ Merged(u, q, IF theirs = Absent /\ q \notin op[u].here THEN disk[u][q] ELSE theirs, {q})
        \/ PassedBy(u, q, {q})
    BY <1>10 DEF MergeRemote, theirs
  <2> QED
    BY <1>7, <2>1, <2>2, <2>3
<1>11. CASE MergeKeep(u, q)
  <2>1. Merged(u, q, disk[u][q], {}) /\ copies' = copies /\ (theirs = b \/ ours = theirs)
    BY <1>11 DEF MergeKeep, ours, theirs, b
  <2>2. p = q => Live(theirs) \subseteq disk[u][q] \cup copies'[u][q]
    BY <1>4, <1>6, <2>1 DEF Live
  <2>3. Live(disk[u][q]) \subseteq disk[u][q]
    BY DEF Live
  <2> QED
    BY <1>1, <1>2, <1>3, <1>6, <2>1, <2>2, <2>3, MergedHolds DEF theirs, b
<1> QED
  BY <1>8, <1>9, <1>10, <1>11

-----------------------------------------------------------------------------
(* The invariant is inductive. *)

LEMMA HeldInit == Init => \A p \in Paths : Held(p)
<1> SUFFICES ASSUME Init, NEW p \in Paths PROVE Held(p)
  OBVIOUS
<1>1. commits = <<[q \in Paths |-> IF q \in world.paths THEN {} ELSE Absent]>>
  BY DEF Init
<1>2. Tip = 1 /\ commits[1][p] \cap Edits = {}
  BY <1>1, AbsentIsBare DEF Tip
<1>3. CommitsGrow(p)
  BY <1>2 DEF CommitsGrow, Live
<1>4. ASSUME NEW u \in Users
      PROVE  Agree(u, p) /\ Underway(u, p)
  <2>1. disk[u] = commits[1] /\ base[u] = 1 /\ unsaved[u] = {} /\ op[u] = Idle /\ copies[u][p] = Absent
    BY DEF Init
  <2>2. buf[u][p] \cap Edits = {}
    BY AbsentIsBare DEF Init
  <2>3. Base(u)[p] \cap Edits = {} /\ disk[u][p] \cap Edits = {} /\ ~Pulling(u)
    BY <1>2, <2>1 DEF Base, Pulling, Idle
  <2>4. Agree(u, p)
    BY <1>2, <2>1, <2>2, <2>3, AbsentIsBare DEF Agree, Live
  <2> QED
    BY <2>1, <2>4 DEF Underway, Idle
<1> QED
  BY <1>3, <1>4 DEF Held

\* The acting user: a path that is not torn is held on, and keeps its edits.
LEMMA ActorHolds ==
    ASSUME Types, Types', Fenced, NoEditor, NEW u \in Users, Frame(u),
           Operate(u) \/ \E q \in world.paths : Edit(u, q) \/ Bring(u, q),
           NEW p \in Paths \ torn', Held(p)
    PROVE  CommitsGrow(p)' /\ Agree(u, p)' /\ Underway(u, p)' /\ Keeps(u, p)
<1>1. Agree(u, p) /\ Underway(u, p) /\ CommitsGrow(p) /\ world.paths \subseteq Paths
  BY TypesSplit DEF Held, PlainTypes
<1>2. ASSUME commits' = commits
      PROVE  CommitsGrow(p)'
  BY <1>1, <1>2 DEF CommitsGrow, Live, Tip, Frame
<1>3. CASE \E q \in world.paths : Edit(u, q)
  <2>1. PICK q \in Paths : Edit(u, q)
    BY <1>1, <1>3
  <2>2. commits' = commits
    BY <2>1, EditFrame
  <2> QED
    BY <1>1, <1>2, <2>1, <2>2, EditHolds
<1>4. CASE \E q \in world.paths : Bring(u, q)
  <2>1. PICK q \in world.paths : Bring(u, q)
    BY <1>4
  <2>2. commits' = commits
    BY <2>1, BringFrame
  <2>3. Agree(u, p)' /\ Underway(u, p)' /\ Keeps(u, p)
    BY <1>1, <2>1, FastForwardHolds, MergeReadHolds, MergeHolds DEF Bring
  <2> QED
    BY <1>2, <2>2, <2>3
<1>5. CASE Operate(u)
  <2>1. CommitsGrow(p)'
    <3>1. CASE Push(u) /\ op[u].on = Tip
      BY <1>1, <3>1, PushGrows
    <3>2. CASE ~(Push(u) /\ op[u].on = Tip)
      <4>1. commits' = commits
        BY <1>5, <3>2 DEF Operate, Publish, Upload, Push, Pushed, Pull, MergeStart, Persist, AfterPull,
           Fail, CommitRestored, Restore
      <4> QED
        BY <1>2, <4>1
    <3> QED
      BY <3>1, <3>2
  <2>2. Agree(u, p)' /\ Underway(u, p)' /\ Keeps(u, p)
    <3>1. CASE Publish(u) \/ Upload(u) \/ Push(u) \/ Pushed(u)
      BY <1>1, <2>1, <3>1, PublishingHolds
    <3>2. CASE \/ Pull(u) \/ MergeStart(u) \/ Persist(u) \/ AfterPull(u) \/ CommitRestored(u)
               \/ \E t \in 1 .. Tip - 1 : Restore(u, t)
      BY <1>1, <3>2, PullingHolds
    <3>3. CASE Fail(u)
      <4>1. Abort(u) /\ UNCHANGED <<commits, base, disk, buf, unsaved, copies, dropped>>
        BY <3>3 DEF Fail
      <4> QED
        BY <1>1, <4>1, AbortHolds
    <3> QED
      BY <1>5, <3>1, <3>2, <3>3 DEF Operate
  <2> QED
    BY <2>1, <2>2
<1> QED
  BY <1>3, <1>4, <1>5

\* Every user: a path that is not torn is held on, and what is kept of it stays kept.
LEMMA HeldNext ==
    ASSUME Types, Types', Fenced, NoEditor, NEW u \in Users,
           Operate(u) \/ \E q \in world.paths : Edit(u, q) \/ Bring(u, q),
           NEW p \in Paths \ torn', Held(p)
    PROVE  /\ Held(p)'
           /\ \A id \in Edits \ dropped' : id \in Kept(p) => id \in Kept(p)'
<1>1. Frame(u) /\ p \in Paths
  BY EditFrame, BringFrame, OperateFrame, TypesSplit DEF PlainTypes
<1>2. CommitsGrow(p)' /\ Agree(u, p)' /\ Underway(u, p)' /\ Keeps(u, p)
  BY <1>1, ActorHolds
<1>3. \A v \in Users \ {u} : Agree(v, p)' /\ Underway(v, p)' /\ Keeps(v, p)
  BY <1>1, <1>2, OthersHold DEF Held
<1>4. Held(p)'
  BY <1>2, <1>3 DEF Held
<1>5. ASSUME NEW id \in Edits \ dropped', id \in Kept(p)
      PROVE  id \in Kept(p)'
  <2>1. CASE id \in commits[Tip][p]
    <3>1. /\ Tip \in Nat /\ Tip' \in Nat /\ Tip <= Tip' /\ Tip > 0
          /\ \A i \in 1 .. Tip : commits'[i] = commits[i]
      BY <1>1, CommitsStay, TypesSplit DEF PlainTypes
    <3>2. Tip \in 1 .. Tip' /\ Tip' \in 1 .. Tip' /\ id \in commits'[Tip][p]
      BY <2>1, <3>1
    <3>3. id \in commits'[Tip'][p]
      BY <1>2, <1>5, <3>1, <3>2 DEF CommitsGrow, Live
    <3> QED
      BY <3>3 DEF Kept
  <2>2. CASE id \notin commits[Tip][p]
    <3>1. PICK v \in Users : id \in buf[v][p] \cup disk[v][p] \cup copies[v][p]
      BY <1>5, <2>2 DEF Kept
    <3>2. Keeps(v, p)
      BY <1>2, <1>3
    <3>3. id \in buf'[v][p] \cup disk'[v][p] \cup copies'[v][p] \cup commits'[Tip'][p]
      BY <1>5, <3>1, <3>2 DEF Keeps
    <3> QED
      BY <3>3 DEF Kept
  <2> QED
    BY <2>1, <2>2
<1> QED
  BY <1>4, <1>5

\* A new edit is in an editor, or in a working tree.
LEMMA NewEditIsKept ==
    ASSUME Types, NEW u \in Users, NEW q \in Paths, Type(u, q) \/ Replace(u, q)
    PROVE  /\ made' = Append(made, q) /\ Len(made) + 1 \in Edits
           /\ Len(made) + 1 \in Kept(q)'
<1>1. disk \in [Users -> Trees] /\ buf \in [Users -> Trees]
  BY TypesSplit DEF PlainTypes
<1>2. Len(made) + 1 \in buf'[u][q] \cup disk'[u][q]
  <2>1. CASE Type(u, q)
    BY <1>1, <2>1 DEF Type, Trees
  <2>2. CASE Replace(u, q)
    BY <1>1, <2>2 DEF Replace, Trees
  <2> QED
    BY <2>1, <2>2
<1> QED
  BY <1>2 DEF Type, Replace, Kept

LEMMA SurviveNext ==
    ASSUME Types, Types', Fenced, NoEditor, EditsSurvive, NEW u \in Users,
           Operate(u) \/ \E q \in world.paths : Edit(u, q) \/ Bring(u, q),
           \A p \in Paths \ torn : Held(p)
    PROVE  EditsSurvive'
<1>1. /\ made \in Seq(Paths) /\ Len(made) <= MaxEdits /\ Len(made) \in Nat
      /\ world.paths \subseteq Paths
  BY TypesSplit DEF PlainTypes
<1>2. Frame(u)
  BY <1>1, EditFrame, BringFrame, OperateFrame
<1>3. made' = made \/ \E q \in world.paths : Type(u, q) \/ Replace(u, q)
  <2>1. CASE Operate(u)
    BY <2>1, OperateFrame
  <2>2. CASE \E q \in world.paths : Bring(u, q)
    BY <2>2 DEF Bring, FastForward, MergeRead, MergeText, MergeBinary, MergeRemote, PassedBy, MergeKeep
  <2>3. CASE \E q \in world.paths : Edit(u, q)
    BY <2>3 DEF Edit, Open, AutoSave, Delete, Revert, ResolveText, ResolveCopy
  <2> QED
    BY <2>1, <2>2, <2>3
<1>4. ASSUME NEW id \in 1 .. Len(made), id \notin dropped', NEW p \in Paths \ torn', p = made[id]
      PROVE  id \in Kept(p)'
  <2>1. p \notin torn /\ id \notin dropped
    BY <1>2, <1>4 DEF Frame
  <2>2. id \in Edits
    BY <1>1, SharingAssumption DEF Edits
  <2>3. id \in Kept(p)
    BY <1>4, <2>1 DEF EditsSurvive
  <2>4. Held(p)
    BY <2>1
  <2> QED
    BY <1>4, <2>2, <2>3, <2>4, HeldNext
<1>5. SUFFICES ASSUME NEW id \in 1 .. Len(made'), id \notin dropped',
                      NEW p \in Paths \ torn', p = made'[id]
               PROVE  id \in Kept(p)'
  <2>1. made' \in Seq(Paths)
    BY TypesSplit DEF Types, TypeOK
  <2> QED
    BY <2>1 DEF EditsSurvive
<1>7. CASE made' = made
  BY <1>4, <1>5, <1>7
<1>6. ASSUME NEW q \in world.paths, Type(u, q) \/ Replace(u, q)
      PROVE  id \in Kept(p)'
  <2>1. /\ made' = Append(made, q) /\ Len(made) + 1 \in Kept(q)'
    BY <1>1, <1>6, NewEditIsKept
  <2>2. /\ Len(made') = Len(made) + 1 /\ made'[Len(made) + 1] = q
        /\ \A i \in 1 .. Len(made) : made'[i] = made[i]
    BY <1>1, <2>1
  <2>3. CASE id \in 1 .. Len(made)
    BY <1>4, <1>5, <2>2, <2>3
  <2>4. CASE id = Len(made) + 1
    BY <1>5, <2>1, <2>2, <2>4
  <2> QED
    BY <1>1, <1>5, <2>2, <2>3, <2>4
<1> QED
  BY <1>3, <1>6, <1>7

LEMMA IInvInit == Init => IInv
<1> SUFFICES ASSUME Init PROVE IInv
  OBVIOUS
<1>1. NoEditor
  BY DEF Init, NoEditor
<1>2. EditsSurvive
  BY DEF Init, EditsSurvive
<1> QED
  BY <1>1, <1>2, TypesInit, FencedInit, HeldInit DEF IInv

LEMMA IInvNext == IInv /\ [Next]_vars => IInv'
<1> SUFFICES ASSUME IInv, [Next]_vars PROVE IInv'
  OBVIOUS
<1>1. Types /\ Types' /\ Fenced /\ Fenced' /\ NoEditor /\ NoEditor' /\ EditsSurvive
  BY TypesNext, FencedNext, NoEditorNext DEF IInv
<1>2. CASE UNCHANGED vars
  <2>1. ASSUME NEW p \in Paths \ torn'
        PROVE  Held(p)'
    <3>1. Held(p)
      BY <1>2 DEF IInv, vars
    <3> QED
      BY <1>2, <3>1 DEF vars, Held, CommitsGrow, Agree, Underway, Carries, Writing, Merging,
         Rewritten, Pulling, Live, Tip, Base, Here
  <2>2. EditsSurvive'
    BY <1>1, <1>2 DEF vars, EditsSurvive, Kept, Tip
  <2> QED
    BY <1>1, <2>1, <2>2 DEF IInv
<1>3. ASSUME NEW u \in Users, Operate(u) \/ \E q \in world.paths : Edit(u, q) \/ Bring(u, q)
      PROVE  IInv'
  <2>1. torn \subseteq torn'
    BY <1>1, <1>3, EditFrame, BringFrame, OperateFrame, TypesSplit DEF Frame, PlainTypes
  <2>2. ASSUME NEW p \in Paths \ torn'
        PROVE  Held(p)'
    <3>1. Held(p)
      BY <2>1 DEF IInv
    <3> QED
      BY <1>1, <1>3, <3>1, HeldNext
  <2>3. EditsSurvive'
    BY <1>1, <1>3, SurviveNext DEF IInv
  <2> QED
    BY <1>1, <2>2, <2>3 DEF IInv
<1> QED
  BY <1>2, <1>3 DEF Next

LEMMA IInvHolds == Spec => []IInv
<1> QED
  BY IInvInit, IInvNext, PTL DEF Spec

\* Every tree, base and operation is what its type says, whoever publishes, pulls or
\* fails: the base a sync index names is a commit of the branch (sync-index.ts).
THEOREM TypeOKHolds == Spec => []TypeOK
<1>1. Types => TypeOK
  BY DEF Types
<1> QED
  BY <1>1, TypesHold, PTL

\* No edit is lost that nobody discarded: whatever the order of publishes, pulls,
\* merges, restores and failures, it is in an editor, a working tree, a conflict copy
\* or the head, unless its path was typed in during a pull or left behind by an
\* operation that ended half way (collaboration-panel.ts, repo.ts).
THEOREM EditsSurviveHolds == Spec => []EditsSurvive
<1>1. IInv => EditsSurvive
  BY DEF IInv
<1> QED
  BY <1>1, IInvHolds, PTL
-----------------------------------------------------------------------------
(* The branch implements SharedBranch. *)

\* The edits of each file of each commit: what `texts` of SharedBranch stands for.
Versions == [i \in 1 .. Tip |-> [p \in Paths |-> commits[i][p] \cap Edits]]

LEMMA ListOfOne == ASSUME NEW e PROVE [i \in 1 .. 1 |-> e] = <<e>>
<1>1. DOMAIN <<e>> = 1 .. 1 /\ <<e>>[1] = e
  OBVIOUS
<1> QED
  BY <1>1

\* A list with one element more.
LEMMA ListAppended ==
    ASSUME NEW n \in Nat, NEW S, NEW s \in Seq(S), NEW t \in Seq(S), Len(s) = n, Len(t) = n + 1,
           \A i \in 1 .. n : t[i] = s[i]
    PROVE  t = Append(s, t[n + 1])
<1>1. /\ Append(s, t[n + 1]) \in Seq(S) /\ Len(Append(s, t[n + 1])) = n + 1
      /\ \A i \in 1 .. n + 1 : t[i] = Append(s, t[n + 1])[i]
  OBVIOUS
<1> QED
  BY <1>1

LEMMA BranchInit == IInv /\ Init => Branch!Init
<1> SUFFICES ASSUME IInv, Init PROVE Branch!Init
  OBVIOUS
<1>1. Tip = 1 /\ commits[1] = [p \in Paths |-> IF p \in world.paths THEN {} ELSE Absent]
  BY DEF Init, Tip
<1>2. \A p \in Paths : commits[1][p] \cap Edits = {}
  BY <1>1, AbsentIsBare
<1>3. [p \in Paths |-> commits[1][p] \cap Edits] = [p \in Paths |-> {}]
  BY <1>2
<1>4. Versions = <<[p \in Paths |-> {}]>>
  <2>1. Versions = [i \in 1 .. 1 |-> [p \in Paths |-> {}]]
    BY <1>1, <1>3 DEF Versions
  <2> QED
    BY <2>1, ListOfOne
<1> QED
  BY <1>4 DEF Init, Branch!Init, Versions

\* Nothing is committed, and no base moves.
LEMMA BranchDiscards ==
    ASSUME commits' = commits, base' = base, dropped \subseteq dropped', torn \subseteq torn'
    PROVE  Branch!Next
<1>1. Versions' = Versions
  BY DEF Versions, Tip
<1> QED
  BY <1>1 DEF Branch!Next, Branch!Discard, Versions

\* A base moves, to a commit no older than it.
LEMMA BranchSyncs ==
    ASSUME NEW u \in Users, NEW v \in base[u] .. Tip, Tip \in Nat,
           commits' = commits, base' = [base EXCEPT ![u] = v], UNCHANGED <<dropped, torn>>
    PROVE  Branch!Next
<1>1. Versions' = Versions /\ Len(Versions) = Tip
  BY DEF Versions, Tip
<1>2. Branch!Sync(u)
  BY <1>1 DEF Branch!Sync, Branch!version, Versions
<1> QED
  BY <1>2 DEF Branch!Next

\* A commit is added: it is made from the head it was to be added to, or it has what
\* the commit gone back to has.
LEMMA BranchGrows ==
    ASSUME IInv, IInv', NEW u \in Users, Push(u), op[u].on = Tip
    PROVE  Branch!Next
<1>1. /\ PlainTypes /\ OpRefers(u) /\ op[u] \in OpRecs
      /\ Tip \in Nat /\ Tip > 0
  BY TypesSplit DEF IInv, PlainTypes, OpTypes, Tip
<1>2. /\ commits' = Append(commits, op[u].tree) /\ op[u].pc = "push"
      /\ UNCHANGED <<base, torn>> /\ dropped \subseteq dropped'
  BY DEF Push
<1>3. /\ Tip' = Tip + 1 /\ commits'[Tip'] = op[u].tree
      /\ \A i \in 1 .. Tip : commits'[i] = commits[i]
  BY <1>1, <1>2 DEF PlainTypes, Tip
<1> DEFINE text == [p \in Paths |-> commits'[Tip'][p] \cap Edits]
<1>4. /\ Len(Versions) = Tip /\ Len(Versions') = Tip'
      /\ \A i \in 1 .. Tip : Versions[i] = [p \in Paths |-> commits[i][p] \cap Edits]
      /\ Versions'[Tip'] = text
      /\ Versions \in Seq([Paths -> SUBSET Edits])
      /\ Versions' \in Seq([Paths -> SUBSET Edits])
  <2>1. Versions' = [i \in 1 .. Tip' |-> [p \in Paths |-> commits'[i][p] \cap Edits]]
    BY DEF Versions
  <2>2. /\ Versions \in [1 .. Tip -> [Paths -> SUBSET Edits]]
        /\ Versions' \in [1 .. Tip' -> [Paths -> SUBSET Edits]]
    BY <2>1 DEF Versions
  <2>3. Versions \in Seq([Paths -> SUBSET Edits]) /\ Versions' \in Seq([Paths -> SUBSET Edits])
    BY <1>1, <1>3, <2>2
  <2>4. /\ DOMAIN Versions = 1 .. Tip /\ DOMAIN Versions' = 1 .. Tip' /\ Tip' \in Nat
    BY <1>1, <1>3, <2>2
  <2>5. Len(Versions) = Tip /\ Len(Versions') = Tip'
    BY <1>1, <2>3, <2>4
  <2>6. Versions'[Tip'] = text
    <3>1. Tip' \in 1 .. Tip'
      BY <1>1, <1>3
    <3> QED
      BY <2>1, <3>1
  <2> QED
    BY <2>3, <2>5, <2>6 DEF Versions
<1>5. Versions' = Append(Versions, text)
  <2>1. ASSUME NEW i \in 1 .. Tip
        PROVE  Versions'[i] = Versions[i]
    <3>1. i \in 1 .. Tip' /\ commits'[i] = commits[i]
      BY <1>1, <1>3
    <3>2. Versions' = [j \in 1 .. Tip' |-> [p \in Paths |-> commits'[j][p] \cap Edits]]
      BY DEF Versions
    <3> QED
      BY <1>4, <3>1, <3>2
  <2> HIDE DEF text
  <2> QED
    BY <1>1, <1>3, <1>4, <2>1, ListAppended
<1>6. text \in [Paths -> SUBSET Edits]
  OBVIOUS
<1>7. ASSUME NEW p \in Paths \ torn, NEW v \in 1 .. Tip
      PROVE  Versions[v][p] \ dropped' \subseteq text[p]
  <2>1. CommitsGrow(p)'
    BY <1>2 DEF IInv, Held
  <2>2. v \in 1 .. Tip' /\ Tip' \in 1 .. Tip' /\ v <= Tip' /\ commits'[v] = commits[v]
    BY <1>1, <1>3
  <2> QED
    BY <1>4, <2>1, <2>2 DEF CommitsGrow, Live
<1>8. ASSUME NEW v \in 1 .. Tip
      PROVE  Branch!Made(v)
  <2>1. \A p \in Paths \ torn :
            (Versions[v][p] \cup Versions[Tip][p]) \ dropped' \subseteq Versions'[Tip'][p]
    BY <1>1, <1>4, <1>7
  <2> QED
    BY <1>2, <1>4, <1>5, <1>6, <2>1 DEF Branch!Made, Branch!version, Versions
<1>11. Branch!version = Tip
  BY <1>4 DEF Branch!version, Versions
<1>9. CASE op[u].back = 0
  <2>1. base[u] = Tip
    BY <1>1, <1>2, <1>9 DEF OpRefers
  <2>3. Tip \in 1 .. Tip
    BY <1>1
  <2>2. Branch!Publish(u)
    BY <1>8, <1>11, <2>1, <2>3 DEF Branch!Publish, Branch!Made
  <2> QED
    BY <2>2 DEF Branch!Next
<1>10. CASE op[u].back # 0
  <2>1. PICK v \in 1 .. Tip : v = op[u].back
    BY <1>1, <1>2, <1>10 DEF OpRefers
  <2>2. ASSUME NEW p \in Paths \ torn
        PROVE  Versions[v][p] \subseteq Versions'[Tip'][p]
    <3>1. Carries(u, p, op[u].tree)
      BY <1>2 DEF IInv, Held, Underway
    <3>2. commits[v][p] \cap Edits \subseteq commits'[Tip'][p] \cap Edits
      BY <1>3, <1>10, <2>1, <3>1 DEF Carries
    <3>3. Versions[v][p] = commits[v][p] \cap Edits
      BY <1>4, <2>1
    <3>4. Versions'[Tip'][p] = commits'[Tip'][p] \cap Edits
      BY <1>4
    <3> QED
      BY <3>2, <3>3, <3>4
  <2>3. Branch!GoBack(v)
    <3>1. Branch!version' = Tip'
      BY <1>4 DEF Branch!version, Versions
    <3>2. Branch!Made(v)
      BY <1>8
    <3> QED
      BY <2>2, <3>1, <3>2 DEF Branch!GoBack, Versions
  <2> QED
    BY <1>11, <2>1, <2>3 DEF Branch!Next
<1> QED
  BY <1>9, <1>10

\* Every step of a user is one of the branch, or none.
LEMMA BranchNext == IInv /\ IInv' /\ [Next]_vars => [Branch!Next]_Branch!branchVars
<1> SUFFICES ASSUME IInv, IInv', [Next]_vars PROVE [Branch!Next]_Branch!branchVars
  OBVIOUS
<1>1. Types /\ PlainTypes /\ Tip \in Nat
  BY TypesSplit DEF IInv, PlainTypes, Tip
<1>2. CASE UNCHANGED vars
  BY <1>2, BranchDiscards DEF vars
<1>3. ASSUME NEW u \in Users, NEW p \in world.paths, Edit(u, p) \/ Bring(u, p)
      PROVE  Branch!Next
  <2>1. p \in Paths /\ Frame(u)
    BY <1>1, <1>3, EditFrame, BringFrame DEF PlainTypes
  <2>2. commits' = commits /\ base' = base
    BY <1>1, <1>3, <2>1, EditFrame DEF Bring, FastForward, MergeRead, MergeText, MergeBinary,
       MergeRemote, PassedBy, MergeKeep
  <2> QED
    BY <2>1, <2>2, BranchDiscards DEF Frame
<1>4. ASSUME NEW u \in Users, Operate(u)
      PROVE  Branch!Next
  <2>1. OpRefers(u) /\ dropped \subseteq dropped' /\ torn \subseteq torn'
    BY <1>1, <1>4, OperateFrame, TypesSplit DEF OpTypes, Frame
  <2>2. CASE Push(u) /\ op[u].on = Tip
    BY <2>2, BranchGrows
  <2>3. CASE Pushed(u)
    <3>1. op[u].at \in base[u] .. Tip
      BY <2>1, <2>3 DEF Pushed, OpRefers
    <3> QED
      BY <1>1, <2>3, <3>1, BranchSyncs DEF Pushed
  <2>4. CASE Persist(u)
    <3>1. op[u].at \in base[u] .. Tip
      BY <2>1, <2>4 DEF Persist, OpRefers
    <3> QED
      BY <1>1, <2>4, <3>1, BranchSyncs DEF Persist
  <2>5. CASE Push(u) /\ op[u].on # Tip
    BY <2>1, <2>5, BranchDiscards DEF Push
  <2>6. CASE ~(Push(u) \/ Pushed(u) \/ Persist(u))
    <3>1. commits' = commits /\ base' = base
      BY <1>4, <2>6 DEF Operate, Publish, Upload, Pull, MergeStart, AfterPull, Fail,
         CommitRestored, Restore
    <3> QED
      BY <2>1, <3>1, BranchDiscards
  <2> QED
    BY <2>2, <2>3, <2>4, <2>5, <2>6
<1> QED
  BY <1>2, <1>3, <1>4 DEF Next

\* The branch is the line of versions that SharedBranch promises: a commit is made
\* from the head, or goes back to an older commit, and takes nothing of the head that
\* nobody discarded or passed over (repo.ts commit, collaboration-panel.ts
\* restoreCommit).
THEOREM ImplementsSharedBranchHolds == Spec => ImplementsSharedBranch
<1> QED
  BY BranchInit, BranchNext, IInvHolds, PTL DEF Spec, ImplementsSharedBranch, Branch!Spec

=============================================================================
