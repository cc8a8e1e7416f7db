------------------------------ MODULE Sharing ------------------------------
(***************************************************************************)
(* Source control: users who share one branch of a repository.  Publish    *)
(* and Pull of the collaboration panel, the three-way merge, conflict      *)
(* copies, reverts, and the engine beneath (Playground/src/sharing:        *)
(* collaboration-panel.ts, repo.ts, sync-index.ts, opfs-working-tree.ts),  *)
(* and the return to an old commit from the history panel.                 *)
(*                                                                         *)
(* A text is the set of the edits it contains.  A long operation is cut    *)
(* where the code awaits the network or the disk: the user goes on typing, *)
(* and other users go on publishing, between its steps.  Branch protection *)
(* is the remote's: a ref moves only to a child of the current head.       *)
(***************************************************************************)
EXTENDS Integers, Sequences, FiniteSets

CONSTANTS
    Users,
    Paths,
    Texts,        \* the paths diff3 can merge; the others are binary
    MaxEdits,     \* bound on edits
    MaxCommits,   \* bound on commits
    Worlds        \* the circumstances to look at: paths in use, those that may be
                  \* deleted, whether users type while a pull is at work, go back
                  \* to old commits, and how often the network or the disk may fail

ASSUME SharingAssumption ==
    /\ Texts \subseteq Paths
    /\ MaxEdits \in Nat
    /\ MaxCommits \in Nat \ {0}
    /\ Worlds \subseteq [paths : SUBSET Paths, deletable : SUBSET Paths, restless : BOOLEAN,
                   restoring : BOOLEAN, failing : Nat]

Edits == 1 .. MaxEdits
Marker == 0               \* conflict markers in a text
Absent == {-1}            \* no such file
Contents == {Absent} \cup SUBSET (Edits \cup {Marker})
Trees == [Paths -> Contents]
NoPath == [path |-> {}, was |-> Absent]

VARIABLES
    world,        \* the one of Worlds that is the case, with the failures left
    commits,      \* trees of the branch, oldest first
    base,         \* syncedCommitSha: the commit the user's tree stems from
    disk,         \* the working tree
    buf,          \* editor models of the open tabs; binaries have none
    unsaved,      \* paths whose model is ahead of the disk
    copies,       \* '<path>.fade-conflict.<sha>' siblings
    op,           \* the operation under way
    made,         \* the path of each edit, in order
    dropped,      \* ghost: edits a user discarded on purpose
    torn          \* ghost: paths typed in while a pull wrote the tree, left behind
                  \* in an open tab by an operation that ended half way, or whose
                  \* remote change a merge passed over

vars == <<world, commits, base, disk, buf, unsaved, copies, op, made, dropped, torn>>

Tip == Len(commits)
Base(u) == commits[base[u]]
Idle == [pc |-> "idle"]

Init ==
    /\ world \in Worlds
    /\ commits = <<[p \in Paths |-> IF p \in world.paths THEN {} ELSE Absent]>>
    /\ base = [u \in Users |-> 1]
    /\ disk = [u \in Users |-> commits[1]]
    /\ buf = [u \in Users |-> [p \in Paths |-> IF p \in Texts \cap world.paths THEN {} ELSE Absent]]
    /\ unsaved = [u \in Users |-> {}]
    /\ copies = [u \in Users |-> [p \in Paths |-> Absent]]
    /\ op = [u \in Users |-> Idle]
    /\ made = <<>>
    /\ dropped = {}
    /\ torn = {}

-----------------------------------------------------------------------------
\* The three-way merge of a text when no changes overlap: what both sides kept,
\* and what either added.  Where they overlap both are kept between markers.
Merge3(b, ours, theirs) == (ours \cap theirs) \cup (ours \ b) \cup (theirs \ b)
Marked(ours, theirs) == ours \cup theirs \cup {Marker}

\* The working tree after flushPendingSaves.
Flushed(u) == [p \in Paths |-> IF p \in unsaved[u] THEN buf[u][p] ELSE disk[u][p]]

Flush(u) ==
    /\ disk' = [disk EXCEPT ![u] = Flushed(u)]
    /\ unsaved' = [unsaved EXCEPT ![u] = {}]

Here(tree) == {p \in Paths : tree[p] # Absent}

\* A pull is writing the working tree, or a restore is under way.
Pulling(u) ==
    \/ op[u].pc \in {"ff", "merge", "restore", "after"}
    \/ op[u].pc \in {"upload", "push", "pushed"} /\ op[u].back # 0

Become(u, o) == op' = [op EXCEPT ![u] = o]

\* An operation ends before its time.  The editor is not told: what it had changed
\* on disk is not what an open tab shows.
Abort(u) ==
    /\ Become(u, Idle)
    /\ torn' = torn \cup {p \in Paths : Pulling(u) /\ buf[u][p] \notin {Absent, disk[u][p]}}

\* The network or the disk fails once more.
Failing ==
    /\ world.failing > 0
    /\ world' = [world EXCEPT !.failing = @ - 1]

-----------------------------------------------------------------------------
\* The user opens a file.
Open(u, p) ==
    /\ p \in Texts /\ buf[u][p] = Absent /\ disk[u][p] # Absent
    /\ buf' = [buf EXCEPT ![u][p] = disk[u][p]]
    /\ UNCHANGED <<world, commits, base, disk, unsaved, copies, op, made, dropped, torn>>

\* The user types into an open file, or makes a new one.
Type(u, p) ==
    LET id == Len(made) + 1 IN
    /\ id \in Edits /\ p \in Texts
    /\ buf[u][p] # Absent \/ disk[u][p] = Absent
    /\ Pulling(u) => world.restless
    /\ made' = Append(made, p)
    /\ buf' = [buf EXCEPT ![u][p] = IF @ = Absent THEN {id} ELSE @ \cup {id}]
    /\ unsaved' = [unsaved EXCEPT ![u] = @ \cup {p}]
    /\ torn' = torn \cup {q \in {p} : Pulling(u)}
    /\ UNCHANGED <<world, commits, base, disk, copies, op, dropped>>

\* The user replaces a binary, or adds one.
Replace(u, p) ==
    LET id == Len(made) + 1 IN
    /\ id \in Edits /\ p \notin Texts
    /\ Pulling(u) => world.restless
    /\ made' = Append(made, p)
    /\ disk' = [disk EXCEPT ![u][p] = (@ \ Absent) \cup {id}]
    /\ torn' = torn \cup {q \in {p} : Pulling(u)}
    /\ UNCHANGED <<world, commits, base, buf, unsaved, copies, op, dropped>>

\* The autosave of the editor.
AutoSave(u, p) ==
    /\ p \in unsaved[u]
    /\ disk' = [disk EXCEPT ![u][p] = buf[u][p]]
    /\ unsaved' = [unsaved EXCEPT ![u] = @ \ {p}]
    /\ UNCHANGED <<world, commits, base, buf, copies, op, made, dropped, torn>>

\* Mutant of Delete: the save timer survives.
DeleteKeepsTimer(u, p) ==
    /\ p \in world.deletable
    /\ disk[u][p] # Absent /\ op[u] = Idle
    /\ disk' = [disk EXCEPT ![u][p] = Absent]
    /\ buf' = [buf EXCEPT ![u][p] = Absent]
    /\ dropped' = dropped \cup (Edits \cap (disk[u][p] \cup buf[u][p]))
    /\ UNCHANGED <<world, commits, base, unsaved, copies, op, made, torn>>

\* The user deletes a file.
Delete(u, p) ==
    /\ p \in world.deletable
    /\ disk[u][p] # Absent /\ op[u] = Idle
    /\ disk' = [disk EXCEPT ![u][p] = Absent]
    /\ buf' = [buf EXCEPT ![u][p] = Absent]
    /\ unsaved' = [unsaved EXCEPT ![u] = @ \ {p}]
    /\ dropped' = dropped \cup (Edits \cap (disk[u][p] \cup buf[u][p]))
    /\ UNCHANGED <<world, commits, base, copies, op, made, torn>>

-----------------------------------------------------------------------------
\* Repo.commit of the tree `live` on top of commit `on`, to go back to commit
\* `back`, or to publish when that is 0.
Commit(live, on, back) == [pc |-> "upload", live |-> live, on |-> on, back |-> back]

\* doPublish: flush, snapshot, diff against the synced tree.  The button is
\* disabled while a text has conflict markers.
Publish(u) ==
    /\ op[u] = Idle
    /\ \A p \in Texts : Marker \notin disk[u][p]
    /\ Flush(u)
    /\ Flushed(u) # Base(u)
    /\ Become(u, Commit(Flushed(u), base[u], 0))
    /\ UNCHANGED <<world, commits, base, buf, copies, made, dropped, torn>>

\* createBlob of each changed file, which is read again; one that is gone by
\* then fails the commit.
Upload(u) ==
    LET live == op[u].live
        changed == {p \in Here(live) : live[p] # commits[op[u].on][p]}
        again == [p \in Paths |-> IF p \in changed THEN disk[u][p] ELSE live[p]]
    IN  /\ op[u].pc = "upload"
        /\ IF changed \subseteq Here(disk[u])
           THEN /\ Become(u, [pc |-> "push", tree |-> again, on |-> op[u].on, back |-> op[u].back])
                /\ UNCHANGED torn
           ELSE Abort(u)
        /\ UNCHANGED <<world, commits, base, disk, buf, unsaved, copies, made, dropped>>

\* A commit made while a conflict copy waits decides against what is only there,
\* and a restore against what came after the commit it goes back to.
PassedOver(u) == Edits \cap UNION {
    (IF op[u].back # 0 THEN commits[Tip][p] ELSE copies[u][p] \cap commits[Tip][p])
        \ op[u].tree[p] : p \in Paths}

\* Mutant of Push: the ref is moved without the fast-forward check.
PushForced(u) ==
    /\ op[u].pc = "push" /\ Tip < MaxCommits
    /\ commits' = Append(commits, op[u].tree)
    /\ Become(u, [pc |-> "pushed", at |-> Tip + 1, back |-> op[u].back])
    /\ dropped' = dropped \cup PassedOver(u)
    /\ UNCHANGED <<world, base, disk, buf, unsaved, copies, made, torn>>

\* createTree, createCommit, updateBranch.  When the branch has moved the
\* publish turns into a merge, and a restore ends.
Push(u) ==
    /\ op[u].pc = "push"
    /\ IF op[u].on = Tip
       THEN /\ Tip < MaxCommits
            /\ commits' = Append(commits, op[u].tree)
            /\ Become(u, [pc |-> "pushed", at |-> Tip + 1, back |-> op[u].back])
            /\ dropped' = dropped \cup PassedOver(u)
            /\ UNCHANGED torn
       ELSE /\ IF op[u].back = 0 THEN Become(u, [pc |-> "diverged"]) /\ UNCHANGED torn
               ELSE Abort(u)
            /\ UNCHANGED <<commits, dropped>>
    /\ UNCHANGED <<world, base, disk, buf, unsaved, copies, made>>

\* The commit is read back and the sync index written.
Pushed(u) ==
    /\ op[u].pc = "pushed"
    /\ base' = [base EXCEPT ![u] = op[u].at]
    /\ Become(u, IF op[u].back = 0 THEN Idle
                 ELSE [pc |-> "after", touched |-> Here(commits[op[u].back])])
    /\ UNCHANGED <<world, commits, disk, buf, unsaved, copies, made, dropped, torn>>

-----------------------------------------------------------------------------
\* The working tree of u is about to become that of commit `back`; `at` is the
\* head it goes with.
Materialize(u, why, at, back) ==
    [pc |-> why, at |-> at, back |-> back, todo |-> world.paths, here |-> Here(Flushed(u))]

\* Mutant of Pull: local changes are not looked for.
PullUnchecked(u) ==
    /\ op[u] = Idle /\ base[u] # Tip
    /\ Flush(u)
    /\ Become(u, Materialize(u, "ff", Tip, Tip))
    /\ UNCHANGED <<world, commits, base, buf, copies, made, dropped, torn>>

\* pull: flush, then tryFastForward, which refuses a tree with local changes.
Pull(u) ==
    /\ op[u] = Idle /\ base[u] # Tip
    /\ Flush(u)
    /\ Become(u, IF Flushed(u) = Base(u)
                 THEN Materialize(u, "ff", Tip, Tip)
                 ELSE [pc |-> "diverged"])
    /\ UNCHANGED <<world, commits, base, buf, copies, made, dropped, torn>>

\* materialize, one path: written if the wanted tree has it, deleted if it was
\* there when the operation began and the tree does not have it.
FastForward(u, p) ==
    LET want == commits[op[u].back][p] IN
    /\ op[u].pc \in {"ff", "restore"} /\ p \in op[u].todo
    /\ disk' = IF want = Absent /\ p \notin op[u].here THEN disk
               ELSE [disk EXCEPT ![u][p] = want]
    /\ Become(u, [op[u] EXCEPT !.todo = @ \ {p}])
    /\ UNCHANGED <<world, commits, base, buf, unsaved, copies, made, dropped, torn>>

\* mergeFromRemote: the remote head is read, the editor flushed, the tree listed.
MergeStart(u) ==
    /\ op[u].pc = "diverged"
    /\ IF base[u] = Tip
       THEN Become(u, Idle) /\ UNCHANGED <<disk, unsaved>>
       ELSE /\ Flush(u)
            /\ Become(u, [pc |-> "merge", at |-> Tip, todo |-> world.paths,
                          here |-> Here(Flushed(u)), cur |-> NoPath, touched |-> {}])
    /\ UNCHANGED <<world, commits, base, buf, copies, made, dropped, torn>>

\* One path: the local file is read, then the blobs are fetched.
MergeRead(u, p) ==
    /\ op[u].pc = "merge" /\ op[u].cur = NoPath /\ p \in op[u].todo
    /\ Become(u, [op[u] EXCEPT !.todo = @ \ {p},
          !.cur = [path |-> {p}, was |-> IF p \in op[u].here THEN disk[u][p] ELSE Absent]])
    /\ UNCHANGED <<world, commits, base, disk, buf, unsaved, copies, made, dropped, torn>>

\* The file becomes `now`; `touched` are the paths the editor is told of.
Merged(u, p, now, touched) ==
    /\ disk' = [disk EXCEPT ![u][p] = now]
    /\ Become(u, [op[u] EXCEPT !.cur = NoPath, !.touched = @ \cup touched])

Diverging(b, ours, theirs) == ours # b /\ theirs # b /\ ours # theirs

\* A blob that cannot be fetched, or a file that cannot be written, ends nothing: the
\* file stays, the base moves on all the same, and what the remote put there is lost.
PassedBy(u, p, touched) ==
    /\ Failing
    /\ Merged(u, p, disk[u][p], touched)
    /\ torn' = torn \cup {q \in {p} : commits[op[u].at][q] # Absent}

\* Both sides changed a text: diff3, cleanly or with markers.  The editor is not told
\* of a text that could not be written.
MergeText(u, p) ==
    LET ours == op[u].cur.was  theirs == commits[op[u].at][p]  b == Base(u)[p] IN
    /\ op[u].pc = "merge" /\ op[u].cur.path = {p} /\ Diverging(b, ours, theirs)
    /\ p \in Texts /\ Absent \notin {b, ours, theirs}
    /\ \/ /\ \E now \in {Merge3(b, ours, theirs), Marked(ours, theirs)} :
                Merged(u, p, now, {p})
          /\ UNCHANGED <<world, torn>>
       \/ PassedBy(u, p, {})
    /\ UNCHANGED <<commits, base, buf, unsaved, copies, made, dropped>>

\* Both sides changed a file diff3 cannot merge, be it that the base's blob cannot be
\* fetched: the remote's goes to a copy, if it can be fetched and written.
MergeBinary(u, p) ==
    LET ours == op[u].cur.was  theirs == commits[op[u].at][p]  b == Base(u)[p] IN
    /\ op[u].pc = "merge" /\ op[u].cur.path = {p} /\ Diverging(b, ours, theirs)
    /\ \/ /\ IF p \notin Texts \/ Absent \in {b, ours, theirs} THEN UNCHANGED world ELSE Failing
          /\ copies' = IF theirs = Absent THEN copies ELSE [copies EXCEPT ![u][p] = theirs]
          /\ Merged(u, p, disk[u][p], {p})
          /\ UNCHANGED torn
       \/ theirs # Absent /\ PassedBy(u, p, {p}) /\ UNCHANGED copies
    /\ UNCHANGED <<commits, base, buf, unsaved, made, dropped>>

\* Only the remote changed the file: it is written, or deleted if it was listed.
MergeRemote(u, p) ==
    LET ours == op[u].cur.was  theirs == commits[op[u].at][p]  b == Base(u)[p] IN
    /\ op[u].pc = "merge" /\ op[u].cur.path = {p} /\ ours = b /\ theirs # b
    /\ \/ /\ Merged(u, p, IF theirs = Absent /\ p \notin op[u].here
                          THEN disk[u][p] ELSE theirs, {p})
          /\ UNCHANGED <<world, torn>>
       \/ PassedBy(u, p, {p})
    /\ UNCHANGED <<commits, base, buf, unsaved, copies, made, dropped>>

\* Only this side changed the file, or both ended alike: it is kept.
MergeKeep(u, p) ==
    LET ours == op[u].cur.was  theirs == commits[op[u].at][p]  b == Base(u)[p] IN
    /\ op[u].pc = "merge" /\ op[u].cur.path = {p} /\ (theirs = b \/ ours = theirs)
    /\ Merged(u, p, disk[u][p], {})
    /\ UNCHANGED <<world, commits, base, buf, unsaved, copies, made, dropped, torn>>

\* persistSyncedFrom: the commit that was merged, or materialized, is the base.
Persist(u) ==
    /\ op[u].pc \in {"ff", "merge"} /\ op[u].todo = {}
    /\ op[u].pc = "merge" => op[u].cur = NoPath
    /\ base' = [base EXCEPT ![u] = op[u].at]
    /\ Become(u, [pc |-> "after", touched |->
          IF op[u].pc = "ff" THEN Here(commits[op[u].at]) ELSE op[u].touched])
    /\ UNCHANGED <<world, commits, disk, buf, unsaved, copies, made, dropped, torn>>

\* onAfterPull: open tabs of the touched paths take what is on disk.
AfterPull(u) ==
    LET fresh == {p \in op[u].touched : buf[u][p] # Absent /\ disk[u][p] # Absent} IN
    /\ op[u].pc = "after"
    /\ buf' = [buf EXCEPT ![u] = [p \in Paths |-> IF p \in fresh THEN disk[u][p] ELSE @[p]]]
    /\ unsaved' = [unsaved EXCEPT ![u] = @ \ fresh]
    /\ Become(u, Idle)
    /\ UNCHANGED <<world, commits, base, disk, copies, made, dropped, torn>>

\* A request fails: the operation ends where it is.
Fail(u) ==
    /\ Failing /\ op[u].pc \notin {"idle", "after"}
    /\ Abort(u)
    /\ UNCHANGED <<commits, base, disk, buf, unsaved, copies, made, dropped>>

-----------------------------------------------------------------------------
\* restoreCommit: the user agrees that local changes are overwritten; the head
\* is read afresh, whether or not it has been pulled.
Restore(u, t) ==
    LET want == commits[t] IN
    /\ world.restoring /\ op[u] = Idle
    /\ Flush(u)
    /\ dropped' = dropped \cup (Edits \cap UNION {Flushed(u)[p] \ want[p] : p \in Paths})
    /\ Become(u, Materialize(u, "restore", Tip, t))
    /\ UNCHANGED <<world, commits, base, buf, copies, made, torn>>

\* The tree is written: it is committed on top of the head that was read.
\* "nothing to commit" ends the restore with the editor not told.
CommitRestored(u) ==
    /\ op[u].pc = "restore" /\ op[u].todo = {}
    /\ IF disk[u] = commits[op[u].at] THEN Abort(u)
       ELSE Become(u, Commit(disk[u], op[u].at, op[u].back)) /\ UNCHANGED torn
    /\ UNCHANGED <<world, commits, base, disk, buf, unsaved, copies, made, dropped>>

\* revertFile: back to the base, or removed if the base does not have it.
Revert(u, p) ==
    LET want == Base(u)[p] IN
    /\ op[u] = Idle /\ Flushed(u)[p] # want
    /\ dropped' = dropped \cup (Edits \cap (Flushed(u)[p] \ want))
    /\ disk' = [disk EXCEPT ![u] = [Flushed(u) EXCEPT ![p] = want]]
    /\ unsaved' = [unsaved EXCEPT ![u] = {}]
    /\ buf' = IF Absent \in {want, buf[u][p]} THEN buf ELSE [buf EXCEPT ![u][p] = want]
    /\ UNCHANGED <<world, commits, base, copies, op, made, torn>>

\* The user edits the markers out of a text and keeps both sides.
ResolveText(u, p) ==
    /\ op[u] = Idle /\ Marker \in disk[u][p] /\ p \notin unsaved[u]
    /\ disk' = [disk EXCEPT ![u][p] = @ \ {Marker}]
    /\ buf' = IF buf[u][p] = Absent THEN buf ELSE [buf EXCEPT ![u][p] = disk'[u][p]]
    /\ UNCHANGED <<world, commits, base, unsaved, copies, op, made, dropped, torn>>

\* resolveConflict: "mine" drops the copy, "theirs" makes it the file.
ResolveCopy(u, p, mine) ==
    /\ op[u] = Idle /\ copies[u][p] # Absent
    /\ copies' = [copies EXCEPT ![u][p] = Absent]
    /\ IF mine
       THEN /\ dropped' = dropped \cup (Edits \cap copies[u][p])
            /\ UNCHANGED <<disk, buf, unsaved>>
       ELSE /\ dropped' = dropped \cup (Edits \cap ((disk[u][p] \cup buf[u][p]) \ copies[u][p]))
            /\ disk' = [disk EXCEPT ![u][p] = copies[u][p]]
            /\ buf' = IF buf[u][p] = Absent THEN buf ELSE [buf EXCEPT ![u][p] = copies[u][p]]
            /\ unsaved' = [unsaved EXCEPT ![u] = @ \ {p}]
    /\ UNCHANGED <<world, commits, base, op, made, torn>>

\* What a user and an operation of theirs do to one path, and to the tree.
Edit(u, p) ==
    \/ Open(u, p) \/ Type(u, p) \/ Replace(u, p) \/ AutoSave(u, p) \/ Delete(u, p)
    \/ Revert(u, p) \/ ResolveText(u, p) \/ \E mine \in BOOLEAN : ResolveCopy(u, p, mine)

Bring(u, p) ==
    \/ FastForward(u, p) \/ MergeRead(u, p) \/ MergeText(u, p)
    \/ MergeBinary(u, p) \/ MergeRemote(u, p) \/ MergeKeep(u, p)

Operate(u) ==
    \/ Publish(u) \/ Upload(u) \/ Push(u) \/ Pushed(u)
    \/ Pull(u) \/ MergeStart(u) \/ Persist(u) \/ AfterPull(u) \/ Fail(u)
    \/ CommitRestored(u) \/ \E t \in 1 .. Tip - 1 : Restore(u, t)

Next == \E u \in Users : Operate(u) \/ \E p \in world.paths : Edit(u, p) \/ Bring(u, p)

Spec == Init /\ [][Next]_vars

-----------------------------------------------------------------------------
\* The type invariant.
TypeOK ==
    /\ commits \in Seq(Trees)
    /\ base \in [Users -> 1 .. Tip]
    /\ disk \in [Users -> Trees] /\ buf \in [Users -> Trees]
    /\ copies \in [Users -> Trees]
    /\ unsaved \in [Users -> SUBSET Texts]
    /\ \A u \in Users : \A p \in unsaved[u] : buf[u][p] # Absent
    /\ \A u \in Users : "at" \in DOMAIN op[u] => op[u].at \in base[u] .. Tip
    /\ made \in Seq(Paths) /\ dropped \subseteq Edits /\ torn \subseteq Paths

\* Where an edit of path p may live on: somebody's editor, working tree or
\* conflict copy, or the head of the branch.
Kept(p) == commits[Tip][p] \cup
           UNION {buf[u][p] \cup disk[u][p] \cup copies[u][p] : u \in Users}

\* No edit is lost that nobody discarded: whatever the order of publishes, pulls
\* and merges, each edit is in a working tree, a conflict copy or the head.
EditsSurvive ==
    \A id \in 1 .. Len(made) :
        id \notin dropped /\ made[id] \notin torn => id \in Kept(made[id])

\* The branch is the promised line of versions: every commit is made from the
\* head, or goes back to an older commit, and takes nothing of the head that nobody
\* discarded or passed over (repo.ts commit, collaboration-panel.ts restoreCommit).
Branch == INSTANCE SharedBranch WITH
    texts <- [i \in 1 .. Tip |-> [p \in Paths |-> commits[i][p] \cap Edits]],
    seen <- base,
    given <- dropped,
    spoilt <- torn

ImplementsSharedBranch == Branch!Spec

\* What mergeFromRemote's second flush is there for: typing while a pull is at
\* work does not lose what a teammate published.
TypingKeepsHead ==
    [][\A p \in Paths :
         (commits[Tip][p] \cap Edits) \ dropped' \subseteq commits'[Tip'][p]]_vars
=============================================================================
