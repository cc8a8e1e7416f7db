---------------------------- MODULE SharingPanel ----------------------------
(***************************************************************************)
(* What the source control panel shows (Playground/src/sharing:            *)
(* collaboration-panel.ts, file-status.ts, local-saves.ts): whether a file *)
(* is modified, read through a cache of hashes that every writer has to    *)
(* invalidate; the local saves it is compared with; and whether the remote *)
(* has changes to pull, which a poll finds out and a publish, a pull or a  *)
(* merge changes under it.                                                 *)
(*                                                                         *)
(* One file and one user, connected and signed in; other users publish to  *)
(* the branch.  A content is a number, and so is its hash.  A function is  *)
(* cut where it awaits the disk or the network.                            *)
(***************************************************************************)
EXTENDS Integers, Sequences, FiniteSets

CONSTANTS
    MaxCommits,   \* bound on commits of the branch
    MaxSaves,     \* MAX_SAVES_PER_PROJECT
    MaxLoads,     \* bound on loads of the saves under way
    MaxRefreshes, \* bound on calls of refreshStatus under way that no operation awaits
    Worlds        \* the circumstances to look at: the file is open in a tab, local
                  \* saves are made, the remote is polled, a poll may fail, and the
                  \* bound on contents, those a merge makes left aside

\* What the constants must be; MCFiles assumes it.
PanelAssumption ==
    /\ {MaxCommits, MaxSaves, MaxLoads, MaxRefreshes} \subseteq Nat \ {0}
    /\ Worlds \subseteq [open : BOOLEAN, saving : BOOLEAN, polling : BOOLEAN, failing : BOOLEAN,
                         contents : Nat \ {0}]

Nil == 0

VARIABLES
    world,        \* the one of Worlds that is the case
    newest,       \* the newest content made so far
    commits,      \* the file in each commit of the branch
    base,         \* syncedCommitSha
    file,         \* the file
    editor,       \* the text of its editor model, Nil when it is not open
    due,          \* the autosave of the model is armed
    cache,        \* HashCache: the hash of the file, or Nil
    saves,        \* the stored local saves, newest first
    pendingSaves, \* the saves the panel lists
    loads,        \* refreshSaves under way: what each found
    latest,       \* savesUpgrade: the latest of them, Nil when it has landed
    refreshes,    \* calls of refreshStatus under way, in the order of their start
    modified,     \* staged: the file is listed as changed
    drop,         \* dropLocalSave under way: the list it will store
    op,           \* what runBusy runs
    poll,         \* checkRemote under way
    seen,         \* remoteHeadSha, Nil when nothing was seen
    chip,         \* pendingPullPaths has the file
    unsure,       \* ghost: the file changed unannounced, or under a reader
    overtaken,    \* ghost: an older refresh was done after a newer one
    strayed,      \* ghost: an older load landed after the newest one
    crossed       \* ghost: the last poll was under way when the base moved, or failed

fileVars == <<newest, file, editor, due, cache, unsure>>
saveVars == <<saves, pendingSaves, loads, latest, drop, strayed>>
pullVars == <<poll, seen, chip, crossed>>
panelVars == <<world, fileVars, saveVars, pullVars, commits, base, refreshes, modified, op, overtaken>>

FileContents == 1 .. world.contents + MaxCommits
Idle == [pc |-> "idle"]
NoDrop == [under |-> FALSE]
Tip == Len(commits)
Synced == commits[base]

PanelInit ==
    /\ world \in Worlds
    /\ newest = 1 /\ commits = <<1>> /\ base = 1
    /\ file = 1 /\ editor = (IF world.open THEN 1 ELSE Nil) /\ due = FALSE
    /\ cache = Nil /\ unsure = FALSE
    /\ saves = <<>> /\ pendingSaves = <<>> /\ drop = NoDrop /\ strayed = FALSE
    /\ loads = [l \in 1 .. MaxLoads |-> <<>>] /\ latest = Nil
    /\ refreshes = <<>> /\ modified = FALSE /\ overtaken = FALSE
    /\ op = Idle
    /\ poll = Idle /\ seen = Nil /\ chip = FALSE /\ crossed = FALSE

-----------------------------------------------------------------------------
\* A refresh holds the bytes of the file and has not stored their hash yet.
Reading == \E i \in DOMAIN refreshes : refreshes[i].pc = "hashes"

\* The file becomes c, and its hash is invalidated (writeFile, deleteFile).
Write(c) ==
    /\ file' = c
    /\ cache' = Nil
    /\ unsure' = Reading

\* flushPendingSaves, which invalidates what it writes and leaves the refresh to
\* its caller; `last` when the caller is done with that.
FlushedText == IF due THEN editor ELSE file
Flush(last) ==
    /\ due' = FALSE
    /\ IF due THEN file' = editor /\ cache' = Nil /\ unsure' = (Reading \/ last)
       ELSE UNCHANGED <<file, cache, unsure>>

\* refreshSaves: load l reads the list, and lands later.
Loading == {l \in 1 .. MaxLoads : loads[l] # <<>>}
StartLoad(l, list) ==
    /\ l \notin Loading
    /\ loads' = [loads EXCEPT ![l] = <<list>>]
    /\ latest' = l

\* refreshStatus is called while `upgrade` is the latest load; `awaited` when the
\* operation under way waits for it.
StartRefresh(awaited, upgrade) ==
    /\ awaited \/ Cardinality({i \in DOMAIN refreshes : ~refreshes[i].op}) < MaxRefreshes
    /\ refreshes' = Append(refreshes,
           [pc |-> "waits", on |-> upgrade, ref |-> Nil, got |-> Nil, op |-> awaited, old |-> FALSE])

\* Mutant of Persist: what there was to pull is still offered.
PersistKeepsChip(c) ==
    /\ base' = c
    /\ seen' = c
    /\ chip' = chip
    /\ poll' = IF poll = Idle THEN Idle ELSE [poll EXCEPT !.crossed = TRUE]
    /\ crossed' = FALSE

\* persistSyncedFrom: the base is commit c, and nothing is left to pull.
Persist(c) ==
    /\ base' = c
    /\ seen' = c
    /\ chip' = FALSE
    /\ poll' = IF poll = Idle THEN Idle ELSE [poll EXCEPT !.crossed = TRUE]
    /\ crossed' = FALSE

\* onAfterPull: an open tab takes the text, which arms its autosave.
AfterPull(text) ==
    IF editor \in {Nil, text} THEN UNCHANGED <<editor, due>>
    ELSE editor' = text /\ due' = TRUE

\* The panel's buttons are enabled.
Enabled == op = Idle

-----------------------------------------------------------------------------
\* The user types.
TypeText ==
    /\ world.open /\ newest < world.contents
    /\ newest' = newest + 1
    /\ editor' = newest + 1
    /\ due' = TRUE
    /\ UNCHANGED <<world, file, cache, unsure, saveVars, pullVars, commits, base, refreshes, modified, op, overtaken>>

\* The autosave: the file is written, refreshStatusForFile called.
SaveTab ==
    /\ due /\ due' = FALSE
    /\ Write(editor)
    /\ StartRefresh(FALSE, latest)
    /\ UNCHANGED <<world, newest, editor, saveVars, pullVars, commits, base, modified, op, overtaken>>

\* The assistant imports a file of the catalogue over itself: the panel is not told.
Import ==
    /\ ~world.open /\ newest < world.contents
    /\ newest' = newest + 1
    /\ file' = newest + 1
    /\ unsure' = TRUE
    /\ UNCHANGED <<world, editor, due, cache, saveVars, pullVars, commits, base, refreshes, modified, op, overtaken>>

\* Another user publishes.
RemotePush ==
    /\ newest < world.contents /\ Tip < MaxCommits
    /\ newest' = newest + 1
    /\ commits' = Append(commits, newest + 1)
    /\ UNCHANGED <<world, file, editor, due, cache, unsure, saveVars, pullVars, base, refreshes, modified, op, overtaken>>

-----------------------------------------------------------------------------
\* Mutant of RefreshBegin: the load of the saves is not waited for.
RefreshEager(i) ==
    /\ refreshes[i].pc = "waits"
    /\ refreshes' = [refreshes EXCEPT ![i].pc = "lists", ![i].on = Nil,
           ![i].ref = IF pendingSaves # <<>> THEN Head(pendingSaves) ELSE Synced]
    /\ UNCHANGED <<world, fileVars, saveVars, pullVars, commits, base, modified, op, overtaken>>

\* computeStatus is called with referenceTree(): the latest save, or the base.
RefreshBegin(i) ==
    /\ refreshes[i].pc = "waits" /\ refreshes[i].on = Nil
    /\ refreshes' = [refreshes EXCEPT ![i].pc = "lists",
           ![i].ref = IF pendingSaves # <<>> THEN Head(pendingSaves) ELSE Synced]
    /\ UNCHANGED <<world, fileVars, saveVars, pullVars, commits, base, modified, op, overtaken>>

\* The files are listed: the hash is in the cache, or the file is read.
RefreshLook(i) ==
    /\ refreshes[i].pc = "lists"
    /\ refreshes' = IF cache # Nil THEN [refreshes EXCEPT ![i].pc = "done", ![i].got = cache]
                    ELSE [refreshes EXCEPT ![i].pc = "hashes", ![i].got = file]
    /\ UNCHANGED <<world, fileVars, saveVars, pullVars, commits, base, modified, op, overtaken>>

\* The hash of what was read is cached.
RefreshHash(i) ==
    /\ refreshes[i].pc = "hashes"
    /\ cache' = refreshes[i].got
    /\ refreshes' = [refreshes EXCEPT ![i].pc = "done"]
    /\ UNCHANGED <<world, newest, file, editor, due, unsure, saveVars, pullVars, commits, base, modified, op, overtaken>>

\* `staged` is replaced; an operation that waited tells the open tab and ends.
RefreshDone(i) ==
    LET r == refreshes[i] IN
    /\ r.pc = "done"
    /\ modified' = (r.got # r.ref)
    /\ overtaken' = r.old
    /\ refreshes' = [j \in 1 .. Len(refreshes) - 1 |->
                        IF j < i THEN [refreshes[j] EXCEPT !.old = TRUE] ELSE refreshes[j + 1]]
    /\ IF r.op THEN op' = Idle /\ IF op.tell THEN AfterPull(file) ELSE UNCHANGED <<editor, due>>
       ELSE UNCHANGED <<op, editor, due>>
    /\ UNCHANGED <<world, newest, file, cache, unsure, saveVars, pullVars, commits, base>>

\* A load lands with the list it read at its start, or read just now.
Landed(l) ==
    /\ loads[l] # <<>>
    /\ pendingSaves' \in {Head(loads[l]), saves}
    /\ loads' = [loads EXCEPT ![l] = <<>>]
    /\ latest' = IF latest = l THEN Nil ELSE latest
    /\ strayed' = CASE latest = l -> FALSE [] latest = Nil -> TRUE [] OTHER -> strayed
    /\ refreshes' = [i \in DOMAIN refreshes |->
                        IF refreshes[i].on = l THEN [refreshes[i] EXCEPT !.on = Nil] ELSE refreshes[i]]
    /\ UNCHANGED <<world, fileVars, saves, drop, pullVars, commits, base, modified, op, overtaken>>

-----------------------------------------------------------------------------
\* doSave: the editor is flushed, the file read; then the list is read, and stored
\* with the new save in front.
Save ==
    /\ world.saving /\ Enabled /\ (modified \/ due)
    /\ Flush(FALSE)
    /\ op' = [pc |-> "lists", snap |-> FlushedText]
    /\ UNCHANGED <<world, newest, editor, saveVars, pullVars, commits, base, refreshes, modified, overtaken>>

SaveList ==
    /\ op.pc = "lists"
    /\ op' = [pc |-> "stores", list |-> <<op.snap>> \o saves]
    /\ UNCHANGED <<world, fileVars, saveVars, pullVars, commits, base, refreshes, modified, overtaken>>

Waiting(tell) == [pc |-> "status", tell |-> tell]

SaveStore(l) ==
    /\ op.pc = "stores"
    /\ saves' = SubSeq(op.list, 1, IF Len(op.list) > MaxSaves THEN MaxSaves ELSE Len(op.list))
    /\ StartLoad(l, saves')
    /\ StartRefresh(TRUE, l)
    /\ op' = Waiting(FALSE)
    /\ UNCHANGED <<world, fileVars, pendingSaves, drop, strayed, pullVars, commits, base, modified, overtaken>>

\* The stored saves without one whose content is c, if there still is one.
Without(c) ==
    LET at == {k \in DOMAIN saves : saves[k] = c} IN
    IF at = {} THEN {saves}
    ELSE {SubSeq(saves, 1, k - 1) \o SubSeq(saves, k + 1, Len(saves)) : k \in at}

\* dropLocalSave, which no button waits for: the list is read, and stored without
\* the save.
Drop(i) ==
    /\ ~drop.under /\ i \in DOMAIN pendingSaves
    /\ drop' \in [under : {TRUE}, list : Without(pendingSaves[i])]
    /\ UNCHANGED <<world, fileVars, saves, pendingSaves, loads, latest, strayed, pullVars, commits, base, refreshes, modified, op, overtaken>>

DropStore(l) ==
    /\ drop.under /\ drop' = NoDrop
    /\ saves' = drop.list
    /\ StartLoad(l, saves')
    /\ StartRefresh(FALSE, l)
    /\ UNCHANGED <<world, fileVars, pendingSaves, strayed, pullVars, commits, base, modified, op, overtaken>>

\* revertToLocalSave: the file of a save is written and the tab told.
RevertToSave(i) ==
    /\ Enabled /\ i \in DOMAIN pendingSaves
    /\ Write(pendingSaves[i])
    /\ IF editor \in {Nil, pendingSaves[i]} THEN editor' = editor /\ due' = FALSE
       ELSE editor' = pendingSaves[i] /\ due' = TRUE
    /\ StartRefresh(TRUE, latest)
    /\ op' = Waiting(FALSE)
    /\ UNCHANGED <<world, newest, saveVars, pullVars, commits, base, modified, overtaken>>

-----------------------------------------------------------------------------
\* doPublish: there are saves, and nothing to pull.
Publish ==
    /\ Enabled /\ pendingSaves # <<>> /\ ~chip /\ Tip < MaxCommits
    /\ Flush(FlushedText = Synced)
    /\ op' = IF FlushedText = Synced THEN Idle ELSE [pc |-> "pushes", tree |-> FlushedText, on |-> base]
    /\ UNCHANGED <<world, newest, editor, saveVars, pullVars, commits, base, refreshes, modified, overtaken>>

\* Repo.commit; a branch that has moved makes it a merge.
Push ==
    /\ op.pc = "pushes"
    /\ IF op.on = Tip
       THEN commits' = Append(commits, op.tree) /\ op' = [pc |-> "pushed", at |-> Tip + 1]
       ELSE op' = [pc |-> "diverged"] /\ UNCHANGED commits
    /\ UNCHANGED <<world, fileVars, saveVars, pullVars, base, refreshes, modified, overtaken>>

Pushed ==
    /\ op.pc = "pushed"
    /\ Persist(op.at)
    /\ op' = [pc |-> "clears"]
    /\ UNCHANGED <<world, fileVars, saveVars, commits, refreshes, modified, overtaken>>

\* clearSaves, refreshSaves and refreshStatus.
Cleared(l) ==
    /\ op.pc = "clears"
    /\ saves' = <<>>
    /\ StartLoad(l, <<>>)
    /\ StartRefresh(TRUE, l)
    /\ op' = Waiting(FALSE)
    /\ UNCHANGED <<world, fileVars, pendingSaves, drop, strayed, pullVars, commits, base, modified, overtaken>>

\* pull: up to date, a fast-forward, or a merge when there are local changes.
Pull ==
    /\ Enabled /\ chip
    /\ Flush(base = Tip)
    /\ op' = IF base = Tip THEN Idle
             ELSE IF FlushedText = Synced THEN [pc |-> "applies", at |-> Tip]
             ELSE [pc |-> "diverged"]
    /\ UNCHANGED <<world, newest, editor, saveVars, pullVars, commits, base, refreshes, modified, overtaken>>

\* materialize writes the file behind the panel's back.
FastForward ==
    /\ op.pc = "applies"
    /\ file' = commits[op.at]
    /\ unsure' = (unsure \/ (file' # file /\ (Reading \/ cache # Nil)))
    /\ op' = [pc |-> "applied", at |-> op.at]
    /\ UNCHANGED <<world, newest, editor, due, cache, saveVars, pullVars, commits, base, refreshes, modified, overtaken>>

FastForwarded ==
    /\ op.pc = "applied"
    /\ Persist(op.at)
    /\ AfterPull(file)
    /\ StartRefresh(TRUE, latest)
    /\ op' = Waiting(FALSE)
    /\ UNCHANGED <<world, newest, file, cache, unsure, saveVars, commits, modified, overtaken>>

\* mergeFromRemote: the remote head is read and the editor flushed.
MergeStart ==
    /\ op.pc = "diverged"
    /\ IF base = Tip THEN op' = Idle /\ UNCHANGED <<file, cache, unsure, due>>
       ELSE Flush(FALSE) /\ op' = [pc |-> "merges", at |-> Tip]
    /\ UNCHANGED <<world, newest, editor, saveVars, pullVars, commits, base, refreshes, modified, overtaken>>

\* The file takes the remote's content where only the remote changed it, and a new
\* one where both did.
MergeWrite ==
    LET theirs == commits[op.at] IN
    /\ op.pc = "merges"
    /\ CASE theirs \in {Synced, file} -> UNCHANGED <<newest, file, cache, unsure>>
         [] file = Synced /\ theirs # file -> Write(theirs) /\ UNCHANGED newest
         [] OTHER -> Write(newest + 1) /\ newest' = newest + 1
    /\ op' = [pc |-> "merged", at |-> op.at]
    /\ UNCHANGED <<world, editor, due, saveVars, pullVars, commits, base, refreshes, modified, overtaken>>

Merged ==
    /\ op.pc = "merged"
    /\ Persist(op.at)
    /\ StartRefresh(TRUE, latest)
    /\ op' = Waiting(TRUE)
    /\ UNCHANGED <<world, fileVars, saveVars, commits, modified, overtaken>>

-----------------------------------------------------------------------------
\* checkRemote: a tick of the timer, which is skipped while an operation runs, or
\* the tab is visible again.  The head is read.
PollStart(force) ==
    /\ world.polling /\ poll = Idle /\ (force \/ op = Idle)
    /\ poll' = [pc |-> "head", sha |-> Tip, crossed |-> FALSE]
    /\ UNCHANGED <<world, fileVars, saveVars, seen, chip, crossed, commits, base, refreshes, modified, op, overtaken>>

\* The head has come.
PollHead ==
    /\ poll.pc = "head"
    /\ CASE poll.sha = seen -> poll' = Idle /\ UNCHANGED <<seen, chip, crossed>>
         [] poll.sha # seen /\ poll.sha # base ->
                poll' = [poll EXCEPT !.pc = "tree"] /\ seen' = poll.sha /\ UNCHANGED <<chip, crossed>>
         [] OTHER -> poll' = Idle /\ seen' = poll.sha /\ chip' = FALSE /\ crossed' = poll.crossed
    /\ UNCHANGED <<world, fileVars, saveVars, commits, base, refreshes, modified, op, overtaken>>

\* Its tree has come, and is compared with the base of the moment; or it has not.
PollTree(fails) ==
    /\ poll.pc = "tree" /\ (fails => world.failing)
    /\ chip' = (~fails /\ commits[poll.sha] # Synced)
    /\ crossed' = (poll.crossed \/ fails)
    /\ poll' = Idle
    /\ UNCHANGED <<world, fileVars, saveVars, seen, commits, base, refreshes, modified, op, overtaken>>

\* Mutant of Reload: what was seen of the remote is kept.
ReloadKeepsSeen(l) ==
    /\ chip' = FALSE
    /\ modified' = FALSE
    /\ StartLoad(l, saves)
    /\ StartRefresh(FALSE, l)
    /\ UNCHANGED <<world, fileVars, saves, pendingSaves, drop, strayed, poll, seen, crossed, commits, base, op, overtaken>>

\* setActiveProject, which every refresh of the project's files calls: all but the
\* index starts anew.
Reload(l) ==
    /\ seen' = Nil
    /\ chip' = FALSE
    /\ modified' = FALSE
    /\ StartLoad(l, saves)
    /\ StartRefresh(FALSE, l)
    /\ UNCHANGED <<world, fileVars, saves, pendingSaves, drop, strayed, poll, crossed, commits, base, op, overtaken>>

-----------------------------------------------------------------------------
Refreshing(i) == RefreshBegin(i) \/ RefreshLook(i) \/ RefreshHash(i) \/ RefreshDone(i)

Working ==
    \/ SaveList \/ Push \/ Pushed \/ FastForward \/ FastForwarded
    \/ MergeStart \/ MergeWrite \/ Merged
    \/ \E l \in 1 .. MaxLoads : SaveStore(l) \/ Cleared(l)

Polling == PollHead \/ \E fails \in BOOLEAN : PollTree(fails)

PanelNext ==
    \/ TypeText \/ SaveTab \/ Import \/ RemotePush
    \/ \E i \in DOMAIN refreshes : Refreshing(i)
    \/ Save \/ Publish \/ Pull \/ Working
    \/ \E i \in 1 .. MaxSaves : Drop(i) \/ RevertToSave(i)
    \/ \E l \in 1 .. MaxLoads : Landed(l) \/ DropStore(l) \/ Reload(l)
    \/ Polling \/ \E force \in BOOLEAN : PollStart(force)

\* Requests and reads end, and the timer ticks: a panel that stays idle is polled.
PanelFairness ==
    /\ \A i \in 1 .. MaxRefreshes + 1 : WF_panelVars(i \in DOMAIN refreshes /\ Refreshing(i))
    /\ \A l \in 1 .. MaxLoads : WF_panelVars(Landed(l))
    /\ WF_panelVars(Working)
    /\ WF_panelVars(Polling)
    /\ WF_panelVars(PollStart(FALSE))

PanelSpec == PanelInit /\ [][PanelNext]_panelVars /\ PanelFairness

-----------------------------------------------------------------------------
\* The type invariant.
PanelTypeOK ==
    /\ newest \in FileContents /\ file \in FileContents /\ editor \in FileContents \cup {Nil}
    /\ due \in BOOLEAN /\ (due => editor # Nil)
    /\ cache \in FileContents \cup {Nil}
    /\ commits \in Seq(FileContents) /\ {base} \cup ({seen} \ {Nil}) \subseteq 1 .. Tip
    /\ {saves, pendingSaves} \subseteq Seq(FileContents) /\ Len(saves) <= MaxSaves
    /\ latest \in Loading \cup {Nil}
    /\ \A i \in DOMAIN refreshes : refreshes[i].on \in Loading \cup {Nil}
    /\ Cardinality({i \in DOMAIN refreshes : refreshes[i].op}) = (IF op.pc = "status" THEN 1 ELSE 0)
    /\ {modified, chip, unsure, overtaken, strayed, crossed} \subseteq BOOLEAN

\* Nothing is under way that would still change what the panel lists.
AllQuiet == refreshes = <<>> /\ Loading = {} /\ op = Idle /\ ~drop.under

\* When everything has settled the file is listed as modified if, and only if, it
\* differs from the latest stored save, or from the base when there is none -
\* except after a write the panel was not told of, or one that came between a read
\* and the caching of its hash, and when refreshes or loads overtook one another
\* (refreshStatus, HashCache and their callers).
BadgeIsRight ==
    AllQuiet /\ ~unsure /\ ~overtaken /\ ~strayed =>
        modified = (file # IF saves = <<>> THEN Synced ELSE Head(saves))

\* Between polls the panel offers a pull if, and only if, the head it has seen
\* differs from the base - except when the base moved under the last poll, or its
\* tree could not be fetched (checkRemote, persistSyncedFrom).
ChipIsRight == poll = Idle /\ seen # Nil /\ ~crossed => chip = (commits[seen] # Synced)

\* Where the remote is polled, a change of it is offered sooner or later, unless
\* the tree of the poll that saw it could not be fetched (checkRemote).
PullIsOffered ==
    []<>(commits[Tip] = Synced \/ chip \/ world.failing \/ ~world.polling)
=============================================================================
