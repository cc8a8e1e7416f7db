----------------------------- MODULE AssetSync -----------------------------
(***************************************************************************)
(* What a launch of a MonoGame program does about its assets (main.ts      *)
(* syncAssetsToRuntime): it compiles the asset files by the plan the       *)
(* source's macros make, or trusts one of two memories of what it compiled *)
(* before, tells the runtime's iframe what there should be, and registers  *)
(* what that does not hold.  The first memory is the page's, valid while   *)
(* nothing was written; the second is a file, valid while no file's size   *)
(* or date has changed, and outlives the page.                             *)
(*                                                                         *)
(* Launches do not overlap, but a test run, an import or an edited shader  *)
(* syncs on its own, with an empty plan and without the memories.  A sync  *)
(* is cut where it awaits the disk or the runtime.  A version stands for a *)
(* file's text, size and date, and the source's for its plan.              *)
(***************************************************************************)
EXTENDS Integers, FiniteSets

CONSTANTS
    Assets,
    Planned,      \* those compiled by the plan: images; the others are sounds
    Source,       \* the source file
    MaxChanges,   \* bound on changes of the files and of the editor
    MaxLaunches,  \* bound on launches
    MaxOthers,    \* bound on syncs besides
    MaxTroubles   \* bound on reloads, restarts of the runtime and failures

\* What the constants must be; MCProject assumes it.
AssetSyncAssumption ==
    /\ Planned \subseteq Assets /\ Source \notin Assets
    /\ {MaxChanges, MaxLaunches, MaxOthers, MaxTroubles} \subseteq Nat

VARIABLES
    clock,      \* the changes made so far
    files,      \* the version of each asset file, 0 when there is none
    src,        \* the version of the source file
    typed,      \* the version in its editor
    mutations,  \* the workspace's count of writes and deletions
    memo,       \* inMemoryLaunchMemo
    persisted,  \* .fade-cache/manifest.json
    live,       \* what the runtime has registered
    kept,       \* what its IndexedDB keeps of the project
    sync,       \* syncAssetsToRuntime under way, of a launch and of the others
    launches, others, troubles

fileVars == <<clock, files, src, typed, mutations>>
memoVars == <<memo, persisted>>
runtimeVars == <<live, kept>>
countVars == <<launches, others, troubles>>
assetVars == <<fileVars, memoVars, runtimeVars, sync, countVars>>

Files == Assets \cup {Source}
Versions == 0 .. MaxChanges + 1
Empty == 0                      \* EMPTY_CONTENT_PLAN
Missing == <<0, 0>>
Hashes == Versions \X Versions
None == [known |-> FALSE]
NoSync == [pc |-> "idle"]

\* A compiled asset, which its hash stands for.
Compiled(a, version, plan) ==
    IF version = 0 THEN Missing ELSE <<version, IF a \in Planned THEN plan ELSE Empty>>

Names(manifest) == {a \in Assets : manifest[a] # Missing}
NoAssets == [a \in Assets |-> Missing]

\* What the files are like now, as their fingerprint tells.
Stats == [f \in Files |-> IF f = Source THEN src ELSE files[f]]

AssetInit ==
    /\ clock = 1 /\ files = [a \in Assets |-> 1] /\ src = 1 /\ typed = 1
    /\ mutations = 0
    /\ memo = None /\ persisted = None
    /\ live = NoAssets /\ kept = NoAssets
    /\ sync = [k \in {"launch", "other"} |-> NoSync]
    /\ launches = 0 /\ others = 0 /\ troubles = 0

-----------------------------------------------------------------------------
\* Something has happened to what the launch under way works on.
Shaken == IF sync["launch"] = NoSync THEN sync ELSE [sync EXCEPT !["launch"].calm = FALSE]

Change == clock <= MaxChanges /\ clock' = clock + 1 /\ sync' = Shaken
Trouble == troubles < MaxTroubles /\ troubles' = troubles + 1

\* An asset is imported, replaced, or comes with a pull.
Write(a) ==
    /\ Change
    /\ files' = [files EXCEPT ![a] = clock']
    /\ mutations' = mutations + 1
    /\ UNCHANGED <<src, typed, memoVars, runtimeVars, countVars>>

DeleteAsset(a) ==
    /\ files[a] # 0 /\ Change
    /\ files' = [files EXCEPT ![a] = 0]
    /\ mutations' = mutations + 1
    /\ UNCHANGED <<src, typed, memoVars, runtimeVars, countVars>>

\* The user types in the source.
TypeSource ==
    /\ Change
    /\ typed' = clock'
    /\ UNCHANGED <<files, src, mutations, memoVars, runtimeVars, countVars>>

\* The editor saves it.
SaveSource ==
    /\ typed # src
    /\ src' = typed
    /\ mutations' = mutations + 1
    /\ sync' = Shaken
    /\ UNCHANGED <<clock, files, typed, memoVars, runtimeVars, countVars>>

-----------------------------------------------------------------------------
\* The next of sync k's steps is at `pc`.
At(k, pc) == sync[k].pc = pc
SyncBecomes(k, s) == sync' = [sync EXCEPT ![k] = s]

\* syncAssetsToRuntime is called: `plan` is a plan, or made when it is needed.
Begun(mode, plan) ==
    [pc |-> "list", mode |-> mode, plan |-> plan, seen |-> [f \in Files |-> 0],
     cur |-> 0, late |-> FALSE, bad |-> FALSE,
     target |-> NoAssets, manifest |-> NoAssets, need |-> {}, todo |-> {},
     calm |-> typed = src]

\* Run compiles the source that is in the editor, Debug does when it has to.
Launch(mode) ==
    /\ sync["launch"] = NoSync /\ launches < MaxLaunches
    /\ launches' = launches + 1
    /\ SyncBecomes("launch", Begun(mode, typed))
    /\ UNCHANGED <<fileVars, memoVars, runtimeVars, others, troubles>>

\* A test run, an import, a shader's reload.
Other ==
    /\ sync["other"] = NoSync /\ others < MaxOthers
    /\ others' = others + 1
    /\ SyncBecomes("other", Begun("plain", Empty))
    /\ UNCHANGED <<fileVars, memoVars, runtimeVars, launches, troubles>>

\* s has to compile the files it listed: by a plan it has, or has yet to make.
ToBuild(s) ==
    [s EXCEPT !.pc = IF s.mode = "debug" THEN "plan" ELSE "build",
              !.todo = {a \in Assets : s.seen[a] # 0}]

\* The files are listed.  While nothing has been written since the last launch what
\* that compiled is taken; another sync than a launch's has no use for the stats.
List(k) ==
    LET s == [sync[k] EXCEPT !.seen = [f \in Files |-> IF Stats[f] = 0 THEN 0 ELSE -1]] IN
    /\ At(k, "list")
    /\ SyncBecomes(k,
        IF k = "launch" /\ memo.known /\ memo.mutation = mutations
        THEN [s EXCEPT !.pc = "reconcile", !.manifest = memo.manifest,
                       !.calm = @ /\ ~memo.bad]
        ELSE IF k = "launch" THEN [s EXCEPT !.pc = "stat", !.todo = {f \in Files : Stats[f] # 0}]
        ELSE ToBuild(s))
    /\ UNCHANGED <<fileVars, memoVars, runtimeVars, countVars>>

\* The size and date of one file, -1 when it is gone by now.
Stat(f) ==
    LET s == sync["launch"] IN
    /\ At("launch", "stat") /\ f \in s.todo
    /\ SyncBecomes("launch", [s EXCEPT !.seen[f] = IF Stats[f] = 0 THEN -1 ELSE Stats[f],
                                  !.todo = @ \ {f}])
    /\ UNCHANGED <<fileVars, memoVars, runtimeVars, countVars>>

\* Mutant of Trusted: the fingerprint is one of the assets only.
TrustedByAssets(seen) == persisted.known /\ \A a \in Assets : persisted.seen[a] = seen[a]

\* The persisted manifest is of files like these.
Trusted(seen) == persisted.known /\ persisted.seen = seen

\* All is known of the files: the count of writes is read, and what was persisted is
\* taken or else the assets are compiled.
Decide ==
    LET s == sync["launch"] IN
    /\ At("launch", "stat") /\ s.todo = {}
    /\ IF Trusted(s.seen)
       THEN /\ memo' = [known |-> TRUE, mutation |-> mutations, manifest |-> persisted.manifest,
                        bad |-> persisted.bad \/ s.seen # Stats]
            /\ SyncBecomes("launch", [s EXCEPT !.pc = "reconcile", !.manifest = persisted.manifest,
                                          !.calm = @ /\ ~persisted.bad])
       ELSE /\ SyncBecomes("launch", ToBuild([s EXCEPT !.cur = mutations, !.late = s.seen # Stats]))
            /\ UNCHANGED memo
    /\ UNCHANGED <<fileVars, persisted, runtimeVars, countVars>>

\* launchContentPlanThunk: the plan of what is in the editor, or an empty one when
\* the runtime does not answer.
MakePlan(fails) ==
    LET s == sync["launch"] IN
    /\ At("launch", "plan")
    /\ IF fails THEN Trouble ELSE UNCHANGED troubles
    /\ SyncBecomes("launch", [s EXCEPT !.pc = "build", !.plan = IF fails THEN Empty ELSE typed,
                                  !.bad = @ \/ fails, !.calm = @ /\ ~fails])
    /\ UNCHANGED <<fileVars, memoVars, runtimeVars, launches, others>>

\* An asset is read and compiled, images before sounds; one that cannot be is left
\* out.
Build(k, a, fails) ==
    LET s == sync[k] IN
    /\ At(k, "build") /\ a \in s.todo
    /\ a \in Planned \/ s.todo \cap Planned = {}
    /\ IF fails THEN Trouble ELSE UNCHANGED troubles
    /\ SyncBecomes(k, [s EXCEPT !.target[a] = IF fails THEN Missing ELSE Compiled(a, files[a], s.plan),
                           !.todo = @ \ {a}, !.bad = @ \/ fails, !.calm = @ /\ ~fails])
    /\ UNCHANGED <<fileVars, memoVars, runtimeVars, launches, others>>

\* All assets are compiled: for the manifest, which a launch keeps in both memories,
\* or because the runtime lacks one of those a memory had.
Built(k) ==
    LET s == sync[k]
        \* The plan was made of another text than was saved.
        bad == s.bad \/ s.plan # s.seen[Source]
    IN  /\ At(k, "build") /\ s.todo = {}
        /\ \/ /\ s.need # {} /\ SyncBecomes(k, [s EXCEPT !.pc = "register", !.todo = s.need])
              /\ UNCHANGED memoVars
           \/ /\ s.need = {} /\ SyncBecomes(k, [s EXCEPT !.pc = "reconcile", !.manifest = s.target])
              /\ IF k = "launch"
                 THEN /\ persisted' = [known |-> TRUE, seen |-> s.seen, manifest |-> s.target,
                                       bad |-> bad]
                      /\ memo' = [known |-> TRUE, mutation |-> s.cur, manifest |-> s.target,
                                  bad |-> bad \/ s.late]
                 ELSE UNCHANGED memoVars
        /\ UNCHANGED <<fileVars, runtimeVars, countVars>>

\* The syncs after a step of k: another than the launch's may have changed what the
\* runtime holds.
Meddling(k) == IF k = "other" /\ live' # live THEN Shaken ELSE sync

\* The runtime is to hold what sync k's manifest lists: it lacks `need`.
Lacking(k, need) ==
    LET s == sync[k] IN
    sync' = [Meddling(k) EXCEPT ![k] =
        IF need = {} THEN [s EXCEPT !.pc = "ready"]
        ELSE IF s.target # NoAssets THEN [s EXCEPT !.pc = "register", !.need = need, !.todo = need]
        ELSE [ToBuild(s) EXCEPT !.need = need]]

\* reconcileAssets: the runtime takes what it can from its store, where it keeps
\* only what the manifest lists, and where the browser may have dropped any of it;
\* the rest is needed.
Reconcile(k, found) ==
    LET m == sync[k].manifest
        held == {a \in Names(m) : live[a] = m[a]} IN
    /\ At(k, "reconcile")
    /\ found \subseteq {a \in Names(m) \ held : kept[a] = m[a]}
    /\ live' = [a \in Assets |-> IF a \in found THEN m[a] ELSE live[a]]
    /\ kept' = [a \in Assets |-> IF a \in held \cup found /\ kept[a] = m[a] THEN m[a] ELSE Missing]
    /\ Lacking(k, Names(m) \ (held \cup found))
    /\ UNCHANGED <<fileVars, memoVars, countVars>>

\* It does not answer: everything is registered.
NoAnswer(k) ==
    /\ At(k, "reconcile") /\ Trouble
    /\ UNCHANGED <<fileVars, memoVars, runtimeVars, launches, others>>
    /\ Lacking(k, Names(sync[k].manifest))

\* registerAsset, registerAudio: one of the assets the runtime needs, if there is
\* such a file still.
Register(k, a) ==
    LET s == sync[k] IN
    /\ At(k, "register") /\ a \in s.todo
    /\ IF s.target[a] = Missing THEN UNCHANGED runtimeVars
       ELSE live' = [live EXCEPT ![a] = s.target[a]] /\ kept' = [kept EXCEPT ![a] = s.target[a]]
    /\ sync' = [Meddling(k) EXCEPT ![k] =
        [s EXCEPT !.todo = @ \ {a}, !.pc = IF s.todo = {a} THEN "ready" ELSE @]]
    /\ UNCHANGED <<fileVars, memoVars, countVars>>

\* The program begins, or the test, or nothing more is to be done.
Done(k) ==
    /\ At(k, "ready")
    /\ SyncBecomes(k, NoSync)
    /\ UNCHANGED <<fileVars, memoVars, runtimeVars, countVars>>

-----------------------------------------------------------------------------
\* The runtime comes up anew, and empty.
Restart ==
    /\ Trouble
    /\ live' = NoAssets
    /\ sync' = Shaken
    /\ UNCHANGED <<fileVars, memoVars, kept, launches, others>>

\* The page is reloaded, as by forceAssetCacheClear, which drops the manifest first.
Reload(clear) ==
    /\ Trouble
    /\ typed' = src
    /\ memo' = None
    /\ persisted' = IF clear THEN None ELSE persisted
    /\ live' = NoAssets
    /\ sync' = [k \in DOMAIN sync |-> NoSync]
    /\ UNCHANGED <<clock, files, src, mutations, kept, launches, others>>

AssetNext ==
    \/ \E a \in Assets : Write(a) \/ DeleteAsset(a)
    \/ TypeSource \/ SaveSource
    \/ \E mode \in {"run", "debug"} : Launch(mode)
    \/ Other \/ Decide \/ Restart
    \/ \E f \in Files : Stat(f)
    \/ \E fails \in BOOLEAN : MakePlan(fails)
    \/ \E k \in DOMAIN sync :
        \/ List(k) \/ Built(k) \/ NoAnswer(k) \/ Done(k)
        \/ \E a \in Assets : Register(k, a) \/ \E fails \in BOOLEAN : Build(k, a, fails)
        \/ \E found \in SUBSET Assets : Reconcile(k, found)
    \/ \E clear \in BOOLEAN : Reload(clear)

AssetSpec == AssetInit /\ [][AssetNext]_assetVars

-----------------------------------------------------------------------------
Steps == {"list", "stat", "plan", "build", "reconcile", "register", "ready"}
Manifests == [Assets -> Hashes]
Seen == [Files -> -1 .. MaxChanges + 1]

\* The type invariant.
AssetTypeOK ==
    /\ clock \in Versions /\ files \in [Assets -> Versions] /\ {src, typed} \subseteq Versions
    /\ mutations \in Nat
    /\ memo.known => memo.mutation \in 0 .. mutations /\ memo.manifest \in Manifests
    /\ persisted.known => persisted.seen \in Seen /\ persisted.manifest \in Manifests
    /\ live \in Manifests /\ kept \in Manifests
    /\ \A k \in DOMAIN sync : sync[k] # NoSync =>
        /\ sync[k].pc \in Steps /\ sync[k].mode \in {"run", "debug", "plain"}
        /\ sync[k].seen \in Seen /\ sync[k].plan \in Versions
        /\ sync[k].target \in Manifests /\ sync[k].manifest \in Manifests
        /\ sync[k].need \subseteq Assets /\ sync[k].todo \subseteq Files

\* A program begins with every asset of the project registered, compiled from the
\* file as it is and by the plan of the source as it is, whichever memory the launch
\* trusted and whatever became of page, runtime and store since (main.ts
\* syncAssetsToRuntime).  Left aside are launches during which anything was written
\* or typed or failed, or another sync registered something, and memories made
\* in such a launch that do not show it.
LaunchFindsItsAssets ==
    LET s == sync["launch"] IN
    At("launch", "ready") /\ s.calm =>
        \A a \in Assets : files[a] # 0 => live[a] = Compiled(a, files[a], src)

\* "Source is included so a macro edit that changes an asset's compression still
\* invalidates": a manifest whose fingerprint is that of the files was made by the
\* plan of the source among them.
MacroEditInvalidates ==
    typed = src /\ persisted.known /\ persisted.seen = Stats =>
        \A a \in Planned : persisted.manifest[a] = Compiled(a, files[a], src)
=============================================================================
