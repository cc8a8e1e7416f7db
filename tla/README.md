# A formal model of fade.playground

fade.playground is a browser IDE for the Fade BASIC language. A page holds an
editor over a project in the browser's private file system, runs programs in
an iframe, debugs them, shares the project through GitHub, lets several people
edit and debug together over WebRTC, and talks to a language model, which may
live in a desktop app, GhostBot, that serves several Playgrounds. This
directory holds TLA+ modules for the parts where that can go wrong in ways a
unit test hardly reaches, TLC configurations that check them on small
instances, and TLAPS proofs for any instance. Paths below are relative to
`src/`; `main.ts` is `Playground/src/main.ts`.

## 1. Inventory

Everything in a page runs on one JavaScript thread. Interleaving comes from
`await`: an async function that nobody awaits is cut at each of its awaits, and
other handlers, timers and messages run in between. Pages meet through WebRTC
messages, a shared Yjs document, and a GitHub branch. GhostBot adds real
threads: each generation is a blocking task under one mutex.

| Component | State it keeps | Operations | Interacts through | What makes it correct |
|---|---|---|---|---|
| Live-session RPC (`sharing/collab/session.ts`) | `pendingRpc`, `rpcCounter`, handlers, timers | `request`, `onRequest`, two messages, `destroy` | broadcasts to the room | an answer settles the call it was computed for, once; no promise hangs |
| Guest mirror (`session.ts`, `bootstrap.ts`) | observers and write timers per text, the transient project | files and assets events, off-screen writes, leaving | Yjs events, the workspace | disk becomes what the document says; nothing of it reaches the guest's own project |
| Document sync (`session.ts`) | the Y.Doc, seeding, the bound text, the lock of a forced sync, presence | host and join, updates and handshakes, `forceSync`, rebinding | Yjs, awareness, the host's editor and disk | connected peers hold one document; a forced sync makes it the disk, and its lock lifts; no stroke is lost |
| Editor files (`main.ts`) | models, tabs, dirty flags, save timers | open, type, save, flush, close, rename, move, delete, agent writes | the workspace | what is typed reaches the disk; a commit sees it; deletions stay |
| Source control (`sharing/*`) | sync index, working tree, conflict copies, the branch | publish, pull, merge, revert, resolve, restore, poll | GitHub's Git Data API, editor models | no edit is lost that nobody discarded; the branch is a line of versions |
| Shared debugging (`main.ts`, `debug/*`) | session flags, adapters, the `debugState` map, breakpoints | start, run control, stop, events, commands of observers | iframe messages, Yjs, RPC | one driver; panels show what the program does; an end is seen |
| GhostBot (`ghostBot/src`, `ghostBot/src-tauri`, `ai/providers/ghostbot-*`) | peers, approvals, streams, one model, one abort flag | pairing, approve, deny, disconnect, stream, abort, load, unload | WebRTC, Tauri events | tokens go to who asked; a stop stops; nobody unapproved is served; a stream ends |
| Runner and previews (`packages/runtime`, `packages/components`, `monogame-host.ts`) | a pool of runners, the frame attached last, pending calls by id, one slot for debug events | arm, run, test, debug, reload, stop, remove | postMessage | an answer settles its own call; a debug session has a panel that can stop it; Run is never greyed out for nothing |
| Asset sync of a launch (`main.ts`) | a manifest in memory and one on disk, what the runtime has registered and keeps | launch, test or import, list, stat, compile, reconcile, register, reload, clear | the workspace, the runtime's iframe | a program starts with its assets as they are, whichever memory was trusted |
| AI agent (`ai/*`, `ai-chat.ts`) | chats and their records, the agent and its history, a turn and its edits | new chat, open, send, review, approve, stop, reconnect | providers, the workspace, the LSP | a turn is saved in the chat it was asked in; no edit is begun after Stop and written; nothing the user typed is overwritten |
| Sign-in and GitHub adapter (`sharing/github-*.ts`, `auth-ui.ts`, `token-store.ts`) | token set, device code | device flow, poll, refresh | the OAuth proxy, GitHub | one refresh at a time; the branch moves by fast-forward only |
| Shaders, assets, XNB (`shader/*`, `assets/*`, `xnb/*`) | none between calls | parse, translate, encode | the compiler, the iframe | pure functions of large inputs |
| Licence, proxies, settings, catalogue, help, navigation history, logs | small stores | reads and writes | localStorage, fetch | sequential |

`PROJECT.json` lists every component with the files it is in, what is modelled
of it, and why the rest is not. Under `hazards` it lists what is hard to test,
each at the line where it bites and with the properties that watch it: calls
whose answers and timers race, handlers that outlive their session, saves that
race with typing and flushes, merges that race with typing, requests that fail
half way, two initiators of one debug session, one engine shared by streams
that know each other only by a number, one frame shared by the runnable blocks
of a page, memories that outlive what they were made from, and merges in which
lines repeat.

## 2. Modules

A module states one component with its own VARIABLES, Init, Next and
properties. `MC...` modules give instances to TLC. Four of them are bundles:
several components, or several instances of one, each a part of its own, of
which a behaviour takes one (`part`), so that one run asks the same kind of
question of all of them. A bundle extends the modules of its parts, so that a
run checks, and a theorem states, the same definition; where a part is looked at
with other bounds, an instance over the same variables gives them. The variables
of the other parts stay as they start.

### CollabRpc

`request` picks a correlation id, registers a promise and a timer, and
broadcasts; every peer sees every request and response and recognises its own
by the id. One call is `<<peer, counter>>`; `phase` is the state of its promise,
`pendingRpc` the map, `wire` the copies that travel, `running` the handlers that
have been invoked and not finished. The actions are `SendRequest`,
`ReceiveRequest`, `HandlerDone`, `ReceiveResponse`, `Timeout`, `OnRequest` and
`Destroy`. The id is modelled by what JavaScript and lib0 compute: a signed
32-bit shift and a varint that is exact on naturals only. Copies may be lost
(never received) and reordered, which is weaker than a data channel, so what
holds here holds there.

### RunnerBridge

The runnable blocks of a page. Each has a frame; all share one runner, which
talks to the frame attached last and has one slot for the block that is told of
debug events. `arming` and `waiting` are the shared promise of `ensureArmed` and
its continuations, `pending` the calls by id, `frame` the messages and the
program. The buttons are `PressRun`, `PressDebug`, `PressReload`,
`PressContinue`, `PressStop`, `CloseWindow`; `Armed`, `ArmFails`, `Resume`,
`Reject` what follows from the promise; `Resolves`, `Unheard`, `Paused`,
`Complete`, `Interrupted` what a message from a frame does; the frame's program
(`VmTake`, `VmEnd`, `VmEvent`) is external. Microtasks run before the next
event (`Quiet`). A game floats in a window that can be closed while its frame
still loads; the session that then belongs to nobody is in the model, and
`SessionIsOwned` is stated for console blocks (`Mono` is FALSE).

### GuestMirror

A guest copies the document's texts and binaries to a transient project.
Handlers of map events are async and not awaited: `MapEvent` runs one up to its
first disk operation, `Resume` every later stretch. `TimerFires` and `WriteDone`
are the debounced writes; `Leave`, `SwitchBack` and `RemoveTransient` the end of
a session as `bootstrap.ts` and `main.ts` order it. A change is a number: a
file is right when it holds the number of the last change of its entry. The
ghost `raced` names the paths on which two activities overlapped; on these the
last to finish wins and the properties promise nothing.

### EditorFiles

Monaco models, tabs over them, one save timer per tab, disk operations queued
per path. One action per user operation (`OpenFile`, `Type`, `CloseTab`,
`Rename`, `Move`, `DeleteFile`, `MutateManifest`), one for the agent
(`AgentWrite`), and the machinery: `AutoSave`, `OpDone`, `Removed`,
`FlushPendingSaves`, `Snapshot`. The ghost `loose` names paths with text that
nothing will save, each with its cause in the code: a failed save (not tried
again), a stale preloaded model, a rename of unsaved text, a manifest edit that
no listener hears. A flush under way owes a file's text to the disk until the
file is deleted or renamed (`Forgotten`): what then stands under its name is
another file.

### SharingPanel

What the source control panel believes of one file: the hash cache, the list of
changes, the local saves, the remote's head and the chip of a pull.
`refreshStatus` is cut at its awaits (`RefreshBegin`, `RefreshLook`,
`RefreshHash`, `RefreshDone`), and so are publish, pull, merge, the poll
(`PollStart`, `PollHead`, `PollTree`) and the saves (`Save`, `SaveList`,
`SaveStore`, `Drop`, `DropStore`, `RevertToSave`, `Cleared`), which race with
each other because `busy` gates only some of them. The code loses in several of
these races, and a ghost names each: `unsure` (the file changed without an
invalidation, or while its hash was being computed: a fast-forward pull goes
past the cache, contrary to the comment about pulls in `collaboration-panel.ts`),
`overtaken` (an older refresh ends last), `strayed` (an older load of the saves
lands last), `crossed` (a poll under way while the base moved shows a pull that
is none, which blocks Publish; one whose tree cannot be fetched hides a pull).

### Sharing and SharedBranch

`SharedBranch` is the promise: a line of versions, each made from the newest,
none of which takes away what nobody discarded. `Sharing` is the code: users
with a working tree, editor models, a base commit and conflict copies. A text
is the set of edits it contains, which makes the three-way merge a set
expression and "no edit is lost" a statement about sets. Publish is cut at its
awaits into `Publish`, `Upload`, `Push`, `Pushed`; pull into `Pull`,
`FastForward` per file, or `MergeStart`, `MergeRead`, `MergeText`,
`MergeBinary`, `MergeRemote`, `MergeKeep` per file, `Persist` and `AfterPull`;
going back to an old commit is `Restore` and `CommitRestored`. `Fail` ends an
operation at any of these points. A merge survives what it cannot do: a blob
that cannot be fetched (`safeGetBlob` gives null), a merged text or a conflict
copy that cannot be written is logged and passed over, and the base moves on all
the same, so that the next publish takes the remote's edit back. `PassedBy` is
that step, a branch of each of the three merges; its path is marked `torn` (not
when only a deletion was passed over, which loses nothing), and the properties
promise nothing of it from then on. Where only the base's blob is
missing, a text goes to a conflict copy (`MergeBinary`), and nothing is lost. A restore that finds nothing to commit, or whose
commit is refused because the branch has moved, ends by `Abort`: the tree holds
the old commit, open tabs still hold the text from before, and their next
autosave writes that back. `Worlds` are the circumstances of a behaviour: which
files there are, which may be deleted, whether requests fail and users type
while a pull is at work, whether they restore. `Sharing!Branch` instantiates
`SharedBranch` with the refinement mapping: version is the number of commits,
text the edits in the head, seen each user's base.

### Diff3

The merge of one text as the code does it: pairs of equal lines along longest
common subsequences, anchors where both sides agree with the base, one decision
per region, markers around a conflict; then the editor of conflicts, which
settles one region at a time in a copy. `Sharing`'s `Merge3` is what this
promises on sets of edits; `MergeKeepsBothEdits` is the reference that ties the
two: it says of every line, by where it came from, whether it must be in the
result. Left out: the newline at the end of a text, merging a text that still
has markers, and a conflict editor left open over a second pull.

### AssetSync

`syncAssetsToRuntime` on behalf of a launch, or of a test, an import or a
shader's reload (`Other`). `List`, `Stat`, `Decide`, `MakePlan`, `Build`,
`Built`, `Reconcile`, `NoAnswer`, `Register`, `Done` are its awaits. Two
memories may be trusted instead of compiling: `memo`, valid while the count of
writes is what it was, and `persisted`, valid while sizes and dates are. The
ghost `calm` names launches that nothing disturbed; `bad` and `late` mark
memories made of something else than their validation says: a plan made of text
that was not saved, a plan or an asset that failed, a count of writes read after
the files. The runtime's side of `reconcileAssets` is external. The compiled
blobs' cache and its sweep are left out; they change the time, not the result.
A write and its count are one step.

### DebugMirror

A page, its VM in an iframe, FIFO channels between them, and FIFO channels
between pages. The initiator writes a Yjs map; observers read it and send
commands by RPC. The map is modelled with Yjs's rule: a value sits behind the
one its writer replaced, of concurrent writes the one of the higher client id
stays, a deletion removes the value it saw (`Beyond`, `Joined`). A peer sends the
keys it has changed itself (`Update`) and passes on nothing it has learnt; an update
counts from when it arrives, where Yjs, with three peers or more, holds back one
that builds on another not yet there. The buttons are `Debug`, `Press`, `Stop`; the
iframe is `VmTakes`, `VmStops`, `VmEnds`; what a page does with an answer or event is
one action each (`Launched`, `Resumed`, `Paused`, `Framed`, `Snapshot`, `Exited`,
...), and `Learn`, `Serve` and `Answered` are what reaches it from another page. The
ghosts `late`, `contested` and `cut` mark the runs in which the code is known to go
wrong (see the hazards at `main.ts:12389`, `:13288`, `:7047`).

### SessionSync

The replicas of a host and a guest as sets of operations, the updates between
them and the handshake that follows a new connection (`PeersJoin`, `Answer`,
`Integrate`), what is lost when the connection breaks (`PeersPart`), and the
host's editor and disk behind the document (`HostOpens`, `HostTypes`,
`AutoSave`, `HostCreates`, `HostDeletes`). `ForceSync`, `Listed`, `Copy`,
`FinishSync` are the forced sync, which makes the document what the disk is while
everybody's editor is locked; nothing stops a second one. The ghost `touched`
marks paths that changed while a sync copied.

### AgentChat

The AI panel's saved chats, the agent built for the loaded model, and one turn
at a time: the model answers or asks for an edit (`ModelAnswers`,
`ModelCalls`), the edit is read, reviewed, shown and written (`ReviewRejects`,
`ReviewPasses`, `ApproveEdit`, `Reject`, `Write`, `Refused`), in the tool loop or
the decision tree, which first has the model say what kind of request it is
(`BeginTurn`) and reads the file before it asks for the program (`ReadTarget`).
`Stop` aborts the agent the panel has now, which need not be the one that runs the
turn: `stopped` says it was pressed, `aborted` that it reached the turn's agent. The panel's buttons (`StartNewChat`, `OpenChat`, `DeleteChat`,
`Stop`), the model (`Load`, `Ready`, `Reconnect`, `Disconnect`), the eviction of
old turns and the user's typing go on meanwhile. Ghosts: `shaken` chats went on
under another history, `strayed` turns had their chat or agent changed under
them, `trimmed` chats had turns evicted from the model's context; the agent of
`orphaned` turns was given up by the panel (a lost connection, another loading of
the model) before Stop, which then aborts nothing: the turn edits on, in the model
as in the code, and `NoEditAfterStop` excepts it by name. `unread` are strokes made
after the edit's text was read, `after` tells that the edit was begun, that is,
handed to `apply_edit`, when Stop had been pressed.

### GhostHub

Playgrounds, the hub in the web view, and the engine in Rust. A call `<<p, k>>`
is a Playground's k-th stream; its id is the Playground's own counter, so ids
of different Playgrounds may be equal. A call has a server (`serving`:
`runStream` and its consumer of engine events) and a task (`task`: the blocking
thread); they start together and meet only through broadcast events with the
stream id and one shared abort flag. Room: `Join`, `Drop`, `GiveUp`. Playground: `Ask`,
`PressStop`, `TakeAuth`, `TakeText`, `TakeEnd`. Hub: `Hello`, `Refuse`,
`Serve`, `TakeAbort`, `Listen`, `Approve`, `Dismiss`. Engine: `Begin` (which
clears the flag), `Enter`, `Token`, `Finish`, `Fault`, and the owner's
`Unload`, `Unloaded`, `Install`. An event of the engine and what the hub passes
on for it is one step: the consumer's promise chain drains before the web view
takes another message. Messages are FIFO per direction and vanish with a link.

A link that is lost may not be noticed: `onPeerLeave` of a Playground compares
with the peer it last heard or saw join, which another Playground's broadcast
makes another Playground. So `Drop` either fails the open streams of the
Playground or leaves them open and marks them (`unnoticed`), and what it sends
from then on goes nowhere (`Tell`); `GiveUp` is the converse, a Playground that
gives up because another Playground leaves, or reopens its room.

## 3. Runs

| Run | Module, cfg | Parts | Properties |
|---|---|---|---|
| `requests` | MCRequests | CollabRpc; RunnerBridge | `AnswerIsMine`, `AnsweredCallSettles`, `SettledForGood`, `EveryCallSettles`; `SessionIsOwned`, `RunIsTracked` |
| `files` | MCFiles | GuestMirror; EditorFiles; SharingPanel | `SettledIsMirrored`, `EventuallyMirrored`; `UnsavedIsScheduled`, `FlushCoversDirtyTabs`, `DeletedStaysDeleted`, `EventuallySaved`; `BadgeIsRight`, `ChipIsRight`, `PullIsOffered` |
| `project` | MCProject | Sharing; Diff3; DebugMirror; AssetSync | `EditsSurvive`, `ImplementsSharedBranch`; `MergeKeepsBothEdits`, `NoRegionNoMarker`; `PanelMatchesProgram`, `ObserverMatchesInitiator`, `OneDriver`, `EndIsSeen`; `LaunchFindsItsAssets` |
| `workbench` | MCWorkbench | GhostHub; SessionSync; AgentChat | `TokensReachTheirRequester`, `ReplyIsWhole`, `StopReachesEngine`, `NoStreamForgotten`, `NoTextUnlessApproved`; `Converged`, `LockLifts`, `SyncMatchesDisk`; `SavedWhereAsked`, `NoEditAfterStop`, `ChatKeepsItsTurns`, `TypingSurvives` |
| `rpc_high_byte` | MCCollabRpc, MCCollabRpcHigh.cfg | | `AnsweredCallSettles` is violated |
| `mirror_sandbox` | MCGuestMirror, MCGuestMirrorSandbox.cfg | | `SandboxHolds` is violated |
| `editor_commit` | MCEditorFiles, MCEditorFilesCommit.cfg | | `CommitReflectsEditor` is violated |
| `sharing_typing` | MCSharing, MCSharingTyping.cfg | | `TypingKeepsHead` is violated |
| `launch_plan` | MCAssetSync, MCAssetSyncPlan.cfg | | `MacroEditInvalidates` is violated |
| `ghost_crosstalk` | MCGhostHub, MCGhostHubFresh.cfg | | `TokensReachTheirRequester` is violated |
| `chat_forgets` | MCAgentChat, MCAgentChat.cfg | | `SavedChatOnlyGrows` is violated |
| `session_edits` | MCSessionSync, MCSessionSync.cfg | | `StrokesSurvive` is violated |

Each passing run also checks `TypesOK`, the type invariants of its parts.
Deadlock is not checked: users may stop, bounds run out, and a quiescent system
is a legal end in each of these modules. Every property of a passing run has a
mutant, a small change to a mapped definition of the kind a plausible bug makes,
under which TLC finds it violated; mutated forms stand in the module just before
what they mutate and are marked as such.

### Bounds, and why they are enough

- CollabRpc: two callers, three peers, one request each: two calls with crossing
  answers, a target that is also a caller, a bystander. More requests of a peer
  differ from these only in the counter.
- RunnerBridge: two blocks that share the runner, one of which may leave the
  page and one of which debugs; and one game in its window. What blocks do to
  each other goes through one slot and one target, which two fill.
- GuestMirror: a text, an asset, four changes: add, edit, delete, add again with
  a handler and a debounced write still under way.
- EditorFiles: a file opened twice, a file it can be renamed or moved to, the
  manifest, two changes, a disk that may fail.
- SharingPanel: one file, three commits, two saves, one load of the saves and
  one refresh nobody awaits under way at a time; with local saves, the file open
  in a tab or not; or with polls of the remote that never fail, or may.
- Sharing: two users, two edits, three commits; worlds with a text and a binary,
  with one text under failing requests, blobs and writes that merges pass over,
  and typing at any time, and with one text and restores; and one edit of one text
  that may be deleted, with restores. Each user's edit meets the other's in every order, including a
  refused publish and a merge of it. Users are symmetric, and all properties
  under the symmetry are safety.
- Diff3: all texts of up to three lines with repeated and blank ones over eight
  bases, and all edits in place, at the ends and in every gap of a base of three
  lines, on both sides.
- DebugMirror: two peers, one stop of the program; two presses of buttons; or one
  and two sessions of one peer; or one and two sessions of either.
- AssetSync: an image, a sound, a source; two changes and two launches; or three
  launches, one change and one trouble (a reload, a restart, a failure); or two
  launches, a change and another sync.
- GhostHub: two Playgrounds with different ids, a stream and a token each: two tasks
  compete for the lock and the flag, where the interleavings are. Either one is
  paired later, with two troubles (a join, a lost link, a denial, a model swap); or
  both are served from the start, with a Stop and one trouble.
- SessionSync: two files; one stroke, one sync and two connections; two strokes
  and two connections without a sync; two strokes and two syncs without a loss.
- AgentChat: two chats, two agents and two turns; or a turn with two edits in either
  loop, with a stroke of the user, a new chat and a second agent in place of the
  turn's own; or a turn with one edit and a saved chat opened meanwhile.

### What the violated properties show

The eight runs that expect a violation are disagreements between the code and
its own comments, listed under `findings` with the lines:

- a client id whose low byte has its top bit set never gets an answer
  (`rpc_high_byte`);
- a guest's handler that is under way when the guest leaves writes into the
  guest's own project (`mirror_sandbox`);
- a tab closed within the debounce is missing from a commit (`editor_commit`);
- typing while a pull replaces a file takes a teammate's change back without a
  conflict (`sharing_typing`);
- an edit autosaved while Run compiles leaves a manifest with assets of the old
  plan under the new fingerprint, trusted from then on (`launch_plan`);
- two Playgrounds with equal stream ids are given each other's tokens
  (`ghost_crosstalk`);
- a saved chat opened before a model is loaded is overwritten by the next turn
  (`chat_forgets`);
- a file deleted and made anew during a session takes the old text back from the
  document (`session_edits`).

Other races the code loses are in the models too, and the properties name them
by ghosts rather than leave the step out; section 2 and `hazards` say which.

### Fairness

`CollabRpc` assumes only that an armed timer fires (`setTimeout` does), one weak
fairness per timer; nothing is assumed of peers, handlers and the network, and
`EveryCallSettles` needs nothing more. `GuestMirror` and `EditorFiles` assume
weak fairness of what is due: timers fire, and disk operations that were started
complete, with success or failure: browsers settle the promises of the private
file system. `SharingPanel` assumes that what is under way goes on and that a
quiet panel's poll interval comes round; `PullIsOffered` is stated for worlds
in which polls do not fail. No strong fairness is used. The other modules
assume nothing and state no liveness: users need not publish, a network may
stay away, a model may generate for ever, a frame may never answer. What would
be liveness is stated there as safety of settled states: `Converged`,
`ObserverMatchesInitiator` and `EndIsSeen` once all channels are empty,
`LockLifts` once no sync is under way, `NoStreamForgotten` as "the engine is
still at work for it, or its end is on the way", `RunIsTracked` as "what greys
the button out is still to come".

## 4. Proofs

TLAPS checks the following for every value of the constants that satisfies
their named assumptions: the type invariants, the safety invariants and the
action properties of eleven of the components, and the refinement of
`SharedBranch` by `Sharing`. In each module the lemmas say, one per kind of
step, what the step does to one part of the inductive invariant; the theorems at
its end combine them.

`RequestsProofs`, on the RPC, from `RpcAssumption`:

- `Tracked`, `Settled`, `TypeCorrect`: `UnsettledIsTracked`, `SettledForGood`
  and `TypeOK`. The inductive invariant is `TrackInv == TypeOK /\ FreshIsIdle
  /\ UnsettledIsTracked`: `UnsettledIsTracked` alone is not inductive, because
  a new call could find its counter already in use; `FreshIsIdle` says that a
  counter not handed out yet has no call behind it.
- `AnswersMatch`, `AnsweredSettles`: `AnswerIsMine` and `AnsweredCallSettles`
  under `DistinctLowBytes`. The invariant `RpcInv` adds `InFlight`, what each
  copy on the wire and each running handler knows of its call, and the
  arithmetic lemma that correlation ids of distinct low bytes below 128 are
  distinct and survive the varint.

and on the runnable blocks, from `RunnerAssumption`:

- `BridgeTypes`: `BridgeTypeOK`.
- `SessionIsOwnedHolds`, `RunIsTrackedHolds`: for any number of blocks, the first
  without a game's window. Both properties speak of the frame the runner talks to
  now, which any block can change, so the invariant `BridgeInv` says of every frame
  what is true of it whether or not it is heard: the numbers on its lines are of calls
  that were given out and not answered (`NumbersAt`), a `start` on its way in has its
  block still showing a session, or a termination behind it (`StartsAt`). `UpInv` says
  that a frame is attached at most once, so that its queues are empty when it is;
  `WaitInv` and `RunningInv` speak of blocks that wait for a frame to boot; `CountInv`
  bounds the listeners. `HereInv` is what the two properties come to for the frame
  attached. A step that hears an answer is shown to be one of few kinds (`PageStep`,
  `PanelStep`), and each part of the invariant is proved once for each kind.

`GuestMirrorProofs`, from `MirrorAssumption`:

- `MirrorTypes`: `TypeOK`.
- `SettledFilesAreRight`: `SettledIsMirrored`: a path none of whose activities
  overlapped is on disk what the document says once nothing is under way for it,
  for any number of paths, changes and handlers. The property speaks of quiet
  paths and says nothing on the way there, so the invariant `MirrorInv` says for
  each path not raced what every activity under way will do for it:
  `HandlersAreRight` (a handler still deletes or adds what the document last
  said), `ObserverIsRight`, `WriteIsRight` (a debounced write carries the last
  text, or a timer is still armed) and `FileIsRight`; with `ShapeInv` on the
  stages of a handler and `HomeInv` on which project an operation goes to.
- `DebounceEnds`: a debounced write never goes to the project the guest returns
  to, only a handler's does (`mirror_sandbox`).

`AssistantProofs`, on the hub, from `PeersAssumption` and `BoundsAssumption`:

- `TypesHold`: `TypeOK`, one lemma per kind of step (sending, passing on,
  concluding, aborting).
- `StopHolds`: `StopReachesEngine`. Strengthened by "a server that listens has
  not had its signal fired", without which a server could end normally after
  its signal and count as halted although the engine was never told.
- `ApprovalHolds`: `NoTextUnlessApproved`. The invariant `AdmissionInv` says
  that the hub has no entry for a peer without a link, and that a live server
  (starting or listening, its signal not fired) belongs to an approved peer.
  `StepSends` sorts the steps into those that add no message, those that add
  messages without text, and tokens.
- `TokensHold`: `TokensReachTheirRequester` under `DistinctIds`. Every text on
  its way is honest, that is, its word was generated for the call whose id it
  bears. `ghost_crosstalk` shows that the condition is needed and that the code
  does not establish it.
- `StreamsHold`: `NoStreamForgotten`, with no condition on the ids. `AttendInv`
  follows a stream from the ask on its way through server and task to the event
  that ends it, at each hand-over. `LinkInv` says what a lost link leaves: nothing on
  the way to the hub, and no served stream open but the unnoticed ones, which the
  property leaves out and the code leaves open for good.
- `RepliesHold`: `ReplyIsWhole` under `DistinctIds`: what a call was given, what
  is on its way to it and what its task has still to say are, in order, what the
  engine generates. The property once excepted calls interrupted by a lost link;
  the proof needed no such exception, and the property and its ghost lost it.

and on the agent, from `ChatAssumption`, the ranges of the bounds:

- `TypeOKHolds`, `SavedWhereAskedHolds`, `NoEditAfterStopHolds`: `ChatTypeOK` and the
  invariants.
  `ChatInvs` is `TypeInv` (a chat and an agent that are not there yet have no
  history), `EditInv` (what an edit under way leaves out of the file was typed after
  the loop read it; and of a turn that is not orphaned, that the panel has its agent
  until Stop is pressed, that Stop has then aborted it, and that its edit was begun
  before) and `ChatInv` (the
  running turn, the agent's history, a record being read and the records are of
  their chat, and for chats neither trimmed nor shaken the agent has what the
  record has).
- `TypingSurvivesHolds`, `ChatKeepsItsTurnsHolds`: the action properties, from
  the same invariant.

`SharingProofs`, from `SharingAssumption`:

- `TypeOKHolds`: `TypeOK`, one lemma per operation.
- `EditsSurviveHolds`: `EditsSurvive`. The property says nothing of what an
  operation holds in its hands, so the invariant `IInv` says, of every path that
  is not torn: a later commit has all of an earlier one that is not discarded
  (`CommitsGrow`); a user's base, tree and open tab agree on it, but for tabs whose
  file is just being replaced (`Agree`); and at every stage of an operation what
  it has read or is to write is still there (`Underway`). `Fenced` says that paths
  outside the behaviour's world stay empty, `NoEditor` that no binary is open.
- `ImplementsSharedBranchHolds`: the initial states map to initial states, an
  accepted `Push` is a `Publish` or, for a restore, a `GoBack`, `Pushed` and
  `Persist` are a `Sync`, `Revert` and its like a `Discard`, and every other step
  a stutter. The step of `Push` needs `IInv`: a commit is made from a tree that
  already holds all of the head.

`SessionSyncProofs`, from `SessionAssumption` for the types and from no assumption
for the rest:

- `ConvergedHolds`: `Converged`. `ConvergeInv` says that each of two connected
  peers has what the other has, or it is on its way, or the answer to a handshake
  that will bring it is.
- `LockLiftsHolds`: `LockLifts`, from `Converged` and from "with no sync under way
  the host's document is unlocked" (`RunsInv`, below), also where two syncs overlap.
- `SyncMatchesDiskHolds`: `SyncMatchesDisk`. `SyncInv` is `ConvergeInv` with
  `HostInv` (in the host's document the keys and the versions of a text are
  numbered without gaps, and a guest is ahead of it by typed strokes only) and
  `RunsInv` (a sync that copies has the lock and is alone, or has met another and
  every path counts as touched; what it has copied is as on its disk).
- `TypeOKHolds`: `SyncTypeOK`, from `SyncInv` with `Desk` (the host's disk and editor),
  `Line` (the connection), `Tasks` (the syncs under way) and `Replicas` (what is
  typed in a replica is strokes, and a new text is numbered above 0).

`FilesProofs`, on the editor's files, from `EditorAssumption`:

- `UnsavedIsScheduledHolds`, `FlushCoversDirtyTabsHolds`: the invariants.
  `EditorInv` is `Types`, and for each file `Listens` (a tab that is open listens to
  the model, a disposed model has no listener, an armed timer is of a tab that
  listens), `Valued` (only a removal leaves no file) and, if the file is not loose,
  `Ordered` (a file that is being removed has no model, and only the agent writes
  after the removal) and `Scheduled`; and `OwedInv`: of a text the flush owes, the
  model says that or something later, and so does the disk with all that is queued,
  or a write of the flush in the queue with all that comes after it.
- `DeletedStaysDeletedHolds`: the action property.
- The attempt on `FlushCoversDirtyTabs` failed at first for a reason that TLC
  then showed on an instance with one more file: a file flushed and deleted, and
  another renamed to its name while the flush waits. The code is right (the commit
  takes the file that is there); the property had excepted deleted files by
  what is on the disk, and now says it by `Forgotten`.

and on the source control panel, from `PanelAssumption`:

- `PanelTypesHold`: `PanelTypeOK`, whose bound on the contents a merge makes needs
  that a merge moves the base, and whose count of awaited refreshes that a step of
  `refreshStatus` leaves the others alone.
- `ChipIsRightHolds`: `ChipIsRight`. `ChipInv` adds what holds while the tree of a
  poll is on its way: nothing has crossed it, so the head it read is still what the
  panel has seen.
- `BadgeIsRightHolds`: `BadgeIsRight`. The property speaks of the end, so `BadgeInv`
  says of the refresh called last that what it has read so far is right, unless an
  operation under way has still to call another. Three more parts carry it:
  `LatestInv` (the latest load of the saves has read them as they are, and the
  refresh called last waits for it), `CacheInv` (the cached hash is the file's, and
  so is whatever a refresh is just hashing) and `DivergedInv` (a merge does not end
  for want of anything to merge, which would leave the list as it was).

`AssetSyncProofs`, from `AssetSyncAssumption`:

- `TypeOKHolds`: `AssetTypeOK`. A lemma per action says what the record of a sync is
  before and after it; the lemmas about the properties rest on these alone.
- `LaunchFindsItsAssetsHolds`: `LaunchFindsItsAssets`. The property is about the
  last state of a launch, so the invariant `AssetInv` says what each memory is worth
  and what a launch knows at each step. `MemoInv`: the page's manifest is right
  while the count of writes is the one it was made at. `PersistedInv`: an asset in
  the persisted manifest was compiled by the plan of the source it was seen with,
  unless the file has changed since; a change always brings a later stamp or removes
  the file, so this outlives every change (`FitsStill`). `Compiling` says the same of
  the assets a launch has compiled so far, and that a count of writes which is still
  the present one was read when the files were as they are. `Undisturbed` adds, of a
  launch nothing has disturbed, that its plan is the source's, that what it listed is
  what there is, and that the runtime holds all it is not still to register.

`DebugMirrorProofs`, from `DebugMirrorAssumption`:

- `DebugTypesHold`: `DebugTypeOK`.
- `OneDriverHolds`, `EndIsSeenHolds`: `OneDriver` and `EndIsSeen`, for any number of
  peers who start at the same time, in any order of their client ids. Both speak of
  the moment when all is quiet, so the invariant `ClaimInv` says how claims of the
  role travel. What a replica says of the role is the path of those who claimed it
  and whether the last claim was withdrawn; `Beyond` orders the paths totally
  (`Total`, `Asym`, `Trans`) and puts a claim after the one it replaces
  (`AppendBeyond`). `CoverInv`: whatever one peer knows of the role another knows,
  or has on its way, from whoever; `MarkInv` and `MessageInv`: a claim is made by who
  it names, who knows it; `ClearInv` and `TellInv`: on each channel a claim comes
  before its withdrawal. So when all is quiet all say the same (`Agree`), and
  `DriveOK`, that who drives has made the last claim it knows of, leaves one driver;
  `StopOK`, that who has the role and no session is about to clear the map, gives
  `EndIsSeen`. `DriveOK` is where `ClearInv` is needed: a withdrawal that
  came first would let a peer go on driving beyond a claim that was not its own.
- `PanelMatchesProgramHolds`: `PanelMatchesProgram`. `ShownOK` says on the way there
  that the last message for the page which speaks of the program tells how it runs,
  or that none does and the panel is right; `AwayOK`, that an observer has no
  program, is why an event dropped by the facade is never missed.
- Writing the proof changed the model twice. A message carried the whole replica, as
  if each peer passed on what it learnt; Yjs sends what its own transaction has
  changed, and the session filters out what came from others (`session.ts:406-417`),
  so a peer now hears of a claim from its maker only: without `CoverInv` for
  every pair, `OneDriver` would rest on relays that do not exist. And a `CASE` whose
  guards overlapped is an `IF`.

Only model-checked: liveness (`EveryCallSettles`, `EventuallyMirrored`,
`EventuallySaved`, `PullIsOffered`), which is out of the prover's reach; the
bounds `2 * MaxEdits` on the stamps in `EditorTypeOK`, which
count steps and say nothing of the code; and `ObserverMatchesInitiator`, for which
the values of every key of the shared map, not of the role alone, would have to be
followed through all concurrent writes. It is checked for two peers only. With three
it would probably need one ghost more: a third peer's late write to `paused`, made when an
answer arrives after the session was cleared, can outrank the driver's later writes
although the driver's claim to the role wins, and `late` is reset by then. This was
found by hand while looking for the invariant; no run shows it.
What `Diff3`'s recursive functions compute for every input needs induction over data,
which this prover cannot do.

## 5. What is not modelled, and why

Formatting, wording, logging and layout. Yjs's merge beyond one map and sets of
operations, WebRTC, Monaco, Tauri and GitHub are taken by what the code uses of
them. Shader translation, asset encoders, XNB files and retrieval are pure
functions over inputs too large to enumerate: a test covers them better than a
state machine. The licence worker and the OAuth proxy are stateless. Help,
search, language features, catalogues and settings present or fetch, without
concurrent state. These are most of the repository's lines, which is why the
mapped share of it is small.

In modelled components: creating, connecting and cloning a project in source
control, a merge that cannot read a file of its own working tree, and the panel
with more than one file; the switch of projects in the
editor; breakpoints, evaluation and a peer's departure in shared debugging
(after which its client id stays in the map); presence, binary assets, the
guest's binding and joining in document sync; inspection calls of a paused
program in the runner; plans, imports and read-only tools of the agent; ping,
model-status, the Claude provider and the reconnecting watchdog of GhostBot;
the sign-in's device flow and token refresh.

Abstractions that matter when reading a result: a text is a stamp (mirror,
editor, panel, assets), a set of edits (sharing) or of strokes (sessions,
agent), so order within a text is seen in `Diff3` only; the disk keeps the order
of operations per path in `EditorFiles` and leaves it open in `GuestMirror`,
where nothing queues them; a debugger stop is a number; a token is the pair of
its call and its index; a history of the agent is the set of its turns.

## 6. Plan

In order of what can go wrong:

1. A proof of `ObserverMatchesInitiator`.
2. `SignIn`: the device flow's polling, and token refreshes that race
   (`collaboration-panel.ts:429-455`, `auth-ui.ts`).
3. A pull that spans a guest's join, and a second tab that removes the transient
   project.
4. Shared debugging: a peer's departure, and breakpoints.
5. The switch of projects under pending saves in `EditorFiles`.

## 7. Running it

    tlc -workers 2 -config MCProject.cfg MCProject
    tlapm GuestMirrorProofs.tla

Every run ends within about four minutes on two workers; the proofs of a module
take from one to some ten minutes from nothing.
