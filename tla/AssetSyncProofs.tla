-------------------------- MODULE AssetSyncProofs --------------------------
(***************************************************************************)
(* Proofs about AssetSync, for any assets, changes, launches, other syncs  *)
(* and troubles.                                                           *)
(***************************************************************************)
EXTENDS AssetSync, TLAPS

-----------------------------------------------------------------------------
(* The types. *)

Kinds == {"launch", "other"}

SyncRecord ==
    [pc : Steps, mode : {"run", "debug", "plain"}, plan : Versions, seen : Seen, cur : Nat,
     late : BOOLEAN, bad : BOOLEAN, target : Manifests, manifest : Manifests,
     need : SUBSET Assets, todo : SUBSET Files, calm : BOOLEAN]
MemoRecord == [known : {TRUE}, mutation : Nat, manifest : Manifests, bad : BOOLEAN]
PersistedRecord == [known : {TRUE}, seen : Seen, manifest : Manifests, bad : BOOLEAN]

\* What was seen of the files is of now or earlier.
Earlier(seen) == \A f \in Files : seen[f] <= clock

FileTypes ==
    /\ clock \in 1 .. MaxChanges + 1
    /\ files \in [Assets -> 0 .. clock] /\ src \in 1 .. clock /\ typed \in 1 .. clock
    /\ mutations \in Nat
MemoTypes ==
    /\ memo = None \/ (memo \in MemoRecord /\ memo.mutation <= mutations)
    /\ persisted = None \/ (persisted \in PersistedRecord /\ Earlier(persisted.seen))
SyncTypes ==
    /\ sync \in [Kinds -> {NoSync} \cup SyncRecord]
    /\ \A k \in Kinds : sync[k] # NoSync => sync[k].cur <= mutations /\ Earlier(sync[k].seen)
Types ==
    /\ FileTypes /\ MemoTypes /\ SyncTypes
    /\ live \in Manifests /\ kept \in Manifests

-----------------------------------------------------------------------------
(* The inductive invariant. *)

\* A manifest of the files and the plan as they are.
Right(m) == \A a \in Assets : m[a] = Compiled(a, files[a], src)

\* The runtime has these assets as they are.
Loaded(as) == \A a \in as : files[a] # 0 => live[a] = Compiled(a, files[a], src)

\* Asset a was compiled by the plan, or has changed since it was seen.
Fits(m, seen, plan, a) == seen[a] = files[a] => m[a] = Compiled(a, files[a], plan)

\* What was not there when the files were listed is not in the manifest.
Unlisted(m, seen) == \A a \in Assets : seen[a] = 0 => m[a] = Missing

\* The memories: each is right as long as what validates it is what it was.
MemoInv == memo # None /\ ~memo.bad /\ memo.mutation = mutations => Right(memo.manifest)
PersistedInv ==
    persisted # None =>
        LET p == persisted IN
        /\ Unlisted(p.manifest, p.seen)
        /\ ~p.bad => \A a \in Assets : Fits(p.manifest, p.seen, p.seen[Source], a)

\* A launch: what it has compiled and what it knows of the files.
Compiling(s) ==
    /\ s.pc \in {"list", "stat"} => s.target = NoAssets
    /\ s.pc \in {"list", "stat", "reconcile"} => s.need = {}
    /\ s.pc = "stat" => \A f \in s.todo : s.seen[f] # 0
    /\ s.pc = "plan" => s.target = NoAssets /\ s.todo = {a \in Assets : s.seen[a] # 0}
    /\ s.pc = "build" =>
        /\ s.todo \subseteq {a \in Assets : s.seen[a] # 0}
        /\ Unlisted(s.target, s.seen)
        /\ ~s.bad => \A a \in Assets \ s.todo : Fits(s.target, s.seen, s.plan, a)
    /\ s.pc \in {"plan", "build"} /\ s.need = {} /\ ~s.late /\ s.cur = mutations => s.seen = Stats

\* A launch that nothing has disturbed: the plan is that of the source, the files
\* listed are those there are; then the manifest is right, and the runtime has what
\* is not still to be registered.
CalmPlan(s) == typed = src /\ s.plan = src
CalmSeen(s) ==
    /\ s.pc \in {"stat", "plan", "build", "reconcile"} => \A f \in Files : s.seen[f] = 0 <=> Stats[f] = 0
    /\ s.pc = "stat" => \A f \in Files \ s.todo : s.seen[f] = Stats[f]
CalmMade(s) ==
    /\ s.pc = "build" => \A a \in Assets \ s.todo : s.target[a] = Compiled(a, files[a], src)
    /\ s.pc = "reconcile" => s.target = NoAssets \/ Right(s.target)
    /\ s.pc = "register" => Right(s.target)
    /\ s.pc \in {"reconcile", "register", "ready"} \/ s.need # {} => Right(s.manifest)
CalmLoaded(s) ==
    /\ s.pc \in {"plan", "build"} /\ s.need # {} => Loaded(Assets \ s.need)
    /\ s.pc = "register" => Loaded(Assets \ s.todo)
    /\ s.pc = "ready" => Loaded(Assets)
Undisturbed(s) == s.calm => CalmPlan(s) /\ CalmSeen(s) /\ CalmMade(s) /\ CalmLoaded(s)

LaunchInv == sync["launch"] # NoSync => Compiling(sync["launch"]) /\ Undisturbed(sync["launch"])

AssetInv == Types /\ MemoInv /\ PersistedInv /\ LaunchInv

-----------------------------------------------------------------------------
(* The types are kept. *)

LEMMA IdleIsNone == ASSUME NEW s \in {NoSync} \cup SyncRecord, s.pc \in Steps PROVE s \in SyncRecord /\ s # NoSync
BY DEF NoSync, Steps

LEMMA RecordIsBusy == ASSUME NEW s \in SyncRecord PROVE s # NoSync
BY DEF NoSync, Steps, SyncRecord

LEMMA Numbers == AssetSyncAssumption /\ FileTypes =>
    /\ MaxChanges \in Nat /\ clock \in Nat /\ clock \in Versions /\ src \in Versions /\ typed \in Versions
    /\ \A v \in 0 .. clock : v \in Versions /\ v \in -1 .. MaxChanges + 1
    /\ \A a \in Assets : files[a] \in Versions
    /\ Stats \in [Files -> 0 .. clock] /\ Source \in Files /\ Assets \subseteq Files
BY DEF AssetSyncAssumption, FileTypes, Versions, Stats, Files

LEMMA CompiledIs ==
    ASSUME NEW a \in Assets, NEW v \in Versions, NEW p \in Versions, MaxChanges \in Nat
    PROVE  /\ Compiled(a, v, p) \in Hashes /\ Missing \in Hashes
           /\ Compiled(a, v, p) = Missing <=> v = 0
<1>1. 0 \in Versions
  BY DEF Versions
<1>2. \A x, y \in Versions : <<x, y>> \in Hashes /\ (<<x, y>> = Missing => x = 0)
  BY DEF Hashes, Missing
<1> QED
  BY <1>1, <1>2 DEF Compiled, Missing, Empty

LEMMA NothingIs == MaxChanges \in Nat => NoAssets \in Manifests
BY DEF NoAssets, Manifests, Hashes, Missing, Versions

\* The launch under way is shaken: it is the same but for its calm.
LEMMA ShakenIs ==
    ASSUME sync \in [Kinds -> {NoSync} \cup SyncRecord]
    PROVE  /\ Shaken \in [Kinds -> {NoSync} \cup SyncRecord] /\ Shaken["other"] = sync["other"]
           /\ sync["launch"] = NoSync => Shaken["launch"] = NoSync
           /\ sync["launch"] # NoSync =>
                /\ Shaken["launch"] \in SyncRecord
                /\ Shaken["launch"] = [sync["launch"] EXCEPT !.calm = FALSE]
<1>1. CASE sync["launch"] = NoSync
  BY <1>1 DEF Shaken, Kinds
<1>2. CASE sync["launch"] # NoSync
  <2>1. sync["launch"] \in SyncRecord /\ "launch" \in Kinds /\ "other" \in Kinds
    BY <1>2 DEF Kinds
  <2>2. PICK t \in SyncRecord : t = [sync["launch"] EXCEPT !.calm = FALSE]
    BY <2>1 DEF SyncRecord
  <2>3. Shaken = [sync EXCEPT !["launch"] = t]
    BY <1>2, <2>2 DEF Shaken
  <2> QED
    BY <1>2, <2>1, <2>2, <2>3
<1> QED
  BY <1>1, <1>2

\* What a record and its shaken form have in common.
LEMMA ShakenFields ==
    ASSUME NEW s \in SyncRecord, NEW t, t = [s EXCEPT !.calm = FALSE]
    PROVE  /\ t.pc = s.pc /\ t.mode = s.mode /\ t.plan = s.plan /\ t.seen = s.seen /\ t.cur = s.cur
           /\ t.late = s.late /\ t.bad = s.bad /\ t.target = s.target /\ t.manifest = s.manifest
           /\ t.need = s.need /\ t.todo = s.todo /\ ~t.calm
BY DEF SyncRecord

LEMMA SyncTypesShaken ==
    ASSUME FileTypes, FileTypes', SyncTypes, clock' >= clock, mutations' >= mutations, sync' = Shaken
    PROVE  SyncTypes'
<1>1. sync' \in [Kinds -> {NoSync} \cup SyncRecord]
  BY ShakenIs DEF SyncTypes
<1>2. ASSUME NEW k \in Kinds, sync'[k] # NoSync
      PROVE  sync'[k].cur <= mutations' /\ \A f \in Files : sync'[k].seen[f] <= clock'
  <2>1. sync[k] # NoSync /\ sync[k] \in SyncRecord
    BY <1>2, ShakenIs DEF SyncTypes, Kinds
  <2>2. sync'[k].cur = sync[k].cur /\ sync'[k].seen = sync[k].seen
    BY <1>2, <2>1, ShakenIs, ShakenFields DEF SyncTypes, Kinds
  <2>3. sync[k].cur \in Nat /\ \A f \in Files : sync[k].seen[f] \in Int
    BY <2>1 DEF SyncRecord, Seen
  <2>4. sync[k].cur <= mutations /\ \A f \in Files : sync[k].seen[f] <= clock
    BY <2>1 DEF SyncTypes, Earlier
  <2>5. clock \in Int /\ clock' \in Int /\ mutations \in Int /\ mutations' \in Int
    BY DEF FileTypes
  <2> QED
    BY <2>2, <2>3, <2>4, <2>5
<1> QED
  BY <1>1, <1>2 DEF SyncTypes, Earlier

LEMMA SyncTypesBecome ==
    ASSUME SyncTypes, clock' = clock, mutations' = mutations, NEW k \in Kinds,
           NEW s \in {NoSync} \cup SyncRecord, s # NoSync => s.cur <= mutations /\ Earlier(s.seen),
           sync' = [sync EXCEPT ![k] = s]
    PROVE  SyncTypes'
BY DEF SyncTypes, Earlier

LEMMA MemoTypesKept ==
    ASSUME FileTypes, FileTypes', MemoTypes, clock' >= clock, mutations' >= mutations,
           UNCHANGED memoVars
    PROVE  MemoTypes'
<1>1. clock \in Int /\ clock' \in Int /\ mutations \in Int /\ mutations' \in Int
  BY DEF FileTypes
<1>2. memo' = memo /\ persisted' = persisted
  BY DEF memoVars
<1>3. ASSUME persisted \in PersistedRecord, Earlier(persisted.seen) PROVE Earlier(persisted.seen)'
  <2>1. \A f \in Files : persisted.seen[f] \in Int
    BY <1>3 DEF PersistedRecord, Seen
  <2> QED
    BY <1>1, <1>2, <1>3, <2>1 DEF Earlier
<1>4. memo \in MemoRecord => memo.mutation \in Int
  BY DEF MemoRecord
<1> QED
  BY <1>1, <1>2, <1>3, <1>4 DEF MemoTypes

LEMMA TypesInit == AssetSyncAssumption /\ AssetInit => Types
<1> SUFFICES ASSUME AssetSyncAssumption, AssetInit PROVE Types
  OBVIOUS
<1>1. FileTypes
  BY DEF AssetInit, FileTypes, AssetSyncAssumption
<1>2. MemoTypes
  BY DEF AssetInit, MemoTypes
<1>3. SyncTypes
  BY DEF AssetInit, SyncTypes, Kinds
<1>4. live \in Manifests /\ kept \in Manifests
  BY NothingIs DEF AssetInit, AssetSyncAssumption
<1> QED
  BY <1>1, <1>2, <1>3, <1>4 DEF Types

\* The project changes.
LEMMA TypesChange ==
    ASSUME AssetSyncAssumption, Types,
           (\E a \in Assets : Write(a) \/ DeleteAsset(a)) \/ TypeSource \/ SaveSource
    PROVE  /\ FileTypes' /\ clock' >= clock /\ mutations' >= mutations /\ sync' = Shaken
           /\ UNCHANGED <<memoVars, runtimeVars, countVars>>
<1>1. clock \in 1 .. MaxChanges + 1 /\ MaxChanges \in Nat /\ mutations \in Nat
      /\ files \in [Assets -> 0 .. clock] /\ src \in 1 .. clock /\ typed \in 1 .. clock
  BY DEF Types, FileTypes, AssetSyncAssumption
<1>2. CASE \E a \in Assets : Write(a)
  <2>1. PICK a \in Assets : Write(a)
    BY <1>2
  <2>2. clock' = clock + 1 /\ clock <= MaxChanges
    BY <2>1 DEF Write, Change
  <2>3. files' \in [Assets -> 0 .. clock']
    BY <1>1, <2>1, <2>2 DEF Write
  <2> QED
    BY <1>1, <2>1, <2>2, <2>3 DEF Write, Change, FileTypes
<1>3. CASE \E a \in Assets : DeleteAsset(a)
  <2>1. PICK a \in Assets : DeleteAsset(a)
    BY <1>3
  <2>2. clock' = clock + 1 /\ clock <= MaxChanges
    BY <2>1 DEF DeleteAsset, Change
  <2>3. files' \in [Assets -> 0 .. clock']
    BY <1>1, <2>1, <2>2 DEF DeleteAsset
  <2> QED
    BY <1>1, <2>1, <2>2, <2>3 DEF DeleteAsset, Change, FileTypes
<1>4. CASE TypeSource
  <2>1. clock' = clock + 1 /\ clock <= MaxChanges
    BY <1>4 DEF TypeSource, Change
  <2>2. files' \in [Assets -> 0 .. clock']
    BY <1>1, <1>4, <2>1 DEF TypeSource
  <2> QED
    BY <1>1, <1>4, <2>1, <2>2 DEF TypeSource, Change, FileTypes
<1>5. CASE SaveSource
  BY <1>1, <1>5 DEF SaveSource, FileTypes
<1> QED
  BY <1>2, <1>3, <1>4, <1>5

\* A new record of a launch or of another sync.
LEMMA BegunIs ==
    ASSUME AssetSyncAssumption, FileTypes, NEW mode \in {"run", "debug", "plain"}, NEW plan \in Versions
    PROVE  LET s == Begun(mode, plan) IN
           /\ s \in SyncRecord /\ s.cur <= mutations /\ Earlier(s.seen)
           /\ s.pc = "list" /\ s.plan = plan /\ s.target = NoAssets /\ s.need = {}
           /\ s.calm = (typed = src)
<1> DEFINE z == [f \in Files |-> 0]
<1>1. z \in Seen /\ NoAssets \in Manifests
  BY NothingIs DEF AssetSyncAssumption, Seen
<1>2. \A f \in Files : z[f] = 0
  OBVIOUS
<1>3. Begun(mode, plan) = [pc |-> "list", mode |-> mode, plan |-> plan, seen |-> z,
     cur |-> 0, late |-> FALSE, bad |-> FALSE, target |-> NoAssets, manifest |-> NoAssets,
     need |-> {}, todo |-> {}, calm |-> typed = src]
  BY DEF Begun
<1>5. (typed = src) \in BOOLEAN
  OBVIOUS
<1> HIDE DEF z
<1>4. Begun(mode, plan) \in SyncRecord
  BY <1>1, <1>3, <1>5 DEF SyncRecord, Steps
<1> QED
  BY <1>1, <1>2, <1>3, <1>4 DEF Earlier, FileTypes

\* What s becomes when it is to compile.
LEMMA ToBuildIs ==
    ASSUME NEW s \in SyncRecord
    PROVE  LET t == ToBuild(s) IN
           /\ t \in SyncRecord /\ t.pc \in {"plan", "build"}
           /\ t.todo = {a \in Assets : s.seen[a] # 0}
           /\ t.mode = s.mode /\ t.plan = s.plan /\ t.seen = s.seen /\ t.cur = s.cur
           /\ t.late = s.late /\ t.bad = s.bad /\ t.target = s.target /\ t.manifest = s.manifest
           /\ t.need = s.need /\ t.calm = s.calm
<1> DEFINE w == {a \in Assets : s.seen[a] # 0}
<1>1. w \in SUBSET Files
  BY DEF Files
<1>2. PICK c \in {"plan", "build"} : c = IF s.mode = "debug" THEN "plan" ELSE "build"
  OBVIOUS
<1>3. ToBuild(s) = [s EXCEPT !.pc = c, !.todo = w]
  BY <1>2 DEF ToBuild
<1> HIDE DEF w
<1> QED
  BY <1>1, <1>3 DEF SyncRecord, Steps, w

\* Sync k goes from one record to another, and the project stays.
Goes(k) ==
    /\ sync[k] \in SyncRecord /\ sync'[k] \in SyncRecord
    /\ sync' = [sync EXCEPT ![k] = sync'[k]]
    /\ UNCHANGED fileVars

\* The fields a step of sync k leaves.
SameWork(s, t) ==
    /\ t.plan = s.plan /\ t.cur = s.cur /\ t.late = s.late /\ t.seen = s.seen
    /\ t.target = s.target /\ t.need = s.need

LEMMA GoesTypes ==
    ASSUME AssetSyncAssumption, Types, NEW k \in Kinds, Goes(k),
           sync'[k].cur <= mutations, Earlier(sync'[k].seen)
    PROVE  FileTypes' /\ SyncTypes'
<1>1. FileTypes' /\ clock' = clock /\ mutations' = mutations
  BY DEF Goes, fileVars, Types, FileTypes
<1>2. SyncTypes
  BY DEF Types
<1> QED
  BY <1>1, <1>2, SyncTypesBecome DEF Goes

LEMMA BusyIs ==
    ASSUME Types, NEW k \in Kinds, sync[k].pc \in Steps
    PROVE  /\ sync[k] \in SyncRecord /\ sync[k] # NoSync
           /\ sync[k].cur <= mutations /\ Earlier(sync[k].seen)
           /\ \A x : [sync EXCEPT ![k] = x][k] = x
<1>1. sync[k] \in {NoSync} \cup SyncRecord /\ sync \in [Kinds -> {NoSync} \cup SyncRecord]
  BY DEF Types, SyncTypes
<1>2. sync[k] \in SyncRecord /\ sync[k] # NoSync
  BY <1>1, IdleIsNone
<1> QED
  BY <1>1, <1>2 DEF Types, SyncTypes

\* The listing of the files.
Listing == [f \in Files |-> IF Stats[f] = 0 THEN 0 ELSE -1]

LEMMA ListingIs == AssetSyncAssumption /\ Types =>
    Listing \in Seen /\ Earlier(Listing) /\ \A f \in Files : Listing[f] = 0 <=> Stats[f] = 0
BY DEF Listing, Types, FileTypes, AssetSyncAssumption, Seen, Earlier

LEMMA ListDoes ==
    ASSUME AssetSyncAssumption, Types, NEW k \in Kinds, List(k)
    PROVE  /\ Goes(k) /\ FileTypes' /\ SyncTypes' /\ UNCHANGED <<memoVars, runtimeVars>>
           /\ sync[k].pc = "list"
           /\ k = "launch" =>
                LET s == sync[k]
                    t == sync'[k] IN
                /\ SameWork([s EXCEPT !.seen = Listing], t)
                /\ \/ /\ t.pc = "reconcile" /\ memo # None /\ memo.mutation = mutations
                      /\ t.manifest = memo.manifest /\ t.calm = (s.calm /\ ~memo.bad)
                   \/ /\ t.pc = "stat" /\ t.calm = s.calm
                      /\ t.todo = {f \in Files : Stats[f] # 0}
<1>1. /\ sync[k].pc = "list" /\ sync[k] \in SyncRecord /\ sync[k].cur <= mutations
      /\ \A x : [sync EXCEPT ![k] = x][k] = x
  BY BusyIs DEF List, At, Steps
<1>2. PICK s \in SyncRecord : s = [sync[k] EXCEPT !.seen = Listing]
  BY <1>1, ListingIs DEF SyncRecord
<1>3. /\ s.seen = Listing /\ s.plan = sync[k].plan /\ s.cur = sync[k].cur /\ s.late = sync[k].late
      /\ s.target = sync[k].target /\ s.need = sync[k].need /\ s.calm = sync[k].calm
  BY <1>1, <1>2 DEF SyncRecord
<1>4. UNCHANGED fileVars /\ UNCHANGED <<memoVars, runtimeVars>>
  BY DEF List
<1>5. CASE k = "launch" /\ memo.known /\ memo.mutation = mutations
  <2>1. memo \in MemoRecord /\ memo # None
    <3>1. None.known = FALSE
      BY DEF None
    <3>2. memo # None
      BY <1>5, <3>1
    <3> QED
      BY <3>2 DEF Types, MemoTypes
  <2>2. PICK t \in SyncRecord : t = [s EXCEPT !.pc = "reconcile", !.manifest = memo.manifest,
                                            !.calm = s.calm /\ ~memo.bad]
    BY <2>1 DEF SyncRecord, MemoRecord, Steps
  <2>3. sync' = [sync EXCEPT ![k] = t] /\ sync'[k] = t
    BY <1>1, <1>2, <1>5, <2>2 DEF List, SyncBecomes, Listing
  <2>4. /\ t.pc = "reconcile" /\ t.manifest = memo.manifest /\ t.calm = (s.calm /\ ~memo.bad)
        /\ t.plan = s.plan /\ t.cur = s.cur /\ t.late = s.late /\ t.seen = s.seen
        /\ t.target = s.target /\ t.need = s.need
    BY <2>2 DEF SyncRecord
  <2>5. Goes(k)
    BY <1>1, <1>4, <2>3 DEF Goes
  <2>6. FileTypes' /\ SyncTypes'
    BY <1>1, <1>3, <2>3, <2>4, <2>5, ListingIs, GoesTypes
  <2> QED
    BY <1>1, <1>2, <1>3, <1>4, <1>5, <2>1, <2>3, <2>4, <2>5, <2>6 DEF SameWork
<1>6. CASE k = "launch" /\ ~(memo.known /\ memo.mutation = mutations)
  <2>1. PICK w \in SUBSET Files : w = {f \in Files : Stats[f] # 0}
    OBVIOUS
  <2>2. PICK t \in SyncRecord : t = [s EXCEPT !.pc = "stat", !.todo = w]
    BY <2>1 DEF SyncRecord, Steps
  <2>3. sync' = [sync EXCEPT ![k] = t] /\ sync'[k] = t
    BY <1>1, <1>2, <1>6, <2>1, <2>2 DEF List, SyncBecomes, Listing
  <2>4. /\ t.pc = "stat" /\ t.todo = w /\ t.calm = s.calm
        /\ t.plan = s.plan /\ t.cur = s.cur /\ t.late = s.late /\ t.seen = s.seen
        /\ t.target = s.target /\ t.need = s.need
    BY <2>2 DEF SyncRecord
  <2>5. Goes(k)
    BY <1>1, <1>4, <2>3 DEF Goes
  <2>6. FileTypes' /\ SyncTypes'
    BY <1>1, <1>3, <2>3, <2>4, <2>5, ListingIs, GoesTypes
  <2> QED
    BY <1>1, <1>2, <1>3, <1>4, <1>6, <2>1, <2>3, <2>4, <2>5, <2>6 DEF SameWork
<1>7. CASE k # "launch"
  <2>1. PICK t \in SyncRecord : t = ToBuild(s) /\ t.seen = s.seen /\ t.cur = s.cur
    BY ToBuildIs
  <2>3. sync' = [sync EXCEPT ![k] = t] /\ sync'[k] = t
    BY <1>1, <1>2, <1>7, <2>1 DEF List, SyncBecomes, Listing
  <2>5. Goes(k)
    BY <1>1, <1>4, <2>3 DEF Goes
  <2>6. FileTypes' /\ SyncTypes'
    BY <1>1, <1>3, <2>1, <2>3, <2>5, ListingIs, GoesTypes
  <2> QED
    BY <1>1, <1>4, <1>7, <2>3, <2>5, <2>6
<1> QED
  BY <1>5, <1>6, <1>7

LEMMA StatDoes ==
    ASSUME AssetSyncAssumption, Types, NEW f \in Files, Stat(f)
    PROVE  /\ Goes("launch") /\ FileTypes' /\ SyncTypes' /\ UNCHANGED <<memoVars, runtimeVars>>
           /\ LET s == sync["launch"]
                  t == sync'["launch"] IN
              /\ s.pc = "stat" /\ t.pc = "stat" /\ f \in s.todo
              /\ t.todo = s.todo \ {f} /\ t.calm = s.calm
              /\ t.target = s.target /\ t.need = s.need /\ t.plan = s.plan
              /\ t.seen[f] = IF Stats[f] = 0 THEN -1 ELSE Stats[f]
              /\ \A g \in Files : g # f => t.seen[g] = s.seen[g]
<1> DEFINE s == sync["launch"]
<1>1. /\ s.pc = "stat" /\ s \in SyncRecord /\ s.cur <= mutations /\ Earlier(s.seen) /\ "launch" \in Kinds
      /\ \A x : [sync EXCEPT !["launch"] = x]["launch"] = x
  BY BusyIs DEF Stat, At, Steps, Kinds
<1>2. PICK v \in -1 .. MaxChanges + 1 : v = IF Stats[f] = 0 THEN -1 ELSE Stats[f]
  BY Numbers DEF Types
<1>3. v <= clock
  BY <1>2, Numbers DEF Types, FileTypes
<1>4. PICK w : w = [s.seen EXCEPT ![f] = v]
  OBVIOUS
<1>5. w \in Seen /\ w[f] = v /\ \A g \in Files : g # f => w[g] = s.seen[g]
  BY <1>1, <1>2, <1>4 DEF SyncRecord, Seen
<1>6. PICK t \in SyncRecord : t = [s EXCEPT !.seen = w, !.todo = s.todo \ {f}]
  BY <1>1, <1>5 DEF SyncRecord
<1>7. /\ t.pc = s.pc /\ t.seen = w /\ t.todo = s.todo \ {f} /\ t.calm = s.calm /\ t.cur = s.cur
      /\ t.target = s.target /\ t.need = s.need /\ t.plan = s.plan
  BY <1>1, <1>6 DEF SyncRecord
<1>8. sync' = [sync EXCEPT !["launch"] = t] /\ sync'["launch"] = t
  BY <1>1, <1>2, <1>4, <1>6 DEF Stat, SyncBecomes
<1>9. Goes("launch")
  BY <1>1, <1>8 DEF Goes, Stat
<1>10. Earlier(t.seen)
  BY <1>1, <1>3, <1>5, <1>7 DEF Earlier
<1>11. FileTypes' /\ SyncTypes'
  BY <1>1, <1>7, <1>8, <1>9, <1>10, GoesTypes
<1> QED
  BY <1>1, <1>2, <1>5, <1>7, <1>8, <1>9, <1>11 DEF Stat

LEMMA SeenStats ==
    ASSUME AssetSyncAssumption, Types, NEW k \in Kinds, sync[k] \in SyncRecord
    PROVE  \A f \in Files : Stats[f] \in Nat /\ sync[k].seen[f] \in Int
BY Numbers DEF SyncRecord, Seen, Types, FileTypes

LEMMA DecideDoes ==
    ASSUME AssetSyncAssumption, Types, Decide
    PROVE  /\ Goes("launch") /\ FileTypes' /\ SyncTypes' /\ MemoTypes'
           /\ persisted' = persisted /\ UNCHANGED runtimeVars
           /\ LET s == sync["launch"]
                  t == sync'["launch"] IN
              /\ s.pc = "stat" /\ s.todo = {}
              /\ t.plan = s.plan /\ t.seen = s.seen /\ t.target = s.target /\ t.need = s.need
              /\ \/ /\ persisted # None /\ persisted.seen = s.seen
                    /\ memo' # None /\ memo'.manifest = persisted.manifest
                    /\ memo'.bad = (persisted.bad \/ s.seen # Stats)
                    /\ t.pc = "reconcile" /\ t.manifest = persisted.manifest
                    /\ t.calm = (s.calm /\ ~persisted.bad)
                 \/ /\ memo' = memo
                    /\ t.pc \in {"plan", "build"} /\ t.todo = {a \in Assets : s.seen[a] # 0}
                    /\ t.calm = s.calm /\ t.cur = mutations /\ t.late = (s.seen # Stats)
<1> DEFINE s == sync["launch"]
<1>1. /\ s.pc = "stat" /\ s \in SyncRecord /\ s.cur <= mutations /\ Earlier(s.seen) /\ "launch" \in Kinds
      /\ s.todo = {} /\ mutations \in Nat
      /\ \A x : [sync EXCEPT !["launch"] = x]["launch"] = x
  BY BusyIs DEF Decide, At, Steps, Kinds, Types, FileTypes
<1>2. UNCHANGED fileVars /\ persisted' = persisted /\ UNCHANGED runtimeVars
  BY DEF Decide
<1>3. MemoTypes /\ clock' = clock /\ mutations' = mutations /\ \A p : Earlier(p)' = Earlier(p)
  BY <1>2 DEF Types, fileVars, Earlier
<1>4. CASE Trusted(s.seen)
  <2>1. persisted \in PersistedRecord /\ persisted # None /\ persisted.seen = s.seen
    <3>1. None.known = FALSE
      BY DEF None
    <3>2. persisted # None /\ persisted.seen = s.seen
      BY <1>4, <3>1 DEF Trusted
    <3> QED
      BY <3>2 DEF Types, MemoTypes
  <2>2. PICK t \in SyncRecord : t = [s EXCEPT !.pc = "reconcile", !.manifest = persisted.manifest,
                                            !.calm = s.calm /\ ~persisted.bad]
    BY <1>1, <2>1 DEF SyncRecord, PersistedRecord, Steps
  <2>3. sync' = [sync EXCEPT !["launch"] = t] /\ sync'["launch"] = t
    BY <1>1, <1>4, <2>2 DEF Decide, SyncBecomes
  <2>4. /\ t.pc = "reconcile" /\ t.manifest = persisted.manifest /\ t.calm = (s.calm /\ ~persisted.bad)
        /\ t.plan = s.plan /\ t.seen = s.seen /\ t.target = s.target /\ t.need = s.need
        /\ t.cur = s.cur
    BY <1>1, <2>2 DEF SyncRecord
  <2>5. Goes("launch")
    BY <1>1, <1>2, <2>3 DEF Goes
  <2>6. FileTypes' /\ SyncTypes'
    BY <1>1, <2>3, <2>4, <2>5, GoesTypes
  <2>7. PICK b \in BOOLEAN : b = (persisted.bad \/ s.seen # Stats)
    OBVIOUS
  <2>8. memo' = [known |-> TRUE, mutation |-> mutations, manifest |-> persisted.manifest, bad |-> b]
    BY <1>4, <2>7 DEF Decide
  <2>9. memo' \in MemoRecord /\ memo'.mutation = mutations /\ memo'.manifest = persisted.manifest
        /\ memo'.bad = b /\ memo'.known = TRUE
    BY <1>1, <2>1, <2>8 DEF MemoRecord, PersistedRecord
  <2>10. memo' # None /\ MemoTypes'
    BY <1>1, <1>2, <1>3, <2>9 DEF MemoTypes, None
  <2> QED
    BY <1>1, <1>2, <2>1, <2>3, <2>4, <2>5, <2>6, <2>7, <2>9, <2>10
<1>5. CASE ~Trusted(s.seen)
  <2>1. PICK b \in BOOLEAN : b = (s.seen # Stats)
    OBVIOUS
  <2>2. PICK u \in SyncRecord : u = [s EXCEPT !.cur = mutations, !.late = b]
    BY <1>1 DEF SyncRecord
  <2>3. /\ u.cur = mutations /\ u.late = b /\ u.plan = s.plan /\ u.seen = s.seen
        /\ u.target = s.target /\ u.need = s.need /\ u.calm = s.calm
    BY <1>1, <2>2 DEF SyncRecord
  <2>4. PICK t \in SyncRecord : t = ToBuild(u) /\ t.pc \in {"plan", "build"}
           /\ t.todo = {a \in Assets : u.seen[a] # 0}
           /\ t.plan = u.plan /\ t.seen = u.seen /\ t.cur = u.cur
           /\ t.late = u.late /\ t.target = u.target /\ t.need = u.need /\ t.calm = u.calm
    BY ToBuildIs
  <2>5. sync' = [sync EXCEPT !["launch"] = t] /\ sync'["launch"] = t /\ memo' = memo
    BY <1>1, <1>5, <2>1, <2>2, <2>4 DEF Decide, SyncBecomes
  <2>6. Goes("launch")
    BY <1>1, <1>2, <2>5 DEF Goes
  <2>7. FileTypes' /\ SyncTypes'
    BY <1>1, <2>3, <2>4, <2>5, <2>6, GoesTypes
  <2>8. MemoTypes'
    BY <1>2, <1>3, <2>5 DEF MemoTypes
  <2> QED
    BY <1>1, <1>2, <2>1, <2>3, <2>4, <2>5, <2>6, <2>7, <2>8
<1> QED
  BY <1>4, <1>5

LEMMA MakePlanDoes ==
    ASSUME AssetSyncAssumption, Types, NEW fails \in BOOLEAN, MakePlan(fails)
    PROVE  /\ Goes("launch") /\ FileTypes' /\ SyncTypes' /\ UNCHANGED <<memoVars, runtimeVars>>
           /\ LET s == sync["launch"]
                  t == sync'["launch"] IN
              /\ s.pc = "plan" /\ t.pc = "build" /\ (t.calm => s.calm /\ t.plan = typed)
              /\ t.todo = s.todo /\ t.seen = s.seen /\ t.target = s.target /\ t.need = s.need
              /\ t.cur = s.cur /\ t.late = s.late /\ t.manifest = s.manifest
<1> DEFINE s == sync["launch"]
<1>1. /\ s.pc = "plan" /\ s \in SyncRecord /\ s.cur <= mutations /\ Earlier(s.seen) /\ "launch" \in Kinds
      /\ \A x : [sync EXCEPT !["launch"] = x]["launch"] = x
  BY BusyIs DEF MakePlan, At, Steps, Kinds
<1>2. PICK v \in Versions : v = IF fails THEN Empty ELSE typed
  BY Numbers DEF Types, Empty, Versions
<1>3. PICK t \in SyncRecord : t = [s EXCEPT !.pc = "build", !.plan = v,
                                          !.bad = s.bad \/ fails, !.calm = s.calm /\ ~fails]
  BY <1>1 DEF SyncRecord, Steps
<1>4. /\ t.pc = "build" /\ t.plan = v /\ t.calm = (s.calm /\ ~fails)
      /\ t.todo = s.todo /\ t.seen = s.seen /\ t.target = s.target /\ t.need = s.need
      /\ t.cur = s.cur /\ t.late = s.late /\ t.manifest = s.manifest
  BY <1>1, <1>3 DEF SyncRecord
<1>5. sync' = [sync EXCEPT !["launch"] = t] /\ sync'["launch"] = t
  BY <1>1, <1>2, <1>3 DEF MakePlan, SyncBecomes
<1>6. Goes("launch")
  BY <1>1, <1>5 DEF Goes, MakePlan
<1>7. FileTypes' /\ SyncTypes'
  BY <1>1, <1>4, <1>5, <1>6, GoesTypes
<1> QED
  BY <1>1, <1>2, <1>4, <1>5, <1>6, <1>7 DEF MakePlan

LEMMA BuildDoes ==
    ASSUME AssetSyncAssumption, Types, NEW k \in Kinds, NEW a \in Assets, NEW fails \in BOOLEAN,
           Build(k, a, fails)
    PROVE  /\ Goes(k) /\ FileTypes' /\ SyncTypes' /\ UNCHANGED <<memoVars, runtimeVars>>
           /\ LET s == sync[k]
                  t == sync'[k] IN
              /\ s.pc = "build" /\ t.pc = "build" /\ a \in s.todo /\ t.todo = s.todo \ {a}
              /\ t.plan = s.plan /\ t.seen = s.seen /\ t.cur = s.cur /\ t.late = s.late
              /\ t.need = s.need /\ t.manifest = s.manifest
              /\ t.bad = (s.bad \/ fails) /\ t.calm = (s.calm /\ ~fails)
              /\ ~fails => t.target[a] = Compiled(a, files[a], s.plan)
              /\ \A b \in Assets : b # a => t.target[b] = s.target[b]
<1> DEFINE s == sync[k]
<1>1. /\ s.pc = "build" /\ s \in SyncRecord /\ s.cur <= mutations /\ Earlier(s.seen) /\ a \in s.todo
      /\ \A x : [sync EXCEPT ![k] = x][k] = x
  BY BusyIs DEF Build, At, Steps
<1>2. PICK v \in Hashes : v = IF fails THEN Missing ELSE Compiled(a, files[a], s.plan)
  BY <1>1, Numbers, CompiledIs DEF Types, SyncRecord
<1>3. PICK w : w = [s.target EXCEPT ![a] = v]
  OBVIOUS
<1>4. w \in Manifests /\ w[a] = v /\ \A b \in Assets : b # a => w[b] = s.target[b]
  BY <1>1, <1>2, <1>3 DEF SyncRecord, Manifests
<1>5. PICK t \in SyncRecord : t = [s EXCEPT !.target = w, !.todo = s.todo \ {a},
                                          !.bad = s.bad \/ fails, !.calm = s.calm /\ ~fails]
  BY <1>1, <1>4 DEF SyncRecord
<1>6. /\ t.pc = s.pc /\ t.todo = s.todo \ {a} /\ t.plan = s.plan /\ t.seen = s.seen /\ t.cur = s.cur
      /\ t.late = s.late /\ t.need = s.need /\ t.manifest = s.manifest /\ t.target = w
      /\ t.bad = (s.bad \/ fails) /\ t.calm = (s.calm /\ ~fails)
  BY <1>1, <1>5 DEF SyncRecord
<1>7. sync' = [sync EXCEPT ![k] = t] /\ sync'[k] = t
  BY <1>1, <1>2, <1>3, <1>5 DEF Build, SyncBecomes
<1>8. Goes(k)
  BY <1>1, <1>7 DEF Goes, Build
<1>9. FileTypes' /\ SyncTypes'
  BY <1>1, <1>6, <1>7, <1>8, GoesTypes
<1>10. UNCHANGED <<memoVars, runtimeVars>>
  BY DEF Build
<1> QED
  BY <1>1, <1>2, <1>4, <1>6, <1>7, <1>8, <1>9, <1>10

LEMMA BuiltDoes ==
    ASSUME AssetSyncAssumption, Types, NEW k \in Kinds, Built(k)
    PROVE  /\ Goes(k) /\ FileTypes' /\ SyncTypes' /\ MemoTypes' /\ UNCHANGED runtimeVars
           /\ LET s == sync[k]
                  t == sync'[k] IN
              /\ s.pc = "build" /\ s.todo = {}
              /\ SameWork(s, t) /\ t.calm = s.calm
              /\ \/ /\ s.need # {} /\ t.pc = "register" /\ t.todo = s.need /\ t.manifest = s.manifest
                    /\ UNCHANGED memoVars
                 \/ /\ s.need = {} /\ t.pc = "reconcile" /\ t.manifest = s.target
                    /\ k # "launch" => UNCHANGED memoVars
                    /\ k = "launch" =>
                        /\ persisted' # None /\ persisted'.seen = s.seen
                        /\ persisted'.manifest = s.target
                        /\ persisted'.bad = (s.bad \/ s.plan # s.seen[Source])
                        /\ memo' # None /\ memo'.mutation = s.cur /\ memo'.manifest = s.target
                        /\ memo'.bad = (s.bad \/ s.plan # s.seen[Source] \/ s.late)
<1> DEFINE s == sync[k]
<1>1. /\ s.pc = "build" /\ s \in SyncRecord /\ s.cur <= mutations /\ Earlier(s.seen) /\ s.todo = {}
      /\ \A x : [sync EXCEPT ![k] = x][k] = x
  BY BusyIs DEF Built, At, Steps
<1>2. /\ UNCHANGED fileVars /\ UNCHANGED runtimeVars /\ MemoTypes
      /\ clock' = clock /\ mutations' = mutations
  BY DEF Built, fileVars, Types
<1>3. CASE s.need # {}
  <2>1. PICK t \in SyncRecord : t = [s EXCEPT !.pc = "register", !.todo = s.need]
    BY <1>1 DEF SyncRecord, Steps, Files
  <2>2. /\ t.pc = "register" /\ t.todo = s.need /\ t.manifest = s.manifest /\ t.calm = s.calm
        /\ t.plan = s.plan /\ t.cur = s.cur /\ t.late = s.late /\ t.seen = s.seen
        /\ t.target = s.target /\ t.need = s.need
    BY <1>1, <2>1 DEF SyncRecord
  <2>3. sync' = [sync EXCEPT ![k] = t] /\ sync'[k] = t /\ UNCHANGED memoVars
    BY <1>1, <1>3, <2>1 DEF Built, SyncBecomes
  <2>4. Goes(k)
    BY <1>1, <1>2, <2>3 DEF Goes
  <2>5. FileTypes' /\ SyncTypes'
    BY <1>1, <2>2, <2>3, <2>4, GoesTypes
  <2>6. MemoTypes'
    BY <1>2, <2>3 DEF MemoTypes, memoVars, Earlier
  <2> QED
    BY <1>1, <1>2, <1>3, <2>2, <2>3, <2>4, <2>5, <2>6 DEF SameWork
<1>4. CASE s.need = {}
  <2>1. PICK t \in SyncRecord : t = [s EXCEPT !.pc = "reconcile", !.manifest = s.target]
    BY <1>1 DEF SyncRecord, Steps
  <2>2. /\ t.pc = "reconcile" /\ t.manifest = s.target /\ t.calm = s.calm
        /\ t.plan = s.plan /\ t.cur = s.cur /\ t.late = s.late /\ t.seen = s.seen
        /\ t.target = s.target /\ t.need = s.need
    BY <1>1, <2>1 DEF SyncRecord
  <2>3. sync' = [sync EXCEPT ![k] = t] /\ sync'[k] = t
    BY <1>1, <1>4, <2>1 DEF Built, SyncBecomes
  <2>4. Goes(k)
    BY <1>1, <1>2, <2>3 DEF Goes
  <2>5. FileTypes' /\ SyncTypes'
    BY <1>1, <2>2, <2>3, <2>4, GoesTypes
  <2>6. PICK b \in BOOLEAN : b = (s.bad \/ s.plan # s.seen[Source])
    OBVIOUS
  <2>7. PICK c \in BOOLEAN : c = (b \/ s.late)
    OBVIOUS
  <2>8. CASE k = "launch"
    <3>1. /\ persisted' = [known |-> TRUE, seen |-> s.seen, manifest |-> s.target, bad |-> b]
          /\ memo' = [known |-> TRUE, mutation |-> s.cur, manifest |-> s.target, bad |-> c]
      BY <1>4, <2>6, <2>7, <2>8 DEF Built
    <3>2. /\ persisted' \in PersistedRecord /\ persisted'.seen = s.seen
          /\ persisted'.manifest = s.target /\ persisted'.bad = b /\ persisted'.known = TRUE
      BY <1>1, <3>1 DEF PersistedRecord, SyncRecord
    <3>3. /\ memo' \in MemoRecord /\ memo'.mutation = s.cur
          /\ memo'.manifest = s.target /\ memo'.bad = c /\ memo'.known = TRUE
      BY <1>1, <3>1 DEF MemoRecord, SyncRecord
    <3>4. persisted' # None /\ memo' # None
      BY <3>2, <3>3 DEF None
    <3>5. MemoTypes'
      BY <1>1, <1>2, <3>2, <3>3 DEF MemoTypes, Earlier
    <3> QED
      BY <1>1, <1>2, <1>4, <2>2, <2>3, <2>4, <2>5, <2>6, <2>7, <2>8, <3>2, <3>3, <3>4, <3>5 DEF SameWork
  <2>9. CASE k # "launch"
    <3>1. UNCHANGED memoVars
      BY <1>4, <2>9 DEF Built
    <3>2. MemoTypes'
      BY <1>2, <3>1 DEF MemoTypes, memoVars, Earlier
    <3> QED
      BY <1>1, <1>2, <1>4, <2>2, <2>3, <2>4, <2>5, <2>9, <3>1, <3>2 DEF SameWork
  <2> QED
    BY <2>8, <2>9
<1> QED
  BY <1>3, <1>4

\* A step in which another sync may shake the launch.
LEMMA Meddles ==
    ASSUME Types, FileTypes', clock' = clock, mutations' = mutations, NEW k \in Kinds,
           NEW t \in {NoSync} \cup SyncRecord, t # NoSync => t.cur <= mutations /\ Earlier(t.seen),
           sync' = [Meddling(k) EXCEPT ![k] = t]
    PROVE  /\ SyncTypes' /\ sync'[k] = t
           /\ k = "launch" => sync' = [sync EXCEPT ![k] = t]
           /\ k = "other" => \/ live' = live /\ sync'["launch"] = sync["launch"]
                             \/ sync'["launch"] = Shaken["launch"]
<1>1. sync \in [Kinds -> {NoSync} \cup SyncRecord] /\ SyncTypes
  BY DEF Types, SyncTypes
<1>2. CASE Meddling(k) = sync
  <2>1. SyncTypes'
    BY <1>1, <1>2, SyncTypesBecome
  <2> QED
    BY <1>1, <1>2, <2>1 DEF Meddling, Kinds
<1>3. CASE Meddling(k) # sync
  <2>1. k = "other" /\ Meddling(k) = Shaken
    BY <1>3 DEF Meddling
  <2>2. Shaken \in [Kinds -> {NoSync} \cup SyncRecord] /\ "launch" \in Kinds
    BY <1>1, ShakenIs DEF Kinds
  <2>3. sync' = [Shaken EXCEPT !["other"] = t]
    BY <2>1
  <2>4. sync'["other"] = t /\ sync'["launch"] = Shaken["launch"]
    BY <2>1, <2>2, <2>3
  <2>5. sync' \in [Kinds -> {NoSync} \cup SyncRecord]
    BY <2>1, <2>2, <2>3
  <2>6. sync'["launch"] # NoSync => sync'["launch"].cur <= mutations /\ Earlier(sync'["launch"].seen)
    BY <1>1, <2>2, <2>4, ShakenIs, ShakenFields DEF SyncTypes
  <2>7. \A j \in Kinds : j = "launch" \/ j = "other"
    BY DEF Kinds
  <2>8. SyncTypes'
    BY <2>1, <2>4, <2>5, <2>6, <2>7 DEF SyncTypes, Earlier
  <2> QED
    BY <2>1, <2>4, <2>8
<1> QED
  BY <1>2, <1>3

\* The runtime lacks some assets, or none.
LEMMA LackingDoes ==
    ASSUME AssetSyncAssumption, Types, NEW k \in Kinds, sync[k].pc = "reconcile",
           NEW need \in SUBSET Assets, Lacking(k, need), UNCHANGED fileVars
    PROVE  /\ sync[k] \in SyncRecord
           /\ FileTypes' /\ SyncTypes'
           /\ k = "launch" => Goes(k)
           /\ k = "other" => \/ live' = live /\ sync'["launch"] = sync["launch"]
                             \/ sync'["launch"] = Shaken["launch"]
           /\ LET s == sync[k]
                  t == sync'[k] IN
              /\ t.plan = s.plan /\ t.cur = s.cur /\ t.late = s.late /\ t.seen = s.seen
              /\ t.target = s.target /\ t.calm = s.calm /\ t.manifest = s.manifest /\ t.bad = s.bad
              /\ \/ need = {} /\ t.pc = "ready" /\ t.need = s.need
                 \/ /\ need # {} /\ t.need = need
                    /\ \/ s.target # NoAssets /\ t.pc = "register" /\ t.todo = need
                       \/ /\ s.target = NoAssets /\ t.pc \in {"plan", "build"}
                          /\ t.todo = {a \in Assets : s.seen[a] # 0}
<1> DEFINE s == sync[k]
<1>1. s \in SyncRecord /\ s.cur <= mutations /\ Earlier(s.seen)
  BY BusyIs DEF Steps
<1>2. FileTypes' /\ clock' = clock /\ mutations' = mutations
  BY DEF Types, FileTypes, fileVars
<1>3. \E t \in SyncRecord :
        /\ sync' = [Meddling(k) EXCEPT ![k] = t]
        /\ t.plan = s.plan /\ t.cur = s.cur /\ t.late = s.late /\ t.seen = s.seen
        /\ t.target = s.target /\ t.calm = s.calm /\ t.manifest = s.manifest /\ t.bad = s.bad
        /\ \/ need = {} /\ t.pc = "ready" /\ t.need = s.need
           \/ /\ need # {} /\ t.need = need
              /\ \/ s.target # NoAssets /\ t.pc = "register" /\ t.todo = need
                 \/ /\ s.target = NoAssets /\ t.pc \in {"plan", "build"}
                    /\ t.todo = {a \in Assets : s.seen[a] # 0}
  <2>1. CASE need = {}
    <3>1. PICK t \in SyncRecord : t = [s EXCEPT !.pc = "ready"]
      BY <1>1 DEF SyncRecord, Steps
    <3>2. sync' = [Meddling(k) EXCEPT ![k] = t]
      BY <2>1, <3>1 DEF Lacking
    <3>3. /\ t.plan = s.plan /\ t.cur = s.cur /\ t.late = s.late /\ t.seen = s.seen
          /\ t.target = s.target /\ t.calm = s.calm /\ t.manifest = s.manifest /\ t.bad = s.bad
          /\ t.pc = "ready" /\ t.need = s.need
      BY <1>1, <3>1 DEF SyncRecord
    <3> QED
      BY <2>1, <3>2, <3>3
  <2>2. CASE need # {} /\ s.target # NoAssets
    <3>1. PICK t \in SyncRecord : t = [s EXCEPT !.pc = "register", !.need = need, !.todo = need]
      BY <1>1 DEF SyncRecord, Steps, Files
    <3>2. sync' = [Meddling(k) EXCEPT ![k] = t]
      BY <2>2, <3>1 DEF Lacking
    <3>3. /\ t.plan = s.plan /\ t.cur = s.cur /\ t.late = s.late /\ t.seen = s.seen
          /\ t.target = s.target /\ t.calm = s.calm /\ t.manifest = s.manifest /\ t.bad = s.bad
          /\ t.pc = "register" /\ t.need = need /\ t.todo = need
      BY <1>1, <3>1 DEF SyncRecord
    <3> QED
      BY <2>2, <3>2, <3>3
  <2>3. CASE need # {} /\ s.target = NoAssets
    <3>1. PICK u \in SyncRecord : u = ToBuild(s) /\ u.pc \in {"plan", "build"}
           /\ u.todo = {a \in Assets : s.seen[a] # 0}
           /\ u.plan = s.plan /\ u.seen = s.seen /\ u.cur = s.cur
           /\ u.late = s.late /\ u.bad = s.bad /\ u.target = s.target /\ u.manifest = s.manifest
           /\ u.calm = s.calm
      BY <1>1, ToBuildIs
    <3>2. PICK t \in SyncRecord : t = [u EXCEPT !.need = need]
      BY <3>1 DEF SyncRecord
    <3>3. sync' = [Meddling(k) EXCEPT ![k] = t]
      BY <2>3, <3>1, <3>2 DEF Lacking
    <3>4. /\ t.plan = u.plan /\ t.cur = u.cur /\ t.late = u.late /\ t.seen = u.seen
          /\ t.target = u.target /\ t.calm = u.calm /\ t.manifest = u.manifest /\ t.bad = u.bad
          /\ t.pc = u.pc /\ t.need = need /\ t.todo = u.todo
      BY <3>2 DEF SyncRecord
    <3> QED
      BY <2>3, <3>1, <3>3, <3>4
  <2> QED
    BY <2>1, <2>2, <2>3
<1>4. PICK t \in SyncRecord :
        /\ sync' = [Meddling(k) EXCEPT ![k] = t]
        /\ t.plan = s.plan /\ t.cur = s.cur /\ t.late = s.late /\ t.seen = s.seen
        /\ t.target = s.target /\ t.calm = s.calm /\ t.manifest = s.manifest /\ t.bad = s.bad
        /\ \/ need = {} /\ t.pc = "ready" /\ t.need = s.need
           \/ /\ need # {} /\ t.need = need
              /\ \/ s.target # NoAssets /\ t.pc = "register" /\ t.todo = need
                 \/ /\ s.target = NoAssets /\ t.pc \in {"plan", "build"}
                    /\ t.todo = {a \in Assets : s.seen[a] # 0}
  BY <1>3
<1>5. /\ SyncTypes' /\ sync'[k] = t
      /\ k = "launch" => sync' = [sync EXCEPT ![k] = t]
      /\ k = "other" => \/ live' = live /\ sync'["launch"] = sync["launch"]
                        \/ sync'["launch"] = Shaken["launch"]
  BY <1>1, <1>2, <1>4, Meddles
<1>6. k = "launch" => Goes(k)
  BY <1>1, <1>5 DEF Goes
<1> QED
  BY <1>1, <1>2, <1>4, <1>5, <1>6

LEMMA ReconcileDoes ==
    ASSUME AssetSyncAssumption, Types, NEW k \in Kinds, NEW found \in SUBSET Assets,
           Reconcile(k, found)
    PROVE  LET m == sync[k].manifest
               held == {a \in Names(m) : live[a] = m[a]}
               need == Names(m) \ (held \cup found) IN
           /\ sync[k] \in SyncRecord /\ sync[k].pc = "reconcile" /\ Lacking(k, need)
           /\ UNCHANGED <<fileVars, memoVars>> /\ need \in SUBSET Assets
           /\ live' \in Manifests /\ kept' \in Manifests
           /\ \A a \in Assets : a \notin need =>
                 \/ m[a] = Missing
                 \/ live'[a] = m[a]
<1> DEFINE m == sync[k].manifest
           held == {a \in Names(m) : live[a] = m[a]}
           need == Names(m) \ (held \cup found)
<1>1. sync[k].pc = "reconcile" /\ sync[k] \in SyncRecord
  BY BusyIs DEF Reconcile, At, Steps
<1>2. m \in Manifests /\ live \in Manifests /\ kept \in Manifests /\ Missing \in Hashes
  BY <1>1 DEF SyncRecord, Types, AssetSyncAssumption, Hashes, Missing, Versions
<1>3. /\ live' = [a \in Assets |-> IF a \in found THEN m[a] ELSE live[a]]
      /\ kept' = [a \in Assets |-> IF a \in held \cup found /\ kept[a] = m[a] THEN m[a] ELSE Missing]
      /\ Lacking(k, need) /\ UNCHANGED <<fileVars, memoVars>>
  BY DEF Reconcile
<1>4. live' \in Manifests /\ kept' \in Manifests
  <2> HIDE DEF m, held
  <2> QED
    BY <1>2, <1>3 DEF Manifests
<1>5. need \in SUBSET Assets
  BY DEF Names
<1>6. ASSUME NEW a \in Assets, a \notin need, m[a] # Missing PROVE live'[a] = m[a]
  BY <1>3, <1>6 DEF Names
<1> QED
  BY <1>1, <1>3, <1>4, <1>5, <1>6

LEMMA RegisterDoes ==
    ASSUME AssetSyncAssumption, Types, NEW k \in Kinds, NEW a \in Assets, Register(k, a)
    PROVE  /\ FileTypes' /\ SyncTypes' /\ UNCHANGED <<fileVars, memoVars>>
           /\ live' \in Manifests /\ kept' \in Manifests
           /\ k = "launch" => Goes(k)
           /\ k = "other" => \/ live' = live /\ sync'["launch"] = sync["launch"]
                             \/ sync'["launch"] = Shaken["launch"]
           /\ LET s == sync[k]
                  t == sync'[k] IN
              /\ s.pc = "register" /\ a \in s.todo /\ t.todo = s.todo \ {a} /\ t.calm = s.calm
              /\ t.pc = IF t.todo = {} THEN "ready" ELSE "register"
              /\ SameWork(s, t) /\ t.manifest = s.manifest
              /\ \A b \in Assets : b # a => live'[b] = live[b]
              /\ s.target[a] # Missing => live'[a] = s.target[a]
<1> DEFINE s == sync[k]
<1>1. /\ s.pc = "register" /\ s \in SyncRecord /\ s.cur <= mutations /\ Earlier(s.seen) /\ a \in s.todo
      /\ live \in Manifests /\ kept \in Manifests
  BY BusyIs DEF Register, At, Steps, Types
<1>2. UNCHANGED <<fileVars, memoVars>> /\ FileTypes' /\ clock' = clock /\ mutations' = mutations
  BY DEF Register, Types, FileTypes, fileVars
<1>3. PICK c \in {"ready", "register"} : c = IF s.todo = {a} THEN "ready" ELSE s.pc
  BY <1>1
<1>4. PICK t \in SyncRecord : t = [s EXCEPT !.todo = s.todo \ {a}, !.pc = c]
  BY <1>1, <1>3 DEF SyncRecord, Steps
<1>5. /\ t.pc = c /\ t.todo = s.todo \ {a} /\ t.calm = s.calm /\ t.manifest = s.manifest
      /\ t.plan = s.plan /\ t.cur = s.cur /\ t.late = s.late /\ t.seen = s.seen
      /\ t.target = s.target /\ t.need = s.need
  BY <1>1, <1>4 DEF SyncRecord
<1>6. sync' = [Meddling(k) EXCEPT ![k] = t]
  BY <1>3, <1>4 DEF Register
<1>7. /\ SyncTypes' /\ sync'[k] = t
      /\ k = "launch" => sync' = [sync EXCEPT ![k] = t]
      /\ k = "other" => \/ live' = live /\ sync'["launch"] = sync["launch"]
                        \/ sync'["launch"] = Shaken["launch"]
  BY <1>1, <1>2, <1>5, <1>6, Meddles
<1>8. k = "launch" => Goes(k)
  BY <1>1, <1>2, <1>7 DEF Goes
<1>9. t.todo = {} <=> s.todo = {a}
  BY <1>1, <1>5
<1>10. /\ live' \in Manifests /\ kept' \in Manifests
       /\ \A b \in Assets : b # a => live'[b] = live[b]
       /\ s.target[a] # Missing => live'[a] = s.target[a]
  <2>1. CASE s.target[a] = Missing
    BY <1>1, <2>1 DEF Register, runtimeVars
  <2>2. CASE s.target[a] # Missing
    <3>1. s.target[a] \in Hashes
      BY <1>1 DEF SyncRecord, Manifests
    <3>2. live' = [live EXCEPT ![a] = s.target[a]] /\ kept' = [kept EXCEPT ![a] = s.target[a]]
      BY <2>2 DEF Register
    <3> QED
      BY <1>1, <3>1, <3>2 DEF Manifests
  <2> QED
    BY <2>1, <2>2
<1> QED
  BY <1>1, <1>2, <1>3, <1>5, <1>7, <1>8, <1>9, <1>10 DEF SameWork

\* A sync begins or ends.
LEMMA EndsDo ==
    ASSUME AssetSyncAssumption, Types,
           NEW k \in Kinds, NEW t \in {NoSync} \cup SyncRecord,
           t # NoSync => t.cur <= mutations /\ Earlier(t.seen), SyncBecomes(k, t), UNCHANGED fileVars
    PROVE  FileTypes' /\ SyncTypes' /\ sync'[k] = t /\ \A j \in Kinds : j # k => sync'[j] = sync[j]
<1>1. FileTypes' /\ clock' = clock /\ mutations' = mutations /\ SyncTypes
      /\ sync \in [Kinds -> {NoSync} \cup SyncRecord]
  BY DEF Types, FileTypes, fileVars, SyncTypes
<1>2. sync' = [sync EXCEPT ![k] = t]
  BY DEF SyncBecomes
<1> QED
  BY <1>1, <1>2, SyncTypesBecome

LEMMA LaunchDoes ==
    ASSUME AssetSyncAssumption, Types, NEW mode \in {"run", "debug"}, Launch(mode)
    PROVE  /\ FileTypes' /\ SyncTypes' /\ UNCHANGED <<fileVars, memoVars, runtimeVars>>
           /\ sync["launch"] = NoSync
           /\ LET t == sync'["launch"] IN
              /\ t \in SyncRecord /\ t.pc = "list" /\ t.target = NoAssets /\ t.need = {}
              /\ t.plan = typed /\ t.calm = (typed = src)
<1>1. PICK t \in SyncRecord : t = Begun(mode, typed) /\ t.cur <= mutations /\ Earlier(t.seen)
          /\ t.pc = "list" /\ t.target = NoAssets /\ t.need = {}
          /\ t.plan = typed /\ t.calm = (typed = src)
  BY BegunIs, Numbers DEF Types
<1>2. SyncBecomes("launch", t) /\ UNCHANGED <<fileVars, memoVars, runtimeVars>> /\ sync["launch"] = NoSync
  BY <1>1 DEF Launch
<1>3. FileTypes' /\ SyncTypes' /\ sync'["launch"] = t
  BY <1>1, <1>2, EndsDo DEF Kinds
<1> QED
  BY <1>1, <1>2, <1>3

LEMMA OtherDoes ==
    ASSUME AssetSyncAssumption, Types, Other
    PROVE  /\ FileTypes' /\ SyncTypes' /\ UNCHANGED <<fileVars, memoVars, runtimeVars>>
           /\ sync'["launch"] = sync["launch"]
<1>1. PICK t \in SyncRecord : t = Begun("plain", Empty) /\ t.cur <= mutations /\ Earlier(t.seen)
  BY BegunIs, Numbers DEF Types, Empty, Versions
<1>2. SyncBecomes("other", t) /\ UNCHANGED <<fileVars, memoVars, runtimeVars>>
  BY <1>1 DEF Other
<1> QED
  BY <1>1, <1>2, EndsDo DEF Kinds

LEMMA DoneDoes ==
    ASSUME AssetSyncAssumption, Types, NEW k \in Kinds, Done(k)
    PROVE  /\ FileTypes' /\ SyncTypes' /\ UNCHANGED <<fileVars, memoVars, runtimeVars>>
           /\ sync'[k] = NoSync /\ \A j \in Kinds : j # k => sync'[j] = sync[j]
BY EndsDo DEF Done

LEMMA RestartDoes ==
    ASSUME AssetSyncAssumption, Types, Restart
    PROVE  /\ FileTypes' /\ SyncTypes' /\ UNCHANGED <<fileVars, memoVars>>
           /\ live' \in Manifests /\ kept' \in Manifests /\ sync' = Shaken
<1>1. UNCHANGED <<fileVars, memoVars>> /\ live' = NoAssets /\ kept' = kept /\ sync' = Shaken
  BY DEF Restart
<1>2. FileTypes /\ FileTypes' /\ clock' = clock /\ mutations' = mutations /\ SyncTypes
      /\ clock \in Int /\ mutations \in Int
  BY <1>1 DEF Types, FileTypes, fileVars
<1>3. SyncTypes'
  BY <1>1, <1>2, SyncTypesShaken
<1> QED
  BY <1>1, <1>2, <1>3, NothingIs DEF Types, AssetSyncAssumption

LEMMA ReloadDoes ==
    ASSUME AssetSyncAssumption, Types, NEW clear \in BOOLEAN, Reload(clear)
    PROVE  /\ FileTypes' /\ SyncTypes' /\ MemoTypes' /\ live' \in Manifests /\ kept' \in Manifests
           /\ UNCHANGED <<files, src, mutations>> /\ memo' = None /\ persisted' \in {None, persisted}
           /\ sync'["launch"] = NoSync
<1>1. /\ typed' = src /\ memo' = None /\ live' = NoAssets /\ kept' = kept
      /\ persisted' \in {None, persisted} /\ UNCHANGED <<clock, files, src, mutations>>
      /\ sync' = [k \in DOMAIN sync |-> NoSync]
  BY DEF Reload
<1>2. DOMAIN sync = Kinds
  BY DEF Types, SyncTypes
<1>3. sync' \in [Kinds -> {NoSync} \cup SyncRecord] /\ \A k \in Kinds : sync'[k] = NoSync
  BY <1>1, <1>2
<1>4. FileTypes'
  BY <1>1 DEF Types, FileTypes
<1>5. MemoTypes'
  BY <1>1 DEF Types, MemoTypes, Earlier
<1> QED
  BY <1>1, <1>3, <1>4, <1>5, NothingIs DEF Types, AssetSyncAssumption, SyncTypes, Kinds

LEMMA NoAnswerDoes ==
    ASSUME AssetSyncAssumption, Types, NEW k \in Kinds, NoAnswer(k)
    PROVE  /\ sync[k] \in SyncRecord /\ sync[k].pc = "reconcile"
           /\ Lacking(k, Names(sync[k].manifest)) /\ Names(sync[k].manifest) \in SUBSET Assets
           /\ UNCHANGED <<fileVars, memoVars, runtimeVars>>
BY BusyIs DEF NoAnswer, At, Steps, Names

-----------------------------------------------------------------------------
(* The steps of the other syncs, and the types of all. *)

\* The steps of a sync that is under way, whichever it is.
Syncs(k) ==
    \/ List(k) \/ Built(k) \/ NoAnswer(k) \/ Done(k)
    \/ \E a \in Assets : Register(k, a) \/ \E fails \in BOOLEAN : Build(k, a, fails)
    \/ \E found \in SUBSET Assets : Reconcile(k, found)

\* The files and memories stay, and so does the launch, or it is shaken.
Beside ==
    /\ UNCHANGED <<fileVars, memoVars>>
    /\ \/ live' = live /\ sync'["launch"] = sync["launch"]
       \/ sync'["launch"] = Shaken["launch"]

WellTyped == FileTypes' /\ SyncTypes' /\ live' \in Manifests /\ kept' \in Manifests

LEMMA SyncsTypes ==
    ASSUME AssetSyncAssumption, Types, NEW k \in Kinds, Syncs(k)
    PROVE  WellTyped /\ MemoTypes' /\ (k = "other" => Beside)
<1>1. /\ live \in Manifests /\ kept \in Manifests /\ FileTypes /\ MemoTypes
      /\ clock \in Int /\ mutations \in Int
  BY DEF Types, FileTypes
<1>2. ASSUME UNCHANGED fileVars PROVE clock' = clock /\ mutations' = mutations
  BY <1>2 DEF fileVars
<1>3. ASSUME FileTypes', UNCHANGED <<fileVars, memoVars>> PROVE MemoTypes'
  BY <1>1, <1>2, <1>3, MemoTypesKept
<1>4. ASSUME UNCHANGED runtimeVars PROVE live' = live /\ kept' = kept
  BY <1>4 DEF runtimeVars
<1>5. ASSUME Goes(k), k = "other" PROVE sync'["launch"] = sync["launch"] /\ UNCHANGED fileVars
  BY <1>5 DEF Goes, Types, SyncTypes, Kinds
<1>6. CASE List(k)
  BY <1>1, <1>3, <1>4, <1>5, <1>6, ListDoes DEF WellTyped, Beside, Goes
<1>7. CASE Built(k)
  BY <1>1, <1>4, <1>5, <1>7, BuiltDoes DEF WellTyped, Beside
<1>8. CASE NoAnswer(k)
  <2>1. FileTypes' /\ SyncTypes' /\ UNCHANGED <<fileVars, memoVars, runtimeVars>>
        /\ (k = "other" => \/ live' = live /\ sync'["launch"] = sync["launch"]
                           \/ sync'["launch"] = Shaken["launch"])
    BY <1>8, NoAnswerDoes, LackingDoes
  <2> QED
    BY <1>1, <1>3, <1>4, <2>1 DEF WellTyped, Beside
<1>9. CASE Done(k)
  BY <1>1, <1>3, <1>4, <1>9, DoneDoes DEF WellTyped, Beside, Kinds
<1>10. CASE \E a \in Assets : Register(k, a)
  BY <1>3, <1>10, RegisterDoes DEF WellTyped, Beside
<1>11. CASE \E a \in Assets, fails \in BOOLEAN : Build(k, a, fails)
  BY <1>1, <1>3, <1>4, <1>5, <1>11, BuildDoes DEF WellTyped, Beside, Goes
<1>12. CASE \E found \in SUBSET Assets : Reconcile(k, found)
  <2>1. PICK need \in SUBSET Assets : Lacking(k, need) /\ UNCHANGED <<fileVars, memoVars>>
            /\ sync[k].pc = "reconcile" /\ live' \in Manifests /\ kept' \in Manifests
    BY <1>12, ReconcileDoes
  <2>2. FileTypes' /\ SyncTypes'
        /\ (k = "other" => \/ live' = live /\ sync'["launch"] = sync["launch"]
                           \/ sync'["launch"] = Shaken["launch"])
    BY <2>1, LackingDoes
  <2> QED
    BY <1>3, <2>1, <2>2 DEF WellTyped, Beside
<1> QED
  BY <1>6, <1>7, <1>8, <1>9, <1>10, <1>11, <1>12 DEF Syncs

LEMMA NextCases ==
    ASSUME Types, AssetNext
    PROVE  \/ (\E a \in Assets : Write(a) \/ DeleteAsset(a)) \/ TypeSource \/ SaveSource
           \/ \E mode \in {"run", "debug"} : Launch(mode)
           \/ Decide \/ \E f \in Files : Stat(f)
           \/ \E fails \in BOOLEAN : MakePlan(fails)
           \/ Syncs("launch")
           \/ Other \/ Syncs("other")
           \/ Restart \/ \E clear \in BOOLEAN : Reload(clear)
<1>1. DOMAIN sync = {"launch", "other"}
  BY DEF Types, SyncTypes, Kinds
<1> QED
  BY <1>1 DEF AssetNext, Syncs

LEMMA TypesStep == AssetSyncAssumption /\ Types /\ [AssetNext]_assetVars => Types'
<1> SUFFICES ASSUME AssetSyncAssumption, Types, [AssetNext]_assetVars PROVE Types'
  OBVIOUS
<1>1. /\ live \in Manifests /\ kept \in Manifests /\ FileTypes /\ MemoTypes /\ SyncTypes
      /\ clock \in Int /\ mutations \in Int
  BY DEF Types, FileTypes
<1>2. ASSUME FileTypes', UNCHANGED <<fileVars, memoVars>> PROVE MemoTypes'
  <2>1. clock' = clock /\ mutations' = mutations
    BY <1>2 DEF fileVars
  <2> QED
    BY <1>1, <1>2, <2>1, MemoTypesKept
<1>3. ASSUME UNCHANGED runtimeVars PROVE live' \in Manifests /\ kept' \in Manifests
  BY <1>1, <1>3 DEF runtimeVars
<1>4. CASE UNCHANGED assetVars
  BY <1>4 DEF assetVars, fileVars, memoVars, runtimeVars, Types, FileTypes, MemoTypes, SyncTypes,
     Earlier
<1>5. CASE (\E a \in Assets : Write(a) \/ DeleteAsset(a)) \/ TypeSource \/ SaveSource
  <2>1. FileTypes' /\ clock' >= clock /\ mutations' >= mutations /\ sync' = Shaken
        /\ UNCHANGED <<memoVars, runtimeVars, countVars>>
    BY <1>5, TypesChange
  <2>2. SyncTypes'
    BY <1>1, <2>1, SyncTypesShaken
  <2>3. MemoTypes'
    BY <1>1, <2>1, MemoTypesKept
  <2> QED
    BY <1>3, <2>1, <2>2, <2>3 DEF Types
<1>6. CASE \E mode \in {"run", "debug"} : Launch(mode)
  BY <1>2, <1>3, <1>6, LaunchDoes DEF Types
<1>7. CASE Decide
  BY <1>3, <1>7, DecideDoes DEF Types
<1>8. CASE \E f \in Files : Stat(f)
  BY <1>2, <1>3, <1>8, StatDoes DEF Types, Goes
<1>9. CASE \E fails \in BOOLEAN : MakePlan(fails)
  BY <1>2, <1>3, <1>9, MakePlanDoes DEF Types, Goes
<1>10. ASSUME NEW k \in Kinds, Syncs(k) PROVE Types'
  BY <1>10, SyncsTypes DEF Types, WellTyped
<1>11. CASE Other
  BY <1>2, <1>3, <1>11, OtherDoes DEF Types
<1>12. CASE Restart
  BY <1>2, <1>12, RestartDoes DEF Types
<1>13. CASE \E clear \in BOOLEAN : Reload(clear)
  BY <1>13, ReloadDoes DEF Types
<1> QED
  BY <1>4, <1>5, <1>6, <1>7, <1>8, <1>9, <1>10, <1>11, <1>12, <1>13, NextCases DEF Kinds

-----------------------------------------------------------------------------
(* The memories. *)

\* Nothing the memories are of has changed, nor have they.
LEMMA MemoriesKept ==
    ASSUME UNCHANGED <<fileVars, memoVars>>, MemoInv, PersistedInv PROVE MemoInv' /\ PersistedInv'
<1>1. memo' = memo /\ persisted' = persisted /\ files' = files /\ src' = src /\ mutations' = mutations
  BY DEF memoVars, fileVars
<1>2. MemoInv'
  BY <1>1 DEF MemoInv, Right
<1>3. PersistedInv'
  BY <1>1 DEF PersistedInv, Unlisted, Fits
<1> QED
  BY <1>2, <1>3

\* Asset a is what it was, or new, or gone.
Renewed(a) == files'[a] \in {files[a], 0} \/ files'[a] > clock

\* Whatever the project becomes, what an older file was compiled to is right for that
\* file only.
LEMMA FitsStill ==
    ASSUME MaxChanges \in Nat, NEW m, NEW seen \in Seen, Earlier(seen), NEW plan,
           NEW a \in Assets, clock \in Nat, files[a] \in Nat,
           Renewed(a), seen[a] = 0 => m[a] = Missing, Fits(m, seen, plan, a)
    PROVE  Fits(m, seen, plan, a)'
<1>1. seen[a] \in Int /\ seen[a] <= clock
  BY DEF Earlier, Seen, Files
<1>2. CASE files'[a] = files[a]
  BY <1>2 DEF Fits
<1>3. CASE files'[a] = 0
  BY <1>3 DEF Fits, Compiled
<1>4. CASE files'[a] > clock
  BY <1>1, <1>4 DEF Fits
<1> QED
  BY <1>2, <1>3, <1>4 DEF Renewed

\* The files change: what a change leaves and what it renews.
LEMMA ChangeDoes ==
    ASSUME AssetSyncAssumption, Types,
           (\E a \in Assets : Write(a) \/ DeleteAsset(a)) \/ TypeSource \/ SaveSource
    PROVE  /\ \A a \in Assets : Renewed(a)
           /\ \/ mutations' = mutations + 1
              \/ mutations' = mutations /\ files' = files /\ src' = src
<1>1. clock \in Nat /\ files \in [Assets -> 0 .. clock]
  BY DEF Types, FileTypes
<1>2. CASE \E a \in Assets : Write(a)
  <2>1. PICK b \in Assets : Write(b)
    BY <1>2
  <2>2. files' = [files EXCEPT ![b] = clock + 1] /\ mutations' = mutations + 1
    BY <2>1 DEF Write, Change
  <2> QED
    BY <1>1, <2>2 DEF Renewed
<1>3. CASE \E a \in Assets : DeleteAsset(a)
  <2>1. PICK b \in Assets : DeleteAsset(b)
    BY <1>3
  <2>2. files' = [files EXCEPT ![b] = 0] /\ mutations' = mutations + 1
    BY <2>1 DEF DeleteAsset
  <2> QED
    BY <1>1, <2>2 DEF Renewed
<1>4. CASE TypeSource
  BY <1>4 DEF TypeSource, Renewed
<1>5. CASE SaveSource
  BY <1>5 DEF SaveSource, Renewed
<1> QED
  BY <1>2, <1>3, <1>4, <1>5

LEMMA MemoriesChange ==
    ASSUME AssetSyncAssumption, Types, MemoInv, PersistedInv,
           (\E a \in Assets : Write(a) \/ DeleteAsset(a)) \/ TypeSource \/ SaveSource
    PROVE  MemoInv' /\ PersistedInv'
<1>1. memo' = memo /\ persisted' = persisted
  BY TypesChange DEF memoVars
<1>2. MemoInv'
  <2>1. CASE mutations' = mutations /\ files' = files /\ src' = src
    BY <1>1, <2>1 DEF MemoInv, Right
  <2>2. CASE mutations' = mutations + 1
    <3>1. memo # None => memo.mutation <= mutations /\ memo.mutation \in Nat /\ mutations \in Nat
      BY DEF Types, MemoTypes, MemoRecord, FileTypes
    <3> QED
      BY <1>1, <2>2, <3>1 DEF MemoInv
  <2> QED
    BY <2>1, <2>2, ChangeDoes
<1>3. PersistedInv'
  <2> SUFFICES ASSUME persisted # None PROVE PersistedInv'
    BY <1>1 DEF PersistedInv
  <2>1. persisted.seen \in Seen /\ Earlier(persisted.seen) /\ MaxChanges \in Nat
        /\ clock \in Nat /\ \A a \in Assets : files[a] \in Nat
    <3>1. persisted \in PersistedRecord /\ Earlier(persisted.seen)
      BY DEF Types, MemoTypes
    <3>2. persisted.seen \in Seen
      BY <3>1 DEF PersistedRecord
    <3>3. MaxChanges \in Nat /\ clock \in Nat /\ files \in [Assets -> 0 .. clock]
      BY DEF Types, FileTypes, AssetSyncAssumption
    <3> QED
      BY <3>1, <3>2, <3>3
  <2>2. Unlisted(persisted.manifest, persisted.seen)
    BY DEF PersistedInv
  <2>3. ASSUME ~persisted.bad, NEW a \in Assets
        PROVE  Fits(persisted.manifest, persisted.seen, persisted.seen[Source], a)'
    <3>1. PICK m, seen, plan : m = persisted.manifest /\ seen = persisted.seen
              /\ plan = persisted.seen[Source]
      OBVIOUS
    <3>2. Fits(m, seen, plan, a) /\ (seen[a] = 0 => m[a] = Missing)
      BY <2>2, <2>3, <3>1 DEF PersistedInv, Unlisted
    <3>3. Renewed(a)
      BY ChangeDoes
    <3>4. Fits(m, seen, plan, a)'
      BY <2>1, <3>1, <3>2, <3>3, FitsStill
    <3> QED
      BY <1>1, <3>1, <3>4 DEF Fits
  <2> QED
    BY <1>1, <2>2, <2>3 DEF PersistedInv, Unlisted
<1> QED
  BY <1>2, <1>3

\* A memory whose fingerprint is that of the files is right.
LEMMA PersistedIsRight ==
    ASSUME AssetSyncAssumption, Types, PersistedInv, persisted # None, ~persisted.bad,
           persisted.seen = Stats
    PROVE  Right(persisted.manifest)
<1>1. Source \notin Assets
  BY DEF AssetSyncAssumption
<1>2. Stats[Source] = src /\ \A a \in Assets : Stats[a] = files[a]
  BY <1>1 DEF Stats, Files
<1> QED
  BY <1>2 DEF PersistedInv, Fits, Right

LEMMA MemoriesDecide ==
    ASSUME AssetSyncAssumption, Types, MemoInv, PersistedInv, Decide
    PROVE  MemoInv' /\ PersistedInv'
<1>1. /\ persisted' = persisted /\ UNCHANGED fileVars
      /\ files' = files /\ src' = src /\ mutations' = mutations
  BY DecideDoes DEF Goes, fileVars
<1>2. PersistedInv'
  BY <1>1 DEF PersistedInv, Unlisted, Fits
<1>3. CASE memo' = memo
  BY <1>1, <1>2, <1>3 DEF MemoInv, Right
<1>4. CASE memo' # memo
  <2>1. PICK seen : /\ persisted # None /\ persisted.seen = seen
                    /\ memo'.manifest = persisted.manifest /\ memo'.bad = (persisted.bad \/ seen # Stats)
    BY <1>4, DecideDoes
  <2>2. ~memo'.bad => Right(memo'.manifest)
    BY <2>1, PersistedIsRight
  <2> QED
    BY <1>1, <1>2, <2>2 DEF MemoInv, Right
<1> QED
  BY <1>3, <1>4

\* The launch has compiled its assets and keeps the manifest in both memories.
LEMMA MemoriesBuilt ==
    ASSUME AssetSyncAssumption, Types, MemoInv, PersistedInv, LaunchInv, Built("launch")
    PROVE  MemoInv' /\ PersistedInv'
<1> DEFINE s == sync["launch"]
<1>1. /\ s.pc = "build" /\ s.todo = {} /\ s \in SyncRecord
      /\ UNCHANGED fileVars /\ files' = files /\ src' = src /\ mutations' = mutations
  BY BuiltDoes DEF Goes, fileVars, Kinds
<1>2. Compiling(s)
  BY <1>1, RecordIsBusy DEF LaunchInv
<1>3. CASE UNCHANGED memoVars
  BY <1>1, <1>3, MemoriesKept
<1>4. CASE ~UNCHANGED memoVars
  <2>1. /\ s.need = {}
        /\ persisted' # None /\ persisted'.seen = s.seen /\ persisted'.manifest = s.target
        /\ persisted'.bad = (s.bad \/ s.plan # s.seen[Source])
        /\ memo' # None /\ memo'.mutation = s.cur /\ memo'.manifest = s.target
        /\ memo'.bad = (s.bad \/ s.plan # s.seen[Source] \/ s.late)
    BY <1>4, BuiltDoes DEF Kinds
  <2>2. /\ Unlisted(s.target, s.seen)
        /\ ~s.bad => \A a \in Assets : Fits(s.target, s.seen, s.plan, a)
        /\ ~s.late /\ s.cur = mutations => s.seen = Stats
    BY <1>1, <1>2, <2>1 DEF Compiling
  <2>3. PersistedInv'
    BY <1>1, <2>1, <2>2 DEF PersistedInv, Unlisted, Fits
  <2>4. ASSUME ~memo'.bad, memo'.mutation = mutations
        PROVE  Right(s.target)
    <3>1. s.seen = Stats /\ s.plan = s.seen[Source] /\ ~s.bad
      BY <2>1, <2>2, <2>4
    <3>2. Source \notin Assets
      BY DEF AssetSyncAssumption
    <3>3. Stats[Source] = src /\ \A a \in Assets : Stats[a] = files[a]
      BY <3>2 DEF Stats, Files
    <3> QED
      BY <2>2, <3>1, <3>3 DEF Right, Fits
  <2>5. MemoInv'
    BY <1>1, <2>1, <2>4 DEF MemoInv, Right
  <2> QED
    BY <2>3, <2>5
<1> QED
  BY <1>3, <1>4

LEMMA MemoriesStep ==
    ASSUME AssetSyncAssumption, AssetInv, AssetNext PROVE MemoInv' /\ PersistedInv'
<1>1. Types /\ MemoInv /\ PersistedInv /\ LaunchInv
  BY DEF AssetInv
<1>2. CASE (\E a \in Assets : Write(a) \/ DeleteAsset(a)) \/ TypeSource \/ SaveSource
  BY <1>1, <1>2, MemoriesChange
<1>3. CASE \E mode \in {"run", "debug"} : Launch(mode)
  BY <1>1, <1>3, LaunchDoes, MemoriesKept
<1>4. CASE Decide
  BY <1>1, <1>4, MemoriesDecide
<1>5. CASE \E f \in Files : Stat(f)
  BY <1>1, <1>5, StatDoes, MemoriesKept DEF Goes
<1>6. CASE \E fails \in BOOLEAN : MakePlan(fails)
  BY <1>1, <1>6, MakePlanDoes, MemoriesKept DEF Goes
<1>7. CASE Syncs("launch")
  <2>0. "launch" \in Kinds
    BY DEF Kinds
  <2>1. CASE List("launch")
    BY <1>1, <2>0, <2>1, ListDoes, MemoriesKept DEF Goes
  <2>2. CASE Built("launch")
    BY <1>1, <2>2, MemoriesBuilt
  <2>3. CASE NoAnswer("launch")
    BY <1>1, <2>0, <2>3, NoAnswerDoes, MemoriesKept
  <2>4. CASE Done("launch")
    BY <1>1, <2>0, <2>4, DoneDoes, MemoriesKept
  <2>5. CASE \E a \in Assets : Register("launch", a)
    BY <1>1, <2>0, <2>5, RegisterDoes, MemoriesKept
  <2>6. CASE \E a \in Assets, fails \in BOOLEAN : Build("launch", a, fails)
    BY <1>1, <2>0, <2>6, BuildDoes, MemoriesKept DEF Goes
  <2>7. CASE \E found \in SUBSET Assets : Reconcile("launch", found)
    BY <1>1, <2>0, <2>7, ReconcileDoes, MemoriesKept
  <2> QED
    BY <1>7, <2>1, <2>2, <2>3, <2>4, <2>5, <2>6, <2>7 DEF Syncs
<1>8. CASE Other
  BY <1>1, <1>8, OtherDoes, MemoriesKept
<1>9. CASE Syncs("other")
  BY <1>1, <1>9, SyncsTypes, MemoriesKept DEF Kinds, Beside
<1>10. CASE Restart
  BY <1>1, <1>10, RestartDoes, MemoriesKept
<1>11. CASE \E clear \in BOOLEAN : Reload(clear)
  <2>1. UNCHANGED <<files, src, mutations>> /\ memo' = None /\ persisted' \in {None, persisted}
    BY <1>1, <1>11, ReloadDoes
  <2> QED
    BY <1>1, <2>1 DEF MemoInv, PersistedInv, Unlisted, Fits
<1> QED
  BY <1>1, <1>2, <1>3, <1>4, <1>5, <1>6, <1>7, <1>8, <1>9, <1>10, <1>11, NextCases

-----------------------------------------------------------------------------
(* The launch under way, step by step. *)

LEMMA LaunchIs ==
    ASSUME Types, LaunchInv, sync["launch"] \in SyncRecord
    PROVE  Compiling(sync["launch"]) /\ Undisturbed(sync["launch"])
BY RecordIsBusy DEF LaunchInv

\* The project as it is, and after a step of the launch.
LEMMA FilesAre == AssetSyncAssumption /\ FileTypes =>
    /\ Stats[Source] = src /\ Source \in Files
    /\ \A a \in Assets : a \in Files /\ Stats[a] = files[a]
BY DEF AssetSyncAssumption, Stats, Files

LEMMA FilesStay == UNCHANGED fileVars =>
    /\ files' = files /\ src' = src /\ typed' = typed /\ mutations' = mutations /\ Stats' = Stats
BY DEF fileVars, Stats

\* A right manifest lacks only what is not there.
LEMMA RightLacks ==
    ASSUME AssetSyncAssumption, FileTypes, NEW m, Right(m), NEW a \in Assets, m[a] = Missing
    PROVE  files[a] = 0
BY Numbers, CompiledIs DEF Right

\* Nothing is right for what was not there.
LEMMA NothingFits ==
    ASSUME NEW seen, NEW plan, NEW a \in Assets
    PROVE  /\ NoAssets[a] = Missing
           /\ seen[a] = 0 => Fits(NoAssets, seen, plan, a)
           /\ files[a] = 0 => NoAssets[a] = Compiled(a, files[a], src)
BY DEF NoAssets, Fits, Compiled

LEMMA LaunchList ==
    ASSUME AssetSyncAssumption, AssetInv, List("launch") PROVE LaunchInv'
<1> DEFINE s == sync["launch"]
           t == sync'["launch"]
<1>1. /\ UNCHANGED fileVars /\ s \in SyncRecord /\ t \in SyncRecord /\ s.pc = "list"
      /\ SameWork([s EXCEPT !.seen = Listing], t)
      /\ \/ /\ t.pc = "reconcile" /\ memo # None /\ memo.mutation = mutations
            /\ t.manifest = memo.manifest /\ t.calm = (s.calm /\ ~memo.bad)
         \/ /\ t.pc = "stat" /\ t.calm = s.calm
            /\ t.todo = {f \in Files : Stats[f] # 0}
  BY ListDoes DEF AssetInv, Goes, Kinds
<1>2. /\ t.plan = s.plan /\ t.cur = s.cur /\ t.late = s.late /\ t.seen = Listing
      /\ t.target = s.target /\ t.need = s.need
  BY <1>1 DEF SameWork, SyncRecord
<1>3. /\ s.target = NoAssets /\ s.need = {}
      /\ s.calm => typed = src /\ s.plan = src
  BY <1>1, LaunchIs DEF AssetInv, Compiling, Undisturbed, CalmPlan
<1>4. \A f \in Files : Listing[f] = 0 <=> Stats[f] = 0
  BY ListingIs DEF AssetInv
<1>5. files' = files /\ src' = src /\ typed' = typed /\ mutations' = mutations /\ Stats' = Stats
  BY <1>1, FilesStay
<1>6. Compiling(s)'
  BY <1>1, <1>2, <1>3, <1>4 DEF Compiling
<1>7. ASSUME t.calm PROVE CalmPlan(s)' /\ CalmSeen(s)' /\ CalmMade(s)' /\ CalmLoaded(s)'
  <2>1. CalmPlan(s)'
    BY <1>1, <1>2, <1>3, <1>5, <1>7 DEF CalmPlan
  <2>2. CalmSeen(s)'
    BY <1>1, <1>2, <1>4, <1>5 DEF CalmSeen
  <2>3. CalmMade(s)'
    <3>1. t.pc = "reconcile" => Right(t.manifest)
      BY <1>1, <1>7 DEF AssetInv, MemoInv
    <3> QED
      BY <1>1, <1>2, <1>3, <1>5, <3>1 DEF CalmMade, Right
  <2>4. CalmLoaded(s)'
    BY <1>1 DEF CalmLoaded
  <2> QED
    BY <2>1, <2>2, <2>3, <2>4
<1> QED
  BY <1>6, <1>7 DEF LaunchInv, Undisturbed

LEMMA LaunchStat ==
    ASSUME AssetSyncAssumption, AssetInv, NEW f \in Files, Stat(f) PROVE LaunchInv'
<1> DEFINE s == sync["launch"]
           t == sync'["launch"]
<1>1. /\ UNCHANGED fileVars /\ s \in SyncRecord /\ s.pc = "stat" /\ t.pc = "stat" /\ f \in s.todo
      /\ t.todo = s.todo \ {f} /\ t.calm = s.calm
      /\ t.target = s.target /\ t.need = s.need /\ t.plan = s.plan
      /\ t.seen[f] = IF Stats[f] = 0 THEN -1 ELSE Stats[f]
      /\ \A g \in Files : g # f => t.seen[g] = s.seen[g]
  BY StatDoes DEF AssetInv, Goes
<1>2. s.todo \subseteq Files
  BY <1>1 DEF SyncRecord
<1>3. s.target = NoAssets /\ s.need = {} /\ \A g \in s.todo : s.seen[g] # 0
  BY <1>1, LaunchIs DEF AssetInv, Compiling
<1>4. s.calm => /\ typed = src /\ s.plan = src
                /\ \A g \in Files : s.seen[g] = 0 <=> Stats[g] = 0
                /\ \A g \in Files \ s.todo : s.seen[g] = Stats[g]
  BY <1>1, LaunchIs DEF AssetInv, Undisturbed, CalmPlan, CalmSeen
<1>5. files' = files /\ src' = src /\ typed' = typed /\ mutations' = mutations /\ Stats' = Stats
  BY <1>1, FilesStay
<1>6. Compiling(s)'
  BY <1>1, <1>2, <1>3 DEF Compiling
<1>7. ASSUME t.calm PROVE CalmPlan(s)' /\ CalmSeen(s)' /\ CalmMade(s)' /\ CalmLoaded(s)'
  <2>1. CalmPlan(s)'
    BY <1>1, <1>4, <1>5, <1>7 DEF CalmPlan
  <2>2. \A g \in Files : t.seen[g] = 0 <=> Stats[g] = 0
    BY <1>1, <1>3, <1>4, <1>7
  <2>3. \A g \in Files \ t.todo : t.seen[g] = Stats[g]
    BY <1>1, <1>3, <1>4, <1>7
  <2>4. CalmSeen(s)' /\ CalmMade(s)' /\ CalmLoaded(s)'
    BY <1>1, <1>3, <1>5, <2>2, <2>3 DEF CalmSeen, CalmMade, CalmLoaded
  <2> QED
    BY <2>1, <2>4
<1> QED
  BY <1>6, <1>7 DEF LaunchInv, Undisturbed

LEMMA LaunchDecide ==
    ASSUME AssetSyncAssumption, AssetInv, Decide PROVE LaunchInv'
<1> DEFINE s == sync["launch"]
           t == sync'["launch"]
<1>1. /\ UNCHANGED fileVars /\ s \in SyncRecord /\ s.pc = "stat" /\ s.todo = {}
      /\ t.plan = s.plan /\ t.seen = s.seen /\ t.target = s.target /\ t.need = s.need
      /\ \/ /\ persisted # None /\ persisted.seen = s.seen
            /\ t.pc = "reconcile" /\ t.manifest = persisted.manifest
            /\ t.calm = (s.calm /\ ~persisted.bad)
         \/ /\ t.pc \in {"plan", "build"} /\ t.todo = {a \in Assets : s.seen[a] # 0}
            /\ t.calm = s.calm /\ t.cur = mutations /\ t.late = (s.seen # Stats)
  BY DecideDoes DEF AssetInv, Goes
<1>2. s.target = NoAssets /\ s.need = {}
  BY <1>1, LaunchIs DEF AssetInv, Compiling
<1>3. s.calm => typed = src /\ s.plan = src /\ s.seen = Stats
  <2>1. s.calm => typed = src /\ s.plan = src /\ \A g \in Files : s.seen[g] = Stats[g]
    BY <1>1, LaunchIs DEF AssetInv, Undisturbed, CalmPlan, CalmSeen
  <2>2. DOMAIN s.seen = Files /\ s.seen = [g \in Files |-> s.seen[g]]
    BY <1>1 DEF SyncRecord, Seen
  <2> QED
    BY <2>1, <2>2 DEF Stats
<1>4. files' = files /\ src' = src /\ typed' = typed /\ mutations' = mutations /\ Stats' = Stats
  BY <1>1, FilesStay
<1>5. t.pc = "build" => /\ Unlisted(t.target, t.seen)
                        /\ \A a \in Assets \ t.todo : Fits(t.target, t.seen, t.plan, a)
  BY <1>1, <1>2, NothingFits DEF Unlisted
<1>6. Compiling(s)'
  BY <1>1, <1>2, <1>4, <1>5 DEF Compiling, Unlisted, Fits
<1>7. ASSUME t.calm PROVE CalmPlan(s)' /\ CalmSeen(s)' /\ CalmMade(s)' /\ CalmLoaded(s)'
  <2>1. CalmPlan(s)'
    BY <1>1, <1>3, <1>4, <1>7 DEF CalmPlan
  <2>2. CalmSeen(s)' /\ CalmLoaded(s)'
    BY <1>1, <1>2, <1>3, <1>4, <1>7 DEF CalmSeen, CalmLoaded
  <2>3. t.pc = "reconcile" => Right(t.manifest)
    BY <1>1, <1>3, <1>7, PersistedIsRight DEF AssetInv
  <2>4. ASSUME t.pc = "build", NEW a \in Assets \ t.todo
        PROVE  t.target[a] = Compiled(a, files[a], src)
    <3>1. s.seen[a] = 0
      BY <1>1, <2>4
    <3>2. files[a] = 0
      BY <1>1, <1>3, <1>7, <2>4, <3>1, FilesAre DEF AssetInv, Types
    <3> QED
      BY <1>1, <1>2, <3>2, NothingFits
  <2>5. CalmMade(s)'
    BY <1>1, <1>2, <1>4, <2>3, <2>4 DEF CalmMade, Right
  <2> QED
    BY <2>1, <2>2, <2>5
<1> QED
  BY <1>6, <1>7 DEF LaunchInv, Undisturbed

LEMMA LaunchMakePlan ==
    ASSUME AssetSyncAssumption, AssetInv, NEW fails \in BOOLEAN, MakePlan(fails) PROVE LaunchInv'
<1> DEFINE s == sync["launch"]
           t == sync'["launch"]
<1>1. /\ UNCHANGED <<fileVars, runtimeVars>> /\ s \in SyncRecord
      /\ s.pc = "plan" /\ t.pc = "build" /\ (t.calm => s.calm /\ t.plan = typed)
      /\ t.todo = s.todo /\ t.seen = s.seen /\ t.target = s.target /\ t.need = s.need
      /\ t.cur = s.cur /\ t.late = s.late /\ t.manifest = s.manifest
  BY MakePlanDoes DEF AssetInv, Goes
<1>2. /\ s.target = NoAssets /\ s.todo = {a \in Assets : s.seen[a] # 0}
      /\ s.need = {} /\ ~s.late /\ s.cur = mutations => s.seen = Stats
  BY <1>1, LaunchIs DEF AssetInv, Compiling
<1>3. s.calm => /\ typed = src /\ \A g \in Files : s.seen[g] = 0 <=> Stats[g] = 0
                /\ s.need # {} => Right(s.manifest) /\ Loaded(Assets \ s.need)
  BY <1>1, LaunchIs DEF AssetInv, Undisturbed, CalmPlan, CalmSeen, CalmMade, CalmLoaded
<1>4. /\ files' = files /\ src' = src /\ typed' = typed /\ mutations' = mutations /\ Stats' = Stats
      /\ live' = live
  BY <1>1, FilesStay DEF runtimeVars
<1>5. /\ Unlisted(t.target, t.seen)
      /\ \A a \in Assets \ t.todo : Fits(t.target, t.seen, t.plan, a)
  BY <1>1, <1>2, NothingFits DEF Unlisted
<1>6. Compiling(s)'
  BY <1>1, <1>2, <1>4, <1>5 DEF Compiling, Unlisted, Fits
<1>7. ASSUME t.calm PROVE CalmPlan(s)' /\ CalmSeen(s)' /\ CalmMade(s)' /\ CalmLoaded(s)'
  <2>1. CalmPlan(s)' /\ CalmSeen(s)'
    BY <1>1, <1>3, <1>4, <1>7 DEF CalmPlan, CalmSeen
  <2>2. CalmLoaded(s)'
    BY <1>1, <1>3, <1>4, <1>7 DEF CalmLoaded, Loaded
  <2>3. \A a \in Assets \ t.todo : t.target[a] = Compiled(a, files[a], src)
    BY <1>1, <1>2, <1>3, <1>7, NothingFits, FilesAre DEF AssetInv, Types
  <2>4. CalmMade(s)'
    BY <1>1, <1>3, <1>4, <1>7, <2>3 DEF CalmMade, Right
  <2> QED
    BY <2>1, <2>2, <2>4
<1> QED
  BY <1>6, <1>7 DEF LaunchInv, Undisturbed

LEMMA LaunchBuild ==
    ASSUME AssetSyncAssumption, AssetInv, NEW a \in Assets, NEW fails \in BOOLEAN,
           Build("launch", a, fails)
    PROVE  LaunchInv'
<1> DEFINE s == sync["launch"]
           t == sync'["launch"]
<1>1. /\ UNCHANGED <<fileVars, runtimeVars>> /\ s \in SyncRecord
      /\ s.pc = "build" /\ t.pc = "build" /\ a \in s.todo /\ t.todo = s.todo \ {a}
      /\ t.plan = s.plan /\ t.seen = s.seen /\ t.cur = s.cur /\ t.late = s.late
      /\ t.need = s.need /\ t.manifest = s.manifest
      /\ t.bad = (s.bad \/ fails) /\ t.calm = (s.calm /\ ~fails)
      /\ ~fails => t.target[a] = Compiled(a, files[a], s.plan)
      /\ \A b \in Assets : b # a => t.target[b] = s.target[b]
  BY BuildDoes DEF AssetInv, Goes, Kinds
<1>2. /\ s.todo \subseteq {b \in Assets : s.seen[b] # 0}
      /\ Unlisted(s.target, s.seen)
      /\ ~s.bad => \A b \in Assets \ s.todo : Fits(s.target, s.seen, s.plan, b)
      /\ s.need = {} /\ ~s.late /\ s.cur = mutations => s.seen = Stats
  BY <1>1, LaunchIs DEF AssetInv, Compiling
<1>3. s.calm => /\ typed = src /\ s.plan = src /\ \A g \in Files : s.seen[g] = 0 <=> Stats[g] = 0
                /\ \A b \in Assets \ s.todo : s.target[b] = Compiled(b, files[b], src)
                /\ s.need # {} => Right(s.manifest) /\ Loaded(Assets \ s.need)
  BY <1>1, LaunchIs DEF AssetInv, Undisturbed, CalmPlan, CalmSeen, CalmMade, CalmLoaded
<1>4. /\ files' = files /\ src' = src /\ typed' = typed /\ mutations' = mutations /\ Stats' = Stats
      /\ live' = live
  BY <1>1, FilesStay DEF runtimeVars
<1>5. Unlisted(t.target, t.seen)
  BY <1>1, <1>2 DEF Unlisted
<1>6. ASSUME ~t.bad, NEW b \in Assets \ t.todo PROVE Fits(t.target, t.seen, t.plan, b)
  <2>1. ~fails /\ ~s.bad
    BY <1>1, <1>6
  <2>2. CASE b = a
    BY <1>1, <2>1, <2>2 DEF Fits
  <2>3. CASE b # a
    BY <1>1, <1>2, <2>1, <2>3, <1>6 DEF Fits
  <2> QED
    BY <2>2, <2>3
<1>7. Compiling(s)'
  BY <1>1, <1>2, <1>4, <1>5, <1>6 DEF Compiling, Unlisted, Fits
<1>8. ASSUME t.calm PROVE CalmPlan(s)' /\ CalmSeen(s)' /\ CalmMade(s)' /\ CalmLoaded(s)'
  <2>1. CalmPlan(s)' /\ CalmSeen(s)'
    BY <1>1, <1>3, <1>4, <1>8 DEF CalmPlan, CalmSeen
  <2>2. CalmLoaded(s)'
    BY <1>1, <1>3, <1>4, <1>8 DEF CalmLoaded, Loaded
  <2>3. \A b \in Assets \ t.todo : t.target[b] = Compiled(b, files[b], src)
    BY <1>1, <1>3, <1>8
  <2>4. CalmMade(s)'
    BY <1>1, <1>3, <1>4, <1>8, <2>3 DEF CalmMade, Right
  <2> QED
    BY <2>1, <2>2, <2>4
<1> QED
  BY <1>7, <1>8 DEF LaunchInv, Undisturbed

LEMMA LaunchBuilt ==
    ASSUME AssetSyncAssumption, AssetInv, Built("launch") PROVE LaunchInv'
<1> DEFINE s == sync["launch"]
           t == sync'["launch"]
<1>1. /\ UNCHANGED <<fileVars, runtimeVars>> /\ s \in SyncRecord /\ s.pc = "build" /\ s.todo = {}
      /\ SameWork(s, t) /\ t.calm = s.calm
      /\ \/ s.need # {} /\ t.pc = "register" /\ t.todo = s.need /\ t.manifest = s.manifest
         \/ s.need = {} /\ t.pc = "reconcile" /\ t.manifest = s.target
  BY BuiltDoes DEF AssetInv, Goes, Kinds
<1>2. s.calm => /\ typed = src /\ s.plan = src /\ \A g \in Files : s.seen[g] = 0 <=> Stats[g] = 0
                /\ Right(s.target)
                /\ s.need # {} => Right(s.manifest) /\ Loaded(Assets \ s.need)
  BY <1>1, LaunchIs DEF AssetInv, Undisturbed, CalmPlan, CalmSeen, CalmMade, CalmLoaded, Right
<1>3. /\ files' = files /\ src' = src /\ typed' = typed /\ mutations' = mutations /\ Stats' = Stats
      /\ live' = live
  BY <1>1, FilesStay DEF runtimeVars
<1>4. Compiling(s)'
  BY <1>1 DEF Compiling, SameWork
<1>5. ASSUME t.calm PROVE CalmPlan(s)' /\ CalmSeen(s)' /\ CalmMade(s)' /\ CalmLoaded(s)'
  <2>1. CalmPlan(s)' /\ CalmSeen(s)'
    BY <1>1, <1>2, <1>3, <1>5 DEF CalmPlan, CalmSeen, SameWork
  <2>2. CalmLoaded(s)'
    BY <1>1, <1>2, <1>3, <1>5 DEF CalmLoaded, Loaded, SameWork
  <2>3. CalmMade(s)'
    BY <1>1, <1>2, <1>3, <1>5 DEF CalmMade, Right, SameWork
  <2> QED
    BY <2>1, <2>2, <2>3
<1> QED
  BY <1>4, <1>5 DEF LaunchInv, Undisturbed

\* The runtime lacks what `need` says, or at least holds all the rest as it should.
LEMMA LaunchLacks ==
    ASSUME AssetSyncAssumption, AssetInv, sync["launch"].pc = "reconcile",
           NEW need \in SUBSET Assets, Lacking("launch", need), UNCHANGED fileVars,
           \A a \in Assets : a \notin need =>
               \/ sync["launch"].manifest[a] = Missing
               \/ live'[a] = sync["launch"].manifest[a]
    PROVE  LaunchInv'
<1> DEFINE s == sync["launch"]
           t == sync'["launch"]
<1>1. /\ s \in SyncRecord
      /\ t.plan = s.plan /\ t.cur = s.cur /\ t.late = s.late /\ t.seen = s.seen
      /\ t.target = s.target /\ t.calm = s.calm /\ t.manifest = s.manifest /\ t.bad = s.bad
      /\ \/ need = {} /\ t.pc = "ready" /\ t.need = s.need
         \/ /\ need # {} /\ t.need = need
            /\ \/ s.target # NoAssets /\ t.pc = "register" /\ t.todo = need
               \/ /\ s.target = NoAssets /\ t.pc \in {"plan", "build"}
                  /\ t.todo = {a \in Assets : s.seen[a] # 0}
  BY LackingDoes DEF AssetInv, Kinds
<1>2. s.calm => /\ typed = src /\ s.plan = src /\ \A g \in Files : s.seen[g] = 0 <=> Stats[g] = 0
                /\ Right(s.manifest) /\ (s.target = NoAssets \/ Right(s.target))
  BY <1>1, LaunchIs DEF AssetInv, Undisturbed, CalmPlan, CalmSeen, CalmMade
<1>3. files' = files /\ src' = src /\ typed' = typed /\ mutations' = mutations /\ Stats' = Stats
  BY FilesStay
<1>4. t.pc = "build" => /\ Unlisted(t.target, t.seen)
                        /\ \A a \in Assets \ t.todo : Fits(t.target, t.seen, t.plan, a)
  BY <1>1, NothingFits DEF Unlisted
<1>5. Compiling(s)'
  BY <1>1, <1>3, <1>4 DEF Compiling, Unlisted, Fits
<1>6. ASSUME t.calm PROVE CalmPlan(s)' /\ CalmSeen(s)' /\ CalmMade(s)' /\ CalmLoaded(s)'
  <2>1. CalmPlan(s)' /\ CalmSeen(s)'
    BY <1>1, <1>2, <1>3, <1>6 DEF CalmPlan, CalmSeen
  <2>2. Loaded(Assets \ need)'
    <3>1. ASSUME NEW a \in Assets \ need, files[a] # 0 PROVE live'[a] = Compiled(a, files[a], src)
      BY <1>1, <1>2, <1>6, <3>1, RightLacks DEF AssetInv, Types, Right
    <3> QED
      BY <1>3, <3>1 DEF Loaded
  <2>3. CalmLoaded(s)'
    BY <1>1, <2>2 DEF CalmLoaded, Loaded
  <2>4. t.pc = "build" => \A a \in Assets \ t.todo : t.target[a] = Compiled(a, files[a], src)
    BY <1>1, <1>2, <1>6, NothingFits, FilesAre DEF AssetInv, Types
  <2>5. CalmMade(s)'
    BY <1>1, <1>2, <1>3, <1>6, <2>4 DEF CalmMade, Right
  <2> QED
    BY <2>1, <2>3, <2>5
<1> QED
  BY <1>5, <1>6 DEF LaunchInv, Undisturbed

LEMMA LaunchReconcile ==
    ASSUME AssetSyncAssumption, AssetInv, NEW found \in SUBSET Assets, Reconcile("launch", found)
    PROVE  LaunchInv'
<1>1. PICK need \in SUBSET Assets :
        /\ sync["launch"].pc = "reconcile" /\ Lacking("launch", need) /\ UNCHANGED fileVars
        /\ \A a \in Assets : a \notin need => \/ sync["launch"].manifest[a] = Missing
                                             \/ live'[a] = sync["launch"].manifest[a]
  BY ReconcileDoes DEF AssetInv, Kinds
<1> QED
  BY <1>1, LaunchLacks

LEMMA LaunchNoAnswer ==
    ASSUME AssetSyncAssumption, AssetInv, NoAnswer("launch") PROVE LaunchInv'
<1>1. PICK need \in SUBSET Assets :
        /\ sync["launch"].pc = "reconcile" /\ Lacking("launch", need) /\ UNCHANGED fileVars
        /\ need = Names(sync["launch"].manifest)
  BY NoAnswerDoes DEF AssetInv, Kinds
<1>2. \A a \in Assets : a \notin need => sync["launch"].manifest[a] = Missing
  BY <1>1 DEF Names
<1> QED
  BY <1>1, <1>2, LaunchLacks

LEMMA LaunchRegister ==
    ASSUME AssetSyncAssumption, AssetInv, NEW a \in Assets, Register("launch", a) PROVE LaunchInv'
<1> DEFINE s == sync["launch"]
           t == sync'["launch"]
<1>1. /\ UNCHANGED fileVars /\ s \in SyncRecord
      /\ s.pc = "register" /\ a \in s.todo /\ t.todo = s.todo \ {a} /\ t.calm = s.calm
      /\ t.pc = IF t.todo = {} THEN "ready" ELSE "register"
      /\ SameWork(s, t) /\ t.manifest = s.manifest
      /\ \A b \in Assets : b # a => live'[b] = live[b]
      /\ s.target[a] # Missing => live'[a] = s.target[a]
  BY RegisterDoes DEF AssetInv, Goes, Kinds
<1>2. s.calm => /\ typed = src /\ s.plan = src
                /\ Right(s.manifest) /\ Right(s.target) /\ Loaded(Assets \ s.todo)
  BY <1>1, LaunchIs DEF AssetInv, Undisturbed, CalmPlan, CalmMade, CalmLoaded
<1>3. files' = files /\ src' = src /\ typed' = typed /\ mutations' = mutations /\ Stats' = Stats
  BY <1>1, FilesStay
<1>4. Compiling(s)'
  BY <1>1 DEF Compiling
<1>5. ASSUME t.calm PROVE CalmPlan(s)' /\ CalmSeen(s)' /\ CalmMade(s)' /\ CalmLoaded(s)'
  <2>1. CalmPlan(s)' /\ CalmSeen(s)'
    BY <1>1, <1>2, <1>3, <1>5 DEF CalmPlan, CalmSeen, SameWork
  <2>2. CalmMade(s)'
    BY <1>1, <1>2, <1>3, <1>5 DEF CalmMade, Right, SameWork
  <2>3. ASSUME NEW b \in Assets \ t.todo, files[b] # 0 PROVE live'[b] = Compiled(b, files[b], src)
    <3>1. CASE b = a
      BY <1>1, <1>2, <1>5, <2>3, <3>1, RightLacks DEF AssetInv, Types, Right
    <3>2. CASE b # a
      BY <1>1, <1>2, <1>5, <2>3, <3>2 DEF Loaded
    <3> QED
      BY <3>1, <3>2
  <2>4. CalmLoaded(s)'
    BY <1>1, <1>3, <2>3 DEF CalmLoaded, Loaded
  <2> QED
    BY <2>1, <2>2, <2>4
<1> QED
  BY <1>4, <1>5 DEF LaunchInv, Undisturbed

\* The project changes: what was compiled stays right for what it was compiled of.
LEMMA LaunchChange ==
    ASSUME AssetSyncAssumption, AssetInv,
           (\E a \in Assets : Write(a) \/ DeleteAsset(a)) \/ TypeSource \/ SaveSource
    PROVE  LaunchInv'
<1> DEFINE s == sync["launch"]
           t == sync'["launch"]
<1> SUFFICES ASSUME t # NoSync PROVE Compiling(s)' /\ ~t.calm
  BY DEF LaunchInv, Undisturbed
<1>1. sync' = Shaken /\ sync \in [Kinds -> {NoSync} \cup SyncRecord]
  BY TypesChange DEF AssetInv, Types, SyncTypes
<1>2. s \in SyncRecord /\ s # NoSync /\ t = [s EXCEPT !.calm = FALSE]
  BY <1>1, ShakenIs DEF Kinds
<1>3. /\ t.pc = s.pc /\ t.mode = s.mode /\ t.plan = s.plan /\ t.seen = s.seen /\ t.cur = s.cur
      /\ t.late = s.late /\ t.bad = s.bad /\ t.target = s.target /\ t.manifest = s.manifest
      /\ t.need = s.need /\ t.todo = s.todo /\ ~t.calm
  BY <1>2, ShakenFields
<1>4. Compiling(s)
  BY <1>2, LaunchIs DEF AssetInv
<1>5. /\ s.cur \in Nat /\ s.cur <= mutations /\ mutations \in Nat /\ s.seen \in Seen
      /\ Earlier(s.seen) /\ MaxChanges \in Nat /\ clock \in Nat /\ \A a \in Assets : files[a] \in Nat
  <2>1. s.cur <= mutations /\ Earlier(s.seen)
    BY <1>2 DEF AssetInv, Types, SyncTypes, Kinds
  <2>2. /\ mutations \in Nat /\ MaxChanges \in Nat /\ clock \in Nat
        /\ files \in [Assets -> 0 .. clock]
    BY DEF AssetInv, Types, FileTypes, AssetSyncAssumption
  <2>3. s.cur \in Nat /\ s.seen \in Seen
    BY <1>2 DEF SyncRecord
  <2> QED
    BY <2>1, <2>2, <2>3
<1>6. /\ \A a \in Assets : Renewed(a)
      /\ \/ mutations' = mutations + 1
         \/ mutations' = mutations /\ files' = files /\ src' = src
  BY ChangeDoes DEF AssetInv
<1>7. ASSUME s.pc = "build", ~s.bad, NEW a \in Assets \ s.todo
      PROVE  Fits(s.target, s.seen, s.plan, a)'
  <2>1. PICK m, seen, plan : m = s.target /\ seen = s.seen /\ plan = s.plan
    OBVIOUS
  <2>2. Fits(m, seen, plan, a) /\ (seen[a] = 0 => m[a] = Missing)
    BY <1>4, <1>7, <2>1 DEF Compiling, Unlisted
  <2>3. Fits(m, seen, plan, a)'
    BY <1>5, <1>6, <2>1, <2>2, FitsStill
  <2> QED
    BY <1>3, <2>1, <2>3 DEF Fits
<1>8. ASSUME s.pc \in {"plan", "build"}, s.need = {}, ~s.late, s.cur = mutations'
      PROVE  s.seen = Stats'
  <2>1. s.cur = mutations /\ Stats' = Stats
    BY <1>5, <1>6, <1>8 DEF Stats
  <2> QED
    BY <1>4, <1>8, <2>1 DEF Compiling
<1>9. Compiling(s)'
  BY <1>3, <1>4, <1>7, <1>8 DEF Compiling, Unlisted, Fits
<1> QED
  BY <1>3, <1>9

\* The launch stays what it is, or is shaken.
LEMMA LaunchBeside ==
    ASSUME AssetSyncAssumption, AssetInv, UNCHANGED fileVars,
           \/ live' = live /\ sync'["launch"] = sync["launch"]
           \/ sync'["launch"] = Shaken["launch"]
    PROVE  LaunchInv'
<1> DEFINE s == sync["launch"]
           t == sync'["launch"]
<1>1. files' = files /\ src' = src /\ typed' = typed /\ mutations' = mutations /\ Stats' = Stats
  BY FilesStay
<1>2. CASE live' = live /\ t = s
  <2>1. Compiling(s)' <=> Compiling(s)
    BY <1>1, <1>2 DEF Compiling, Unlisted, Fits
  <2>2. CalmPlan(s)' <=> CalmPlan(s)
    BY <1>1, <1>2 DEF CalmPlan
  <2>3. CalmSeen(s)' <=> CalmSeen(s)
    BY <1>1, <1>2 DEF CalmSeen
  <2>4. CalmMade(s)' <=> CalmMade(s)
    BY <1>1, <1>2 DEF CalmMade, Right
  <2>5. CalmLoaded(s)' <=> CalmLoaded(s)
    BY <1>1, <1>2 DEF CalmLoaded, Loaded
  <2> QED
    BY <1>2, <2>1, <2>2, <2>3, <2>4, <2>5 DEF AssetInv, LaunchInv, Undisturbed
<1>3. CASE t = Shaken["launch"]
  <2> SUFFICES ASSUME t # NoSync PROVE Compiling(s)' /\ ~t.calm
    BY DEF LaunchInv, Undisturbed
  <2>1. sync \in [Kinds -> {NoSync} \cup SyncRecord]
    BY DEF AssetInv, Types, SyncTypes
  <2>2. s \in SyncRecord /\ t = [s EXCEPT !.calm = FALSE]
    BY <1>3, <2>1, ShakenIs DEF Kinds
  <2>3. /\ t.pc = s.pc /\ t.mode = s.mode /\ t.plan = s.plan /\ t.seen = s.seen /\ t.cur = s.cur
        /\ t.late = s.late /\ t.bad = s.bad /\ t.target = s.target /\ t.manifest = s.manifest
        /\ t.need = s.need /\ t.todo = s.todo /\ ~t.calm
    BY <2>2, ShakenFields
  <2>4. Compiling(s)
    BY <2>2, LaunchIs DEF AssetInv
  <2>5. Compiling(s)'
    BY <1>1, <2>3, <2>4 DEF Compiling, Unlisted, Fits
  <2> QED
    BY <2>3, <2>5
<1> QED
  BY <1>2, <1>3

LEMMA LaunchBegins ==
    ASSUME AssetSyncAssumption, AssetInv, NEW mode \in {"run", "debug"}, Launch(mode)
    PROVE  LaunchInv'
<1> DEFINE s == sync["launch"]
           t == sync'["launch"]
<1>1. /\ UNCHANGED fileVars /\ t.pc = "list" /\ t.target = NoAssets /\ t.need = {}
      /\ t.plan = typed /\ t.calm = (typed = src)
  BY LaunchDoes DEF AssetInv
<1>2. Compiling(s)'
  BY <1>1 DEF Compiling
<1>3. t.calm => CalmPlan(s)' /\ CalmSeen(s)' /\ CalmMade(s)' /\ CalmLoaded(s)'
  BY <1>1, FilesStay DEF CalmPlan, CalmSeen, CalmMade, CalmLoaded
<1> QED
  BY <1>2, <1>3 DEF LaunchInv, Undisturbed

LEMMA LaunchStep == ASSUME AssetSyncAssumption, AssetInv, AssetNext PROVE LaunchInv'
<1>1. Types
  BY DEF AssetInv
<1>2. CASE (\E a \in Assets : Write(a) \/ DeleteAsset(a)) \/ TypeSource \/ SaveSource
  BY <1>2, LaunchChange
<1>3. CASE \E mode \in {"run", "debug"} : Launch(mode)
  BY <1>3, LaunchBegins
<1>4. CASE Decide
  BY <1>4, LaunchDecide
<1>5. CASE \E f \in Files : Stat(f)
  BY <1>5, LaunchStat
<1>6. CASE \E fails \in BOOLEAN : MakePlan(fails)
  BY <1>6, LaunchMakePlan
<1>7. CASE Syncs("launch")
  <2>1. ASSUME Done("launch") PROVE LaunchInv'
    BY <1>1, <2>1, DoneDoes DEF LaunchInv, Kinds
  <2> QED
    BY <1>7, <2>1, LaunchList, LaunchBuilt, LaunchNoAnswer, LaunchRegister, LaunchBuild,
       LaunchReconcile DEF Syncs
<1>8. CASE Other
  <2>1. UNCHANGED fileVars /\ live' = live /\ sync'["launch"] = sync["launch"]
    BY <1>1, <1>8, OtherDoes DEF runtimeVars
  <2> QED
    BY <2>1, LaunchBeside
<1>9. CASE Syncs("other")
  <2>1. Beside
    BY <1>1, <1>9, SyncsTypes DEF Kinds
  <2> QED
    BY <2>1, LaunchBeside DEF Beside
<1>10. CASE Restart
  BY <1>1, <1>10, RestartDoes, LaunchBeside
<1>11. CASE \E clear \in BOOLEAN : Reload(clear)
  BY <1>1, <1>11, ReloadDoes DEF LaunchInv
<1> QED
  BY <1>1, <1>2, <1>3, <1>4, <1>5, <1>6, <1>7, <1>8, <1>9, <1>10, <1>11, NextCases

-----------------------------------------------------------------------------
(* The theorems. *)

LEMMA AssetInvInit == AssetSyncAssumption /\ AssetInit => AssetInv
<1> SUFFICES ASSUME AssetSyncAssumption, AssetInit PROVE AssetInv
  OBVIOUS
<1>1. memo = None /\ persisted = None /\ sync["launch"] = NoSync
  BY DEF AssetInit
<1> QED
  BY <1>1, TypesInit DEF AssetInv, MemoInv, PersistedInv, LaunchInv

LEMMA AssetInvStep == AssetSyncAssumption /\ AssetInv /\ [AssetNext]_assetVars => AssetInv'
<1> SUFFICES ASSUME AssetSyncAssumption, AssetInv, [AssetNext]_assetVars PROVE AssetInv'
  OBVIOUS
<1>1. Types'
  BY TypesStep DEF AssetInv
<1>2. CASE AssetNext
  BY <1>1, <1>2, MemoriesStep, LaunchStep DEF AssetInv
<1>3. CASE UNCHANGED assetVars
  <2>1. UNCHANGED <<fileVars, memoVars>> /\ live' = live /\ sync'["launch"] = sync["launch"]
    BY <1>3 DEF assetVars, runtimeVars
  <2> QED
    BY <1>1, <2>1, MemoriesKept, LaunchBeside DEF AssetInv
<1> QED
  BY <1>2, <1>3

\* The types of the project, the two memories, the runtime and the syncs under way.
THEOREM TypeOKHolds == ASSUME AssetSyncAssumption PROVE AssetSpec => []AssetTypeOK
<1>1. AssetInv => AssetTypeOK
  <2> SUFFICES ASSUME AssetInv PROVE AssetTypeOK
    OBVIOUS
  <2>1. /\ clock \in Versions /\ files \in [Assets -> Versions] /\ {src, typed} \subseteq Versions
        /\ mutations \in Nat
    <3>1. files \in [Assets -> 0 .. clock] /\ mutations \in Nat /\ Types
      BY DEF AssetInv, Types, FileTypes
    <3> QED
      BY <3>1, Numbers DEF Types
  <2>2. memo.known => memo.mutation \in 0 .. mutations /\ memo.manifest \in Manifests
    <3>1. memo = None \/ (memo \in MemoRecord /\ memo.mutation <= mutations)
      BY DEF AssetInv, Types, MemoTypes
    <3>2. CASE memo = None
      BY <3>2 DEF None
    <3>3. CASE memo \in MemoRecord /\ memo.mutation <= mutations
      BY <2>1, <3>3 DEF MemoRecord
    <3> QED
      BY <3>1, <3>2, <3>3
  <2>3. persisted.known => persisted.seen \in Seen /\ persisted.manifest \in Manifests
    <3>1. persisted = None \/ persisted \in PersistedRecord
      BY DEF AssetInv, Types, MemoTypes
    <3>2. CASE persisted = None
      BY <3>2 DEF None
    <3>3. CASE persisted \in PersistedRecord
      BY <3>3 DEF PersistedRecord
    <3> QED
      BY <3>1, <3>2, <3>3
  <2>4. live \in Manifests /\ kept \in Manifests
    BY DEF AssetInv, Types
  <2>5. ASSUME NEW k \in DOMAIN sync, sync[k] # NoSync
        PROVE  /\ sync[k].pc \in Steps /\ sync[k].mode \in {"run", "debug", "plain"}
               /\ sync[k].seen \in Seen /\ sync[k].plan \in Versions
               /\ sync[k].target \in Manifests /\ sync[k].manifest \in Manifests
               /\ sync[k].need \subseteq Assets /\ sync[k].todo \subseteq Files
    <3>1. sync[k] \in SyncRecord
      BY <2>5 DEF AssetInv, Types, SyncTypes
    <3> QED
      BY <3>1 DEF SyncRecord
  <2> QED
    BY <2>1, <2>2, <2>3, <2>4, <2>5 DEF AssetTypeOK
<1> QED
  BY <1>1, AssetInvInit, AssetInvStep, PTL DEF AssetSpec

\* A program begins with every asset of the project registered, compiled from the file
\* as it is and by the plan of the source as it is, whichever memory its launch trusted
\* and whatever became of page, runtime and store since (main.ts syncAssetsToRuntime).
THEOREM LaunchFindsItsAssetsHolds ==
    ASSUME AssetSyncAssumption PROVE AssetSpec => []LaunchFindsItsAssets
<1>1. AssetInv => LaunchFindsItsAssets
  <2> SUFFICES ASSUME AssetInv, At("launch", "ready"), sync["launch"].calm
               PROVE  \A a \in Assets : files[a] # 0 => live[a] = Compiled(a, files[a], src)
    BY DEF LaunchFindsItsAssets
  <2>1. sync["launch"].pc = "ready" /\ sync["launch"] \in SyncRecord
    BY BusyIs DEF At, Steps, Kinds, AssetInv
  <2>2. CalmLoaded(sync["launch"])
    BY <2>1, LaunchIs DEF AssetInv, Undisturbed
  <2> QED
    BY <2>1, <2>2 DEF CalmLoaded, Loaded
<1> QED
  BY <1>1, AssetInvInit, AssetInvStep, PTL DEF AssetSpec
=============================================================================
