-------------------------- MODULE GuestMirrorProofs --------------------------
(***************************************************************************)
(* Proofs about GuestMirror, for any paths, any number of changes, with or *)
(* without failing operations and resynchronisation.  The argument is per  *)
(* path: as long as no two activities met on a path, whatever is wrong     *)
(* with its file is still on its way to be put right.                      *)
(***************************************************************************)
EXTENDS GuestMirror, TLAPS

-----------------------------------------------------------------------------
(* The stretches of a handler. *)

\* The next stretch deletes the path q.
Deletes(s, q, dels, adds) ==
    /\ q \in dels
    /\ s.op = DeleteOp(q)
    /\ s.dels = dels \ {q}
    /\ s.adds = adds

\* The next stretch writes what the entry of q says; of the additions it drops
\* only q and those without an entry.
Writes(s, q, dels, adds, val, con) ==
    /\ q \in adds /\ val[q] # None
    /\ dels = {} /\ s.dels = {}
    /\ s.op = WriteOp(q, val[q], con[q][val[q]])
    /\ s.adds \subseteq adds \ {q}
    /\ \A p \in adds \ {q} : val[p] # None => p \in s.adds

\* What a stretch of a handler is: a deletion, or the write of an addition.
LEMMA StretchKinds ==
    ASSUME NEW dels, NEW adds, NEW val, NEW con,
           NEW s \in Stretches(dels, adds, val, con)
    PROVE  \E q \in dels \cup adds :
              Deletes(s, q, dels, adds) \/ Writes(s, q, dels, adds, val, con)
<1>1. CASE dels # {}
  <2>1. PICK q \in dels : s = [op |-> DeleteOp(q), dels |-> dels \ {q}, adds |-> adds]
    BY <1>1, SMT DEF Stretches
  <2> QED
    BY <2>1, SMT DEF Deletes
<1>2. CASE dels = {}
  <2> DEFINE here == {p \in adds : val[p] # None}
  <2>1. PICK q \in here, gone \in SUBSET (adds \ here) :
           s = [op |-> WriteOp(q, val[q], con[q][val[q]]), dels |-> {},
                adds |-> adds \ (gone \cup {q})]
    BY <1>2, SMT DEF Stretches
  <2>2. \A p \in adds \ {q} : val[p] # None => p \in s.adds
    BY <2>1, SMT
  <2>3. /\ s.op = WriteOp(q, val[q], con[q][val[q]])
        /\ s.dels = {}
        /\ s.adds \subseteq adds \ {q}
    BY <2>1, SMT
  <2> QED
    BY <1>2, <2>1, <2>2, <2>3, Zenon DEF Writes
<1> QED
  BY <1>1, <1>2

\* A handler ends only when nothing is left to delete or to write.
LEMMA NoStretch ==
    ASSUME NEW dels, NEW adds, NEW val, NEW con,
           Stretches(dels, adds, val, con) = {}
    PROVE  dels = {} /\ \A p \in adds : val[p] = None
<1>1. ASSUME NEW q \in dels PROVE FALSE
  <2>1. [op |-> DeleteOp(q), dels |-> dels \ {q}, adds |-> adds]
           \in Stretches(dels, adds, val, con)
    BY <1>1, SMT DEF Stretches
  <2> QED
    BY <2>1
<1>2. ASSUME NEW p \in adds, val[p] # None PROVE FALSE
  <2>1. [op |-> WriteOp(p, val[p], con[p][val[p]]), dels |-> {},
         adds |-> adds \ ({} \cup {p})] \in Stretches(dels, adds, val, con)
    <3>1. {} \in SUBSET (adds \ {x \in adds : val[x] # None}) /\ dels = {}
      BY <1>1
    <3> QED
      BY <1>2, <3>1, SMT DEF Stretches
  <2> QED
    BY <2>1
<1> QED
  BY <1>1, <1>2

-----------------------------------------------------------------------------
(* Types. *)

Runs == [id : Stamps, op : Ops, dels : SUBSET Paths, adds : SUBSET Paths]

LEMMA OpTypes ==
    /\ \A p \in Paths : DeleteOp(p) \in Ops
    /\ \A p \in Paths, v \in 0 .. MaxChanges, c \in Says : WriteOp(p, v, c) \in Ops
BY MirrorAssumption, SMT DEF Ops, DeleteOp, WriteOp, Home, Absent, None, Says

\* A stretch of a handler that was well typed is well typed.
LEMMA StretchTypes ==
    ASSUME NEW dels \in SUBSET Paths, NEW adds \in SUBSET Paths,
           NEW val \in [Paths -> 0 .. MaxChanges],
           NEW con \in [Paths -> [Stamps -> Says]],
           NEW s \in Stretches(dels, adds, val, con)
    PROVE  s.op \in Ops /\ s.dels \in SUBSET Paths /\ s.adds \in SUBSET Paths
<1>1. PICK q \in dels \cup adds :
         Deletes(s, q, dels, adds) \/ Writes(s, q, dels, adds, val, con)
  BY StretchKinds
<1>2. CASE Deletes(s, q, dels, adds)
  BY <1>1, <1>2, OpTypes, Zenon DEF Deletes
<1>3. CASE Writes(s, q, dels, adds, val, con)
  <2>1. val[q] \in Stamps
    BY <1>3, MirrorAssumption, SMT DEF Writes, Stamps, None
  <2>2. con[q][val[q]] \in Says /\ val[q] \in 0 .. MaxChanges
    BY <1>1, <2>1, SMT
  <2>3. s.op \in Ops
    <3>1. q \in Paths /\ s.op = WriteOp(q, val[q], con[q][val[q]])
      BY <1>1, <1>3, Zenon DEF Writes
    <3> QED
      BY <2>2, <3>1, OpTypes, Zenon
  <2> QED
    BY <1>3, <2>3, Zenon DEF Writes
<1> QED
  BY <1>1, <1>2, <1>3

\* A completed operation leaves well-typed files.
LEMMA EffectTypes ==
    ASSUME TypeOK, NEW o \in Ops, Effect(o)
    PROVE  /\ disk' \in [Paths -> {Absent} \cup Says]
           /\ own' \in [Paths -> {"mine", "overwritten", "deleted"}]
BY SMT DEF TypeOK, Effect, Ops

LEMMA InstalledTypes ==
    ASSUME TypeOK, NEW o \in Ops
    PROVE  /\ Installed(o) \in [Paths -> 0 .. MaxChanges]
           /\ \A p \in Paths : observer[p] # None => Installed(o)[p] # None
BY SMT DEF TypeOK, Installed, Ops

\* The type invariant holds initially.
LEMMA TypeInit ==
    ASSUME Init
    PROVE  TypeOK
BY MirrorAssumption, SMT DEF Init, TypeOK, Says, Absent, None, Stamps

LEMMA TypeEvent ==
    ASSUME TypeOK, NEW dels \in SUBSET Paths, NEW adds \in SUBSET Paths,
           MapEvent(dels, adds)
    PROVE  TypeOK'
<1>1. clock + 1 \in Stamps /\ clock' = clock + 1 /\ clock' \in 0 .. MaxChanges
  BY MirrorAssumption, SMT DEF TypeOK, MapEvent, Stamps
<1>2. value' \in [Paths -> 0 .. MaxChanges]
  BY <1>1, MirrorAssumption, SMT DEF TypeOK, MapEvent, Stamps, None
<1>3. content' \in [Paths -> [Stamps -> Says]]
  BY <1>1, MirrorAssumption, SMT DEF TypeOK, MapEvent, Stamps, Says
<1>4. PICK r \in Stretches(dels, adds, value', content') :
         /\ runs' = runs \cup
               {[id |-> clock + 1, op |-> r.op, dels |-> r.dels, adds |-> r.adds]}
         /\ observer' = [p \in Paths |->
               IF p \in Unobserved(r.op) THEN None ELSE observer[p]]
         /\ timer' = [p \in Paths |-> timer[p] /\ p \notin Unobserved(r.op)]
         /\ raced' = raced \cup {p \in dels \cup adds :
               \/ Outstanding(p)
               \/ p = r.op.path /\ Busy(p)
               \/ p \in Texts \cap adds /\ value[p] # None}
  BY Zenon DEF MapEvent
<1>5. r.op \in Ops /\ r.dels \in SUBSET Paths /\ r.adds \in SUBSET Paths
  BY <1>2, <1>3, StretchTypes
<1>6. runs' \subseteq Runs
  BY <1>1, <1>4, <1>5, SMT DEF TypeOK, Runs
<1>7. observer' \in [Paths -> 0 .. MaxChanges] /\ timer' \in [Paths -> BOOLEAN]
  BY <1>4, MirrorAssumption, SMT DEF TypeOK, None
<1>9. ASSUME NEW p \in Paths, timer'[p] PROVE observer'[p] # None
  <2>1. timer[p] /\ p \notin Unobserved(r.op)
    BY <1>4, <1>9, Zenon
  <2>2. observer'[p] = observer[p]
    BY <1>4, <2>1, Zenon
  <2> QED
    BY <2>1, <2>2, Zenon DEF TypeOK
<1>8. UNCHANGED <<disk, own, stage, writes>> /\ raced' \subseteq Paths
  BY <1>4, SMT DEF MapEvent, TypeOK
<1> QED
  BY <1>1, <1>2, <1>3, <1>6, <1>7, <1>8, <1>9, Zenon DEF TypeOK, Runs

\* A handler whose operation ended is at its own end.
Ends(r, fails) ==
    /\ Stretches(r.dels, r.adds, value, content) = {}
    /\ runs' = runs \ {r}
    /\ observer' = Installed(r.op)
    /\ timer' = timer
    /\ raced' = raced \cup {p \in {r.op.path} : fails}

\* Or it runs on to its next stretch.
RunsOn(r, s, fails) ==
    /\ runs' = (runs \ {r}) \cup {[id |-> r.id, op |-> s.op, dels |-> s.dels, adds |-> s.adds]}
    /\ observer' = [p \in Paths |->
          IF p \in Unobserved(s.op) THEN None ELSE Installed(r.op)[p]]
    /\ timer' = [p \in Paths |-> timer[p] /\ p \notin Unobserved(s.op)]
    /\ raced' = raced \cup {p \in {r.op.path} : fails}
          \cup {p \in {s.op.path} :
                 \E o \in {x.op : x \in runs \ {r}} \cup writes : o.path = p}

LEMMA ResumeKinds ==
    ASSUME NEW r \in runs, NEW fails \in BOOLEAN, Resume(r, fails)
    PROVE  \/ Ends(r, fails)
           \/ \E s \in Stretches(r.dels, r.adds, value, content) : RunsOn(r, s, fails)
BY Zenon DEF Resume, Ends, RunsOn

LEMMA TypeResume ==
    ASSUME TypeOK, NEW r \in runs, NEW fails \in BOOLEAN, Resume(r, fails)
    PROVE  TypeOK'
<1>1. r \in Runs /\ r.op \in Ops /\ r.dels \in SUBSET Paths /\ r.adds \in SUBSET Paths
  BY SMT DEF TypeOK, Runs
<1>2. UNCHANGED <<clock, value, content, stage, writes>>
  BY Zenon DEF Resume
<1>3. /\ disk' \in [Paths -> {Absent} \cup Says]
      /\ own' \in [Paths -> {"mine", "overwritten", "deleted"}]
  <2>1. CASE Effect(r.op)
    BY <1>1, <2>1, EffectTypes
  <2>2. CASE UNCHANGED <<disk, own>>
    BY <2>2, Zenon DEF TypeOK
  <2> QED
    BY <2>1, <2>2, Zenon DEF Resume
<1>4. r.op.path \in Paths
  BY <1>1, SMT DEF Ops
<1>5. CASE Ends(r, fails)
  <2>1. runs' \subseteq Runs /\ raced' \subseteq Paths /\ timer' = timer
    BY <1>4, <1>5, SMT DEF Ends, TypeOK, Runs
  <2>2. /\ observer' \in [Paths -> 0 .. MaxChanges]
        /\ \A p \in Paths : timer'[p] => observer'[p] # None
    BY <1>1, <1>5, <2>1, InstalledTypes, Zenon DEF Ends, TypeOK
  <2> QED
    BY <1>2, <1>3, <2>1, <2>2, Zenon DEF TypeOK, Runs
<1>6. ASSUME NEW s \in Stretches(r.dels, r.adds, value, content), RunsOn(r, s, fails)
      PROVE  TypeOK'
  <2>1. s.op \in Ops /\ s.dels \in SUBSET Paths /\ s.adds \in SUBSET Paths
    BY <1>1, StretchTypes, Zenon DEF TypeOK
  <2>2. s.op.path \in Paths
    BY <2>1, SMT DEF Ops
  <2>3. runs' \subseteq Runs
    <3>1. [id |-> r.id, op |-> s.op, dels |-> s.dels, adds |-> s.adds] \in Runs
      BY <1>1, <2>1, SMT DEF Runs
    <3> QED
      BY <1>6, <3>1, SMT DEF RunsOn, TypeOK, Runs
  <2>4. raced' \subseteq Paths
    BY <1>4, <1>6, <2>2, Zenon DEF RunsOn, TypeOK
  <2>5. Installed(r.op) \in [Paths -> 0 .. MaxChanges]
    BY <1>1, InstalledTypes
  <2>6. observer' \in [Paths -> 0 .. MaxChanges]
    BY <1>6, <2>5, MirrorAssumption, SMT DEF RunsOn, None
  <2>7. timer' \in [Paths -> BOOLEAN]
    BY <1>6, Zenon DEF RunsOn, TypeOK
  <2>8. ASSUME NEW p \in Paths, timer'[p] PROVE observer'[p] # None
    <3>1. timer[p] /\ p \notin Unobserved(s.op)
      BY <1>6, <2>8, Zenon DEF RunsOn
    <3>2. observer'[p] = Installed(r.op)[p]
      BY <1>6, <3>1, Zenon DEF RunsOn
    <3> QED
      BY <1>1, <3>1, <3>2, InstalledTypes, Zenon DEF TypeOK
  <2> QED
    BY <1>2, <1>3, <2>3, <2>4, <2>6, <2>7, <2>8, Zenon DEF TypeOK, Runs
<1> QED
  BY <1>5, <1>6, ResumeKinds

LEMMA TypeStep ==
    ASSUME TypeOK, [Next]_vars
    PROVE  TypeOK'
<1>1. ASSUME NEW p \in Paths, Edit(p) PROVE TypeOK'
  <2>1. clock + 1 \in Stamps /\ clock' = clock + 1 /\ clock' \in 0 .. MaxChanges
    BY <1>1, MirrorAssumption, SMT DEF TypeOK, Edit, Stamps
  <2>2. content' \in [Paths -> [Stamps -> Says]] /\ raced' \subseteq Paths
    BY <1>1, <2>1, SMT DEF TypeOK, Edit, Stamps, Says, None
  <2>3. timer' \in [Paths -> BOOLEAN]
    BY <1>1, Zenon DEF TypeOK, Edit
  <2>4. ASSUME NEW q \in Paths, timer'[q] PROVE observer'[q] # None
    <3>1. timer[q] \/ (q = p /\ observer[p] = value[p])
      BY <1>1, <2>4, Zenon DEF TypeOK, Edit
    <3> QED
      BY <1>1, <3>1, Zenon DEF TypeOK, Edit
  <2> QED
    BY <1>1, <2>1, <2>2, <2>3, <2>4, Zenon DEF TypeOK, Edit
<1>2. ASSUME NEW p \in Paths, TimerFires(p) PROVE TypeOK'
  <2>1. observer[p] \in Stamps
    BY <1>2, MirrorAssumption, SMT DEF TypeOK, TimerFires, Stamps, None
  <2>2. WriteOp(p, observer[p], content[p][observer[p]]) \in Ops
    BY <2>1, MirrorAssumption, OpTypes, SMT DEF TypeOK, Stamps
  <2>3. writes' \subseteq Ops /\ raced' \subseteq Paths
    BY <1>2, <2>2, SMT DEF TypeOK, TimerFires
  <2>4. timer' \in [Paths -> BOOLEAN] /\ \A q \in Paths : timer'[q] => timer[q]
    BY <1>2, Zenon DEF TypeOK, TimerFires
  <2> QED
    BY <1>2, <2>3, <2>4, Zenon DEF TypeOK, TimerFires
<1>3. ASSUME NEW dels \in SUBSET Paths, NEW adds \in SUBSET Paths, MapEvent(dels, adds)
      PROVE  TypeOK'
  BY <1>3, TypeEvent
<1>4. ASSUME NEW r \in runs, NEW fails \in BOOLEAN, Resume(r, fails) PROVE TypeOK'
  BY <1>4, TypeResume
<1>5. ASSUME NEW o \in writes, NEW fails \in BOOLEAN, WriteDone(o, fails) PROVE TypeOK'
  <2>1. o \in Ops /\ o.path \in Paths
    BY SMT DEF TypeOK, Ops
  <2>2. /\ disk' \in [Paths -> {Absent} \cup Says]
        /\ own' \in [Paths -> {"mine", "overwritten", "deleted"}]
    <3>1. CASE Effect(o)
      BY <2>1, <3>1, EffectTypes
    <3>2. CASE UNCHANGED <<disk, own>>
      BY <3>2, Zenon DEF TypeOK
    <3> QED
      BY <1>5, <3>1, <3>2, Zenon DEF WriteDone
  <2>3. writes' \subseteq Ops /\ raced' \subseteq Paths
    BY <1>5, <2>1, SMT DEF TypeOK, WriteDone
  <2> QED
    BY <1>5, <2>2, <2>3, Zenon DEF TypeOK, WriteDone
<1>6. CASE Leave
  <2>1. observer' \in [Paths -> 0 .. MaxChanges]
    BY <1>6, MirrorAssumption, SMT DEF Leave, None
  <2>2. timer' \in [Paths -> BOOLEAN] /\ \A p \in Paths : ~timer'[p]
    BY <1>6, Zenon DEF Leave
  <2> QED
    BY <1>6, <2>1, <2>2, Zenon DEF TypeOK, Leave
<1>7. CASE SwitchBack
  BY <1>7, Zenon DEF TypeOK, SwitchBack
<1>8. CASE RemoveTransient
  BY <1>8, Zenon DEF TypeOK, RemoveTransient
<1>9. CASE UNCHANGED vars
  BY <1>9, Zenon DEF TypeOK, vars
<1> QED
  BY <1>1, <1>2, <1>3, <1>4, <1>5, <1>6, <1>7, <1>8, <1>9, Zenon DEF Next

\* Every variable of the mirror keeps its type, and an armed timer belongs to
\* an observed text.
THEOREM MirrorTypes == Spec => []TypeOK
<1>1. Init => TypeOK
  BY TypeInit
<1>2. TypeOK /\ [Next]_vars => TypeOK'
  BY TypeStep
<1> QED
  BY <1>1, <1>2, PTL DEF Spec

-----------------------------------------------------------------------------
(* Why a settled path is right. *)

\* While the session lives its operations go to its own project, and the
\* debounced writes do so for good; the timers end with the session.
HomeInv ==
    /\ stage = "live" => \A r \in runs : r.op.home = "session"
    /\ \A o \in writes : o.home = "session"
    /\ stage # "live" => \A p \in Paths : ~timer[p]

\* A handler still has to delete p, to add p; it deletes, or writes p right now.
ToDelete(p) == \E r \in runs : p \in r.dels
ToAdd(p) == \E r \in runs : p \in r.adds
Deleting(p) == \E r \in runs : r.op.path = p /\ r.op.kind = "delete"
Writing(p) == \E r \in runs : r.op.path = p /\ r.op.kind = "write"

\* What the document says of p.
Truth(p) == content[p][value[p]]

\* What handlers do about p is still called for.
HandlersAreRight(p) ==
    \A r \in runs :
        /\ p \in r.dels => value[p] = None
        /\ r.op.path = p /\ r.op.kind = "delete" => value[p] = None
        /\ r.op.path = p /\ r.op.kind = "write" =>
               value[p] # None /\ r.op.stamp = value[p] /\ r.op.says = Truth(p)

\* An observer watches the text in the document, or is about to go; a text
\* without one is about to get one.
ObserverIsRight(p) ==
    p \in Texts =>
        /\ observer[p] # None => observer[p] = value[p] \/ ToDelete(p)
        /\ value[p] # None /\ observer[p] = None => ToAdd(p) \/ Writing(p)

\* A debounced write brings what the text says, or another one will follow, or
\* the file will be deleted.
WriteIsRight(p) ==
    \A o \in writes : o.path = p =>
        /\ value[p] # None => /\ o.says = Truth(p) \/ timer[p]
                              /\ observer[p] = value[p]
        /\ value[p] = None => ToDelete(p)

\* A file that is not as the document says is on its way to be.
FileIsRight(p) ==
    /\ value[p] = None /\ disk[p] # Absent => ToDelete(p) \/ Deleting(p)
    /\ value[p] # None /\ disk[p] # Truth(p) =>
          \/ timer[p] \/ ToAdd(p) \/ Writing(p)
          \/ \E o \in writes : o.path = p /\ o.says = Truth(p)

\* Only texts are observed and written by the debounce, and a deletion leaves
\* nothing.
ShapeInv ==
    /\ \A o \in writes : o.path \in Texts
    /\ \A p \in Paths : observer[p] # None => p \in Texts
    /\ \A r \in runs : r.op.kind = "delete" => r.op.says = Absent

PathInv(p) ==
    /\ HandlersAreRight(p)
    /\ ObserverIsRight(p)
    /\ WriteIsRight(p)
    /\ FileIsRight(p)

MirrorInv ==
    /\ TypeOK
    /\ HomeInv
    /\ ShapeInv
    /\ stage = "live" => \A p \in Paths \ raced : PathInv(p)

-----------------------------------------------------------------------------
(* The invariant is inductive: one lemma per action, for one path. *)

LEMMA EditKeepsPath ==
    ASSUME MirrorInv, stage = "live", NEW q \in Paths, Edit(q),
           NEW p \in Paths, p \notin raced'
    PROVE  PathInv(p)'
<1>1. /\ PathInv(p)
      /\ UNCHANGED <<value, disk, runs, observer, writes>>
  BY Zenon DEF MirrorInv, Edit
<1>2. CASE p # q
  <2>1. content'[p] = content[p] /\ timer'[p] = timer[p]
    BY <1>2, Zenon DEF Edit, MirrorInv, TypeOK
  <2> QED
    BY <1>1, <2>1, Zenon DEF PathInv, HandlersAreRight, ObserverIsRight, WriteIsRight,
       FileIsRight, Truth, ToDelete, ToAdd, Deleting, Writing
<1>3. CASE p = q
  <2>1. ~Outstanding(p) /\ value[p] # None /\ p \in Texts
    BY <1>3, Zenon DEF Edit
  <2>2. timer'[p] = (timer[p] \/ observer[p] = value[p])
    BY <1>3, Zenon DEF Edit, MirrorInv, TypeOK
  <2>3. \A r \in runs : p \notin r.dels /\ r.op.path # p
    BY <2>1, Zenon DEF Outstanding
  <2>4. HandlersAreRight(p)' /\ ObserverIsRight(p)'
    BY <1>1, <2>1, <2>3, Zenon DEF PathInv, HandlersAreRight, ObserverIsRight, ToDelete, ToAdd, Writing
  <2>5. ~ToDelete(p) /\ ~Writing(p)
    BY <2>3, Zenon DEF ToDelete, Writing
  <2>6. timer'[p] \/ ToAdd(p)
    BY <1>1, <2>1, <2>2, <2>5, Zenon DEF PathInv, ObserverIsRight
  <2>7. WriteIsRight(p)'
    <3>1. ASSUME NEW o \in writes, o.path = p
          PROVE  observer[p] = value[p]
      BY <1>1, <2>1, <3>1, Zenon DEF PathInv, WriteIsRight
    <3> QED
      BY <1>1, <2>1, <2>2, <3>1, Zenon DEF WriteIsRight
  <2>8. FileIsRight(p)'
    BY <1>1, <2>1, <2>6, Zenon DEF FileIsRight, ToAdd
  <2> QED
    BY <2>4, <2>7, <2>8, Zenon DEF PathInv
<1> QED
  BY <1>2, <1>3

LEMMA TimerKeepsPath ==
    ASSUME MirrorInv, stage = "live", NEW q \in Paths, TimerFires(q),
           NEW p \in Paths, p \notin raced'
    PROVE  PathInv(p)'
<1> DEFINE new == WriteOp(q, observer[q], content[q][observer[q]])
<1>1. /\ PathInv(p)
      /\ UNCHANGED <<value, content, disk, runs, observer>>
      /\ writes' = writes \cup {new}
      /\ new.path = q /\ new.says = content[q][observer[q]]
  BY SMT DEF MirrorInv, TimerFires, WriteOp
<1> HIDE DEF new
<1>2. HandlersAreRight(p)' /\ ObserverIsRight(p)'
  BY <1>1, Zenon DEF PathInv, HandlersAreRight, ObserverIsRight, Truth, ToDelete, ToAdd, Writing
<1>3. CASE p # q
  <2>1. timer'[p] = timer[p]
    BY <1>3, Zenon DEF TimerFires, MirrorInv, TypeOK
  <2>2. \A o \in writes' : o.path = p => o \in writes
    BY <1>1, <1>3, SMT
  <2>3. WriteIsRight(p)'
    BY <1>1, <2>1, <2>2, Zenon DEF PathInv, WriteIsRight, Truth, ToDelete
  <2>4. FileIsRight(p)'
    <3>1. writes \subseteq writes'
      BY <1>1
    <3> QED
      BY <1>1, <2>1, <3>1, Zenon DEF PathInv, FileIsRight, Truth, ToDelete, ToAdd, Deleting, Writing
  <2> QED
    BY <1>2, <2>3, <2>4, Zenon DEF PathInv
<1>4. CASE p = q
  <2>1. ~Busy(p)
    BY <1>4, Zenon DEF TimerFires
  <2>2. \A o \in writes : o.path # p
    BY <2>1, Zenon DEF Busy, InFlight
  <2>3. timer[p] /\ observer[p] # None /\ p \in Texts
    BY <1>4, Zenon DEF TimerFires, MirrorInv, ShapeInv, TypeOK
  <2>4. observer[p] = value[p] \/ ToDelete(p)
    BY <1>1, <2>3, Zenon DEF PathInv, ObserverIsRight
  <2>5. ToDelete(p) => value[p] = None
    BY <1>1, Zenon DEF PathInv, HandlersAreRight, ToDelete
  <2>6. value[p] # None => observer[p] = value[p] /\ new.says = Truth(p)
    BY <1>1, <1>4, <2>4, <2>5, Zenon DEF Truth
  <2>7. value[p] = None => ToDelete(p)
    BY <2>3, <2>4, Zenon
  <2>8. WriteIsRight(p)'
    <3>1. \A o \in writes' : o.path = p => o = new
      BY <1>1, <2>2, SMT
    <3> QED
      BY <1>1, <2>6, <2>7, <3>1, Zenon DEF WriteIsRight, Truth, ToDelete
  <2>9. FileIsRight(p)'
    <3>1. new \in writes'
      BY <1>1
    <3> QED
      BY <1>1, <1>4, <2>6, <2>7, <3>1, Zenon DEF FileIsRight, Truth, ToDelete
  <2> QED
    BY <1>2, <2>8, <2>9, Zenon DEF PathInv
<1> QED
  BY <1>3, <1>4

\* A completed operation of the session leaves its text in its file, and no
\* other file changes.
LEMMA EffectOnFile ==
    ASSUME TypeOK, stage = "live", NEW o \in Ops, o.home = "session", Effect(o),
           NEW p \in Paths
    PROVE  disk'[p] = IF p = o.path THEN o.says ELSE disk[p]
BY SMT DEF TypeOK, Effect

LEMMA WriteDoneKeepsPath ==
    ASSUME MirrorInv, stage = "live", NEW w \in writes, NEW fails \in BOOLEAN,
           WriteDone(w, fails), NEW p \in Paths, p \notin raced'
    PROVE  PathInv(p)'
<1>1. /\ PathInv(p)
      /\ UNCHANGED <<value, content, runs, observer, timer>>
      /\ writes' = writes \ {w}
  BY Zenon DEF MirrorInv, WriteDone
<1>2. w \in Ops /\ w.home = "session"
  BY Zenon DEF MirrorInv, HomeInv, TypeOK
<1>3. HandlersAreRight(p)' /\ ObserverIsRight(p)' /\ WriteIsRight(p)'
  BY <1>1, Zenon DEF PathInv, HandlersAreRight, ObserverIsRight, WriteIsRight, Truth,
     ToDelete, ToAdd, Writing
<1>4. CASE w.path # p
  <2>1. disk'[p] = disk[p]
    <3>1. CASE Effect(w)
      BY <1>2, <1>4, <3>1, EffectOnFile DEF MirrorInv
    <3>2. CASE UNCHANGED disk
      BY <3>2
    <3> QED
      BY <3>1, <3>2, Zenon DEF WriteDone
  <2>2. \A o \in writes : o.path = p => o \in writes'
    BY <1>1, <1>4
  <2>3. FileIsRight(p)'
    BY <1>1, <2>1, <2>2, Zenon DEF PathInv, FileIsRight, Truth, ToDelete, ToAdd, Deleting, Writing
  <2> QED
    BY <1>3, <2>3, Zenon DEF PathInv
<1>5. CASE w.path = p
  <2>1. ~fails
    BY <1>5, Zenon DEF WriteDone
  <2>2. disk'[p] = w.says
    BY <1>2, <1>5, <2>1, EffectOnFile, Zenon DEF WriteDone, MirrorInv
  <2>3. value[p] = None => ToDelete(p)
    BY <1>1, <1>5, Zenon DEF PathInv, WriteIsRight
  <2>4. value[p] # None => w.says = Truth(p) \/ timer[p]
    BY <1>1, <1>5, Zenon DEF PathInv, WriteIsRight
  <2>5. FileIsRight(p)'
    BY <1>1, <2>2, <2>3, <2>4, Zenon DEF FileIsRight, Truth, ToDelete
  <2> QED
    BY <1>3, <2>5, Zenon DEF PathInv
<1> QED
  BY <1>4, <1>5

\* An event on other paths leaves the document and the activities on p alone;
\* at most a handler with nothing to do about p starts.
LEMMA EventElsewhere ==
    ASSUME MirrorInv, stage = "live", NEW dels \in SUBSET Paths, NEW adds \in SUBSET Paths,
           MapEvent(dels, adds), NEW p \in Paths, p \notin raced', p \notin dels \cup adds
    PROVE  PathInv(p)'
<1>1. PICK s \in Stretches(dels, adds, value', content') :
         /\ runs' = runs \cup
               {[id |-> clock + 1, op |-> s.op, dels |-> s.dels, adds |-> s.adds]}
         /\ observer' = [x \in Paths |->
               IF x \in Unobserved(s.op) THEN None ELSE observer[x]]
         /\ timer' = [x \in Paths |-> timer[x] /\ x \notin Unobserved(s.op)]
         /\ raced \subseteq raced'
  BY Zenon DEF MapEvent
<1> DEFINE new == [id |-> clock + 1, op |-> s.op, dels |-> s.dels, adds |-> s.adds]
<1>2. PICK q \in dels \cup adds :
         Deletes(s, q, dels, adds) \/ Writes(s, q, dels, adds, value', content')
  BY StretchKinds
<1>3. /\ new.op.path # p /\ p \notin new.dels /\ p \notin new.adds
      /\ s.op.path # p
  <2>1. CASE Deletes(s, q, dels, adds)
    BY <2>1, SMT DEF Deletes, DeleteOp
  <2>2. CASE Writes(s, q, dels, adds, value', content')
    BY <2>2, SMT DEF Writes, WriteOp
  <2> QED
    BY <1>2, <2>1, <2>2
<1>4. runs' = runs \cup {new} /\ new \in runs'
  BY <1>1
<1> HIDE DEF new
<1>5. p \notin Unobserved(s.op)
  BY <1>3, Zenon DEF Unobserved
<1>6. observer'[p] = observer[p] /\ timer'[p] = timer[p]
  BY <1>1, <1>5, Zenon DEF MirrorInv, TypeOK
<1>7. value'[p] = value[p] /\ UNCHANGED <<disk, writes>>
  BY SMT DEF MapEvent
<1>8. Truth(p)' = Truth(p)
  <2>1. value[p] \in 0 .. MaxChanges /\ content[p] \in [Stamps -> Says] /\ clock + 1 \in Stamps
    BY MirrorAssumption, SMT DEF MirrorInv, TypeOK, MapEvent, Stamps
  <2>2. content' = [x \in Paths |-> [t \in Stamps |->
           IF x \in adds /\ t = clock + 1 THEN t
           ELSE IF x \in Texts \cap (dels \cup adds) THEN 0
           ELSE content[x][t]]]
    BY Zenon DEF MapEvent
  <2>3. content'[p] = content[p]
    BY <2>1, <2>2, SMT
  <2> QED
    BY <1>7, <2>3, Zenon DEF Truth
<1>9. \A r \in runs' : r \in runs \/ (r.op.path # p /\ p \notin r.dels /\ p \notin r.adds)
  BY <1>3, <1>4, Zenon
<1>10. /\ ToDelete(p) => ToDelete(p)'
       /\ ToAdd(p) => ToAdd(p)'
       /\ Deleting(p) => Deleting(p)'
       /\ Writing(p) => Writing(p)'
  BY <1>4, Zenon DEF ToDelete, ToAdd, Deleting, Writing
<1>11. PathInv(p)
  BY <1>1, Zenon DEF MirrorInv
<1>12. HandlersAreRight(p)'
  BY <1>7, <1>8, <1>9, <1>11, Zenon DEF PathInv, HandlersAreRight
<1>13. ObserverIsRight(p)' /\ WriteIsRight(p)' /\ FileIsRight(p)'
  BY <1>6, <1>7, <1>8, <1>10, <1>11, Zenon DEF PathInv, ObserverIsRight, WriteIsRight, FileIsRight
<1> QED
  BY <1>12, <1>13, Zenon DEF PathInv

\* An event that deletes or adds p, when nothing was at work on it.
LEMMA EventHere ==
    ASSUME MirrorInv, stage = "live", NEW dels \in SUBSET Paths, NEW adds \in SUBSET Paths,
           MapEvent(dels, adds), NEW p \in dels \cup adds, p \notin raced'
    PROVE  PathInv(p)'
<1>1. PICK s \in Stretches(dels, adds, value', content') :
         /\ runs' = runs \cup
               {[id |-> clock + 1, op |-> s.op, dels |-> s.dels, adds |-> s.adds]}
         /\ observer' = [x \in Paths |->
               IF x \in Unobserved(s.op) THEN None ELSE observer[x]]
         /\ timer' = [x \in Paths |-> timer[x] /\ x \notin Unobserved(s.op)]
         /\ raced' = raced \cup {x \in dels \cup adds :
               \/ Outstanding(x)
               \/ x = s.op.path /\ Busy(x)
               \/ x \in Texts \cap adds /\ value[x] # None}
  BY Zenon DEF MapEvent
<1> DEFINE new == [id |-> clock + 1, op |-> s.op, dels |-> s.dels, adds |-> s.adds]
<1>2. /\ runs' = runs \cup {new} /\ new \in runs'
      /\ new.op = s.op /\ new.dels = s.dels /\ new.adds = s.adds
  BY <1>1
<1> HIDE DEF new
<1>3. /\ p \in Paths /\ p \notin raced /\ ~Outstanding(p)
      /\ ~(p = s.op.path /\ Busy(p))
      /\ p \in Texts \cap adds => value[p] = None
  BY <1>1, Zenon
<1>4. /\ PathInv(p)
      /\ \A r \in runs : p \notin r.dels /\ r.op.path # p
      /\ ~ToDelete(p) /\ ~Deleting(p) /\ ~Writing(p)
  BY <1>3, Zenon DEF MirrorInv, Outstanding, ToDelete, Deleting, Writing
<1>5. PICK q \in dels \cup adds :
         Deletes(s, q, dels, adds) \/ Writes(s, q, dels, adds, value', content')
  BY StretchKinds
<1>6. /\ value' = [x \in Paths |-> IF x \in dels THEN None
                                   ELSE IF x \in adds THEN clock + 1 ELSE value[x]]
      /\ dels \cap adds = {}
      /\ UNCHANGED <<disk, writes>>
  BY Zenon DEF MapEvent
<1>7. clock + 1 # None
  BY SMT DEF MirrorInv, TypeOK, None
<1>8. CASE p \in dels
  <2>1. value'[p] = None /\ p \notin adds
    BY <1>3, <1>6, <1>8, Zenon
  <2>2. Deletes(s, q, dels, adds)
    BY <1>5, <1>8, Zenon DEF Writes
  <2>3. s.op = DeleteOp(q) /\ s.dels = dels \ {q} /\ s.adds = adds /\ q \in dels
    BY <2>2, Zenon DEF Deletes
  <2>4. s.op.path = q /\ s.op.kind = "delete"
    BY <2>3, SMT DEF DeleteOp
  <2>5. ToDelete(p)' \/ (q = p /\ Deleting(p)')
    BY <1>2, <1>8, <2>3, <2>4, Zenon DEF ToDelete, Deleting
  <2>6. HandlersAreRight(p)'
    <3>1. \A r \in runs' : r \in runs \/ r = new
      BY <1>2, Zenon
    <3>2. new.op.kind # "write"
      BY <1>2, <2>4
    <3> QED
      BY <1>4, <2>1, <3>1, <3>2, Zenon DEF HandlersAreRight
  <2>7. ObserverIsRight(p)'
    <3>1. CASE ToDelete(p)'
      BY <2>1, <3>1, Zenon DEF ObserverIsRight
    <3>2. CASE q = p /\ p \in Texts
      <4>1. p \in Unobserved(s.op)
        BY <2>4, <3>2, Zenon DEF Unobserved
      <4>2. observer'[p] = None
        BY <1>1, <1>3, <4>1, Zenon
      <4> QED
        BY <2>1, <4>2, Zenon DEF ObserverIsRight
    <3> QED
      BY <2>5, <3>1, <3>2, Zenon DEF ObserverIsRight
  <2>8. WriteIsRight(p)'
    <3>1. CASE ToDelete(p)'
      BY <2>1, <3>1, Zenon DEF WriteIsRight
    <3>2. CASE q = p
      <4>1. \A o \in writes : o.path # p
        BY <1>3, <2>4, <3>2, Zenon DEF Busy, InFlight
      <4> QED
        BY <1>6, <4>1, Zenon DEF WriteIsRight
    <3> QED
      BY <2>5, <3>1, <3>2
  <2>9. FileIsRight(p)'
    BY <2>1, <2>5, Zenon DEF FileIsRight
  <2> QED
    BY <2>6, <2>7, <2>8, <2>9, Zenon DEF PathInv
<1>9. CASE p \in adds /\ p \notin dels
  <2>1. value'[p] # None
    BY <1>3, <1>6, <1>7, <1>9, Zenon
  <2>2. new.op.path # p \/ new.op.kind = "write"
    <3>1. CASE Deletes(s, q, dels, adds)
      <4>1. s.op.path \in dels
        BY <3>1, SMT DEF Deletes, DeleteOp
      <4> QED
        BY <1>2, <1>9, <4>1, Zenon
    <3>2. CASE Writes(s, q, dels, adds, value', content')
      BY <1>2, <3>2, SMT DEF Writes, WriteOp
    <3> QED
      BY <1>5, <3>1, <3>2
  <2>3. /\ p \notin new.dels
        /\ ToAdd(p)' \/ Writing(p)'
        /\ new.op.path = p => new.op.stamp = value'[p] /\ new.op.says = Truth(p)'
    <3>1. CASE Deletes(s, q, dels, adds)
      <4>1. s.dels = dels \ {q} /\ s.adds = adds /\ s.op.path = q /\ q # p
        BY <1>9, <3>1, SMT DEF Deletes, DeleteOp
      <4>2. p \in new.adds /\ p \notin new.dels /\ new.op.path # p
        BY <1>2, <1>9, <4>1, Zenon
      <4> QED
        BY <1>2, <4>2, Zenon DEF ToAdd
    <3>2. CASE Writes(s, q, dels, adds, value', content')
      <4>1. /\ s.op.path = q /\ s.op.kind = "write" /\ s.op.stamp = value'[q]
            /\ s.op.says = content'[q][value'[q]] /\ s.dels = {}
        BY <3>2, SMT DEF Writes, WriteOp
      <4>2. q # p => p \in s.adds
        BY <1>9, <2>1, <3>2, Zenon DEF Writes
      <4>3. CASE q = p
        BY <1>2, <4>1, <4>3, Zenon DEF Writing, Truth
      <4>4. CASE q # p
        BY <1>2, <4>1, <4>2, <4>4, Zenon DEF ToAdd
      <4> QED
        BY <4>3, <4>4
    <3> QED
      BY <1>5, <3>1, <3>2
  <2>4. HandlersAreRight(p)'
    <3>1. \A r \in runs' : r \in runs \/ r = new
      BY <1>2, Zenon
    <3>2. new.op.path = p => new.op.kind # "delete"
      BY <2>2
    <3> QED
      BY <1>4, <2>1, <2>3, <3>1, <3>2, Zenon DEF HandlersAreRight
  <2>5. observer'[p] \in {None, observer[p]}
    BY <1>1, <1>3, Zenon
  <2>6. p \in Texts => value[p] = None
    BY <1>3, <1>9, Zenon
  <2>7. p \in Texts => observer[p] = None
    BY <1>4, <2>6, Zenon DEF PathInv, ObserverIsRight
  <2>8. ObserverIsRight(p)'
    BY <2>3, <2>5, <2>7, Zenon DEF ObserverIsRight
  <2>9. \A o \in writes : o.path # p
    BY <1>4, <2>6, Zenon DEF PathInv, WriteIsRight, MirrorInv, ShapeInv
  <2>10. WriteIsRight(p)'
    BY <1>6, <2>9, Zenon DEF WriteIsRight
  <2>11. FileIsRight(p)'
    BY <2>1, <2>3, Zenon DEF FileIsRight
  <2> QED
    BY <2>4, <2>8, <2>10, <2>11, Zenon DEF PathInv
<1> QED
  BY <1>8, <1>9

\* What a handler's finished operation leaves in the file of p.
LEMMA ResumeOnFile ==
    ASSUME MirrorInv, stage = "live", NEW r \in runs, NEW fails \in BOOLEAN,
           Resume(r, fails), NEW p \in Paths, p \notin raced'
    PROVE  disk'[p] = IF p = r.op.path THEN r.op.says ELSE disk[p]
<1>1. r.op \in Ops /\ r.op.home = "session"
  <2>1. r \in Runs
    BY Zenon DEF MirrorInv, TypeOK, Runs
  <2> QED
    BY <2>1, SMT DEF MirrorInv, HomeInv, Runs
<1>2. CASE fails
  <2>1. r.op.path \in {x \in {r.op.path} : fails}
    BY <1>2
  <2>2. r.op.path \in raced'
    <3>1. CASE Ends(r, fails)
      BY <2>1, <3>1, Zenon DEF Ends
    <3>2. ASSUME NEW s \in Stretches(r.dels, r.adds, value, content), RunsOn(r, s, fails)
          PROVE  r.op.path \in raced'
      BY <2>1, <3>2, Zenon DEF RunsOn
    <3> QED
      BY <3>1, <3>2, ResumeKinds
  <2> QED
    BY <1>2, <2>2, Zenon DEF Resume
<1>3. CASE ~fails
  <2>1. Effect(r.op)
    BY <1>3, Zenon DEF Resume
  <2> QED
    BY <1>1, <2>1, EffectOnFile, Zenon DEF MirrorInv
<1> QED
  BY <1>2, <1>3

\* The observer that the write of p was followed by is the right one.
LEMMA InstalledOn ==
    ASSUME MirrorInv, stage = "live", NEW r \in runs, NEW p \in Paths \ raced
    PROVE  /\ Installed(r.op)[p] \in {observer[p], value[p]}
           /\ Installed(r.op)[p] # observer[p] =>
                 observer[p] = None /\ p \in Texts /\ r.op.path = p /\ r.op.kind = "write"
           /\ r.op.path = p /\ r.op.kind = "write" /\ p \in Texts =>
                 Installed(r.op)[p] # None
<1>1. HandlersAreRight(p) /\ observer \in [Paths -> 0 .. MaxChanges]
  BY Zenon DEF MirrorInv, PathInv, TypeOK
<1>2. CASE r.op.kind = "write" /\ r.op.path \in Texts /\ observer[r.op.path] = None
  <2>1. Installed(r.op) = [observer EXCEPT ![r.op.path] = r.op.stamp]
    BY <1>2, Zenon DEF Installed
  <2>2. CASE r.op.path = p
    <3>1. Installed(r.op)[p] = r.op.stamp
      BY <1>1, <2>1, <2>2, Zenon
    <3>2. r.op.stamp = value[p] /\ value[p] # None
      BY <1>1, <1>2, <2>2, Zenon DEF HandlersAreRight
    <3> QED
      BY <1>2, <2>2, <3>1, <3>2, Zenon
  <2>3. CASE r.op.path # p
    BY <1>1, <2>1, <2>3, Zenon
  <2> QED
    BY <2>2, <2>3
<1>3. CASE ~(r.op.kind = "write" /\ r.op.path \in Texts /\ observer[r.op.path] = None)
  BY <1>3, Zenon DEF Installed
<1> QED
  BY <1>2, <1>3

LEMMA EndKeepsPath ==
    ASSUME MirrorInv, stage = "live", NEW r \in runs, NEW fails \in BOOLEAN,
           Resume(r, fails), Ends(r, fails), NEW p \in Paths, p \notin raced'
    PROVE  PathInv(p)'
<1>1. UNCHANGED <<value, content, writes, timer>> /\ runs' = runs \ {r}
  BY Zenon DEF Resume, Ends
<1>2. p \notin raced /\ PathInv(p)
  BY Zenon DEF Ends, MirrorInv
<1>3. p \notin r.dels /\ (p \in r.adds => value[p] = None)
  <2>1. Stretches(r.dels, r.adds, value, content) = {}
    BY Zenon DEF Ends
  <2> QED
    BY <2>1, NoStretch
<1>4. observer'[p] = Installed(r.op)[p]
  BY Zenon DEF Ends
<1>5. disk'[p] = IF p = r.op.path THEN r.op.says ELSE disk[p]
  BY <1>2, ResumeOnFile
<1>6. ToDelete(p) => ToDelete(p)'
  BY <1>1, <1>3, Zenon DEF ToDelete
<1>7. value[p] # None /\ ToAdd(p) => ToAdd(p)'
  BY <1>1, <1>3, Zenon DEF ToAdd
<1>8. Writing(p) => Writing(p)' \/ (r.op.path = p /\ r.op.kind = "write")
  BY <1>1, Zenon DEF Writing
<1>9. Deleting(p) => Deleting(p)' \/ (r.op.path = p /\ r.op.kind = "delete")
  BY <1>1, Zenon DEF Deleting
<1>10. HandlersAreRight(p)'
  BY <1>1, <1>2, Zenon DEF PathInv, HandlersAreRight, Truth
<1>11. ObserverIsRight(p)'
  <2>1. /\ Installed(r.op)[p] \in {observer[p], value[p]}
        /\ r.op.path = p /\ r.op.kind = "write" /\ p \in Texts => Installed(r.op)[p] # None
    BY <1>2, InstalledOn
  <2>2. p \in Texts /\ observer'[p] # None => observer'[p] = value[p] \/ ToDelete(p)
    BY <1>2, <1>4, <2>1, Zenon DEF PathInv, ObserverIsRight
  <2>3. ASSUME p \in Texts, value[p] # None, observer'[p] = None
        PROVE  ToAdd(p)' \/ Writing(p)'
    <3>1. observer[p] = None /\ ~(r.op.path = p /\ r.op.kind = "write")
      BY <1>4, <2>1, <2>3, Zenon
    <3> QED
      BY <1>2, <1>7, <1>8, <2>3, <3>1, Zenon DEF PathInv, ObserverIsRight
  <2> QED
    BY <1>1, <1>6, <2>2, <2>3, Zenon DEF ObserverIsRight
<1>12. WriteIsRight(p)'
  <2>1. ASSUME NEW o \in writes, o.path = p, value[p] # None
        PROVE  observer'[p] = value[p]
    BY <1>2, <1>4, <2>1, InstalledOn, Zenon DEF PathInv, WriteIsRight
  <2> QED
    BY <1>1, <1>2, <1>6, <2>1, Zenon DEF PathInv, WriteIsRight, Truth
<1>13. FileIsRight(p)'
  <2>1. CASE r.op.path # p
    BY <1>1, <1>2, <1>5, <1>6, <1>7, <1>8, <1>9, <2>1, Zenon DEF PathInv, FileIsRight, Truth
  <2>2. CASE r.op.path = p /\ r.op.kind = "write"
    <3>1. value[p] # None /\ r.op.says = Truth(p)
      BY <1>2, <2>2, Zenon DEF PathInv, HandlersAreRight
    <3> QED
      BY <1>1, <1>5, <2>2, <3>1, Zenon DEF FileIsRight, Truth
  <2>3. CASE r.op.path = p /\ r.op.kind = "delete"
    <3>1. value[p] = None
      BY <1>2, <2>3, Zenon DEF PathInv, HandlersAreRight
    <3>2. r.op.says = Absent
      BY <2>3, Zenon DEF MirrorInv, ShapeInv
    <3> QED
      BY <1>1, <1>5, <2>3, <3>1, <3>2, Zenon DEF FileIsRight
  <2>4. r.op.kind \in {"write", "delete"}
    <3>1. r \in Runs
      BY Zenon DEF MirrorInv, TypeOK, Runs
    <3> QED
      BY <3>1, SMT DEF Runs, Ops
  <2> QED
    BY <2>1, <2>2, <2>3, <2>4, Zenon
<1> QED
  BY <1>10, <1>11, <1>12, <1>13, Zenon DEF PathInv

\* What the next stretch s of the handler r does about p is called for, and what
\* r still had to do about p it does or still has to do.
LEMMA StretchOn ==
    ASSUME NEW r, NEW p, HandlersAreRight(p), r \in runs,
           NEW s \in Stretches(r.dels, r.adds, value, content)
    PROVE  /\ p \in s.dels => value[p] = None
           /\ s.op.path = p /\ s.op.kind = "delete" => value[p] = None
           /\ s.op.path = p /\ s.op.kind = "write" =>
                 value[p] # None /\ s.op.stamp = value[p] /\ s.op.says = Truth(p)
           /\ p \in r.dels => p \in s.dels \/ (s.op.path = p /\ s.op.kind = "delete")
           /\ p \in r.adds /\ value[p] # None =>
                 p \in s.adds \/ (s.op.path = p /\ s.op.kind = "write")
           /\ s.op.kind = "delete" => s.op.says = Absent
           /\ Home = "session" => s.op.home = "session"
<1>1. p \in r.dels => value[p] = None
  BY Zenon DEF HandlersAreRight
<1>2. PICK q \in r.dels \cup r.adds :
         Deletes(s, q, r.dels, r.adds) \/ Writes(s, q, r.dels, r.adds, value, content)
  BY StretchKinds
<1>3. CASE Deletes(s, q, r.dels, r.adds)
  <2>1. /\ s.op.path = q /\ s.op.kind = "delete" /\ s.op.says = Absent /\ s.op.home = Home
        /\ s.dels = r.dels \ {q} /\ s.adds = r.adds /\ q \in r.dels
    BY <1>3, SMT DEF Deletes, DeleteOp
  <2> QED
    BY <1>1, <2>1, Zenon
<1>4. CASE Writes(s, q, r.dels, r.adds, value, content)
  <2>1. /\ s.op.path = q /\ s.op.kind = "write" /\ s.op.stamp = value[q]
        /\ s.op.says = content[q][value[q]] /\ s.op.home = Home
        /\ r.dels = {} /\ s.dels = {} /\ value[q] # None
    BY <1>4, SMT DEF Writes, WriteOp
  <2>2. p \in r.adds /\ value[p] # None => p \in s.adds \/ p = q
    BY <1>4, Zenon DEF Writes
  <2> QED
    BY <2>1, <2>2, Zenon DEF Truth
<1> QED
  BY <1>2, <1>3, <1>4

LEMMA RunsOnKeepsPath ==
    ASSUME MirrorInv, stage = "live", NEW r \in runs, NEW fails \in BOOLEAN,
           Resume(r, fails), NEW s \in Stretches(r.dels, r.adds, value, content),
           RunsOn(r, s, fails), NEW p \in Paths, p \notin raced'
    PROVE  PathInv(p)'
<1> DEFINE new == [id |-> r.id, op |-> s.op, dels |-> s.dels, adds |-> s.adds]
<1>1. /\ runs' = (runs \ {r}) \cup {new} /\ new \in runs'
      /\ new.op = s.op /\ new.dels = s.dels /\ new.adds = s.adds
  BY SMT DEF RunsOn
<1> HIDE DEF new
<1>2. UNCHANGED <<value, content, writes>>
  BY Zenon DEF Resume
<1>3. p \notin raced /\ PathInv(p)
  BY Zenon DEF RunsOn, MirrorInv
<1>4. s.op.path = p => \A o \in writes : o.path # p
  BY Zenon DEF RunsOn
<1>5. /\ p \in s.dels => value[p] = None
      /\ s.op.path = p /\ s.op.kind = "delete" => value[p] = None
      /\ s.op.path = p /\ s.op.kind = "write" =>
            value[p] # None /\ s.op.stamp = value[p] /\ s.op.says = Truth(p)
      /\ p \in r.dels => p \in s.dels \/ (s.op.path = p /\ s.op.kind = "delete")
      /\ p \in r.adds /\ value[p] # None =>
            p \in s.adds \/ (s.op.path = p /\ s.op.kind = "write")
  <2>1. HandlersAreRight(p)
    BY <1>3, Zenon DEF PathInv
  <2> QED
    BY <2>1, StretchOn
<1>6. \A x \in runs : x \in runs' \/ x = r
  BY <1>1, Zenon
<1>7. disk'[p] = IF p = r.op.path THEN r.op.says ELSE disk[p]
  BY <1>3, ResumeOnFile
<1>8. ToDelete(p) => ToDelete(p)' \/ (s.op.path = p /\ s.op.kind = "delete" /\ Deleting(p)')
  BY <1>1, <1>5, <1>6, Zenon DEF ToDelete, Deleting
<1>9. value[p] # None /\ ToAdd(p) => ToAdd(p)' \/ Writing(p)'
  BY <1>1, <1>5, <1>6, Zenon DEF ToAdd, Writing
<1>10. Writing(p) => Writing(p)' \/ (r.op.path = p /\ r.op.kind = "write")
  BY <1>6, Zenon DEF Writing
<1>11. Deleting(p) => Deleting(p)' \/ (r.op.path = p /\ r.op.kind = "delete")
  BY <1>6, Zenon DEF Deleting
<1>12. CASE p \in Unobserved(s.op)
  <2>1. s.op.path = p /\ s.op.kind = "delete" /\ value[p] = None
    BY <1>5, <1>12, Zenon DEF Unobserved
  <2>2. observer'[p] = None /\ Deleting(p)'
    BY <1>1, <1>12, <2>1, Zenon DEF RunsOn, Deleting
  <2>3. HandlersAreRight(p)'
    <3>1. \A x \in runs' : x \in runs \/ x = new
      BY <1>1, Zenon
    <3>2. s.op.kind # "write"
      BY <2>1
    <3> QED
      BY <1>1, <1>2, <1>3, <2>1, <3>1, <3>2, Zenon DEF PathInv, HandlersAreRight, Truth
  <2> QED
    BY <1>2, <1>4, <2>1, <2>2, <2>3, Zenon
       DEF PathInv, ObserverIsRight, WriteIsRight, FileIsRight
<1>13. CASE p \notin Unobserved(s.op)
  <2>1. observer'[p] = Installed(r.op)[p] /\ (timer[p] => timer'[p])
    BY <1>13, Zenon DEF RunsOn
  <2>2. /\ Installed(r.op)[p] \in {observer[p], value[p]}
        /\ r.op.path = p /\ r.op.kind = "write" /\ p \in Texts => Installed(r.op)[p] # None
    BY <1>3, InstalledOn
  <2>3. HandlersAreRight(p)'
    <3>1. \A x \in runs' : x \in runs \/ x = new
      BY <1>1, Zenon
    <3> QED
      BY <1>1, <1>2, <1>3, <1>5, <3>1, Zenon DEF PathInv, HandlersAreRight, Truth
  <2>4. ObserverIsRight(p)'
    <3>1. ASSUME p \in Texts PROVE ToDelete(p) => ToDelete(p)'
      BY <1>8, <1>13, <3>1, Zenon DEF Unobserved
    <3>2. p \in Texts /\ observer'[p] # None => observer'[p] = value[p] \/ ToDelete(p)
      BY <1>3, <2>1, <2>2, Zenon DEF PathInv, ObserverIsRight
    <3>3. ASSUME p \in Texts, value[p] # None, observer'[p] = None
          PROVE  ToAdd(p)' \/ Writing(p)'
      <4>1. observer[p] = None /\ ~(r.op.path = p /\ r.op.kind = "write")
        BY <2>1, <2>2, <3>3, Zenon
      <4> QED
        BY <1>3, <1>9, <1>10, <3>3, <4>1, Zenon DEF PathInv, ObserverIsRight
    <3> QED
      BY <1>2, <3>1, <3>2, <3>3, Zenon DEF ObserverIsRight
  <2>5. WriteIsRight(p)'
    <3>1. ASSUME NEW o \in writes, o.path = p, value[p] # None
          PROVE  observer'[p] = value[p]
      BY <1>3, <2>1, <2>2, <3>1, Zenon DEF PathInv, WriteIsRight
    <3>2. ASSUME NEW o \in writes, o.path = p, value[p] = None
          PROVE  ToDelete(p)'
      BY <1>3, <1>4, <1>8, <3>2, Zenon DEF PathInv, WriteIsRight
    <3> QED
      BY <1>2, <1>3, <2>1, <3>1, <3>2, Zenon DEF PathInv, WriteIsRight, Truth
  <2>6. FileIsRight(p)'
    <3>1. CASE r.op.path # p
      <4>1. value[p] = None /\ disk[p] # Absent => ToDelete(p)' \/ Deleting(p)'
        BY <1>3, <1>8, <1>11, <3>1, Zenon DEF PathInv, FileIsRight
      <4>2. value[p] # None /\ disk[p] # Truth(p) =>
               \/ timer'[p] \/ ToAdd(p)' \/ Writing(p)'
               \/ \E o \in writes : o.path = p /\ o.says = Truth(p)
        BY <1>3, <1>9, <1>10, <2>1, <3>1, Zenon DEF PathInv, FileIsRight
      <4> QED
        BY <1>2, <1>7, <3>1, <4>1, <4>2, Zenon DEF FileIsRight, Truth
    <3>2. CASE r.op.path = p /\ r.op.kind = "write"
      <4>1. value[p] # None /\ r.op.says = Truth(p)
        BY <1>3, <3>2, Zenon DEF PathInv, HandlersAreRight
      <4> QED
        BY <1>2, <1>7, <3>2, <4>1, Zenon DEF FileIsRight, Truth
    <3>3. CASE r.op.path = p /\ r.op.kind = "delete"
      <4>1. value[p] = None /\ r.op.says = Absent
        BY <1>3, <3>3, Zenon DEF PathInv, HandlersAreRight, MirrorInv, ShapeInv
      <4> QED
        BY <1>2, <1>7, <3>3, <4>1, Zenon DEF FileIsRight
    <3>4. r.op.kind \in {"write", "delete"}
      <4>1. r \in Runs
        BY Zenon DEF MirrorInv, TypeOK, Runs
      <4> QED
        BY <4>1, SMT DEF Runs, Ops
    <3> QED
      BY <3>1, <3>2, <3>3, <3>4, Zenon
  <2> QED
    BY <2>3, <2>4, <2>5, <2>6, Zenon DEF PathInv
<1> QED
  BY <1>12, <1>13

-----------------------------------------------------------------------------
(* The theorems. *)

LEMMA MirrorInit ==
    ASSUME Init
    PROVE  MirrorInv
<1>1. TypeOK
  BY TypeInit
<1>2. /\ runs = {} /\ writes = {} /\ stage = "live"
      /\ \A p \in Paths : value[p] = None /\ disk[p] = Absent /\ observer[p] = None
      /\ \A p \in Paths : ~timer[p]
  BY Zenon DEF Init
<1>3. HomeInv /\ ShapeInv
  BY <1>2, Zenon DEF HomeInv, ShapeInv
<1>4. \A p \in Paths : PathInv(p)
  BY <1>2, Zenon DEF PathInv, HandlersAreRight, ObserverIsRight, WriteIsRight, FileIsRight
<1> QED
  BY <1>1, <1>3, <1>4, Zenon DEF MirrorInv

\* A handler's next stretch keeps what HomeInv and ShapeInv say of it.
LEMMA StretchShape ==
    ASSUME NEW dels, NEW adds, NEW val, NEW con,
           NEW s \in Stretches(dels, adds, val, con)
    PROVE  /\ s.op.home = Home
           /\ s.op.kind = "delete" => s.op.says = Absent
<1>1. PICK q \in dels \cup adds :
         Deletes(s, q, dels, adds) \/ Writes(s, q, dels, adds, val, con)
  BY StretchKinds
<1>2. CASE Deletes(s, q, dels, adds)
  BY <1>2, SMT DEF Deletes, DeleteOp
<1>3. CASE Writes(s, q, dels, adds, val, con)
  BY <1>3, SMT DEF Writes, WriteOp
<1> QED
  BY <1>1, <1>2, <1>3

\* Where operations go and what they look like, after each action.
LEMMA ShapeStep ==
    ASSUME MirrorInv, [Next]_vars
    PROVE  HomeInv' /\ ShapeInv'
<1> USE DEF HomeInv, ShapeInv
<1>0. TypeOK /\ HomeInv /\ ShapeInv
  BY Zenon DEF MirrorInv
<1>1. ASSUME NEW p \in Paths, Edit(p) PROVE HomeInv' /\ ShapeInv'
  BY <1>0, <1>1, SMT DEF Edit
<1>2. ASSUME NEW p \in Paths, TimerFires(p) PROVE HomeInv' /\ ShapeInv'
  <2> DEFINE new == WriteOp(p, observer[p], content[p][observer[p]])
  <2>1. timer[p] /\ observer[p] # None /\ p \in Texts /\ stage = "live"
    <3>1. stage # "live" => ~timer[p]
      BY <1>0, Zenon
    <3> QED
      BY <1>0, <1>2, <3>1, Zenon DEF TimerFires, TypeOK
  <2>2. new.path = p /\ new.home = "session"
    BY <2>1, SMT DEF WriteOp, Home
  <2>3. writes' = writes \cup {new} /\ UNCHANGED <<runs, observer, stage>>
    BY <1>2, Zenon DEF TimerFires
  <2> HIDE DEF new
  <2>4. \A o \in writes' : o \in writes \/ o = new
    BY <2>3
  <2> QED
    BY <1>0, <2>1, <2>2, <2>3, <2>4, Zenon
<1>3. ASSUME NEW dels \in SUBSET Paths, NEW adds \in SUBSET Paths, MapEvent(dels, adds)
      PROVE  HomeInv' /\ ShapeInv'
  <2>1. stage = "live" /\ stage' = "live" /\ writes' = writes
    BY <1>3, Zenon DEF MapEvent
  <2>2. PICK s \in Stretches(dels, adds, value', content') :
           /\ runs' = runs \cup
                 {[id |-> clock + 1, op |-> s.op, dels |-> s.dels, adds |-> s.adds]}
           /\ observer' = [x \in Paths |->
                 IF x \in Unobserved(s.op) THEN None ELSE observer[x]]
    BY <1>3, Zenon DEF MapEvent
  <2>3. s.op.home = "session" /\ (s.op.kind = "delete" => s.op.says = Absent)
    BY <2>1, StretchShape DEF Home
  <2>4. \A x \in runs' : x \in runs \/ x.op = s.op
    BY <2>2, SMT
  <2>5. \A p \in Paths : observer'[p] # None => observer[p] # None
    BY <2>2, Zenon
  <2> QED
    BY <1>0, <2>1, <2>3, <2>4, <2>5, Zenon
<1>4. ASSUME NEW r \in runs, NEW fails \in BOOLEAN, Resume(r, fails)
      PROVE  HomeInv' /\ ShapeInv'
  <2>1. UNCHANGED <<stage, writes>> /\ \A p \in Paths : timer'[p] => timer[p]
    <3>1. CASE Ends(r, fails)
      BY <1>4, <3>1, Zenon DEF Resume, Ends
    <3>2. ASSUME NEW s \in Stretches(r.dels, r.adds, value, content), RunsOn(r, s, fails)
          PROVE  \A p \in Paths : timer'[p] => timer[p]
      BY <3>2, Zenon DEF RunsOn
    <3> QED
      BY <1>4, <3>1, <3>2, ResumeKinds, Zenon DEF Resume
  <2>2. \A p \in Paths : Installed(r.op)[p] # None => observer[p] # None \/ p \in Texts
    BY <1>0, SMT DEF Installed, TypeOK
  <2>3. \A x \in runs' :
           \/ x \in runs
           \/ /\ x.op.home = Home
              /\ x.op.kind = "delete" => x.op.says = Absent
    <3>1. CASE Ends(r, fails)
      BY <3>1, Zenon DEF Ends
    <3>2. ASSUME NEW s \in Stretches(r.dels, r.adds, value, content), RunsOn(r, s, fails)
          PROVE  \A x \in runs' : x \in runs \/ x.op = s.op
      BY <3>2, SMT DEF RunsOn
    <3>3. ASSUME NEW s \in Stretches(r.dels, r.adds, value, content)
          PROVE  s.op.home = Home /\ (s.op.kind = "delete" => s.op.says = Absent)
      BY StretchShape
    <3> QED
      BY <1>4, <3>1, <3>2, <3>3, ResumeKinds
  <2>4. \A p \in Paths : observer'[p] # None => Installed(r.op)[p] # None
    <3>1. CASE Ends(r, fails)
      BY <3>1, Zenon DEF Ends
    <3>2. ASSUME NEW s \in Stretches(r.dels, r.adds, value, content), RunsOn(r, s, fails)
          PROVE  \A p \in Paths : observer'[p] # None => Installed(r.op)[p] # None
      BY <3>2, Zenon DEF RunsOn
    <3> QED
      BY <1>4, <3>1, <3>2, ResumeKinds
  <2>5. stage = "live" => Home = "session"
    BY DEF Home
  <2> QED
    BY <1>0, <2>1, <2>2, <2>3, <2>4, <2>5, Zenon
<1>5. ASSUME NEW o \in writes, NEW fails \in BOOLEAN, WriteDone(o, fails)
      PROVE  HomeInv' /\ ShapeInv'
  BY <1>0, <1>5, Zenon DEF WriteDone
<1>6. CASE Leave
  BY <1>0, <1>6, Zenon DEF Leave
<1>7. CASE SwitchBack
  BY <1>0, <1>7, SMT DEF SwitchBack
<1>8. CASE RemoveTransient
  BY <1>0, <1>8, SMT DEF RemoveTransient
<1>9. CASE UNCHANGED vars
  BY <1>0, <1>9, Zenon DEF vars
<1> QED
  BY <1>1, <1>2, <1>3, <1>4, <1>5, <1>6, <1>7, <1>8, <1>9, Zenon DEF Next

LEMMA MirrorStep ==
    ASSUME MirrorInv, [Next]_vars
    PROVE  MirrorInv'
<1>1. TypeOK'
  BY TypeStep DEF MirrorInv
<1>2. HomeInv' /\ ShapeInv'
  BY ShapeStep
<1>3. SUFFICES ASSUME stage' = "live", NEW p \in Paths, p \notin raced'
               PROVE  PathInv(p)'
  BY <1>1, <1>2, Zenon DEF MirrorInv
<1>4. ASSUME NEW q \in Paths, Edit(q) PROVE PathInv(p)'
  BY <1>3, <1>4, EditKeepsPath, Zenon DEF Edit
<1>5. ASSUME NEW q \in Paths, TimerFires(q) PROVE PathInv(p)'
  <2>1. stage = "live"
    BY <1>3, <1>5, Zenon DEF TimerFires
  <2> QED
    BY <1>3, <1>5, <2>1, TimerKeepsPath
<1>6. ASSUME NEW dels \in SUBSET Paths, NEW adds \in SUBSET Paths, MapEvent(dels, adds)
      PROVE  PathInv(p)'
  <2>1. stage = "live"
    BY <1>6, Zenon DEF MapEvent
  <2> QED
    BY <1>3, <1>6, <2>1, EventElsewhere, EventHere
<1>7. ASSUME NEW r \in runs, NEW fails \in BOOLEAN, Resume(r, fails)
      PROVE  PathInv(p)'
  <2>1. stage = "live"
    BY <1>3, <1>7, Zenon DEF Resume
  <2> QED
    BY <1>3, <1>7, <2>1, ResumeKinds, EndKeepsPath, RunsOnKeepsPath
<1>8. ASSUME NEW o \in writes, NEW fails \in BOOLEAN, WriteDone(o, fails)
      PROVE  PathInv(p)'
  <2>1. stage = "live"
    BY <1>3, <1>8, Zenon DEF WriteDone
  <2> QED
    BY <1>3, <1>8, <2>1, WriteDoneKeepsPath
<1>9. CASE Leave \/ SwitchBack \/ RemoveTransient
  BY <1>3, <1>9, SMT DEF Leave, SwitchBack, RemoveTransient
<1>10. CASE UNCHANGED vars
  <2>1. PathInv(p)
    BY <1>3, <1>10, Zenon DEF vars, MirrorInv
  <2>2. /\ UNCHANGED <<value, content, disk, runs, observer, timer, writes>>
        /\ UNCHANGED Truth(p)
    BY <1>10, Zenon DEF vars, Truth
  <2>3. UNCHANGED <<ToDelete(p), ToAdd(p), Deleting(p), Writing(p)>>
    BY <2>2, Zenon DEF ToDelete, ToAdd, Deleting, Writing
  <2>4. HandlersAreRight(p)' /\ ObserverIsRight(p)' /\ WriteIsRight(p)' /\ FileIsRight(p)'
    BY <2>1, <2>2, <2>3, Zenon
       DEF PathInv, HandlersAreRight, ObserverIsRight, WriteIsRight, FileIsRight
  <2> QED
    BY <2>4, Zenon DEF PathInv
<1> QED
  BY <1>4, <1>5, <1>6, <1>7, <1>8, <1>9, <1>10, Zenon DEF Next

LEMMA MirrorHolds == Spec => []MirrorInv
<1>1. Init => MirrorInv
  BY MirrorInit
<1>2. MirrorInv /\ [Next]_vars => MirrorInv'
  BY MirrorStep
<1> QED
  BY <1>1, <1>2, PTL DEF Spec

\* A path nobody is at work on has the file the document asks for, and a text the
\* observer of its present entry, unless two activities met on that very path
\* (handleGuestFilesEvent, mirrorYTextToOpfs, installYTextObserver).
THEOREM SettledFilesAreRight == Spec => []SettledIsMirrored
<1>1. ASSUME MirrorInv PROVE SettledIsMirrored
  <2>1. SUFFICES ASSUME stage = "live", NEW p \in Paths, p \notin raced, Settled(p)
                 PROVE  Mirrored(p) /\ Watched(p)
    BY Zenon DEF SettledIsMirrored
  <2>2. FileIsRight(p) /\ (p \in Texts => ObserverIsRight(p))
    BY <1>1, <2>1, Zenon DEF MirrorInv, PathInv
  <2>3. /\ ~timer[p] /\ ~ToDelete(p) /\ ~ToAdd(p) /\ ~Deleting(p) /\ ~Writing(p)
        /\ \A o \in writes : o.path # p
    BY <2>1, Zenon DEF Settled, Busy, InFlight, ToDelete, ToAdd, Deleting, Writing
  <2>4. Mirrored(p)
    BY <2>2, <2>3, Zenon DEF FileIsRight, Mirrored, Truth
  <2>5. Watched(p)
    BY <2>1, <2>2, <2>3, Zenon DEF ObserverIsRight, Watched
  <2> QED
    BY <2>4, <2>5
<1> QED
  BY <1>1, MirrorHolds, PTL

\* No debounced write goes to the project the guest returns to (destroy).
THEOREM DebounceEnds == Spec => []DebounceEndsWithSession
<1>1. MirrorInv => DebounceEndsWithSession
  BY Zenon DEF MirrorInv, HomeInv, DebounceEndsWithSession
<1> QED
  BY <1>1, MirrorHolds, PTL

=============================================================================
