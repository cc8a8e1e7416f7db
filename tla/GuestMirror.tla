---------------------------- MODULE GuestMirror ----------------------------
(***************************************************************************)
(* How a guest of a live session mirrors the shared document onto disk:    *)
(* handleGuestFilesEvent, handleGuestAssetsEvent, mirrorYTextToOpfs,       *)
(* installYTextObserver, unobserveYText and the part of destroy that drops *)
(* the observers (Playground/src/sharing/collab/session.ts), with the      *)
(* change of active project around a session (bootstrap.ts, main.ts).      *)
(*                                                                         *)
(* A handler is an async function that nobody awaits: it runs to its first *)
(* disk operation inside the event, and every later stretch runs when an   *)
(* operation completes.  Handlers, debounced writes and new events         *)
(* interleave there.  All files are off screen here: the file bound to     *)
(* the editor is mirrored by the editor's own autosave.                    *)
(***************************************************************************)
EXTENDS Integers, FiniteSets

CONSTANTS
    Texts,        \* paths replicated as Y.Text (the files map)
    Binaries,     \* paths replicated as bytes (the assets map)
    MaxChanges,   \* bound on the transactions that reach the guest
    Resync,       \* may one transaction hold a delete and an add of a path?
    DiskFails     \* may a disk operation fail?

ASSUME MirrorAssumption ==
    /\ Texts \cap Binaries = {}
    /\ MaxChanges \in Nat
    /\ Resync \in BOOLEAN
    /\ DiskFails \in BOOLEAN

Paths == Texts \cup Binaries
Stamps == 1 .. MaxChanges
Absent == -1      \* no such file on disk
None == 0         \* no value in the map, no observer

VARIABLES
    clock,        \* transactions so far; a change's number stamps what it wrote
    value,        \* the map entry of a path: a Y.Text or bytes, by its stamp
    content,      \* what each entry a path ever had says: the stamp of its last edit
    disk,         \* the transient project
    own,          \* the guest's own project, which has files of the same names
    stage,        \* "live", "left", "switched" back, transient "removed"
    runs,         \* the handlers under way
    observer,     \* ytextUnobservers: the Y.Text observed for a path
    timer,        \* ytextWriteTimers
    writes,       \* debounced writes under way
    raced         \* ghost: the paths where two activities overlapped

vars == <<clock, value, content, disk, own, stage, runs, observer, timer,
          writes, raced>>

-----------------------------------------------------------------------------
\* The project an operation that starts now goes to: walkPath reads this.dir.
Home == IF stage \in {"live", "left"} THEN "session" ELSE "own"

DeleteOp(p) == [kind |-> "delete", path |-> p, stamp |-> None, says |-> Absent,
                home |-> Home]
WriteOp(p, v, c) == [kind |-> "write", path |-> p, stamp |-> v, says |-> c,
                     home |-> Home]

\* The disk operations under way.
InFlight == {r.op : r \in runs} \cup writes

Busy(p) == \E o \in InFlight : o.path = p

\* A handler that still has to delete p, or is at work on it.
Outstanding(p) == \E r \in runs : p \in r.dels \/ r.op.path = p

\* The first stretches of a handler with these deletions and additions ahead:
\* deletions first, each group in the order of the event's keys, and additions
\* whose entry is gone by now are skipped.
Stretches(dels, adds, val, con) ==
    LET here == {p \in adds : val[p] # None}
    IN  IF dels # {}
        THEN {[op |-> DeleteOp(p), dels |-> dels \ {p}, adds |-> adds] : p \in dels}
        ELSE {[op |-> WriteOp(p, val[p], con[p][val[p]]), dels |-> {},
               adds |-> adds \ (gone \cup {p})] :
              p \in here, gone \in SUBSET (adds \ here)}

\* A delete of a text starts with unobserveYText.
Unobserved(op) == {p \in Texts : op.kind = "delete" /\ op.path = p}

-----------------------------------------------------------------------------
Init ==
    /\ clock = 0
    /\ value = [p \in Paths |-> None]
    /\ content = [p \in Paths |-> [s \in Stamps |-> 0]]
    /\ disk = [p \in Paths |-> Absent]
    /\ own = [p \in Paths |-> "mine"]
    /\ stage = "live"
    /\ runs = {}
    /\ observer = [p \in Paths |-> None]
    /\ timer = [p \in Paths |-> FALSE]
    /\ writes = {}
    /\ raced = {}

\* Mutant of Edit: the timer is armed although nothing observes the text.
EditArmsAlways(p) ==
    /\ stage = "live" /\ clock < MaxChanges
    /\ p \in Texts /\ value[p] # None
    /\ clock' = clock + 1
    /\ content' = [content EXCEPT ![p][value[p]] = clock + 1]
    /\ timer' = [timer EXCEPT ![p] = TRUE]
    /\ raced' = raced \cup {q \in {p} : Outstanding(p)}
    /\ UNCHANGED <<value, disk, own, stage, runs, observer, writes>>

\* A transaction of the host edits a text: the observer, if it watches this
\* very text, restarts the 600 ms timer.
Edit(p) ==
    /\ stage = "live" /\ clock < MaxChanges
    /\ p \in Texts /\ value[p] # None
    /\ clock' = clock + 1
    /\ content' = [content EXCEPT ![p][value[p]] = clock + 1]
    /\ timer' = [timer EXCEPT ![p] = @ \/ observer[p] = value[p]]
    /\ raced' = raced \cup {q \in {p} : Outstanding(p)}
    /\ UNCHANGED <<value, disk, own, stage, runs, observer, writes>>

\* A transaction adds the entries of adds and deletes those of dels.  An add
\* over an existing entry is a change "update" of the map: an asset set again,
\* or a text deleted and added while the guest was disconnected.  The text of
\* a deleted entry says nothing any more.  The handler starts.
MapEvent(dels, adds) ==
    /\ stage = "live" /\ clock < MaxChanges
    /\ dels \cup adds # {} /\ dels \cap adds = {}
    /\ dels \cup adds \subseteq Texts \/ dels \cup adds \subseteq Binaries
    /\ \A p \in dels : value[p] # None
    /\ \A p \in adds \cap Texts : value[p] # None => Resync
    /\ clock' = clock + 1
    /\ value' = [p \in Paths |-> IF p \in dels THEN None
                                 ELSE IF p \in adds THEN clock + 1 ELSE value[p]]
    /\ content' = [p \in Paths |-> [s \in Stamps |->
          IF p \in adds /\ s = clock + 1 THEN s
          ELSE IF p \in Texts \cap (dels \cup adds) THEN 0
          ELSE content[p][s]]]
    /\ \E r \in Stretches(dels, adds, value', content') :
          LET off == Unobserved(r.op)
          IN  /\ runs' = runs \cup
                     {[id |-> clock + 1, op |-> r.op, dels |-> r.dels, adds |-> r.adds]}
              /\ observer' = [p \in Paths |-> IF p \in off THEN None ELSE observer[p]]
              /\ timer' = [p \in Paths |-> timer[p] /\ p \notin off]
              /\ raced' = raced \cup {p \in dels \cup adds :
                     \/ Outstanding(p)
                     \/ p = r.op.path /\ Busy(p)
                     \/ p \in Texts \cap adds /\ value[p] # None}
    /\ UNCHANGED <<disk, own, stage, writes>>

\* What a completed operation leaves on disk.  The transient project refuses
\* writes once it is removed, and fade.json aside a delete always works.
Effect(o) ==
    /\ disk' = IF o.home = "session" /\ stage # "removed"
               THEN [disk EXCEPT ![o.path] = o.says] ELSE disk
    /\ own' = IF o.home = "own"
              THEN [own EXCEPT ![o.path] =
                      IF o.kind = "delete" THEN "deleted" ELSE "overwritten"]
              ELSE own

\* Mutant of Installed: the first write is not followed by an observer.
NeverInstalled(o) == observer

\* After the first write of a text its observer is installed, unless the path
\* has one.
Installed(o) ==
    IF o.kind = "write" /\ o.path \in Texts /\ observer[o.path] = None
    THEN [observer EXCEPT ![o.path] = o.stamp] ELSE observer

\* An operation of handler r completes, or fails, and the handler runs on to
\* its next operation or to its end.
Resume(r, fails) ==
    /\ fails => DiskFails
    /\ IF fails THEN UNCHANGED <<disk, own>> ELSE Effect(r.op)
    /\ LET next == Stretches(r.dels, r.adds, value, content)
       IN  \/ /\ next = {}
              /\ runs' = runs \ {r}
              /\ observer' = Installed(r.op)
              /\ raced' = raced \cup {p \in {r.op.path} : fails}
              /\ UNCHANGED timer
           \/ \E s \in next :
              LET off == Unobserved(s.op)
              IN  /\ runs' = (runs \ {r}) \cup
                         {[id |-> r.id, op |-> s.op, dels |-> s.dels, adds |-> s.adds]}
                  /\ observer' = [p \in Paths |->
                         IF p \in off THEN None ELSE Installed(r.op)[p]]
                  /\ timer' = [p \in Paths |-> timer[p] /\ p \notin off]
                  /\ raced' = raced \cup {p \in {r.op.path} : fails}
                       \cup {p \in {s.op.path} :
                              \E o \in {x.op : x \in runs \ {r}} \cup writes : o.path = p}
    /\ UNCHANGED <<clock, value, content, stage, writes>>

\* Mutant of TimerFires: the text is read when the timer is armed, one edit
\* too early.
TimerWritesOld(p) ==
    /\ timer[p]
    /\ timer' = [timer EXCEPT ![p] = FALSE]
    /\ writes' = writes \cup {WriteOp(p, observer[p], observer[p])}
    /\ raced' = raced \cup {q \in {p} : Busy(p)}
    /\ UNCHANGED <<clock, value, content, disk, own, stage, runs, observer>>

\* The debounce timer fires and starts a write of what the text says now.
TimerFires(p) ==
    /\ timer[p]
    /\ timer' = [timer EXCEPT ![p] = FALSE]
    /\ writes' = writes \cup {WriteOp(p, observer[p], content[p][observer[p]])}
    /\ raced' = raced \cup {q \in {p} : Busy(p)}
    /\ UNCHANGED <<clock, value, content, disk, own, stage, runs, observer>>

\* A debounced write completes or fails.
WriteDone(o, fails) ==
    /\ fails => DiskFails
    /\ writes' = writes \ {o}
    /\ IF fails THEN UNCHANGED <<disk, own>> ELSE Effect(o)
    /\ raced' = raced \cup {p \in {o.path} : fails}
    /\ UNCHANGED <<clock, value, content, stage, runs, observer, timer>>

\* The guest leaves: destroy unsubscribes and drops observers and timers, in
\* the same turn in which onGuestLeaveEnd starts.  The handlers run on.
Leave ==
    /\ stage = "live"
    /\ stage' = "left"
    /\ observer' = [p \in Paths |-> None]
    /\ timer' = [p \in Paths |-> FALSE]
    /\ UNCHANGED <<clock, value, content, disk, own, runs, writes, raced>>

\* onGuestLeaveEnd: setActiveProject(previous), then deleteOpfsProject.
SwitchBack ==
    /\ stage = "left"
    /\ stage' = "switched"
    /\ UNCHANGED <<clock, value, content, disk, own, runs, observer, timer,
                   writes, raced>>

RemoveTransient ==
    /\ stage = "switched"
    /\ stage' = "removed"
    /\ disk' = [p \in Paths |-> Absent]
    /\ UNCHANGED <<clock, value, content, own, runs, observer, timer, writes,
                   raced>>

Next ==
    \/ \E p \in Paths : Edit(p) \/ TimerFires(p)
    \/ \E dels, adds \in SUBSET Paths : MapEvent(dels, adds)
    \/ \E r \in runs, fails \in BOOLEAN : Resume(r, fails)
    \/ \E o \in writes, fails \in BOOLEAN : WriteDone(o, fails)
    \/ Leave \/ SwitchBack \/ RemoveTransient

Spec == Init /\ [][Next]_vars

\* Timers fire and disk operations complete: one after the other, in any order.
Due ==
    \/ \E p \in Paths : TimerFires(p)
    \/ \E r \in runs, fails \in BOOLEAN : Resume(r, fails)
    \/ \E o \in writes, fails \in BOOLEAN : WriteDone(o, fails)

Fairness == WF_vars(Due)

FairSpec == Spec /\ Fairness

-----------------------------------------------------------------------------
Says == 0 .. MaxChanges

Ops == [kind : {"delete", "write"}, path : Paths, stamp : 0 .. MaxChanges,
        says : {Absent} \cup Says, home : {"session", "own"}]

\* The type invariant.
TypeOK ==
    /\ clock \in 0 .. MaxChanges
    /\ value \in [Paths -> 0 .. MaxChanges]
    /\ content \in [Paths -> [Stamps -> Says]]
    /\ disk \in [Paths -> {Absent} \cup Says]
    /\ own \in [Paths -> {"mine", "overwritten", "deleted"}]
    /\ stage \in {"live", "left", "switched", "removed"}
    /\ runs \subseteq [id : Stamps, op : Ops, dels : SUBSET Paths, adds : SUBSET Paths]
    /\ observer \in [Paths -> 0 .. MaxChanges]
    /\ timer \in [Paths -> BOOLEAN]
    /\ \A p \in Paths : timer[p] => observer[p] # None
    /\ writes \subseteq Ops
    /\ raced \subseteq Paths

\* The file on disk is what the shared document says.
Mirrored(p) == disk[p] = IF value[p] = None THEN Absent ELSE content[p][value[p]]

\* Nothing is under way for a path.
Settled(p) == ~timer[p] /\ ~Busy(p) /\ \A r \in runs : p \notin r.dels \cup r.adds

\* A text is watched by the observer of the entry the document has.
Watched(p) == p \in Texts => observer[p] = value[p]

\* Once a path has settled its file is what the document says, and an off-screen
\* text is watched by the observer of its present entry, so that the next edit is
\* heard - unless two activities overlapped on that very path: other paths, however
\* many handlers and writes interleave on them, cannot make it stale.
SettledIsMirrored ==
    stage = "live" => \A p \in Paths \ raced : Settled(p) => Mirrored(p) /\ Watched(p)

\* Observers and timers die with the session: no debounced write ever goes to
\* the project the guest returns to.
DebounceEndsWithSession == \A o \in writes : o.home = "session"

\* Every change reaches the disk, unless activities overlapped on the path or
\* the guest left.
EventuallyMirrored ==
    <>[](stage # "live" \/ \A p \in Paths \ raced : Mirrored(p))

\* What the comments promise: the guest's own project is not touched by the
\* session it visits.
SandboxHolds == \A p \in Paths : own[p] = "mine"
=============================================================================
