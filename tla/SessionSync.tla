---------------------------- MODULE SessionSync ----------------------------
(***************************************************************************)
(* The document of a live session (Playground/src/sharing/collab/          *)
(* session.ts): the replicas of a host and a guest, the pump of updates    *)
(* and the handshake that bring them together, the host's editor and disk  *)
(* behind the document, and forceSync, which makes the document what is on *)
(* the host's disk while everybody's editor is locked.                     *)
(*                                                                         *)
(* Yjs is external: a replica is the set of operations it has integrated,  *)
(* an update is a set of operations, and every replica reads the same from *)
(* the same set.  A text is the set of the strokes typed into it; strokes  *)
(* add text, only forceSync takes any away.  What a guest writes to its    *)
(* own disk is GuestMirror's subject.                                      *)
(***************************************************************************)
EXTENDS Integers, Sequences, FiniteSets

CONSTANTS
    Paths,
    Present,      \* the files on the host's disk at the start
    NoPath,
    MaxStrokes,   \* bound on strokes
    MaxSyncs,     \* bound on forced syncs
    MaxLinks      \* bound on the times a connection comes up

\* What the constants must be; MCWorkbench assumes it.
SessionAssumption == NoPath \notin Paths /\ Present \subseteq Paths /\ MaxStrokes \in Nat

Absent == {-1}
Strokes == 1 .. MaxStrokes

VARIABLES
    disk,         \* host: the files of the workspace, as sets of strokes
    model,        \* host: the editor's models, Absent when there is none
    dirty,        \* host: models with an armed save timer
    active,       \* host: the file in the editor, whose model is bound
    bound,        \* host: the text it is bound to, by number
    doc,          \* the replicas: doc["host"], doc["guest"]
    wire,         \* messages on their way to the host and to the guest
    peered,       \* the peers are connected
    up,           \* the host has not ended the session
    runs,         \* forceSyncs under way
    syncs,        \* forceSyncs started
    links,        \* connections made
    strokes,      \* strokes made
    gone,         \* ghost: strokes in files the host deleted
    touched       \* ghost: paths that changed since the last copy began, or all

syncVars == <<disk, model, dirty, active, bound, doc, wire, peered, up, runs, syncs,
              links, strokes, gone, touched>>
editor == <<model, dirty, active, bound>>

Peer == {"host", "guest"}
Other(x) == IF x = "host" THEN "guest" ELSE "host"

-----------------------------------------------------------------------------
(* The document.  Its maps are only ever set by the host, so that the last *)
(* number of a key wins.                                                   *)

Entry(p, n) == <<"entry", p, n, 1>>
NoEntry(p, n) == <<"entry", p, n, 0>>
Ins(p, n, id, v) == <<"ins", p, n, id, v>>
Del(p, n, id, v) == <<"del", p, n, id, v>>
LockOn(n) == <<"lock", NoPath, n, 1>>
LockOff(n) == <<"lock", NoPath, n, 0>>

Numbers(d, k, p) == {0} \cup {o[3] : o \in {q \in d : q[1] = k /\ q[2] = p}}
Last(S) == CHOOSE n \in S : \A m \in S : m <= n

\* The number of the text of p, 0 when the files map has none.
DocText(d, p) == LET n == Last(Numbers(d, "entry", p))
              IN  IF Entry(p, n) \in d THEN n ELSE 0

\* getSyncProgress() != null
Locked(d) == LockOn(Last(Numbers(d, "lock", NoPath))) \in d

\* The insertions of text n of p, and those that stand.
Inserted(d, p, n) == {o \in d : o[1] = "ins" /\ o[2] = p /\ o[3] = n}
Stands(d, p, n) == {o \in Inserted(d, p, n) : Del(p, n, o[4], o[5]) \notin d}

\* What the text of p says; Absent without one.
Says(d, p) ==
    LET n == DocText(d, p)
    IN  IF n = 0 THEN Absent ELSE {o[4] : o \in Stands(d, p, n)}

\* The operations that make the text of p say S: a new text, or one transaction
\* on the text there is.
NewText(d, p, S) == LET n == Last(Numbers(d, "entry", p)) + 1
                    IN  {Entry(p, n)} \cup {Ins(p, n, id, 0) : id \in S}
Rewrite(d, p, S) ==
    LET n == DocText(d, p)
        v == Last({0} \cup {o[5] : o \in Inserted(d, p, n)}) + 1
    IN  IF Says(d, p) = S THEN {}
        ELSE {Del(p, n, o[4], o[5]) : o \in Stands(d, p, n)} \cup {Ins(p, n, id, v) : id \in S}
Without(d, p) == IF DocText(d, p) = 0 THEN {} ELSE {NoEntry(p, DocText(d, p) + 1)}
SetLock(d) == {LockOn(Last(Numbers(d, "lock", NoPath)) + 1)}
LiftLock(d) == {LockOff(Last(Numbers(d, "lock", NoPath)) + 1)}

\* The 'update' pump: what x does itself is broadcast, what it received is not.
Does(x, ops) ==
    /\ doc' = [doc EXCEPT ![x] = @ \cup ops]
    /\ wire' = IF peered /\ ops # {} THEN [wire EXCEPT ![Other(x)] = Append(@, <<"ops", ops>>)]
               ELSE wire

SyncInit ==
    /\ disk = [p \in Paths |-> IF p \in Present THEN {} ELSE Absent]
    /\ model = [p \in Paths |-> Absent] /\ dirty = {} /\ active = NoPath /\ bound = 0
    /\ doc = [x \in Peer |-> IF x = "host" THEN {Entry(p, 1) : p \in Present} ELSE {}]
    /\ wire = [x \in Peer |-> <<>>]
    /\ peered = FALSE /\ up = TRUE
    /\ runs = {} /\ syncs = 0 /\ links = 0 /\ strokes = 0
    /\ gone = {} /\ touched = Paths

-----------------------------------------------------------------------------
(* Connections: the transport's peer events.                               *)

\* Mutant of PeersJoin: only the host asks for what it lacks.
HostAsks ==
    /\ up /\ ~peered /\ links < MaxLinks
    /\ peered' = TRUE /\ links' = links + 1
    /\ wire' = [x \in Peer |-> IF x = "guest" THEN <<<<"ask", doc["host"]>>>> ELSE <<>>]
    /\ UNCHANGED <<disk, editor, doc, up, runs, syncs, strokes, gone, touched>>

\* onPeerJoin at both ends: each sends syncStep1, what it has.
PeersJoin ==
    /\ up /\ ~peered /\ links < MaxLinks
    /\ peered' = TRUE /\ links' = links + 1
    /\ wire' = [x \in Peer |-> <<<<"ask", doc[Other(x)]>>>>]
    /\ UNCHANGED <<disk, editor, doc, up, runs, syncs, strokes, gone, touched>>

\* The connection breaks, with what was on its way.
PeersPart ==
    /\ peered
    /\ peered' = FALSE
    /\ wire' = [x \in Peer |-> <<>>]
    /\ UNCHANGED <<disk, editor, doc, up, runs, syncs, links, strokes, gone, touched>>

\* destroy at the host: a sync under way stops short, unheard.
HostLeaves ==
    /\ up
    /\ up' = FALSE /\ peered' = FALSE /\ runs' = {}
    /\ wire' = [x \in Peer |-> <<>>]
    /\ UNCHANGED <<disk, editor, doc, syncs, links, strokes, gone, touched>>

\* MSG_SYNC with syncStep1: answered with what the other lacks.
Answer(x) ==
    /\ wire[x] # <<>> /\ Head(wire[x])[1] = "ask"
    /\ wire' = [wire EXCEPT ![x] = Tail(@),
                            ![Other(x)] = Append(@, <<"ops", doc[x] \ Head(wire[x])[2]>>)]
    /\ UNCHANGED <<disk, editor, doc, peered, up, runs, syncs, links, strokes, gone, touched>>

\* What the host's binding does about a document that has become d: the model
\* takes its text on, and the save timer is armed.  A text that is no longer in
\* the document changes no more, and the host stays bound to it.
Follows(d) ==
    LET now == Says(d, active)
    IN  IF bound > 0 /\ DocText(d, active) = bound /\ now # model[active]
        THEN model' = [model EXCEPT ![active] = now] /\ dirty' = dirty \cup {active}
        ELSE UNCHANGED <<model, dirty>>

\* MSG_SYNC with an update.
Integrate(x) ==
    /\ wire[x] # <<>> /\ Head(wire[x])[1] = "ops"
    /\ wire' = [wire EXCEPT ![x] = Tail(@)]
    /\ doc' = [doc EXCEPT ![x] = @ \cup Head(wire[x])[2]]
    /\ Follows(doc'["host"])
    /\ touched' = touched \cup {p \in Paths : Says(doc'[x], p) # Says(doc[x], p) /\ x = "host"}
    /\ UNCHANGED <<disk, active, bound, peered, up, runs, syncs, links, strokes, gone>>

-----------------------------------------------------------------------------
(* The host's editor and workspace.                                        *)

\* openFile, notifyFileOpened and rebindActiveFile: the text is what the model
\* says if there is none; otherwise the model becomes what the text says.
HostOpens(p) ==
    LET shown == IF model[p] = Absent THEN disk[p] ELSE model[p]
        now == IF DocText(doc["host"], p) = 0 THEN shown ELSE Says(doc["host"], p)
    IN  /\ up /\ p # active /\ disk[p] # Absent
        /\ Does("host", IF DocText(doc["host"], p) = 0 THEN NewText(doc["host"], p, shown) ELSE {})
        /\ active' = p /\ bound' = DocText(doc'["host"], p)
        /\ model' = [model EXCEPT ![p] = now]
        /\ dirty' = dirty \cup {q \in {p} : now # shown}
        /\ touched' = touched \cup {p}
        /\ UNCHANGED <<disk, peered, up, runs, syncs, links, strokes, gone>>

\* The host types in the bound model, when its editor is not read-only.
HostTypes ==
    /\ up /\ active # NoPath /\ ~Locked(doc["host"])
    /\ strokes < MaxStrokes /\ strokes' = strokes + 1
    /\ model' = [model EXCEPT ![active] = @ \cup {strokes + 1}]
    /\ dirty' = dirty \cup {active}
    /\ Does("host", {Ins(active, bound, strokes + 1, 0)})
    /\ touched' = touched \cup {active}
    /\ UNCHANGED <<disk, active, bound, peered, up, runs, syncs, links, gone>>

\* A guest types in any text it has, connected or not.
GuestTypes(p) ==
    /\ links > 0 /\ DocText(doc["guest"], p) # 0 /\ ~Locked(doc["guest"])
    /\ strokes < MaxStrokes /\ strokes' = strokes + 1
    /\ Does("guest", {Ins(p, DocText(doc["guest"], p), strokes + 1, 0)})
    /\ touched' = touched \cup {p}
    /\ UNCHANGED <<disk, editor, peered, up, runs, syncs, links, gone>>

\* The autosave of the editor.
AutoSave(p) ==
    /\ p \in dirty
    /\ disk' = [disk EXCEPT ![p] = model[p]]
    /\ dirty' = dirty \ {p}
    /\ touched' = touched \cup {p}
    /\ UNCHANGED <<model, active, bound, doc, wire, peered, up, runs, syncs, links, strokes, gone>>

\* Beside the session, the host makes a file without opening it.
HostCreates(p) ==
    /\ disk[p] = Absent
    /\ strokes < MaxStrokes /\ strokes' = strokes + 1
    /\ disk' = [disk EXCEPT ![p] = {strokes + 1}]
    /\ touched' = touched \cup {p}
    /\ UNCHANGED <<editor, doc, wire, peered, up, runs, syncs, links, gone>>

\* Beside the session, the host deletes a file; the document is not told.
HostDeletes(p) ==
    /\ disk[p] # Absent
    /\ disk' = [disk EXCEPT ![p] = Absent]
    /\ model' = [model EXCEPT ![p] = Absent]
    /\ dirty' = dirty \ {p}
    /\ active' = (IF active = p THEN NoPath ELSE active)
    /\ bound' = (IF active = p THEN 0 ELSE bound)
    /\ gone' = gone \cup (Strokes \cap (disk[p] \cup model[p] \cup
                 UNION {Says(doc[x], p) : x \in Peer}))
    /\ touched' = touched \cup {p}
    /\ UNCHANGED <<doc, wire, peered, up, runs, syncs, links, strokes>>

-----------------------------------------------------------------------------
(* forceSync.                                                              *)

\* The check for a sync under way, up to the first await.
ForceSync ==
    /\ up /\ syncs < MaxSyncs /\ ~Locked(doc["host"])
    /\ syncs' = syncs + 1
    /\ runs' = runs \cup {[id |-> syncs + 1, todo |-> {NoPath}, orphans |-> {}]}
    /\ UNCHANGED <<disk, editor, doc, wire, peered, up, links, strokes, gone, touched>>

Listing(r) == r.todo = {NoPath}

\* listWorkspaceFiles has answered: the lock goes on.
Listed(r) ==
    LET files == {p \in Paths : disk[p] # Absent}
    IN  /\ Listing(r)
        /\ runs' = (runs \ {r}) \cup {[r EXCEPT !.todo = files,
              !.orphans = {p \in Paths \ files : DocText(doc["host"], p) # 0}]}
        /\ Does("host", SetLock(doc["host"]))
        /\ touched' = IF runs = {r} THEN dirty \cup {o[2] : o \in doc["guest"] \ doc["host"]}
                      ELSE Paths
        /\ UNCHANGED <<disk, editor, peered, up, syncs, links, strokes, gone>>

\* Mutant of CopyOps: a text that exists is left as it is.
CopyMissing(p) == IF DocText(doc["host"], p) = 0 THEN NewText(doc["host"], p, disk[p]) ELSE {}

\* What copying p does to the document; a file that cannot be read is skipped.
CopyOps(p) ==
    IF disk[p] = Absent THEN {}
    ELSE IF DocText(doc["host"], p) = 0 THEN NewText(doc["host"], p, disk[p])
    ELSE Rewrite(doc["host"], p, disk[p])

\* One file has been read.  The progress goes into the map again now and then,
\* which locks a document that another sync has unlocked.
Copy(r, p, tells) ==
    LET ops == CopyOps(p)
        lock == IF tells /\ ~Locked(doc["host"]) THEN SetLock(doc["host"]) ELSE {}
    IN  /\ ~Listing(r) /\ p \in r.todo
        /\ runs' = (runs \ {r}) \cup {[r EXCEPT !.todo = @ \ {p}]}
        /\ Does("host", ops \cup lock)
        /\ Follows(doc'["host"])
        /\ UNCHANGED <<disk, active, bound, peered, up, syncs, links, strokes, gone, touched>>

\* Mutant of FinishSync: the lock stays when files were to be removed.
FinishLocked(r) ==
    /\ ~Listing(r) /\ r.todo = {}
    /\ runs' = runs \ {r}
    /\ LET ops == UNION {Without(doc["host"], p) : p \in r.orphans}
       IN  Does("host", ops \cup (IF r.orphans = {} THEN LiftLock(doc["host"]) ELSE {}))
    /\ UNCHANGED <<disk, editor, peered, up, syncs, links, strokes, gone, touched>>

\* The texts without a file are removed, and the lock is lifted.
FinishSync(r) ==
    /\ ~Listing(r) /\ r.todo = {}
    /\ runs' = runs \ {r}
    /\ LET ops == UNION {Without(doc["host"], p) : p \in r.orphans}
       IN  Does("host", ops \cup LiftLock(doc["host"]))
    /\ UNCHANGED <<disk, editor, peered, up, syncs, links, strokes, gone, touched>>

SyncNext ==
    \/ PeersJoin \/ PeersPart \/ HostLeaves
    \/ \E x \in Peer : Answer(x) \/ Integrate(x)
    \/ HostTypes \/ ForceSync
    \/ \E p \in Paths :
        HostOpens(p) \/ GuestTypes(p) \/ AutoSave(p) \/ HostCreates(p) \/ HostDeletes(p)
    \/ \E r \in runs :
        \/ Listed(r) \/ FinishSync(r)
        \/ \E p \in r.todo, tells \in BOOLEAN : Copy(r, p, tells)

SyncSpec == SyncInit /\ [][SyncNext]_syncVars

-----------------------------------------------------------------------------
Contents == {Absent} \cup SUBSET Strokes

SyncTypeOK ==
    /\ disk \in [Paths -> Contents] /\ model \in [Paths -> Contents]
    /\ dirty \subseteq {p \in Paths : model[p] # Absent}
    /\ active \in {p \in Paths : model[p] # Absent} \cup {NoPath}
    /\ bound > 0 <=> active # NoPath
    /\ peered => up
    /\ \A x \in Peer : ~peered => wire[x] = <<>>
    /\ \A r \in runs : r.id \in 1 .. syncs /\ r.orphans \subseteq Paths

Quiet == \A x \in Peer : wire[x] = <<>>

(* Peers that are connected and have nothing on its way hold the same      *)
(* document, whatever was lost while they were apart and whatever each of  *)
(* them typed meanwhile (session.ts onPeerJoin, onWireMessage, onYUpdate). *)
Converged == peered /\ Quiet => doc["host"] = doc["guest"]

(* Once every sync is over and the connected guest has heard all, nobody's *)
(* editor is read-only on its account, though two syncs may have run at    *)
(* once (session.ts forceSync, applyReadOnlyToEditor).                     *)
LockLifts ==
    up /\ runs = {} => /\ ~Locked(doc["host"])
                       /\ peered /\ Quiet => ~Locked(doc["guest"])

(* After a forced sync that no other overlapped, a path nobody has touched *)
(* since it began to copy reads the same in the document as on the host's  *)
(* disk, and is missing from both or from neither, whatever became of the  *)
(* file and its text before (session.ts forceSync).                        *)
SyncMatchesDisk ==
    up /\ runs = {} => \A p \in Paths \ touched : Says(doc["host"], p) = disk[p]

(* "owns the source of truth; ... their normal autosave loop persists      *)
(* changes back to OPFS" (session.ts:7-9): a stroke nobody deleted is not  *)
(* lost, it is in somebody's replica, in the host's editor or on its disk. *)
StrokesSurvive ==
    \A id \in 1 .. strokes : id \in gone \/ \E p \in Paths :
        \/ id \in disk[p] \cup model[p]
        \/ \E x \in Peer : id \in Says(doc[x], p)
=============================================================================
