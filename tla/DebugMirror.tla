----------------------------- MODULE DebugMirror -----------------------------
(***************************************************************************)
(* A debug session shared over a live session (Playground/src/main.ts,     *)
(* debug/*.ts).  The peer who debugs, the initiator, writes what its       *)
(* debugger does into a shared map; the others point their debugger panel  *)
(* at a remote adapter that reads the map and sends commands back.         *)
(*                                                                         *)
(* A page talks to its VM, an iframe, over two FIFO channels, and to each  *)
(* other page over another two.  What a page does between two awaits is    *)
(* one action.  The shared map is a Yjs map: of concurrent writes to a key *)
(* the one of the higher client id stays, and a deletion removes the value *)
(* it saw.                                                                 *)
(***************************************************************************)
EXTENDS Integers, Sequences, SequencesExt

CONSTANTS
    Peers,
    Hosts,        \* those who start a debug session
    ClientID,     \* Yjs client ids
    NoOne,        \* no initiator
    MaxClicks,    \* bound on the buttons pressed once a session is on
    MaxStarts,    \* bound on sessions
    MaxStops      \* bound on the stops of a VM

\* What the constants must be; MCProject assumes it.
DebugMirrorAssumption ==
    /\ Hosts \subseteq Peers /\ NoOne \notin Peers
    /\ ClientID \in [Peers -> Nat]
    /\ \A p, q \in Peers : ClientID[p] = ClientID[q] => p = q
    /\ MaxClicks \in Nat /\ MaxStarts \in Nat /\ MaxStops \in Nat

Control == {"continue", "step", "pause"}
Going == {"running", "stepping"}

VARIABLES
    vm,           \* the program in the peer's iframe, and where it last stopped
    toVm,         \* requests to the iframe
    toPage,       \* its answers and events
    active,       \* debugSessionActive
    paused,       \* debugPaused
    fatal,        \* debugFatalException
    phase,        \* of beginDebugSession
    inner,        \* the adapter the facade points at
    doc,          \* the peer's replica of debugState
    net,          \* messages between peers
    clicks, starts,
    late,         \* ghost: the peer's last broadcast was out of date
    contested,    \* ghost: a claim, or an answer, has met another session
    cut           \* ghost: an unwound program has ended a session its page still announces

vmvars == <<vm, toVm, toPage>>
ui == <<active, paused, fatal, phase, inner>>
debugVars == <<vmvars, ui, doc, net, clicks, starts, late, contested, cut>>

Keys == {"initiator", "paused", "frames"}
Unset == [initiator |-> NoOne, paused |-> FALSE, frames |-> 0]

DebugInit ==
    /\ vm = [p \in Peers |-> [run |-> "none", at |-> 0]]
    /\ toVm = [p \in Peers |-> <<>>]
    /\ toPage = [p \in Peers |-> <<>>]
    /\ active = [p \in Peers |-> FALSE]
    /\ paused = [p \in Peers |-> FALSE]
    /\ fatal = [p \in Peers |-> FALSE]
    /\ phase = [p \in Peers |-> "idle"]
    /\ inner = [p \in Peers |-> "local"]
    /\ doc = [p \in Peers |-> [k \in Keys |-> [path |-> <<>>, val |-> Unset[k]]]]
    /\ net = [p \in Peers |-> [q \in Peers |-> <<>>]]
    /\ clicks = 0 /\ starts = 0
    /\ late = [p \in Peers |-> FALSE]
    /\ contested = FALSE /\ cut = FALSE

-----------------------------------------------------------------------------
\* A value of a Yjs map sits behind the value its writer replaced; `path` names
\* the writers from the first one on.  The last in document order counts.
Beyond(s, t) ==
    \/ IsStrictPrefix(t, s)
    \/ \E i \in (DOMAIN s) \cap (DOMAIN t) :
          s[i] > t[i] /\ \A j \in 1 .. i - 1 : s[j] = t[j]

\* Two replicas of a key: the later value, or its deletion.
Joined(k, r, s) == CASE Beyond(r.path, s.path) -> r
                     [] Beyond(s.path, r.path) -> s
                     [] OTHER -> IF r.val = Unset[k] THEN r ELSE s

Says(p, k) == doc[p][k].val
Initiator(p) == Says(p, "initiator")

\* isLocalDebugInitiator, and the gate of broadcastDebugState.
Mine(p) == Initiator(p) \in {NoOne, p}

\* p's replica once it has written `patch`, or cleared the map.
Set(p, patch) == [k \in Keys |->
    IF k \in DOMAIN patch
    THEN [path |-> Append(doc[p][k].path, ClientID[p]), val |-> patch[k]]
    ELSE doc[p][k]]
Broadcast(p, patch) == IF Mine(p) THEN Set(p, patch) ELSE doc[p]
Cleared(p) == IF Mine(p) THEN [k \in Keys |-> [doc[p][k] EXCEPT !.val = Unset[k]]]
              ELSE doc[p]

\* The replica of p becomes d, and the keys it has changed are sent to everyone;
\* then `answer` goes to the peer whose request has been served.
Reply(p, by, op) == [q \in Peers |-> IF q = by /\ q # p THEN <<[kind |-> "reply", op |-> op]>> ELSE <<>>]
Nothing == [q \in Peers |-> <<>>]
Changed(p, d) == {k \in Keys : d[k] # doc[p][k]}
Update(p, d) == [kind |-> "doc", doc |-> [k \in Changed(p, d) |-> d[k]]]
Sending(p, d, answer) == [q \in Peers |->
    net[p][q] \o (IF q = p \/ Changed(p, d) = {} THEN <<>> ELSE <<Update(p, d)>>) \o answer[q]]
PublishMap(p, d, answer) ==
    /\ doc' = [doc EXCEPT ![p] = d]
    /\ net' = [net EXCEPT ![p] = Sending(p, d, answer)]

\* Mutant of Swap: a peer with a session of its own keeps its adapter.
SwapUnlessActive(p, d) ==
    LET init == d["initiator"].val IN
    /\ inner' = [inner EXCEPT ![p] = IF init \notin {NoOne, p} /\ ~active[p] THEN "remote" ELSE "local"]
    /\ active' = [active EXCEPT ![p] = @ \/ init \notin {NoOne, p}]
    /\ UNCHANGED <<paused, fatal>>

\* swapOnDebugStateChange: the adapter and the flags follow the initiator.
Swap(p, d) ==
    LET init == d["initiator"].val
        observe == init \notin {NoOne, p}
        release == ~observe /\ inner[p] = "remote" /\ init # p
        flag(f, v) == [f EXCEPT ![p] = IF observe THEN v ELSE @ /\ ~release]
    IN  /\ inner' = [inner EXCEPT ![p] = IF observe THEN "remote" ELSE "local"]
        /\ active' = flag(active, TRUE)
        /\ paused' = flag(paused, d["paused"].val)
        /\ fatal' = [fatal EXCEPT ![p] = @ /\ ~release]

Post(p, op, by) == toVm' = [toVm EXCEPT ![p] = Append(@, [op |-> op, by |-> by])]
Tell(p, m) == toPage' = [toPage EXCEPT ![p] = Append(@, m)]

-----------------------------------------------------------------------------
\* The user starts a session (a restart is Stop and then this).  Through a
\* remote adapter the start is refused.
Debug(p) ==
    /\ p \in Hosts /\ phase[p] = "idle" /\ ~active[p] /\ inner[p] = "local"
    /\ starts < MaxStarts /\ starts' = starts + 1
    /\ phase' = [phase EXCEPT ![p] = "launching"]
    /\ Post(p, "launch", p)
    /\ UNCHANGED <<vm, toPage, active, paused, fatal, inner, doc, net, clicks, late, contested, cut>>

\* Continue, Step or Pause is pressed.  An observer's goes to the initiator.
Press(p, op) ==
    /\ op \in Control /\ clicks < MaxClicks /\ clicks' = clicks + 1
    /\ active[p] /\ ~fatal[p] /\ (paused[p] <=> op # "pause")
    /\ \/ inner[p] = "local" /\ Post(p, op, p) /\ UNCHANGED net
       \/ /\ inner[p] = "remote" /\ Initiator(p) # NoOne
          /\ net' = [net EXCEPT ![p][Initiator(p)] = Append(@, [kind |-> "rpc", op |-> op])]
          /\ UNCHANGED toVm
    /\ UNCHANGED <<vm, toPage, ui, doc, starts, late, contested, cut>>

\* stopAll: the flags drop before the program is told.
Stop(p) ==
    /\ active[p] /\ clicks < MaxClicks /\ clicks' = clicks + 1
    /\ active' = [active EXCEPT ![p] = FALSE]
    /\ paused' = [paused EXCEPT ![p] = FALSE]
    /\ fatal' = [fatal EXCEPT ![p] = FALSE]
    /\ \/ inner[p] = "local" /\ Post(p, "terminate", p) /\ UNCHANGED net
       \/ /\ inner[p] = "remote"
          /\ net' = [net EXCEPT ![p][Initiator(p)] = Append(@, [kind |-> "rpc", op |-> "terminate"])]
          /\ UNCHANGED toVm
    /\ UNCHANGED <<vm, toPage, phase, inner, doc, starts, late, contested, cut>>

-----------------------------------------------------------------------------
\* The iframe serves a request.  A crashed program never answers a control.
VmTakes(p) ==
    LET r == Head(toVm[p])  alive == vm[p].run \in Going \cup {"paused"} IN
    /\ toVm[p] # <<>>
    /\ toVm' = [toVm EXCEPT ![p] = Tail(@)]
    /\ \/ /\ r.op = "launch"
          /\ \/ vm' = [vm EXCEPT ![p].run = "paused"] /\ Tell(p, [op |-> "launched"])
             \/ vm' = [vm EXCEPT ![p].run = "none"] /\ Tell(p, [op |-> "refused"])
       \/ /\ r.op \in {"enter", "continue", "step"} /\ vm[p].run # "crashed"
          /\ vm' = [vm EXCEPT ![p].run = IF ~alive THEN @
                                      ELSE IF r.op = "step" THEN "stepping" ELSE "running"]
          /\ Tell(p, r)
       \/ /\ r.op = "pause" /\ vm[p].run # "crashed"
          /\ vm' = [vm EXCEPT ![p].run = IF alive THEN "paused" ELSE @]
          /\ Tell(p, r)
       \/ /\ r.op \in Control \cup {"enter"} /\ vm[p].run = "crashed"
          /\ UNCHANGED <<vm, toPage>>
       \/ /\ r.op = "frames" /\ UNCHANGED vm
          /\ Tell(p, [op |-> "frames", by |-> r.by, at |-> vm[p].at])
       \/ r.op = "scopes" /\ UNCHANGED vm /\ Tell(p, r)
       \/ /\ r.op = "terminate"
          /\ vm' = [vm EXCEPT ![p].run = "none"]
          /\ \/ Tell(p, r)
             \/ alive /\ toPage' = [toPage EXCEPT ![p] = @ \o <<r, [op |-> "exited"]>>]
             \/ vm[p].run \in Going /\ toPage' = [toPage EXCEPT ![p] = @ \o <<r, [op |-> "unwound"]>>]
       \/ /\ r.op = "halt" /\ UNCHANGED toPage
          /\ vm' = [vm EXCEPT ![p].run = "none"]
    /\ UNCHANGED <<ui, doc, net, clicks, starts, late, contested, cut>>

\* The program stops at a breakpoint, or where a step lands.
VmStops(p) ==
    /\ vm[p].run \in Going /\ vm[p].at < MaxStops
    /\ vm' = [vm EXCEPT ![p] = [run |-> "paused", at |-> @.at + 1]]
    /\ Tell(p, [op |-> "stopped"])
    /\ UNCHANGED <<toVm, ui, doc, net, clicks, starts, late, contested, cut>>

\* The program ends, or fails.
VmEnds(p) ==
    /\ vm[p].run \in Going
    /\ \/ vm' = [vm EXCEPT ![p].run = "none"] /\ Tell(p, [op |-> "exited"])
       \/ vm' = [vm EXCEPT ![p].run = "crashed"] /\ Tell(p, [op |-> "crashed"])
    /\ UNCHANGED <<toVm, ui, doc, net, clicks, starts, late, contested, cut>>

-----------------------------------------------------------------------------
\* The page takes what the iframe sent; r is the message.
Takes(p, op) == toPage[p] # <<>> /\ Head(toPage[p]).op = op
Taken(p) == toPage' = [toPage EXCEPT ![p] = Tail(@)]

\* beginDebugSession after its start: the role is claimed, whoever held it, and
\* the program let go.
Launched(p) ==
    /\ Takes(p, "launched") /\ Taken(p)
    /\ phase' = [phase EXCEPT ![p] = "entering"]
    /\ active' = [active EXCEPT ![p] = TRUE]
    /\ paused' = [paused EXCEPT ![p] = TRUE]
    /\ fatal' = [fatal EXCEPT ![p] = FALSE]
    /\ inner' = [inner EXCEPT ![p] = "local"]
    /\ PublishMap(p, Set(p, [initiator |-> p, paused |-> TRUE]), Nothing)
    /\ Post(p, "enter", p)
    /\ late' = [late EXCEPT ![p] = FALSE]
    /\ UNCHANGED <<vm, clicks, starts, contested, cut>>

Refused(p) ==
    /\ Takes(p, "refused") /\ Taken(p)
    /\ phase' = [phase EXCEPT ![p] = "idle"]
    /\ UNCHANGED <<vm, toVm, active, paused, fatal, inner, doc, net, clicks, starts, late, contested, cut>>

\* Mutant of Resumed: observers are not told.
ResumedQuietly(p) ==
    LET r == Head(toPage[p]) IN
    /\ (Takes(p, "continue") \/ Takes(p, "enter")) /\ Taken(p)
    /\ paused' = [paused EXCEPT ![p] = FALSE]
    /\ phase' = IF r.op = "enter" THEN [phase EXCEPT ![p] = "idle"] ELSE phase
    /\ PublishMap(p, doc[p], Reply(p, r.by, r.op))
    /\ UNCHANGED <<vm, toVm, active, fatal, inner, clicks, starts, late, contested, cut>>

\* dbg.continue() has returned: at the start, or a button, here or elsewhere.
Resumed(p) ==
    LET r == Head(toPage[p]) IN
    /\ (Takes(p, "continue") \/ Takes(p, "enter")) /\ Taken(p)
    /\ paused' = [paused EXCEPT ![p] = FALSE]
    /\ phase' = IF r.op = "enter" THEN [phase EXCEPT ![p] = "idle"] ELSE phase
    /\ PublishMap(p, Broadcast(p, [paused |-> FALSE]), Reply(p, r.by, r.op))
    /\ late' = [late EXCEPT ![p] = IF Mine(p) THEN ~active[p] ELSE @]
    /\ UNCHANGED <<vm, toVm, active, fatal, inner, clicks, starts, contested, cut>>

\* Mutant of Stepped: the panel goes on showing the stop.
SteppedStill(p) ==
    /\ Takes(p, "step") /\ Taken(p)
    /\ PublishMap(p, doc[p], Reply(p, Head(toPage[p]).by, "step"))
    /\ UNCHANGED <<vm, toVm, ui, clicks, starts, late, contested, cut>>

\* dbg.step() has returned.  Observers hear of it when the step lands.
Stepped(p) ==
    /\ Takes(p, "step") /\ Taken(p)
    /\ paused' = [paused EXCEPT ![p] = FALSE]
    /\ PublishMap(p, doc[p], Reply(p, Head(toPage[p]).by, "step"))
    /\ UNCHANGED <<vm, toVm, active, fatal, phase, inner, clicks, starts, late, contested, cut>>

\* dbg.pause() has returned, or a breakpoint or a step has been hit: the frames
\* are fetched.  The facade drops the events of an adapter it does not point at.
Paused(p) ==
    LET r == Head(toPage[p])
        event == r.op = "stopped"
        heard == event => inner[p] = "local"
        by == IF event THEN p ELSE r.by
    IN  /\ (Takes(p, "pause") \/ Takes(p, "stopped")) /\ Taken(p)
        /\ paused' = [paused EXCEPT ![p] = @ \/ heard]
        /\ IF inner[p] = "local"
           THEN Post(p, "frames", by) /\ UNCHANGED <<doc, net>>
           ELSE UNCHANGED toVm /\ PublishMap(p, doc[p], Reply(p, by, "pause"))
        /\ UNCHANGED <<vm, active, fatal, phase, inner, clicks, starts, late, contested, cut>>

\* fetchPausedFramesAndBroadcast, after its first await and after its second.
Framed(p) ==
    LET r == Head(toPage[p]) IN
    /\ Takes(p, "frames") /\ Taken(p)
    /\ IF Mine(p)
       THEN /\ toVm' = [toVm EXCEPT ![p] = Append(@, [op |-> "scopes", by |-> r.by, at |-> r.at])]
            /\ UNCHANGED <<doc, net>>
       ELSE UNCHANGED toVm /\ PublishMap(p, doc[p], Reply(p, r.by, "pause"))
    /\ UNCHANGED <<vm, ui, clicks, starts, late, contested, cut>>

\* Mutant of Snapshot: the line is counted from one twice.
SnapshotBelow(p) ==
    LET r == Head(toPage[p]) IN
    /\ Takes(p, "scopes") /\ Taken(p)
    /\ PublishMap(p, Broadcast(p, [paused |-> TRUE, frames |-> r.at + 1]), Reply(p, r.by, "pause"))
    /\ UNCHANGED <<vm, toVm, ui, clicks, starts, late, contested, cut>>

Snapshot(p) ==
    LET r == Head(toPage[p]) IN
    /\ Takes(p, "scopes") /\ Taken(p)
    /\ PublishMap(p, Broadcast(p, [paused |-> TRUE, frames |-> r.at]), Reply(p, r.by, "pause"))
    /\ late' = [late EXCEPT ![p] = IF Mine(p) THEN ~(active[p] /\ paused[p]) ELSE @]
    /\ UNCHANGED <<vm, toVm, ui, clicks, starts, contested, cut>>

\* Mutant of Exited: the shared map is left as it is.
ExitedSilently(p) ==
    LET heard == inner[p] = "local" IN
    /\ Takes(p, "exited") /\ Taken(p)
    /\ active' = [active EXCEPT ![p] = @ /\ ~heard]
    /\ paused' = [paused EXCEPT ![p] = @ /\ ~heard]
    /\ fatal' = [fatal EXCEPT ![p] = @ /\ ~heard]
    /\ UNCHANGED <<vm, toVm, doc, net, phase, inner, clicks, starts, late, contested, cut>>

\* The program has exited.
Exited(p) ==
    LET heard == inner[p] = "local" IN
    /\ Takes(p, "exited") /\ Taken(p)
    /\ active' = [active EXCEPT ![p] = @ /\ ~heard]
    /\ paused' = [paused EXCEPT ![p] = @ /\ ~heard]
    /\ fatal' = [fatal EXCEPT ![p] = @ /\ ~heard]
    /\ PublishMap(p, IF heard THEN Cleared(p) ELSE doc[p], Nothing)
    /\ UNCHANGED <<vm, toVm, phase, inner, clicks, starts, late, contested, cut>>

\* The error a program ends with when it is stopped in a wait: unlike an exit it
\* is not broadcast.
Unwound(p) ==
    LET heard == inner[p] = "local" IN
    /\ Takes(p, "unwound") /\ Taken(p)
    /\ active' = [active EXCEPT ![p] = @ /\ ~heard]
    /\ paused' = [paused EXCEPT ![p] = @ /\ ~heard]
    /\ fatal' = [fatal EXCEPT ![p] = @ /\ ~heard]
    /\ cut' = (cut \/ (heard /\ Initiator(p) = p))
    /\ UNCHANGED <<vm, toVm, doc, net, phase, inner, clicks, starts, late, contested>>

\* The program has failed: the session stays, for a look at its state.
Crashed(p) ==
    LET heard == inner[p] = "local" IN
    /\ Takes(p, "crashed") /\ Taken(p)
    /\ paused' = [paused EXCEPT ![p] = @ \/ heard]
    /\ fatal' = [fatal EXCEPT ![p] = @ \/ heard]
    /\ UNCHANGED <<vm, toVm, active, phase, inner, doc, net, clicks, starts, late, contested, cut>>

\* dbg.terminate() has returned: the rest of stopAll, or of the RPC.
Terminated(p) ==
    LET by == Head(toPage[p]).by IN
    /\ Takes(p, "terminate") /\ Taken(p)
    /\ IF by = p
       THEN PublishMap(p, Cleared(p), Nothing) /\ Post(p, "halt", p)
       ELSE PublishMap(p, doc[p], Reply(p, by, "terminate")) /\ UNCHANGED toVm
    /\ UNCHANGED <<vm, ui, clicks, starts, late, contested, cut>>

-----------------------------------------------------------------------------
\* A message of q arrives at p.
Arrives(p, q, kind) == net[q][p] # <<>> /\ Head(net[q][p]).kind = kind
Received(p, q) == net' = [net EXCEPT ![q][p] = Tail(@)]

\* p has a session of its own, starts one, or waits for answers of one.
Own(p) == active[p] \/ phase[p] # "idle" \/ vm[p].run # "none" \/ toVm[p] \o toPage[p] # <<>>

\* An update of the shared map.
Learn(p, q) ==
    LET news == Head(net[q][p]).doc
        d == [k \in Keys |-> IF k \in DOMAIN news THEN Joined(k, doc[p][k], news[k]) ELSE doc[p][k]]
    IN
    /\ Arrives(p, q, "doc") /\ Received(p, q)
    /\ doc' = [doc EXCEPT ![p] = d]
    /\ Swap(p, d)
    /\ contested' = (contested \/ (inner[p] # inner'[p] /\ inner[p] = "local" /\ Own(p)))
    /\ UNCHANGED <<vmvars, phase, clicks, starts, late, cut>>

\* An observer's command: debugRpcCheck, then the local adapter.
Serve(p, q) ==
    LET op == Head(net[q][p]).op IN
    /\ Arrives(p, q, "rpc")
    /\ IF active[p] /\ Initiator(p) = p
       THEN Received(p, q) /\ Post(p, op, q)
       ELSE /\ UNCHANGED toVm
            /\ net' = [net EXCEPT ![q][p] = Tail(@), ![p][q] = Append(@, [kind |-> "reply", op |-> "error"])]
    /\ UNCHANGED <<vm, toPage, ui, doc, clicks, starts, late, contested, cut>>

\* The answer reaches the observer, whose button handler goes on: as the
\* initiator's does, but the gate holds its writes back while somebody else is.
Answered(p, q) ==
    LET op == Head(net[q][p]).op
        d == CASE op = "continue" -> Broadcast(p, [paused |-> FALSE])
               [] op = "terminate" -> Cleared(p)
               [] OTHER -> doc[p]
    IN  /\ Arrives(p, q, "reply")
        /\ paused' = IF op \in Control THEN [paused EXCEPT ![p] = op = "pause"] ELSE paused
        /\ doc' = [doc EXCEPT ![p] = d]
        /\ net' = [net EXCEPT ![q][p] = Tail(@), ![p] = Sending(p, d, Nothing)]
        /\ CASE op = "pause" /\ inner[p] = "local" -> Post(p, "frames", p)
             [] op = "terminate" -> Post(p, "halt", p)
             [] OTHER -> UNCHANGED toVm
        /\ contested' = (contested \/ (inner[p] = "local" /\ Own(p)))
        /\ late' = [late EXCEPT ![p] = @ \/ d # doc[p]]
        /\ UNCHANGED <<vm, toPage, active, fatal, phase, inner, clicks, starts, cut>>

Page(p) ==
    \/ Launched(p) \/ Refused(p) \/ Resumed(p) \/ Stepped(p) \/ Paused(p)
    \/ Framed(p) \/ Snapshot(p) \/ Exited(p) \/ Unwound(p) \/ Crashed(p) \/ Terminated(p)

Meets(p, q) == Learn(p, q) \/ Serve(p, q) \/ Answered(p, q)

DebugNext ==
    \E p \in Peers :
        \/ Debug(p) \/ Stop(p) \/ \E op \in Control : Press(p, op)
        \/ VmTakes(p) \/ VmStops(p) \/ VmEnds(p) \/ Page(p)
        \/ \E q \in Peers : Meets(p, q)

DebugSpec == DebugInit /\ [][DebugNext]_debugVars

-----------------------------------------------------------------------------
Runs == Going \cup {"none", "paused", "crashed"}
Requests == Control \cup {"launch", "enter", "frames", "scopes", "terminate", "halt"}
Answers == (Requests \ {"launch", "halt"}) \cup {"launched", "refused", "stopped", "exited", "unwound", "crashed"}
Values == [initiator |-> Peers \cup {NoOne}, paused |-> BOOLEAN, frames |-> 0 .. MaxStops]

\* The type invariant.
DebugTypeOK ==
    /\ vm \in [Peers -> [run : Runs, at : 0 .. MaxStops]]
    /\ \A p \in Peers : \A i \in DOMAIN toVm[p] : toVm[p][i].op \in Requests
    /\ \A p \in Peers : \A i \in DOMAIN toPage[p] : toPage[p][i].op \in Answers
    /\ active \in [Peers -> BOOLEAN] /\ paused \in [Peers -> BOOLEAN] /\ fatal \in [Peers -> BOOLEAN]
    /\ phase \in [Peers -> {"idle", "launching", "entering"}]
    /\ inner \in [Peers -> {"local", "remote"}]
    /\ \A p \in Peers, k \in Keys : doc[p][k].val \in Values[k]
    /\ \A p, q \in Peers : \A i \in DOMAIN net[p][q] : net[p][q][i].kind \in {"doc", "rpc", "reply"}
    /\ late \in [Peers -> BOOLEAN] /\ contested \in BOOLEAN /\ cut \in BOOLEAN

\* Nothing is under way between p and its iframe; nor between the peers.
Settled(p) == toVm[p] = <<>> /\ toPage[p] = <<>>
Quiet == \A p, q \in Peers : Settled(p) /\ net[p][q] = <<>>

\* p runs the session it shows.
Drives(p) == active[p] /\ inner[p] = "local"

\* Whatever the buttons here and elsewhere, and the stops of the program: once
\* p and its iframe have settled the panel shows whether the program is stopped.
PanelMatchesProgram ==
    \A p \in Peers :
        Drives(p) /\ Settled(p) /\ vm[p].run # "none" /\ ~contested
            => paused[p] = (vm[p].run \notin Going)

\* Once all is quiet an observer's panel shows what the initiator's does, and
\* the frames of the stop, but for a snapshot taken while the program was let
\* go, and a crash or a step that does not land, which are not broadcast.
ObserverMatchesInitiator ==
    \A p, q \in Peers :
        /\ Quiet /\ Drives(p) /\ vm[p].run \in {"running", "paused"} /\ p # q
        /\ ~contested /\ \A r \in Peers : ~late[r]
        =>
            /\ Initiator(q) = p /\ active[q]
            /\ paused[q] = paused[p]
            /\ paused[p] => Says(q, "frames") = vm[p].at

\* Two who started at the same time do not both go on: once all is quiet at most
\* one peer runs the session it shows, and the others observe it.
OneDriver ==
    Quiet => \A p, q \in Peers : Drives(p) /\ Drives(q) => p = q

\* A session that is over for its initiator is over for the others once all is
\* quiet, but for one that an observer has stopped in a wait.
EndIsSeen ==
    \A p, q \in Peers :
        Quiet /\ ~active[p] /\ vm[p].run = "none" /\ p # q /\ ~cut
            => Initiator(q) # p
=============================================================================
