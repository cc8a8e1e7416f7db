----------------------------- MODULE CollabRpc -----------------------------
(***************************************************************************)
(* The peer-to-peer RPC of a live session: CollabSession.request,          *)
(* onRequest, the two RPC cases of onWireMessage and the part of destroy   *)
(* that settles what is in flight (Playground/src/sharing/collab/          *)
(* session.ts).                                                            *)
(*                                                                         *)
(* A request is not addressed: it is broadcast to the room and the peers   *)
(* it is not for ignore it.  The response is broadcast too, and a peer     *)
(* recognises it by the correlation id alone.  The id is the low byte of   *)
(* the peer's Yjs client id shifted over a 24-bit counter, computed in     *)
(* JavaScript's signed 32-bit integers and shipped by lib0's writeVarUint, *)
(* which keeps only the low seven bits of a negative number.               *)
(***************************************************************************)
EXTENDS Integers

CONSTANTS
    Peers,        \* the members of the room
    ClientID,     \* each peer's Yjs client id (Y.Doc picks it at random)
    Callers,      \* the peers that issue requests
    MaxRequests   \* bound on the requests a peer issues

ASSUME RpcAssumption ==
    /\ ClientID \in [Peers -> Nat]
    /\ Callers \subseteq Peers
    /\ MaxRequests \in Nat
    /\ MaxRequests < 16777216     \* the 24-bit counter does not wrap

VARIABLES
    destroyed,    \* CollabSession.destroyed, per peer
    handler,      \* is a handler registered for the channel, per peer
    rpcCounter,   \* CollabSession.rpcCounter, per peer
    pendingRpc,   \* the counters whose entry sits in the pendingRpc map
    target,       \* the peer a call was addressed to
    phase,        \* what the caller's promise is
    answer,       \* the call a handler ran to produce the settled value
    running,      \* handlers that have been invoked and have not finished
    wire          \* broadcast copies not delivered yet

vars == <<destroyed, handler, rpcCounter, pendingRpc, target, phase, answer,
          running, wire>>

Seqs == 1 .. MaxRequests
Calls == Peers \X Seqs
NoAnswer == <<>>

Phases == {"idle", "pending", "resolved", "refused", "timedOut", "sendFailed",
           "destroyed"}

-----------------------------------------------------------------------------
\* ((clientID & 0xff) << 24) | localId, a signed 32-bit integer.
CorrelationId(p, n) ==
    LET low == ClientID[p] % 256
    IN  (IF low < 128 THEN low ELSE low - 256) * 16777216 + n

\* writeVarUint followed by readVarUint: exact on naturals, and one byte with
\* the low seven bits for a negative number.
OnWire(id) == IF id >= 0 THEN id ELSE id % 128

Others(p) == Peers \ {p}

Request(from, to, id, tgt, n) ==
    [type |-> "request", from |-> from, to |-> to, id |-> id, target |-> tgt,
     call |-> <<from, n>>]

Response(from, to, id, ok, call) ==
    [type |-> "response", from |-> from, to |-> to, id |-> id, ok |-> ok,
     call |-> call]

\* room.broadcast: one copy for each other peer.  The copies are not ordered,
\* and one that is never received is lost: more than a data channel does.
BroadcastRequest(p, t, n) ==
    wire' = wire \cup
        {Request(p, q, OnWire(CorrelationId(p, n)), t, n) : q \in Others(p)}

BroadcastResponse(q, id, ok, call) ==
    {Response(q, p, id, ok, call) : p \in Others(q)}

-----------------------------------------------------------------------------
Init ==
    /\ destroyed = [p \in Peers |-> FALSE]
    /\ handler = [p \in Peers |-> FALSE]
    /\ rpcCounter = [p \in Peers |-> 0]
    /\ pendingRpc = [p \in Peers |-> {}]
    /\ target = [p \in Peers |-> [n \in Seqs |-> p]]
    /\ phase = [p \in Peers |-> [n \in Seqs |-> "idle"]]
    /\ answer = [p \in Peers |-> [n \in Seqs |-> NoAnswer]]
    /\ running = {}
    /\ wire = {}

\* onRequest, and the unsubscribe it returns.
OnRequest(p) ==
    /\ ~destroyed[p]
    /\ handler' = [handler EXCEPT ![p] = ~@]
    /\ UNCHANGED <<destroyed, rpcCounter, pendingRpc, target, phase, answer,
                   running, wire>>

\* Mutant of SendRequest: the counter is read before it is incremented.
SendRequestPostIncrement(p, t) ==
    LET n == rpcCounter[p]
    IN  /\ ~destroyed[p] /\ n < MaxRequests
        /\ rpcCounter' = [rpcCounter EXCEPT ![p] = n + 1]
        /\ target' = [target EXCEPT ![p][n + 1] = t]
        /\ pendingRpc' = [pendingRpc EXCEPT ![p] = @ \cup {n}]
        /\ phase' = [phase EXCEPT ![p][n + 1] = "pending"]
        /\ BroadcastRequest(p, t, n)
        /\ UNCHANGED <<destroyed, handler, answer, running>>

\* request(t, ...): a fresh correlation id, an entry in pendingRpc with its
\* timer, and the broadcast.
SendRequest(p, t) ==
    LET n == rpcCounter[p] + 1
    IN  /\ ~destroyed[p]
        /\ n <= MaxRequests
        /\ rpcCounter' = [rpcCounter EXCEPT ![p] = n]
        /\ target' = [target EXCEPT ![p][n] = t]
        /\ \/ /\ pendingRpc' = [pendingRpc EXCEPT ![p] = @ \cup {n}]
              /\ phase' = [phase EXCEPT ![p][n] = "pending"]
              /\ BroadcastRequest(p, t, n)
           \/ \* broadcast threw: the entry and the timer are dropped again
              /\ phase' = [phase EXCEPT ![p][n] = "sendFailed"]
              /\ UNCHANGED <<pendingRpc, wire>>
        /\ UNCHANGED <<destroyed, handler, answer, running>>

\* MSG_RPC_REQUEST at q: ignored unless addressed to q; refused at once when
\* no handler is registered; otherwise the handler starts.
ReceiveRequest(q, m) ==
    /\ m.type = "request" /\ m.to = q
    /\ \/ /\ destroyed[q] \/ m.target # q
          /\ wire' = wire \ {m}
          /\ UNCHANGED running
       \/ /\ ~destroyed[q] /\ m.target = q /\ ~handler[q]
          /\ wire' = (wire \ {m}) \cup BroadcastResponse(q, m.id, FALSE, m.call)
          /\ UNCHANGED running
       \/ /\ ~destroyed[q] /\ m.target = q /\ handler[q]
          /\ wire' = wire \ {m}
          /\ running' = running \cup {[peer |-> q, id |-> m.id, call |-> m.call]}
    /\ UNCHANGED <<destroyed, handler, rpcCounter, pendingRpc, target, phase,
                   answer>>

\* The handler's promise resolves or rejects: respond(ok, result).  After
\* destroy the room still takes the bytes until leave() is through.
HandlerDone(h, ok) ==
    /\ running' = running \ {h}
    /\ wire' = wire \cup BroadcastResponse(h.peer, h.id, ok, h.call)
    /\ UNCHANGED <<destroyed, handler, rpcCounter, pendingRpc, target, phase,
                   answer>>

\* Mutants of ReceiveResponse: the oldest entry is settled, whatever the id is;
\* a response with ok = false is dropped.
ReceiveResponseInOrder(p, m) ==
    /\ m.type = "response" /\ m.to = p
    /\ wire' = wire \ {m}
    /\ \/ /\ pendingRpc[p] = {}
          /\ UNCHANGED <<pendingRpc, phase, answer>>
       \/ \E n \in pendingRpc[p] :
             /\ \A k \in pendingRpc[p] : n <= k
             /\ pendingRpc' = [pendingRpc EXCEPT ![p] = @ \ {n}]
             /\ phase' = [phase EXCEPT
                    ![p][n] = IF m.ok THEN "resolved" ELSE "refused"]
             /\ answer' = [answer EXCEPT ![p][n] = <<m.from, m.call>>]
    /\ UNCHANGED <<destroyed, handler, rpcCounter, target, running>>

ReceiveOkResponse(p, m) ==
    /\ m.type = "response" /\ m.to = p
    /\ wire' = wire \ {m}
    /\ \/ ~m.ok /\ UNCHANGED <<pendingRpc, phase, answer>>
       \/ \E n \in pendingRpc[p] :
             /\ m.ok /\ CorrelationId(p, n) = m.id
             /\ pendingRpc' = [pendingRpc EXCEPT ![p] = @ \ {n}]
             /\ phase' = [phase EXCEPT ![p][n] = "resolved"]
             /\ answer' = [answer EXCEPT ![p][n] = <<m.from, m.call>>]
    /\ UNCHANGED <<destroyed, handler, rpcCounter, target, running>>

\* MSG_RPC_RESPONSE at p: settles the entry with that id, if there is one.
ReceiveResponse(p, m) ==
    LET matching == {n \in pendingRpc[p] : CorrelationId(p, n) = m.id}
    IN  /\ m.type = "response" /\ m.to = p
        /\ wire' = wire \ {m}
        /\ \/ /\ destroyed[p] \/ matching = {}
              /\ UNCHANGED <<pendingRpc, phase, answer>>
           \/ /\ ~destroyed[p]
              /\ \E n \in matching :
                  /\ pendingRpc' = [pendingRpc EXCEPT ![p] = @ \ {n}]
                  /\ phase' = [phase EXCEPT
                        ![p][n] = IF m.ok THEN "resolved" ELSE "refused"]
                  /\ answer' = [answer EXCEPT ![p][n] = <<m.from, m.call>>]
        /\ UNCHANGED <<destroyed, handler, rpcCounter, target, running>>

\* Mutant of Timeout: clearTimeout is forgotten when the call settles.
TimeoutNotCleared(p, n) ==
    /\ n <= rpcCounter[p] /\ phase[p][n] # "timedOut"
    /\ pendingRpc' = [pendingRpc EXCEPT ![p] = @ \ {n}]
    /\ phase' = [phase EXCEPT ![p][n] = "timedOut"]
    /\ UNCHANGED <<destroyed, handler, rpcCounter, target, answer, running, wire>>

\* The setTimeout of request fires while the entry is still there.
Timeout(p, n) ==
    /\ n \in pendingRpc[p]
    /\ pendingRpc' = [pendingRpc EXCEPT ![p] = @ \ {n}]
    /\ phase' = [phase EXCEPT ![p][n] = "timedOut"]
    /\ UNCHANGED <<destroyed, handler, rpcCounter, target, answer, running, wire>>

\* Mutant of Destroy: the pending map is dropped, and the promises in it with it.
DestroyWithoutReject(p) ==
    /\ ~destroyed[p]
    /\ destroyed' = [destroyed EXCEPT ![p] = TRUE]
    /\ pendingRpc' = [pendingRpc EXCEPT ![p] = {}]
    /\ handler' = [handler EXCEPT ![p] = FALSE]
    /\ UNCHANGED <<rpcCounter, target, phase, answer, running, wire>>

\* destroy: rejects what is pending, clears the handlers and unsubscribes.
Destroy(p) ==
    /\ ~destroyed[p]
    /\ destroyed' = [destroyed EXCEPT ![p] = TRUE]
    /\ phase' = [phase EXCEPT ![p] =
          [n \in Seqs |-> IF n \in pendingRpc[p] THEN "destroyed" ELSE @[n]]]
    /\ pendingRpc' = [pendingRpc EXCEPT ![p] = {}]
    /\ handler' = [handler EXCEPT ![p] = FALSE]
    /\ UNCHANGED <<rpcCounter, target, answer, running, wire>>

Next ==
    \/ \E p \in Peers :
        \/ OnRequest(p)
        \/ Destroy(p)
        \/ \E t \in Others(p) : p \in Callers /\ SendRequest(p, t)
        \/ \E n \in Seqs : Timeout(p, n)
        \/ \E m \in wire : ReceiveRequest(p, m) \/ ReceiveResponse(p, m)
    \/ \E h \in running, ok \in BOOLEAN : HandlerDone(h, ok)

Spec == Init /\ [][Next]_vars

\* A timer that was armed and not cleared fires: setTimeout is fair.
Fairness == \A p \in Peers, n \in Seqs : WF_vars(Timeout(p, n))

FairSpec == Spec /\ Fairness

-----------------------------------------------------------------------------
Messages ==
    [type : {"request"}, from : Peers, to : Peers, id : Int, target : Peers,
     call : Calls]
    \cup
    [type : {"response"}, from : Peers, to : Peers, id : Int, ok : BOOLEAN,
     call : Calls]

\* The type invariant.
TypeOK ==
    /\ destroyed \in [Peers -> BOOLEAN]
    /\ handler \in [Peers -> BOOLEAN]
    /\ rpcCounter \in [Peers -> 0 .. MaxRequests]
    /\ pendingRpc \in [Peers -> SUBSET Seqs]
    /\ target \in [Peers -> [Seqs -> Peers]]
    /\ phase \in [Peers -> [Seqs -> Phases]]
    /\ answer \in [Peers -> [Seqs -> (Peers \X Calls) \cup {NoAnswer}]]
    /\ running \subseteq [peer : Peers, id : Int, call : Calls]
    /\ wire \subseteq Messages

\* The client ids of the room have different low bytes, none with its top bit
\* set: what the correlation id needs to be unique and to survive the wire.
DistinctLowBytes ==
    \A p, q \in Peers :
        /\ ClientID[p] % 256 < 128
        /\ p # q => ClientID[p] % 256 # ClientID[q] % 256

\* What every copy in flight and every running handler knows of its call: it
\* was issued, it carries that call's id, and it is at the call's target.
Issued(p, n, id) == n <= rpcCounter[p] /\ id = CorrelationId(p, n)

InFlight ==
    \A p \in Peers, n \in Seqs :
        /\ \A m \in wire : m.call = <<p, n>> =>
              /\ Issued(p, n, m.id)
              /\ m.type = "request" => m.target = target[p][n]
              /\ m.type = "response" => m.from = target[p][n]
        /\ \A h \in running : h.call = <<p, n>> =>
              /\ Issued(p, n, h.id)
              /\ h.peer = target[p][n]

\* A call that came back was answered by the peer it was addressed to, running
\* that very call: no other caller's response, although responses go to every
\* peer of the room and are told apart by the correlation id only.
AnswerIsMine ==
    \A p \in Peers, n \in Seqs :
        phase[p][n] \in {"resolved", "refused"} =>
            answer[p][n] = <<target[p][n], <<p, n>>>>

\* No caller's promise hangs: what is unsettled is in the pending map, where
\* its timer and destroy reach it, and a destroyed session has nothing there.
UnsettledIsTracked ==
    \A p \in Peers :
        /\ \A n \in Seqs : phase[p][n] = "pending" <=> n \in pendingRpc[p]
        /\ destroyed[p] => pendingRpc[p] = {}

\* A correlation counter not handed out yet has no call behind it.
FreshIsIdle ==
    \A p \in Peers, n \in Seqs : n > rpcCounter[p] => phase[p][n] = "idle"

\* The inductive invariants: the bookkeeping holds for any client ids, what
\* travels is only told apart under DistinctLowBytes.
TrackInv == TypeOK /\ FreshIsIdle /\ UnsettledIsTracked
RpcInv == TrackInv /\ InFlight /\ AnswerIsMine

\* A response that reaches its live caller while the call is still unsettled
\* settles it: a call does not wait for the timeout once it was answered.
AnsweredCallSettles ==
    [][\A p \in Peers, n \in Seqs, m \in wire :
          (/\ m.type = "response" /\ m.to = p /\ m.call = <<p, n>>
           /\ phase[p][n] = "pending"
           /\ ReceiveResponse(p, m))
          => phase'[p][n] # "pending"]_vars

\* Late answers, timers and destroy never settle a call a second time.
SettledForGood ==
    [][\A p \in Peers, n \in Seqs :
          phase[p][n] \notin {"idle", "pending"} =>
              /\ phase'[p][n] = phase[p][n]
              /\ answer'[p][n] = answer[p][n]]_vars

\* Every call settles, whatever the other peers and the network do: none is pending
\* for ever.
EveryCallSettles == \A p \in Peers, n \in Seqs : []<>(phase[p][n] # "pending")
=============================================================================
