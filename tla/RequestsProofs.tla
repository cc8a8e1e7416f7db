-------------------------- MODULE RequestsProofs ---------------------------
(***************************************************************************)
(* Proofs about the two protocols of requests and answers: the calls of a  *)
(* live session (CollabRpc), for any room, any handlers and any number of  *)
(* requests below the wrap of the 24-bit counter, and the runnable blocks  *)
(* of a page with the frames their programs run in (RunnerBridge), for any *)
(* number of blocks, edits and calls.                                      *)
(***************************************************************************)
EXTENDS CollabRpc, RunnerBridge, FiniteSetTheorems, SequenceTheorems, TLAPS

\* A correlation id of the room names one call of one peer and survives the
\* variable-length encoding, when the low bytes are distinct and below 128.
LEMMA CorrelationIdUnique ==
    ASSUME DistinctLowBytes,
           NEW p \in Peers, NEW q \in Peers, NEW n \in Seqs, NEW k \in Seqs
    PROVE  /\ CorrelationId(p, n) \in Nat
           /\ OnWire(CorrelationId(p, n)) = CorrelationId(p, n)
           /\ CorrelationId(p, n) = CorrelationId(q, k) => p = q /\ n = k
<1> DEFINE x == ClientID[p] % 256
           y == ClientID[q] % 256
<1>1. /\ ClientID[p] \in Nat /\ ClientID[q] \in Nat
      /\ n \in Nat /\ k \in Nat /\ n >= 1 /\ k >= 1
  BY RpcAssumption, SMT DEF Seqs
<1>2. n < 16777216 /\ k < 16777216
  BY RpcAssumption, SMT DEF Seqs
<1>3. /\ x \in Nat /\ y \in Nat /\ x < 128 /\ y < 128
      /\ p # q => x # y
  BY <1>1, SMT DEF DistinctLowBytes
<1>4. /\ CorrelationId(p, n) = x * 16777216 + n
      /\ CorrelationId(q, k) = y * 16777216 + k
  BY <1>3, SMT DEF CorrelationId
<1> HIDE DEF x, y
<1>5. x * 16777216 + n = y * 16777216 + k => x = y /\ n = k
  BY <1>1, <1>2, <1>3, SMT
<1>6. x * 16777216 + n \in Nat
  BY <1>1, <1>3, SMT
<1>7. CorrelationId(p, n) \in Nat
  BY <1>4, <1>6, SMT
<1>8. CorrelationId(p, n) >= 0
  BY <1>7, SMT
<1>9. OnWire(CorrelationId(p, n)) = CorrelationId(p, n)
  BY <1>8, Zenon DEF OnWire
<1>10. CorrelationId(p, n) = CorrelationId(q, k) => p = q /\ n = k
  BY <1>3, <1>4, <1>5, SMT
<1> QED
  BY <1>7, <1>9, <1>10, Zenon

\* The initial states satisfy the inductive invariant.
LEMMA RpcInit == Init => RpcInv
<1> SUFFICES ASSUME Init PROVE RpcInv
  OBVIOUS
<1>1. 0 \in 0 .. MaxRequests
  BY RpcAssumption, SMT
<1>2. TypeOK
  BY <1>1, SMT DEF Init, TypeOK, Phases, NoAnswer
<1>3. InFlight
  BY SMT DEF Init, InFlight
<1>4. AnswerIsMine /\ UnsettledIsTracked /\ FreshIsIdle
  BY SMT DEF Init, AnswerIsMine, UnsettledIsTracked, FreshIsIdle
<1> QED
  BY <1>2, <1>3, <1>4 DEF RpcInv, TrackInv

\* A correlation id of the room is an integer, and so is what is decoded.
LEMMA IdTypes ==
    ASSUME NEW p \in Peers, NEW n \in Seqs
    PROVE  CorrelationId(p, n) \in Int /\ OnWire(CorrelationId(p, n)) \in Int
<1>1. ClientID[p] \in Nat /\ n \in Int
  BY RpcAssumption, SMT DEF Seqs
<1>2. CorrelationId(p, n) \in Int
  BY <1>1, SMT DEF CorrelationId
<1> QED
  BY <1>2, SMT DEF OnWire

\* Broadcasting builds well-typed copies.
LEMMA BroadcastTypes ==
    ASSUME NEW p \in Peers, NEW id \in Int, NEW ok \in BOOLEAN,
           NEW call \in Calls
    PROVE  BroadcastResponse(p, id, ok, call) \subseteq Messages
BY SMT DEF BroadcastResponse, Response, Messages, Others

\* Every step keeps the types.
LEMMA TypeStep == TypeOK /\ [Next]_vars => TypeOK'
<1> SUFFICES ASSUME TypeOK, [Next]_vars PROVE TypeOK'
  OBVIOUS
<1> USE DEF TypeOK
<1>1. ASSUME NEW p \in Peers, OnRequest(p) PROVE TypeOK'
  BY <1>1, SMT DEF OnRequest
<1>2. ASSUME NEW p \in Peers, Destroy(p) PROVE TypeOK'
  <2>1. [n \in Seqs |-> IF n \in pendingRpc[p] THEN "destroyed"
                        ELSE phase[p][n]] \in [Seqs -> Phases]
    BY SMT DEF Phases
  <2> QED
    BY <1>2, <2>1, SMT DEF Destroy
<1>3. ASSUME NEW p \in Peers, NEW t \in Others(p), SendRequest(p, t)
      PROVE  TypeOK'
  <2> DEFINE n == rpcCounter[p] + 1
  <2>0. n <= MaxRequests
    BY <1>3, Zenon DEF SendRequest
  <2>1. n \in Seqs /\ n \in 0 .. MaxRequests /\ t \in Peers
    <3>1. rpcCounter[p] \in 0 .. MaxRequests
      BY SMT
    <3>2. MaxRequests \in Nat
      BY RpcAssumption
    <3>3. n \in 1 .. MaxRequests
      BY <2>0, <3>1, <3>2, SMT
    <3>4. t \in Peers
      BY Zenon DEF Others
    <3> QED
      BY <3>2, <3>3, <3>4, SMT DEF Seqs
  <2>2. OnWire(CorrelationId(p, n)) \in Int
    BY <2>1, IdTypes
  <2> HIDE DEF n
  <2>3. {Request(p, q, OnWire(CorrelationId(p, n)), t, n) : q \in Others(p)}
          \subseteq Messages
    BY <2>1, <2>2, SMT DEF Request, Messages, Others, Calls
  <2>4. /\ rpcCounter' = [rpcCounter EXCEPT ![p] = n]
        /\ target' = [target EXCEPT ![p][n] = t]
        /\ UNCHANGED <<destroyed, handler, answer, running>>
        /\ \/ /\ pendingRpc' = [pendingRpc EXCEPT ![p] = @ \cup {n}]
              /\ phase' = [phase EXCEPT ![p][n] = "pending"]
              /\ BroadcastRequest(p, t, n)
           \/ /\ phase' = [phase EXCEPT ![p][n] = "sendFailed"]
              /\ UNCHANGED <<pendingRpc, wire>>
    BY <1>3, Zenon DEF SendRequest, n
  <2>5. wire' \subseteq Messages
    BY <2>3, <2>4, SMT DEF BroadcastRequest
  <2>6. phase' \in [Peers -> [Seqs -> Phases]]
    <3>1. CASE phase' = [phase EXCEPT ![p][n] = "pending"]
      BY <2>1, <3>1, SMT DEF Phases
    <3>2. CASE phase' = [phase EXCEPT ![p][n] = "sendFailed"]
      BY <2>1, <3>2, SMT DEF Phases
    <3> QED
      BY <2>4, <3>1, <3>2, Zenon
  <2>7. pendingRpc' \in [Peers -> SUBSET Seqs]
    <3>1. CASE pendingRpc' = [pendingRpc EXCEPT ![p] = @ \cup {n}]
      BY <2>1, <3>1, SMT
    <3> QED
      BY <2>4, <3>1, SMT
  <2>8. /\ rpcCounter' \in [Peers -> 0 .. MaxRequests]
        /\ target' \in [Peers -> [Seqs -> Peers]]
    BY <2>1, <2>4, SMT
  <2> QED
    BY <2>4, <2>5, <2>6, <2>7, <2>8, SMT
<1>4. ASSUME NEW p \in Peers, NEW n \in Seqs, Timeout(p, n) PROVE TypeOK'
  BY <1>4, SMT DEF Timeout, Phases
<1>5. ASSUME NEW p \in Peers, NEW m \in wire, ReceiveRequest(p, m)
      PROVE  TypeOK'
  <2>1. m.type = "request" => m.id \in Int /\ m.call \in Calls
    BY SMT DEF Messages
  <2>2. BroadcastResponse(p, m.id, FALSE, m.call) \subseteq Messages
    BY <1>5, <2>1, BroadcastTypes, Zenon DEF ReceiveRequest
  <2>3. wire' \subseteq Messages
    BY <1>5, <2>2, Zenon DEF ReceiveRequest
  <2>4. [peer |-> p, id |-> m.id, call |-> m.call]
          \in [peer : Peers, id : Int, call : Calls]
    BY <1>5, <2>1, SMT DEF ReceiveRequest
  <2>5. running' \subseteq [peer : Peers, id : Int, call : Calls]
    BY <1>5, <2>4, Zenon DEF ReceiveRequest
  <2>6. UNCHANGED <<destroyed, handler, rpcCounter, pendingRpc, target, phase,
                    answer>>
    BY <1>5, Zenon DEF ReceiveRequest
  <2> QED
    BY <2>3, <2>5, <2>6, SMT
<1>6. ASSUME NEW p \in Peers, NEW m \in wire, ReceiveResponse(p, m)
      PROVE  TypeOK'
  <2>1. <<m.from, m.call>> \in Peers \X Calls
    BY SMT DEF Messages
  <2>2. CASE UNCHANGED <<pendingRpc, phase, answer>>
    BY <1>6, <2>2, SMT DEF ReceiveResponse
  <2>3. CASE \E n \in pendingRpc[p] :
               /\ pendingRpc' = [pendingRpc EXCEPT ![p] = @ \ {n}]
               /\ phase' = [phase EXCEPT
                     ![p][n] = IF m.ok THEN "resolved" ELSE "refused"]
               /\ answer' = [answer EXCEPT ![p][n] = <<m.from, m.call>>]
    <3>1. PICK n \in pendingRpc[p] :
               /\ pendingRpc' = [pendingRpc EXCEPT ![p] = @ \ {n}]
               /\ phase' = [phase EXCEPT
                     ![p][n] = IF m.ok THEN "resolved" ELSE "refused"]
               /\ answer' = [answer EXCEPT ![p][n] = <<m.from, m.call>>]
      BY <2>3
    <3>2. answer' \in [Peers -> [Seqs -> (Peers \X Calls) \cup {NoAnswer}]]
      BY <2>1, <3>1, SMT
    <3>3. phase' \in [Peers -> [Seqs -> Phases]]
      BY <3>1, SMT DEF Phases
    <3>4. pendingRpc' \in [Peers -> SUBSET Seqs]
      BY <3>1, SMT
    <3>5. wire' \subseteq Messages
          /\ UNCHANGED <<destroyed, handler, rpcCounter, target, running>>
      BY <1>6, SMT DEF ReceiveResponse
    <3> QED
      BY <3>2, <3>3, <3>4, <3>5, SMT
  <2> QED
    BY <1>6, <2>2, <2>3, Zenon DEF ReceiveResponse
<1>7. ASSUME NEW h \in running, NEW ok \in BOOLEAN, HandlerDone(h, ok)
      PROVE  TypeOK'
  <2>1. h.peer \in Peers /\ h.id \in Int /\ h.call \in Calls
    BY SMT
  <2>2. BroadcastResponse(h.peer, h.id, ok, h.call) \subseteq Messages
    BY <2>1, BroadcastTypes
  <2> QED
    BY <1>7, <2>2, SMT DEF HandlerDone
<1>8. CASE UNCHANGED vars
  BY <1>8, SMT DEF vars
<1> QED
  BY <1>1, <1>2, <1>3, <1>4, <1>5, <1>6, <1>7, <1>8 DEF Next

\* Every step keeps the bookkeeping of unsettled calls.
LEMMA TrackStep == TrackInv /\ [Next]_vars => TrackInv'
<1> SUFFICES ASSUME TrackInv, [Next]_vars
             PROVE  FreshIsIdle' /\ UnsettledIsTracked'
  BY TypeStep DEF TrackInv
<1>0. TypeOK /\ FreshIsIdle /\ UnsettledIsTracked
  BY DEF TrackInv
<1> USE DEF FreshIsIdle, UnsettledIsTracked
<1>1. ASSUME NEW p \in Peers, OnRequest(p)
      PROVE  FreshIsIdle' /\ UnsettledIsTracked'
  BY <1>0, <1>1, SMT DEF OnRequest, TypeOK
<1>2. ASSUME NEW p \in Peers, Destroy(p)
      PROVE  FreshIsIdle' /\ UnsettledIsTracked'
  BY <1>0, <1>2, SMT DEF Destroy, TypeOK
<1>3. ASSUME NEW p \in Peers, NEW t \in Others(p), SendRequest(p, t)
      PROVE  FreshIsIdle' /\ UnsettledIsTracked'
  <2> DEFINE n == rpcCounter[p] + 1
  <2>1. /\ rpcCounter' = [rpcCounter EXCEPT ![p] = n]
        /\ \/ /\ pendingRpc' = [pendingRpc EXCEPT ![p] = @ \cup {n}]
              /\ phase' = [phase EXCEPT ![p][n] = "pending"]
           \/ /\ phase' = [phase EXCEPT ![p][n] = "sendFailed"]
              /\ UNCHANGED pendingRpc
        /\ ~destroyed[p] /\ UNCHANGED destroyed
    BY <1>3, Zenon DEF SendRequest
  <2>2. /\ pendingRpc \in [Peers -> SUBSET Seqs]
        /\ phase \in [Peers -> [Seqs -> Phases]]
        /\ rpcCounter \in [Peers -> 0 .. MaxRequests]
        /\ Seqs \subseteq Int
    BY <1>0, SMT DEF TypeOK, Seqs
  <2> QED
    BY <1>0, <2>1, <2>2, SMT
<1>4. ASSUME NEW p \in Peers, NEW n \in Seqs, Timeout(p, n)
      PROVE  FreshIsIdle' /\ UnsettledIsTracked'
  BY <1>0, <1>4, SMT DEF Timeout, TypeOK
<1>5. ASSUME NEW p \in Peers, NEW m \in wire, ReceiveRequest(p, m)
      PROVE  FreshIsIdle' /\ UnsettledIsTracked'
  <2>1. UNCHANGED <<destroyed, rpcCounter, pendingRpc, phase>>
    BY <1>5, Zenon DEF ReceiveRequest
  <2> QED
    BY <1>0, <2>1, SMT
<1>6. ASSUME NEW p \in Peers, NEW m \in wire, ReceiveResponse(p, m)
      PROVE  FreshIsIdle' /\ UnsettledIsTracked'
  <2>1. CASE UNCHANGED <<pendingRpc, phase, answer>>
    BY <1>0, <1>6, <2>1, SMT DEF ReceiveResponse
  <2>2. ASSUME NEW n \in pendingRpc[p],
               pendingRpc' = [pendingRpc EXCEPT ![p] = @ \ {n}],
               phase' = [phase EXCEPT
                     ![p][n] = IF m.ok THEN "resolved" ELSE "refused"]
        PROVE  FreshIsIdle' /\ UnsettledIsTracked'
    <3>1. UNCHANGED <<destroyed, rpcCounter>>
      BY <1>6, Zenon DEF ReceiveResponse
    <3> QED
      BY <1>0, <2>2, <3>1, SMT DEF TypeOK
  <2> QED
    BY <1>6, <2>1, <2>2, Zenon DEF ReceiveResponse
<1>7. ASSUME NEW h \in running, NEW ok \in BOOLEAN, HandlerDone(h, ok)
      PROVE  FreshIsIdle' /\ UnsettledIsTracked'
  BY <1>0, <1>7, SMT DEF HandlerDone
<1>8. CASE UNCHANGED vars
  BY <1>0, <1>8, SMT DEF vars
<1> QED
  BY <1>1, <1>2, <1>3, <1>4, <1>5, <1>6, <1>7, <1>8 DEF Next

\* The types hold in every reachable state, and so does the bookkeeping: an
\* unsettled call always sits in pendingRpc, where its timer and destroy find
\* it.
THEOREM Tracked == Spec => []UnsettledIsTracked
<1>1. Init => TrackInv
  BY RpcInit DEF RpcInv
<1>2. TrackInv => UnsettledIsTracked
  BY DEF TrackInv
<1> QED
  BY <1>1, <1>2, TrackStep, PTL DEF Spec

\* Nothing settles a call twice, whatever the client ids are.
THEOREM Settled == Spec => SettledForGood
<1>1. ASSUME TrackInv, [Next]_vars, NEW p \in Peers, NEW n \in Seqs,
             phase[p][n] \notin {"idle", "pending"}
      PROVE  phase'[p][n] = phase[p][n] /\ answer'[p][n] = answer[p][n]
  <2>0. TypeOK /\ FreshIsIdle /\ UnsettledIsTracked
    BY <1>1 DEF TrackInv
  <2>1. n \notin pendingRpc[p] /\ n <= rpcCounter[p]
    BY <1>1, <2>0, SMT DEF FreshIsIdle, UnsettledIsTracked, TypeOK, Seqs
  <2>2. ASSUME NEW q \in Peers, OnRequest(q) \/ Destroy(q)
        PROVE  phase'[p][n] = phase[p][n] /\ answer'[p][n] = answer[p][n]
    <3>1. CASE OnRequest(q)
      BY <3>1, Zenon DEF OnRequest
    <3>2. CASE Destroy(q)
      <4>1. phase' = [phase EXCEPT ![q] =
              [k \in Seqs |-> IF k \in pendingRpc[q] THEN "destroyed"
                              ELSE phase[q][k]]]
            /\ UNCHANGED answer
        BY <3>2, Zenon DEF Destroy
      <4> QED
        BY <2>0, <2>1, <4>1, SMT DEF TypeOK
    <3> QED
      BY <2>2, <3>1, <3>2
  <2>3. ASSUME NEW q \in Peers, NEW t \in Others(q), SendRequest(q, t)
        PROVE  phase'[p][n] = phase[p][n] /\ answer'[p][n] = answer[p][n]
    <3> DEFINE k == rpcCounter[q] + 1
    <3>1. /\ \/ phase' = [phase EXCEPT ![q][k] = "pending"]
             \/ phase' = [phase EXCEPT ![q][k] = "sendFailed"]
          /\ UNCHANGED answer
      BY <2>3, Zenon DEF SendRequest
    <3>2. p = q => n # k
      BY <2>0, <2>1, SMT DEF TypeOK, Seqs
    <3> QED
      BY <2>0, <3>1, <3>2, SMT DEF TypeOK
  <2>4. ASSUME NEW q \in Peers, NEW k \in Seqs, Timeout(q, k)
        PROVE  phase'[p][n] = phase[p][n] /\ answer'[p][n] = answer[p][n]
    BY <2>0, <2>1, <2>4, SMT DEF Timeout, TypeOK
  <2>5. ASSUME NEW q \in Peers, NEW m \in wire, ReceiveRequest(q, m)
        PROVE  phase'[p][n] = phase[p][n] /\ answer'[p][n] = answer[p][n]
    BY <2>5, Zenon DEF ReceiveRequest
  <2>6. ASSUME NEW q \in Peers, NEW m \in wire, ReceiveResponse(q, m)
        PROVE  phase'[p][n] = phase[p][n] /\ answer'[p][n] = answer[p][n]
    <3>1. ASSUME NEW k \in pendingRpc[q],
                 phase' = [phase EXCEPT
                     ![q][k] = IF m.ok THEN "resolved" ELSE "refused"],
                 answer' = [answer EXCEPT ![q][k] = <<m.from, m.call>>]
          PROVE  phase'[p][n] = phase[p][n] /\ answer'[p][n] = answer[p][n]
      BY <2>0, <2>1, <3>1, SMT DEF TypeOK
    <3> QED
      BY <2>6, <3>1, Zenon DEF ReceiveResponse
  <2>7. ASSUME NEW h \in running, NEW ok \in BOOLEAN, HandlerDone(h, ok)
        PROVE  phase'[p][n] = phase[p][n] /\ answer'[p][n] = answer[p][n]
    BY <2>7, Zenon DEF HandlerDone
  <2>8. CASE UNCHANGED vars
    BY <2>8, Zenon DEF vars
  <2> QED
    BY <1>1, <2>2, <2>3, <2>4, <2>5, <2>6, <2>7, <2>8 DEF Next
<1>2. TrackInv /\ [Next]_vars =>
        [\A p \in Peers, n \in Seqs :
          phase[p][n] \notin {"idle", "pending"} =>
              /\ phase'[p][n] = phase[p][n]
              /\ answer'[p][n] = answer[p][n]]_vars
  BY <1>1
<1>3. Init => TrackInv
  BY RpcInit DEF RpcInv
<1> QED
  BY <1>2, <1>3, TrackStep, PTL DEF Spec, SettledForGood

\* The type invariant holds for every room.
THEOREM TypeCorrect == Spec => []TypeOK
<1>1. Init => TypeOK
  BY RpcInit DEF RpcInv, TrackInv
<1> QED
  BY <1>1, TypeStep, PTL DEF Spec

\* The peer a response is recorded against, and what is on the wire, follow
\* the call all the way: every step keeps InFlight and AnswerIsMine.
LEMMA FlightStep ==
    ASSUME DistinctLowBytes PROVE RpcInv /\ [Next]_vars => RpcInv'
<1> SUFFICES ASSUME RpcInv, [Next]_vars PROVE InFlight' /\ AnswerIsMine'
  BY TrackStep DEF RpcInv
<1>0. TypeOK /\ FreshIsIdle /\ UnsettledIsTracked /\ InFlight /\ AnswerIsMine
  BY DEF RpcInv, TrackInv
<1>a. TypeOK'
  BY <1>0, TypeStep
<1>1. ASSUME NEW p \in Peers, OnRequest(p) PROVE InFlight' /\ AnswerIsMine'
  BY <1>0, <1>1, Zenon DEF OnRequest, InFlight, AnswerIsMine, Issued
<1>2. ASSUME NEW p \in Peers, Destroy(p) PROVE InFlight' /\ AnswerIsMine'
  <2>1. UNCHANGED <<rpcCounter, target, answer, running, wire>>
    BY <1>2, Zenon DEF Destroy
  <2>2. \A q \in Peers, n \in Seqs :
          phase'[q][n] \in {"resolved", "refused"} => phase'[q][n] = phase[q][n]
    BY <1>0, <1>2, SMT DEF Destroy, TypeOK
  <2>3. AnswerIsMine'
    BY <1>0, <2>1, <2>2, SMT DEF AnswerIsMine
  <2> QED
    BY <1>0, <2>1, <2>3, Zenon DEF InFlight, Issued
<1>3. ASSUME NEW p \in Peers, NEW t \in Others(p), SendRequest(p, t)
      PROVE  InFlight' /\ AnswerIsMine'
  <2> DEFINE n == rpcCounter[p] + 1
  <2>0. rpcCounter[p] \in 0 .. MaxRequests /\ MaxRequests \in Nat
    BY <1>0, RpcAssumption, SMT DEF TypeOK
  <2>1. n \in Seqs
    <3>1. n <= MaxRequests
      BY <1>3, Zenon DEF SendRequest
    <3> QED
      BY <2>0, <3>1, SMT DEF Seqs
  <2>2. /\ rpcCounter' = [rpcCounter EXCEPT ![p] = n]
        /\ target' = [target EXCEPT ![p][n] = t]
        /\ UNCHANGED <<answer, running>>
        /\ \/ phase' = [phase EXCEPT ![p][n] = "pending"]
           \/ phase' = [phase EXCEPT ![p][n] = "sendFailed"]
        /\ BroadcastRequest(p, t, n) \/ UNCHANGED wire
    BY <1>3, Zenon DEF SendRequest
  <2>3. OnWire(CorrelationId(p, n)) = CorrelationId(p, n)
    BY <2>1, CorrelationIdUnique
  <2>n. n = rpcCounter[p] + 1
    OBVIOUS
  <2> HIDE DEF n
  <2>4. \A q \in Peers, k \in Seqs :
          /\ rpcCounter'[q] >= rpcCounter[q]
          /\ k <= rpcCounter[q] => target'[q][k] = target[q][k]
          /\ <<q, k>> # <<p, n>> => /\ phase'[q][k] = phase[q][k]
                                   /\ target'[q][k] = target[q][k]
    <3> TAKE q \in Peers, k \in Seqs
    <3>1. rpcCounter[q] \in Int /\ k \in Int
      BY <1>0, SMT DEF TypeOK, Seqs
    <3>2. rpcCounter'[q] >= rpcCounter[q]
      BY <1>0, <2>2, <2>n, <3>1, SMT DEF TypeOK
    <3>3. q = p /\ k <= rpcCounter[q] => k # n
      BY <2>n, <2>0, <3>1, SMT
    <3>4. k <= rpcCounter[q] => target'[q][k] = target[q][k]
      BY <1>0, <2>2, <3>3, SMT DEF TypeOK
    <3>5. <<q, k>> # <<p, n>> => /\ phase'[q][k] = phase[q][k]
                                /\ target'[q][k] = target[q][k]
      BY <1>0, <2>2, SMT DEF TypeOK
    <3> QED
      BY <3>2, <3>4, <3>5
  <2>5. AnswerIsMine'
    <3> SUFFICES ASSUME NEW q \in Peers, NEW k \in Seqs,
                        phase'[q][k] \in {"resolved", "refused"}
                 PROVE  answer'[q][k] = <<target'[q][k], <<q, k>>>>
      BY DEF AnswerIsMine
    <3>1. <<q, k>> # <<p, n>>
      BY <1>0, <2>1, <2>2, SMT DEF TypeOK
    <3> QED
      BY <1>0, <2>2, <2>4, <3>1, Zenon DEF AnswerIsMine
  <2>6. ASSUME NEW q \in Peers, NEW k \in Seqs, NEW id \in Int,
               Issued(q, k, id)
        PROVE  Issued(q, k, id)' /\ target'[q][k] = target[q][k]
    <3>1. rpcCounter[q] \in Int /\ rpcCounter'[q] \in Int /\ k \in Int
      BY <1>0, <1>a, SMT DEF TypeOK, Seqs
    <3> QED
      BY <2>4, <2>6, <3>1, SMT DEF Issued
  <2>7. ASSUME NEW q \in Peers, NEW k \in Seqs, NEW m \in wire',
               m.call = <<q, k>>
        PROVE  /\ Issued(q, k, m.id)'
               /\ m.type = "request" => m.target = target'[q][k]
               /\ m.type = "response" => m.from = target'[q][k]
    <3>1. CASE m \in wire
      <4>1. m.id \in Int
        BY <1>0, <3>1, SMT DEF TypeOK, Messages
      <4>2. /\ Issued(q, k, m.id)
            /\ m.type = "request" => m.target = target[q][k]
            /\ m.type = "response" => m.from = target[q][k]
        BY <1>0, <2>7, <3>1, Zenon DEF InFlight
      <4>3. Issued(q, k, m.id)' /\ target'[q][k] = target[q][k]
        BY <2>6, <4>1, <4>2
      <4> QED
        BY <4>2, <4>3, SMT
    <3>2. ASSUME NEW r \in Others(p),
                 m = Request(p, r, OnWire(CorrelationId(p, n)), t, n)
          PROVE  /\ Issued(q, k, m.id)'
                 /\ m.type = "request" => m.target = target'[q][k]
                 /\ m.type = "response" => m.from = target'[q][k]
      <4>1. m.call = <<p, n>> /\ m.id = CorrelationId(p, n) /\ m.target = t
            /\ m.type = "request"
        BY <2>3, <3>2, SMT DEF Request
      <4>2. q = p /\ k = n
        BY <2>7, <4>1, SMT
      <4>3. target'[p][n] = t /\ rpcCounter'[p] = n
        BY <1>0, <2>1, <2>2, SMT DEF TypeOK
      <4>4. n <= n
        BY <2>1, SMT DEF Seqs
      <4> QED
        BY <4>1, <4>2, <4>3, <4>4, SMT DEF Issued
    <3> QED
      BY <2>2, <3>1, <3>2, Zenon DEF BroadcastRequest
  <2>8. ASSUME NEW q \in Peers, NEW k \in Seqs, NEW h \in running',
               h.call = <<q, k>>
        PROVE  Issued(q, k, h.id)' /\ h.peer = target'[q][k]
    <3>1. h \in running /\ h.id \in Int
      BY <1>0, <2>2, SMT DEF TypeOK
    <3> QED
      BY <1>0, <2>6, <2>8, <3>1, Zenon DEF InFlight
  <2> QED
    BY <2>5, <2>7, <2>8, Zenon DEF InFlight
<1>4. ASSUME NEW p \in Peers, NEW n \in Seqs, Timeout(p, n)
      PROVE  InFlight' /\ AnswerIsMine'
  <2>1. UNCHANGED <<rpcCounter, target, answer, running, wire>>
    BY <1>4, Zenon DEF Timeout
  <2>2. \A q \in Peers, k \in Seqs :
          phase'[q][k] \in {"resolved", "refused"} => phase'[q][k] = phase[q][k]
    BY <1>0, <1>4, SMT DEF Timeout, TypeOK
  <2>3. AnswerIsMine'
    BY <1>0, <2>1, <2>2, SMT DEF AnswerIsMine
  <2> QED
    BY <1>0, <2>1, <2>3, Zenon DEF InFlight, Issued
<1>5. ASSUME NEW p \in Peers, NEW m \in wire, ReceiveRequest(p, m)
      PROVE  InFlight' /\ AnswerIsMine'
  <2>1. UNCHANGED <<rpcCounter, target, answer, phase>>
    BY <1>5, Zenon DEF ReceiveRequest
  <2>2. AnswerIsMine'
    BY <1>0, <2>1, SMT DEF AnswerIsMine
  <2>3. ASSUME NEW q \in Peers, NEW k \in Seqs, NEW x \in wire',
               x.call = <<q, k>>
        PROVE  /\ Issued(q, k, x.id)
               /\ x.type = "request" => x.target = target[q][k]
               /\ x.type = "response" => x.from = target[q][k]
    <3>1. CASE x \in wire
      BY <1>0, <2>3, <3>1, Zenon DEF InFlight
    <3>2. ASSUME m.target = p, x \in BroadcastResponse(p, m.id, FALSE, m.call)
          PROVE  /\ Issued(q, k, x.id)
                 /\ x.type = "request" => x.target = target[q][k]
                 /\ x.type = "response" => x.from = target[q][k]
      <4>1. x.type = "response" /\ x.from = p /\ x.id = m.id /\ x.call = m.call
        BY <3>2, SMT DEF BroadcastResponse, Response
      <4>2. m.type = "request" /\ m.call = <<q, k>>
        BY <1>5, <2>3, <4>1, Zenon DEF ReceiveRequest
      <4> QED
        BY <1>0, <3>2, <4>1, <4>2, SMT DEF InFlight
    <3> QED
      BY <1>5, <3>1, <3>2, Zenon DEF ReceiveRequest
  <2>4. ASSUME NEW q \in Peers, NEW k \in Seqs, NEW h \in running',
               h.call = <<q, k>>
        PROVE  Issued(q, k, h.id) /\ h.peer = target[q][k]
    <3>1. CASE h \in running
      BY <1>0, <2>4, <3>1, Zenon DEF InFlight
    <3>2. ASSUME m.target = p, h = [peer |-> p, id |-> m.id, call |-> m.call]
          PROVE  Issued(q, k, h.id) /\ h.peer = target[q][k]
      <4>1. h.id = m.id /\ h.peer = p /\ m.call = <<q, k>>
        BY <2>4, <3>2, SMT
      <4>2. m.type = "request"
        BY <1>5, Zenon DEF ReceiveRequest
      <4> QED
        BY <1>0, <3>2, <4>1, <4>2, SMT DEF InFlight
    <3> QED
      BY <1>5, <3>1, <3>2, Zenon DEF ReceiveRequest
  <2> QED
    BY <2>1, <2>2, <2>3, <2>4, Zenon DEF InFlight, Issued
<1>6. ASSUME NEW p \in Peers, NEW m \in wire, ReceiveResponse(p, m)
      PROVE  InFlight' /\ AnswerIsMine'
  <2>1. UNCHANGED <<rpcCounter, target, running>> /\ wire' \subseteq wire
    BY <1>6, SMT DEF ReceiveResponse
  <2>2. InFlight'
    BY <1>0, <2>1, SMT DEF InFlight, Issued
  <2>3. ASSUME NEW n \in pendingRpc[p], CorrelationId(p, n) = m.id,
               phase' = [phase EXCEPT
                     ![p][n] = IF m.ok THEN "resolved" ELSE "refused"],
               answer' = [answer EXCEPT ![p][n] = <<m.from, m.call>>]
        PROVE  AnswerIsMine'
    <3>1. n \in Seqs /\ m.type = "response"
      BY <1>0, <1>6, SMT DEF TypeOK, ReceiveResponse
    <3>2. PICK q \in Peers, k \in Seqs : m.call = <<q, k>>
      <4>1. m \in Messages
        BY <1>0, <1>6, Zenon DEF TypeOK
      <4>2. m.call \in Peers \X Seqs
        BY <4>1, SMT DEF Messages, Calls
      <4>3. /\ m.call[1] \in Peers /\ m.call[2] \in Seqs
            /\ m.call = <<m.call[1], m.call[2]>>
        BY <4>2, SMT
      <4> QED
        BY <4>3, Zenon
    <3>3. m.id = CorrelationId(q, k) /\ m.from = target[q][k]
      BY <1>0, <3>1, <3>2, Zenon DEF InFlight, Issued
    <3>4. p = q /\ n = k
      BY <2>3, <3>1, <3>3, CorrelationIdUnique
    <3> QED
      BY <1>0, <2>1, <2>3, <3>1, <3>2, <3>3, <3>4, SMT DEF AnswerIsMine, TypeOK
  <2>4. AnswerIsMine'
    <3>1. CASE UNCHANGED <<pendingRpc, phase, answer>>
      BY <1>0, <2>1, <3>1, SMT DEF AnswerIsMine
    <3> QED
      BY <1>6, <2>3, <3>1, Zenon DEF ReceiveResponse
  <2> QED
    BY <2>2, <2>4
<1>7. ASSUME NEW h \in running, NEW ok \in BOOLEAN, HandlerDone(h, ok)
      PROVE  InFlight' /\ AnswerIsMine'
  <2>1. UNCHANGED <<rpcCounter, target, answer, phase>> /\ running' \subseteq running
    BY <1>7, SMT DEF HandlerDone
  <2>2. AnswerIsMine'
    BY <1>0, <2>1, SMT DEF AnswerIsMine
  <2>3. ASSUME NEW q \in Peers, NEW k \in Seqs, NEW x \in wire',
               x.call = <<q, k>>
        PROVE  /\ Issued(q, k, x.id)
               /\ x.type = "request" => x.target = target[q][k]
               /\ x.type = "response" => x.from = target[q][k]
    <3>1. CASE x \in wire
      BY <1>0, <2>3, <3>1, Zenon DEF InFlight
    <3>2. ASSUME x \in BroadcastResponse(h.peer, h.id, ok, h.call)
          PROVE  /\ Issued(q, k, x.id)
                 /\ x.type = "request" => x.target = target[q][k]
                 /\ x.type = "response" => x.from = target[q][k]
      <4>1. x.type = "response" /\ x.from = h.peer /\ x.id = h.id
            /\ x.call = h.call
        BY <3>2, SMT DEF BroadcastResponse, Response
      <4> QED
        BY <1>0, <2>3, <4>1, SMT DEF InFlight
    <3> QED
      BY <1>7, <3>1, <3>2, Zenon DEF HandlerDone
  <2>4. ASSUME NEW q \in Peers, NEW k \in Seqs, NEW g \in running',
               g.call = <<q, k>>
        PROVE  Issued(q, k, g.id) /\ g.peer = target[q][k]
    BY <1>0, <2>1, <2>4, Zenon DEF InFlight
  <2> QED
    BY <2>1, <2>2, <2>3, <2>4, Zenon DEF InFlight, Issued
<1>8. CASE UNCHANGED vars
  BY <1>0, <1>8, Zenon DEF vars, InFlight, AnswerIsMine, Issued
<1> QED
  BY <1>1, <1>2, <1>3, <1>4, <1>5, <1>6, <1>7, <1>8 DEF Next

\* In a room whose client ids have distinct low bytes below 128, the value a
\* caller gets was computed by the peer it asked, for that very call.
THEOREM AnswersMatch == ASSUME DistinctLowBytes PROVE Spec => []AnswerIsMine
<1>1. RpcInv /\ [Next]_vars => RpcInv'
  BY FlightStep
<1>2. RpcInv => AnswerIsMine
  BY DEF RpcInv
<1> QED
  BY <1>1, <1>2, RpcInit, PTL DEF Spec

\* In such a room a response that reaches its waiting caller settles it.
THEOREM AnsweredSettles ==
    ASSUME DistinctLowBytes PROVE Spec => AnsweredCallSettles
<1>1. ASSUME RpcInv, NEW p \in Peers, NEW n \in Seqs, NEW m \in wire,
             m.type = "response", m.to = p, m.call = <<p, n>>,
             phase[p][n] = "pending", ReceiveResponse(p, m)
      PROVE  phase'[p][n] # "pending"
  <2>0. TypeOK /\ UnsettledIsTracked /\ InFlight
    BY <1>1 DEF RpcInv, TrackInv
  <2>1. n \in pendingRpc[p] /\ ~destroyed[p]
    BY <1>1, <2>0, SMT DEF UnsettledIsTracked
  <2>2. m.id = CorrelationId(p, n)
    BY <1>1, <2>0, Zenon DEF InFlight, Issued
  <2>3. PICK k \in pendingRpc[p] :
          /\ CorrelationId(p, k) = m.id
          /\ phase' = [phase EXCEPT
                     ![p][k] = IF m.ok THEN "resolved" ELSE "refused"]
    BY <1>1, <2>1, <2>2, Zenon DEF ReceiveResponse
  <2>4. k \in Seqs
    BY <2>0, SMT DEF TypeOK
  <2>5. k = n
    BY <2>2, <2>3, <2>4, CorrelationIdUnique
  <2> QED
    BY <2>0, <2>3, <2>5, SMT DEF TypeOK
<1>2. RpcInv /\ [Next]_vars =>
        [\A p \in Peers, n \in Seqs, m \in wire :
          (/\ m.type = "response" /\ m.to = p /\ m.call = <<p, n>>
           /\ phase[p][n] = "pending"
           /\ ReceiveResponse(p, m))
          => phase'[p][n] # "pending"]_vars
  BY <1>1
<1>3. RpcInv /\ [Next]_vars => RpcInv'
  BY FlightStep
<1> QED
  BY <1>2, <1>3, RpcInit, PTL DEF Spec, AnsweredCallSettles

-----------------------------------------------------------------------------
(* The runner and its frames: what the parts of a page's state are.        *)

Waits == {"run", "start", "list"}
Asks == {"run", "reload", "start", "verdict"}
Tells == {"paused", "complete", "exploded", "interrupted"}
ToFrame == [kind : Asks, id : Nat \ {0}] \cup [kind : {"go", "term"}, id : {0}]
ToPage == [kind : {"result"}, id : Nat \ {0}, ok : BOOLEAN] \cup [kind : Tells, id : {0}, ok : BOOLEAN]
Frames == [in : Seq(ToFrame), out : Seq(ToPage), runs : SUBSET (Nat \ {0}),
           session : Comps \cup {NONE}, going : BOOLEAN]
Panels == [text : 0 .. MaxEdits, running : BOOLEAN, source : 0 .. MaxEdits,
           debugging : BOOLEAN, test : BOOLEAN, stop : BOOLEAN, paused : BOOLEAN]
Asked == [id : Nat \ {0}, comp : Comps, kind : Asks, src : 0 .. MaxEdits, to : Comps \cup {NONE}]

\* The types of all of it.
BridgeShape ==
    /\ arming \in [Comps -> {"no", "loading", "armed", "failed", "gone"}]
    /\ waiting \in [Comps -> Seq(Waits)]
    /\ ui \in [Comps -> Panels]
    /\ attached \in Comps \cup {NONE} /\ hook \in Comps \cup {NONE}
    /\ listeners \in Nat /\ nextId \in Nat
    /\ pending \subseteq Asked
    /\ frame \in [Comps -> Frames]

\* A frame is attached at most once: before, nothing is sent to it.
Up(c) == arming[c] \in {"armed", "gone"}
UpInv ==
    /\ \A c \in Comps : arming[c] \in {"no", "loading"} => frame[c] = Blank
    /\ \A c \in Comps : arming[c] = "no" => waiting[c] = <<>>
    /\ attached # NONE => Up(attached)
    /\ hook # NONE => Up(hook)
    /\ \A p \in pending : (p.kind \in {"start", "verdict"} => Up(p.comp)) /\ (p.to # NONE => Up(p.to))
    /\ \A c \in Comps : ui[c].stop => Up(c)

\* Only a frame with a session runs a program under the debugger.
GoingInv == \A c \in Comps : frame[c].going => frame[c].session # NONE

\* A call has a number of its own.
CallsInv == \A p \in pending : p.id <= nextId /\ \A q \in pending : p.id = q.id => p = q

\* A component whose debugger waits for its frame shows a session.
WaitInv ==
    \A c \in Comps : arming[c] \in {"loading", "armed"} =>
        \A i \in DOMAIN waiting[c] : waiting[c][i] = "start" => ui[c].debugging

\* A component that says it is running waits, or has made its call.
RunningInv ==
    \A c \in Comps : ui[c].running =>
        \/ arming[c] = "gone"
        \/ \E i \in DOMAIN waiting[c] : waiting[c][i] = "run"
        \/ \E p \in pending : p.comp = c /\ p.kind = "run"

\* A number on its way was given out, and is of a call made to that frame.
OnLine(f, n) ==
    \/ \E i \in DOMAIN frame[f].in : frame[f].in[i].id = n
    \/ n \in frame[f].runs
    \/ \E i \in DOMAIN frame[f].out : frame[f].out[i].id = n
NumbersAt(f) ==
    /\ \A n \in Nat : OnLine(f, n) => n <= nextId
    /\ \A p \in pending : OnLine(f, p.id) => p.to = f

\* The start of a session is on its way once, and its call is pending.
StartsAt(f) ==
    \A i \in DOMAIN frame[f].in : frame[f].in[i].kind = "start" =>
        /\ \E p \in pending : p.id = frame[f].in[i].id
        /\ \A j \in DOMAIN frame[f].in : j # i => frame[f].in[j].id # frame[f].in[i].id
        /\ frame[f].in[i].id \notin frame[f].runs
        /\ \A j \in DOMAIN frame[f].out : frame[f].out[j].id # frame[f].in[i].id

\* A session, and one that is to start, has a panel or will be terminated.
OwnedAt(f) ==
    /\ frame[f].session # NONE =>
          \/ ui[frame[f].session].debugging
          \/ \E j \in DOMAIN frame[f].in : frame[f].in[j].kind = "term"
    /\ \A i \in DOMAIN frame[f].in : frame[f].in[i].kind = "start" =>
          \A p \in pending : p.id = frame[f].in[i].id =>
              \/ ui[p.comp].debugging
              \/ \E j \in DOMAIN frame[f].in : j > i /\ frame[f].in[j].kind = "term"

\* The call of a run made to the frame is on its way.
RunsAt(f) == \A p \in pending : p.kind = "run" /\ p.to = f => OnLine(f, p.id)

LineInv == \A f \in Comps : NumbersAt(f) /\ StartsAt(f)
HereInv ==
    attached \in Present =>
        RunsAt(attached) /\ (~Mono => OwnedAt(attached))

BridgeInv ==
    /\ BridgeShape /\ UpInv /\ GoingInv /\ CallsInv /\ (~Mono => WaitInv) /\ RunningInv
    /\ LineInv /\ HereInv

-----------------------------------------------------------------------------
(* Queues, and what is sent to a frame or taken from it.                   *)

\* A queue with a message at its end.
LEMMA AddedLast ==
    ASSUME NEW S, NEW s \in Seq(S), NEW m \in S
    PROVE  /\ Append(s, m) \in Seq(S)
           /\ Append(s, m) = s \o <<m>> /\ <<m>> \in Seq(S)
           /\ DOMAIN <<m>> = 1 .. 1 /\ Len(<<m>>) = 1 /\ <<m>>[1] = m /\ <<m>> # <<>>
OBVIOUS

\* A queue without its first message.
LEMMA FirstTaken ==
    ASSUME NEW S, NEW s \in Seq(S), s # <<>>
    PROVE  /\ Head(s) \in S /\ Tail(s) \in Seq(S)
           /\ 1 \in DOMAIN s /\ Head(s) = s[1]
           /\ DOMAIN s = 1 .. Len(s) /\ Len(s) \in Nat \ {0}
           /\ DOMAIN Tail(s) = 1 .. Len(s) - 1
           /\ \A i \in DOMAIN Tail(s) : i + 1 \in DOMAIN s /\ Tail(s)[i] = s[i + 1]
           /\ \A i \in DOMAIN s : i # 1 => i - 1 \in DOMAIN Tail(s) /\ Tail(s)[i - 1] = s[i]
OBVIOUS

\* A queue with more messages behind it.
LEMMA PutBehind ==
    ASSUME NEW S, NEW s \in Seq(S), NEW t \in Seq(S)
    PROVE  /\ s \o t \in Seq(S)
           /\ DOMAIN s = 1 .. Len(s) /\ Len(s) \in Nat
           /\ DOMAIN t = 1 .. Len(t) /\ Len(t) \in Nat
           /\ DOMAIN (s \o t) = 1 .. Len(s) + Len(t)
           /\ \A i \in DOMAIN s : i \in DOMAIN (s \o t) /\ (s \o t)[i] = s[i]
           /\ \A i \in DOMAIN t : Len(s) + i \in DOMAIN (s \o t) /\ (s \o t)[Len(s) + i] = t[i]
           /\ \A i \in DOMAIN (s \o t) :
                 \/ i \in DOMAIN s /\ (s \o t)[i] = s[i]
                 \/ i > Len(s) /\ i - Len(s) \in DOMAIN t /\ (s \o t)[i] = t[i - Len(s)]
OBVIOUS

\* The numbers of the messages of a queue.
Nums(s) == {s[i].id : i \in DOMAIN s}

\* The numbers of both parts of a queue, and of its first message and the rest.
LEMMA NumsOfBoth ==
    ASSUME NEW S, NEW s \in Seq(S), NEW t \in Seq(S)
    PROVE  Nums(s \o t) = Nums(s) \cup Nums(t)
<1> DEFINE u == s \o t
<1>1. /\ \A i \in DOMAIN s : i \in DOMAIN u /\ u[i] = s[i]
      /\ \A i \in DOMAIN t : Len(s) + i \in DOMAIN u /\ u[Len(s) + i] = t[i]
      /\ \A i \in DOMAIN u :
            (i \in DOMAIN s /\ u[i] = s[i]) \/ (\E k \in DOMAIN t : u[i] = t[k])
  BY PutBehind
<1> HIDE DEF u
<1>2. ASSUME NEW i \in DOMAIN t PROVE t[i].id \in Nums(u)
  <2>1. Len(s) + i \in DOMAIN u /\ u[Len(s) + i] = t[i]
    BY <1>1
  <2> QED
    BY <2>1 DEF Nums
<1>3. Nums(u) = Nums(s) \cup Nums(t)
  BY <1>1, <1>2 DEF Nums
<1> QED
  BY <1>3 DEF u

LEMMA NumsOfRest ==
    ASSUME NEW S, NEW s \in Seq(S), s # <<>>
    PROVE  Nums(s) = {s[1].id} \cup Nums(Tail(s))
<1>1. /\ 1 \in DOMAIN s
      /\ \A i \in DOMAIN Tail(s) : \E k \in DOMAIN s : Tail(s)[i] = s[k]
      /\ \A i \in DOMAIN s : i = 1 \/ \E k \in DOMAIN Tail(s) : Tail(s)[k] = s[i]
  BY FirstTaken
<1> QED
  BY <1>1 DEF Nums

\* The messages behind the first, each one place further to the front.
LEMMA TheRest ==
    ASSUME NEW S, NEW s \in Seq(S), s # <<>>
    PROVE  /\ 1 \in DOMAIN s
           /\ \A i \in DOMAIN Tail(s) : i \in Nat /\ \E k \in DOMAIN s : k = i + 1 /\ Tail(s)[i] = s[k]
           /\ \A i \in DOMAIN s : i \in Nat /\
                (i = 1 \/ (i > 1 /\ \E k \in DOMAIN Tail(s) : k = i - 1 /\ Tail(s)[k] = s[i]))
BY FirstTaken

\* What is posted reaches the frame attached last, if there is one.
LEMMA SendIs ==
    ASSUME NEW fr \in [Comps -> Frames], NEW m \in ToFrame
    PROVE  /\ Send(fr, m) \in [Comps -> Frames]
           /\ attached \notin Present => Send(fr, m) = fr
           /\ \A c \in Comps : c # attached => Send(fr, m)[c] = fr[c]
           /\ \A c \in Comps : /\ Send(fr, m)[c].out = fr[c].out
                               /\ Send(fr, m)[c].runs = fr[c].runs
                               /\ Send(fr, m)[c].session = fr[c].session
                               /\ Send(fr, m)[c].going = fr[c].going
           /\ attached \in Present => Send(fr, m)[attached].in = Append(fr[attached].in, m)
<1>1. CASE attached \notin Present
  BY <1>1 DEF Send
<1>2. CASE attached \in Present
  <2>1. attached \in Comps
    BY <1>2 DEF Present
  <2>2. fr[attached].in \in Seq(ToFrame)
    BY <2>1 DEF Frames
  <2>3. Append(fr[attached].in, m) \in Seq(ToFrame)
    BY <2>2, AddedLast
  <2> QED
    BY <1>2, <2>1, <2>3 DEF Send, Frames
<1> QED
  BY <1>1, <1>2

\* The page takes the first message of a frame.
LEMMA TakenIs ==
    ASSUME BridgeShape, NEW f \in Comps, frame[f].out # <<>>
    PROVE  /\ Taken(f) \in [Comps -> Frames]
           /\ \A c \in Comps : c # f => Taken(f)[c] = frame[c]
           /\ \A c \in Comps : /\ Taken(f)[c].in = frame[c].in
                               /\ Taken(f)[c].runs = frame[c].runs
                               /\ Taken(f)[c].session = frame[c].session
                               /\ Taken(f)[c].going = frame[c].going
           /\ Taken(f)[f].out = Tail(frame[f].out)
           /\ Next1(f) = frame[f].out[1] /\ 1 \in DOMAIN frame[f].out /\ Next1(f) \in ToPage
<1>1. frame \in [Comps -> Frames] /\ frame[f].out \in Seq(ToPage)
  BY DEF BridgeShape, Frames
<1>2. Tail(frame[f].out) \in Seq(ToPage) /\ Head(frame[f].out) \in ToPage
      /\ Head(frame[f].out) = frame[f].out[1] /\ 1 \in DOMAIN frame[f].out
  BY <1>1, FirstTaken
<1> QED
  BY <1>1, <1>2 DEF Taken, Next1, Frames

-----------------------------------------------------------------------------
(* The types.                                                              *)

LEMMA PanelIs ==
    ASSUME BridgeShape, NEW c \in Comps
    PROVE  ui[c] \in Panels
BY DEF BridgeShape

\* The messages of the page.
LEMMA Letters ==
    /\ Msg("go", 0) \in ToFrame /\ Msg("term", 0) \in ToFrame
    /\ \A n \in Nat \ {0}, k \in Asks : Msg(k, n) \in ToFrame
BY DEF Msg, ToFrame

LEMMA StopDebugShape ==
    ASSUME BridgeShape, NEW c \in Comps, NEW fr \in [Comps -> Frames], StopDebug(c, fr)
    PROVE  /\ ui' \in [Comps -> Panels] /\ frame' \in [Comps -> Frames]
           /\ frame' = Send(fr, Msg("term", 0)) /\ hook' = NONE
           /\ \A d \in Comps : ui'[d].text = ui[d].text /\ ui'[d].running = ui[d].running
           /\ \A d \in Comps : ui'[d].stop => ui[d].stop
           /\ \A d \in Comps \ {c} : ui'[d] = ui[d]
<1> DEFINE over == [ui[c] EXCEPT !.debugging = FALSE, !.test = FALSE, !.stop = FALSE, !.paused = FALSE]
<1>1. /\ ui' \in [Comps -> Panels]
      /\ \A d \in Comps : ui'[d].text = ui[d].text /\ ui'[d].running = ui[d].running
      /\ \A d \in Comps : ui'[d].stop => ui[d].stop
      /\ \A d \in Comps \ {c} : ui'[d] = ui[d]
  <2>1. ui \in [Comps -> Panels] /\ ui[c] \in Panels
    BY DEF BridgeShape
  <2>2. over \in Panels /\ over.text = ui[c].text /\ over.running = ui[c].running /\ ~over.stop
    BY <2>1 DEF Panels
  <2>3. ui' = [ui EXCEPT ![c] = over]
    BY <2>1, Zenon DEF StopDebug
  <2> HIDE DEF over
  <2> QED
    BY <2>1, <2>2, <2>3
<1>2. frame' \in [Comps -> Frames]
  BY SendIs, Letters DEF StopDebug
<1> QED
  BY <1>1, <1>2 DEF StopDebug

LEMMA CallShape ==
    ASSUME BridgeShape, NEW c \in Comps, NEW k \in Asks, NEW src \in 0 .. MaxEdits,
           Call(c, k, src, frame)
    PROVE  /\ nextId' = nextId + 1 /\ nextId' \in Nat \ {0}
           /\ pending' \subseteq Asked
           /\ frame' \in [Comps -> Frames]
           /\ frame' = Send(frame, Msg(k, nextId + 1)) /\ Msg(k, nextId + 1) \in ToFrame
<1>1. nextId + 1 \in Nat \ {0} /\ frame \in [Comps -> Frames] /\ attached \in Comps \cup {NONE}
  BY DEF BridgeShape
<1>2. Msg(k, nextId + 1) \in ToFrame
  BY <1>1, Letters
<1> QED
  BY <1>1, <1>2, SendIs DEF BridgeShape, Call, Asked

LEMMA EnsureArmedShape ==
    ASSUME BridgeShape, NEW c \in Comps, NEW k \in Waits, EnsureArmed(c, k)
    PROVE  /\ arming' \in [Comps -> {"no", "loading", "armed", "failed", "gone"}]
           /\ waiting' \in [Comps -> Seq(Waits)]
           /\ \A d \in Comps : arming'[d] = IF d = c /\ arming[d] = "no" THEN "loading" ELSE arming[d]
           /\ \A d \in Comps : waiting'[d] = IF d = c THEN Append(waiting[d], k) ELSE waiting[d]
<1>1. waiting[c] \in Seq(Waits)
  BY DEF BridgeShape
<1>2. Append(waiting[c], k) \in Seq(Waits)
  BY <1>1, AddedLast
<1> QED
  BY <1>2 DEF BridgeShape, EnsureArmed

\* The buttons and the start of a frame.
LEMMA PressShape ==
    ASSUME BridgeShape, NEW c \in Comps,
           \/ Edit(c) \/ DetectTests(c) \/ PressRun(c) \/ PressDebug(c) \/ PressReload(c)
           \/ PressContinue(c) \/ PressStop(c) \/ CloseWindow(c) \/ Remove(c)
           \/ Armed(c) \/ ArmFails(c)
    PROVE  BridgeShape'
<1>1. frame \in [Comps -> Frames] /\ ui \in [Comps -> Panels] /\ ui[c] \in Panels
  BY DEF BridgeShape
<1>2. MaxEdits \in Nat
  BY RunnerAssumption
<1>3. CASE Edit(c)
  <2>1. ui[c].text \in 0 .. MaxEdits /\ ui[c].text + 1 \in 0 .. MaxEdits
    BY <1>1, <1>2, <1>3 DEF Edit, Panels
  <2>2. ui' = [ui EXCEPT ![c].text = ui[c].text + 1]
    BY <1>1, <1>3, Zenon DEF Edit
  <2>3. ui' \in [Comps -> Panels]
    BY <1>1, <2>1, <2>2 DEF Panels
  <2> QED
    BY <1>3, <2>3 DEF Edit, BridgeShape, runner
<1>4. CASE DetectTests(c)
  <2>1. EnsureArmed(c, "list") /\ "list" \in Waits
    BY <1>4 DEF DetectTests, Waits
  <2>2. UNCHANGED <<ui, attached, listeners, hook, pending, nextId, frame>>
    BY <1>4 DEF DetectTests, runner
  <2> QED
    BY <2>1, <2>2, EnsureArmedShape DEF BridgeShape
<1>5. CASE PressRun(c)
  <2>1. /\ [ui[c] EXCEPT !.running = TRUE, !.source = ui[c].text] \in Panels
        /\ ui' = [ui EXCEPT ![c] = [ui[c] EXCEPT !.running = TRUE, !.source = ui[c].text]]
    BY <1>1, <1>5 DEF PressRun, Panels
  <2>2. ui' \in [Comps -> Panels]
    BY <1>1, <2>1
  <2> QED
    <3>1. EnsureArmed(c, "run") /\ "run" \in Waits
      BY <1>5 DEF PressRun, Waits
    <3> QED
      BY <1>5, <2>2, <3>1, EnsureArmedShape DEF PressRun, BridgeShape, runner
<1>6. CASE PressDebug(c)
  <2>1. ui' \in [Comps -> Panels]
    <3> PICK t \in BOOLEAN : ui' = [ui EXCEPT ![c].debugging = TRUE, ![c].test = t]
      BY <1>6 DEF PressDebug
    <3>1. /\ [ui[c] EXCEPT !.debugging = TRUE, !.test = t] \in Panels
          /\ ui' = [ui EXCEPT ![c] = [ui[c] EXCEPT !.debugging = TRUE, !.test = t]]
      BY <1>1 DEF Panels
    <3> QED
      BY <1>1, <3>1
  <2> QED
    <3>1. EnsureArmed(c, "start") /\ "start" \in Waits
      BY <1>6 DEF PressDebug, Waits
    <3> QED
      BY <1>6, <2>1, <3>1, EnsureArmedShape DEF PressDebug, BridgeShape, runner
<1>7. CASE PressReload(c)
  <2>1. ui[c].text \in 0 .. MaxEdits /\ "reload" \in Asks
    BY <1>1 DEF Panels, Asks
  <2> QED
    BY <1>7, <2>1, CallShape DEF PressReload, BridgeShape, runner
<1>8. CASE PressContinue(c)
  <2>1. frame' \in [Comps -> Frames]
    BY <1>1, <1>8, SendIs, Letters DEF PressContinue
  <2>2. ui' \in [Comps -> Panels]
    BY <1>1, <1>8 DEF PressContinue, Panels
  <2> QED
    BY <1>8, <2>1, <2>2 DEF PressContinue, BridgeShape, runner
<1>9. CASE PressStop(c) \/ CloseWindow(c)
  BY <1>1, <1>9, StopDebugShape DEF PressStop, CloseWindow, BridgeShape, runner
<1>10. CASE Remove(c)
  <2>1. Blank \in Frames
    BY EmptySeq DEF Blank, Frames
  <2> QED
    BY <1>1, <1>10, <2>1 DEF Remove, BridgeShape, runner
<1>11. CASE Armed(c)
  BY <1>11 DEF Armed, Attach, BridgeShape
<1>12. CASE ArmFails(c)
  BY <1>12 DEF ArmFails, BridgeShape, runner
<1> QED
  BY <1>3, <1>4, <1>5, <1>6, <1>7, <1>8, <1>9, <1>10, <1>11, <1>12

\* The continuations of a component.
LEMMA ResumeShape ==
    ASSUME BridgeShape, NEW c \in Comps, Resume(c) \/ Reject(c)
    PROVE  BridgeShape'
<1>1. /\ frame \in [Comps -> Frames] /\ ui \in [Comps -> Panels] /\ ui[c] \in Panels
      /\ waiting \in [Comps -> Seq(Waits)] /\ waiting[c] \in Seq(Waits) /\ waiting[c] # <<>>
  BY DEF BridgeShape, Resume, Reject
<1>2. waiting' \in [Comps -> Seq(Waits)]
  <2>1. waiting' = [waiting EXCEPT ![c] = Tail(waiting[c])]
    BY <1>1, Zenon DEF Resume, Reject
  <2>2. Tail(waiting[c]) \in Seq(Waits)
    BY <1>1, FirstTaken
  <2> QED
    BY <1>1, <2>1, <2>2
<1>3. CASE Resume(c)
  <2>1. ui[c].text \in 0 .. MaxEdits /\ ui[c].source \in 0 .. MaxEdits /\ {"run", "start"} \subseteq Asks
    BY <1>1 DEF Panels, Asks
  <2>2. UNCHANGED <<arming, ui, attached, listeners>>
    BY <1>3 DEF Resume, runner
  <2>3. hook' \in Comps \cup {NONE}
    BY <1>3 DEF Resume, BridgeShape
  <2>4. \/ Call(c, "run", ui[c].source, frame) \/ Call(c, "start", ui[c].text, frame)
        \/ UNCHANGED <<pending, nextId, frame>>
    BY <1>3 DEF Resume
  <2>5. nextId' \in Nat /\ pending' \subseteq Asked /\ frame' \in [Comps -> Frames]
    BY <2>1, <2>4, CallShape DEF BridgeShape
  <2> QED
    BY <1>2, <2>2, <2>3, <2>5 DEF BridgeShape
<1>4. CASE Reject(c)
  <2>1. UNCHANGED <<arming, attached, listeners, pending, nextId>>
    BY <1>4 DEF Reject, runner
  <2>2. ui' \in [Comps -> Panels] /\ hook' \in Comps \cup {NONE} /\ frame' \in [Comps -> Frames]
    <3>1. CASE ui' = [ui EXCEPT ![c].running = FALSE] /\ UNCHANGED <<hook, frame>>
      BY <1>1, <3>1 DEF BridgeShape, Panels
    <3>2. CASE StopDebug(c, frame)
      BY <1>1, <3>2, StopDebugShape
    <3>3. CASE UNCHANGED <<ui, hook, frame>>
      BY <3>3 DEF BridgeShape
    <3> QED
      BY <1>4, <3>1, <3>2, <3>3 DEF Reject
  <2> QED
    BY <1>2, <2>1, <2>2 DEF BridgeShape
<1> QED
  BY <1>3, <1>4

\* The page takes a message of a frame.
LEMMA TakeShape ==
    ASSUME BridgeShape, NEW f \in Comps, Ignored(f) \/ Takes(f)
    PROVE  BridgeShape'
<1>1. /\ frame \in [Comps -> Frames] /\ ui \in [Comps -> Panels] /\ pending \subseteq Asked
      /\ frame[f].out # <<>> /\ Taken(f) \in [Comps -> Frames]
  <2>1. frame[f].out # <<>>
    BY DEF Takes, Ignored, RunEnds, Reloaded, Started, Verdict, Resolves, Unheard, Paused, Complete,
           Interrupted, Event, Heard, Arrives
  <2> QED
    BY <2>1, TakenIs DEF BridgeShape
<1>2. \A q \in pending : q.comp \in Comps /\ q.src \in 0 .. MaxEdits
  BY <1>1 DEF Asked
<1>3. CASE Ignored(f) \/ Unheard(f)
  BY <1>1, <1>3 DEF Ignored, Unheard, BridgeShape, runner
<1>4. CASE Paused(f)
  <2>1. ui[hook] \in Panels /\ hook \in Comps
    BY <1>1, <1>4 DEF Paused, BridgeShape
  <2>2. [ui[hook] EXCEPT !.paused = (Next1(f).kind = "paused"), !.stop = TRUE] \in Panels
    BY <2>1 DEF Panels
  <2>3. ui' = [ui EXCEPT ![hook] = [ui[hook] EXCEPT !.paused = (Next1(f).kind = "paused"), !.stop = TRUE]]
    BY <1>1, <1>4, Zenon DEF Paused
  <2>4. ui' \in [Comps -> Panels]
    BY <1>1, <2>1, <2>2, <2>3
  <2> QED
    BY <1>1, <1>4, <2>4 DEF Paused, BridgeShape, runner
<1>5. CASE Interrupted(f)
  <2>1. hook \in Comps
    BY <1>5 DEF Interrupted, BridgeShape
  <2> QED
    BY <1>1, <1>5, <2>1, StopDebugShape DEF Interrupted, BridgeShape, runner
<1>6. CASE Complete(f)
  <2>1. hook \in Comps /\ UNCHANGED <<arming, waiting, attached, listeners>>
    BY <1>6 DEF Complete, BridgeShape, runner
  <2>2. CASE StopDebug(hook, Taken(f)) /\ UNCHANGED <<pending, nextId>>
    BY <1>1, <2>1, <2>2, StopDebugShape DEF BridgeShape
  <2>3. CASE ui[hook].test
    <3> DEFINE ask == [i \in 1 .. listeners |-> Msg("verdict", nextId + i)]
               asked == {[id |-> i, comp |-> hook, kind |-> "verdict", src |-> 0, to |-> attached] :
                             i \in (nextId + 1) .. (nextId + listeners)}
    <3>1. /\ pending' = pending \cup asked
          /\ frame' = [Taken(f) EXCEPT ![f].in = @ \o ask]
          /\ nextId' = nextId + listeners /\ UNCHANGED <<ui, hook>>
      BY <1>6, <2>3, Zenon DEF Complete
    <3>2. listeners \in Nat /\ nextId \in Nat /\ MaxEdits \in Nat /\ attached \in Comps \cup {NONE}
      BY RunnerAssumption DEF BridgeShape
    <3>3. ask \in Seq(ToFrame)
      <4>1. \A i \in 1 .. listeners : nextId + i \in Nat \ {0}
        BY <3>2
      <4>2. \A i \in 1 .. listeners : Msg("verdict", nextId + i) \in ToFrame
        BY <4>1, Letters DEF Asks
      <4> QED
        BY <3>2, <4>2
    <3>4. asked \subseteq Asked
      BY <2>1, <3>2 DEF Asked, Asks
    <3> HIDE DEF ask, asked
    <3>5. Taken(f)[f].in \o ask \in Seq(ToFrame)
      BY <1>1, <3>3, PutBehind DEF Frames
    <3>6. frame' \in [Comps -> Frames]
      BY <1>1, <3>1, <3>5 DEF Frames
    <3> QED
      BY <1>1, <2>1, <3>1, <3>2, <3>4, <3>6 DEF BridgeShape
  <2> QED
    BY <1>6, <2>2, <2>3 DEF Complete
<1>7. ASSUME NEW p \in pending, RunEnds(f, p) PROVE BridgeShape'
  <2>1. /\ ui' = [ui EXCEPT ![p.comp].running = FALSE] /\ frame' = Taken(f)
        /\ pending' \subseteq pending /\ UNCHANGED <<arming, waiting, attached, listeners, hook, nextId>>
    BY <1>7 DEF RunEnds, runner
  <2>2. ui' \in [Comps -> Panels]
    BY <1>1, <1>2, <2>1 DEF Panels
  <2> QED
    BY <1>1, <2>1, <2>2 DEF BridgeShape
<1>8. ASSUME NEW p \in pending, Reloaded(f, p) PROVE BridgeShape'
  <2>1. /\ ui' = [ui EXCEPT ![p.comp].source = IF Next1(f).ok THEN p.src ELSE @] /\ frame' = Taken(f)
        /\ pending' \subseteq pending /\ UNCHANGED <<arming, waiting, attached, listeners, hook, nextId>>
    BY <1>8 DEF Reloaded, runner
  <2>2. ui' \in [Comps -> Panels]
    BY <1>1, <1>2, <2>1 DEF Panels
  <2> QED
    BY <1>1, <2>1, <2>2 DEF BridgeShape
<1>9. ASSUME NEW p \in pending, Verdict(f, p) PROVE BridgeShape'
  BY <1>1, <1>2, <1>9, StopDebugShape DEF Verdict, BridgeShape, runner
<1>10. ASSUME NEW p \in pending, Started(f, p) PROVE BridgeShape'
  <2>1. UNCHANGED <<arming, waiting, attached, listeners, nextId>> /\ pending' \subseteq Asked
    BY <1>1, <1>10 DEF Started, runner
  <2>2. CASE StopDebug(p.comp, Taken(f))
    BY <1>1, <1>2, <2>1, <2>2, StopDebugShape DEF BridgeShape
  <2>3. CASE ui' = [ui EXCEPT ![p.comp].stop = TRUE] /\ frame' = Send(Taken(f), Msg("go", 0)) /\ UNCHANGED hook
    <3>1. ui' \in [Comps -> Panels]
      BY <1>1, <1>2, <2>3 DEF Panels
    <3>2. frame' \in [Comps -> Frames]
      BY <1>1, <2>3, SendIs, Letters
    <3> QED
      BY <2>1, <2>3, <3>1, <3>2 DEF BridgeShape
  <2> QED
    BY <1>10, <2>2, <2>3 DEF Started
<1> QED
  BY <1>3, <1>4, <1>5, <1>6, <1>7, <1>8, <1>9, <1>10 DEF Takes

\* The frame takes a message, its program ends, or it tells of an event.
LEMMA PutShape ==
    ASSUME BridgeShape, NEW f \in Comps, NEW fr, NEW out \in Seq(ToPage),
           frame[f].in # <<>>, Put(f, fr, out),
           fr \in Frames, fr.in = frame[f].in, fr.out = frame[f].out
    PROVE  /\ frame' \in [Comps -> Frames]
           /\ \A c \in Comps : c # f => frame'[c] = frame[c]
           /\ frame'[f].in = Tail(frame[f].in) /\ frame'[f].out = frame[f].out \o out
           /\ frame'[f].runs = fr.runs /\ frame'[f].session = fr.session
           /\ frame'[f].going = fr.going
<1>1. frame \in [Comps -> Frames] /\ frame[f].in \in Seq(ToFrame) /\ frame[f].out \in Seq(ToPage)
  BY DEF BridgeShape, Frames
<1>2. Tail(frame[f].in) \in Seq(ToFrame) /\ frame[f].out \o out \in Seq(ToPage)
  BY <1>1, FirstTaken, PutBehind
<1> DEFINE over == [fr EXCEPT !.in = Tail(@), !.out = @ \o out]
<1>3. /\ over \in Frames
      /\ over.in = Tail(frame[f].in) /\ over.out = frame[f].out \o out
      /\ over.runs = fr.runs /\ over.session = fr.session /\ over.going = fr.going
  BY <1>2 DEF Frames
<1>4. frame' = [frame EXCEPT ![f] = over]
  BY <1>1, Zenon DEF Put
<1> HIDE DEF over
<1> QED
  BY <1>1, <1>3, <1>4

\* What a frame does with the message at the head of its queue: its answer has
\* the number of the call, and only a start or a termination changes the session.
Served(f, m, out) ==
    /\ frame[f].in # <<>> /\ m = frame[f].in[1]
    /\ frame' \in [Comps -> Frames]
    /\ \A c \in Comps : c # f => frame'[c] = frame[c]
    /\ frame'[f].in = Tail(frame[f].in) /\ frame'[f].out = frame[f].out \o out
    /\ \A i \in DOMAIN out : out[i].id \in {0, m.id}
    /\ \/ /\ m.kind = "run" /\ frame'[f].runs = frame[f].runs \cup {m.id}
          /\ frame'[f].session = frame[f].session /\ frame'[f].going = frame[f].going
       \/ /\ m.kind \in {"reload", "verdict", "go"} /\ frame'[f].runs = frame[f].runs
          /\ frame'[f].session = frame[f].session
          /\ m.id = 0 \/ \E i \in DOMAIN out : out[i].id = m.id
          /\ frame'[f].going => frame[f].going \/ frame[f].session # NONE
       \/ /\ m.kind = "start" /\ frame'[f].runs = frame[f].runs
          /\ \E i \in DOMAIN out : out[i].id = m.id
          /\ \/ frame'[f].session = frame[f].session /\ frame'[f].going = frame[f].going
             \/ \E p \in pending : p.id = m.id /\ frame'[f].session = p.comp /\ ~frame'[f].going
       \/ /\ m.kind = "term" /\ frame'[f].runs = frame[f].runs
          /\ frame'[f].session = NONE /\ ~frame'[f].going

LEMMA VmTakeIs ==
    ASSUME BridgeShape, NEW f \in Comps, StartsAt(f), VmTake(f)
    PROVE  \E m \in ToFrame, out \in Seq(ToPage) : Served(f, m, out)
<1> DEFINE m == Head(frame[f].in)
           g == frame[f]
           starter == CHOOSE p \in pending : p.id = m.id
<1>1. /\ g \in Frames /\ g.in \in Seq(ToFrame) /\ g.in # <<>> /\ m \in ToFrame /\ m = g.in[1]
      /\ 1 \in DOMAIN g.in
  BY FirstTaken DEF BridgeShape, Frames, VmTake
<1>2. <<>> \in Seq(ToPage) /\ DOMAIN <<>> = {}
  OBVIOUS
<1>3. ASSUME NEW ok \in BOOLEAN, m.id # 0
      PROVE  /\ <<Say("result", m.id, ok)>> \in Seq(ToPage)
             /\ DOMAIN <<Say("result", m.id, ok)>> = {1} /\ <<Say("result", m.id, ok)>>[1].id = m.id
  BY <1>1, <1>3 DEF Say, ToPage, ToFrame
<1>4. m.kind \in Asks => m.id # 0
  BY <1>1 DEF ToFrame, Asks
<1>5. ASSUME NEW fr \in Frames, NEW out \in Seq(ToPage), Put(f, fr, out), fr.in = g.in, fr.out = g.out
      PROVE  /\ frame' \in [Comps -> Frames] /\ \A c \in Comps : c # f => frame'[c] = frame[c]
             /\ frame'[f].in = Tail(g.in) /\ frame'[f].out = g.out \o out
             /\ frame'[f].runs = fr.runs /\ frame'[f].session = fr.session
             /\ frame'[f].going = fr.going
  BY <1>1, <1>5, PutShape
<1>6. m = Head(frame[f].in)
  OBVIOUS
<1> HIDE DEF m
<1>7. CASE m.kind = "run" /\ Put(f, [g EXCEPT !.runs = @ \cup {m.id}], <<>>)
  <2>1. [g EXCEPT !.runs = @ \cup {m.id}] \in Frames
    BY <1>1, <1>4, <1>7 DEF Frames, ToFrame, Asks
  <2>2. Served(f, m, <<>>)
    BY <1>1, <1>2, <1>5, <1>7, <2>1 DEF Served, Frames
  <2> QED
    BY <1>1, <1>2, <2>2
<1>8. ASSUME NEW ok \in BOOLEAN, m.kind \in {"reload", "verdict"}, Put(f, g, <<Say("result", m.id, ok)>>)
      PROVE  Served(f, m, <<Say("result", m.id, ok)>>)
  BY <1>1, <1>3, <1>4, <1>5, <1>8 DEF Served, Asks
<1>9. CASE m.kind = "start" /\ Put(f, [g EXCEPT !.session = starter.comp, !.going = FALSE],
                                    <<Say("result", m.id, TRUE)>>)
  <2>1. starter \in pending /\ starter.id = m.id /\ starter.comp \in Comps
    BY <1>1, <1>9 DEF StartsAt, BridgeShape, Asked
  <2> DEFINE fr == [g EXCEPT !.session = starter.comp, !.going = FALSE]
  <2>2. /\ fr \in Frames /\ fr.in = g.in /\ fr.out = g.out /\ fr.runs = g.runs
        /\ fr.session = starter.comp /\ ~fr.going
    BY <1>1, <2>1 DEF Frames
  <2>3. Put(f, fr, <<Say("result", m.id, TRUE)>>) /\ <<Say("result", m.id, TRUE)>> \in Seq(ToPage)
    BY <1>3, <1>4, <1>9 DEF Asks
  <2> HIDE DEF fr, starter
  <2>4. /\ frame' \in [Comps -> Frames] /\ \A c \in Comps : c # f => frame'[c] = frame[c]
        /\ frame'[f].in = Tail(g.in) /\ frame'[f].out = g.out \o <<Say("result", m.id, TRUE)>>
        /\ frame'[f].runs = g.runs /\ frame'[f].session = starter.comp /\ ~frame'[f].going
    BY <1>5, <2>2, <2>3
  <2>5. /\ \A i \in DOMAIN <<Say("result", m.id, TRUE)>> : <<Say("result", m.id, TRUE)>>[i].id = m.id
        /\ \E i \in DOMAIN <<Say("result", m.id, TRUE)>> : <<Say("result", m.id, TRUE)>>[i].id = m.id
    BY <1>3, <1>4, <1>9 DEF Asks
  <2>6. Served(f, m, <<Say("result", m.id, TRUE)>>)
    BY <1>1, <1>9, <2>1, <2>4, <2>5 DEF Served
  <2> QED
    BY <1>1, <2>3, <2>6
<1>10. CASE m.kind = "start" /\ Put(f, g, <<Say("result", m.id, FALSE)>>)
  <2>1. Served(f, m, <<Say("result", m.id, FALSE)>>)
    BY <1>1, <1>3, <1>4, <1>5, <1>10 DEF Served, Asks
  <2> QED
    BY <1>1, <1>3, <1>4, <1>10, <2>1 DEF Asks
<1>11. CASE m.kind = "go" /\ Put(f, [g EXCEPT !.going = g.session # NONE], <<>>)
  <2>1. [g EXCEPT !.going = g.session # NONE] \in Frames /\ m.id = 0
    BY <1>1, <1>11 DEF Frames, ToFrame, Asks
  <2>2. Served(f, m, <<>>)
    BY <1>1, <1>2, <1>5, <1>11, <2>1 DEF Served, Frames
  <2> QED
    BY <1>1, <1>2, <2>2
<1>12. CASE m.kind = "term" /\ Put(f, [g EXCEPT !.session = NONE, !.going = FALSE],
                                    IF g.going THEN <<Say("interrupted", 0, TRUE)>> ELSE <<>>)
  <2> DEFINE out == IF g.going THEN <<Say("interrupted", 0, TRUE)>> ELSE <<>>
  <2>1. [g EXCEPT !.session = NONE, !.going = FALSE] \in Frames
    BY <1>1 DEF Frames
  <2>2. out \in Seq(ToPage) /\ \A i \in DOMAIN out : out[i].id = 0
    <3>1. /\ <<Say("interrupted", 0, TRUE)>> \in Seq(ToPage)
          /\ DOMAIN <<Say("interrupted", 0, TRUE)>> = {1} /\ <<Say("interrupted", 0, TRUE)>>[1].id = 0
      BY DEF Say, ToPage, Tells
    <3> QED
      BY <1>2, <3>1
  <2>3. Put(f, [g EXCEPT !.session = NONE, !.going = FALSE], out)
    BY <1>12
  <2> HIDE DEF out
  <2>4. Served(f, m, out)
    BY <1>1, <1>5, <1>12, <2>1, <2>2, <2>3 DEF Served, Frames
  <2> QED
    BY <1>1, <2>2, <2>4
<1> QED
  <2>1. CASE m.kind \in {"reload", "verdict"}
    <3>1. PICK ok \in BOOLEAN : Put(f, g, <<Say("result", m.id, ok)>>)
      BY <1>6, <2>1, Zenon DEF VmTake
    <3> QED
      BY <1>1, <1>3, <1>4, <1>8, <2>1, <3>1 DEF Asks
  <2> QED
    BY <1>6, <1>7, <1>9, <1>10, <1>11, <1>12, <2>1, Zenon DEF VmTake

\* A program of the frame ends.
LEMMA VmEndIs ==
    ASSUME BridgeShape, NEW f \in Comps, VmEnd(f)
    PROVE  \E id \in frame[f].runs :
              /\ frame' \in [Comps -> Frames]
              /\ \A c \in Comps : c # f => frame'[c] = frame[c]
              /\ frame'[f].in = frame[f].in /\ frame'[f].runs = frame[f].runs \ {id}
              /\ frame'[f].session = frame[f].session /\ frame'[f].going = frame[f].going
              /\ Say("result", id, TRUE) \in ToPage
              /\ frame'[f].out = Append(frame[f].out, Say("result", id, TRUE))
<1>1. frame \in [Comps -> Frames] /\ frame[f] \in Frames
  BY DEF BridgeShape
<1>2. PICK id \in frame[f].runs : frame' =
          [frame EXCEPT ![f].runs = @ \ {id}, ![f].out = Append(@, Say("result", id, TRUE))]
  BY DEF VmEnd
<1> DEFINE over == [frame[f] EXCEPT !.runs = @ \ {id}, !.out = Append(@, Say("result", id, TRUE))]
<1>3. Say("result", id, TRUE) \in ToPage
  BY <1>1 DEF Say, ToPage, Frames
<1>4. Append(frame[f].out, Say("result", id, TRUE)) \in Seq(ToPage)
  BY <1>1, <1>3, AddedLast DEF Frames
<1>5. /\ over \in Frames
      /\ over.in = frame[f].in /\ over.runs = frame[f].runs \ {id}
      /\ over.session = frame[f].session /\ over.going = frame[f].going
      /\ over.out = Append(frame[f].out, Say("result", id, TRUE))
  BY <1>1, <1>4 DEF Frames
<1>6. frame' = [frame EXCEPT ![f] = over]
  BY <1>1, <1>2
<1> HIDE DEF over
<1> QED
  BY <1>1, <1>3, <1>5, <1>6

\* The program under the debugger tells of an event.
LEMMA VmEventIs ==
    ASSUME BridgeShape, NEW f \in Comps, VmEvent(f)
    PROVE  \E k \in Tells :
              /\ frame' \in [Comps -> Frames]
              /\ \A c \in Comps : c # f => frame'[c] = frame[c]
              /\ frame'[f].in = frame[f].in /\ frame'[f].runs = frame[f].runs
              /\ frame'[f].session = frame[f].session /\ ~frame'[f].going
              /\ Say(k, 0, TRUE) \in ToPage
              /\ frame'[f].out = Append(frame[f].out, Say(k, 0, TRUE))
<1>1. frame \in [Comps -> Frames] /\ frame[f] \in Frames
  BY DEF BridgeShape
<1>2. PICK k \in {"paused", "complete", "exploded"} :
          frame' = [frame EXCEPT ![f].going = FALSE, ![f].out = Append(@, Say(k, 0, TRUE))]
  BY DEF VmEvent
<1> DEFINE over == [frame[f] EXCEPT !.going = FALSE, !.out = Append(@, Say(k, 0, TRUE))]
<1>3. Say(k, 0, TRUE) \in ToPage /\ k \in Tells
  BY DEF Say, ToPage, Tells
<1>4. Append(frame[f].out, Say(k, 0, TRUE)) \in Seq(ToPage)
  BY <1>1, <1>3, AddedLast DEF Frames
<1>5. /\ over \in Frames
      /\ over.in = frame[f].in /\ over.runs = frame[f].runs
      /\ over.session = frame[f].session /\ ~over.going
      /\ over.out = Append(frame[f].out, Say(k, 0, TRUE))
  BY <1>1, <1>4 DEF Frames
<1>6. frame' = [frame EXCEPT ![f] = over]
  BY <1>1, <1>2
<1> HIDE DEF over
<1> QED
  BY <1>1, <1>3, <1>5, <1>6

\* Every step keeps the types.
LEMMA ShapeStep ==
    ASSUME BridgeShape, LineInv, [BridgeNext]_bridgeVars
    PROVE  BridgeShape'
<1>1. ASSUME NEW c \in Comps, VmTake(c) \/ VmEnd(c) \/ VmEvent(c)
      PROVE  BridgeShape'
  <2>1. UNCHANGED <<arming, waiting, ui, attached, listeners, hook, pending, nextId>>
    BY <1>1 DEF VmTake, VmEnd, VmEvent, runner
  <2>2. frame' \in [Comps -> Frames]
    <3>1. CASE VmTake(c)
      BY <3>1, VmTakeIs DEF LineInv, Served
    <3>2. CASE VmEnd(c)
      BY <3>2, VmEndIs
    <3>3. CASE VmEvent(c)
      BY <3>3, VmEventIs
    <3> QED
      BY <1>1, <3>1, <3>2, <3>3
  <2> QED
    BY <2>1, <2>2 DEF BridgeShape
<1>2. CASE UNCHANGED bridgeVars
  BY <1>2 DEF bridgeVars, BridgeShape
<1>3. CASE BridgeNext
  BY <1>1, <1>3, PressShape, ResumeShape, TakeShape DEF BridgeNext
<1> QED
  BY <1>2, <1>3

-----------------------------------------------------------------------------
(* What a step of the page does to the frame the runner talks to.          *)

\* The messages ms go to the attached frame, and one of its messages may be
\* taken: the answer to the one call that is then pending no more.
Took == frame[attached].out # <<>> /\ frame'[attached].out = Tail(frame[attached].out)
PageStep(ms) ==
    /\ ms \in Seq(ToFrame)
    /\ attached' = attached
    /\ \A c \in Comps : arming'[c] = "gone" <=> arming[c] = "gone"
    /\ \A c \in Comps : c # attached => frame'[c] = frame[c]
    /\ attached \notin Present => frame' = frame /\ pending \subseteq pending'
    /\ attached \in Present =>
          /\ frame'[attached].in = frame[attached].in \o ms
          /\ frame'[attached].runs = frame[attached].runs
          /\ frame'[attached].session = frame[attached].session
          /\ frame'[attached].going = frame[attached].going
          /\ Took \/ (frame'[attached].out = frame[attached].out /\ pending \subseteq pending')
          /\ \A p \in pending : Took => (p \in pending' <=> p.id # frame[attached].out[1].id)
    /\ nextId' >= nextId
    /\ \A p \in pending' \ pending :
          /\ p.id > nextId /\ p.id <= nextId' /\ p.to = attached
          /\ attached \in Present => \E i \in DOMAIN ms : ms[i].id = p.id
    /\ \A i \in DOMAIN ms : ms[i].id # 0 =>
          /\ ms[i].id > nextId /\ ms[i].id <= nextId'
          /\ \A j \in DOMAIN ms : ms[j].id = ms[i].id => j = i
    /\ \A i \in DOMAIN ms : ms[i].kind = "start" => \E p \in pending' : p.id = ms[i].id

\* A panel gives its session up only with the termination behind it, and a
\* session is asked for by a panel that shows one.
PanelStep(ms) ==
    /\ \/ \A c \in Comps : ui[c].debugging => ui'[c].debugging
       \/ ms # <<>> /\ ms[Len(ms)].kind = "term"
    /\ ~Mono => \A i \in DOMAIN ms : ms[i].kind = "start" =>
          \A p \in pending' : p.id = ms[i].id => ui'[p.comp].debugging

\* A number on the way is one that was there, or one of the messages sent.
LEMMA LineOfPage ==
    ASSUME BridgeShape, NEW ms, PageStep(ms), attached \in Present, NEW n
    PROVE  /\ OnLine(attached, n)' => OnLine(attached, n) \/ \E i \in DOMAIN ms : ms[i].id = n
           /\ (\E i \in DOMAIN ms : ms[i].id = n) => OnLine(attached, n)'
           /\ OnLine(attached, n) => OnLine(attached, n)' \/ (Took /\ n = frame[attached].out[1].id)
<1> DEFINE s == frame[attached].in
           o == frame[attached].out
<1>1. attached \in Comps /\ s \in Seq(ToFrame) /\ o \in Seq(ToPage) /\ ms \in Seq(ToFrame)
  BY DEF BridgeShape, Frames, Present, PageStep
<1>2. /\ frame'[attached].in = s \o ms /\ frame'[attached].runs = frame[attached].runs
      /\ attached' = attached
      /\ Took \/ frame'[attached].out = o
  BY DEF PageStep
<1>3. CASE ~Took
  <2>1. frame'[attached].out = o
    BY <1>2, <1>3
  <2>3. (OnLine(attached, n)' <=> \/ \E i \in DOMAIN (s \o ms) : (s \o ms)[i].id = n
                                  \/ n \in frame[attached].runs
                                  \/ \E i \in DOMAIN o : o[i].id = n)
        /\ (OnLine(attached, n) <=> \/ \E i \in DOMAIN s : s[i].id = n
                                    \/ n \in frame[attached].runs
                                    \/ \E i \in DOMAIN o : o[i].id = n)
    BY <1>2, <2>1 DEF OnLine
  <2> HIDE DEF s, o
  <2>2. /\ \A i \in DOMAIN s : i \in DOMAIN (s \o ms) /\ (s \o ms)[i] = s[i]
        /\ \A i \in DOMAIN ms : Len(s) + i \in DOMAIN (s \o ms) /\ (s \o ms)[Len(s) + i] = ms[i]
        /\ \A i \in DOMAIN (s \o ms) :
              (i \in DOMAIN s /\ (s \o ms)[i] = s[i]) \/ (\E j \in DOMAIN ms : (s \o ms)[i] = ms[j])
    BY <1>1, PutBehind
  <2> QED
    BY <2>2, <2>3
<1>4. CASE Took
  <2>1. o # <<>> /\ frame'[attached].out = Tail(o)
    BY <1>4 DEF Took
  <2>4. (OnLine(attached, n)' <=> \/ \E i \in DOMAIN (s \o ms) : (s \o ms)[i].id = n
                                  \/ n \in frame[attached].runs
                                  \/ \E i \in DOMAIN Tail(o) : Tail(o)[i].id = n)
        /\ (OnLine(attached, n) <=> \/ \E i \in DOMAIN s : s[i].id = n
                                    \/ n \in frame[attached].runs
                                    \/ \E i \in DOMAIN o : o[i].id = n)
    BY <1>2, <2>1 DEF OnLine
  <2>5. o[1] = frame[attached].out[1]
    OBVIOUS
  <2> HIDE DEF s, o
  <2>2. /\ \A i \in DOMAIN s : i \in DOMAIN (s \o ms) /\ (s \o ms)[i] = s[i]
        /\ \A i \in DOMAIN ms : Len(s) + i \in DOMAIN (s \o ms) /\ (s \o ms)[Len(s) + i] = ms[i]
        /\ \A i \in DOMAIN (s \o ms) :
              (i \in DOMAIN s /\ (s \o ms)[i] = s[i]) \/ (\E j \in DOMAIN ms : (s \o ms)[i] = ms[j])
    BY <1>1, PutBehind
  <2>3. /\ \A i \in DOMAIN Tail(o) : \E k \in DOMAIN o : Tail(o)[i] = o[k]
        /\ \A i \in DOMAIN o : i = 1 \/ \E k \in DOMAIN Tail(o) : Tail(o)[k] = o[i]
    BY <1>1, <2>1, FirstTaken
  <2> QED
    BY <1>4, <2>2, <2>3, <2>4, <2>5
<1> QED
  BY <1>3, <1>4

\* A step of the page keeps what is on its way accounted for.
LEMMA LineOfPageStep ==
    ASSUME BridgeShape, BridgeShape', LineInv, CallsInv, NEW ms, PageStep(ms)
    PROVE  LineInv'
<1>1. /\ nextId \in Nat /\ nextId' \in Nat /\ nextId' >= nextId /\ attached' = attached
      /\ \A p \in pending' \ pending : p.id > nextId /\ p.id <= nextId' /\ p.to = attached
      /\ \A p \in pending : p.id \in Nat \ {0}
      /\ \A p \in pending' : p.id \in Nat \ {0}
  BY DEF BridgeShape, PageStep, Asked
<1>2. ASSUME NEW f \in Comps, frame'[f] = frame[f] PROVE NumbersAt(f)'
  <2>1. \A n \in Nat : OnLine(f, n)' <=> OnLine(f, n)
    BY <1>2 DEF OnLine
  <2>2. NumbersAt(f)
    BY DEF LineInv
  <2> QED
    BY <1>1, <2>1, <2>2 DEF NumbersAt
<1>3. CASE attached \notin Present
  <2>1. frame' = frame /\ pending \subseteq pending'
    BY <1>3 DEF PageStep
  <2> QED
    BY <1>2, <2>1 DEF LineInv, StartsAt
<1>4. CASE attached \in Present
  <2> DEFINE o == frame[attached].out
  <2>0. attached \in Comps /\ frame[attached].in \in Seq(ToFrame) /\ o \in Seq(ToPage) /\ ms \in Seq(ToFrame)
    BY <1>4 DEF BridgeShape, Frames, Present, PageStep
  <2>1. /\ \A p \in pending : Took => (p \in pending' <=> p.id # o[1].id)
        /\ ~Took => pending \subseteq pending'
        /\ \A p \in pending \ pending' : Took /\ p.id = o[1].id
    BY <1>4 DEF PageStep
  <2>2. Took => 1 \in DOMAIN o
    BY <2>0, FirstTaken DEF Took
  <2>3. ASSUME NEW f \in Comps, f # attached PROVE StartsAt(f)'
    <3>1. frame'[f] = frame[f] /\ StartsAt(f) /\ NumbersAt(f) /\ NumbersAt(attached)
      BY <2>0, <2>3 DEF PageStep, LineInv
    <3>2. ASSUME NEW i \in DOMAIN frame[f].in, NEW p \in pending, p.id = frame[f].in[i].id
          PROVE  p \in pending'
      <4>1. OnLine(f, p.id)
        BY <3>2 DEF OnLine
      <4>2. Took /\ p.id = o[1].id => OnLine(attached, p.id)
        BY <2>2 DEF OnLine
      <4> QED
        BY <2>1, <2>3, <3>1, <4>1, <4>2 DEF NumbersAt
    <3> QED
      BY <3>1, <3>2 DEF StartsAt
  <2>4. NumbersAt(attached)'
    <3>1. NumbersAt(attached)
      BY <2>0 DEF LineInv
    <3>2. \A i \in DOMAIN ms : ms[i].id # 0 => ms[i].id > nextId /\ ms[i].id <= nextId'
      BY DEF PageStep
    <3>3. \A i \in DOMAIN ms : ms[i].id \in Nat
      BY <2>0 DEF ToFrame
    <3>4. ASSUME NEW n \in Nat, OnLine(attached, n)' PROVE n <= nextId'
      BY <1>1, <1>4, <3>1, <3>2, <3>3, <3>4, LineOfPage DEF NumbersAt
    <3>5. ASSUME NEW p \in pending', OnLine(attached, p.id)' PROVE p.to = attached
      <4>1. p.id \in Nat \ {0} /\ (p \in pending \/ p.to = attached)
        BY <1>1
      <4>2. OnLine(attached, p.id) => p.id <= nextId /\ (p \in pending => p.to = attached)
        BY <3>1, <4>1 DEF NumbersAt
      <4>3. (\E i \in DOMAIN ms : ms[i].id = p.id) => p.id > nextId
        BY <1>1, <3>2, <4>1
      <4>4. p \in pending => p.id <= nextId
        BY DEF CallsInv
      <4> QED
        BY <1>1, <1>4, <3>5, <4>1, <4>2, <4>3, <4>4, LineOfPage
    <3> QED
      BY <1>1, <3>4, <3>5 DEF NumbersAt
  <2>5. StartsAt(attached)'
    <3> DEFINE s == frame[attached].in
    <3>1. /\ frame'[attached].in = s \o ms /\ frame'[attached].runs = frame[attached].runs
          /\ Took \/ frame'[attached].out = o
      BY <1>4 DEF PageStep
    <3>2. StartsAt(attached) /\ NumbersAt(attached)
      BY <2>0 DEF LineInv
    <3>3. /\ \A i \in DOMAIN ms : ms[i].id # 0 =>
                ms[i].id > nextId /\ \A j \in DOMAIN ms : ms[j].id = ms[i].id => j = i
          /\ \A i \in DOMAIN ms : ms[i].kind = "start" => \E p \in pending' : p.id = ms[i].id
      BY DEF PageStep
    <3>4. /\ \A i \in DOMAIN ms : ms[i].id \in Nat /\ (ms[i].kind = "start" => ms[i].id # 0)
          /\ \A i \in DOMAIN s : s[i].id \in Nat /\ (s[i].kind = "start" => s[i].id # 0)
      <4>1. \A m \in ToFrame : m.id \in Nat /\ (m.kind = "start" => m.id # 0)
        BY DEF ToFrame, Asks
      <4> QED
        BY <2>0, <4>1
    <3>5. \A j \in DOMAIN frame'[attached].out : \E k \in DOMAIN o : frame'[attached].out[j] = o[k]
      <4>1. CASE ~Took
        BY <3>1, <4>1
      <4>2. CASE Took
        <5>1. o # <<>> /\ frame'[attached].out = Tail(o)
          BY <4>2 DEF Took
        <5> HIDE DEF o
        <5> QED
          BY <2>0, <5>1, FirstTaken
      <4> QED
        BY <4>1, <4>2
    <3>6. /\ \A i \in DOMAIN s : s[i].id <= nextId
          /\ \A n \in frame[attached].runs : n \in Nat => n <= nextId
          /\ \A k \in DOMAIN o : o[k].id \in Nat => o[k].id <= nextId
      BY <3>2, <3>4 DEF NumbersAt, OnLine
    <3>7. /\ \A i \in DOMAIN (s \o ms) :
                 \/ i \in DOMAIN s /\ (s \o ms)[i] = s[i]
                 \/ i > Len(s) /\ i - Len(s) \in DOMAIN ms /\ (s \o ms)[i] = ms[i - Len(s)]
          /\ DOMAIN s = 1 .. Len(s) /\ Len(s) \in Nat /\ DOMAIN (s \o ms) = 1 .. Len(s) + Len(ms)
          /\ Len(ms) \in Nat
      BY <2>0, PutBehind
    <3>8. \A k \in DOMAIN o : o[k].id \in Nat
      BY <2>0 DEF ToPage
    <3>9. frame[attached].runs \subseteq Nat
      BY <2>0 DEF BridgeShape, Frames
    <3> HIDE DEF s, o
    <3> SUFFICES ASSUME NEW i \in DOMAIN (s \o ms), (s \o ms)[i].kind = "start"
                 PROVE  /\ \E p \in pending' : p.id = (s \o ms)[i].id
                        /\ \A j \in DOMAIN (s \o ms) : j # i => (s \o ms)[j].id # (s \o ms)[i].id
                        /\ (s \o ms)[i].id \notin frame[attached].runs
                        /\ \A j \in DOMAIN frame'[attached].out : frame'[attached].out[j].id # (s \o ms)[i].id
      BY <1>1, <3>1 DEF StartsAt
    <3>10. CASE i \in DOMAIN s /\ (s \o ms)[i] = s[i]
      <4>1. /\ \E p \in pending : p.id = s[i].id
            /\ \A j \in DOMAIN s : j # i => s[j].id # s[i].id
            /\ s[i].id \notin frame[attached].runs
            /\ \A j \in DOMAIN o : o[j].id # s[i].id
        BY <3>2, <3>10 DEF StartsAt, s, o
      <4>2. \E p \in pending' : p.id = s[i].id
        BY <2>1, <2>2, <4>1
      <4>3. \A j \in DOMAIN (s \o ms) : j # i => (s \o ms)[j].id # s[i].id
        BY <1>1, <3>3, <3>4, <3>6, <3>7, <3>10, <4>1
      <4> QED
        BY <3>5, <3>10, <4>1, <4>2, <4>3
    <3>11. CASE i > Len(s) /\ i - Len(s) \in DOMAIN ms /\ (s \o ms)[i] = ms[i - Len(s)]
      <4> DEFINE m == ms[i - Len(s)]
      <4>1. /\ \E p \in pending' : p.id = m.id
            /\ m.id \in Nat \ {0} /\ m.id > nextId
            /\ \A j \in DOMAIN ms : ms[j].id = m.id => j = i - Len(s)
        BY <3>3, <3>4, <3>11
      <4>2. (s \o ms)[i] = m
        BY <3>11
      <4> HIDE DEF m
      <4>3. \A j \in DOMAIN (s \o ms) : j # i => (s \o ms)[j].id # m.id
        <5> SUFFICES ASSUME NEW j \in DOMAIN (s \o ms), j # i, (s \o ms)[j].id = m.id PROVE FALSE
          OBVIOUS
        <5>1. CASE j \in DOMAIN s /\ (s \o ms)[j] = s[j]
          BY <1>1, <3>4, <3>6, <4>1, <5>1
        <5>2. CASE j > Len(s) /\ j - Len(s) \in DOMAIN ms /\ (s \o ms)[j] = ms[j - Len(s)]
          BY <3>7, <4>1, <5>2
        <5> QED
          BY <3>7, <5>1, <5>2
      <4>4. m.id \notin frame[attached].runs /\ \A k \in DOMAIN o : o[k].id # m.id
        BY <1>1, <3>6, <3>8, <3>9, <4>1
      <4> QED
        BY <3>5, <4>1, <4>2, <4>3, <4>4
    <3> QED
      BY <3>7, <3>10, <3>11
  <2> QED
    <3>1. \A f \in Comps : f # attached => NumbersAt(f)'
      BY <1>2 DEF PageStep
    <3> QED
      BY <1>1, <2>3, <2>4, <2>5, <3>1, Zenon DEF LineInv
<1> QED
  BY <1>3, <1>4

\* A step of the page keeps the runs and the session of the attached frame.
LEMMA HereOfPageStep ==
    ASSUME BridgeShape, BridgeShape', LineInv, HereInv, NEW ms, PageStep(ms), PanelStep(ms)
    PROVE  HereInv'
<1>1. attached' = attached /\ (attached \in Present <=> attached \in Present')
  BY DEF PageStep, Present
<1> SUFFICES ASSUME attached \in Present
             PROVE  RunsAt(attached)' /\ (~Mono => OwnedAt(attached)')
  BY <1>1 DEF HereInv
<1> DEFINE s == frame[attached].in
<1>2. /\ attached \in Comps /\ s \in Seq(ToFrame) /\ ms \in Seq(ToFrame)
      /\ frame'[attached].in = s \o ms /\ frame'[attached].session = frame[attached].session
      /\ nextId \in Nat /\ RunsAt(attached) /\ (~Mono => OwnedAt(attached)) /\ NumbersAt(attached)
  BY DEF BridgeShape, Frames, Present, PageStep, HereInv, LineInv
<1>3. RunsAt(attached)'
  <2> SUFFICES ASSUME NEW p \in pending', p.kind = "run", p.to = attached PROVE OnLine(attached, p.id)'
    BY <1>1 DEF RunsAt
  <2>1. CASE p \in pending
    <3>1. OnLine(attached, p.id)
      BY <1>2, <2>1 DEF RunsAt
    <3>2. ~(Took /\ p.id = frame[attached].out[1].id)
      BY <2>1 DEF PageStep
    <3> QED
      BY <3>1, <3>2, LineOfPage
  <2>2. CASE p \notin pending
    <3>1. \E i \in DOMAIN ms : ms[i].id = p.id
      BY <2>2 DEF PageStep
    <3> QED
      BY <3>1, LineOfPage
  <2> QED
    BY <2>1, <2>2
<1>4. ASSUME ~Mono PROVE OwnedAt(attached)'
  <2>1. OwnedAt(attached) /\ frame[attached].session \in Comps \cup {NONE}
    BY <1>2, <1>4 DEF BridgeShape, Frames
  <2>2. /\ \A i \in DOMAIN s : i \in DOMAIN (s \o ms) /\ (s \o ms)[i] = s[i]
        /\ \A i \in DOMAIN ms : Len(s) + i \in DOMAIN (s \o ms) /\ (s \o ms)[Len(s) + i] = ms[i]
        /\ \A i \in DOMAIN (s \o ms) :
              \/ i \in DOMAIN s /\ (s \o ms)[i] = s[i]
              \/ i > Len(s) /\ i - Len(s) \in DOMAIN ms /\ (s \o ms)[i] = ms[i - Len(s)]
        /\ DOMAIN s = 1 .. Len(s) /\ Len(s) \in Nat /\ DOMAIN ms = 1 .. Len(ms) /\ Len(ms) \in Nat
    <3>1. s \in Seq(ToFrame) /\ ms \in Seq(ToFrame)
      BY <1>2
    <3> HIDE DEF s
    <3> QED
      BY <3>1, PutBehind
  <2>3. \/ \A c \in Comps : ui[c].debugging => ui'[c].debugging
        \/ \E j \in DOMAIN (s \o ms) : j > Len(s) /\ (s \o ms)[j].kind = "term"
    <3> SUFFICES ASSUME ms # <<>>, ms[Len(ms)].kind = "term"
                 PROVE  \E j \in DOMAIN (s \o ms) : j > Len(s) /\ (s \o ms)[j].kind = "term"
      BY DEF PanelStep
    <3>1. Len(ms) \in DOMAIN ms
      BY <1>2, <2>2
    <3> HIDE DEF s
    <3>2. /\ Len(s) + Len(ms) \in DOMAIN (s \o ms)
          /\ (s \o ms)[Len(s) + Len(ms)] = ms[Len(ms)]
          /\ Len(s) + Len(ms) > Len(s)
      BY <2>2, <3>1
    <3> QED
      BY <3>2
  <2>4. \A p \in pending' : p.id \in Nat /\ p.comp \in Comps /\ (p \notin pending => p.id > nextId)
    BY DEF BridgeShape, Asked, PageStep
  <2>5. \A i \in DOMAIN s : s[i].id \in Nat => s[i].id <= nextId
    BY <1>2 DEF NumbersAt, OnLine
  <2>6. \A i \in DOMAIN ms : ms[i].kind = "start" => \A p \in pending' : p.id = ms[i].id => ui'[p.comp].debugging
    BY <1>4 DEF PanelStep
  <2>7. /\ frame[attached].session # NONE =>
              \/ ui[frame[attached].session].debugging
              \/ \E j \in DOMAIN s : s[j].kind = "term"
        /\ \A i \in DOMAIN s : s[i].kind = "start" =>
              \A p \in pending : p.id = s[i].id =>
                  \/ ui[p.comp].debugging
                  \/ \E j \in DOMAIN s : j > i /\ s[j].kind = "term"
    BY <2>1 DEF OwnedAt
  <2> HIDE DEF s
  <2>8. frame[attached].session # NONE =>
            \/ ui'[frame[attached].session].debugging
            \/ \E j \in DOMAIN (s \o ms) : (s \o ms)[j].kind = "term"
    BY <2>1, <2>2, <2>3, <2>7
  <2>9. ASSUME NEW i \in DOMAIN (s \o ms), (s \o ms)[i].kind = "start", NEW p \in pending', p.id = (s \o ms)[i].id
        PROVE  \/ ui'[p.comp].debugging
               \/ \E j \in DOMAIN (s \o ms) : j > i /\ (s \o ms)[j].kind = "term"
    <3>1. CASE i \in DOMAIN s /\ (s \o ms)[i] = s[i]
      <4>1. p \in pending
        BY <1>2, <2>4, <2>5, <2>9, <3>1
      <4>2. ui[p.comp].debugging \/ \E j \in DOMAIN s : j > i /\ s[j].kind = "term"
        BY <2>7, <2>9, <3>1, <4>1
      <4>3. CASE ui[p.comp].debugging
        BY <2>2, <2>3, <2>4, <3>1, <4>3
      <4>4. CASE \E j \in DOMAIN s : j > i /\ s[j].kind = "term"
        BY <2>2, <4>4
      <4> QED
        BY <4>2, <4>3, <4>4
    <3>2. CASE i > Len(s) /\ i - Len(s) \in DOMAIN ms /\ (s \o ms)[i] = ms[i - Len(s)]
      BY <2>6, <2>9, <3>2
    <3> QED
      BY <2>2, <3>1, <3>2
  <2>10. frame'[attached'].in = s \o ms /\ frame'[attached'].session = frame[attached].session
    BY <1>1, <1>2 DEF s
  <2> QED
    BY <2>8, <2>9, <2>10 DEF OwnedAt
<1> QED
  BY <1>3, <1>4

-----------------------------------------------------------------------------
(* What the frames do.                                                     *)

\* The number of a message, and of an answer.
LEMMA Numbers ==
    /\ \A m \in ToFrame : m.id \in Nat /\ (m.kind \in Asks <=> m.id # 0)
    /\ \A m \in ToFrame : m.kind \in Asks \cup {"go", "term"}
    /\ \A m \in ToPage : m.id \in Nat /\ (m.kind = "result" <=> m.id # 0)
BY DEF ToFrame, ToPage, Asks, Tells

\* A message taken leaves the others and its answer on their way.
LEMMA LineOfServed ==
    ASSUME BridgeShape, NEW f \in Comps, NEW m \in ToFrame, NEW out \in Seq(ToPage),
           Served(f, m, out), NEW n \in Nat \ {0}
    PROVE  OnLine(f, n)' <=> OnLine(f, n)
<1> DEFINE s == frame[f].in
           o == frame[f].out
<1>1. s \in Seq(ToFrame) /\ o \in Seq(ToPage) /\ s # <<>> /\ m = s[1] /\ frame[f].runs \subseteq Nat \ {0}
  BY DEF BridgeShape, Frames, Served
<1>2. /\ frame'[f].in = Tail(s) /\ frame'[f].out = o \o out
      /\ Nums(out) \subseteq {0, m.id}
  BY DEF Served, Nums
<1>3. (OnLine(f, n)' <=> n \in Nums(Tail(s)) \cup frame'[f].runs \cup Nums(o \o out))
      /\ (OnLine(f, n) <=> n \in Nums(s) \cup frame[f].runs \cup Nums(o))
  BY <1>2 DEF OnLine, Nums
<1>4. \/ frame'[f].runs = frame[f].runs \cup {m.id}
      \/ frame'[f].runs = frame[f].runs /\ (m.id # 0 => m.id \in Nums(out))
  BY Numbers DEF Served, Asks, Nums
<1> HIDE DEF s, o
<1>5. Nums(s) = {m.id} \cup Nums(Tail(s)) /\ Nums(o \o out) = Nums(o) \cup Nums(out)
  BY <1>1, NumsOfBoth, NumsOfRest
<1> QED
  BY <1>2, <1>3, <1>4, <1>5

\* The frame takes a message.
LEMMA ServedKeeps ==
    ASSUME BridgeShape, LineInv, HereInv, NEW f \in Comps, NEW m \in ToFrame, NEW out \in Seq(ToPage),
           Served(f, m, out), UNCHANGED <<arming, ui, attached, pending, nextId>>
    PROVE  LineInv' /\ HereInv'
<1> DEFINE s == frame[f].in
           o == frame[f].out
           u == frame'[f].out
<1>1. /\ s \in Seq(ToFrame) /\ o \in Seq(ToPage) /\ s # <<>> /\ m = s[1] /\ nextId \in Nat
      /\ frame'[f].in = Tail(s) /\ u = o \o out
      /\ \A i \in DOMAIN out : out[i].id \in {0, m.id}
      /\ \A c \in Comps : c # f => frame'[c] = frame[c]
      /\ \A p \in pending : p.id \in Nat \ {0}
      /\ frame'[f].runs = frame[f].runs \/ frame'[f].runs = frame[f].runs \cup {m.id}
  BY DEF BridgeShape, Frames, Asked, Served
<1>2. /\ 1 \in DOMAIN s
      /\ \A i \in DOMAIN Tail(s) : i \in Nat /\ \E k \in DOMAIN s : k = i + 1 /\ Tail(s)[i] = s[k]
      /\ \A i \in DOMAIN s : i \in Nat /\
           (i = 1 \/ (i > 1 /\ \E k \in DOMAIN Tail(s) : k = i - 1 /\ Tail(s)[k] = s[i]))
  <2>1. s \in Seq(ToFrame) /\ s # <<>>
    BY <1>1
  <2> HIDE DEF s
  <2> QED
    BY <2>1, TheRest
<1>3. Nums(u) \subseteq Nums(o) \cup {0, m.id}
  <2>1. o \in Seq(ToPage) /\ u = o \o out /\ Nums(out) \subseteq {0, m.id}
    BY <1>1 DEF Nums
  <2> HIDE DEF o, u
  <2> QED
    BY <2>1, NumsOfBoth
<1>4. \A i \in DOMAIN s : s[i].id \in Nat /\ (s[i].kind = "start" => s[i].id # 0)
  BY <1>1, Numbers DEF Asks
<1>5. LineInv'
  <2>1. NumbersAt(f)'
    <3>1. NumbersAt(f)
      BY DEF LineInv
    <3>2. ASSUME NEW n \in Nat, OnLine(f, n)' PROVE n <= nextId
      <4>1. CASE n = 0
        BY <1>1, <4>1
      <4>2. CASE n # 0
        BY <3>1, <3>2, <4>2, LineOfServed DEF NumbersAt
      <4> QED
        BY <4>1, <4>2
    <3>3. \A p \in pending : OnLine(f, p.id)' => p.to = f
      BY <1>1, <3>1, LineOfServed DEF NumbersAt
    <3> QED
      BY <3>2, <3>3 DEF NumbersAt
  <2>2. StartsAt(f)'
    <3>1. \A i \in DOMAIN s : s[i].kind = "start" =>
              /\ \E p \in pending : p.id = s[i].id
              /\ \A j \in DOMAIN s : j # i => s[j].id # s[i].id
              /\ s[i].id \notin frame[f].runs
              /\ \A j \in DOMAIN o : o[j].id # s[i].id
      BY DEF LineInv, StartsAt
    <3>0. frame'[f].in = Tail(s) /\ u = o \o out
      BY <1>1
    <3> SUFFICES ASSUME NEW i \in DOMAIN Tail(s), Tail(s)[i].kind = "start"
                 PROVE  /\ \E p \in pending : p.id = Tail(s)[i].id
                        /\ \A j \in DOMAIN Tail(s) : j # i => Tail(s)[j].id # Tail(s)[i].id
                        /\ Tail(s)[i].id \notin frame'[f].runs
                        /\ \A j \in DOMAIN u : u[j].id # Tail(s)[i].id
      BY <3>0 DEF StartsAt
    <3>2. i + 1 \in DOMAIN s /\ Tail(s)[i] = s[i + 1] /\ i + 1 # 1 /\ i \in Nat
      BY <1>2
    <3> DEFINE n == s[i + 1].id
    <3>3. /\ \E p \in pending : p.id = n
          /\ \A j \in DOMAIN s : j # i + 1 => s[j].id # n
          /\ n \notin frame[f].runs /\ \A j \in DOMAIN o : o[j].id # n
          /\ n \in Nat \ {0} /\ Tail(s)[i].id = n /\ m.id # n
      BY <1>1, <1>2, <1>4, <3>1, <3>2
    <3> HIDE DEF n, s, o, u
    <3>4. \A j \in DOMAIN Tail(s) : j # i => Tail(s)[j].id # n
      BY <1>2, <3>2, <3>3
    <3>5. \A j \in DOMAIN u : u[j].id # n
      <4>1. n \notin Nums(u)
        BY <1>3, <3>3 DEF Nums
      <4> QED
        BY <4>1 DEF Nums
    <3> QED
      BY <1>1, <3>3, <3>4, <3>5
  <2>3. ASSUME NEW c \in Comps, c # f PROVE NumbersAt(c)' /\ StartsAt(c)'
    BY <1>1, <2>3 DEF LineInv, NumbersAt, StartsAt, OnLine
  <2> QED
    BY <2>1, <2>2, <2>3 DEF LineInv
<1>6. HereInv'
  <2> SUFFICES ASSUME attached \in Present
               PROVE  RunsAt(attached)' /\ (~Mono => OwnedAt(attached)')
    BY DEF HereInv, Present
  <2>1. attached \in Comps /\ RunsAt(attached) /\ (~Mono => OwnedAt(attached))
    BY DEF HereInv, Present
  <2>2. CASE attached # f
    <3>1. frame'[attached] = frame[attached] /\ UNCHANGED <<ui, attached, pending>>
      BY <1>1, <2>1, <2>2
    <3>2. RunsAt(attached)'
      BY <2>1, <3>1 DEF RunsAt, OnLine
    <3>3. ~Mono => OwnedAt(attached)'
      BY <2>1, <3>1 DEF OwnedAt
    <3> QED
      BY <3>2, <3>3
  <2>3. CASE attached = f
    <3>1. RunsAt(attached)'
      BY <1>1, <2>1, <2>3, LineOfServed DEF RunsAt
    <3>2. ASSUME ~Mono PROVE OwnedAt(f)'
      <4>1. /\ frame[f].session # NONE =>
                  \/ ui[frame[f].session].debugging
                  \/ \E j \in DOMAIN s : s[j].kind = "term"
            /\ \A i \in DOMAIN s : s[i].kind = "start" =>
                  \A p \in pending : p.id = s[i].id =>
                      \/ ui[p.comp].debugging
                      \/ \E j \in DOMAIN s : j > i /\ s[j].kind = "term"
        BY <2>1, <2>3, <3>2 DEF OwnedAt
      <4>2. \/ m.kind # "term" /\ frame'[f].session = frame[f].session
            \/ m.kind = "start" /\ \E p \in pending : p.id = m.id /\ frame'[f].session = p.comp
            \/ frame'[f].session = NONE
        BY DEF Served
      <4> HIDE DEF s
      <4>3. \A j \in DOMAIN s : j > 1 /\ s[j].kind = "term" => \E k \in DOMAIN Tail(s) : Tail(s)[k].kind = "term"
        BY <1>2
      <4>4. frame'[f].session # NONE =>
                \/ ui[frame'[f].session].debugging
                \/ \E j \in DOMAIN Tail(s) : Tail(s)[j].kind = "term"
        <5>1. CASE m.kind # "term" /\ frame'[f].session = frame[f].session
          <6>1. \A j \in DOMAIN s : s[j].kind = "term" => j > 1
            BY <1>1, <1>2, <5>1
          <6> QED
            BY <4>1, <4>3, <5>1, <6>1
        <5>2. CASE m.kind = "start" /\ \E p \in pending : p.id = m.id /\ frame'[f].session = p.comp
          BY <1>1, <1>2, <4>1, <4>3, <5>2
        <5> QED
          BY <4>2, <5>1, <5>2
      <4>5. ASSUME NEW i \in DOMAIN Tail(s), Tail(s)[i].kind = "start", NEW p \in pending, p.id = Tail(s)[i].id
            PROVE  \/ ui[p.comp].debugging
                   \/ \E j \in DOMAIN Tail(s) : j > i /\ Tail(s)[j].kind = "term"
        <5>1. i + 1 \in DOMAIN s /\ Tail(s)[i] = s[i + 1] /\ i \in Nat
          BY <1>2
        <5>2. ui[p.comp].debugging \/ \E j \in DOMAIN s : j > i + 1 /\ s[j].kind = "term"
          BY <4>1, <4>5, <5>1
        <5>3. ASSUME NEW j \in DOMAIN s, j > i + 1, s[j].kind = "term"
              PROVE  \E k \in DOMAIN Tail(s) : k > i /\ Tail(s)[k].kind = "term"
          <6>1. j # 1 /\ j \in Nat
            BY <1>2, <5>1, <5>3
          <6>2. j - 1 \in DOMAIN Tail(s) /\ Tail(s)[j - 1] = s[j] /\ j - 1 > i
            BY <1>2, <5>1, <5>3, <6>1
          <6> QED
            BY <5>3, <6>2
        <5> QED
          BY <5>2, <5>3
      <4>6. frame'[f].in = Tail(s)
        BY <1>1
      <4> QED
        BY <4>4, <4>5, <4>6 DEF OwnedAt
    <3> QED
      BY <2>3, <3>1, <3>2
  <2> QED
    BY <2>2, <2>3
<1> QED
  BY <1>5, <1>6

\* What is in a frame moves on to its answers, or an answer nobody waits for is taken.
LEMMA MovedKeeps ==
    ASSUME BridgeShape, LineInv, HereInv, NEW f \in Comps,
           \A c \in Comps : c # f => frame'[c] = frame[c],
           frame'[f].in = frame[f].in, frame'[f].session = frame[f].session,
           frame'[f].runs \subseteq frame[f].runs,
           Nums(frame'[f].out) \subseteq Nums(frame[f].out) \cup frame[f].runs \cup {0},
           f = attached => Nums(frame[f].out) \cup frame[f].runs
                           \subseteq Nums(frame'[f].out) \cup frame'[f].runs,
           UNCHANGED <<arming, ui, attached, pending, nextId>>
    PROVE  LineInv' /\ HereInv'
<1>1. ASSUME NEW n
      PROVE  /\ OnLine(f, n)' => OnLine(f, n) \/ n = 0
             /\ f = attached /\ OnLine(f, n) => OnLine(f, n)'
  BY DEF OnLine, Nums
<1>2. nextId \in Nat /\ \A p \in pending : p.id \in Nat \ {0}
  BY DEF BridgeShape, Asked
<1>3. LineInv'
  <2>1. NumbersAt(f)'
    BY <1>1, <1>2 DEF LineInv, NumbersAt
  <2>2. StartsAt(f)'
    <3>1. \A i \in DOMAIN frame[f].in : frame[f].in[i].kind = "start" => frame[f].in[i].id # 0
      BY Numbers DEF BridgeShape, Frames, Asks
    <3>2. \A i \in DOMAIN frame[f].in : frame[f].in[i].kind = "start" =>
              /\ \E p \in pending : p.id = frame[f].in[i].id
              /\ \A j \in DOMAIN frame[f].in : j # i => frame[f].in[j].id # frame[f].in[i].id
              /\ frame[f].in[i].id \notin frame[f].runs
              /\ frame[f].in[i].id \notin Nums(frame[f].out)
      BY DEF LineInv, StartsAt, Nums
    <3>3. \A i \in DOMAIN frame[f].in : frame[f].in[i].kind = "start" =>
              /\ frame[f].in[i].id \notin frame'[f].runs
              /\ frame[f].in[i].id \notin Nums(frame'[f].out)
      BY <3>1, <3>2
    <3> QED
      BY <3>2, <3>3 DEF StartsAt, Nums
  <2>3. ASSUME NEW c \in Comps, c # f PROVE NumbersAt(c)' /\ StartsAt(c)'
    BY <2>3 DEF LineInv, NumbersAt, StartsAt, OnLine
  <2> QED
    BY <2>1, <2>2, <2>3 DEF LineInv
<1>4. HereInv'
  <2> SUFFICES ASSUME attached \in Present
               PROVE  RunsAt(attached)' /\ (~Mono => OwnedAt(attached)')
    BY DEF HereInv, Present
  <2>1. attached \in Comps /\ RunsAt(attached) /\ (~Mono => OwnedAt(attached))
    BY DEF HereInv, Present
  <2>2. frame'[attached].in = frame[attached].in /\ frame'[attached].session = frame[attached].session
    BY <2>1
  <2>3. ASSUME NEW n, OnLine(attached, n) PROVE OnLine(attached, n)'
    <3>1. CASE attached = f
      BY <1>1, <2>3, <3>1
    <3>2. CASE attached # f
      BY <2>1, <2>3, <3>2 DEF OnLine
    <3> QED
      BY <3>1, <3>2
  <2>4. RunsAt(attached)'
    BY <2>1, <2>3 DEF RunsAt
  <2>5. ~Mono => OwnedAt(attached)'
    BY <2>1, <2>2 DEF OwnedAt
  <2> QED
    BY <2>4, <2>5
<1> QED
  BY <1>3, <1>4

\* A program ends, the debugged program tells of an event, a message is filtered out.
LEMMA MovesKeep ==
    ASSUME BridgeShape, LineInv, HereInv, NEW f \in Comps, VmEnd(f) \/ VmEvent(f) \/ Ignored(f)
    PROVE  LineInv' /\ HereInv'
<1>1. UNCHANGED <<arming, ui, attached, pending, nextId>>
  BY DEF VmEnd, VmEvent, Ignored, runner
<1>2. frame[f].out \in Seq(ToPage)
  BY DEF BridgeShape, Frames
<1>3. ASSUME NEW m \in ToPage, frame'[f].out = Append(frame[f].out, m)
      PROVE  Nums(frame'[f].out) = Nums(frame[f].out) \cup {m.id}
  <2>1. frame'[f].out = frame[f].out \o <<m>> /\ <<m>> \in Seq(ToPage)
    BY <1>2, <1>3, AddedLast
  <2>2. Nums(<<m>>) = {m.id}
    BY AddedLast, <1>2 DEF Nums
  <2>3. Nums(frame[f].out \o <<m>>) = Nums(frame[f].out) \cup Nums(<<m>>)
    <3> DEFINE t == <<m>>
               s == frame[f].out
    <3>1. s \in Seq(ToPage) /\ t \in Seq(ToPage)
      BY <1>2, <2>1
    <3> HIDE DEF s, t
    <3>2. Nums(s \o t) = Nums(s) \cup Nums(t)
      BY <3>1, NumsOfBoth
    <3> QED
      BY <3>2 DEF s, t
  <2> QED
    BY <2>1, <2>2, <2>3, Zenon
<1>4. CASE VmEnd(f)
  <2> PICK id \in frame[f].runs :
              /\ \A c \in Comps : c # f => frame'[c] = frame[c]
              /\ frame'[f].in = frame[f].in /\ frame'[f].runs = frame[f].runs \ {id}
              /\ frame'[f].session = frame[f].session
              /\ Say("result", id, TRUE) \in ToPage
              /\ frame'[f].out = Append(frame[f].out, Say("result", id, TRUE))
    BY <1>4, VmEndIs
  <2>1. Nums(frame'[f].out) = Nums(frame[f].out) \cup {id}
    BY <1>3 DEF Say
  <2> QED
    BY <1>1, <2>1, MovedKeeps
<1>5. CASE VmEvent(f)
  <2> PICK k \in Tells :
              /\ \A c \in Comps : c # f => frame'[c] = frame[c]
              /\ frame'[f].in = frame[f].in /\ frame'[f].runs = frame[f].runs
              /\ frame'[f].session = frame[f].session
              /\ Say(k, 0, TRUE) \in ToPage
              /\ frame'[f].out = Append(frame[f].out, Say(k, 0, TRUE))
    BY <1>5, VmEventIs
  <2>1. Nums(frame'[f].out) = Nums(frame[f].out) \cup {0}
    BY <1>3 DEF Say
  <2> QED
    BY <1>1, <2>1, MovedKeeps
<1>6. CASE Ignored(f)
  <2>1. frame[f].out # <<>> /\ frame' = Taken(f) /\ f # attached
    BY <1>6 DEF Ignored, Arrives
  <2>2. /\ \A c \in Comps : c # f => frame'[c] = frame[c]
        /\ frame'[f].in = frame[f].in /\ frame'[f].runs = frame[f].runs
        /\ frame'[f].session = frame[f].session /\ frame'[f].out = Tail(frame[f].out)
    BY <2>1, TakenIs
  <2>3. Nums(frame'[f].out) \subseteq Nums(frame[f].out)
    BY <1>2, <2>1, <2>2, NumsOfRest
  <2> QED
    BY <1>1, <2>1, <2>2, <2>3, MovedKeeps
<1> QED
  BY <1>4, <1>5, <1>6

\* An element is taken off the page, or a frame is attached.
LEMMA FramesChangeKeeps ==
    ASSUME BridgeShape, UpInv, LineInv, HereInv, NEW c \in Comps, Remove(c) \/ Armed(c)
    PROVE  LineInv' /\ HereInv'
<1>0. DOMAIN <<>> = {}
  OBVIOUS
<1>1. /\ ~OnLine(c, 0)' \/ Armed(c)
      /\ Blank.in = <<>> /\ Blank.out = <<>> /\ Blank.runs = {} /\ Blank.session = NONE
  BY <1>0 DEF Blank, OnLine, Remove, BridgeShape
<1>2. CASE Remove(c)
  <2>1. /\ frame' = [frame EXCEPT ![c] = Blank] /\ arming' = [arming EXCEPT ![c] = "gone"]
        /\ UNCHANGED <<ui, attached, pending, nextId>>
    BY <1>2 DEF Remove, runner
  <2>2. frame'[c] = Blank /\ \A d \in Comps : d # c => frame'[d] = frame[d]
    BY <2>1 DEF BridgeShape
  <2>3. NumbersAt(c)' /\ StartsAt(c)'
    BY <1>0, <1>1, <2>2 DEF NumbersAt, StartsAt, OnLine
  <2>4. ASSUME NEW d \in Comps, d # c PROVE NumbersAt(d)' /\ StartsAt(d)'
    BY <2>1, <2>2, <2>4 DEF LineInv, NumbersAt, StartsAt, OnLine
  <2>5. HereInv'
    <3> SUFFICES ASSUME attached \in Present'
                 PROVE  RunsAt(attached)' /\ (~Mono => OwnedAt(attached)')
      BY <2>1 DEF HereInv
    <3>1. attached \in Comps /\ attached # c /\ attached \in Present
      BY <2>1 DEF Present, BridgeShape
    <3>2. frame'[attached] = frame[attached]
      BY <2>2, <3>1
    <3>3. RunsAt(attached) /\ (~Mono => OwnedAt(attached))
      BY <3>1 DEF HereInv
    <3>4. RunsAt(attached)'
      BY <2>1, <3>2, <3>3 DEF RunsAt, OnLine
    <3>5. ~Mono => OwnedAt(attached)'
      BY <2>1, <3>2, <3>3 DEF OwnedAt
    <3> QED
      BY <3>4, <3>5
  <2> QED
    BY <2>3, <2>4, <2>5 DEF LineInv
<1>3. CASE Armed(c)
  <2>1. /\ attached' = c /\ arming[c] = "loading" /\ UNCHANGED <<ui, pending, nextId, frame>>
    BY <1>3 DEF Armed, Attach
  <2>2. frame[c] = Blank /\ \A p \in pending : p.to # c
    BY <2>1, RunnerAssumption DEF UpInv, Up
  <2>3. LineInv'
    BY <2>1 DEF LineInv, NumbersAt, StartsAt, OnLine
  <2>4. RunsAt(c)' /\ OwnedAt(c)'
    BY <1>0, <1>1, <2>1, <2>2 DEF RunsAt, OwnedAt
  <2> QED
    BY <2>1, <2>3, <2>4 DEF HereInv
<1> QED
  BY <1>2, <1>3

-----------------------------------------------------------------------------
(* The steps of the page are page steps.                                   *)

\* The frames are base, with ms sent to the attached one.
Sent(base, ms) ==
    /\ \A c \in Comps : c # attached => frame'[c] = base[c]
    /\ attached \notin Present => frame' = base
    /\ attached \in Present =>
          /\ frame'[attached].in = base[attached].in \o ms
          /\ frame'[attached].out = base[attached].out
          /\ frame'[attached].runs = base[attached].runs
          /\ frame'[attached].session = base[attached].session
          /\ frame'[attached].going = base[attached].going

LEMMA SentNone ==
    ASSUME NEW base \in [Comps -> Frames], frame' = base
    PROVE  Sent(base, <<>>) /\ <<>> \in Seq(ToFrame) /\ DOMAIN <<>> = {}
<1>1. \A c \in Comps : base[c].in \in Seq(ToFrame)
  BY DEF Frames
<1>2. \A s \in Seq(ToFrame) : s \o <<>> = s
  OBVIOUS
<1>3. DOMAIN <<>> = {}
  OBVIOUS
<1> QED
  BY <1>1, <1>2, <1>3 DEF Sent, Present

LEMMA SentOne ==
    ASSUME NEW base \in [Comps -> Frames], NEW m \in ToFrame, frame' = Send(base, m)
    PROVE  Sent(base, <<m>>) /\ <<m>> \in Seq(ToFrame) /\ DOMAIN <<m>> = {1} /\ <<m>>[1] = m
           /\ Len(<<m>>) = 1 /\ <<m>> # <<>>
<1>1. \A c \in Comps : base[c].in \in Seq(ToFrame)
  BY DEF Frames
<1>2. \A s \in Seq(ToFrame) : Append(s, m) = s \o <<m>>
  BY AddedLast
<1>3. <<m>> \in Seq(ToFrame) /\ DOMAIN <<m>> = {1} /\ <<m>>[1] = m /\ Len(<<m>>) = 1 /\ <<m>> # <<>>
  OBVIOUS
<1>4. \A c \in Comps : c # attached => frame'[c] = base[c]
  BY SendIs
<1>5. attached \notin Present => frame' = base
  BY SendIs
<1>6. ASSUME attached \in Present
      PROVE  /\ frame'[attached].in = base[attached].in \o <<m>>
             /\ frame'[attached].out = base[attached].out
             /\ frame'[attached].runs = base[attached].runs
             /\ frame'[attached].session = base[attached].session
             /\ frame'[attached].going = base[attached].going
  BY <1>1, <1>2, <1>6, SendIs DEF Present
<1> QED
  BY <1>3, <1>4, <1>5, <1>6 DEF Sent

\* Nothing is taken.
LEMMA PostedIsPageStep ==
    ASSUME BridgeShape, NEW ms \in Seq(ToFrame), Sent(frame, ms),
           attached' = attached, \A c \in Comps : arming'[c] = "gone" <=> arming[c] = "gone",
           nextId' = nextId, pending' = pending,
           \A i \in DOMAIN ms : ms[i].id = 0
    PROVE  PageStep(ms)
<1>1. attached \in Present => ~Took
  <2> SUFFICES ASSUME attached \in Present, Took PROVE FALSE
    OBVIOUS
  <2>1. frame[attached].out \in Seq(ToPage) /\ frame[attached].out # <<>>
        /\ Tail(frame[attached].out) = frame[attached].out
    BY DEF Present, BridgeShape, Frames, Sent, Took
  <2>2. \A s \in Seq(ToPage) : s # <<>> => Tail(s) # s
    BY FirstTaken
  <2> QED
    BY <2>1, <2>2
<1>2. \A i \in DOMAIN ms : ms[i].kind # "start"
  <2>1. \A i \in DOMAIN ms : ms[i] \in ToFrame
    OBVIOUS
  <2> QED
    BY <2>1, Numbers DEF Asks
<1>3. nextId \in Nat
  BY DEF BridgeShape
<1> QED
  BY <1>1, <1>2, <1>3 DEF PageStep, Sent

\* A message of the attached frame is taken, and no call is made.
LEMMA HeardIsPageStep ==
    ASSUME BridgeShape, CallsInv, NEW ms \in Seq(ToFrame), Heard(attached), Sent(Taken(attached), ms),
           attached' = attached, \A c \in Comps : arming'[c] = "gone" <=> arming[c] = "gone",
           nextId' = nextId,
           \/ pending' = pending /\ Next1(attached).kind # "result"
           \/ \E p \in pending : pending' = pending \ {p} /\ p.id = Next1(attached).id,
           \A i \in DOMAIN ms : ms[i].id = 0
    PROVE  PageStep(ms)
<1>1. attached \in Present /\ attached \in Comps /\ frame[attached].out # <<>>
  BY DEF Heard, Arrives, Present
<1>2. /\ \A c \in Comps : c # attached => Taken(attached)[c] = frame[c]
      /\ Taken(attached)[attached].in = frame[attached].in
      /\ Taken(attached)[attached].runs = frame[attached].runs
      /\ Taken(attached)[attached].session = frame[attached].session
      /\ Taken(attached)[attached].going = frame[attached].going
      /\ Taken(attached)[attached].out = Tail(frame[attached].out)
      /\ Next1(attached) = frame[attached].out[1] /\ Next1(attached) \in ToPage
  BY <1>1, TakenIs
<1>3. Took
  BY <1>1, <1>2 DEF Sent, Took
<1>4. \A p \in pending : p \in pending' <=> p.id # frame[attached].out[1].id
  <2>1. CASE pending' = pending /\ Next1(attached).kind # "result"
    <3>1. Next1(attached).id = 0 /\ \A p \in pending : p.id # 0
      BY <1>2, <2>1, Numbers DEF BridgeShape, Asked
    <3> QED
      BY <1>2, <2>1, <3>1
  <2>2. CASE \E p \in pending : pending' = pending \ {p} /\ p.id = Next1(attached).id
    BY <1>2, <2>2 DEF CallsInv
  <2> QED
    BY <2>1, <2>2
<1>5. \A i \in DOMAIN ms : ms[i].kind # "start"
  <2>1. \A i \in DOMAIN ms : ms[i] \in ToFrame
    OBVIOUS
  <2> QED
    BY <2>1, Numbers DEF Asks
<1>6. nextId \in Nat /\ pending' \subseteq pending
  BY DEF BridgeShape
<1> QED
  BY <1>1, <1>2, <1>3, <1>4, <1>5, <1>6 DEF PageStep, Sent

\* A call is made.
LEMMA CallIsPageStep ==
    ASSUME BridgeShape, NEW c \in Comps, NEW k \in Asks, NEW src \in 0 .. MaxEdits,
           Call(c, k, src, frame),
           attached' = attached, \A d \in Comps : arming'[d] = "gone" <=> arming[d] = "gone"
    PROVE  /\ PageStep(<<Msg(k, nextId + 1)>>)
           /\ \A i \in DOMAIN <<Msg(k, nextId + 1)>> : <<Msg(k, nextId + 1)>>[i] = Msg(k, nextId + 1)
           /\ nextId' = nextId + 1 /\ nextId \in Nat
           /\ pending' = pending \cup {[id |-> nextId + 1, comp |-> c, kind |-> k, src |-> src, to |-> attached]}
<1> DEFINE n == nextId + 1
           ms == <<Msg(k, n)>>
           new == [id |-> n, comp |-> c, kind |-> k, src |-> src, to |-> attached]
<1>1. /\ Sent(frame, ms) /\ ms \in Seq(ToFrame) /\ DOMAIN ms = {1} /\ ms[1] = Msg(k, n)
      /\ Msg(k, n).id = n /\ n \in Nat \ {0} /\ nextId \in Nat
      /\ pending' = pending \cup {new} /\ nextId' = n /\ new.id = n /\ new.to = attached
  <2>1. frame' = Send(frame, Msg(k, n)) /\ Msg(k, n) \in ToFrame /\ frame \in [Comps -> Frames]
        /\ nextId \in Nat
    BY CallShape DEF BridgeShape
  <2> HIDE DEF n
  <2>2. Sent(frame, ms) /\ ms \in Seq(ToFrame) /\ DOMAIN ms = {1} /\ ms[1] = Msg(k, n)
    BY <2>1, SentOne
  <2> QED
    BY <2>1, <2>2 DEF Msg, Call, n
<1>2. attached \in Present => ~Took
  <2> SUFFICES ASSUME attached \in Present, Took PROVE FALSE
    OBVIOUS
  <2>1. frame[attached].out \in Seq(ToPage) /\ frame[attached].out # <<>>
        /\ Tail(frame[attached].out) = frame[attached].out
    BY <1>1 DEF Present, BridgeShape, Frames, Sent, Took
  <2>2. \A s \in Seq(ToPage) : s # <<>> => Tail(s) # s
    BY FirstTaken
  <2> QED
    BY <2>1, <2>2
<1> HIDE DEF ms, new, n
<1>3. n > nextId /\ n <= nextId' /\ n # 0 /\ nextId' >= nextId
  BY <1>1 DEF n
<1>4. /\ \A p \in pending' \ pending : p = new
      /\ \A i \in DOMAIN ms : i = 1 /\ ms[i].id = n
      /\ 1 \in DOMAIN ms /\ new \in pending' /\ pending \subseteq pending'
  BY <1>1
<1>5. \A p \in pending' \ pending : \E i \in DOMAIN ms : ms[i].id = p.id
  BY <1>1, <1>4
<1>6. \E p \in pending' : p.id = n
  BY <1>1, <1>4
<1>7. PageStep(ms)
  <2>1. /\ \A d \in Comps : d # attached => frame'[d] = frame[d]
        /\ attached \notin Present => frame' = frame /\ pending \subseteq pending'
        /\ attached \in Present =>
              /\ frame'[attached].in = frame[attached].in \o ms
              /\ frame'[attached].runs = frame[attached].runs
              /\ frame'[attached].session = frame[attached].session
              /\ frame'[attached].going = frame[attached].going
              /\ Took \/ (frame'[attached].out = frame[attached].out /\ pending \subseteq pending')
              /\ \A p \in pending : Took => (p \in pending' <=> p.id # frame[attached].out[1].id)
    BY <1>1, <1>2, <1>4 DEF Sent
  <2>2. \A p \in pending' \ pending :
          /\ p.id > nextId /\ p.id <= nextId' /\ p.to = attached
          /\ attached \in Present => \E i \in DOMAIN ms : ms[i].id = p.id
    BY <1>1, <1>3, <1>4, <1>5
  <2>3. \A i \in DOMAIN ms : ms[i].id # 0 =>
          /\ ms[i].id > nextId /\ ms[i].id <= nextId'
          /\ \A j \in DOMAIN ms : ms[j].id = ms[i].id => j = i
    BY <1>3, <1>4
  <2>4. \A i \in DOMAIN ms : ms[i].kind = "start" => \E p \in pending' : p.id = ms[i].id
    BY <1>4, <1>6
  <2> QED
    BY <1>1, <1>3, <2>1, <2>2, <2>3, <2>4, Zenon DEF PageStep
<1> QED
  BY <1>1, <1>7 DEF ms, new, n

\* Every listener asks a test that is over for its verdict.
LEMMA AsksIsPageStep ==
    ASSUME BridgeShape, Heard(attached), Next1(attached).kind # "result", hook \in Comps,
           attached' = attached, \A d \in Comps : arming'[d] = "gone" <=> arming[d] = "gone",
           pending' = pending \cup {[id |-> i, comp |-> hook, kind |-> "verdict", src |-> 0, to |-> attached] :
                                       i \in (nextId + 1) .. (nextId + listeners)},
           NEW ask, ask = [i \in 1 .. listeners |-> Msg("verdict", nextId + i)],
           frame' = [Taken(attached) EXCEPT ![attached].in = @ \o ask],
           nextId' = nextId + listeners
    PROVE  PageStep(ask) /\ \A i \in DOMAIN ask : ask[i].kind # "start"
<1> DEFINE asked == {[id |-> i, comp |-> hook, kind |-> "verdict", src |-> 0, to |-> attached] :
                        i \in (nextId + 1) .. (nextId + listeners)}
<1>1. attached \in Present /\ attached \in Comps /\ frame[attached].out # <<>>
  BY DEF Heard, Arrives, Present
<1>2. /\ Taken(attached) \in [Comps -> Frames]
      /\ \A c \in Comps : c # attached => Taken(attached)[c] = frame[c]
      /\ Taken(attached)[attached].in = frame[attached].in
      /\ Taken(attached)[attached].runs = frame[attached].runs
      /\ Taken(attached)[attached].session = frame[attached].session
      /\ Taken(attached)[attached].going = frame[attached].going
      /\ Taken(attached)[attached].out = Tail(frame[attached].out)
      /\ Next1(attached) = frame[attached].out[1] /\ Next1(attached) \in ToPage
  BY <1>1, TakenIs
<1>3. nextId \in Nat /\ listeners \in Nat
  BY DEF BridgeShape
<1>4. /\ DOMAIN ask = 1 .. listeners
      /\ \A i \in DOMAIN ask : i \in Nat /\ ask[i].id = nextId + i /\ ask[i].kind = "verdict"
  BY <1>3 DEF Msg
<1>5. ask \in Seq(ToFrame)
  <2>1. \A i \in 1 .. listeners : nextId + i \in Nat \ {0}
    BY <1>3
  <2>2. \A i \in 1 .. listeners : Msg("verdict", nextId + i) \in ToFrame
    BY <2>1, Letters DEF Asks
  <2> QED
    BY <1>3, <2>2
<1>6. /\ \A c \in Comps : c # attached => frame'[c] = frame[c]
      /\ frame'[attached].in = frame[attached].in \o ask
      /\ frame'[attached].out = Tail(frame[attached].out)
      /\ frame'[attached].runs = frame[attached].runs
      /\ frame'[attached].session = frame[attached].session
      /\ frame'[attached].going = frame[attached].going
  <2> DEFINE g == Taken(attached)
  <2>1. g \in [Comps -> Frames] /\ g[attached] \in Frames /\ frame' = [g EXCEPT ![attached].in = g[attached].in \o ask]
    BY <1>1, <1>2
  <2> HIDE DEF g
  <2>2. /\ \A c \in Comps : c # attached => frame'[c] = g[c]
        /\ frame'[attached].in = g[attached].in \o ask
        /\ frame'[attached].out = g[attached].out
        /\ frame'[attached].runs = g[attached].runs
        /\ frame'[attached].session = g[attached].session
        /\ frame'[attached].going = g[attached].going
    <3> DEFINE over == [g[attached] EXCEPT !.in = g[attached].in \o ask]
    <3>1. /\ over.in = g[attached].in \o ask /\ over.out = g[attached].out
          /\ over.runs = g[attached].runs /\ over.session = g[attached].session
          /\ over.going = g[attached].going
      BY <2>1 DEF Frames
    <3>2. frame' = [g EXCEPT ![attached] = over]
      BY <2>1, Zenon
    <3> HIDE DEF over
    <3> QED
      BY <1>1, <2>1, <3>1, <3>2
  <2> QED
    BY <1>2, <2>2 DEF g
<1>7. Took
  BY <1>1, <1>6 DEF Took
<1>8. frame[attached].out[1].id = 0 /\ \A p \in pending : p.id # 0
  BY <1>2, Numbers DEF BridgeShape, Asked
<1>9. \A p \in asked : /\ p.id \in (nextId + 1) .. (nextId + listeners) /\ p.to = attached
                       /\ p.id > nextId /\ p.id <= nextId'
  BY <1>3
<1>10. \A p \in asked : \E i \in DOMAIN ask : ask[i].id = p.id
  <2> SUFFICES ASSUME NEW p \in asked PROVE \E i \in DOMAIN ask : ask[i].id = p.id
    OBVIOUS
  <2>1. p.id - nextId \in DOMAIN ask /\ nextId + (p.id - nextId) = p.id
    BY <1>3, <1>4, <1>9
  <2> QED
    BY <1>4, <2>1
<1>11. pending' = pending \cup asked
  OBVIOUS
<1> HIDE DEF asked
<1>12. \A i \in DOMAIN ask :
          /\ ask[i].id > nextId /\ ask[i].id <= nextId'
          /\ \A j \in DOMAIN ask : ask[j].id = ask[i].id => j = i
  BY <1>3, <1>4
<1>13. nextId' >= nextId
  BY <1>3
<1>14. PageStep(ask)
  <2>1. \A i \in DOMAIN ask : ask[i].kind # "start"
    BY <1>4
  <2>2. \A p \in pending : p \in pending' /\ p.id # frame[attached].out[1].id
    BY <1>8, <1>11
  <2>3. \A p \in pending' \ pending :
          /\ p.id > nextId /\ p.id <= nextId' /\ p.to = attached
          /\ \E i \in DOMAIN ask : ask[i].id = p.id
    BY <1>9, <1>10, <1>11
  <2> QED
    BY <1>1, <1>5, <1>6, <1>7, <1>12, <1>13, <2>1, <2>2, <2>3, Zenon DEF PageStep
<1> QED
  BY <1>4, <1>14

\* stopDebug sends the termination of the session it takes from the panel.
LEMMA StopDebugSends ==
    ASSUME BridgeShape, NEW c \in Comps, NEW base \in [Comps -> Frames], StopDebug(c, base)
    PROVE  /\ Sent(base, <<Msg("term", 0)>>) /\ PanelStep(<<Msg("term", 0)>>)
           /\ <<Msg("term", 0)>> \in Seq(ToFrame)
           /\ \A i \in DOMAIN <<Msg("term", 0)>> : <<Msg("term", 0)>>[i].id = 0
<1> DEFINE m == Msg("term", 0)
<1>1. m \in ToFrame /\ m.kind = "term" /\ m.id = 0 /\ frame' = Send(base, m)
  BY Letters DEF Msg, StopDebug
<1> HIDE DEF m
<1>2. Sent(base, <<m>>) /\ <<m>> \in Seq(ToFrame) /\ DOMAIN <<m>> = {1} /\ <<m>>[1] = m
      /\ Len(<<m>>) = 1 /\ <<m>> # <<>>
  BY <1>1, SentOne
<1>3. PanelStep(<<m>>) /\ \A i \in DOMAIN <<m>> : <<m>>[i].id = 0
  BY <1>1, <1>2 DEF PanelStep
<1> QED
  BY <1>2, <1>3 DEF m

\* No panel gives its session up.
Keeps == \A c \in Comps : ui[c].debugging => ui'[c].debugging

\* The buttons.
LEMMA PressIsPageStep ==
    ASSUME BridgeShape, NEW c \in Comps,
           \/ Edit(c) \/ DetectTests(c) \/ PressRun(c) \/ PressDebug(c) \/ PressReload(c)
           \/ PressContinue(c) \/ PressStop(c) \/ CloseWindow(c) \/ ArmFails(c)
    PROVE  \E ms : PageStep(ms) /\ PanelStep(ms)
<1>1. frame \in [Comps -> Frames] /\ ui \in [Comps -> Panels] /\ ui[c] \in Panels
  BY DEF BridgeShape
<1>2. attached' = attached /\ \A d \in Comps : arming'[d] = "gone" <=> arming[d] = "gone"
  BY DEF Edit, DetectTests, PressRun, PressDebug, PressReload, PressContinue, PressStop, CloseWindow,
         ArmFails, EnsureArmed, runner, BridgeShape
<1>3. CASE Edit(c) \/ DetectTests(c) \/ PressRun(c) \/ PressDebug(c) \/ ArmFails(c)
  <2>1. UNCHANGED <<nextId, pending, frame>>
    BY <1>3 DEF Edit, DetectTests, PressRun, PressDebug, ArmFails
  <2>2. Keeps
    <3>1. CASE Edit(c)
      BY <1>1, <3>1 DEF Edit, Panels, Keeps
    <3>2. CASE DetectTests(c) \/ ArmFails(c)
      BY <3>2 DEF DetectTests, ArmFails, Keeps
    <3>3. CASE PressRun(c)
      BY <1>1, <3>3 DEF PressRun, Panels, Keeps
    <3>4. CASE PressDebug(c)
      BY <1>1, <3>4 DEF PressDebug, Panels, Keeps
    <3> QED
      BY <1>3, <3>1, <3>2, <3>3, <3>4
  <2>3. Sent(frame, <<>>) /\ <<>> \in Seq(ToFrame) /\ DOMAIN <<>> = {}
    BY <1>1, <2>1, SentNone
  <2>4. PageStep(<<>>)
    BY <1>2, <2>1, <2>3, PostedIsPageStep
  <2>5. PanelStep(<<>>)
    BY <2>2, <2>3 DEF PanelStep, Keeps
  <2> QED
    BY <2>4, <2>5
<1>4. CASE PressReload(c)
  <2>1. Call(c, "reload", ui[c].text, frame) /\ ui[c].text \in 0 .. MaxEdits /\ "reload" \in Asks
    BY <1>1, <1>4 DEF PressReload, Panels, Asks
  <2> DEFINE ms == <<Msg("reload", nextId + 1)>>
  <2>2. PageStep(ms) /\ \A i \in DOMAIN ms : ms[i] = Msg("reload", nextId + 1)
    BY <1>2, <2>1, CallIsPageStep
  <2> HIDE DEF ms
  <2>3. PanelStep(ms)
    BY <1>4, <2>2 DEF PressReload, PanelStep, Msg
  <2> QED
    BY <2>2, <2>3
<1>5. CASE PressContinue(c)
  <2> DEFINE m == Msg("go", 0)
  <2>1. m \in ToFrame /\ m.kind = "go" /\ m.id = 0 /\ frame' = Send(frame, m)
    BY <1>5, Letters DEF Msg, PressContinue
  <2>2. UNCHANGED <<nextId, pending>> /\ Keeps
    BY <1>1, <1>5 DEF PressContinue, Keeps, Panels
  <2> HIDE DEF m
  <2>3. Sent(frame, <<m>>) /\ <<m>> \in Seq(ToFrame) /\ DOMAIN <<m>> = {1} /\ <<m>>[1] = m
    BY <1>1, <2>1, SentOne
  <2>4. \A i \in DOMAIN <<m>> : <<m>>[i].id = 0 /\ <<m>>[i].kind = "go"
    BY <2>1, <2>3
  <2>5. PageStep(<<m>>)
    BY <1>2, <2>2, <2>3, <2>4, PostedIsPageStep
  <2>6. PanelStep(<<m>>)
    BY <2>2, <2>4 DEF PanelStep, Keeps
  <2> QED
    BY <2>5, <2>6
<1>6. CASE PressStop(c) \/ CloseWindow(c)
  <2>1. StopDebug(c, frame) /\ UNCHANGED <<nextId, pending>>
    BY <1>6 DEF PressStop, CloseWindow
  <2> QED
    BY <1>1, <1>2, <2>1, StopDebugSends, PostedIsPageStep
<1> QED
  BY <1>3, <1>4, <1>5, <1>6

\* The continuations.
LEMMA ResumeIsPageStep ==
    ASSUME BridgeShape, ~Mono => WaitInv, CallsInv, NEW c \in Comps, Resume(c) \/ Reject(c)
    PROVE  \E ms : PageStep(ms) /\ PanelStep(ms)
<1>1. /\ frame \in [Comps -> Frames] /\ ui \in [Comps -> Panels] /\ ui[c] \in Panels
      /\ waiting[c] \in Seq(Waits) /\ waiting[c] # <<>>
  BY DEF BridgeShape, Resume, Reject
<1>2. attached' = attached /\ \A d \in Comps : arming'[d] = "gone" <=> arming[d] = "gone"
  BY DEF Resume, Reject, runner
<1>3. ASSUME UNCHANGED <<nextId, pending, frame>>, Keeps
      PROVE  \E ms : PageStep(ms) /\ PanelStep(ms)
  <2>1. Sent(frame, <<>>) /\ <<>> \in Seq(ToFrame) /\ DOMAIN <<>> = {}
    BY <1>1, <1>3, SentNone
  <2>2. PageStep(<<>>)
    BY <1>2, <1>3, <2>1, PostedIsPageStep
  <2>3. PanelStep(<<>>)
    BY <1>3, <2>1 DEF PanelStep, Keeps
  <2> QED
    BY <2>2, <2>3
<1>4. CASE Resume(c)
  <2>1. UNCHANGED ui
    BY <1>4 DEF Resume
  <2>2. CASE Head(waiting[c]) = "run"
    <3>1. Call(c, "run", ui[c].source, frame) /\ ui[c].source \in 0 .. MaxEdits /\ "run" \in Asks
      BY <1>1, <1>4, <2>2 DEF Resume, Panels, Asks
    <3> DEFINE ms == <<Msg("run", nextId + 1)>>
    <3>2. PageStep(ms) /\ \A i \in DOMAIN ms : ms[i] = Msg("run", nextId + 1)
      BY <1>2, <3>1, CallIsPageStep
    <3> HIDE DEF ms
    <3>3. PanelStep(ms)
      BY <2>1, <3>2 DEF PanelStep, Msg
    <3> QED
      BY <3>2, <3>3
  <2>3. CASE Head(waiting[c]) = "start"
    <3>1. Call(c, "start", ui[c].text, frame) /\ ui[c].text \in 0 .. MaxEdits /\ "start" \in Asks
      BY <1>1, <1>4, <2>3 DEF Resume, Panels, Asks
    <3> DEFINE ms == <<Msg("start", nextId + 1)>>
               new == [id |-> nextId + 1, comp |-> c, kind |-> "start", src |-> ui[c].text, to |-> attached]
    <3>2. PageStep(ms) /\ (\A i \in DOMAIN ms : ms[i] = Msg("start", nextId + 1))
          /\ pending' = pending \cup {new} /\ nextId \in Nat
      BY <1>2, <3>1, CallIsPageStep
    <3>3. new.id = nextId + 1 /\ new.comp = c
      OBVIOUS
    <3>4. Msg("start", nextId + 1).id = nextId + 1
      BY DEF Msg
    <3> HIDE DEF ms, new
    <3>5. \A p \in pending : p.id # nextId + 1
      BY <3>2 DEF CallsInv, BridgeShape, Asked
    <3>6. ASSUME ~Mono PROVE ui[c].debugging
      <4>1. 1 \in DOMAIN waiting[c] /\ waiting[c][1] = "start"
        BY <1>1, <2>3, FirstTaken
      <4> QED
        BY <1>4, <3>6, <4>1 DEF WaitInv, Resume
    <3>7. PanelStep(ms)
      BY <2>1, <3>2, <3>3, <3>4, <3>5, <3>6 DEF PanelStep
    <3> QED
      BY <3>2, <3>7
  <2>4. CASE Head(waiting[c]) = "list"
    BY <1>3, <1>4, <2>1, <2>4 DEF Resume, Keeps
  <2> QED
    BY <1>4, <2>2, <2>3, <2>4 DEF Resume
<1>5. CASE Reject(c)
  <2>1. UNCHANGED <<nextId, pending>>
    BY <1>5 DEF Reject
  <2>2. CASE Head(waiting[c]) = "run"
    <3>1. Keeps /\ UNCHANGED frame
      BY <1>1, <1>5, <2>2 DEF Reject, Keeps, Panels
    <3> QED
      BY <1>3, <2>1, <3>1
  <2>3. CASE Head(waiting[c]) = "start"
    <3>1. StopDebug(c, frame)
      BY <1>5, <2>3 DEF Reject
    <3> QED
      BY <1>1, <1>2, <2>1, <3>1, StopDebugSends, PostedIsPageStep
  <2>4. CASE Head(waiting[c]) = "list"
    BY <1>3, <1>5, <2>1, <2>4 DEF Reject, Keeps
  <2> QED
    BY <1>5, <2>2, <2>3, <2>4 DEF Reject
<1> QED
  BY <1>4, <1>5

\* The page hears the attached frame.
LEMMA HeardStepIsPageStep ==
    ASSUME BridgeShape, CallsInv, NEW f \in Comps, Takes(f), ~Ignored(f)
    PROVE  \E ms : PageStep(ms) /\ PanelStep(ms)
<1>1. Heard(f) /\ f = attached
  BY DEF Takes, RunEnds, Reloaded, Started, Verdict, Resolves, Unheard, Paused, Complete,
         Interrupted, Event, Heard
<1>2. /\ frame \in [Comps -> Frames] /\ ui \in [Comps -> Panels] /\ pending \subseteq Asked
      /\ frame[f].out # <<>> /\ Taken(f) \in [Comps -> Frames] /\ Next1(f) \in ToPage
  <2>1. frame[f].out # <<>>
    BY <1>1 DEF Heard, Arrives
  <2> QED
    BY <2>1, TakenIs DEF BridgeShape
<1>3. attached' = attached /\ \A d \in Comps : arming'[d] = "gone" <=> arming[d] = "gone"
  BY DEF Takes, Ignored, RunEnds, Reloaded, Started, Verdict, Unheard, Paused, Complete, Interrupted, runner
<1> DEFINE AnswersOne == \/ pending' = pending /\ Next1(attached).kind # "result"
                    \/ \E p \in pending : pending' = pending \ {p} /\ p.id = Next1(attached).id
<1>4. ASSUME Keeps, frame' = Taken(f), UNCHANGED nextId, AnswersOne
      PROVE  \E ms : PageStep(ms) /\ PanelStep(ms)
  <2>1. Sent(Taken(f), <<>>) /\ <<>> \in Seq(ToFrame) /\ DOMAIN <<>> = {}
    BY <1>2, <1>4, SentNone
  <2>2. PageStep(<<>>)
    BY <1>1, <1>3, <1>4, <2>1, HeardIsPageStep
  <2>3. PanelStep(<<>>)
    BY <1>4, <2>1 DEF PanelStep, Keeps
  <2> QED
    BY <2>2, <2>3
<1>5. ASSUME NEW c \in Comps, StopDebug(c, Taken(f)), UNCHANGED nextId, AnswersOne
      PROVE  \E ms : PageStep(ms) /\ PanelStep(ms)
  BY <1>1, <1>2, <1>3, <1>5, StopDebugSends, HeardIsPageStep
<1>6. CASE Unheard(f)
  BY <1>1, <1>4, <1>6 DEF Unheard, Keeps
<1>7. CASE Paused(f)
  <2>1. AnswersOne
    BY <1>1, <1>7 DEF Paused, Event
  <2>2. Keeps
    <3>1. hook \in Comps /\ ui[hook] \in Panels
      BY <1>2, <1>7 DEF Paused, BridgeShape
    <3>2. ui' = [ui EXCEPT ![hook] = [ui[hook] EXCEPT !.paused = (Next1(f).kind = "paused"), !.stop = TRUE]]
      BY <1>2, <1>7, Zenon DEF Paused
    <3>3. [ui[hook] EXCEPT !.paused = (Next1(f).kind = "paused"), !.stop = TRUE].debugging = ui[hook].debugging
      BY <3>1 DEF Panels
    <3> QED
      BY <1>2, <3>1, <3>2, <3>3 DEF Keeps
  <2> QED
    BY <1>4, <1>7, <2>1, <2>2 DEF Paused
<1>8. CASE Interrupted(f)
  <2>1. hook \in Comps /\ AnswersOne
    BY <1>1, <1>8 DEF Interrupted, Event, BridgeShape
  <2> QED
    BY <1>5, <1>8, <2>1 DEF Interrupted
<1>9. CASE Complete(f)
  <2>1. hook \in Comps /\ Next1(attached).kind # "result"
    BY <1>1, <1>9 DEF Complete, Event, BridgeShape
  <2>2. CASE ~ui[hook].test
    BY <1>5, <1>9, <2>1, <2>2 DEF Complete
  <2>3. CASE ui[hook].test
    <3> DEFINE ask == [i \in 1 .. listeners |-> Msg("verdict", nextId + i)]
    <3>1. /\ pending' = pending \cup {[id |-> i, comp |-> hook, kind |-> "verdict", src |-> 0, to |-> attached] :
                                       i \in (nextId + 1) .. (nextId + listeners)}
          /\ frame' = [Taken(f) EXCEPT ![f].in = @ \o ask]
          /\ nextId' = nextId + listeners /\ UNCHANGED <<ui, hook>>
      BY <1>9, <2>3, Zenon DEF Complete
    <3>2. PageStep(ask) /\ \A i \in DOMAIN ask : ask[i].kind # "start"
      BY <1>1, <1>3, <2>1, <3>1, AsksIsPageStep
    <3> HIDE DEF ask
    <3>3. PanelStep(ask)
      BY <3>1, <3>2 DEF PanelStep
    <3> QED
      BY <3>2, <3>3
  <2> QED
    BY <2>2, <2>3
<1>10. ASSUME NEW p \in pending, RunEnds(f, p) \/ Reloaded(f, p)
       PROVE  \E ms : PageStep(ms) /\ PanelStep(ms)
  <2>1. AnswersOne /\ frame' = Taken(f) /\ UNCHANGED nextId
    BY <1>1, <1>10 DEF RunEnds, Reloaded, Resolves
  <2>2. Keeps
    <3>1. p.comp \in Comps /\ ui[p.comp] \in Panels
      BY <1>2 DEF Asked
    <3> DEFINE ran == [ui[p.comp] EXCEPT !.running = FALSE]
               took == [ui[p.comp] EXCEPT !.source = IF Next1(f).ok THEN p.src ELSE @]
    <3>2. ran.debugging = ui[p.comp].debugging /\ took.debugging = ui[p.comp].debugging
      BY <3>1 DEF Panels
    <3>3. ui' = [ui EXCEPT ![p.comp] = ran] \/ ui' = [ui EXCEPT ![p.comp] = took]
      BY <1>2, <1>10, Zenon DEF RunEnds, Reloaded
    <3> HIDE DEF ran, took
    <3> QED
      BY <1>2, <3>1, <3>2, <3>3 DEF Keeps
  <2> QED
    BY <1>4, <2>1, <2>2
<1>11. ASSUME NEW p \in pending, Verdict(f, p) \/ Started(f, p)
       PROVE  \E ms : PageStep(ms) /\ PanelStep(ms)
  <2>1. AnswersOne /\ UNCHANGED nextId /\ p.comp \in Comps
    BY <1>1, <1>2, <1>11 DEF Verdict, Started, Resolves, Asked
  <2>2. CASE StopDebug(p.comp, Taken(f))
    BY <1>5, <2>1, <2>2
  <2>3. CASE ui' = [ui EXCEPT ![p.comp].stop = TRUE] /\ frame' = Send(Taken(f), Msg("go", 0))
    <3> DEFINE m == Msg("go", 0)
    <3>1. m \in ToFrame /\ m.kind = "go" /\ m.id = 0 /\ frame' = Send(Taken(f), m)
      BY <2>3, Letters DEF Msg
    <3>2. Keeps
      <4> DEFINE over == [ui[p.comp] EXCEPT !.stop = TRUE]
      <4>1. over.debugging = ui[p.comp].debugging
        BY <1>2, <2>1 DEF Panels
      <4>2. ui' = [ui EXCEPT ![p.comp] = over]
        BY <1>2, <2>3, Zenon
      <4> HIDE DEF over
      <4> QED
        BY <1>2, <2>1, <4>1, <4>2 DEF Keeps
    <3> HIDE DEF m
    <3>3. Sent(Taken(f), <<m>>) /\ <<m>> \in Seq(ToFrame) /\ DOMAIN <<m>> = {1} /\ <<m>>[1] = m
      BY <1>2, <3>1, SentOne
    <3>4. \A i \in DOMAIN <<m>> : <<m>>[i].id = 0 /\ <<m>>[i].kind = "go"
      BY <3>1, <3>3
    <3>5. PageStep(<<m>>)
      BY <1>1, <1>3, <2>1, <3>3, <3>4, HeardIsPageStep
    <3>6. PanelStep(<<m>>)
      BY <3>2, <3>4 DEF PanelStep, Keeps
    <3> QED
      BY <3>5, <3>6
  <2> QED
    BY <1>11, <2>2, <2>3 DEF Verdict, Started
<1> QED
  BY <1>6, <1>7, <1>8, <1>9, <1>10, <1>11 DEF Takes

\* Every step keeps what is on its way, and the runs and the session of the attached frame.
LEMMA LineHereStep ==
    ASSUME BridgeShape, UpInv, ~Mono => WaitInv, CallsInv, LineInv, HereInv, [BridgeNext]_bridgeVars
    PROVE  LineInv' /\ HereInv'
<1>1. BridgeShape'
  BY ShapeStep
<1>2. ASSUME NEW ms, PageStep(ms), PanelStep(ms) PROVE LineInv' /\ HereInv'
  BY <1>1, <1>2, LineOfPageStep, HereOfPageStep
<1>3. CASE UNCHANGED bridgeVars
  <2>1. UNCHANGED <<arming, ui, attached, pending, nextId, frame>>
    BY <1>3 DEF bridgeVars
  <2> QED
    BY <2>1 DEF LineInv, HereInv, NumbersAt, StartsAt, RunsAt, OwnedAt, OnLine, Present
<1>4. ASSUME NEW c \in Comps, VmTake(c) PROVE LineInv' /\ HereInv'
  <2>1. StartsAt(c) /\ UNCHANGED <<arming, ui, attached, pending, nextId>>
    BY <1>4 DEF LineInv, VmTake, runner
  <2> QED
    BY <1>4, <2>1, VmTakeIs, ServedKeeps
<1>5. CASE BridgeNext
  <2> PICK c \in Comps :
        \/ Edit(c) \/ DetectTests(c) \/ PressRun(c) \/ PressDebug(c) \/ PressReload(c)
        \/ PressContinue(c) \/ PressStop(c) \/ CloseWindow(c) \/ Remove(c)
        \/ Armed(c) \/ ArmFails(c) \/ Resume(c) \/ Reject(c)
        \/ Takes(c) \/ VmTake(c) \/ VmEvent(c) \/ VmEnd(c)
    BY <1>5 DEF BridgeNext
  <2>1. CASE Remove(c) \/ Armed(c)
    BY <2>1, FramesChangeKeeps
  <2>2. CASE VmEvent(c) \/ VmEnd(c) \/ Ignored(c)
    BY <2>2, MovesKeep
  <2>3. CASE Takes(c) /\ ~Ignored(c)
    BY <1>2, <2>3, HeardStepIsPageStep
  <2>4. CASE Resume(c) \/ Reject(c)
    BY <1>2, <2>4, ResumeIsPageStep
  <2> QED
    BY <1>2, <1>4, <2>1, <2>2, <2>3, <2>4, PressIsPageStep
<1> QED
  BY <1>3, <1>5

-----------------------------------------------------------------------------
(* What else a step changes.                                               *)

\* A frame boots once; the calls to boot it go to a component that is loading.
LEMMA ArmingStep ==
    ASSUME BridgeShape, [BridgeNext]_bridgeVars, NEW c \in Comps
    PROVE  /\ \/ arming'[c] = arming[c]
              \/ arming[c] = "no" /\ arming'[c] = "loading"
              \/ arming[c] = "loading" /\ arming'[c] \in {"armed", "failed"}
              \/ arming'[c] = "gone"
           /\ arming'[c] = "no" => waiting'[c] = waiting[c]
           /\ attached' = attached \/ (attached' \in Comps /\ arming'[attached'] = "armed")
<1>1. ASSUME NEW d \in Comps, NEW k \in Waits, EnsureArmed(d, k)
      PROVE  /\ arming'[c] = arming[c] \/ (arming[c] = "no" /\ arming'[c] = "loading")
             /\ arming'[c] = "no" => waiting'[c] = waiting[c]
  BY <1>1, EnsureArmedShape
<1>2. {"run", "start", "list"} \subseteq Waits
  BY DEF Waits
<1>3. CASE UNCHANGED <<arming, waiting, attached>>
  BY <1>3
<1>4. ASSUME NEW d \in Comps, DetectTests(d) \/ PressRun(d) \/ PressDebug(d)
      PROVE  /\ arming'[c] = arming[c] \/ (arming[c] = "no" /\ arming'[c] = "loading")
             /\ arming'[c] = "no" => waiting'[c] = waiting[c]
             /\ attached' = attached
  <2>1. \E k \in Waits : EnsureArmed(d, k)
    BY <1>2, <1>4 DEF DetectTests, PressRun, PressDebug
  <2> QED
    BY <1>1, <1>4, <2>1 DEF DetectTests, PressRun, PressDebug, runner
<1>5. ASSUME NEW d \in Comps, Remove(d) \/ Armed(d) \/ ArmFails(d)
      PROVE  /\ \/ arming'[c] = arming[c]
                \/ arming[c] = "loading" /\ arming'[c] \in {"armed", "failed"}
                \/ arming'[c] = "gone"
             /\ waiting'[c] = waiting[c]
             /\ attached' = attached \/ (attached' \in Comps /\ arming'[attached'] = "armed")
  BY <1>5 DEF Remove, Armed, ArmFails, Attach, runner, BridgeShape
<1>6. ASSUME NEW d \in Comps, Resume(d) \/ Reject(d)
      PROVE  /\ UNCHANGED <<arming, attached>>
             /\ arming'[c] = "no" => waiting'[c] = waiting[c]
  BY <1>6 DEF Resume, Reject, runner, BridgeShape
<1>7. ASSUME NEW d \in Comps, Takes(d) \/ VmTake(d) \/ VmEvent(d) \/ VmEnd(d)
      PROVE  UNCHANGED <<arming, waiting, attached>>
  BY <1>7 DEF Takes, Ignored, RunEnds, Reloaded, Started, Verdict, Unheard, Paused, Complete, Interrupted,
              VmTake, VmEvent, VmEnd, runner
<1>8. ASSUME NEW d \in Comps, Edit(d) \/ PressReload(d) \/ PressContinue(d) \/ PressStop(d) \/ CloseWindow(d)
      PROVE  UNCHANGED <<arming, waiting, attached>>
  BY <1>8 DEF Edit, PressReload, PressContinue, PressStop, CloseWindow, runner
<1> QED
  BY <1>3, <1>4, <1>5, <1>6, <1>7, <1>8 DEF BridgeNext, bridgeVars

\* The slot for debug events is given to a component whose frame is up.
LEMMA HookStep ==
    ASSUME BridgeShape, [BridgeNext]_bridgeVars
    PROVE  hook' = hook \/ hook' = NONE \/ (hook' \in Comps /\ arming[hook'] = "armed")
<1>1. ASSUME NEW c \in Comps, NEW fr, StopDebug(c, fr) PROVE hook' = NONE
  BY <1>1 DEF StopDebug
<1>2. ASSUME NEW c \in Comps,
             \/ Edit(c) \/ DetectTests(c) \/ PressRun(c) \/ PressDebug(c) \/ PressReload(c)
             \/ PressContinue(c) \/ PressStop(c) \/ CloseWindow(c) \/ Remove(c)
             \/ Armed(c) \/ ArmFails(c)
      PROVE  hook' = hook \/ hook' = NONE
  BY <1>2 DEF Edit, DetectTests, PressRun, PressDebug, PressReload, PressContinue, PressStop, CloseWindow,
              Remove, Armed, ArmFails, StopDebug
<1>3. ASSUME NEW c \in Comps, Resume(c) \/ Reject(c)
      PROVE  hook' = hook \/ hook' = NONE \/ (hook' = c /\ arming[c] = "armed")
  BY <1>3 DEF Resume, Reject, StopDebug
<1>4. ASSUME NEW c \in Comps, Takes(c) \/ VmTake(c) \/ VmEvent(c) \/ VmEnd(c)
      PROVE  hook' = hook \/ hook' = NONE
  BY <1>4 DEF Takes, Ignored, RunEnds, Reloaded, Started, Verdict, Unheard, Paused, Complete, Interrupted,
              VmTake, VmEvent, VmEnd, StopDebug
<1> QED
  BY <1>2, <1>3, <1>4 DEF BridgeNext, bridgeVars

\* The calls that are made: numbered anew, to the attached frame.
LEMMA PendingStep ==
    ASSUME BridgeShape, [BridgeNext]_bridgeVars
    PROVE  /\ nextId' >= nextId
           /\ \A p \in pending' \ pending :
                 /\ p.id > nextId /\ p.id <= nextId' /\ p.to = attached
                 /\ p.kind \in {"start", "verdict"} =>
                      p.comp = hook \/ (p.comp \in Comps /\ arming[p.comp] = "armed")
                 /\ p.kind = "verdict" => p.comp = hook /\ hook # NONE
                 /\ \A q \in pending' \ pending : p.id = q.id => p = q
           /\ \A p \in pending \ pending' : p.kind = "run" => p.comp \in Comps /\ ~ui'[p.comp].running
<1>1. nextId \in Nat /\ listeners \in Nat /\ \A p \in pending : p.comp \in Comps
  BY DEF BridgeShape, Asked
<1>2. CASE UNCHANGED <<nextId, pending>>
  BY <1>1, <1>2
<1>3. ASSUME NEW c \in Comps, NEW k \in Asks, NEW src, Call(c, k, src, frame),
             k # "verdict", k = "start" => arming[c] = "armed"
      PROVE  /\ nextId' >= nextId
             /\ \A p \in pending' \ pending :
                   /\ p.id > nextId /\ p.id <= nextId' /\ p.to = attached
                   /\ p.kind \in {"start", "verdict"} => p.comp \in Comps /\ arming[p.comp] = "armed"
                   /\ p.kind # "verdict"
                   /\ \A q \in pending' \ pending : p.id = q.id => p = q
             /\ pending \subseteq pending'
  <2> DEFINE new == [id |-> nextId + 1, comp |-> c, kind |-> k, src |-> src, to |-> attached]
  <2>1. /\ new.id = nextId + 1 /\ new.comp = c /\ new.kind = k /\ new.to = attached
        /\ pending' = pending \cup {new} /\ nextId' = nextId + 1
    BY <1>3 DEF Call
  <2> HIDE DEF new
  <2>2. \A p \in pending' \ pending : p = new
    BY <2>1
  <2> QED
    BY <1>1, <1>3, <2>1, <2>2
<1>4. ASSUME NEW c \in Comps, PressReload(c) \/ Resume(c)
      PROVE  \/ UNCHANGED <<nextId, pending>>
             \/ \E k \in Asks : \E src : Call(c, k, src, frame) /\ k # "verdict" /\ (k = "start" => arming[c] = "armed")
  BY <1>4 DEF PressReload, Resume, Asks
<1>5. ASSUME NEW c \in Comps, Takes(c)
      PROVE  \/ UNCHANGED <<nextId, pending>>
             \/ UNCHANGED nextId /\ \E p \in pending : pending' = pending \ {p} /\ (p.kind = "run" => RunEnds(c, p))
             \/ /\ hook # NONE /\ nextId' = nextId + listeners
                /\ pending' = pending \cup {[id |-> i, comp |-> hook, kind |-> "verdict", src |-> 0, to |-> attached] :
                                       i \in (nextId + 1) .. (nextId + listeners)}
  <2>1. CASE Ignored(c) \/ Unheard(c) \/ Paused(c) \/ Interrupted(c)
    BY <2>1 DEF Ignored, Unheard, Paused, Interrupted
  <2>2. CASE Complete(c)
    <3>1. CASE ~ui[hook].test
      BY <2>2, <3>1 DEF Complete
    <3>2. CASE ui[hook].test
      <4>1. pending' = pending \cup {[id |-> i, comp |-> hook, kind |-> "verdict", src |-> 0, to |-> attached] :
                                       i \in (nextId + 1) .. (nextId + listeners)}
        BY <2>2, <3>2, Zenon DEF Complete
      <4> QED
        BY <2>2, <3>2, <4>1, Zenon DEF Complete
    <3> QED
      BY <3>1, <3>2
  <2>3. ASSUME NEW p \in pending, RunEnds(c, p) \/ Reloaded(c, p) \/ Started(c, p) \/ Verdict(c, p)
        PROVE  UNCHANGED nextId /\ pending' = pending \ {p} /\ (p.kind = "run" => RunEnds(c, p))
    BY <2>3 DEF RunEnds, Reloaded, Started, Verdict
  <2> QED
    BY <1>5, <2>1, <2>2, <2>3 DEF Takes
<1>6. CASE hook # NONE /\ nextId' = nextId + listeners
             /\ pending' = pending \cup {[id |-> i, comp |-> hook, kind |-> "verdict", src |-> 0, to |-> attached] :
                                       i \in (nextId + 1) .. (nextId + listeners)}
  <2> DEFINE asked == {[id |-> i, comp |-> hook, kind |-> "verdict", src |-> 0, to |-> attached] :
                                       i \in (nextId + 1) .. (nextId + listeners)}
  <2>1. /\ \A p \in asked : /\ p.id \in (nextId + 1) .. (nextId + listeners)
                            /\ p.comp = hook /\ p.kind = "verdict" /\ p.to = attached
        /\ \A p, q \in asked : p.id = q.id => p = q
    OBVIOUS
  <2>2. pending' = pending \cup asked
    BY <1>6
  <2> HIDE DEF asked
  <2>3. nextId' >= nextId
    BY <1>1, <1>6
  <2>4. \A p \in pending' \ pending : p \in asked
    BY <2>2
  <2> QED
    BY <1>1, <1>6, <2>1, <2>2, <2>3, <2>4
<1>7. ASSUME NEW c \in Comps, NEW p \in pending, pending' = pending \ {p}, UNCHANGED nextId,
             p.kind = "run" => RunEnds(c, p)
      PROVE  p.kind = "run" => p.comp \in Comps /\ ~ui'[p.comp].running
  <2> SUFFICES ASSUME p.kind = "run" PROVE ~ui'[p.comp].running
    BY <1>1
  <2>1. ui' = [ui EXCEPT ![p.comp].running = FALSE] /\ ui \in [Comps -> Panels] /\ p.comp \in Comps
    BY <1>1, <1>7 DEF RunEnds, BridgeShape
  <2> QED
    BY <2>1 DEF Panels
<1>8. ASSUME NEW c \in Comps, NEW p \in pending, pending' = pending \ {p}, UNCHANGED nextId,
             p.kind = "run" => RunEnds(c, p)
      PROVE  /\ nextId' >= nextId /\ pending' \subseteq pending
             /\ \A q \in pending \ pending' : q.kind = "run" => q.comp \in Comps /\ ~ui'[q.comp].running
  BY <1>1, <1>7, <1>8
<1>9. ASSUME NEW c \in Comps,
             \/ Edit(c) \/ DetectTests(c) \/ PressRun(c) \/ PressDebug(c)
             \/ PressContinue(c) \/ PressStop(c) \/ CloseWindow(c) \/ Remove(c)
             \/ Armed(c) \/ ArmFails(c) \/ Reject(c) \/ VmTake(c) \/ VmEvent(c) \/ VmEnd(c)
      PROVE  UNCHANGED <<nextId, pending>>
  BY <1>9 DEF Edit, DetectTests, PressRun, PressDebug, PressContinue, PressStop, CloseWindow,
              Remove, Armed, ArmFails, Reject, VmTake, VmEvent, VmEnd
<1>10. CASE UNCHANGED bridgeVars
  BY <1>2, <1>10 DEF bridgeVars
<1>11. CASE BridgeNext
  <2> PICK c \in Comps :
        \/ Edit(c) \/ DetectTests(c) \/ PressRun(c) \/ PressDebug(c) \/ PressReload(c)
        \/ PressContinue(c) \/ PressStop(c) \/ CloseWindow(c) \/ Remove(c)
        \/ Armed(c) \/ ArmFails(c) \/ Resume(c) \/ Reject(c)
        \/ Takes(c) \/ VmTake(c) \/ VmEvent(c) \/ VmEnd(c)
    BY <1>11 DEF BridgeNext
  <2>1. CASE PressReload(c) \/ Resume(c)
    BY <1>2, <1>3, <1>4, <2>1
  <2>2. CASE Takes(c)
    BY <1>2, <1>5, <1>6, <1>8, <2>2
  <2> QED
    BY <1>2, <1>9, <2>1, <2>2
<1> QED
  BY <1>10, <1>11

\* What a panel shows changes only for a reason.
PanelChange(c) ==
    /\ ui'[c].stop => \/ ui[c].stop \/ c = hook
                      \/ \E p \in pending : p.kind = "start" /\ p.comp = c
    /\ ui'[c].running => ui[c].running \/ waiting'[c] = Append(waiting[c], "run")
    /\ ui[c].debugging /\ ~ui'[c].debugging =>
          \/ Mono \/ arming[c] \in {"failed", "gone"}
          \/ Quiet /\ \/ ui[c].stop \/ c = hook
                      \/ \E p \in pending : p.kind \in {"start", "verdict"} /\ p.comp = c

\* stopDebug changes one panel: it shows no session and no Stop button.
LEMMA StopDebugPanels ==
    ASSUME BridgeShape, NEW d \in Comps, NEW fr, StopDebug(d, fr), NEW c \in Comps
    PROVE  /\ ui'[c].stop => ui[c].stop
           /\ ui'[c].running => ui[c].running
           /\ c # d => ui'[c] = ui[c]
<1> DEFINE over == [ui[d] EXCEPT !.debugging = FALSE, !.test = FALSE, !.stop = FALSE, !.paused = FALSE]
<1>1. ui \in [Comps -> Panels] /\ ui[d] \in Panels
  BY DEF BridgeShape
<1>2. ~over.stop /\ over.running = ui[d].running
  BY <1>1 DEF Panels
<1>3. ui' = [ui EXCEPT ![d] = over]
  BY <1>1, Zenon DEF StopDebug
<1> HIDE DEF over
<1> QED
  BY <1>1, <1>2, <1>3

LEMMA PanelsStep ==
    ASSUME BridgeShape, [BridgeNext]_bridgeVars, NEW c \in Comps
    PROVE  PanelChange(c)
<1>1. ui \in [Comps -> Panels] /\ pending \subseteq Asked /\ ui[c] \in Panels
  BY DEF BridgeShape
<1>2. CASE UNCHANGED ui
  BY <1>2 DEF PanelChange
<1>3. ASSUME NEW d \in Comps, NEW fr, StopDebug(d, fr),
             \/ Mono \/ arming[d] \in {"failed", "gone"}
             \/ Quiet /\ \/ ui[d].stop \/ d = hook
                         \/ \E p \in pending : p.kind \in {"start", "verdict"} /\ p.comp = d
      PROVE  PanelChange(c)
  <2>1. /\ ui'[c].stop => ui[c].stop
        /\ ui'[c].running => ui[c].running
        /\ c # d => ui'[c] = ui[c]
    BY <1>3, StopDebugPanels
  <2> QED
    BY <1>3, <2>1 DEF PanelChange
<1>4. ASSUME NEW d \in Comps, NEW over, ui' = [ui EXCEPT ![d] = over],
             over.stop => \/ ui[d].stop \/ d = hook
                          \/ \E p \in pending : p.kind = "start" /\ p.comp = d,
             over.running => ui[d].running \/ waiting'[d] = Append(waiting[d], "run"),
             ui[d].debugging => over.debugging
      PROVE  PanelChange(c)
  <2>1. CASE c = d
    <3>1. ui'[c] = over
      BY <1>1, <1>4, <2>1
    <3> QED
      BY <1>4, <2>1, <3>1 DEF PanelChange
  <2>2. CASE c # d
    <3>1. ui'[c] = ui[c]
      BY <1>1, <1>4, <2>2
    <3> QED
      BY <3>1 DEF PanelChange
  <2> QED
    BY <2>1, <2>2
<1>5. ASSUME NEW d \in Comps, Edit(d) PROVE PanelChange(c)
  <2> DEFINE over == [ui[d] EXCEPT !.text = @ + 1]
  <2>1. over.stop = ui[d].stop /\ over.running = ui[d].running /\ over.debugging = ui[d].debugging
    BY <1>1 DEF Panels
  <2>2. ui' = [ui EXCEPT ![d] = over]
    BY <1>1, <1>5, Zenon DEF Edit
  <2> HIDE DEF over
  <2> QED
    BY <1>4, <2>1, <2>2
<1>6. ASSUME NEW d \in Comps, PressRun(d) PROVE PanelChange(c)
  <2> DEFINE over == [ui[d] EXCEPT !.running = TRUE, !.source = ui[d].text]
  <2>1. over.stop = ui[d].stop /\ over.debugging = ui[d].debugging
    BY <1>1 DEF Panels
  <2>2. ui' = [ui EXCEPT ![d] = over]
    BY <1>1, <1>6, Zenon DEF PressRun
  <2>3. waiting'[d] = Append(waiting[d], "run")
    BY <1>6, EnsureArmedShape DEF PressRun, Waits
  <2> HIDE DEF over
  <2> QED
    BY <1>4, <2>1, <2>2, <2>3
<1>7. ASSUME NEW d \in Comps, PressDebug(d) PROVE PanelChange(c)
  <2> PICK t \in BOOLEAN : ui' = [ui EXCEPT ![d].debugging = TRUE, ![d].test = t]
    BY <1>7 DEF PressDebug
  <2> DEFINE over == [ui[d] EXCEPT !.debugging = TRUE, !.test = t]
  <2>1. over.stop = ui[d].stop /\ over.running = ui[d].running /\ over.debugging
    BY <1>1 DEF Panels
  <2>2. ui' = [ui EXCEPT ![d] = over]
    BY <1>1, Zenon
  <2> HIDE DEF over
  <2> QED
    BY <1>4, <2>1, <2>2
<1>8. ASSUME NEW d \in Comps, PressContinue(d) PROVE PanelChange(c)
  <2> DEFINE over == [ui[d] EXCEPT !.paused = FALSE]
  <2>1. over.stop = ui[d].stop /\ over.running = ui[d].running /\ over.debugging = ui[d].debugging
    BY <1>1 DEF Panels
  <2>2. ui' = [ui EXCEPT ![d] = over]
    BY <1>1, <1>8, Zenon DEF PressContinue
  <2> HIDE DEF over
  <2> QED
    BY <1>4, <2>1, <2>2
<1>9. ASSUME NEW d \in Comps, PressStop(d) \/ CloseWindow(d) PROVE PanelChange(c)
  BY <1>3, <1>9 DEF PressStop, CloseWindow
<1>10. ASSUME NEW d \in Comps, Reject(d) PROVE PanelChange(c)
  <2>1. arming[d] \in {"failed", "gone"}
    BY <1>10 DEF Reject
  <2>2. CASE ui' = [ui EXCEPT ![d].running = FALSE]
    <3> DEFINE over == [ui[d] EXCEPT !.running = FALSE]
    <3>1. over.stop = ui[d].stop /\ ~over.running /\ over.debugging = ui[d].debugging
      BY <1>1 DEF Panels
    <3>2. ui' = [ui EXCEPT ![d] = over]
      BY <1>1, <2>2, Zenon
    <3> HIDE DEF over
    <3> QED
      BY <1>4, <3>1, <3>2
  <2> QED
    BY <1>2, <1>3, <1>10, <2>1, <2>2 DEF Reject
<1>11. ASSUME NEW d \in Comps, Takes(d) PROVE PanelChange(c)
  <2>1. CASE Ignored(d) \/ Unheard(d)
    BY <1>2, <2>1 DEF Ignored, Unheard
  <2>2. CASE Paused(d)
    <3>1. hook \in Comps /\ ui[hook] \in Panels
      BY <1>1, <2>2 DEF Paused, BridgeShape
    <3> DEFINE over == [ui[hook] EXCEPT !.paused = (Next1(d).kind = "paused"), !.stop = TRUE]
    <3>2. over.running = ui[hook].running /\ over.debugging = ui[hook].debugging
      BY <3>1 DEF Panels
    <3>3. ui' = [ui EXCEPT ![hook] = over]
      BY <1>1, <2>2, Zenon DEF Paused
    <3> HIDE DEF over
    <3> QED
      BY <1>4, <3>1, <3>2, <3>3
  <2>3. CASE Complete(d) \/ Interrupted(d)
    <3>1. hook \in Comps /\ Quiet
      BY <2>3 DEF Complete, Interrupted, Event, Heard, Arrives, BridgeShape
    <3>2. UNCHANGED ui \/ StopDebug(hook, Taken(d))
      BY <2>3 DEF Complete, Interrupted
    <3> QED
      BY <1>2, <1>3, <3>1, <3>2
  <2>4. ASSUME NEW p \in pending, RunEnds(d, p) \/ Reloaded(d, p) PROVE PanelChange(c)
    <3>1. p.comp \in Comps /\ ui[p.comp] \in Panels
      BY <1>1 DEF Asked
    <3> DEFINE ran == [ui[p.comp] EXCEPT !.running = FALSE]
               took == [ui[p.comp] EXCEPT !.source = IF Next1(d).ok THEN p.src ELSE @]
    <3>2. /\ ran.debugging = ui[p.comp].debugging /\ took.debugging = ui[p.comp].debugging
          /\ ~ran.running /\ took.running = ui[p.comp].running
          /\ ran.stop = ui[p.comp].stop /\ took.stop = ui[p.comp].stop
      BY <3>1 DEF Panels
    <3>3. ui' = [ui EXCEPT ![p.comp] = ran] \/ ui' = [ui EXCEPT ![p.comp] = took]
      BY <1>1, <2>4, Zenon DEF RunEnds, Reloaded
    <3> HIDE DEF ran, took
    <3> QED
      BY <1>4, <3>1, <3>2, <3>3
  <2>5. ASSUME NEW p \in pending, Started(d, p) \/ Verdict(d, p) PROVE PanelChange(c)
    <3>1. p.comp \in Comps /\ ui[p.comp] \in Panels /\ Quiet /\ p.kind \in {"start", "verdict"}
      BY <1>1, <2>5 DEF Asked, Started, Verdict, Resolves, Heard, Arrives
    <3>2. CASE StopDebug(p.comp, Taken(d))
      BY <1>3, <3>1, <3>2
    <3>3. CASE ui' = [ui EXCEPT ![p.comp].stop = TRUE] /\ p.kind = "start"
      <4> DEFINE over == [ui[p.comp] EXCEPT !.stop = TRUE]
      <4>1. over.running = ui[p.comp].running /\ over.debugging = ui[p.comp].debugging
        BY <3>1 DEF Panels
      <4>2. ui' = [ui EXCEPT ![p.comp] = over]
        BY <1>1, <3>3, Zenon
      <4> HIDE DEF over
      <4> QED
        BY <1>4, <3>1, <3>3, <4>1, <4>2
    <3> QED
      BY <2>5, <3>2, <3>3 DEF Started, Verdict
  <2> QED
    BY <1>11, <2>1, <2>2, <2>3, <2>4, <2>5 DEF Takes
<1>12. ASSUME NEW d \in Comps,
             \/ DetectTests(d) \/ PressReload(d) \/ Remove(d) \/ Armed(d) \/ ArmFails(d) \/ Resume(d)
             \/ VmTake(d) \/ VmEvent(d) \/ VmEnd(d)
       PROVE UNCHANGED ui
  BY <1>12 DEF DetectTests, PressReload, Remove, Armed, ArmFails, Resume, VmTake, VmEvent, VmEnd
<1> QED
  BY <1>2, <1>5, <1>6, <1>7, <1>8, <1>9, <1>10, <1>11, <1>12 DEF BridgeNext, bridgeVars

\* A continuation waits that was put there, and taken in its turn.
LEMMA WaitingStep ==
    ASSUME BridgeShape, [BridgeNext]_bridgeVars, NEW c \in Comps
    PROVE  \/ waiting'[c] = waiting[c]
           \/ /\ \E k \in Waits : waiting'[c] = Append(waiting[c], k) /\ (k = "start" => ui'[c].debugging)
              /\ \A d \in Comps : ui[d].debugging => ui'[d].debugging
           \/ Resume(c) \/ Reject(c)
<1>1. waiting \in [Comps -> Seq(Waits)] /\ ui \in [Comps -> Panels]
  BY DEF BridgeShape
<1>2. CASE UNCHANGED waiting
  BY <1>2
<1>3. ASSUME NEW d \in Comps, NEW k \in Waits, EnsureArmed(d, k)
      PROVE  waiting'[c] = IF c = d THEN Append(waiting[c], k) ELSE waiting[c]
  BY <1>3, EnsureArmedShape
<1>4. ASSUME NEW d \in Comps, DetectTests(d) \/ PressRun(d)
      PROVE  /\ \E k \in Waits : k # "start" /\ EnsureArmed(d, k)
             /\ \A e \in Comps : ui[e].debugging => ui'[e].debugging
  <2>1. CASE DetectTests(d)
    BY <2>1 DEF DetectTests, Waits
  <2>2. CASE PressRun(d)
    <3> DEFINE over == [ui[d] EXCEPT !.running = TRUE, !.source = ui[d].text]
    <3>1. over.debugging = ui[d].debugging
      BY <1>1 DEF Panels
    <3>2. ui' = [ui EXCEPT ![d] = over]
      BY <1>1, <2>2, Zenon DEF PressRun
    <3> HIDE DEF over
    <3> QED
      BY <1>1, <2>2, <3>1, <3>2 DEF PressRun, Waits
  <2> QED
    BY <1>4, <2>1, <2>2
<1>5. ASSUME NEW d \in Comps, PressDebug(d)
      PROVE  /\ EnsureArmed(d, "start") /\ "start" \in Waits /\ ui'[d].debugging
             /\ \A e \in Comps : ui[e].debugging => ui'[e].debugging
  <2> PICK t \in BOOLEAN : ui' = [ui EXCEPT ![d].debugging = TRUE, ![d].test = t]
    BY <1>5 DEF PressDebug
  <2> DEFINE over == [ui[d] EXCEPT !.debugging = TRUE, !.test = t]
  <2>1. over.debugging
    BY <1>1 DEF Panels
  <2>2. ui' = [ui EXCEPT ![d] = over]
    BY <1>1, Zenon
  <2> HIDE DEF over
  <2> QED
    BY <1>1, <1>5, <2>1, <2>2 DEF PressDebug, Waits
<1>6. ASSUME NEW d \in Comps, Resume(d) \/ Reject(d), d # c PROVE waiting'[c] = waiting[c]
  BY <1>1, <1>6 DEF Resume, Reject
<1>7. ASSUME NEW d \in Comps,
             \/ Edit(d) \/ PressReload(d) \/ PressContinue(d) \/ PressStop(d) \/ CloseWindow(d) \/ Remove(d)
             \/ Armed(d) \/ ArmFails(d) \/ Takes(d) \/ VmTake(d) \/ VmEvent(d) \/ VmEnd(d)
      PROVE  UNCHANGED waiting
  BY <1>7 DEF Edit, PressReload, PressContinue, PressStop, CloseWindow, Remove, Armed, ArmFails, Takes, VmTake,
              VmEvent, VmEnd, Ignored, RunEnds, Reloaded, Started, Verdict, Unheard, Paused, Complete, Interrupted
<1>8. ASSUME NEW d \in Comps, DetectTests(d) \/ PressRun(d) \/ PressDebug(d)
      PROVE  \/ waiting'[c] = waiting[c]
             \/ /\ \E k \in Waits : waiting'[c] = Append(waiting[c], k) /\ (k = "start" => ui'[c].debugging)
                /\ \A e \in Comps : ui[e].debugging => ui'[e].debugging
  BY <1>3, <1>4, <1>5, <1>8
<1> QED
  BY <1>2, <1>6, <1>7, <1>8 DEF BridgeNext, bridgeVars

-----------------------------------------------------------------------------
(* The other parts of the invariant.                                       *)

\* The frames that have not booted, and the listeners of those that have.
Unbooted == {c \in Comps : arming[c] \in {"no", "loading"}}
CountInv == listeners + Cardinality(Unbooted) <= Cardinality(Comps)

\* A step is one of the page, of a frame, or of the set of frames.
LEMMA StepKinds ==
    ASSUME BridgeShape, ~Mono => WaitInv, CallsInv, [BridgeNext]_bridgeVars
    PROVE  \/ UNCHANGED bridgeVars
           \/ \E ms : PageStep(ms) /\ PanelStep(ms)
           \/ \E c \in Comps : Remove(c) \/ Armed(c) \/ VmTake(c) \/ VmEvent(c) \/ VmEnd(c) \/ Ignored(c)
<1>1. CASE BridgeNext
  <2> PICK c \in Comps :
        \/ Edit(c) \/ DetectTests(c) \/ PressRun(c) \/ PressDebug(c) \/ PressReload(c)
        \/ PressContinue(c) \/ PressStop(c) \/ CloseWindow(c) \/ Remove(c)
        \/ Armed(c) \/ ArmFails(c) \/ Resume(c) \/ Reject(c)
        \/ Takes(c) \/ VmTake(c) \/ VmEvent(c) \/ VmEnd(c)
    BY <1>1 DEF BridgeNext
  <2>1. CASE Takes(c) /\ ~Ignored(c)
    BY <2>1, HeardStepIsPageStep
  <2>2. CASE Resume(c) \/ Reject(c)
    BY <2>2, ResumeIsPageStep
  <2> QED
    BY <2>1, <2>2, PressIsPageStep
<1> QED
  BY <1>1

\* A frame that is not up stays as it was made.
LEMMA BlankStep ==
    ASSUME BridgeShape, UpInv, ~Mono => WaitInv, CallsInv, [BridgeNext]_bridgeVars,
           NEW c \in Comps, arming[c] \in {"no", "loading"}, arming'[c] # "gone"
    PROVE  frame'[c] = Blank
<1>1. /\ frame[c] = Blank /\ frame[c].in = <<>> /\ frame[c].out = <<>> /\ frame[c].runs = {}
      /\ ~frame[c].going
  <2>1. frame[c] = Blank
    BY DEF UpInv
  <2>2. Blank.in = <<>> /\ Blank.out = <<>> /\ Blank.runs = {} /\ ~Blank.going
    BY DEF Blank
  <2> QED
    BY <2>1, <2>2
<1>2. ASSUME NEW ms, PageStep(ms) PROVE frame'[c] = frame[c]
  <2>1. c # attached
    BY RunnerAssumption DEF UpInv, Up
  <2> QED
    BY <1>2, <2>1 DEF PageStep
<1>3. ASSUME NEW d \in Comps, Remove(d) \/ Armed(d) PROVE frame'[c] = frame[c]
  BY <1>3 DEF Remove, Armed, BridgeShape
<1>4. ASSUME NEW d \in Comps, VmTake(d) \/ VmEvent(d) \/ VmEnd(d) \/ Ignored(d) PROVE frame'[c] = frame[c]
  <2>1. d # c
    BY <1>1, <1>4 DEF VmTake, VmEvent, VmEnd, Ignored, Arrives
  <2> QED
    BY <1>4, <2>1 DEF VmTake, VmEvent, VmEnd, Ignored, Taken, Put, BridgeShape
<1> QED
  BY <1>1, <1>2, <1>3, <1>4, StepKinds DEF bridgeVars

LEMMA UpStep ==
    ASSUME BridgeShape, BridgeShape', UpInv, ~Mono => WaitInv, CallsInv, [BridgeNext]_bridgeVars
    PROVE  UpInv'
<1>1. ASSUME NEW c \in Comps
      PROVE  /\ \/ arming'[c] = arming[c]
                \/ arming[c] = "no" /\ arming'[c] = "loading"
                \/ arming[c] = "loading" /\ arming'[c] \in {"armed", "failed"}
                \/ arming'[c] = "gone"
             /\ arming'[c] = "no" => waiting'[c] = waiting[c]
  BY ArmingStep
<1>2. \A c \in Comps : Up(c) => Up(c)'
  BY <1>1 DEF Up
<1>3. ASSUME NEW c \in Comps, arming'[c] \in {"no", "loading"} PROVE frame'[c] = Blank
  BY <1>1, <1>3, BlankStep
<1>4. ASSUME NEW c \in Comps, arming'[c] = "no" PROVE waiting'[c] = <<>>
  BY <1>1, <1>4 DEF UpInv
<1>5. attached' # NONE => Up(attached)'
  <2>1. attached \in Comps \cup {NONE}
    BY DEF BridgeShape
  <2>2. CASE attached' = attached
    BY <1>2, <2>1, <2>2 DEF UpInv, Up
  <2>3. CASE attached' \in Comps /\ arming'[attached'] = "armed"
    BY <2>3 DEF Up
  <2>4. ASSUME NEW c \in Comps PROVE attached' = attached \/ (attached' \in Comps /\ arming'[attached'] = "armed")
    BY ArmingStep
  <2>5. CASE Comps = {}
    BY <2>5 DEF BridgeNext, bridgeVars, UpInv, Up
  <2> QED
    BY <2>2, <2>3, <2>4, <2>5
<1>6. hook \in Comps \cup {NONE} /\ (hook # NONE => Up(hook))
  BY DEF BridgeShape, UpInv
<1>7. hook' # NONE => Up(hook)'
  BY <1>2, <1>6, HookStep DEF Up
<1>8. ASSUME NEW p \in pending'
      PROVE  (p.kind \in {"start", "verdict"} => Up(p.comp)') /\ (p.to # NONE => Up(p.to)')
  <2>1. CASE p \in pending
    <3>1. p.comp \in Comps /\ p.to \in Comps \cup {NONE}
      BY <2>1 DEF BridgeShape, Asked
    <3>2. (p.kind \in {"start", "verdict"} => Up(p.comp)) /\ (p.to # NONE => Up(p.to))
      BY <2>1 DEF UpInv
    <3> QED
      BY <1>2, <3>1, <3>2
  <2>2. CASE p \notin pending
    <3>1. /\ p.to = attached
          /\ p.kind \in {"start", "verdict"} => p.comp = hook \/ (p.comp \in Comps /\ arming[p.comp] = "armed")
          /\ p.kind = "verdict" => p.comp = hook /\ hook # NONE
          /\ p.comp = hook /\ p.kind \in {"start", "verdict"} => p.comp \in Comps
      <4>1. BridgeShape' => p.comp \in Comps
        BY DEF BridgeShape, Asked
      <4> QED
        BY <1>8, <2>2, <4>1, PendingStep
    <3>2. attached \in Comps \cup {NONE} /\ (attached # NONE => Up(attached))
      BY DEF BridgeShape, UpInv
    <3>3. p.to # NONE => Up(p.to)'
      BY <1>2, <3>1, <3>2
    <3>4. p.kind \in {"start", "verdict"} => Up(p.comp)'
      BY <1>2, <1>6, <3>1, RunnerAssumption DEF Up
    <3> QED
      BY <3>3, <3>4
  <2> QED
    BY <2>1, <2>2
<1>9. ASSUME NEW c \in Comps, ui'[c].stop PROVE Up(c)'
  <2>1. PanelChange(c)
    BY PanelsStep
  <2>2. Up(c)
    BY <1>9, <2>1, RunnerAssumption DEF PanelChange, UpInv
  <2> QED
    BY <1>2, <2>2
<1> QED
  BY <1>3, <1>4, <1>5, <1>7, <1>8, <1>9 DEF UpInv

LEMMA GoingStep ==
    ASSUME BridgeShape, GoingInv, LineInv, ~Mono => WaitInv, CallsInv, [BridgeNext]_bridgeVars
    PROVE  GoingInv'
<1> SUFFICES ASSUME NEW c \in Comps, frame'[c].going PROVE frame'[c].session # NONE
  BY DEF GoingInv
<1>1. frame[c].going => frame[c].session # NONE
  BY DEF GoingInv
<1>2. ASSUME NEW ms, PageStep(ms) PROVE frame'[c].session # NONE
  BY <1>1, <1>2 DEF PageStep
<1>3. ASSUME NEW d \in Comps, Remove(d) \/ Armed(d) PROVE frame'[c].session # NONE
  <2>1. ~Blank.going
    BY DEF Blank
  <2>2. frame'[c] = frame[c] \/ frame'[c] = Blank
    BY <1>3 DEF Remove, Armed, BridgeShape
  <2> QED
    BY <1>1, <2>1, <2>2
<1>4. ASSUME NEW d \in Comps, VmTake(d) PROVE frame'[c].session # NONE
  <2> PICK m \in ToFrame, out \in Seq(ToPage) : Served(d, m, out)
    BY <1>4, VmTakeIs DEF LineInv
  <2> QED
    BY <1>1 DEF Served
<1>5. ASSUME NEW d \in Comps, VmEvent(d) PROVE frame'[c].session # NONE
  BY <1>1, <1>5, VmEventIs
<1>6. ASSUME NEW d \in Comps, VmEnd(d) PROVE frame'[c].session # NONE
  BY <1>1, <1>6, VmEndIs
<1>7. ASSUME NEW d \in Comps, Ignored(d) PROVE frame'[c].session # NONE
  <2>1. frame[d].out # <<>> /\ frame' = Taken(d)
    BY <1>7 DEF Ignored, Arrives
  <2> QED
    BY <1>1, <2>1, TakenIs
<1> QED
  BY <1>1, <1>2, <1>3, <1>4, <1>5, <1>6, <1>7, StepKinds DEF bridgeVars

LEMMA CallsStep ==
    ASSUME BridgeShape, BridgeShape', CallsInv, [BridgeNext]_bridgeVars
    PROVE  CallsInv'
<1>1. nextId \in Nat /\ nextId' >= nextId /\ \A p \in pending : p.id \in Nat /\ p.id <= nextId
  BY PendingStep DEF BridgeShape, Asked, CallsInv
<1>5. nextId' \in Nat /\ \A p \in pending' : p.id \in Nat
  BY DEF BridgeShape, Asked
<1> SUFFICES ASSUME NEW p \in pending'
             PROVE  p.id <= nextId' /\ \A q \in pending' : p.id = q.id => p = q
  BY DEF CallsInv
<1>2. \A q \in pending' \ pending :
          /\ q.id > nextId /\ q.id <= nextId'
          /\ \A r \in pending' \ pending : q.id = r.id => q = r
  BY PendingStep
<1>3. p.id <= nextId'
  BY <1>1, <1>2, <1>5
<1>4. ASSUME NEW q \in pending', p.id = q.id PROVE p = q
  BY <1>1, <1>2, <1>4, <1>5 DEF CallsInv
<1> QED
  BY <1>3, <1>4

\* The debugger that waits for its frame keeps its session.
LEMMA WaitStep ==
    ASSUME ~Mono, BridgeShape, UpInv, WaitInv, [BridgeNext]_bridgeVars
    PROVE  WaitInv'
<1> SUFFICES ASSUME NEW c \in Comps, arming'[c] \in {"loading", "armed"},
                    NEW i \in DOMAIN waiting'[c], waiting'[c][i] = "start"
             PROVE  ui'[c].debugging
  BY DEF WaitInv
<1>1. arming[c] \in {"no", "loading", "armed"}
  <2>1. arming[c] \in {"no", "loading", "armed", "failed", "gone"}
    BY DEF BridgeShape
  <2>2. arming[c] = "gone" => arming'[c] = "gone"
    BY ArmingStep
  <2> QED
    BY <2>1, <2>2, ArmingStep
<1>2. waiting[c] \in Seq(Waits)
  BY DEF BridgeShape
<1>3. arming[c] = "no" => waiting[c] = <<>>
  BY DEF UpInv
<1>4. ASSUME NEW j \in DOMAIN waiting[c], waiting[c][j] = "start" PROVE ui[c].debugging
  <2>1. arming[c] # "no"
    BY <1>3, <1>4
  <2> QED
    BY <1>1, <1>4, <2>1 DEF WaitInv
<1>5. CASE Resume(c) \/ Reject(c)
  <2>1. Resume(c)
    BY <1>1, <1>5 DEF Reject
  <2>2. UNCHANGED ui /\ waiting'[c] = Tail(waiting[c]) /\ waiting[c] # <<>>
    BY <2>1 DEF Resume, BridgeShape
  <2>3. \E j \in DOMAIN waiting[c] : waiting'[c][i] = waiting[c][j]
    BY <1>2, <2>2, FirstTaken
  <2> QED
    BY <1>4, <2>2, <2>3
<1>6. CASE ~(Resume(c) \/ Reject(c))
  <2>1. CASE waiting'[c] = waiting[c]
    <3>1. ui[c].debugging /\ waiting[c] # <<>>
      BY <1>2, <1>4, <2>1
    <3>2. PanelChange(c)
      BY PanelsStep
    <3>3. ASSUME Quiet, Up(c) PROVE FALSE
      BY <1>1, <3>1, <3>3 DEF Quiet, Up
    <3>4. /\ ui[c].stop => Up(c)
          /\ c = hook => Up(c)
          /\ \A p \in pending : p.kind \in {"start", "verdict"} /\ p.comp = c => Up(c)
      BY RunnerAssumption DEF UpInv
    <3> QED
      BY <1>1, <3>1, <3>2, <3>3, <3>4 DEF PanelChange
  <2>2. CASE /\ \E k \in Waits : waiting'[c] = Append(waiting[c], k) /\ (k = "start" => ui'[c].debugging)
             /\ \A d \in Comps : ui[d].debugging => ui'[d].debugging
    <3> PICK k \in Waits : waiting'[c] = Append(waiting[c], k) /\ (k = "start" => ui'[c].debugging)
      BY <2>2
    <3>1. CASE ui[c].debugging
      BY <2>2, <3>1
    <3>2. CASE ~ui[c].debugging
      <4>1. waiting'[c][i] = k
        BY <1>2, <1>4, <3>2
      <4> QED
        BY <4>1
    <3> QED
      BY <3>1, <3>2
  <2> QED
    BY <1>6, <2>1, <2>2, WaitingStep
<1> QED
  BY <1>5, <1>6

\* Who says that it is running waits, or has made its call.
LEMMA RunningStep ==
    ASSUME BridgeShape, RunningInv, CallsInv, [BridgeNext]_bridgeVars
    PROVE  RunningInv'
<1> SUFFICES ASSUME NEW c \in Comps, ui'[c].running, arming'[c] # "gone"
             PROVE  \/ \E i \in DOMAIN waiting'[c] : waiting'[c][i] = "run"
                    \/ \E p \in pending' : p.comp = c /\ p.kind = "run"
  BY DEF RunningInv
<1>1. waiting[c] \in Seq(Waits) /\ arming[c] # "gone" /\ ui \in [Comps -> Panels]
  BY ArmingStep DEF BridgeShape
<1>2. ASSUME NEW p \in pending, p.comp = c, p.kind = "run" PROVE p \in pending'
  BY <1>2, PendingStep
<1>3. PanelChange(c)
  BY PanelsStep
<1>4. ASSUME waiting'[c] = Append(waiting[c], "run")
      PROVE  \E i \in DOMAIN waiting'[c] : waiting'[c][i] = "run"
  <2>1. "run" \in Waits
    BY DEF Waits
  <2>2. /\ Len(waiting[c]) + 1 \in DOMAIN waiting'[c]
        /\ waiting'[c][Len(waiting[c]) + 1] = "run"
    BY <1>1, <1>4, <2>1
  <2> QED
    BY <2>2
<1>5. CASE ui[c].running
  <2>1. \/ \E i \in DOMAIN waiting[c] : waiting[c][i] = "run"
        \/ \E p \in pending : p.comp = c /\ p.kind = "run"
    BY <1>1, <1>5 DEF RunningInv
  <2>2. CASE \E p \in pending : p.comp = c /\ p.kind = "run"
    BY <1>2, <2>2
  <2>3. ASSUME NEW i \in DOMAIN waiting[c], waiting[c][i] = "run"
        PROVE  \/ \E j \in DOMAIN waiting'[c] : waiting'[c][j] = "run"
               \/ \E p \in pending' : p.comp = c /\ p.kind = "run"
    <3>1. CASE waiting'[c] = waiting[c]
      BY <2>3, <3>1
    <3>2. CASE \E k \in Waits : waiting'[c] = Append(waiting[c], k)
      <4> PICK k \in Waits : waiting'[c] = Append(waiting[c], k)
        BY <3>2
      <4>1. i \in DOMAIN waiting'[c] /\ waiting'[c][i] = waiting[c][i]
        BY <1>1
      <4> QED
        BY <2>3, <4>1
    <3>3. CASE Resume(c) \/ Reject(c)
      <4>1. waiting[c] # <<>> /\ waiting'[c] = Tail(waiting[c])
        BY <3>3 DEF Resume, Reject, BridgeShape
      <4>2. CASE Head(waiting[c]) # "run"
        <5>1. i # 1
          BY <1>1, <2>3, <4>1, <4>2, FirstTaken
        <5>2. i - 1 \in DOMAIN waiting'[c] /\ waiting'[c][i - 1] = waiting[c][i]
          BY <1>1, <4>1, <5>1, FirstTaken
        <5> QED
          BY <2>3, <5>2
      <4>3. CASE Head(waiting[c]) = "run" /\ Resume(c)
        <5>1. Call(c, "run", ui[c].source, frame)
          BY <4>3 DEF Resume
        <5>2. [id |-> nextId + 1, comp |-> c, kind |-> "run", src |-> ui[c].source, to |-> attached] \in pending'
          BY <5>1 DEF Call
        <5> QED
          BY <5>2
      <4>4. CASE Head(waiting[c]) = "run" /\ Reject(c)
        <5>1. ui' = [ui EXCEPT ![c].running = FALSE]
          BY <4>4 DEF Reject
        <5> QED
          BY <1>1, <5>1 DEF Panels
      <4> QED
        BY <3>3, <4>2, <4>3, <4>4
    <3> QED
      BY <3>1, <3>2, <3>3, WaitingStep
  <2> QED
    BY <2>1, <2>2, <2>3
<1>6. CASE ~ui[c].running
  BY <1>3, <1>4, <1>6 DEF PanelChange
<1> QED
  BY <1>5, <1>6

\* A listener is added when a frame has booted, once for each.
LEMMA CountStep ==
    ASSUME BridgeShape, BridgeShape', CountInv, [BridgeNext]_bridgeVars
    PROVE  CountInv'
<1>1. IsFiniteSet(Comps)
  BY RunnerAssumption
<1>2. Unbooted \subseteq Comps /\ Unbooted' \subseteq Comps
  BY DEF Unbooted
<1>3. IsFiniteSet(Unbooted) /\ IsFiniteSet(Unbooted')
  BY <1>1, <1>2, FS_Subset
<1>4. Unbooted' \subseteq Unbooted
  <2> SUFFICES ASSUME NEW c \in Comps, arming'[c] \in {"no", "loading"} PROVE arming[c] \in {"no", "loading"}
    BY DEF Unbooted
  <2> QED
    BY ArmingStep
<1>5. /\ Cardinality(Unbooted) \in Nat /\ Cardinality(Unbooted') \in Nat /\ Cardinality(Comps) \in Nat
      /\ Cardinality(Unbooted') <= Cardinality(Unbooted)
      /\ listeners \in Nat /\ listeners' \in Nat
  BY <1>1, <1>3, <1>4, FS_CardinalityType, FS_Subset DEF BridgeShape
<1>6. CASE listeners' = listeners
  BY <1>5, <1>6 DEF CountInv
<1>7. ASSUME NEW c \in Comps, Armed(c) PROVE CountInv'
  <2>1. listeners' = listeners + 1 /\ c \in Unbooted /\ c \notin Unbooted'
    BY <1>7 DEF Armed, Attach, Unbooted, BridgeShape
  <2>2. Unbooted' \subseteq Unbooted \ {c}
    BY <1>4, <2>1
  <2>3. /\ IsFiniteSet(Unbooted \ {c}) /\ Cardinality(Unbooted \ {c}) = Cardinality(Unbooted) - 1
    BY <1>3, <2>1, FS_RemoveElement
  <2>4. Cardinality(Unbooted') <= Cardinality(Unbooted) - 1
    BY <2>2, <2>3, FS_Subset
  <2> QED
    BY <1>5, <2>1, <2>4 DEF CountInv
<1>8. ASSUME NEW c \in Comps,
        \/ Edit(c) \/ DetectTests(c) \/ PressRun(c) \/ PressDebug(c) \/ PressReload(c)
        \/ PressContinue(c) \/ PressStop(c) \/ CloseWindow(c) \/ Remove(c)
        \/ ArmFails(c) \/ Resume(c) \/ Reject(c)
        \/ Takes(c) \/ VmTake(c) \/ VmEvent(c) \/ VmEnd(c)
      PROVE  listeners' = listeners
  BY <1>8 DEF Edit, DetectTests, PressRun, PressDebug, PressReload, PressContinue, PressStop, CloseWindow,
              Remove, ArmFails, Resume, Reject, VmTake, VmEvent, VmEnd, runner,
              Takes, Ignored, RunEnds, Reloaded, Started, Verdict, Unheard, Paused, Complete, Interrupted
<1> QED
  BY <1>6, <1>7, <1>8 DEF BridgeNext, bridgeVars

-----------------------------------------------------------------------------
(* The theorems.                                                           *)

LEMMA BridgeStarts == BridgeInit => BridgeInv /\ CountInv
<1> SUFFICES ASSUME BridgeInit PROVE BridgeInv /\ CountInv
  OBVIOUS
<1>0. <<>> \in Seq(Waits) /\ <<>> \in Seq(ToFrame) /\ <<>> \in Seq(ToPage) /\ DOMAIN <<>> = {}
  OBVIOUS
<1>1. Blank \in Frames /\ Blank.in = <<>> /\ Blank.out = <<>> /\ Blank.runs = {}
      /\ Blank.session = NONE /\ ~Blank.going
  BY <1>0 DEF Blank, Frames
<1>2. \A c \in Comps : frame[c] = Blank /\ arming[c] = "no" /\ waiting[c] = <<>>
  BY DEF BridgeInit
<1> DEFINE panel == [text |-> 0, running |-> FALSE, source |-> 0, debugging |-> FALSE,
                     test |-> FALSE, stop |-> FALSE, paused |-> FALSE]
<1>3. panel \in Panels /\ ~panel.running /\ ~panel.debugging /\ ~panel.stop
  BY RunnerAssumption DEF Panels
<1>4. ui = [c \in Comps |-> panel]
  BY DEF BridgeInit
<1> HIDE DEF panel
<1>5. BridgeShape
  <2>1. frame \in [Comps -> Frames] /\ ui \in [Comps -> Panels]
    BY <1>1, <1>3, <1>4 DEF BridgeInit
  <2>2. waiting \in [Comps -> Seq(Waits)]
    BY <1>0 DEF BridgeInit
  <2> QED
    BY <2>1, <2>2 DEF BridgeShape, BridgeInit
<1>6. UpInv /\ GoingInv /\ CallsInv /\ WaitInv /\ RunningInv
  <2>1. attached = NONE /\ hook = NONE /\ pending = {}
    BY DEF BridgeInit
  <2> QED
    BY <1>0, <1>1, <1>2, <1>3, <1>4, <2>1
       DEF UpInv, GoingInv, CallsInv, WaitInv, RunningInv
<1>7. LineInv /\ HereInv
  <2>1. attached = NONE /\ pending = {} /\ nextId = 0
    BY DEF BridgeInit
  <2>2. attached \notin Present
    BY <2>1, RunnerAssumption DEF Present
  <2>3. \A f \in Comps : \A n : ~OnLine(f, n)
    BY <1>0, <1>1, <1>2 DEF OnLine
  <2> QED
    BY <1>0, <1>1, <1>2, <2>1, <2>2, <2>3 DEF LineInv, HereInv, NumbersAt, StartsAt
<1>8. CountInv
  <2>1. Unbooted = Comps /\ listeners = 0
    BY <1>2 DEF Unbooted, BridgeInit
  <2> QED
    BY <2>1, RunnerAssumption, FS_CardinalityType DEF CountInv
<1> QED
  BY <1>5, <1>6, <1>7, <1>8 DEF BridgeInv

LEMMA BridgeSteps == BridgeInv /\ CountInv /\ [BridgeNext]_bridgeVars => (BridgeInv /\ CountInv)'
<1> SUFFICES ASSUME BridgeInv, CountInv, [BridgeNext]_bridgeVars PROVE (BridgeInv /\ CountInv)'
  OBVIOUS
<1>1. /\ BridgeShape /\ UpInv /\ GoingInv /\ CallsInv /\ (~Mono => WaitInv) /\ RunningInv
      /\ LineInv /\ HereInv
  BY DEF BridgeInv
<1>2. BridgeShape'
  BY <1>1, ShapeStep
<1> QED
  BY <1>1, <1>2, UpStep, GoingStep, CallsStep, WaitStep, RunningStep, LineHereStep, CountStep DEF BridgeInv

LEMMA BridgeAlways == BridgeSpec => [](BridgeInv /\ CountInv)
BY BridgeStarts, BridgeSteps, PTL DEF BridgeSpec

(* The frames, the runner and the components keep to their types: there is  *)
(* no more than one listener for each component, every call has a component *)
(* and a number that was given out, and a frame that steps through a        *)
(* program has a debug session (runner.ts, fade-runnable.ts).               *)
THEOREM BridgeTypes == BridgeSpec => []BridgeTypeOK
<1>1. BridgeInv /\ CountInv => BridgeTypeOK
  <2> SUFFICES ASSUME BridgeInv, CountInv PROVE BridgeTypeOK
    OBVIOUS
  <2>1. BridgeShape /\ GoingInv /\ CallsInv
    BY DEF BridgeInv
  <2>2. \A c \in Comps : \A i \in 1 .. Len(waiting[c]) : waiting[c][i] \in {"run", "start", "list"}
    BY <2>1 DEF BridgeShape, Waits
  <2>3. listeners \in 0 .. Cardinality(Comps)
    <3>1. IsFiniteSet(Unbooted) /\ IsFiniteSet(Comps)
      BY RunnerAssumption, FS_Subset DEF Unbooted
    <3> QED
      BY <2>1, <3>1, FS_CardinalityType DEF CountInv, BridgeShape
  <2>4. \A p \in pending : p.id \in 1 .. nextId /\ p.comp \in Comps
    BY <2>1 DEF CallsInv, BridgeShape, Asked
  <2>5. ui \in [Comps -> [text : 0 .. MaxEdits, running : BOOLEAN, source : 0 .. MaxEdits,
                         debugging : BOOLEAN, test : BOOLEAN, stop : BOOLEAN, paused : BOOLEAN]]
    BY <2>1 DEF BridgeShape, Panels
  <2> QED
    BY <2>1, <2>2, <2>3, <2>4, <2>5 DEF BridgeTypeOK, BridgeShape, GoingInv
<1> QED
  BY <1>1, BridgeAlways, PTL

(* Without a game's window, which can be closed while its frame boots, a     *)
(* session in the frame the runner talks to always has a panel that shows    *)
(* it, or its termination behind it in the frame's queue: whatever blocks    *)
(* are run, debugged, stopped or removed, and in whatever order the frames   *)
(* boot and answer (fade-runnable.ts startDebug, stopDebug; runner.ts).      *)
THEOREM SessionIsOwnedHolds ==
    ASSUME ~Mono
    PROVE  BridgeSpec => []SessionIsOwned
<1>1. BridgeInv => SessionIsOwned
  <2> SUFFICES ASSUME BridgeInv, attached \in Present, frame[attached].session # NONE
               PROVE  \/ ui[frame[attached].session].debugging
                      \/ \E i \in 1 .. Len(frame[attached].in) : frame[attached].in[i].kind = "term"
    BY DEF SessionIsOwned
  <2>1. OwnedAt(attached) /\ frame[attached].in \in Seq(ToFrame)
    BY DEF BridgeInv, HereInv, BridgeShape, Frames, Present
  <2>2. DOMAIN frame[attached].in = 1 .. Len(frame[attached].in)
    BY <2>1
  <2> QED
    BY <2>1, <2>2 DEF OwnedAt
<1> QED
  BY <1>1, BridgeAlways, PTL

(* A component that says it is running waits for its frame, or its call is    *)
(* on its way and will be answered, unless its own frame or the one it was    *)
(* sent to is gone or no longer the runner's: Run is never greyed out for     *)
(* nothing (fade-runnable.ts run; runner.ts run, attachVmIframe).            *)
THEOREM RunIsTrackedHolds == BridgeSpec => []RunIsTracked
<1>1. BridgeInv => RunIsTracked
  <2> SUFFICES ASSUME BridgeInv, NEW c \in Comps, ui[c].running, ~CutOff(c)
               PROVE  \/ \E i \in 1 .. Len(waiting[c]) : waiting[c][i] = "run"
                      \/ \E p \in pending : p.comp = c /\ p.kind = "run" /\ OnItsWay(p.id, attached)
    BY DEF RunIsTracked
  <2>1. BridgeShape /\ RunningInv /\ HereInv
    BY DEF BridgeInv
  <2>2. \/ \E i \in DOMAIN waiting[c] : waiting[c][i] = "run"
        \/ \E p \in pending : p.comp = c /\ p.kind = "run"
    BY <2>1 DEF RunningInv, CutOff
  <2>3. DOMAIN waiting[c] = 1 .. Len(waiting[c])
    BY <2>1 DEF BridgeShape
  <2>4. ASSUME NEW p \in pending, p.comp = c, p.kind = "run" PROVE OnItsWay(p.id, attached)
    <3>1. attached \in Present /\ p.to = attached
      BY <2>4 DEF CutOff
    <3>2. OnLine(attached, p.id)
      BY <2>1, <2>4, <3>1 DEF HereInv, RunsAt
    <3>3. /\ DOMAIN frame[attached].in = 1 .. Len(frame[attached].in)
          /\ DOMAIN frame[attached].out = 1 .. Len(frame[attached].out)
      BY <2>1, <3>1 DEF BridgeShape, Frames, Present
    <3> QED
      BY <3>2, <3>3 DEF OnLine, OnItsWay
  <2> QED
    BY <2>2, <2>3, <2>4
<1> QED
  BY <1>1, BridgeAlways, PTL
=============================================================================
